------------------------------ MODULE Collector ------------------------------
(***************************************************************************)
(* From the informer caches to the record stream: the OnEvents handlers     *)
(* behind the synced gate (informer.go), the EXPOSURE refresh of backend    *)
(* Services (refs.go), the start-up order of main (main.go:284-322) and     *)
(* EmitFullSnapshot run by main, by SnapshotLoop and by the push loop's     *)
(* ACK trigger (snapshot.go).                                               *)
(*                                                                          *)
(* Each handler and each snapshot is a goroutine; nothing but the handler   *)
(* of one kind is serialised with itself.  An object is one UID (a pod is   *)
(* one too; Pods has its containers), so its states only move forward: 0    *)
(* not created, 1..MaxVersion live, Gone deleted.  client-go (cache first,  *)
(* then one FIFO of notifications per informer; a cache is keyed by name,   *)
(* so a relist that finds an object re-created notifies an UPDATE from the  *)
(* old UID to the new) and SPAM (last record of a UID wins; at SNAPSHOT_END *)
(* what is neither listed nor asserted since SNAPSHOT_BEGIN is tombstoned)  *)
(* are external.  The stream reaches SPAM in order here; PushLoop models    *)
(* the transport.                                                           *)
(***************************************************************************)
EXTENDS Integers, Sequences, FiniteSets

CONSTANTS
    Objects,        \* every object (UID) of the model
    Kinds,          \* the tracked kinds, in EmitFullSnapshot's order (a sequence)
    KindOf,         \* [Objects -> the kinds]
    NameOf,         \* [Objects -> names]: a cache has one object of a kind and name
    Backends,       \* [Objects -> Seq(Objects)]: the Services an Ingress or route points at
    Diffing,        \* kinds whose handler compares the old object with the new: the pods'
    Clusters,       \* bound: the objects that may come to be, one set for each behaviour
    Snapshotters,   \* goroutines that may run EmitFullSnapshot besides main
    Main,           \* the main goroutine, which runs the initial one
    MaxVersion      \* bound: states of a live object

KindSet == {Kinds[i] : i \in DOMAIN Kinds}
Gone == MaxVersion + 1
States == 0..Gone
Live(v) == v \in 1..MaxVersion

ASSUME CollectorAssumption ==
    /\ MaxVersion \in Nat \ {0}
    /\ Kinds \in Seq(KindSet)
    /\ KindOf \in [Objects -> KindSet]
    /\ Backends \in [Objects -> Seq(Objects)]
    /\ Clusters \subseteq SUBSET Objects
    /\ Diffing \subseteq KindSet /\ \A o \in Objects : KindOf[o] \in Diffing => Backends[o] = <<>>
    /\ Main \notin Snapshotters

Runners == Snapshotters \cup {Main}

VARIABLES
    main,       \* "syncing" | "snapshot" (the initial one) | "running"
    synced,     \* the gate of OnEvents
    existing,   \* objects of the informers' initial LISTs
    past,       \* objects deleted before this process started
    cache,      \* informer caches: the state of each object
    queue,      \* per kind, notifications not yet handled: <<event, object, state>>
    todo,       \* per kind, RefreshBackendServices' loop: <<object, position in Backends>>
    got,        \* per kind, the Service state read from the cache and not yet emitted
    step,       \* per runner, 0: idle, i: at Kinds[i], Len(Kinds) + 1: before SNAPSHOT_END
    listed,     \* per runner, Lister().List was called for the current kind
    items,      \* per runner, the listed <<object, state>> not emitted yet
    keys,       \* per runner, resource_keys collected so far
    asserted,   \* SPAM: per runner, objects with a record since its SNAPSHOT_BEGIN
    view,       \* SPAM: the current state of each object
    quiet       \* history: pods whose coming was not announced, and that no record showed since

clientVars  == <<existing, past, cache, queue>>
handlerVars == <<todo, got>>
snapVars    == <<step, listed, items, keys>>
spamVars    == <<asserted, view, quiet>>
vars == <<main, synced, clientVars, handlerVars, snapVars, spamVars>>

None == <<>>
Last == Len(Kinds) + 1
SameName(o, p) == KindOf[o] = KindOf[p] /\ NameOf[o] = NameOf[p]
LiveOf(k) == {<<o, cache[o]>> : o \in {x \in Objects : KindOf[x] = k /\ Live(cache[x])}}

-----------------------------------------------------------------------------
\* At start SPAM may still show objects of the previous process, deleted or not.
Init ==
    /\ main = "syncing" /\ synced = FALSE
    /\ existing \in SUBSET Objects /\ past \in SUBSET (Objects \ existing)
    /\ \A o, p \in existing : SameName(o, p) => o = p
    /\ cache = [o \in Objects |-> IF o \in past THEN Gone ELSE 0]
    /\ view \in [Objects -> {0, 1}]
    /\ \E c \in Clusters : /\ existing \subseteq c /\ Objects \ c \subseteq past
                          /\ \A o \in Objects : view[o] = 1 => o \in c \cap (existing \cup past)
    /\ quiet = {}
    /\ queue = [k \in KindSet |-> <<>>]
    /\ todo = [k \in KindSet |-> None] /\ got = [k \in KindSet |-> None]
    /\ step = [r \in Runners |-> 0] /\ listed = [r \in Runners |-> FALSE]
    /\ items = [r \in Runners |-> {}] /\ keys = [r \in Runners |-> {}]
    /\ asserted = [r \in Runners |-> {}]

-----------------------------------------------------------------------------
(* client-go: a watch event updates the cache and then notifies the listener. *)

EventName(from, to) ==
    IF to = Gone THEN "DELETE" ELSE IF from = 0 THEN "ADD" ELSE "UPDATE"

\* No other object has the name of o, nor has one of the initial LIST that is still to come.
Free(o) == \A p \in Objects \ {o} : SameName(o, p) =>
               \/ cache[p] = Gone
               \/ cache[p] = 0 /\ (o \in existing \/ p \notin existing)

\* An UPDATE may skip states (the reflector coalesces); a DELETE needs a live object.
WatchEvent(o) ==
    /\ cache[o] # Gone
    /\ \E to \in (cache[o] + 1)..Gone :
          /\ cache[o] = 0 => to = 1 /\ Free(o)
          /\ cache' = [cache EXCEPT ![o] = to]
          /\ queue' = [queue EXCEPT ![KindOf[o]] =
                          Append(@, <<EventName(cache[o], to), o, to>>)]
    /\ UNCHANGED <<main, synced, existing, past, handlerVars, snapVars, spamVars>>

\* A relist finds p under the name of o: client-go calls UpdateFunc with o and p, and never
\* DeleteFunc with o.
Relist(o, p) ==
    /\ o # p /\ SameName(o, p) /\ Live(cache[o]) /\ cache[p] = 0
    /\ cache' = [cache EXCEPT ![o] = Gone, ![p] = 1]
    /\ queue' = [queue EXCEPT ![KindOf[p]] = Append(@, <<"REPLACE", p, 1>>)]
    /\ UNCHANGED <<main, synced, existing, past, handlerVars, snapVars, spamVars>>

-----------------------------------------------------------------------------
(* Records: one line, applied by SPAM in stream order. *)

Emit(o, v) ==
    /\ view' = [view EXCEPT ![o] = v]
    /\ asserted' = [r \in Runners |-> IF step[r] # 0 THEN asserted[r] \cup {o} ELSE asserted[r]]
    /\ quiet' = quiet \ {o}

-----------------------------------------------------------------------------
(* Handlers: one goroutine per kind *)

\* Variant for the mutation runs: the gate opens only after the initial snapshot.
PassesLate == main = "running"

\* synced.Load() in OnEvents.
Passes == synced

\* AddFunc, UpdateFunc, DeleteFunc: emit the record; an Ingress or route that was added or
\* updated goes on to RefreshBackendServices.  The pods' handler says nothing of a pod that
\* took another's place and runs the same images in the same phase (pod.go:160).
Handle(k) ==
    /\ queue[k] # <<>> /\ todo[k] = None /\ got[k] = None
    /\ queue' = [queue EXCEPT ![k] = Tail(@)]
    /\ LET event == Head(queue[k])[1]
           o     == Head(queue[k])[2]
           v     == Head(queue[k])[3]
       IN  IF Passes
           THEN \/ /\ Emit(o, v)
                   /\ todo' = [todo EXCEPT ![k] = IF event = "DELETE" \/ Backends[o] = <<>>
                                                  THEN None ELSE <<o, 1>>]
                \/ /\ event = "REPLACE" /\ k \in Diffing
                   /\ quiet' = quiet \cup {o} /\ UNCHANGED <<asserted, view, todo>>
           ELSE UNCHANGED <<spamVars, todo>>
    /\ UNCHANGED <<main, synced, existing, past, cache, got, snapVars>>

\* The loop of kind k: the target it is at, those it has seen, where it goes next.
Target(k) == Backends[todo[k][1]][todo[k][2]]
Seen(k) == {Backends[todo[k][1]][n] : n \in 1..(todo[k][2] - 1)}
NextTarget(k) == IF todo[k][2] = Len(Backends[todo[k][1]])
                 THEN None ELSE <<todo[k][1], todo[k][2] + 1>>

\* Variant for the mutation runs: a target that is not in the cache is not skipped.
LookupUnchecked(k) ==
    /\ todo[k] # None /\ got[k] = None
    /\ todo' = [todo EXCEPT ![k] = NextTarget(k)]
    /\ got' = [got EXCEPT ![k] = IF Target(k) \notin Seen(k)
                                 THEN <<Target(k), cache[Target(k)]>> ELSE None]
    /\ UNCHANGED <<main, synced, clientVars, snapVars, spamVars>>

\* RefreshBackendServices: read the next target from the Service cache; skip it if it was
\* seen or is absent.
Lookup(k) ==
    /\ todo[k] # None /\ got[k] = None
    /\ todo' = [todo EXCEPT ![k] = NextTarget(k)]
    /\ got' = [got EXCEPT ![k] = IF Target(k) \notin Seen(k) /\ Live(cache[Target(k)])
                                 THEN <<Target(k), cache[Target(k)]>> ELSE None]
    /\ UNCHANGED <<main, synced, clientVars, snapVars, spamVars>>

\* EmitService("EXPOSURE", svc), with whatever the other goroutines did meanwhile.
EmitExposure(k) ==
    /\ got[k] # None
    /\ Emit(got[k][1], got[k][2])
    /\ got' = [got EXCEPT ![k] = None]
    /\ UNCHANGED <<main, synced, clientVars, todo, snapVars>>

-----------------------------------------------------------------------------
(* EmitFullSnapshot, as run by r *)

\* SNAPSHOT_BEGIN.
Begin(r) ==
    /\ step' = [step EXCEPT ![r] = 1]
    /\ keys' = [keys EXCEPT ![r] = {}]
    /\ asserted' = [asserted EXCEPT ![r] = {}]

\* Variant for the mutation runs: Services no Ingress or route in the cache points at are
\* left out, which is what .docs/architecture.md:47-61 describes and service.go:17-19 does not.
ListReferenced(r) ==
    LET Referenced(o) == \E i \in Objects : /\ Live(cache[i])
                                            /\ o \in {Backends[i][n] : n \in DOMAIN Backends[i]}
    IN  /\ step[r] \in DOMAIN Kinds /\ ~listed[r]
        /\ listed' = [listed EXCEPT ![r] = TRUE]
        /\ items' = [items EXCEPT ![r] =
                        {x \in LiveOf(Kinds[step[r]]) : Backends[x[1]] # <<>> \/ Referenced(x[1])}]
        /\ keys' = [keys EXCEPT ![r] = @ \cup {x[1] : x \in items'[r]}]
        /\ UNCHANGED <<main, synced, clientVars, handlerVars, step, spamVars>>

\* Lister().List of one kind: pointers to the objects as they are now; the SNAPSHOT line's
\* resource_keys come from this same list.
List(r) ==
    /\ step[r] \in DOMAIN Kinds /\ ~listed[r]
    /\ listed' = [listed EXCEPT ![r] = TRUE]
    /\ items' = [items EXCEPT ![r] = LiveOf(Kinds[step[r]])]
    /\ keys' = [keys EXCEPT ![r] = @ \cup {x[1] : x \in LiveOf(Kinds[step[r]])}]
    /\ UNCHANGED <<main, synced, clientVars, handlerVars, step, spamVars>>

\* DumpSorted: INITIAL for each listed object (which one is next is left open).
EmitInitial(r) ==
    /\ listed[r]
    /\ \E x \in items[r] : /\ Emit(x[1], x[2])
                           /\ items' = [items EXCEPT ![r] = @ \ {x}]
    /\ UNCHANGED <<main, synced, clientVars, handlerVars, step, listed, keys>>

\* emitSnapshotKeys: the SNAPSHOT line of the kind, then on to the next kind.
EmitKeys(r) ==
    /\ listed[r] /\ items[r] = {}
    /\ listed' = [listed EXCEPT ![r] = FALSE]
    /\ step' = [step EXCEPT ![r] = @ + 1]
    /\ UNCHANGED <<main, synced, clientVars, handlerVars, items, keys, spamVars>>

\* What SPAM tombstones when it receives the SNAPSHOT_END of r.
Unasserted(r) == {o \in Objects : Live(view[o]) /\ o \notin keys[r] \cup asserted[r]}

\* Variant for the mutation runs: the envelope is never closed.
EndMissing(r) ==
    /\ step[r] = Last
    /\ step' = [step EXCEPT ![r] = 0]
    /\ main' = IF r = Main THEN "running" ELSE main
    /\ UNCHANGED <<synced, clientVars, handlerVars, listed, items, keys, spamVars>>

\* SNAPSHOT_END; main goes on to start SnapshotLoop and PushLoop.
End(r) ==
    /\ step[r] = Last
    /\ step' = [step EXCEPT ![r] = 0]
    /\ main' = IF r = Main THEN "running" ELSE main
    /\ view' = [o \in Objects |-> IF o \in Unasserted(r) THEN Gone ELSE view[o]]
    /\ UNCHANGED <<synced, clientVars, handlerVars, listed, items, keys, asserted, quiet>>

-----------------------------------------------------------------------------
(* main, SnapshotLoop, the ACK trigger *)

\* WaitForCacheSync, synced.Store(true), EmitFullSnapshot("init").  HasSynced says the
\* initial LIST is in the cache, not that its notifications were handled.
OpenGate ==
    /\ main = "syncing"
    /\ \A o \in existing : cache[o] # 0
    /\ main' = "snapshot" /\ synced' = TRUE
    /\ Begin(Main)
    /\ UNCHANGED <<clientVars, handlerVars, listed, items, view, quiet>>

\* SnapshotLoop's timer, or the push loop's triggerSnapshot.
Reconcile(r) ==
    /\ main = "running" /\ r # Main /\ step[r] = 0
    /\ Begin(r)
    /\ UNCHANGED <<main, synced, clientVars, handlerVars, listed, items, view, quiet>>

-----------------------------------------------------------------------------
HandlerStep(k) == Handle(k) \/ Lookup(k) \/ EmitExposure(k)
SnapshotStep(r) == List(r) \/ EmitInitial(r) \/ EmitKeys(r) \/ End(r)

Next ==
    \/ \E o \in Objects : WatchEvent(o)
    \/ \E o, p \in Objects : Relist(o, p)
    \/ \E k \in KindSet : HandlerStep(k)
    \/ OpenGate
    \/ \E r \in Runners : SnapshotStep(r) \/ Reconcile(r)

Spec == Init /\ [][Next]_vars

\* Goroutines are scheduled, the watches deliver the initial LISTs, timers fire.
Fairness ==
    /\ WF_vars(OpenGate)
    /\ \A o \in Objects : WF_vars(o \in existing /\ cache[o] = 0 /\ WatchEvent(o))
    /\ \A k \in KindSet : WF_vars(HandlerStep(k))
    /\ \A r \in Runners : WF_vars(SnapshotStep(r)) /\ WF_vars(Reconcile(r))

FairSpec == Spec /\ Fairness

-----------------------------------------------------------------------------
(* Properties *)

TypeOK ==
    /\ main \in {"syncing", "snapshot", "running"} /\ synced \in BOOLEAN
    /\ existing \subseteq Objects /\ past \subseteq Objects
    /\ cache \in [Objects -> States] /\ view \in [Objects -> States]
    /\ queue \in [KindSet -> Seq({"ADD", "UPDATE", "REPLACE", "DELETE"} \X Objects \X (1..Gone))]
    /\ todo \in [KindSet -> {None} \cup (Objects \X (Nat \ {0}))]
    /\ \A k \in KindSet : todo[k] # None => todo[k][2] <= Len(Backends[todo[k][1]])
    /\ got \in [KindSet -> {None} \cup (Objects \X (1..MaxVersion))]
    /\ step \in [Runners -> 0..Last] /\ listed \in [Runners -> BOOLEAN]
    /\ items \in [Runners -> SUBSET (Objects \X (1..MaxVersion))]
    /\ keys \in [Runners -> SUBSET Objects] /\ asserted \in [Runners -> SUBSET Objects]
    /\ quiet \subseteq Objects

\* Every notification was handled and no snapshot is being written.
Settled ==
    /\ main = "running"
    /\ \A k \in KindSet : queue[k] = <<>> /\ todo[k] = None /\ got[k] = None
    /\ \A r \in Runners : step[r] = 0

\* No live object is missed, however its creation falls between the LIST, the gate, the
\* initial snapshot and its own notification (main.go:303-309: the gate opens first so that
\* an event is "streamed instead of being dropped until the next reconcile"), and a Service
\* is not dropped for want of an Ingress or route that points at it (service.go:17-19).  The
\* exception is a pod a relist found in the place of another, unchanged (pod.go:160): it
\* waits for the next record or snapshot that shows it.
NothingMissed ==
    Settled => \A o \in Objects \ quiet : Live(cache[o]) => Live(view[o])

\* A SNAPSHOT_END tombstones only objects that are gone from the cache, whatever was
\* created, handled or re-emitted while the snapshot was written, and however many
\* snapshots overlap.
TombstonesOnlyTheDead ==
    [][\A r \in Runners : step[r] = Last /\ step'[r] = 0 =>
          \A o \in Objects : view'[o] # view[o] => cache[o] = Gone]_vars

\* What was deleted while no process ran is not shown as live once the initial snapshot
\* has ended ("so SPAM can tombstone whatever lingered", main.go:287-289).
LingerersSwept == main = "running" => \A o \in past : ~Live(view[o])

\* SPAM's state of o is the cache's.
Agrees(o) == IF Live(cache[o]) THEN view[o] = cache[o] ELSE ~Live(view[o])

\* Reconcile snapshots heal every stale record: once the cluster stops changing, SPAM's
\* view becomes the cache's and stays so.
Converges == <>[](\A o \in Objects : Agrees(o))

-----------------------------------------------------------------------------
(* What comments and docs say and the code does not do *)

\* main.go:303-308: an event landing while the snapshot is written is streamed, "at worst
\* duplicating a snapshot line for the same object state"; so once everything is handled
\* SPAM holds the state the cache holds.
SettledIsCurrent == Settled => \A o \in Objects : Agrees(o)
=============================================================================
