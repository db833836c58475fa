--------------------------- MODULE CollectorProofs ---------------------------
(***************************************************************************)
(* Why the snapshots and the gate of Collector are safe for any number of   *)
(* objects, kinds and snapshotters.  The invariants of Collector say what   *)
(* SPAM shows when everything is handled or a snapshot ends; the inductive  *)
(* invariant says which step is still to come in between: for an object     *)
(* SPAM does not show yet, its notification or main's snapshot; for an      *)
(* object a snapshot has not asserted, the LIST of its kind.                *)
(***************************************************************************)
EXTENDS Collector, SequenceTheorems, TLAPS

-----------------------------------------------------------------------------
(* The inductive invariant *)

\* Where the goroutines are: the gate opens once, main runs the initial snapshot alone and
\* none after it, a snapshot holds listed objects only between the LIST and the SNAPSHOT
\* line of a kind.
Control ==
    /\ synced <=> main # "syncing"
    /\ \A r \in Runners : main = "syncing" => step[r] = 0
    /\ \A r \in Snapshotters : main # "running" => step[r] = 0
    /\ main = "snapshot" <=> step[Main] # 0
    /\ \A r \in Runners : listed[r] => step[r] \in DOMAIN Kinds
    /\ \A r \in Runners : ~listed[r] => items[r] = {}

\* A record is about an object the cache has held: what waits in a queue, what a handler
\* has read, what a snapshot has listed, what SPAM shows.
QueueSources ==
    \A k \in KindSet : \A i \in 1..Len(queue[k]) :
        /\ KindOf[queue[k][i][2]] = k
        /\ queue[k][i][3] <= cache[queue[k][i][2]]
        /\ queue[k][i][2] \notin past
GotSources ==
    \A k \in KindSet : got[k] # None => cache[got[k][1]] # 0 /\ got[k][1] \notin past
ItemSources ==
    \A r \in Runners : \A x \in items[r] : cache[x[1]] # 0 /\ x[1] \notin past
ViewSources ==
    \A o \in Objects : Live(view[o]) => cache[o] # 0 \/ (~synced /\ o \in existing)

Sources == QueueSources /\ GotSources /\ ItemSources /\ ViewSources

\* An object deleted before this process started is never listed nor asserted.
PastIsOver ==
    /\ \A o \in past : cache[o] = Gone
    /\ \A r \in Runners : \A o \in past : o \notin keys[r] \cup asserted[r]
    /\ LingerersSwept

\* The LIST of o's kind by r is still to come.
Ahead(r, o) == \E j \in DOMAIN Kinds : /\ Kinds[j] = KindOf[o]
                                       /\ j > step[r] \/ (j = step[r] /\ ~listed[r])

\* A notification about o, or main's snapshot, will still show it.
Notified(o) == \E i \in 1..Len(queue[KindOf[o]]) : queue[KindOf[o]][i][2] = o
InItems(o) == \E x \in items[Main] : x[1] = o
ToBeShown(o) == Notified(o) \/ (main = "snapshot" /\ (Ahead(Main, o) \/ InItems(o)))

\* Behind the open gate a live object is shown or will be, unless it came quietly.
Announced ==
    synced => \A o \in Objects : Live(cache[o]) =>
                  Live(view[o]) \/ ToBeShown(o) \/ o \in quiet

\* What a running snapshot neither listed nor saw asserted is gone, or still to be listed.
Covered ==
    \A r \in Runners : step[r] # 0 =>
        \A o \in Objects : Live(view[o]) /\ o \notin keys[r] \cup asserted[r] =>
            cache[o] = Gone \/ Ahead(r, o)

IInv == TypeOK /\ Control /\ Sources /\ PastIsOver /\ Announced /\ Covered
-----------------------------------------------------------------------------
(* Facts about the data *)

Notes == {"ADD", "UPDATE", "REPLACE", "DELETE"} \X Objects \X (1..Gone)

LEMMA Bounds ==
    /\ MaxVersion \in Nat /\ MaxVersion > 0 /\ Gone \in Nat /\ Gone > MaxVersion
    /\ Len(Kinds) \in Nat /\ DOMAIN Kinds = 1..Len(Kinds) /\ Last = Len(Kinds) + 1
BY CollectorAssumption, LenProperties DEF CollectorAssumption, Gone, Last

\* Every object has a kind, and the snapshot comes to it.
LEMMA EveryKindIsListed ==
    \A o \in Objects : /\ KindOf[o] \in KindSet
                       /\ \E j \in DOMAIN Kinds : Kinds[j] = KindOf[o]
BY CollectorAssumption DEF CollectorAssumption, KindSet

LEMMA BackendsOf ==
    \A o \in Objects : /\ Backends[o] \in Seq(Objects) /\ Len(Backends[o]) \in Nat
                       /\ \A n \in 1..Len(Backends[o]) : Backends[o][n] \in Objects
                       /\ Backends[o] # <<>> => Len(Backends[o]) >= 1
<1> SUFFICES ASSUME NEW o \in Objects
             PROVE  /\ Backends[o] \in Seq(Objects) /\ Len(Backends[o]) \in Nat
                    /\ \A n \in 1..Len(Backends[o]) : Backends[o][n] \in Objects
                    /\ Backends[o] # <<>> => Len(Backends[o]) >= 1
  OBVIOUS
<1>1. Backends[o] \in Seq(Objects)
  BY CollectorAssumption DEF CollectorAssumption
<1> QED
  BY <1>1

\* A queue is appended to and taken from at its ends.
LEMMA QueueFacts ==
    ASSUME NEW q \in Seq(Notes)
    PROVE  /\ Len(q) \in Nat
           /\ \A i \in 1..Len(q) : q[i] \in Notes
           /\ \A n \in Notes :
                 /\ Append(q, n) \in Seq(Notes) /\ Len(Append(q, n)) = Len(q) + 1
                 /\ \A i \in 1..Len(q) : Append(q, n)[i] = q[i]
                 /\ Append(q, n)[Len(q) + 1] = n
           /\ q # <<>> => /\ Len(q) > 0 /\ Head(q) = q[1]
                          /\ Tail(q) \in Seq(Notes) /\ Len(Tail(q)) = Len(q) - 1
                          /\ \A i \in 1..Len(Tail(q)) : Tail(q)[i] = q[i + 1]
OBVIOUS

LEMMA NoteParts ==
    \A n \in Notes : n[2] \in Objects /\ n[3] \in 1..Gone
BY DEF Notes

-----------------------------------------------------------------------------
(* Init *)

LEMMA InitIInv == Init => IInv
<1> SUFFICES ASSUME Init PROVE IInv
  OBVIOUS
<1> USE Bounds
<1>1. TypeOK
  <2>1. /\ cache \in [Objects -> States] /\ view \in [Objects -> States]
        /\ existing \subseteq Objects /\ past \subseteq Objects /\ quiet \subseteq Objects
    BY DEF Init, States
  <2>2. queue \in [KindSet -> Seq({"ADD", "UPDATE", "REPLACE", "DELETE"} \X Objects \X (1..Gone))]
    BY DEF Init
  <2>3. todo \in [KindSet -> {None}] /\ got \in [KindSet -> {None}]
    BY DEF Init
  <2>4. \A k \in KindSet : todo[k] = None
    BY <2>3
  <2>5. /\ step \in [Runners -> 0..Last] /\ listed \in [Runners -> BOOLEAN]
        /\ items \in [Runners -> SUBSET (Objects \X (1..MaxVersion))]
        /\ keys \in [Runners -> SUBSET Objects] /\ asserted \in [Runners -> SUBSET Objects]
    BY DEF Init
  <2>6. main \in {"syncing", "snapshot", "running"} /\ synced \in BOOLEAN
    BY DEF Init
  <2>7. /\ todo \in [KindSet -> {None} \cup (Objects \X (Nat \ {0}))]
        /\ got \in [KindSet -> {None} \cup (Objects \X (1..MaxVersion))]
    BY <2>3
  <2> QED
    BY <2>1, <2>2, <2>4, <2>5, <2>6, <2>7 DEF TypeOK
<1>2. Control
  BY DEF Init, Control, Runners
<1>3. Sources
  BY DEF Init, Sources, QueueSources, GotSources, ItemSources, ViewSources, Live, None
<1>4. PastIsOver
  BY DEF Init, PastIsOver, LingerersSwept
<1>5. Announced /\ Covered
  BY DEF Init, Announced, Covered
<1> QED
  BY <1>1, <1>2, <1>3, <1>4, <1>5 DEF IInv

-----------------------------------------------------------------------------
(* Types *)

\* TypeOK by groups of variables that change together.
MainTypes == main \in {"syncing", "snapshot", "running"} /\ synced \in BOOLEAN
ClientTypes ==
    /\ existing \subseteq Objects /\ past \subseteq Objects /\ cache \in [Objects -> States]
    /\ queue \in [KindSet -> Seq(Notes)]
HandlerTypes ==
    /\ todo \in [KindSet -> {None} \cup (Objects \X (Nat \ {0}))]
    /\ \A k \in KindSet : todo[k] # None => todo[k][2] <= Len(Backends[todo[k][1]])
    /\ got \in [KindSet -> {None} \cup (Objects \X (1..MaxVersion))]
SnapTypes ==
    /\ step \in [Runners -> 0..Last] /\ listed \in [Runners -> BOOLEAN]
    /\ items \in [Runners -> SUBSET (Objects \X (1..MaxVersion))]
    /\ keys \in [Runners -> SUBSET Objects]
SpamTypes ==
    /\ asserted \in [Runners -> SUBSET Objects] /\ view \in [Objects -> States]
    /\ quiet \subseteq Objects

LEMMA TypeGroups ==
    TypeOK <=> MainTypes /\ ClientTypes /\ HandlerTypes /\ SnapTypes /\ SpamTypes
BY DEF TypeOK, MainTypes, ClientTypes, HandlerTypes, SnapTypes, SpamTypes, Notes

LEMMA TypeGroupsNext ==
    TypeOK' <=> MainTypes' /\ ClientTypes' /\ HandlerTypes' /\ SnapTypes' /\ SpamTypes'
BY DEF TypeOK, MainTypes, ClientTypes, HandlerTypes, SnapTypes, SpamTypes, Notes

\* A group whose variables stay keeps its types.
LEMMA GroupsStay ==
    ASSUME TypeOK
    PROVE  /\ UNCHANGED <<main, synced>> => MainTypes'
           /\ UNCHANGED clientVars => ClientTypes'
           /\ UNCHANGED handlerVars => HandlerTypes'
           /\ UNCHANGED snapVars => SnapTypes'
           /\ UNCHANGED spamVars => SpamTypes'
<1> USE TypeGroups
<1>1. UNCHANGED <<main, synced>> => MainTypes'
  BY DEF MainTypes
<1>2. UNCHANGED clientVars => ClientTypes'
  BY DEF ClientTypes, clientVars
<1>3. UNCHANGED handlerVars => HandlerTypes'
  BY DEF HandlerTypes, handlerVars
<1>4. UNCHANGED snapVars => SnapTypes'
  BY DEF SnapTypes, snapVars
<1>5. UNCHANGED spamVars => SpamTypes'
  BY DEF SpamTypes, spamVars
<1> QED
  BY <1>1, <1>2, <1>3, <1>4, <1>5

\* Applying a record.
LEMMA EmitTypes ==
    ASSUME TypeOK, NEW o \in Objects, NEW v \in States, Emit(o, v)
    PROVE  SpamTypes'
BY DEF TypeOK, SpamTypes, Emit

\* What the informers do: an object comes to a new state and is notified; no other comes
\* alive.
Notifies(n) ==
    /\ n \in Notes
    /\ cache' \in [Objects -> States] /\ \A q \in Objects : cache[q] <= cache'[q]
    /\ cache[n[2]] # Gone /\ cache'[n[2]] = n[3]
    /\ \A q \in Objects \ {n[2]} : Live(cache'[q]) => cache'[q] = cache[q]
    /\ queue' = [queue EXCEPT ![KindOf[n[2]]] = Append(queue[KindOf[n[2]]], n)]
    /\ UNCHANGED <<main, synced, existing, past, handlerVars, snapVars, spamVars>>

LEMMA WatchNotifies ==
    ASSUME TypeOK, NEW o \in Objects, WatchEvent(o)
    PROVE  \E n \in Notes : Notifies(n)
<1> USE Bounds
<1>1. PICK to \in (cache[o] + 1)..Gone :
          /\ cache' = [cache EXCEPT ![o] = to]
          /\ queue' = [queue EXCEPT ![KindOf[o]] =
                          Append(queue[KindOf[o]], <<EventName(cache[o], to), o, to>>)]
  BY DEF WatchEvent
<1> DEFINE note == <<EventName(cache[o], to), o, to>>
<1>2. cache \in [Objects -> 0..Gone] /\ cache[o] # Gone
  BY TypeGroups DEF ClientTypes, States, WatchEvent
<1>3. to \in 1..Gone /\ cache[o] < to
  BY <1>2
<1>4. note \in Notes /\ note[2] = o /\ note[3] = to
  BY <1>3 DEF EventName, Notes
<1>5. cache' \in [Objects -> States] /\ \A q \in Objects : cache[q] <= cache'[q]
  BY <1>1, <1>2, <1>3 DEF States
<1>6. cache'[o] = to /\ \A q \in Objects \ {o} : cache'[q] = cache[q]
  BY <1>1, <1>2
<1>7. queue' = [queue EXCEPT ![KindOf[o]] = Append(queue[KindOf[o]], note)]
  BY <1>1
<1> HIDE DEF note
<1>8. Notifies(note)
  BY <1>2, <1>4, <1>5, <1>6, <1>7 DEF Notifies, WatchEvent
<1> QED
  BY <1>4, <1>8

\* The object a relist replaces is gone from the cache, the other is notified.
LEMMA RelistNotifies ==
    ASSUME TypeOK, NEW o \in Objects, NEW p \in Objects, Relist(o, p)
    PROVE  \E n \in Notes : Notifies(n)
<1> USE Bounds
<1> DEFINE note == <<"REPLACE", p, 1>>
<1>1. /\ cache \in [Objects -> 0..Gone] /\ o # p /\ Live(cache[o]) /\ cache[p] = 0
      /\ cache' = [cache EXCEPT ![o] = Gone, ![p] = 1]
  BY TypeGroups DEF ClientTypes, States, Relist
<1>2. note \in Notes /\ note[2] = p /\ note[3] = 1
  BY DEF Notes
<1>3. cache'[o] = Gone /\ cache'[p] = 1 /\ \A q \in Objects \ {o, p} : cache'[q] = cache[q]
  BY <1>1
<1>4. cache' \in [Objects -> States] /\ \A q \in Objects : cache[q] <= cache'[q]
  BY <1>1, <1>3 DEF States
<1>5. \A q \in Objects \ {p} : Live(cache'[q]) => cache'[q] = cache[q]
  BY <1>3 DEF Live
<1>6. queue' = [queue EXCEPT ![KindOf[p]] = Append(queue[KindOf[p]], note)]
  BY DEF Relist
<1> HIDE DEF note
<1>7. cache[note[2]] # Gone /\ cache'[note[2]] = note[3]
  BY <1>1, <1>2, <1>3
<1>8. UNCHANGED <<main, synced, existing, past, handlerVars, snapVars, spamVars>>
  BY DEF Relist
<1>9. Notifies(note)
  BY <1>2, <1>4, <1>5, <1>6, <1>7, <1>8 DEF Notifies
<1> QED
  BY <1>2, <1>9

LEMMA NotifiesTypes ==
    ASSUME TypeOK, NEW n \in Notes, Notifies(n)
    PROVE  TypeOK'
<1>1. queue \in [KindSet -> Seq(Notes)] /\ KindOf[n[2]] \in KindSet
  BY EveryKindIsListed, NoteParts, TypeGroups DEF ClientTypes
<1>2. Append(queue[KindOf[n[2]]], n) \in Seq(Notes)
  BY <1>1, QueueFacts
<1>3. queue' \in [KindSet -> Seq(Notes)]
  BY <1>1, <1>2 DEF Notifies
<1>4. ClientTypes'
  BY <1>3, TypeGroups DEF ClientTypes, Notifies
<1> QED
  BY <1>4, GroupsStay, TypeGroupsNext DEF Notifies

LEMMA HandlerTypesStep ==
    ASSUME TypeOK, NEW k \in KindSet, HandlerStep(k)
    PROVE  TypeOK'
<1> USE Bounds
<1>1. CASE Handle(k)
  <2> DEFINE note == Head(queue[k])
  <2>1. note \in Notes /\ Tail(queue[k]) \in Seq(Notes)
    BY <1>1, QueueFacts, TypeGroups DEF ClientTypes, Handle
  <2>2. note[2] \in Objects /\ note[3] \in States
    BY <2>1, NoteParts DEF States
  <2>3. ClientTypes'
    BY <1>1, <2>1, TypeGroups DEF ClientTypes, Handle
  <2>4. SpamTypes'
    <3>1. CASE Emit(note[2], note[3])
      BY <2>2, <3>1, EmitTypes
    <3>2. CASE quiet' = quiet \cup {note[2]} /\ UNCHANGED <<asserted, view>>
      BY <2>2, <3>2, TypeGroups DEF SpamTypes
    <3>3. CASE UNCHANGED spamVars
      BY <3>3, GroupsStay
    <3> QED
      BY <1>1, <3>1, <3>2, <3>3 DEF Handle
  <2>5. \/ todo' = todo
        \/ todo' = [todo EXCEPT ![k] = None]
        \/ Backends[note[2]] # <<>> /\ todo' = [todo EXCEPT ![k] = <<note[2], 1>>]
    BY <1>1 DEF Handle
  <2>6. HandlerTypes'
    BY <1>1, <2>2, <2>5, BackendsOf, TypeGroups DEF HandlerTypes, Handle
  <2> QED
    BY <1>1, <2>3, <2>4, <2>6, GroupsStay, TypeGroupsNext DEF Handle
<1>2. CASE Lookup(k)
  <2> DEFINE o == todo[k][1]
             n == todo[k][2]
  <2>1. /\ todo[k] \in Objects \X (Nat \ {0}) /\ n <= Len(Backends[o])
        /\ todo[k] = <<o, n>>
    BY <1>2, TypeGroups DEF HandlerTypes, Lookup, None
  <2>2. o \in Objects /\ n \in Nat /\ n >= 1 /\ Len(Backends[o]) \in Nat
    BY <2>1, BackendsOf
  <2>3. Target(k) \in Objects
    BY <2>1, <2>2, BackendsOf DEF Target
  <2>4. /\ todo' \in [KindSet -> {None} \cup (Objects \X (Nat \ {0}))]
        /\ \A kk \in KindSet : todo'[kk] # None => todo'[kk][2] <= Len(Backends[todo'[kk][1]])
    BY <1>2, <2>1, <2>2, TypeGroups DEF HandlerTypes, Lookup, NextTarget
  <2>5. \/ got' = [got EXCEPT ![k] = None]
        \/ /\ Live(cache[Target(k)])
           /\ got' = [got EXCEPT ![k] = <<Target(k), cache[Target(k)]>>]
    BY <1>2 DEF Lookup
  <2>6. got' \in [KindSet -> {None} \cup (Objects \X (1..MaxVersion))]
    BY <2>3, <2>5, TypeGroups DEF HandlerTypes, Live
  <2> QED
    BY <1>2, <2>4, <2>6, GroupsStay, TypeGroupsNext DEF HandlerTypes, Lookup
<1>3. CASE EmitExposure(k)
  <2>1. got[k][1] \in Objects /\ got[k][2] \in States
    BY <1>3, TypeGroups DEF HandlerTypes, EmitExposure, States
  <2>2. SpamTypes'
    BY <1>3, <2>1, EmitTypes DEF EmitExposure
  <2>3. HandlerTypes'
    BY <1>3, TypeGroups DEF HandlerTypes, EmitExposure
  <2> QED
    BY <1>3, <2>2, <2>3, GroupsStay, TypeGroupsNext DEF EmitExposure
<1> QED
  BY <1>1, <1>2, <1>3 DEF HandlerStep

\* What List puts into items and keys.
LEMMA ListedObjects ==
    ASSUME TypeOK, NEW k \in KindSet
    PROVE  /\ LiveOf(k) \in SUBSET (Objects \X (1..MaxVersion))
           /\ {x[1] : x \in LiveOf(k)} = {o \in Objects : KindOf[o] = k /\ Live(cache[o])}
           /\ \A x \in LiveOf(k) : /\ x[1] \in Objects /\ KindOf[x[1]] = k
                                   /\ Live(cache[x[1]]) /\ x[2] = cache[x[1]]
<1> DEFINE alive == {x \in Objects : KindOf[x] = k /\ Live(cache[x])}
<1>1. LiveOf(k) = {<<o, cache[o]>> : o \in alive}
  BY DEF LiveOf
<1>2. ASSUME NEW x \in LiveOf(k)
      PROVE  /\ x[1] \in alive /\ x[2] = cache[x[1]] /\ x \in Objects \X (1..MaxVersion)
  BY <1>1, <1>2 DEF Live
<1>3. ASSUME NEW o \in alive PROVE o \in {x[1] : x \in LiveOf(k)}
  <2>1. <<o, cache[o]>> \in LiveOf(k) /\ <<o, cache[o]>>[1] = o
    BY <1>1, <1>3
  <2> QED
    BY <2>1
<1> QED
  BY <1>2, <1>3

LEMMA SnapshotTypesStep ==
    ASSUME TypeOK, Control, NEW r \in Runners, SnapshotStep(r)
    PROVE  TypeOK'
<1> USE Bounds
<1>1. CASE List(r)
  <2>1. Kinds[step[r]] \in KindSet
    BY <1>1 DEF List, KindSet
  <2>2. SnapTypes'
    BY <1>1, <2>1, ListedObjects, TypeGroups DEF SnapTypes, List
  <2> QED
    BY <1>1, <2>2, GroupsStay, TypeGroupsNext DEF List
<1>2. CASE EmitInitial(r)
  <2>1. PICK x \in items[r] : Emit(x[1], x[2]) /\ items' = [items EXCEPT ![r] = @ \ {x}]
    BY <1>2 DEF EmitInitial
  <2>2. x[1] \in Objects /\ x[2] \in States
    BY <2>1, TypeGroups DEF SnapTypes, States
  <2>3. SpamTypes' /\ SnapTypes'
    BY <1>2, <2>1, <2>2, EmitTypes, TypeGroups DEF SnapTypes, EmitInitial
  <2> QED
    BY <1>2, <2>3, GroupsStay, TypeGroupsNext DEF EmitInitial
<1>3. CASE EmitKeys(r)
  <2>1. step[r] + 1 \in 0..Last
    BY <1>3 DEF Control, EmitKeys
  <2>2. SnapTypes'
    BY <1>3, <2>1, TypeGroups DEF SnapTypes, EmitKeys
  <2> QED
    BY <1>3, <2>2, GroupsStay, TypeGroupsNext DEF EmitKeys
<1>4. CASE End(r)
  <2>1. SnapTypes'
    BY <1>4, TypeGroups DEF SnapTypes, End
  <2>2. SpamTypes'
    BY <1>4, TypeGroups DEF SpamTypes, End, States
  <2>3. MainTypes'
    BY <1>4, TypeGroups DEF MainTypes, End
  <2> QED
    BY <1>4, <2>1, <2>2, <2>3, GroupsStay, TypeGroupsNext DEF End
<1> QED
  BY <1>1, <1>2, <1>3, <1>4 DEF SnapshotStep

LEMMA BeginTypes ==
    ASSUME TypeOK, NEW r \in Runners, Begin(r), UNCHANGED <<listed, items, view, quiet>>
    PROVE  SnapTypes' /\ SpamTypes'
BY Bounds, TypeGroups DEF SnapTypes, SpamTypes, Begin

LEMMA TypeStep ==
    ASSUME TypeOK, Control, [Next]_vars
    PROVE  TypeOK'
<1>1. ASSUME NEW o \in Objects, WatchEvent(o) PROVE TypeOK'
  BY <1>1, WatchNotifies, NotifiesTypes
<1>7. ASSUME NEW o \in Objects, NEW p \in Objects, Relist(o, p) PROVE TypeOK'
  BY <1>7, RelistNotifies, NotifiesTypes
<1>2. ASSUME NEW k \in KindSet, HandlerStep(k) PROVE TypeOK'
  BY <1>2, HandlerTypesStep
<1>3. CASE OpenGate
  <2>1. SnapTypes' /\ SpamTypes'
    BY <1>3, BeginTypes DEF OpenGate, Runners
  <2>2. MainTypes'
    BY <1>3 DEF OpenGate, MainTypes
  <2> QED
    BY <1>3, <2>1, <2>2, GroupsStay, TypeGroupsNext DEF OpenGate
<1>4. ASSUME NEW r \in Runners, SnapshotStep(r) PROVE TypeOK'
  BY <1>4, SnapshotTypesStep
<1>5. ASSUME NEW r \in Runners, Reconcile(r) PROVE TypeOK'
  <2>1. SnapTypes' /\ SpamTypes'
    BY <1>5, BeginTypes DEF Reconcile
  <2> QED
    BY <1>5, <2>1, GroupsStay, TypeGroupsNext DEF Reconcile
<1>6. CASE UNCHANGED vars
  BY <1>6, GroupsStay, TypeGroupsNext DEF vars
<1> QED
  BY <1>1, <1>2, <1>3, <1>4, <1>5, <1>6, <1>7 DEF Next

-----------------------------------------------------------------------------
(* Control *)

LEMMA ControlStays ==
    ASSUME Control, UNCHANGED <<main, synced, step, listed, items>>
    PROVE  Control'
<1>1. synced' <=> main' # "syncing"
  BY DEF Control
<1>2. \A r \in Runners : listed'[r] => step'[r] \in DOMAIN Kinds
  BY DEF Control
<1>3. \A r \in Runners : ~listed'[r] => items'[r] = {}
  BY DEF Control
<1> QED
  BY <1>1, <1>2, <1>3 DEF Control

LEMMA ControlStep ==
    ASSUME TypeOK, Control, [Next]_vars
    PROVE  Control'
<1> USE Bounds
<1> DEFINE MainPart == /\ synced <=> main # "syncing"
                       /\ \A r \in Runners : main = "syncing" => step[r] = 0
                       /\ \A r \in Snapshotters : main # "running" => step[r] = 0
                       /\ main = "snapshot" <=> step[Main] # 0
           ListPart == /\ \A r \in Runners : listed[r] => step[r] \in DOMAIN Kinds
                       /\ \A r \in Runners : ~listed[r] => items[r] = {}
<1>0. /\ step \in [Runners -> 0..Last] /\ listed \in [Runners -> BOOLEAN]
      /\ items \in [Runners -> SUBSET (Objects \X (1..MaxVersion))]
      /\ Main \in Runners /\ \A r \in Runners : r = Main \/ r \in Snapshotters
      /\ Main \notin Snapshotters /\ Snapshotters \subseteq Runners
  BY CollectorAssumption, TypeGroups DEF CollectorAssumption, SnapTypes, Runners
<1>1. ASSUME NEW o \in Objects, WatchEvent(o) PROVE Control'
  BY <1>1, ControlStays DEF WatchEvent, snapVars
<1>10. ASSUME NEW o \in Objects, NEW p \in Objects, Relist(o, p) PROVE Control'
  BY <1>10, ControlStays DEF Relist, snapVars
<1>2. ASSUME NEW k \in KindSet, HandlerStep(k) PROVE Control'
  BY <1>2, ControlStays DEF HandlerStep, Handle, Lookup, EmitExposure, snapVars
<1>3. CASE OpenGate
  <2>1. /\ main' = "snapshot" /\ synced' = TRUE /\ step' = [step EXCEPT ![Main] = 1]
        /\ listed' = listed /\ items' = items /\ main = "syncing"
    BY <1>3 DEF OpenGate, Begin
  <2>2. \A r \in Runners : step[r] = 0 /\ ~listed[r]
    BY <2>1 DEF Control
  <2>3. MainPart'
    BY <1>0, <2>1, <2>2
  <2>4. ListPart'
    BY <2>1, <2>2 DEF Control
  <2> QED
    BY <2>3, <2>4 DEF Control
<1>4. ASSUME NEW r \in Runners, List(r) PROVE Control'
  <2>1. /\ step[r] \in DOMAIN Kinds /\ listed' = [listed EXCEPT ![r] = TRUE]
        /\ items' = [items EXCEPT ![r] = LiveOf(Kinds[step[r]])]
        /\ UNCHANGED <<main, synced, step>>
    BY <1>4 DEF List
  <2>2. MainPart'
    BY <2>1 DEF Control
  <2>3. ListPart'
    BY <1>0, <2>1 DEF Control
  <2> QED
    BY <2>2, <2>3 DEF Control
<1>5. ASSUME NEW r \in Runners, EmitInitial(r) PROVE Control'
  <2>1. /\ listed[r] /\ \E x \in items[r] : items' = [items EXCEPT ![r] = @ \ {x}]
        /\ UNCHANGED <<main, synced, step, listed>>
    BY <1>5 DEF EmitInitial
  <2>2. MainPart'
    BY <2>1 DEF Control
  <2>3. ListPart'
    BY <1>0, <2>1 DEF Control
  <2> QED
    BY <2>2, <2>3 DEF Control
<1>6. ASSUME NEW r \in Runners, EmitKeys(r) PROVE Control'
  <2>1. /\ listed[r] /\ items[r] = {} /\ listed' = [listed EXCEPT ![r] = FALSE]
        /\ step' = [step EXCEPT ![r] = @ + 1] /\ UNCHANGED <<main, synced, items>>
    BY <1>6 DEF EmitKeys
  <2>2. step[r] # 0 /\ step'[r] # 0 /\ \A q \in Runners : q # r => step'[q] = step[q]
    BY <1>0, <2>1 DEF Control
  <2>3. MainPart'
    BY <1>0, <2>1, <2>2 DEF Control
  <2>4. ListPart'
    BY <1>0, <2>1 DEF Control
  <2> QED
    BY <2>3, <2>4 DEF Control
<1>7. ASSUME NEW r \in Runners, End(r) PROVE Control'
  <2>1. /\ step[r] = Last /\ step' = [step EXCEPT ![r] = 0]
        /\ main' = IF r = Main THEN "running" ELSE main
        /\ UNCHANGED <<synced, listed, items>>
    BY <1>7 DEF End, snapVars
  <2>2. ~listed[r] /\ step[r] # 0 /\ main # "syncing"
    BY <2>1 DEF Control
  <2>3. MainPart'
    BY <1>0, <2>1, <2>2 DEF Control
  <2>4. ListPart'
    BY <1>0, <2>1, <2>2 DEF Control
  <2> QED
    BY <2>3, <2>4 DEF Control
<1>8. ASSUME NEW r \in Runners, Reconcile(r) PROVE Control'
  <2>1. /\ step[r] = 0 /\ step' = [step EXCEPT ![r] = 1] /\ main = "running" /\ r # Main
        /\ UNCHANGED <<main, synced, listed, items>>
    BY <1>8 DEF Reconcile, Begin
  <2>2. ~listed[r]
    BY <2>1 DEF Control
  <2>3. MainPart'
    BY <1>0, <2>1 DEF Control
  <2>4. ListPart'
    BY <1>0, <2>1, <2>2 DEF Control
  <2> QED
    BY <2>3, <2>4 DEF Control
<1>9. CASE UNCHANGED vars
  BY <1>9, ControlStays DEF vars, snapVars
<1> QED
  BY <1>1, <1>2, <1>3, <1>4, <1>5, <1>6, <1>7, <1>8, <1>9, <1>10 DEF Next, SnapshotStep

-----------------------------------------------------------------------------
(* Sources *)

\* The informers only move an object forward; nothing else touches the caches.
LEMMA CacheForward ==
    ASSUME TypeOK, [Next]_vars
    PROVE  /\ existing' = existing /\ past' = past
           /\ \A o \in Objects : /\ cache[o] \in 0..Gone /\ cache'[o] \in 0..Gone
                                 /\ cache[o] <= cache'[o]
<1> USE Bounds
<1>0. cache \in [Objects -> 0..Gone]
  BY TypeGroups DEF ClientTypes, States
<1>1. ASSUME NEW n \in Notes, Notifies(n)
      PROVE  /\ existing' = existing /\ past' = past /\ cache' \in [Objects -> 0..Gone]
             /\ \A q \in Objects : cache[q] <= cache'[q]
  BY <1>1 DEF Notifies, States
<1>2. CASE (\E o \in Objects : WatchEvent(o)) \/ (\E o, p \in Objects : Relist(o, p))
  BY <1>0, <1>1, <1>2, WatchNotifies, RelistNotifies
<1>3. CASE UNCHANGED <<existing, past, cache>>
  BY <1>0, <1>3
<1>4. \A k \in KindSet : HandlerStep(k) => UNCHANGED <<existing, past, cache>>
  BY DEF HandlerStep, Handle, Lookup, EmitExposure, clientVars
<1>5. \A r \in Runners : SnapshotStep(r) \/ Reconcile(r) => UNCHANGED <<existing, past, cache>>
  BY DEF SnapshotStep, List, EmitInitial, EmitKeys, End, Reconcile, clientVars
<1>6. OpenGate \/ UNCHANGED vars => UNCHANGED <<existing, past, cache>>
  BY DEF OpenGate, vars, clientVars
<1> QED
  BY <1>2, <1>3, <1>4, <1>5, <1>6 DEF Next

\* A record that may be emitted: of an object the cache has held, that this process saw
\* alive, and a deletion only of an object that is gone.
Recorded(o, v) ==
    /\ o \in Objects /\ v \in 1..Gone /\ o \notin past
    /\ cache[o] # 0 /\ (v = Gone => cache[o] = Gone)
    /\ Emit(o, v)

\* What a handler does of a pod that took another's place unchanged: nothing.
Quiet(o) == quiet' = quiet \cup {o} /\ UNCHANGED <<asserted, view>>

\* The notification a handler takes is about an object of its kind; the rest keep their
\* order.
LEMMA HandleTakes ==
    ASSUME TypeOK, QueueSources, NEW k \in KindSet, Handle(k)
    PROVE  \E o \in Objects, v \in 1..Gone :
              /\ queue[k][1][2] = o /\ KindOf[o] = k
              /\ Len(queue[k]) >= 1 /\ Len(queue'[k]) = Len(queue[k]) - 1
              /\ \A i \in 1..Len(queue'[k]) : queue'[k][i] = queue[k][i + 1]
              /\ \A kk \in KindSet : kk # k => queue'[kk] = queue[kk]
              /\ Passes => Recorded(o, v) \/ Quiet(o)
              /\ ~Passes => UNCHANGED spamVars
<1> USE Bounds
<1> DEFINE o == queue[k][1][2]
           v == queue[k][1][3]
<1>1. queue \in [KindSet -> Seq(Notes)] /\ queue[k] # <<>>
  BY TypeGroups DEF ClientTypes, Handle
<1>2. /\ Len(queue[k]) \in Nat /\ Len(queue[k]) >= 1 /\ Head(queue[k]) = queue[k][1]
      /\ queue[k][1] \in Notes /\ Len(Tail(queue[k])) = Len(queue[k]) - 1
      /\ \A i \in 1..Len(Tail(queue[k])) : Tail(queue[k])[i] = queue[k][i + 1]
  BY <1>1, QueueFacts
<1>3. queue' = [queue EXCEPT ![k] = Tail(queue[k])]
  BY DEF Handle
<1>4. o \in Objects /\ v \in 1..Gone /\ KindOf[o] = k /\ v <= cache[o] /\ o \notin past
  BY <1>2, NoteParts DEF QueueSources
<1>5. cache[o] \in 0..Gone
  BY <1>4, TypeGroups DEF ClientTypes, States
<1>6. Passes => Emit(o, v) \/ Quiet(o)
  BY <1>2 DEF Handle, Quiet
<1>7. Passes => Recorded(o, v) \/ Quiet(o)
  BY <1>4, <1>5, <1>6 DEF Recorded
<1>8. ~Passes => UNCHANGED spamVars
  BY DEF Handle
<1>9. queue'[k] = Tail(queue[k]) /\ \A kk \in KindSet : kk # k => queue'[kk] = queue[kk]
  BY <1>1, <1>3
<1> HIDE DEF o, v
<1>10. o = queue[k][1][2]
  BY DEF o
<1> QED
  BY <1>2, <1>4, <1>7, <1>8, <1>9, <1>10

LEMMA ExposureRecords ==
    ASSUME TypeOK, GotSources, NEW k \in KindSet, EmitExposure(k)
    PROVE  \E o \in Objects, v \in 1..MaxVersion : Recorded(o, v)
<1>1. got[k] \in Objects \X (1..MaxVersion)
  BY TypeGroups DEF HandlerTypes, EmitExposure
<1>2. Recorded(got[k][1], got[k][2])
  BY <1>1, Bounds DEF GotSources, EmitExposure, Recorded
<1> QED
  BY <1>1, <1>2

LEMMA InitialRecords ==
    ASSUME TypeOK, ItemSources, NEW r \in Runners, EmitInitial(r)
    PROVE  \E x \in items[r] : /\ x[1] \in Objects /\ x[2] \in 1..MaxVersion
                               /\ Recorded(x[1], x[2])
                               /\ items' = [items EXCEPT ![r] = @ \ {x}]
<1>1. PICK x \in items[r] : Emit(x[1], x[2]) /\ items' = [items EXCEPT ![r] = @ \ {x}]
  BY DEF EmitInitial
<1>2. x \in Objects \X (1..MaxVersion)
  BY TypeGroups DEF SnapTypes
<1>3. Recorded(x[1], x[2])
  BY <1>1, <1>2, Bounds DEF ItemSources, Recorded
<1> QED
  BY <1>1, <1>2, <1>3

\* A source stays one as the caches move forward.
LEMMA SourcesStay ==
    ASSUME TypeOK, PastIsOver, [Next]_vars
    PROVE  /\ UNCHANGED queue /\ QueueSources => QueueSources'
           /\ UNCHANGED got /\ GotSources => GotSources'
           /\ UNCHANGED items /\ ItemSources => ItemSources'
<1> USE Bounds
<1>1. /\ queue \in [KindSet -> Seq(Notes)]
      /\ got \in [KindSet -> {None} \cup (Objects \X (1..MaxVersion))]
      /\ items \in [Runners -> SUBSET (Objects \X (1..MaxVersion))]
  BY TypeGroups DEF ClientTypes, HandlerTypes, SnapTypes
<1>2. /\ past' = past
      /\ \A o \in Objects : /\ cache[o] \in 0..Gone /\ cache'[o] \in 0..Gone
                            /\ cache[o] <= cache'[o]
  BY CacheForward
<1>3. UNCHANGED queue /\ QueueSources => QueueSources'
  <2> SUFFICES ASSUME UNCHANGED queue, QueueSources, NEW k \in KindSet,
                      NEW i \in 1..Len(queue[k])
               PROVE  /\ KindOf[queue[k][i][2]] = k
                      /\ queue[k][i][3] <= cache'[queue[k][i][2]]
                      /\ queue[k][i][2] \notin past'
    BY DEF QueueSources
  <2>1. queue[k][i] \in Notes
    BY <1>1, QueueFacts
  <2>2. queue[k][i][2] \in Objects /\ queue[k][i][3] \in 1..Gone
    BY <2>1, NoteParts
  <2>3. /\ KindOf[queue[k][i][2]] = k /\ queue[k][i][2] \notin past
        /\ queue[k][i][3] <= cache[queue[k][i][2]]
    BY DEF QueueSources
  <2> QED
    BY <1>2, <2>2, <2>3
<1>4. UNCHANGED got /\ GotSources => GotSources'
  <2> SUFFICES ASSUME UNCHANGED got, GotSources, NEW k \in KindSet, got[k] # None
               PROVE  cache'[got[k][1]] # 0 /\ got[k][1] \notin past'
    BY DEF GotSources
  <2>1. got[k][1] \in Objects /\ cache[got[k][1]] # 0 /\ got[k][1] \notin past
    BY <1>1 DEF GotSources
  <2> QED
    BY <1>2, <2>1
<1>5. UNCHANGED items /\ ItemSources => ItemSources'
  <2> SUFFICES ASSUME UNCHANGED items, ItemSources, NEW r \in Runners, NEW x \in items[r]
               PROVE  cache'[x[1]] # 0 /\ x[1] \notin past'
    BY DEF ItemSources
  <2>1. x[1] \in Objects /\ cache[x[1]] # 0 /\ x[1] \notin past
    BY <1>1 DEF ItemSources
  <2> QED
    BY <1>2, <2>1
<1> QED
  BY <1>3, <1>4, <1>5

\* A record shows only what the cache has held.
LEMMA RecordShowsKnown ==
    ASSUME TypeOK, ViewSources, NEW o \in Objects, NEW v \in 1..Gone, Recorded(o, v),
           UNCHANGED <<cache, synced, existing>>
    PROVE  ViewSources'
BY TypeGroups DEF SpamTypes, ViewSources, Recorded, Emit

LEMMA ViewSourcesStay ==
    ASSUME TypeOK, Control, ViewSources, [Next]_vars, UNCHANGED <<view, synced>>
    PROVE  ViewSources'
<1>1. /\ existing' = existing
      /\ \A o \in Objects : /\ cache[o] \in 0..Gone /\ cache'[o] \in 0..Gone
                            /\ cache[o] <= cache'[o]
  BY CacheForward
<1> QED
  BY <1>1, Bounds DEF ViewSources

LEMMA NotifiesSources ==
    ASSUME TypeOK, Sources, PastIsOver, NEW n \in Notes, Notifies(n)
    PROVE  QueueSources'
<1> USE Bounds
<1> DEFINE o == n[2]
<1>1. /\ queue' = [queue EXCEPT ![KindOf[o]] = Append(queue[KindOf[o]], n)]
      /\ cache'[o] = n[3] /\ cache[o] # Gone /\ past' = past
  BY DEF Notifies
<1>2. /\ cache \in [Objects -> 0..Gone] /\ queue \in [KindSet -> Seq(Notes)]
      /\ KindOf[o] \in KindSet /\ o \in Objects /\ n[3] \in 1..Gone
  BY EveryKindIsListed, NoteParts, TypeGroups DEF ClientTypes, States
<1>3. o \notin past
  BY <1>1 DEF PastIsOver
<1>5. \A q \in Objects : cache'[q] \in 0..Gone /\ cache[q] <= cache'[q]
  BY DEF Notifies, States
<1> SUFFICES ASSUME NEW k \in KindSet, NEW i \in 1..Len(queue'[k])
             PROVE  /\ KindOf[queue'[k][i][2]] = k
                    /\ queue'[k][i][3] <= cache'[queue'[k][i][2]]
                    /\ queue'[k][i][2] \notin past
  BY <1>1 DEF QueueSources
<1>6. CASE i \in 1..Len(queue[k]) /\ queue'[k][i] = queue[k][i]
  <2>1. queue[k][i][2] \in Objects /\ queue[k][i][3] \in 1..Gone
    BY <1>2, <1>6, QueueFacts, NoteParts
  <2>2. /\ KindOf[queue[k][i][2]] = k /\ queue[k][i][2] \notin past
        /\ queue[k][i][3] <= cache[queue[k][i][2]]
    BY <1>6 DEF Sources, QueueSources
  <2>3. /\ cache[queue[k][i][2]] \in 0..Gone /\ cache'[queue[k][i][2]] \in 0..Gone
        /\ cache[queue[k][i][2]] <= cache'[queue[k][i][2]]
    BY <1>2, <1>5, <2>1
  <2>4. queue[k][i][3] <= cache'[queue[k][i][2]]
    BY <2>1, <2>2, <2>3
  <2> QED
    BY <1>6, <2>2, <2>4
<1>7. CASE k = KindOf[o] /\ queue'[k][i] = n
  BY <1>1, <1>2, <1>3, <1>7
<1>8. queue'[KindOf[o]] = Append(queue[KindOf[o]], n)
  BY <1>1, <1>2
<1>9. \A kk \in KindSet : kk # KindOf[o] => queue'[kk] = queue[kk]
  BY <1>1, <1>2
<1>10. CASE k # KindOf[o]
  BY <1>6, <1>9, <1>10
<1>11. CASE k = KindOf[o]
  <2>1. /\ Len(queue[k]) \in Nat /\ Len(queue'[k]) = Len(queue[k]) + 1
        /\ \A j \in 1..Len(queue[k]) : queue'[k][j] = queue[k][j]
        /\ queue'[k][Len(queue[k]) + 1] = n
    <3>1. queue[k] \in Seq(Notes) /\ queue'[k] = Append(queue[k], n)
      BY <1>2, <1>8, <1>11
    <3>2. \A q \in Seq(Notes) :
             /\ Len(q) \in Nat /\ Len(Append(q, n)) = Len(q) + 1
             /\ \A j \in 1..Len(q) : Append(q, n)[j] = q[j]
             /\ Append(q, n)[Len(q) + 1] = n
      BY QueueFacts
    <3> QED
      BY <3>1, <3>2
  <2>2. i \in 1..Len(queue[k]) \/ i = Len(queue[k]) + 1
    BY <2>1
  <2> QED
    BY <1>6, <1>7, <1>11, <2>1, <2>2
<1> QED
  BY <1>10, <1>11

LEMMA HandleSources ==
    ASSUME TypeOK, Sources, NEW k \in KindSet, Handle(k)
    PROVE  QueueSources' /\ ViewSources'
<1> USE Bounds
<1>1. PICK o \in Objects, v \in 1..Gone :
          /\ queue[k][1][2] = o /\ KindOf[o] = k
          /\ Len(queue[k]) >= 1 /\ Len(queue'[k]) = Len(queue[k]) - 1
          /\ \A i \in 1..Len(queue'[k]) : queue'[k][i] = queue[k][i + 1]
          /\ \A kk \in KindSet : kk # k => queue'[kk] = queue[kk]
          /\ Passes => Recorded(o, v) \/ Quiet(o)
          /\ ~Passes => UNCHANGED spamVars
  BY HandleTakes DEF Sources
<1>2. Len(queue[k]) \in Nat
  BY QueueFacts, TypeGroups DEF ClientTypes
<1>3. UNCHANGED <<existing, past, cache, synced>>
  BY DEF Handle
<1>4. QueueSources'
  <2>1. ASSUME NEW kk \in KindSet, NEW i \in 1..Len(queue'[kk])
        PROVE  \E j \in 1..Len(queue[kk]) : queue'[kk][i] = queue[kk][j]
    <3>1. CASE kk = k
      <4>1. i + 1 \in 1..Len(queue[kk])
        BY <1>1, <1>2, <3>1
      <4> QED
        BY <1>1, <3>1, <4>1
    <3>2. CASE kk # k
      BY <1>1, <3>2
    <3> QED
      BY <3>1, <3>2
  <2>2. ASSUME NEW kk \in KindSet, NEW i \in 1..Len(queue'[kk])
        PROVE  /\ KindOf[queue'[kk][i][2]] = kk
               /\ queue'[kk][i][3] <= cache'[queue'[kk][i][2]]
               /\ queue'[kk][i][2] \notin past'
    <3>1. PICK j \in 1..Len(queue[kk]) : queue'[kk][i] = queue[kk][j]
      BY <2>1
    <3> QED
      BY <1>3, <3>1 DEF Sources, QueueSources
  <2> QED
    BY <2>2 DEF QueueSources
<1>5. CASE Recorded(o, v)
  BY <1>3, <1>4, <1>5, RecordShowsKnown DEF Sources
<1>6. CASE ~Passes \/ Quiet(o)
  <2>1. view' = view
    BY <1>1, <1>6 DEF spamVars, Quiet
  <2> QED
    BY <1>3, <1>4, <2>1 DEF Sources, ViewSources
<1> QED
  BY <1>1, <1>5, <1>6

LEMMA LookupSources ==
    ASSUME TypeOK, Sources, PastIsOver, NEW k \in KindSet, Lookup(k)
    PROVE  GotSources'
<1> USE Bounds
<1>1. \/ got' = [got EXCEPT ![k] = None]
      \/ /\ Live(cache[Target(k)])
         /\ got' = [got EXCEPT ![k] = <<Target(k), cache[Target(k)]>>]
  BY DEF Lookup
<1>2. /\ got \in [KindSet -> {None} \cup (Objects \X (1..MaxVersion))]
      /\ UNCHANGED <<cache, past>>
  BY TypeGroups DEF HandlerTypes, Lookup, clientVars
<1>3. CASE got' = [got EXCEPT ![k] = None]
  BY <1>2, <1>3 DEF Sources, GotSources
<1>4. CASE /\ Live(cache[Target(k)])
           /\ got' = [got EXCEPT ![k] = <<Target(k), cache[Target(k)]>>]
  <2>1. cache[Target(k)] # 0 /\ Target(k) \notin past
    BY <1>4 DEF Live, PastIsOver
  <2> QED
    BY <1>2, <1>4, <2>1 DEF Sources, GotSources
<1> QED
  BY <1>1, <1>3, <1>4

LEMMA ListSources ==
    ASSUME TypeOK, Sources, PastIsOver, NEW r \in Runners, List(r)
    PROVE  ItemSources'
<1> USE Bounds
<1>1. /\ Kinds[step[r]] \in KindSet /\ UNCHANGED <<cache, past>>
      /\ items' = [items EXCEPT ![r] = LiveOf(Kinds[step[r]])]
      /\ items \in [Runners -> SUBSET (Objects \X (1..MaxVersion))]
  BY TypeGroups DEF List, KindSet, clientVars, SnapTypes
<1>2. \A x \in LiveOf(Kinds[step[r]]) : Live(cache[x[1]])
  BY <1>1, ListedObjects
<1>3. \A x \in LiveOf(Kinds[step[r]]) : cache[x[1]] # 0 /\ x[1] \notin past
  BY <1>2 DEF Live, PastIsOver
<1> QED
  BY <1>1, <1>3 DEF Sources, ItemSources

LEMMA SourcesStep ==
    ASSUME TypeOK, Control, Sources, PastIsOver, [Next]_vars
    PROVE  Sources'
<1> USE SourcesStay, ViewSourcesStay
<1>0. ASSUME NEW n \in Notes, Notifies(n) PROVE Sources'
  BY <1>0, NotifiesSources DEF Sources, Notifies, handlerVars, snapVars, spamVars
<1>1. ASSUME NEW o \in Objects, WatchEvent(o) PROVE Sources'
  BY <1>0, <1>1, WatchNotifies
<1>12. ASSUME NEW o \in Objects, NEW p \in Objects, Relist(o, p) PROVE Sources'
  BY <1>0, <1>12, RelistNotifies
<1>2. ASSUME NEW k \in KindSet, Handle(k) PROVE Sources'
  BY <1>2, HandleSources DEF Sources, Handle, snapVars
<1>3. ASSUME NEW k \in KindSet, Lookup(k) PROVE Sources'
  BY <1>3, LookupSources DEF Sources, Lookup, clientVars, snapVars, spamVars
<1>4. ASSUME NEW k \in KindSet, EmitExposure(k) PROVE Sources'
  <2>1. GotSources'
    BY <1>4, TypeGroups DEF Sources, GotSources, EmitExposure, HandlerTypes, clientVars
  <2>2. ViewSources'
    <3>1. PICK o \in Objects, v \in 1..MaxVersion : Recorded(o, v)
      BY <1>4, ExposureRecords DEF Sources
    <3>2. v \in 1..Gone
      BY Bounds
    <3> QED
      BY <1>4, <3>1, <3>2, RecordShowsKnown DEF Sources, EmitExposure, clientVars
  <2> QED
    BY <1>4, <2>1, <2>2 DEF Sources, EmitExposure, clientVars, snapVars
<1>5. CASE OpenGate
  <2>1. ViewSources'
    BY <1>5 DEF Sources, ViewSources, OpenGate, clientVars
  <2> QED
    BY <1>5, <2>1 DEF Sources, OpenGate, clientVars, handlerVars
<1>6. ASSUME NEW r \in Runners, List(r) PROVE Sources'
  BY <1>6, ListSources DEF Sources, List, clientVars, handlerVars, spamVars
<1>7. ASSUME NEW r \in Runners, EmitInitial(r) PROVE Sources'
  <2>1. PICK x \in items[r] : /\ x[1] \in Objects /\ x[2] \in 1..MaxVersion
                              /\ Recorded(x[1], x[2])
                              /\ items' = [items EXCEPT ![r] = @ \ {x}]
    BY <1>7, InitialRecords DEF Sources
  <2>2. ItemSources'
    BY <1>7, <2>1, TypeGroups DEF Sources, ItemSources, EmitInitial, SnapTypes, clientVars
  <2>3. x[2] \in 1..Gone
    BY <2>1, Bounds
  <2>4. ViewSources'
    BY <1>7, <2>1, <2>3, RecordShowsKnown DEF Sources, EmitInitial, clientVars
  <2> QED
    BY <1>7, <2>2, <2>4 DEF Sources, EmitInitial, clientVars, handlerVars
<1>8. ASSUME NEW r \in Runners, EmitKeys(r) PROVE Sources'
  BY <1>8 DEF Sources, EmitKeys, clientVars, handlerVars, spamVars
<1>9. ASSUME NEW r \in Runners, End(r) PROVE Sources'
  <2>1. \A o \in Objects : Live(view'[o]) => Live(view[o])
    BY <1>9, Bounds DEF End, Live
  <2>2. ViewSources'
    BY <1>9, <2>1 DEF Sources, ViewSources, End, clientVars
  <2> QED
    BY <1>9, <2>2 DEF Sources, End, clientVars, handlerVars, snapVars
<1>10. ASSUME NEW r \in Runners, Reconcile(r) PROVE Sources'
  BY <1>10 DEF Sources, Reconcile, clientVars, handlerVars
<1>11. CASE UNCHANGED vars
  BY <1>11 DEF Sources, vars, clientVars, handlerVars, snapVars, spamVars
<1> QED
  BY <1>1, <1>2, <1>3, <1>4, <1>5, <1>6, <1>7, <1>8, <1>9, <1>10, <1>11, <1>12
  DEF Next, HandlerStep, SnapshotStep

-----------------------------------------------------------------------------
(* What was deleted before this process started *)

LEMMA PastCache ==
    ASSUME TypeOK, PastIsOver, [Next]_vars
    PROVE  \A o \in past' : cache'[o] = Gone
<1>1. past \subseteq Objects
  BY TypeGroups DEF ClientTypes
<1> QED
  BY <1>1, CacheForward, Bounds DEF PastIsOver

\* A record neither shows nor asserts an object of the past.
LEMMA PastUnrecorded ==
    ASSUME TypeOK, PastIsOver, [Next]_vars, NEW o \in Objects, NEW v \in 1..Gone,
           Recorded(o, v), UNCHANGED <<main, past, keys>>
    PROVE  PastIsOver'
<1>1. past \subseteq Objects /\ o \notin past /\ view \in [Objects -> States]
  BY TypeGroups DEF Recorded, ClientTypes, SpamTypes
<1>2. \A q \in past : view'[q] = view[q]
  BY <1>1 DEF Recorded, Emit
<1>3. LingerersSwept'
  BY <1>2 DEF PastIsOver, LingerersSwept
<1>4. \A r \in Runners : asserted'[r] \subseteq asserted[r] \cup {o}
  BY DEF Recorded, Emit
<1>5. \A r \in Runners : \A q \in past' : q \notin keys'[r] \cup asserted'[r]
  BY <1>1, <1>4 DEF PastIsOver
<1> QED
  BY <1>3, <1>5, PastCache DEF PastIsOver

LEMMA PastStays ==
    ASSUME TypeOK, PastIsOver, [Next]_vars, UNCHANGED <<main, past, keys, asserted, view>>
    PROVE  PastIsOver'
<1>1. LingerersSwept'
  BY DEF PastIsOver, LingerersSwept
<1>2. \A r \in Runners : \A q \in past' : q \notin keys'[r] \cup asserted'[r]
  BY DEF PastIsOver
<1> QED
  BY <1>1, <1>2, PastCache DEF PastIsOver

LEMMA PastBegins ==
    ASSUME TypeOK, PastIsOver, [Next]_vars, NEW r \in Runners, Begin(r),
           UNCHANGED <<past, view>>, main' = "running" => main = "running"
    PROVE  PastIsOver'
<1>1. LingerersSwept'
  BY DEF PastIsOver, LingerersSwept
<1>2. \A q \in Runners : /\ keys'[q] = keys[q] \/ keys'[q] = {}
                         /\ asserted'[q] = asserted[q] \/ asserted'[q] = {}
  BY TypeGroups DEF Begin, SnapTypes, SpamTypes
<1>3. \A q \in Runners : \A o \in past' : o \notin keys'[q] \cup asserted'[q]
  BY <1>2 DEF PastIsOver
<1> QED
  BY <1>1, <1>3, PastCache DEF PastIsOver

LEMMA PastStep ==
    ASSUME TypeOK, Control, Sources, PastIsOver, [Next]_vars
    PROVE  PastIsOver'
<1> USE Bounds
<1>1. ASSUME NEW o \in Objects, WatchEvent(o) PROVE PastIsOver'
  BY <1>1, PastStays DEF WatchEvent, snapVars, spamVars
<1>12. ASSUME NEW o \in Objects, NEW p \in Objects, Relist(o, p) PROVE PastIsOver'
  BY <1>12, PastStays DEF Relist, snapVars, spamVars
<1>2. ASSUME NEW k \in KindSet, Handle(k) PROVE PastIsOver'
  <2>1. UNCHANGED <<main, past, keys>>
    BY <1>2 DEF Handle, snapVars
  <2>2. \/ \E o \in Objects, v \in 1..Gone : Recorded(o, v)
        \/ UNCHANGED <<asserted, view>>
    BY <1>2, HandleTakes DEF Sources, Quiet, spamVars
  <2> QED
    BY <2>1, <2>2, PastUnrecorded, PastStays
<1>3. ASSUME NEW k \in KindSet, Lookup(k) PROVE PastIsOver'
  BY <1>3, PastStays DEF Lookup, clientVars, snapVars, spamVars
<1>4. ASSUME NEW k \in KindSet, EmitExposure(k) PROVE PastIsOver'
  <2>1. UNCHANGED <<main, past, keys>>
    BY <1>4 DEF EmitExposure, clientVars, snapVars
  <2>2. PICK o \in Objects, v \in 1..MaxVersion : Recorded(o, v)
    BY <1>4, ExposureRecords DEF Sources
  <2> QED
    BY <2>1, <2>2, PastUnrecorded
<1>5. CASE OpenGate
  BY <1>5, PastBegins DEF OpenGate, clientVars, Runners
<1>6. ASSUME NEW r \in Runners, List(r) PROVE PastIsOver'
  <2>1. /\ Kinds[step[r]] \in KindSet /\ UNCHANGED <<main, past, cache, spamVars>>
        /\ keys' = [keys EXCEPT ![r] = @ \cup {x[1] : x \in LiveOf(Kinds[step[r]])}]
        /\ keys \in [Runners -> SUBSET Objects]
    BY <1>6, TypeGroups DEF List, KindSet, clientVars, SnapTypes
  <2>2. \A o \in {x[1] : x \in LiveOf(Kinds[step[r]])} : o \notin past
    BY <2>1, ListedObjects DEF PastIsOver, Live
  <2>3. \A q \in Runners : \A o \in past' : o \notin keys'[q] \cup asserted'[q]
    BY <2>1, <2>2 DEF PastIsOver, spamVars
  <2>4. LingerersSwept'
    BY <2>1 DEF PastIsOver, LingerersSwept, spamVars
  <2> QED
    BY <2>3, <2>4, PastCache DEF PastIsOver
<1>7. ASSUME NEW r \in Runners, EmitInitial(r) PROVE PastIsOver'
  <2>1. UNCHANGED <<main, past, keys>>
    BY <1>7 DEF EmitInitial, clientVars
  <2>2. PICK x \in items[r] : /\ x[1] \in Objects /\ x[2] \in 1..MaxVersion
                              /\ Recorded(x[1], x[2])
    BY <1>7, InitialRecords DEF Sources
  <2> QED
    BY <2>1, <2>2, PastUnrecorded
<1>8. ASSUME NEW r \in Runners, EmitKeys(r) PROVE PastIsOver'
  BY <1>8, PastStays DEF EmitKeys, clientVars, spamVars
<1>9. ASSUME NEW r \in Runners, End(r) PROVE PastIsOver'
  <2>1. /\ view' = [o \in Objects |-> IF o \in Unasserted(r) THEN Gone ELSE view[o]]
        /\ main' = (IF r = Main THEN "running" ELSE main)
        /\ UNCHANGED <<past, keys, asserted>>
    BY <1>9 DEF End, clientVars, snapVars
  <2>2. past \subseteq Objects
    BY TypeGroups DEF ClientTypes
  <2>3. \A o \in past : ~Live(view'[o])
    <3> SUFFICES ASSUME NEW o \in past PROVE ~Live(view'[o])
      OBVIOUS
    <3>1. Live(view[o]) => o \in Unasserted(r)
      BY <2>2 DEF PastIsOver, Unasserted
    <3> QED
      BY <2>1, <2>2, <3>1 DEF Live
  <2>4. LingerersSwept'
    BY <2>1, <2>3 DEF LingerersSwept
  <2>5. \A q \in Runners : \A o \in past' : o \notin keys'[q] \cup asserted'[q]
    BY <2>1 DEF PastIsOver
  <2> QED
    BY <2>4, <2>5, PastCache DEF PastIsOver
<1>10. ASSUME NEW r \in Runners, Reconcile(r) PROVE PastIsOver'
  BY <1>10, PastBegins DEF Reconcile, clientVars
<1>11. CASE UNCHANGED vars
  BY <1>11, PastStays DEF vars, clientVars, snapVars, spamVars
<1> QED
  BY <1>1, <1>2, <1>3, <1>4, <1>5, <1>6, <1>7, <1>8, <1>9, <1>10, <1>11, <1>12
  DEF Next, HandlerStep, SnapshotStep

-----------------------------------------------------------------------------
(* The LIST still to come *)

LEMMA AheadStays ==
    ASSUME NEW r \in Runners, NEW o \in Objects, step'[r] = step[r], listed'[r] = listed[r]
    PROVE  Ahead(r, o)' <=> Ahead(r, o)
BY DEF Ahead

\* At the beginning of a snapshot every kind is still to be listed.
LEMMA AheadAtBegin ==
    ASSUME NEW r \in Runners, NEW o \in Objects, step'[r] = 1, ~listed'[r]
    PROVE  Ahead(r, o)'
<1>1. PICK j \in DOMAIN Kinds : Kinds[j] = KindOf[o]
  BY EveryKindIsListed
<1>2. j = 1 \/ j > 1
  BY Bounds
<1> QED
  BY <1>1, <1>2 DEF Ahead

\* A LIST brings the kind it lists behind, and no other.
LEMMA AheadAfterList ==
    ASSUME TypeOK, NEW r \in Runners, List(r), NEW o \in Objects, Ahead(r, o)
    PROVE  KindOf[o] = Kinds[step[r]] \/ Ahead(r, o)'
BY TypeGroups DEF SnapTypes, Ahead, List

\* After the SNAPSHOT line of a kind the next kind is to be listed.
LEMMA AheadAfterKeys ==
    ASSUME TypeOK, NEW r \in Runners, EmitKeys(r), NEW o \in Objects, Ahead(r, o)
    PROVE  Ahead(r, o)'
<1>1. PICK j \in DOMAIN Kinds : Kinds[j] = KindOf[o] /\ j > step[r]
  BY DEF Ahead, EmitKeys
<1>2. step'[r] = step[r] + 1 /\ ~listed'[r] /\ step[r] \in 0..Last /\ j \in Nat
  BY Bounds, TypeGroups DEF SnapTypes, EmitKeys
<1>3. j > step'[r] \/ j = step'[r]
  BY <1>1, <1>2, Bounds
<1> QED
  BY <1>1, <1>2, <1>3 DEF Ahead

\* Nothing is ahead of a snapshot that came to its end.
LEMMA NoneAheadAtEnd ==
    ASSUME NEW r \in Runners, NEW o \in Objects, step[r] = Last
    PROVE  ~Ahead(r, o)
BY Bounds DEF Ahead

-----------------------------------------------------------------------------
(* A snapshot covers what is alive *)

\* A record of an object asserts it in every running snapshot.
LEMMA CoveredByRecord ==
    ASSUME TypeOK, Covered, NEW o \in Objects, NEW v \in 1..Gone, Recorded(o, v),
           UNCHANGED <<cache, step, listed, keys>>
    PROVE  Covered'
<1> SUFFICES ASSUME NEW r \in Runners, step[r] # 0, NEW q \in Objects, Live(view'[q]),
                    q \notin keys[r] \cup asserted'[r]
             PROVE  cache[q] = Gone \/ Ahead(r, q)
  BY AheadStays DEF Covered
<1>1. asserted'[r] = asserted[r] \cup {o}
  BY DEF Recorded, Emit
<1>2. q # o /\ q \notin keys[r] \cup asserted[r]
  BY <1>1
<1>3. view'[q] = view[q]
  BY <1>2, TypeGroups DEF Recorded, Emit, SpamTypes
<1> QED
  BY <1>2, <1>3 DEF Covered

LEMMA CoveredStays ==
    ASSUME TypeOK, Covered, UNCHANGED <<cache, step, listed, keys, asserted, view>>
    PROVE  Covered'
<1> SUFFICES ASSUME NEW r \in Runners, step[r] # 0, NEW q \in Objects, Live(view[q]),
                    q \notin keys[r] \cup asserted[r]
             PROVE  cache[q] = Gone \/ Ahead(r, q)
  BY AheadStays DEF Covered
<1> QED
  BY DEF Covered

LEMMA CoveredBegins ==
    ASSUME TypeOK, Control, Covered, NEW r \in Runners, step[r] = 0, Begin(r),
           UNCHANGED <<cache, listed, view>>
    PROVE  Covered'
<1>1. /\ step \in [Runners -> 0..Last] /\ keys \in [Runners -> SUBSET Objects]
      /\ asserted \in [Runners -> SUBSET Objects]
  BY TypeGroups DEF SnapTypes, SpamTypes
<1>2. step'[r] = 1 /\ ~listed'[r]
  BY <1>1, Bounds DEF Begin, Control
<1>3. \A q \in Runners : q # r => /\ step'[q] = step[q] /\ keys'[q] = keys[q]
                                  /\ asserted'[q] = asserted[q]
  BY <1>1 DEF Begin
<1> SUFFICES ASSUME NEW q \in Runners, step'[q] # 0, NEW o \in Objects, Live(view[o]),
                    o \notin keys'[q] \cup asserted'[q]
             PROVE  cache[o] = Gone \/ Ahead(q, o)'
  BY DEF Covered
<1>4. CASE q = r
  BY <1>2, <1>4, AheadAtBegin
<1>5. CASE q # r
  BY <1>3, <1>5, AheadStays DEF Covered
<1> QED
  BY <1>4, <1>5

LEMMA CoveredNotifies ==
    ASSUME TypeOK, Covered, NEW n \in Notes, Notifies(n)
    PROVE  Covered'
<1> USE Bounds
<1>1. /\ \A q \in Objects : cache[q] \in 0..Gone /\ cache'[q] \in 0..Gone /\ cache[q] <= cache'[q]
      /\ UNCHANGED <<step, listed, keys, asserted, view>>
  BY TypeGroups DEF ClientTypes, States, Notifies, snapVars, spamVars
<1> SUFFICES ASSUME NEW r \in Runners, step[r] # 0, NEW q \in Objects, Live(view[q]),
                    q \notin keys[r] \cup asserted[r]
             PROVE  cache'[q] = Gone \/ Ahead(r, q)
  BY <1>1, AheadStays DEF Covered
<1>2. cache[q] = Gone \/ Ahead(r, q)
  BY DEF Covered
<1>3. cache[q] = Gone => cache'[q] = Gone
  BY <1>1
<1> QED
  BY <1>2, <1>3

LEMMA CoveredList ==
    ASSUME TypeOK, Control, ViewSources, Covered, NEW r \in Runners, List(r)
    PROVE  Covered'
<1> USE Bounds
<1>1. /\ Kinds[step[r]] \in KindSet /\ UNCHANGED <<cache, step, view, asserted>>
      /\ keys' = [keys EXCEPT ![r] = @ \cup {x[1] : x \in LiveOf(Kinds[step[r]])}]
      /\ listed' = [listed EXCEPT ![r] = TRUE]
      /\ keys \in [Runners -> SUBSET Objects] /\ listed \in [Runners -> BOOLEAN]
      /\ cache \in [Objects -> 0..Gone] /\ step[r] # 0
  BY TypeGroups DEF List, KindSet, clientVars, spamVars, SnapTypes, ClientTypes, States
<1>2. {x[1] : x \in LiveOf(Kinds[step[r]])}
        = {o \in Objects : KindOf[o] = Kinds[step[r]] /\ Live(cache[o])}
  BY <1>1, ListedObjects
<1>3. \A q \in Runners : q # r => keys'[q] = keys[q] /\ listed'[q] = listed[q]
  BY <1>1
<1> SUFFICES ASSUME NEW q \in Runners, step[q] # 0, NEW o \in Objects, Live(view[o]),
                    o \notin keys'[q] \cup asserted[q]
             PROVE  cache[o] = Gone \/ Ahead(q, o)'
  BY <1>1 DEF Covered
<1>4. CASE q # r
  BY <1>1, <1>3, <1>4, AheadStays DEF Covered
<1>5. CASE q = r
  <2>1. keys'[r] = keys[r] \cup {x \in Objects : KindOf[x] = Kinds[step[r]] /\ Live(cache[x])}
    BY <1>1, <1>2
  <2>2. cache[o] = Gone \/ Ahead(r, o)
    BY <1>5, <2>1 DEF Covered
  <2>3. synced
    BY <1>1 DEF Control
  <2>4. cache[o] \in 1..Gone
    BY <1>1, <2>3 DEF ViewSources
  <2>5. CASE KindOf[o] = Kinds[step[r]]
    <3>1. ~Live(cache[o])
      BY <1>5, <2>1, <2>5
    <3> QED
      BY <2>4, <3>1 DEF Live, Gone
  <2>6. CASE KindOf[o] # Kinds[step[r]]
    BY <1>5, <2>2, <2>6, AheadAfterList
  <2> QED
    BY <2>5, <2>6
<1> QED
  BY <1>4, <1>5

LEMMA CoveredStep ==
    ASSUME TypeOK, Control, Sources, Covered, [Next]_vars
    PROVE  Covered'
<1> USE Bounds
<1>0. /\ step \in [Runners -> 0..Last] /\ listed \in [Runners -> BOOLEAN]
      /\ Main \in Runners
  BY TypeGroups DEF SnapTypes, Runners
<1>1. ASSUME NEW o \in Objects, WatchEvent(o) PROVE Covered'
  BY <1>1, WatchNotifies, CoveredNotifies
<1>12. ASSUME NEW o \in Objects, NEW p \in Objects, Relist(o, p) PROVE Covered'
  BY <1>12, RelistNotifies, CoveredNotifies
<1>2. ASSUME NEW k \in KindSet, Handle(k) PROVE Covered'
  <2>1. UNCHANGED <<cache, step, listed, keys>>
    BY <1>2 DEF Handle, snapVars
  <2>2. \/ \E o \in Objects, v \in 1..Gone : Recorded(o, v)
        \/ UNCHANGED <<asserted, view>>
    BY <1>2, HandleTakes DEF Sources, Quiet, spamVars
  <2> QED
    BY <2>1, <2>2, CoveredByRecord, CoveredStays
<1>3. ASSUME NEW k \in KindSet, Lookup(k) PROVE Covered'
  BY <1>3, CoveredStays DEF Lookup, clientVars, snapVars, spamVars
<1>4. ASSUME NEW k \in KindSet, EmitExposure(k) PROVE Covered'
  <2>1. UNCHANGED <<cache, step, listed, keys>>
    BY <1>4 DEF EmitExposure, clientVars, snapVars
  <2>2. PICK o \in Objects, v \in 1..MaxVersion : Recorded(o, v)
    BY <1>4, ExposureRecords DEF Sources
  <2> QED
    BY <2>1, <2>2, CoveredByRecord
<1>5. CASE OpenGate
  <2>1. step[Main] = 0
    BY <1>0, <1>5 DEF Control, OpenGate
  <2> QED
    BY <1>0, <1>5, <2>1, CoveredBegins DEF OpenGate, clientVars
<1>6. ASSUME NEW r \in Runners, List(r) PROVE Covered'
  BY <1>6, CoveredList DEF Sources
<1>7. ASSUME NEW r \in Runners, EmitInitial(r) PROVE Covered'
  <2>1. UNCHANGED <<cache, step, listed, keys>>
    BY <1>7 DEF EmitInitial, clientVars
  <2>2. PICK x \in items[r] : /\ x[1] \in Objects /\ x[2] \in 1..MaxVersion
                              /\ Recorded(x[1], x[2])
    BY <1>7, InitialRecords DEF Sources
  <2> QED
    BY <2>1, <2>2, CoveredByRecord
<1>8. ASSUME NEW r \in Runners, EmitKeys(r) PROVE Covered'
  <2>1. /\ UNCHANGED <<cache, keys, asserted, view>> /\ step[r] # 0
        /\ \A q \in Runners : q # r => step'[q] = step[q] /\ listed'[q] = listed[q]
    BY <1>0, <1>8 DEF EmitKeys, clientVars, spamVars, Control
  <2> SUFFICES ASSUME NEW q \in Runners, step'[q] # 0, NEW o \in Objects, Live(view[o]),
                      o \notin keys[q] \cup asserted[q]
               PROVE  cache[o] = Gone \/ Ahead(q, o)'
    BY <2>1 DEF Covered
  <2>2. cache[o] = Gone \/ Ahead(q, o)
    BY <2>1 DEF Covered
  <2>3. CASE q = r
    BY <1>8, <2>2, <2>3, AheadAfterKeys
  <2>4. CASE q # r
    BY <2>1, <2>2, <2>4, AheadStays
  <2> QED
    BY <2>3, <2>4
<1>9. ASSUME NEW r \in Runners, End(r) PROVE Covered'
  <2>1. /\ UNCHANGED <<cache, listed, keys, asserted>>
        /\ \A q \in Runners : step'[q] # 0 => step'[q] = step[q]
        /\ \A o \in Objects : Live(view'[o]) => Live(view[o])
    BY <1>0, <1>9 DEF End, clientVars, snapVars, Live
  <2> QED
    BY <2>1, AheadStays DEF Covered
<1>10. ASSUME NEW r \in Runners, Reconcile(r) PROVE Covered'
  BY <1>10, CoveredBegins DEF Reconcile, clientVars
<1>11. CASE UNCHANGED vars
  BY <1>11, CoveredStays DEF vars, clientVars, snapVars, spamVars
<1> QED
  BY <1>1, <1>2, <1>3, <1>4, <1>5, <1>6, <1>7, <1>8, <1>9, <1>10, <1>11, <1>12
  DEF Next, HandlerStep, SnapshotStep

\* What a SNAPSHOT_END tombstones is gone from the cache.
LEMMA EndTombstones ==
    ASSUME TypeOK, Covered, NEW r \in Runners, End(r), NEW o \in Objects, view'[o] # view[o]
    PROVE  cache[o] = Gone
<1>1. o \in Unasserted(r) /\ step[r] = Last /\ step[r] # 0
  BY Bounds, TypeGroups DEF End, SpamTypes
<1> QED
  BY <1>1, NoneAheadAtEnd DEF Covered, Unasserted

-----------------------------------------------------------------------------
(* A live object is shown or will be *)

\* A record takes no live object from SPAM's view, and shows its own if it is alive.
LEMMA RecordShows ==
    ASSUME TypeOK, NEW o \in Objects, NEW v \in 1..Gone, Recorded(o, v)
    PROVE  /\ Live(cache[o]) => Live(view'[o])
           /\ \A q \in Objects : Live(cache[q]) /\ Live(view[q]) => Live(view'[q])
           /\ \A q \in Objects : q # o => view'[q] = view[q]
           /\ \A q \in Objects : q \in quiet => q \in quiet' \/ ~Live(cache[q]) \/ Live(view'[q])
BY Bounds, TypeGroups DEF SpamTypes, Recorded, Emit, Live, Gone

LEMMA AnnouncedNotifies ==
    ASSUME TypeOK, Control, Announced, NEW n \in Notes, Notifies(n)
    PROVE  Announced'
<1> USE Bounds
<1> DEFINE o == n[2]
<1>1. /\ queue' = [queue EXCEPT ![KindOf[o]] = Append(queue[KindOf[o]], n)]
      /\ \A q \in Objects : q # o /\ Live(cache'[q]) => Live(cache[q])
  BY DEF Notifies
<1>2. /\ queue \in [KindSet -> Seq(Notes)]
      /\ \A q \in Objects : KindOf[q] \in KindSet
      /\ UNCHANGED <<main, synced, step, listed, items, view, quiet>> /\ o \in Objects
  BY EveryKindIsListed, NoteParts, TypeGroups DEF ClientTypes, Notifies, snapVars, spamVars
<1>4. queue'[KindOf[o]] = Append(queue[KindOf[o]], n)
  BY <1>1, <1>2
<1>5. \A k \in KindSet : k # KindOf[o] => queue'[k] = queue[k]
  BY <1>1, <1>2
<1>6. /\ Len(queue[KindOf[o]]) \in Nat /\ Len(queue'[KindOf[o]]) = Len(queue[KindOf[o]]) + 1
      /\ \A i \in 1..Len(queue[KindOf[o]]) : queue'[KindOf[o]][i] = queue[KindOf[o]][i]
      /\ queue'[KindOf[o]][Len(queue[KindOf[o]]) + 1] = n
  <2>1. queue[KindOf[o]] \in Seq(Notes)
    BY <1>2
  <2>2. \A q \in Seq(Notes) :
           /\ Len(q) \in Nat /\ Len(Append(q, n)) = Len(q) + 1
           /\ \A i \in 1..Len(q) : Append(q, n)[i] = q[i]
           /\ Append(q, n)[Len(q) + 1] = n
    BY QueueFacts
  <2> QED
    BY <1>4, <2>1, <2>2
<1>7. Notified(o)'
  <2>1. Len(queue[KindOf[o]]) + 1 \in 1..Len(queue'[KindOf[o]])
    BY <1>6
  <2> QED
    BY <1>6, <2>1 DEF Notified
<1>8. ASSUME NEW q \in Objects, Notified(q) PROVE Notified(q)'
  <2>1. PICK i \in 1..Len(queue[KindOf[q]]) : queue[KindOf[q]][i][2] = q
    BY <1>8 DEF Notified
  <2>2. CASE KindOf[q] = KindOf[o]
    <3>1. i \in 1..Len(queue'[KindOf[q]]) /\ queue'[KindOf[q]][i] = queue[KindOf[q]][i]
      BY <1>6, <2>1, <2>2
    <3> QED
      BY <2>1, <3>1 DEF Notified
  <2>3. CASE KindOf[q] # KindOf[o]
    BY <1>2, <1>5, <2>1, <2>3 DEF Notified
  <2> QED
    BY <2>2, <2>3
<1> SUFFICES ASSUME synced, NEW q \in Objects, Live(cache'[q])
             PROVE  Live(view[q]) \/ ToBeShown(q)' \/ q \in quiet
  BY <1>2 DEF Announced
<1>9. CASE q = o
  BY <1>7, <1>9 DEF ToBeShown
<1>10. CASE q # o
  <2>1. Live(view[q]) \/ ToBeShown(q) \/ q \in quiet
    BY <1>1, <1>10 DEF Announced
  <2>2. Main \in Runners
    BY DEF Runners
  <2>3. Ahead(Main, q)' <=> Ahead(Main, q)
    BY <1>2, <2>2, AheadStays
  <2>4. InItems(q)' <=> InItems(q)
    BY <1>2 DEF InItems
  <2> QED
    BY <1>2, <1>8, <2>1, <2>3, <2>4 DEF ToBeShown
<1> QED
  BY <1>9, <1>10

\* It is enough that what was to be shown is, or still will be.
LEMMA AnnouncedStays ==
    ASSUME Announced, UNCHANGED <<cache, synced>>,
           \A q \in Objects : Live(cache[q]) /\ Live(view[q]) => Live(view'[q]),
           \A q \in Objects : q \in quiet => q \in quiet' \/ ~Live(cache[q]) \/ Live(view'[q]),
           \A q \in Objects : Live(cache[q]) /\ ToBeShown(q) =>
               Live(view'[q]) \/ ToBeShown(q)' \/ q \in quiet'
    PROVE  Announced'
BY DEF Announced

LEMMA AnnouncedHandle ==
    ASSUME TypeOK, Sources, Announced, NEW k \in KindSet, Handle(k)
    PROVE  Announced'
<1> USE Bounds
<1>1. PICK o \in Objects, v \in 1..Gone :
          /\ queue[k][1][2] = o /\ KindOf[o] = k
          /\ Len(queue[k]) >= 1 /\ Len(queue'[k]) = Len(queue[k]) - 1
          /\ \A i \in 1..Len(queue'[k]) : queue'[k][i] = queue[k][i + 1]
          /\ \A kk \in KindSet : kk # k => queue'[kk] = queue[kk]
          /\ Passes => Recorded(o, v) \/ Quiet(o)
          /\ ~Passes => UNCHANGED spamVars
  BY HandleTakes DEF Sources
<1>2. Len(queue[k]) \in Nat
  BY QueueFacts, TypeGroups DEF ClientTypes
<1>3. UNCHANGED <<main, synced, cache, step, listed, items>> /\ Main \in Runners
  BY DEF Handle, snapVars, Runners
<1>4. CASE ~synced
  BY <1>3, <1>4 DEF Announced
<1>5. CASE synced
  <2>1. Recorded(o, v) \/ Quiet(o)
    BY <1>1, <1>5 DEF Passes
  <2>2. /\ Live(cache[o]) => Live(view'[o]) \/ o \in quiet'
        /\ \A q \in Objects : Live(cache[q]) /\ Live(view[q]) => Live(view'[q])
        /\ \A q \in Objects : q \in quiet => q \in quiet' \/ ~Live(cache[q]) \/ Live(view'[q])
    <3>1. CASE Recorded(o, v)
      BY <3>1, RecordShows
    <3>2. CASE Quiet(o)
      BY <3>2 DEF Quiet
    <3> QED
      BY <2>1, <3>1, <3>2
  <2>3. ASSUME NEW q \in Objects, Notified(q) PROVE q = o \/ Notified(q)'
    <3>1. PICK i \in 1..Len(queue[KindOf[q]]) : queue[KindOf[q]][i][2] = q
      BY <2>3 DEF Notified
    <3>2. CASE KindOf[q] = k /\ i = 1
      BY <1>1, <3>1, <3>2
    <3>3. CASE KindOf[q] = k /\ i # 1
      <4>1. i - 1 \in 1..Len(queue'[k])
        BY <1>1, <1>2, <3>1, <3>3
      <4>2. queue'[k][i - 1] = queue[k][(i - 1) + 1] /\ (i - 1) + 1 = i
        BY <1>1, <1>2, <3>3, <4>1
      <4> QED
        BY <3>1, <3>3, <4>1, <4>2 DEF Notified
    <3>4. CASE KindOf[q] # k
      <4>1. queue'[KindOf[q]] = queue[KindOf[q]]
        BY <1>1, <3>4, EveryKindIsListed
      <4> QED
        BY <3>1, <4>1 DEF Notified
    <3> QED
      BY <3>2, <3>3, <3>4
  <2>4. ASSUME NEW q \in Objects, Live(cache[q]), ToBeShown(q)
        PROVE  Live(view'[q]) \/ ToBeShown(q)' \/ q \in quiet'
    <3>1. Ahead(Main, q)' <=> Ahead(Main, q)
      BY <1>3, AheadStays
    <3>2. InItems(q)' <=> InItems(q)
      BY <1>3 DEF InItems
    <3> QED
      BY <1>3, <2>2, <2>3, <2>4, <3>1, <3>2 DEF ToBeShown
  <2> QED
    BY <1>3, <2>2, <2>4, AnnouncedStays
<1> QED
  BY <1>4, <1>5

\* A step that leaves the queues and main's snapshot alone and takes nothing alive away.
LEMMA AnnouncedApart ==
    ASSUME Announced, UNCHANGED <<main, synced, cache, queue>>,
           step'[Main] = step[Main], listed'[Main] = listed[Main], items'[Main] = items[Main],
           \A q \in Objects : q \in quiet => q \in quiet' \/ ~Live(cache[q]) \/ Live(view'[q]),
           \A q \in Objects : Live(cache[q]) /\ Live(view[q]) => Live(view'[q])
    PROVE  Announced'
<1>1. ASSUME NEW q \in Objects, ToBeShown(q) PROVE ToBeShown(q)'
  <2>1. Main \in Runners
    BY DEF Runners
  <2>2. Ahead(Main, q)' <=> Ahead(Main, q)
    BY <2>1, AheadStays
  <2>3. InItems(q)' <=> InItems(q)
    BY DEF InItems
  <2>4. Notified(q)' <=> Notified(q)
    BY DEF Notified
  <2> QED
    BY <1>1, <2>2, <2>3, <2>4 DEF ToBeShown
<1> QED
  BY <1>1, AnnouncedStays

\* Main's own LIST, INITIAL and SNAPSHOT lines.
LEMMA AnnouncedMain ==
    ASSUME TypeOK, Control, Sources, Announced,
           List(Main) \/ EmitInitial(Main) \/ EmitKeys(Main)
    PROVE  Announced'
<1> USE Bounds
<1>1. /\ Main \in Runners /\ UNCHANGED <<main, synced, cache, queue>>
      /\ items \in [Runners -> SUBSET (Objects \X (1..MaxVersion))]
      /\ listed \in [Runners -> BOOLEAN] /\ cache \in [Objects -> 0..Gone]
  BY TypeGroups DEF Runners, List, EmitInitial, EmitKeys, clientVars, SnapTypes,
     ClientTypes, States
<1>2. \A q \in Objects : Notified(q)' <=> Notified(q)
  BY <1>1 DEF Notified
<1>3. CASE List(Main)
  <2>1. /\ items'[Main] = LiveOf(Kinds[step[Main]]) /\ items[Main] = {}
        /\ view' = view /\ quiet' = quiet
        /\ Kinds[step[Main]] \in KindSet
    BY <1>1, <1>3 DEF List, spamVars, KindSet, Control
  <2>2. ASSUME NEW q \in Objects, Live(cache[q]), Ahead(Main, q)
        PROVE  Ahead(Main, q)' \/ InItems(q)'
    <3>1. CASE KindOf[q] = Kinds[step[Main]]
      <4>1. <<q, cache[q]>> \in LiveOf(Kinds[step[Main]])
        BY <2>2, <3>1 DEF LiveOf
      <4> QED
        BY <2>1, <4>1 DEF InItems
    <3>2. CASE KindOf[q] # Kinds[step[Main]]
      BY <1>1, <1>3, <2>2, <3>2, AheadAfterList
    <3> QED
      BY <3>1, <3>2
  <2>3. \A q \in Objects : ~InItems(q)
    BY <2>1 DEF InItems
  <2>4. \A q \in Objects : Live(cache[q]) /\ ToBeShown(q) => ToBeShown(q)'
    BY <1>1, <1>2, <2>2, <2>3 DEF ToBeShown
  <2> QED
    BY <1>1, <2>1, <2>4, AnnouncedStays
<1>4. CASE EmitInitial(Main)
  <2>1. PICK x \in items[Main] : /\ x[1] \in Objects /\ x[2] \in 1..MaxVersion
                                 /\ Recorded(x[1], x[2])
                                 /\ items' = [items EXCEPT ![Main] = @ \ {x}]
    BY <1>1, <1>4, InitialRecords DEF Sources
  <2>2. x[2] \in 1..Gone
    BY <2>1
  <2>3. /\ Live(cache[x[1]]) => Live(view'[x[1]])
        /\ \A q \in Objects : Live(cache[q]) /\ Live(view[q]) => Live(view'[q])
        /\ \A q \in Objects : q \in quiet => q \in quiet' \/ ~Live(cache[q]) \/ Live(view'[q])
    BY <2>1, <2>2, RecordShows
  <2>4. \A q \in Objects : Ahead(Main, q)' <=> Ahead(Main, q)
    BY <1>1, <1>4, AheadStays DEF EmitInitial
  <2>5. items'[Main] = items[Main] \ {x}
    BY <1>1, <2>1
  <2>6. \A q \in Objects : InItems(q) => q = x[1] \/ InItems(q)'
    BY <2>5 DEF InItems
  <2>7. \A q \in Objects : Live(cache[q]) /\ ToBeShown(q) => Live(view'[q]) \/ ToBeShown(q)'
    BY <1>1, <1>2, <2>3, <2>4, <2>6 DEF ToBeShown
  <2> QED
    BY <1>1, <2>3, <2>7, AnnouncedStays
<1>5. CASE EmitKeys(Main)
  <2>1. \A q \in Objects : ~InItems(q)
    BY <1>5 DEF EmitKeys, InItems
  <2>2. \A q \in Objects : Ahead(Main, q) => Ahead(Main, q)'
    BY <1>1, <1>5, AheadAfterKeys
  <2>3. \A q \in Objects : ToBeShown(q) => ToBeShown(q)'
    BY <1>1, <1>2, <2>1, <2>2 DEF ToBeShown
  <2>4. view' = view /\ quiet' = quiet
    BY <1>5 DEF EmitKeys, spamVars
  <2> QED
    BY <1>1, <2>3, <2>4, AnnouncedStays
<1> QED
  BY <1>3, <1>4, <1>5

LEMMA AnnouncedStep ==
    ASSUME IInv, [Next]_vars
    PROVE  Announced'
<1> USE Bounds
<1>0. /\ TypeOK /\ Control /\ Sources /\ Announced /\ Covered /\ Main \in Runners
      /\ step \in [Runners -> 0..Last] /\ listed \in [Runners -> BOOLEAN]
      /\ items \in [Runners -> SUBSET (Objects \X (1..MaxVersion))]
  BY TypeGroups DEF IInv, SnapTypes, Runners
<1>1. ASSUME NEW o \in Objects, WatchEvent(o) PROVE Announced'
  BY <1>0, <1>1, WatchNotifies, AnnouncedNotifies
<1>10. ASSUME NEW o \in Objects, NEW p \in Objects, Relist(o, p) PROVE Announced'
  BY <1>0, <1>10, RelistNotifies, AnnouncedNotifies
<1>2. ASSUME NEW k \in KindSet, Handle(k) PROVE Announced'
  BY <1>0, <1>2, AnnouncedHandle
<1>3. ASSUME NEW k \in KindSet, Lookup(k) PROVE Announced'
  BY <1>0, <1>3, AnnouncedApart DEF Lookup, clientVars, snapVars, spamVars
<1>4. ASSUME NEW k \in KindSet, EmitExposure(k) PROVE Announced'
  <2>1. PICK o \in Objects, v \in 1..MaxVersion : Recorded(o, v)
    BY <1>0, <1>4, ExposureRecords DEF Sources
  <2>2. v \in 1..Gone
    OBVIOUS
  <2>3. /\ \A q \in Objects : Live(cache[q]) /\ Live(view[q]) => Live(view'[q])
        /\ \A q \in Objects : q \in quiet => q \in quiet' \/ ~Live(cache[q]) \/ Live(view'[q])
    BY <1>0, <2>1, <2>2, RecordShows
  <2> QED
    BY <1>0, <1>4, <2>3, AnnouncedApart DEF EmitExposure, clientVars, snapVars
<1>5. CASE OpenGate
  <2>1. main' = "snapshot" /\ step'[Main] = 1 /\ ~listed'[Main]
    BY <1>0, <1>5 DEF OpenGate, Begin, Control
  <2>2. \A q \in Objects : Ahead(Main, q)'
    BY <1>0, <2>1, AheadAtBegin
  <2> QED
    BY <2>1, <2>2 DEF Announced, ToBeShown
<1>6. ASSUME NEW r \in Runners, List(r) \/ EmitInitial(r) \/ EmitKeys(r) PROVE Announced'
  <2>1. CASE r = Main
    BY <1>0, <1>6, <2>1, AnnouncedMain
  <2>2. CASE r # Main
    <3>1. /\ UNCHANGED <<main, synced, cache, queue>> /\ step'[Main] = step[Main]
          /\ listed'[Main] = listed[Main] /\ items'[Main] = items[Main]
      BY <1>0, <1>6, <2>2 DEF List, EmitInitial, EmitKeys, clientVars
    <3>2. /\ \A q \in Objects : Live(cache[q]) /\ Live(view[q]) => Live(view'[q])
          /\ \A q \in Objects : q \in quiet => q \in quiet' \/ ~Live(cache[q]) \/ Live(view'[q])
      <4>1. CASE EmitInitial(r)
        <5>1. PICK x \in items[r] : /\ x[1] \in Objects /\ x[2] \in 1..MaxVersion
                                    /\ Recorded(x[1], x[2])
          BY <1>0, <4>1, InitialRecords DEF Sources
        <5>2. x[2] \in 1..Gone
          BY <5>1
        <5> QED
          BY <1>0, <5>1, <5>2, RecordShows
      <4>2. CASE List(r) \/ EmitKeys(r)
        BY <4>2 DEF List, EmitKeys, spamVars
      <4> QED
        BY <1>6, <4>1, <4>2
    <3> QED
      BY <1>0, <3>1, <3>2, AnnouncedApart
  <2> QED
    BY <2>1, <2>2
<1>7. ASSUME NEW r \in Runners, End(r) PROVE Announced'
  <2>1. \A q \in Objects : Live(cache[q]) => view'[q] = view[q]
    BY <1>0, <1>7, EndTombstones DEF Live
  <2>2. UNCHANGED <<synced, cache, queue, items, listed, quiet>> /\ step[r] = Last
    BY <1>7 DEF End, clientVars, snapVars
  <2>3. \A q \in Objects : Notified(q)' <=> Notified(q)
    BY <2>2 DEF Notified
  <2>4. CASE r = Main
    <3>1. \A q \in Objects : ~Ahead(Main, q)
      BY <1>0, <2>2, <2>4, NoneAheadAtEnd
    <3>2. items[Main] = {}
      BY <1>0, <2>2, <2>4 DEF Control
    <3>3. \A q \in Objects : ToBeShown(q) => ToBeShown(q)'
      BY <2>3, <3>1, <3>2 DEF ToBeShown, InItems
    <3> QED
      BY <1>0, <2>1, <2>2, <3>3, AnnouncedStays
  <2>5. CASE r # Main
    <3>1. main' = main /\ step'[Main] = step[Main]
      BY <1>0, <1>7, <2>5 DEF End
    <3> QED
      BY <1>0, <2>1, <2>2, <3>1, AnnouncedApart
  <2> QED
    BY <2>4, <2>5
<1>8. ASSUME NEW r \in Runners, Reconcile(r) PROVE Announced'
  BY <1>0, <1>8, AnnouncedApart DEF Reconcile, Begin, clientVars
<1>9. CASE UNCHANGED vars
  BY <1>0, <1>9, AnnouncedApart DEF vars, clientVars, snapVars, spamVars
<1> QED
  BY <1>1, <1>2, <1>3, <1>4, <1>5, <1>6, <1>7, <1>8, <1>9, <1>10
  DEF Next, HandlerStep, SnapshotStep

-----------------------------------------------------------------------------
(* Theorems *)

\* The strengthened invariant is an invariant.
THEOREM Inductive == Spec => []IInv
<1>1. Init => IInv
  BY InitIInv
<1>2. IInv /\ [Next]_vars => IInv'
  BY TypeStep, ControlStep, SourcesStep, PastStep, AnnouncedStep, CoveredStep DEF IInv
<1> QED
  BY <1>1, <1>2, PTL DEF Spec

\* Caches, queues, handler loops, snapshots and SPAM's view keep their types; in particular
\* no handler runs past the last target of its Ingress or route.
THEOREM TypeCorrect == Spec => []TypeOK
<1>1. IInv => TypeOK
  BY DEF IInv
<1> QED
  BY <1>1, Inductive, PTL

\* With any number of kinds, objects and snapshotters, an object that is alive in the cache
\* is shown once every notification is handled: synced.Store(true) before the initial
\* snapshot leaves no gap between the LIST of a kind and the first event let through.  Only
\* a pod that took another's place unchanged (pod.go:160) may wait for a snapshot.
THEOREM NoneMissed == Spec => []NothingMissed
<1>1. IInv => NothingMissed
  <2> SUFFICES ASSUME IInv, Settled, NEW o \in Objects \ quiet, Live(cache[o])
               PROVE  Live(view[o])
    BY DEF NothingMissed
  <2>1. main = "running" /\ queue[KindOf[o]] = <<>>
    BY EveryKindIsListed DEF Settled
  <2>2. ~Notified(o)
    BY <2>1 DEF Notified
  <2>3. synced
    BY <2>1 DEF IInv, Control
  <2> QED
    BY <2>1, <2>2, <2>3 DEF IInv, Announced, ToBeShown
<1> QED
  BY <1>1, Inductive, PTL

\* What was deleted while no process ran is swept by the initial snapshot and never shown
\* again, however many snapshots and refreshes follow.
THEOREM PastSwept == Spec => []LingerersSwept
<1>1. IInv => LingerersSwept
  BY DEF IInv, PastIsOver
<1> QED
  BY <1>1, Inductive, PTL

\* No SNAPSHOT_END tombstones a live object, however many EmitFullSnapshot overlap with
\* each other, with the handlers and with the watch events.
THEOREM DeadOnly == Spec => TombstonesOnlyTheDead
<1>1. IInv /\ [Next]_vars =>
        [\A r \in Runners : step[r] = Last /\ step'[r] = 0 =>
            \A o \in Objects : view'[o] # view[o] => cache[o] = Gone]_vars
  <2> SUFFICES ASSUME IInv, Next, NEW r \in Runners, step[r] = Last, step'[r] = 0,
                      NEW o \in Objects, view'[o] # view[o]
               PROVE  cache[o] = Gone
    OBVIOUS
  <2>1. TypeOK /\ Control /\ Covered
    BY DEF IInv
  <2>2. step \in [Runners -> 0..Last] /\ Last # 0
    BY <2>1, Bounds, TypeGroups DEF SnapTypes
  <2>3. End(r)
    <3>1. ASSUME NEW x \in Objects, WatchEvent(x) PROVE FALSE
      BY <2>2, <3>1 DEF WatchEvent, snapVars
    <3>7. ASSUME NEW x \in Objects, NEW y \in Objects, Relist(x, y) PROVE FALSE
      BY <2>2, <3>7 DEF Relist, snapVars
    <3>2. ASSUME NEW k \in KindSet, HandlerStep(k) PROVE FALSE
      BY <2>2, <3>2 DEF HandlerStep, Handle, Lookup, EmitExposure, snapVars
    <3>3. ASSUME OpenGate PROVE FALSE
      BY <2>2, <3>3 DEF OpenGate, Begin
    <3>4. ASSUME NEW q \in Runners, Reconcile(q) PROVE FALSE
      BY <2>2, <3>4 DEF Reconcile, Begin
    <3>5. ASSUME NEW q \in Runners, List(q) \/ EmitInitial(q) \/ EmitKeys(q) PROVE FALSE
      <4>1. step' = step \/ step' = [step EXCEPT ![q] = @ + 1]
        BY <3>5 DEF List, EmitInitial, EmitKeys
      <4> QED
        BY <2>2, <4>1, Bounds
    <3>6. ASSUME NEW q \in Runners, End(q) PROVE q = r
      BY <2>2, <3>6 DEF End
    <3> QED
      BY <3>1, <3>2, <3>3, <3>4, <3>5, <3>6, <3>7 DEF Next, SnapshotStep
  <2> QED
    BY <2>1, <2>3, EndTombstones
<1> QED
  BY <1>1, Inductive, PTL DEF Spec, TombstonesOnlyTheDead
=============================================================================
