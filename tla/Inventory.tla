------------------------------ MODULE Inventory ------------------------------
(***************************************************************************)
(* What SPAM shows of the cluster, end to end: discovery decides what is    *)
(* watched, main waits for the caches (main.go:207-310), handlers and       *)
(* snapshots turn cached objects into records, and a restart does it all    *)
(* again.  The API server, its CRDs, the informers and SPAM are external.   *)
(* Handlers, refreshes and snapshots interleave line by line.  A            *)
(* notification's cache change and its handler's own line are one step here *)
(* (Collector and Pods take them apart), as are the LISTs of the typed      *)
(* informers, but the one of the ReplicaSets: until all have synced nothing *)
(* is emitted, so their order shows nowhere.                                *)
(***************************************************************************)
EXTENDS Discovery, Records, FiniteSets

CONSTANTS
    Objects,        \* states of objects that come and go, as Records describes them
    Initial,        \* sets of them that may be there at the start
    Resident,       \* sets of objects that may be there at the start and stay as they are
    Snapshotters,   \* goroutines that reconcile: SnapshotLoop's, PushLoop's
    Main,           \* the one that runs main
    Batches,        \* sets of resources a snapshot lists in one step, in the order it does
    \* bounds of the model
    MaxChanges,     \* changes of objects and of what is served
    MaxRestarts     \* restarts of the process

All == Typed \cup Optional
Possible == Objects \cup UNION Resident
Cacheable == {Trim(o) : o \in Possible}
Runners == Snapshotters \cup {Main}

\* A cache has one object of a name.  SPAM's records are keyed by kind and uid.
Name(o) == <<o.resource, o.group, o.ns, o.name>>
Key(o) == <<EmitKind(o.resource), o.uid>>
Keys == {Key(o) : o \in {p \in Possible : p.resource \notin Silent}}
OneOfEach(os) == \A o, p \in os : o.uid = p.uid \/ Name(o) = Name(p) => o = p

NoGroup == ""

\* Of the parts of an object only those that its resource has are told apart: what no code
\* reads of a resource (the owners of a Service, say) is part of rev.
Shaped(o) ==
    /\ o = [uid |-> o.uid, resource |-> o.resource, group |-> o.group, ns |-> o.ns,
            name |-> o.name, rev |-> o.rev,
            default |-> o.default, rules |-> o.rules, owners |-> o.owners]
    /\ o.default \in Seq(BackendRef) /\ o.rules \in Seq(RouteRule) /\ o.owners \in Seq(OwnerRef)
    /\ o.default = <<>> \/ "default" \in Reads(o.resource)
    /\ o.rules = <<>> \/ "rules" \in Reads(o.resource)
    /\ o.owners = <<>> \/ "owners" \in Reads(o.resource)
    /\ o.resource \in Typed => o.group = NoGroup

\* A uid has one name, one state for each rev and, among residents, one state.  Objects has
\* no ReplicaSets, whose owners are set when they are created, and no pods, whose handler
\* Pods models.  A snapshot lists every resource that has records once; in the code each is a
\* batch of its own.
ASSUME InventoryAssumption ==
    /\ GatewayResources \subseteq Gateway /\ TraefikResources \subseteq Traefik
    /\ \A o \in Possible : o.resource \in All /\ Shaped(o)
    /\ \A o, p \in Objects : o.uid = p.uid => Name(o) = Name(p)
    /\ \A o, p \in Objects : o.uid = p.uid /\ o.rev = p.rev => o = p
    /\ \A o \in Objects : o.resource \notin Silent \cup {"pods"}
    /\ \A os \in Initial : os \subseteq Objects /\ OneOfEach(os)
    /\ \A os \in Resident : OneOfEach(os)
    /\ Batches \in Seq(SUBSET (All \ Silent))
    /\ UNION {Batches[i] : i \in 1..Len(Batches)} = All \ Silent
    /\ \A i, j \in 1..Len(Batches) : i # j => Batches[i] \cap Batches[j] = {}
    /\ MaxChanges \in Nat \ {0} /\ MaxRestarts \in Nat

VARIABLES
    api,        \* the objects in the API server
    deleted,    \* uids that are gone for good
    changes,    \* changes so far
    main,       \* "discover" | "sync" | "snapshot" | "stream"; the gate opens with "snapshot"
    listed,     \* resources whose informer has synced
    cache,      \* the informers' caches
    exposed,    \* <<uid, Service>> pairs: refreshes a handler has still to look up
    got,        \* Services that refreshes have looked up and not yet emitted
    step,       \* per runner, the batch to list next; 0: no snapshot, Len(Batches) + 1: none
    left,       \* <<runner, object>> pairs: listed, and its INITIAL not written yet
    asserted,   \* SPAM: per runner, keys of its SNAPSHOT lines and of records since its BEGIN
    view,       \* SPAM: the records it shows
    behind,     \* history: keys whose last line was overtaken, or was never written
    restarts    \* restarts so far

clusterVars == <<api, deleted, changes>>
informerVars == <<listed, cache>>
refreshVars == <<exposed, got>>
snapVars == <<step, left>>
spamVars == <<asserted, view, behind>>
vars == <<discoveryVars, clusterVars, main, informerVars, refreshVars, snapVars, spamVars,
          restarts>>

\* A process that starts with any part of Offered served; one change is to come, before or
\* behind a restart.
FromNothing ==
    /\ DiscoveryInit
    /\ api \in Initial /\ changes = MaxChanges - 1
    /\ restarts = 0 /\ main = "discover" /\ listed = {}

\* v is the version of r to choose when all answer.
First(v, r) == /\ v \in AllGVs /\ r \in Wanted(v)
               /\ \A w \in AllGVs \ {v} : r \in Wanted(w) => Precedes(v, w)

\* A process that has found everything served and the resources without objects listed:
\* objects of any content stay as they are, the others may all change.
AllFound ==
    /\ served = AllGVs \X Optional /\ pending = {} /\ answers = [v \in AllGVs |-> Wanted(v)]
    /\ best = [r \in Optional |-> CHOOSE v \in AllGVs : First(v, r)]
    /\ \A r \in Optional : First(best[r], r)
    /\ (api \in Resident /\ changes = MaxChanges) \/ (api \in Initial /\ changes = 0)
    /\ restarts = MaxRestarts /\ main = "sync" /\ listed = Optional \ {o.resource : o \in api}

Init ==
    /\ FromNothing \/ AllFound
    /\ deleted = {} /\ cache = {} /\ exposed = {} /\ got = {} /\ left = {}
    /\ step = [r \in Runners |-> 0] /\ asserted = [r \in Runners |-> {}]
    /\ view = {} /\ behind = {}

-----------------------------------------------------------------------------
(* The cluster *)

\* The version a resource is watched under; typed informers have theirs built in.
Version(r) == IF r \in Typed THEN <<r>> ELSE best[r]
Watched(r) == IF r \in Typed THEN TRUE ELSE best[r] # Unknown
Group(r) == IF r \in Typed THEN NoGroup ELSE best[r][1]
Reachable(r) == IF r \in Typed THEN TRUE ELSE <<best[r], r>> \in served
InGroup(os, r) == {o \in os : o.resource = r /\ o.group = Group(r)}

Change(os) ==
    /\ api' = os
    /\ changes < MaxChanges /\ changes' = changes + 1
    /\ UNCHANGED <<discoveryVars, main, informerVars, refreshVars, snapVars, spamVars, restarts>>

\* An object is written through any version of its group that is served.
Writable(o) == o.resource \in Typed \/ \E v \in AllGVs : v[1] = o.group /\ <<v, o.resource>> \in served

Create(o) ==
    /\ Writable(o) /\ o.uid \notin deleted /\ \A p \in api : p.uid # o.uid /\ Name(p) # Name(o)
    /\ Change(api \cup {o}) /\ UNCHANGED deleted

Update(o, p) ==
    /\ o \in api /\ o.uid = p.uid /\ o # p /\ Writable(o)
    /\ Change((api \ {o}) \cup {p}) /\ UNCHANGED deleted

Delete(o) ==
    /\ o \in api /\ Writable(o)
    /\ Change(api \ {o}) /\ deleted' = deleted \cup {o.uid}

ChangeCRD(p) ==
    /\ changes < MaxChanges /\ changes' = changes + 1
    /\ ChangeServed(p)
    /\ UNCHANGED <<api, deleted, main, informerVars, refreshVars, snapVars, spamVars, restarts>>

-----------------------------------------------------------------------------
(* The agent *)

Discover(ok) ==
    /\ main = "discover"
    /\ DiscoverGatewayAPI(ok) \/ DiscoverTraefik(ok)
    /\ UNCHANGED <<clusterVars, main, informerVars, refreshVars, snapVars, spamVars, restarts>>

\* main.go:215-264: an informer for every version chosen, none for the rest.
StartInformers ==
    /\ main = "discover" /\ pending = {}
    /\ main' = "sync"
    /\ UNCHANGED <<discoveryVars, clusterVars, informerVars, refreshVars, snapVars, spamVars,
                   restarts>>

\* LISTs of informers succeed: never while their version is not served.
List(rs) ==
    /\ main # "discover" /\ rs \cap listed = {}
    /\ \A r \in rs : Watched(r) /\ Reachable(r)
    /\ listed' = listed \cup rs
    /\ cache' = cache \cup {Trim(o) : o \in UNION {InGroup(api, r) : r \in rs}}
    /\ UNCHANGED <<discoveryVars, clusterVars, main, refreshVars, snapVars, spamVars, restarts>>

ReplicaSets(os) == {o \in os : o.resource = "replicasets"}
Emitted(o, os) == Record(Version(o.resource), o, Kept(o.resource), ReplicaSets(os))
SameKey(v, r) == v.kind = r.kind /\ v.uid = r.uid

\* The record replaces the one of its kind and uid.
Shows(shown, records) == {v \in shown : \A r \in records : ~SameKey(v, r)} \cup records

\* A line: SPAM shows the record and counts it towards every snapshot being written.
Show(record) ==
    /\ view' = Shows(view, {record})
    /\ asserted' = [r \in Runners |-> IF step[r] = 0 THEN {}
                                       ELSE asserted[r] \cup {<<record.kind, record.uid>>}]

\* The line of a state read before, INITIAL or EXPOSURE: it is overtaken when the handler has
\* already written that the object has changed or is gone.
Write(o) ==
    /\ Show(Emitted(o, cache))
    /\ behind' = IF o \in cache THEN behind \ {Key(o)} ELSE behind \cup {Key(o)}

\* Variant for the mutation runs: the gate opens when the initial snapshot is written.
OpenLate == main = "stream"

\* synced: set before the initial snapshot starts.
Open == main \in {"snapshot", "stream"}
Hears(o) == o.resource \in listed /\ Reachable(o.resource) /\ o.group = Group(o.resource)

\* A watch event or a relist brings the present state of an object: onAdd, or onUpdate whenever
\* the cache has its name, under whatever uid.  Once the gate is open the handler emits the
\* state and goes on to refresh the Services a route names; of an old uid it says nothing.
Upsert(o) ==
    LET old == {p \in cache : Name(p) = Name(o)}
    IN  /\ o \in api /\ Hears(o) /\ Trim(o) \notin cache
        /\ cache' = (cache \ old) \cup {Trim(o)}
        /\ IF Open /\ o.resource \notin Silent
           THEN /\ Show(Emitted(Trim(o), cache'))
                /\ exposed' = exposed \cup {<<o.uid, t>> : t \in Targets(Trim(o))}
                /\ behind' = (behind \ {Key(o)}) \cup {Key(p) : p \in {q \in old : q.uid # o.uid}}
           ELSE UNCHANGED <<exposed, spamVars>>
        /\ UNCHANGED <<discoveryVars, clusterVars, main, listed, got, snapVars, restarts>>

\* One brings that an object is gone: onDelete and, once the gate is open, the DELETE line.
Drop(p) ==
    /\ p \in cache /\ Hears(p) /\ \A o \in api : o.uid # p.uid
    /\ cache' = cache \ {p}
    /\ IF Open /\ p.resource \notin Silent
       THEN LET key == <<KindFromResource(p.resource), p.uid>>
            IN  /\ view' = {v \in view : <<v.kind, v.uid>> # key}
                /\ behind' = behind \ {key} /\ UNCHANGED asserted
       ELSE UNCHANGED spamVars
    /\ UNCHANGED <<discoveryVars, clusterVars, main, listed, refreshVars, snapVars, restarts>>

\* RefreshBackendServices: the Service as it is cached now, if it is, and then its EXPOSURE.
LookUp(x) ==
    /\ x \in exposed /\ exposed' = exposed \ {x}
    /\ got' = got \cup {p \in cache : p.resource = "services" /\ p.ns = x[2].ns /\ p.name = x[2].name}
    /\ UNCHANGED <<discoveryVars, clusterVars, main, informerVars, snapVars, spamVars, restarts>>

EmitExposure(o) ==
    /\ o \in got /\ got' = got \ {o}
    /\ Write(o)
    /\ UNCHANGED <<discoveryVars, clusterVars, main, informerVars, exposed, snapVars, restarts>>

-----------------------------------------------------------------------------
(* EmitFullSnapshot, as run by r *)

\* Variants for the mutation runs: the informers of what is emitted are waited for, and
\* every informer the agent could have.
AwaitsEmitted == {r \in All \ Silent : Watched(r)}
AwaitsAll == Typed \cup Optional

\* The informers WaitForCacheSync waits for (main.go:271-288).
Awaits == {r \in All : Watched(r)}

\* SnapshotResources: what main hands to the snapshots.
Dumped == {r \in All \ Silent : Watched(r)}

\* SNAPSHOT_BEGIN.
Begin(r) ==
    /\ step[r] = 0 /\ step' = [step EXCEPT ![r] = 1]
    /\ UNCHANGED <<discoveryVars, clusterVars, informerVars, refreshVars, left, spamVars, restarts>>

\* The wait is over, the gate opens, the initial snapshot starts.
StartStreaming ==
    /\ main = "sync" /\ Awaits \subseteq listed
    /\ main' = "snapshot"
    /\ Begin(Main)

\* SnapshotLoop's timer, or PushLoop on an ACK that does not match.
Reconcile(r) == main = "stream" /\ Begin(r) /\ UNCHANGED main

\* The next kinds are listed, and with this the keys of their SNAPSHOT lines.
ListCached(r) ==
    /\ step[r] \in 1..Len(Batches) /\ \A o \in cache : <<r, o>> \notin left
    /\ LET found == {o \in cache : o.resource \in Batches[step[r]] \cap Dumped}
       IN  /\ left' = left \cup ({r} \X found)
           /\ asserted' = [asserted EXCEPT ![r] = @ \cup
                              {<<KindFromResource(o.resource), o.uid>> : o \in found}]
    /\ step' = [step EXCEPT ![r] = @ + 1]
    /\ UNCHANGED <<discoveryVars, clusterVars, main, informerVars, refreshVars, view, behind, restarts>>

EmitInitial(r, o) ==
    /\ <<r, o>> \in left /\ left' = left \ {<<r, o>>}
    /\ Write(o)
    /\ UNCHANGED <<discoveryVars, clusterVars, main, informerVars, refreshVars, step, restarts>>

\* SNAPSHOT_END: SPAM sweeps, kind by kind, what the envelope did not assert.  Whether it
\* sweeps kinds without a SNAPSHOT line is not known here.
End(r) ==
    /\ step[r] = Len(Batches) + 1 /\ \A x \in left : x[1] # r
    /\ step' = [step EXCEPT ![r] = 0]
    /\ asserted' = [asserted EXCEPT ![r] = {}]
    /\ main' = "stream"
    /\ LET kinds == {KindFromResource(res) : res \in Dumped}
       IN  /\ \E others \in BOOLEAN :
                 view' = {v \in view : IF v.kind \in kinds THEN <<v.kind, v.uid>> \in asserted[r]
                                       ELSE others}
           /\ behind' = {k \in behind : k[1] \in kinds => k \in asserted[r]}
    /\ UNCHANGED <<discoveryVars, clusterVars, informerVars, refreshVars, left, restarts>>

Snapshot(r) == ListCached(r) \/ (\E x \in left : EmitInitial(r, x[2])) \/ End(r)

\* The process ends anywhere and another one starts from nothing; SPAM keeps its view.
Restart ==
    /\ restarts < MaxRestarts /\ restarts' = restarts + 1
    /\ StartDiscovery /\ UNCHANGED served
    /\ main' = "discover" /\ listed' = {} /\ cache' = {}
    /\ exposed' = {} /\ got' = {} /\ left' = {}
    /\ step' = [r \in Runners |-> 0] /\ asserted' = [r \in Runners |-> {}]
    /\ UNCHANGED <<clusterVars, view, behind>>

AgentStep ==
    \/ \E ok \in BOOLEAN : Discover(ok)
    \/ StartInformers
    \/ List(Typed \ Silent) \/ List(Silent) \/ \E r \in Optional : List({r})
    \/ StartStreaming \/ Snapshot(Main)

Next ==
    \/ \E o \in Objects : Create(o) \/ Delete(o)
    \/ \E o, p \in Objects : Update(o, p)
    \/ \E p \in Offered : ChangeCRD(p)
    \/ AgentStep
    \/ (\E o \in api : Upsert(o)) \/ (\E p \in cache : Drop(p))
    \/ (\E x \in exposed : LookUp(x)) \/ (\E o \in got : EmitExposure(o))
    \/ \E r \in Snapshotters : Reconcile(r) \/ Snapshot(r)
    \/ Restart

Spec == Init /\ [][Next]_vars

\* The goroutines of the agent run; a LIST that can succeed is retried until it does.
FairSpec == Spec /\ WF_vars(AgentStep)

-----------------------------------------------------------------------------
(* Properties *)

TypeOK ==
    /\ main \in {"discover", "sync", "snapshot", "stream"}
    /\ cache \cup got \cup {x[2] : x \in left} \subseteq Cacheable
    /\ \A v, w \in view : SameKey(v, w) => v = w
    /\ listed \subseteq Awaits /\ (main = "discover" => cache = {})
    /\ step \in [Runners -> 0..(Len(Batches) + 1)]
    /\ asserted \in [Runners -> SUBSET Keys] /\ behind \subseteq Keys
    /\ changes \in 0..MaxChanges /\ restarts \in 0..MaxRestarts

CaughtUp(r) == {o \in cache : o.resource = r} = {Trim(o) : o \in InGroup(api, r)}
Settled(records) == {v \in records : <<v.kind, v.uid>> \notin behind}

\* Once the agent streams, the records SPAM shows of a watched resource all have the version
\* chosen and every field a record needs; and if the resource can be read and no event of it
\* is under way they are the API server's objects, in their present state, however lines of
\* snapshots, refreshes and handlers interleave: a version or group chosen by an earlier
\* process leaves nothing behind, INITIAL, UPDATE, DELETE and SNAPSHOT lines agree on the kind,
\* and the owner of a pod is the one behind its ReplicaSet.  (Excepted, until the key's next
\* line or sweep: an INITIAL or EXPOSURE read before an UPDATE or DELETE and written after it;
\* and the uid that a relist replaced by another of the same name, of which onUpdate says
\* nothing.  Pods and ReplicaSets do not change here: see Pods, and pod.go:63.)
ShowsTheCluster ==
    main = "stream" =>
        \A r \in All \ Silent : Watched(r) =>
            LET shown == {v \in view : v.kind = EmitKind(r)}
                now == {Record(Version(r), o, Reads(r), ReplicaSets(api)) : o \in InGroup(api, r)}
            IN  /\ \A v \in shown : v.version = Version(r) /\ v.fields = Reads(r)
                /\ Reachable(r) /\ CaughtUp(r) => Settled(shown) = Settled(now)

\* v shows the state of o.
ShownIn(o, v) == v.kind = EmitKind(o.resource) /\ v.uid = o.uid /\ v.rev = o.rev

\* SPAM's join: the Services a record names.
Joins(v, ns) == {[ns |-> IF b.ns = Absent THEN ns ELSE b.ns, name |-> b.name] :
                    b \in {x \in v.backends : IsService(x)}}

\* What is refreshed (EXPOSURE) and indexed for an object is what SPAM joins from its
\* record: the same Services, in the same namespaces, the default backend of an Ingress
\* excepted, which its record leaves out (ingress.go:33).
GraphAgrees ==
    \A o \in {p \in cache : p.resource \in Routes \cup Traefik \cup {"ingresses"}}, v \in view :
        ShownIn(o, v) => Targets([o EXCEPT !.default = <<>>]) = Joins(v, o.ns)

\* Every literal host of a route is listed, once, and nothing else: arguments of host matchers
\* between backticks.  One with a ")" in it is lost with those behind it (traefik.go:17), and
\* those between quotes are not seen (traefik.go:18).
HostsListed ==
    \A o \in {p \in cache : p.resource \in Traefik}, v \in view :
        ShownIn(o, v) =>
            LET calls == {c \in ToSet(Calls(o)) : c.fn \in HostMatchers}
                plain == {c \in calls : \A a \in ToSet(c.args) : ~a.paren}
                ticked(cs) == {a \in UNION {ToSet(c.args) : c \in cs} : a.ticked}
                texts(cs) == {a.text : a \in ticked(cs)}
            IN  /\ IsInjective(v.hosts)
                /\ texts(plain) \subseteq ToSet(v.hosts) /\ ToSet(v.hosts) \subseteq texts(calls)

\* WaitForCacheSync does not hold up the agent for good: it streams, unless a version it
\* watches is not served.
Starts ==
    <>[](main = "discover" \/ \A r \in All : Watched(r) => Reachable(r)) => []<>(main = "stream")
=============================================================================
