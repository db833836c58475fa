---------------------------- MODULE InventoryProofs ----------------------------
(***************************************************************************)
(* SPAM shows what the API server holds (ShowsTheCluster), under the best   *)
(* version that answered (NewestAnswered), for any versions and objects,    *)
(* any number of changes, snapshots and restarts.  Three arguments meet: no *)
(* transform drops a field a record reads; kinds tell resources apart and   *)
(* the DELETE and SNAPSHOT lines name the kind of the record; and key by    *)
(* key SPAM's record is that of the cached object, from the moment the      *)
(* first envelope has asserted the key and written its INITIAL, unless the  *)
(* key is behind.                                                           *)
(* Then what a record says of its backends (GraphAgrees) and of its hosts   *)
(* (HostsListed), for any rules, match calls and arguments.                 *)
(***************************************************************************)
EXTENDS Inventory, DiscoveryProofs, DataLemmas

-----------------------------------------------------------------------------
(* The inductive invariant *)

\* The objects that are somewhere: in the API server, in a cache, or read and to be written.
Held == api \cup cache \cup got \cup {x[2] : x \in left}

\* The cluster changes and has the given objects only, or is a resident one and stays.
Population ==
    \/ Held \subseteq Objects
    \/ api \in Resident /\ Held \subseteq api /\ changes = MaxChanges

\* In the API server and in the caches a uid names one object.
OneEach ==
    /\ \A o, p \in api : o.uid = p.uid => o = p
    /\ \A o, p \in cache : o.uid = p.uid => o = p

\* Informers run for watched resources, cache what they listed, and all have when the gate opens.
Watching ==
    /\ listed \subseteq Awaits
    /\ \A o \in cache : o.resource \in listed
    /\ main = "discover" => listed = {}
    /\ Open => Awaits \subseteq listed

\* PodOwner finds the ReplicaSets of the cluster.
Owners == "replicasets" \in listed => ReplicaSets(cache) = ReplicaSets(api)

OneRecordEach == \A v, w \in view : SameKey(v, w) => v = w

Counters ==
    /\ main \in {"discover", "sync", "snapshot", "stream"}
    /\ changes \in 0..MaxChanges /\ restarts \in 0..MaxRestarts

\* main's envelope is written while main is there, the others' once it streams.
Running ==
    /\ step \in [Runners -> 0..(Len(Batches) + 1)]
    /\ asserted \in [Runners -> SUBSET Keys] /\ behind \subseteq Keys
    /\ left \subseteq Runners \X Possible
    /\ \A o \in got \cup {x[2] : x \in left} : o.resource \notin Silent
    /\ \A r \in Runners : step[r] = 0 => asserted[r] = {}
    /\ \A r \in Runners : step[r] # 0 => main = "stream" \/ (main = "snapshot" /\ r = Main)

\* What r has listed so far is asserted, and so is what has come since.
Done(r) == UNION {Batches[i] : i \in 1..(step[r] - 1)}
Covered == \A r \in Runners, o \in cache : o.resource \in Done(r) => Key(o) \in asserted[r]

\* The records of a key, and that of the cached object of the key.
Shown(k) == {v \in view : <<v.kind, v.uid>> = k}
Said(k) == {Emitted(o, cache) : o \in {p \in cache : p.resource \notin Silent /\ Key(p) = k}}

\* The initial snapshot is over, or has dealt with the key.
Reached(k) ==
    \/ main = "stream"
    \/ /\ main = "snapshot" /\ k \in asserted[Main]
       /\ \A x \in left : x[1] = Main => Key(x[2]) # k

\* Of every watched resource SPAM shows the records of the cached objects, but for keys that
\* are behind; those too are of this process.
Mirrors ==
    \A r \in Dumped : \A u : LET k == <<EmitKind(r), u>> IN
        Reached(k) => /\ k \notin behind => Shown(k) = Said(k)
                      /\ \A v \in Shown(k) : v.version = Version(r) /\ v.fields = Kept(r)

MInv == /\ Population /\ OneEach /\ Watching /\ Owners /\ OneRecordEach /\ Counters
        /\ Running /\ Covered /\ Mirrors

-----------------------------------------------------------------------------
(* Fields and kinds *)

Known == Typed \cup Gateway \cup Traefik

LEMMA AllIsKnown == All \subseteq Known /\ Optional \subseteq Gateway \cup Traefik
BY InventoryAssumption DEF InventoryAssumption, All, Optional, Known

\* No transform removes a field that a record, refs.go or PodOwner reads.
LEMMA NothingTrimmed == \A r \in Known : Kept(r) = Reads(r)
<1> SUFFICES ASSUME NEW r \in Known PROVE Reads(r) \cap Trims(r) = {}
  BY DEF Kept
<1>1. CASE r = "pods"
  BY <1>1 DEF Reads, Trims, PodReads, PodTrims, Meta, ContainerTrims, Gateway, Routes, Traefik
<1>2. CASE r = "replicasets"
  BY <1>2 DEF Reads, Trims, ReplicaSetTrims, Meta, Gateway, Routes, Traefik
<1>3. CASE r = "services"
  BY <1>3 DEF Reads, Trims, ServiceReads, Meta, Gateway, Routes, Traefik
<1>4. CASE r = "endpointslices"
  BY <1>4 DEF Reads, Trims, EndpointSliceReads, Meta, Gateway, Routes, Traefik
<1>5. CASE r = "ingresses"
  BY <1>5 DEF Reads, Trims, IngressReads, Meta, Gateway, Routes, Traefik
<1>6. CASE r = "ingressclasses"
  BY <1>6 DEF Reads, Trims, ClassReads, Meta, Gateway, Routes, Traefik
<1>7. CASE r = "gatewayclasses"
  BY <1>7 DEF Reads, Trims, ClassReads, Meta, DynamicTrims, Gateway, Routes, Traefik
<1>8. CASE r = "gateways"
  BY <1>8 DEF Reads, Trims, GatewayReads, Meta, DynamicTrims, Gateway, Routes, Traefik
<1>9. CASE r \in Routes
  BY <1>9 DEF Reads, Trims, RouteReads, Meta, DynamicTrims, Gateway, Routes, Traefik
<1>10. CASE r \in Traefik
  BY <1>10 DEF Reads, Trims, TraefikReads, Meta, DynamicTrims, Gateway, Routes, Traefik
<1> QED
  BY <1>1, <1>2, <1>3, <1>4, <1>5, <1>6, <1>7, <1>8, <1>9, <1>10 DEF Known, Typed, Gateway

\* So an object is cached as it is.
LEMMA CachedWhole == \A o \in Possible : o.resource \in All /\ Trim(o) = o
<1> SUFFICES ASSUME NEW o \in Possible PROVE o.resource \in All /\ Trim(o) = o
  OBVIOUS
<1>1. o.resource \in All /\ Shaped(o)
  BY InventoryAssumption DEF InventoryAssumption
<1>2. Kept(o.resource) = Reads(o.resource)
  BY <1>1, AllIsKnown, NothingTrimmed
<1> QED
  BY <1>1, <1>2 DEF Shaped, Trim

\* The DELETE and SNAPSHOT lines of a resource name the kind of its records.
LEMMA KindsAgree == \A r \in Known : KindFromResource(r) = EmitKind(r)
BY DEF KindFromResource, EmitKind, GatewayKind

LEMMA KindsOf ==
    /\ EmitKind("pods") = "Container" /\ EmitKind("services") = "Service"
    /\ EmitKind("endpointslices") = "EndpointSlice" /\ EmitKind("ingresses") = "Ingress"
    /\ EmitKind("ingressclasses") = "IngressClass" /\ EmitKind("gateways") = "Gateway"
    /\ EmitKind("gatewayclasses") = "GatewayClass" /\ EmitKind("httproutes") = "HTTPRoute"
    /\ EmitKind("grpcroutes") = "GRPCRoute" /\ EmitKind("tlsroutes") = "TLSRoute"
    /\ EmitKind("tcproutes") = "TCPRoute" /\ EmitKind("ingressroutes") = "IngressRoute"
    /\ EmitKind("ingressroutetcps") = "IngressRouteTCP"
    /\ EmitKind("ingressrouteudps") = "IngressRouteUDP"
BY DEF EmitKind, GatewayKind, TraefikKind, TypedKind, Gateway, Routes, Traefik

\* Resources with records have kinds of their own.
LEMMA KindsDiffer == \A r, s \in Known \ Silent : EmitKind(r) = EmitKind(s) => r = s
BY KindsOf DEF Known, Silent, Typed, Gateway, Routes, Traefik

LEMMA RecordKey ==
    \A v, o, fs, rs : /\ Record(v, o, fs, rs).kind = EmitKind(o.resource)
                      /\ Record(v, o, fs, rs).uid = o.uid
BY DEF Record

LEMMA EmittedKey ==
    \A o, os : /\ <<Emitted(o, os).kind, Emitted(o, os).uid>> = Key(o)
               /\ Emitted(o, os).version = Version(o.resource)
               /\ Emitted(o, os).fields = Kept(o.resource)
BY RecordKey DEF Emitted, Key, Record

\* The key of an object of r.
LEMMA KeyOf ==
    ASSUME NEW o, o.resource \in Known \ Silent, NEW r \in Known \ Silent, NEW u,
           Key(o) = <<EmitKind(r), u>>
    PROVE  o.resource = r /\ o.uid = u
BY KindsDiffer DEF Key

-----------------------------------------------------------------------------
(* Objects and informers *)

LEMMA ArePossible ==
    Population => Held \subseteq Possible /\ api \subseteq Possible /\ cache \subseteq Possible
BY DEF Population, Possible, Held

\* A uid keeps its name, and with it its resource.
LEMMA OneName ==
    ASSUME Population, OneEach, NEW o \in Held, NEW p \in Held, o.uid = p.uid
    PROVE  Name(o) = Name(p) /\ o.resource = p.resource
<1>1. CASE Held \subseteq Objects
  BY <1>1, InventoryAssumption DEF InventoryAssumption, Name
<1>2. CASE Held \subseteq api
  BY <1>2 DEF OneEach
<1> QED
  BY <1>1, <1>2 DEF Population

LEMMA PopulationKept ==
    ASSUME MInv, api' \subseteq api \cup Objects, api' # api => changes # MaxChanges,
           changes = MaxChanges => changes' = MaxChanges, Held' \subseteq Held \cup api'
    PROVE  Population'
<1>1. api \subseteq Held
  BY DEF Held
<1>2. CASE Held \subseteq Objects
  BY <1>1, <1>2 DEF Population
<1>3. CASE api \in Resident /\ Held \subseteq api /\ changes = MaxChanges
  BY <1>3 DEF Population
<1> QED
  BY <1>2, <1>3 DEF MInv, Population

LEMMA Bounds ==
    ASSUME MInv
    PROVE  /\ MaxChanges \in Nat /\ MaxRestarts \in Nat /\ changes \in Nat
           /\ Len(Batches) \in Nat /\ Main \in Runners
           /\ \A r \in Runners : step[r] \in 0..(Len(Batches) + 1)
           /\ \A r \in Runners : step[r] = 0 => Done(r) = {}
<1>1. MaxChanges \in Nat /\ MaxRestarts \in Nat /\ changes \in Nat
  BY InventoryAssumption DEF InventoryAssumption, MInv, Counters
<1>2. Len(Batches) \in Nat
  BY InventoryAssumption, LenProperties DEF InventoryAssumption
<1>3. \A r \in Runners : step[r] = 0 => 1..(step[r] - 1) = {}
  OBVIOUS
<1> QED
  BY <1>1, <1>2, <1>3 DEF MInv, Running, Done, Runners

\* What r has to list is among the resources with records.
LEMMA BatchesKnown ==
    ASSUME NEW i \in 1..Len(Batches)
    PROVE  Batches[i] \subseteq All \ Silent
BY InventoryAssumption, ElementOfSeq DEF InventoryAssumption

LEMMA DumpedKnown == Dumped \subseteq Known \ Silent
BY AllIsKnown DEF Dumped

\* Objects that are cached have records, the ReplicaSets excepted.
LEMMA CachedDumped ==
    ASSUME MInv, NEW o \in cache, o.resource \notin Silent
    PROVE  o.resource \in Dumped /\ Key(o) \in Keys
BY ArePossible DEF MInv, Watching, Awaits, Dumped, Keys

\* Nothing the agent has is changed.
LEMMA AgentStays ==
    ASSUME Watching, OneRecordEach, Running, Covered, Mirrors,
           UNCHANGED <<best, main, listed, cache, got, step, left, asserted, view, behind>>
    PROVE  Watching' /\ OneRecordEach' /\ Running' /\ Covered' /\ Mirrors'
<1>1. Awaits' = Awaits /\ Dumped' = Dumped
  BY DEF Awaits, Dumped, Watched
<1>2. ASSUME NEW k PROVE Said(k)' = Said(k) /\ Shown(k)' = Shown(k) /\ Reached(k)' = Reached(k)
  BY DEF Said, Shown, Reached, Emitted, Version
<1>3. \A r : Version(r)' = Version(r)
  BY DEF Version
<1>4. Watching' /\ OneRecordEach' /\ Running'
  BY <1>1 DEF Watching, OneRecordEach, Running, Open
<1>5. Covered'
  <2>1. \A r : Done(r)' = Done(r)
    BY DEF Done
  <2> QED
    BY <2>1 DEF Covered
<1>6. Mirrors'
  BY <1>1, <1>2, <1>3 DEF Mirrors
<1> QED
  BY <1>4, <1>5, <1>6

\* An object is created, updated or deleted while the agent does nothing.
LEMMA ChangeKeeps ==
    ASSUME MInv, NEW os, Change(os),
           os \subseteq api \cup Objects,
           ReplicaSets(os) = ReplicaSets(api),
           \A o, p \in os : o.uid = p.uid => o = p
    PROVE  MInv'
<1>1. /\ api' = os /\ changes < MaxChanges /\ changes' = changes + 1
      /\ UNCHANGED <<best, main, listed, cache, got, step, left, asserted, view, behind, restarts>>
  BY DEF Change, discoveryVars, informerVars, refreshVars, snapVars, spamVars
<1>2. Population'
  BY <1>1, Bounds, PopulationKept DEF Held
<1>3. OneEach'
  BY <1>1 DEF MInv, OneEach
<1>4. Owners'
  BY <1>1 DEF MInv, Owners, ReplicaSets
<1>5. Counters'
  BY <1>1, Bounds DEF MInv, Counters
<1>6. Watching' /\ OneRecordEach' /\ Running' /\ Covered' /\ Mirrors'
  BY <1>1, AgentStays DEF MInv
<1> QED
  BY <1>2, <1>3, <1>4, <1>5, <1>6 DEF MInv

LEMMA ClusterStep ==
    ASSUME MInv, \/ \E o \in Objects : Create(o) \/ Delete(o)
                 \/ \E o, p \in Objects : Update(o, p)
                 \/ \E p \in Offered : ChangeCRD(p)
    PROVE  MInv'
<1>1. \A o \in Objects : o.resource # "replicasets"
  BY InventoryAssumption DEF InventoryAssumption, Silent
<1>2. \A o, p \in api : o.uid = p.uid => o = p
  BY DEF MInv, OneEach
<1>3. ASSUME NEW o \in Objects, Create(o) PROVE MInv'
  <2>1. Change(api \cup {o}) /\ \A p \in api : p.uid # o.uid
    BY <1>3 DEF Create
  <2>2. ReplicaSets(api \cup {o}) = ReplicaSets(api)
    BY <1>1 DEF ReplicaSets
  <2>3. \A q, p \in api \cup {o} : q.uid = p.uid => q = p
    BY <1>2, <2>1
  <2> QED
    BY <2>1, <2>2, <2>3, ChangeKeeps
<1>4. ASSUME NEW o \in Objects, Delete(o) PROVE MInv'
  <2>1. Change(api \ {o})
    BY <1>4 DEF Delete
  <2>2. ReplicaSets(api \ {o}) = ReplicaSets(api)
    BY <1>1 DEF ReplicaSets
  <2> QED
    BY <1>2, <2>1, <2>2, ChangeKeeps
<1>5. ASSUME NEW o \in Objects, NEW p \in Objects, Update(o, p) PROVE MInv'
  <2>1. Change((api \ {o}) \cup {p}) /\ o \in api /\ o.uid = p.uid
    BY <1>5 DEF Update
  <2>2. ReplicaSets((api \ {o}) \cup {p}) = ReplicaSets(api)
    BY <1>1 DEF ReplicaSets
  <2>3. \A q, t \in (api \ {o}) \cup {p} : q.uid = t.uid => q = t
    BY <1>2, <2>1
  <2> QED
    BY <2>1, <2>2, <2>3, ChangeKeeps
<1>6. ASSUME NEW p \in Offered, ChangeCRD(p) PROVE MInv'
  <2>1. /\ changes < MaxChanges /\ changes' = changes + 1
        /\ UNCHANGED <<api, best, main, listed, cache, got, step, left, asserted, view, behind,
                       restarts>>
    BY <1>6 DEF ChangeCRD, ChangeServed, informerVars, refreshVars, snapVars, spamVars
  <2>2. Population'
    BY <2>1, Bounds, PopulationKept DEF Held
  <2>3. OneEach' /\ Owners' /\ Counters'
    BY <2>1, Bounds DEF MInv, OneEach, Owners, ReplicaSets, Counters
  <2>4. Watching' /\ OneRecordEach' /\ Running' /\ Covered' /\ Mirrors'
    BY <2>1, AgentStays DEF MInv
  <2> QED
    BY <2>2, <2>3, <2>4 DEF MInv
<1> QED
  BY <1>3, <1>4, <1>5, <1>6

\* A gate that is closed, or closes, leaves nothing to be said of the view.
LEMMA Closed ==
    ASSUME MInv, main' \in {"discover", "sync"}, \A r \in Runners : step'[r] = 0
    PROVE  Covered' /\ Mirrors'
<1>1. ~Open' /\ \A k : ~Reached(k)'
  BY DEF Open, Reached
<1>2. \A r \in Runners : Done(r)' = {}
  <2>1. \A r \in Runners : 1..(step'[r] - 1) = {}
    OBVIOUS
  <2> QED
    BY <2>1 DEF Done
<1> QED
  BY <1>1, <1>2 DEF Covered, Mirrors

LEMMA DiscoverStep ==
    ASSUME MInv, NEW ok \in BOOLEAN, Discover(ok)
    PROVE  MInv'
<1>1. /\ main = "discover"
      /\ UNCHANGED <<api, changes, main, listed, cache, got, step, left, asserted, view, behind,
                     restarts>>
  BY DEF Discover, clusterVars, informerVars, refreshVars, snapVars, spamVars
<1>2. listed' = {}
  BY <1>1 DEF MInv, Watching
<1>3. Population'
  BY <1>1, PopulationKept DEF Held
<1>4. OneEach' /\ Owners' /\ OneRecordEach' /\ Counters'
  BY <1>1, <1>2 DEF MInv, OneEach, Owners, OneRecordEach, Counters
<1>5. Watching' /\ Running'
  BY <1>1, <1>2 DEF MInv, Watching, Running, Open
<1>6. Covered' /\ Mirrors'
  BY <1>1, Closed DEF MInv, Running
<1> QED
  BY <1>3, <1>4, <1>5, <1>6 DEF MInv

LEMMA StartInformersStep ==
    ASSUME MInv, StartInformers
    PROVE  MInv'
<1>1. /\ main = "discover" /\ main' = "sync"
      /\ UNCHANGED <<api, changes, best, listed, cache, got, step, left, asserted, view, behind,
                     restarts>>
  BY DEF StartInformers, discoveryVars, clusterVars, informerVars, refreshVars, snapVars, spamVars
<1>2. Awaits' = Awaits
  BY <1>1 DEF Awaits, Watched
<1>3. Population'
  BY <1>1, PopulationKept DEF Held
<1>4. OneEach' /\ Owners' /\ OneRecordEach' /\ Counters'
  BY <1>1 DEF MInv, OneEach, Owners, ReplicaSets, OneRecordEach, Counters
<1>5. Watching' /\ Running'
  BY <1>1, <1>2 DEF MInv, Watching, Running, Open
<1>6. Covered' /\ Mirrors'
  BY <1>1, Closed DEF MInv, Running
<1> QED
  BY <1>3, <1>4, <1>5, <1>6 DEF MInv

LEMMA RestartStep ==
    ASSUME MInv, Restart
    PROVE  MInv'
<1>1. /\ restarts < MaxRestarts /\ restarts' = restarts + 1
      /\ main' = "discover" /\ listed' = {} /\ cache' = {} /\ got' = {} /\ left' = {}
      /\ step' = [r \in Runners |-> 0] /\ asserted' = [r \in Runners |-> {}]
      /\ UNCHANGED <<api, changes, view, behind>>
  BY DEF Restart, clusterVars
<1>2. Population'
  BY <1>1, PopulationKept DEF Held
<1>3. OneEach' /\ Owners' /\ OneRecordEach'
  BY <1>1 DEF MInv, OneEach, Owners, OneRecordEach
<1>4. Counters'
  BY <1>1, Bounds DEF MInv, Counters
<1>5. Watching'
  BY <1>1 DEF MInv, Watching, Open
<1>6. Running'
  BY <1>1, Bounds DEF MInv, Running
<1>7. Covered' /\ Mirrors'
  BY <1>1, Closed
<1> QED
  BY <1>2, <1>3, <1>4, <1>5, <1>6, <1>7 DEF MInv

\* Informers list: what they cache is new to the cache and, of ReplicaSets, complete.
LEMMA ListStep ==
    ASSUME MInv, NEW rs \in SUBSET All, List(rs)
    PROVE  MInv'
<1> DEFINE new == UNION {InGroup(api, r) : r \in rs}
<1>1. /\ main # "discover" /\ rs \cap listed = {}
      /\ \A r \in rs : Watched(r)
      /\ listed' = listed \cup rs
      /\ cache' = cache \cup {Trim(o) : o \in new}
      /\ UNCHANGED <<best, api, changes, main, got, step, left, asserted, view, behind, restarts>>
  BY DEF List, discoveryVars, clusterVars, refreshVars, snapVars, spamVars
<1>2. /\ new \subseteq api /\ \A o \in new : o.resource \in rs
      /\ \A o \in api : o.resource \in rs /\ o.group = Group(o.resource) => o \in new
  BY DEF InGroup
<1> HIDE DEF new
<1>3. {Trim(o) : o \in new} = new
  BY <1>2, ArePossible, CachedWhole DEF MInv
<1>4. cache' = cache \cup new
  BY <1>1, <1>3
<1>5. Awaits' = Awaits /\ Dumped' = Dumped
  BY <1>1 DEF Awaits, Dumped, Watched
<1>6. \A o \in cache : o.resource \in listed /\ o.resource \notin rs
  BY <1>1 DEF MInv, Watching
<1>7. Population'
  BY <1>1, <1>2, <1>4, PopulationKept DEF Held
<1>8. OneEach'
  <2>1. \A o, p \in api : o.uid = p.uid => o = p
    BY DEF MInv, OneEach
  <2>2. \A o, p \in cache : o.uid = p.uid => o = p
    BY DEF MInv, OneEach
  <2>3. ASSUME NEW o \in cache, NEW p \in new, o.uid = p.uid PROVE FALSE
    <3>1. o \in Held /\ p \in Held
      BY <1>2 DEF Held
    <3> QED
      BY <1>2, <1>6, <2>3, <3>1, OneName DEF MInv
  <2> QED
    BY <1>1, <1>2, <1>4, <2>1, <2>2, <2>3 DEF OneEach
<1>9. rs \subseteq Awaits
  BY <1>1 DEF Awaits
<1>10. Watching'
  BY <1>1, <1>2, <1>4, <1>5, <1>9 DEF MInv, Watching, Open
<1>11. Owners'
  <2> SUFFICES ASSUME "replicasets" \in listed' PROVE ReplicaSets(cache') = ReplicaSets(api)
    BY <1>1 DEF Owners, ReplicaSets
  <2>1. CASE "replicasets" \in listed
    BY <1>1, <1>2, <1>4, <2>1 DEF MInv, Owners, ReplicaSets
  <2>2. CASE "replicasets" \in rs
    <3>1. \A o \in api : o.resource = "replicasets" => o.group = Group(o.resource)
      BY ArePossible, InventoryAssumption DEF InventoryAssumption, MInv, Shaped, Group, Typed
    <3>2. \A o \in cache : o.resource # "replicasets"
      BY <1>6, <2>2
    <3> QED
      BY <1>2, <1>4, <2>2, <3>1, <3>2 DEF ReplicaSets
  <2> QED
    BY <1>1, <2>1, <2>2
<1>12. OneRecordEach' /\ Counters' /\ Running'
  BY <1>1 DEF MInv, OneRecordEach, Counters, Running
<1>13. CASE Open
  <2>1. rs = {}
    BY <1>1, <1>9, <1>13 DEF MInv, Watching
  <2>2. cache' = cache /\ listed' = listed
    BY <1>1, <1>2, <1>4, <2>1
  <2>3. Covered' /\ Mirrors'
    BY <1>1, <2>2, AgentStays DEF MInv
  <2> QED
    BY <1>7, <1>8, <1>10, <1>11, <1>12, <2>3 DEF MInv
<1>14. CASE ~Open
  <2>1. main \in {"discover", "sync"} /\ \A r \in Runners : step[r] = 0
    BY <1>14 DEF MInv, Counters, Running, Open
  <2>2. Covered' /\ Mirrors'
    BY <1>1, <2>1, Closed
  <2> QED
    BY <1>7, <1>8, <1>10, <1>11, <1>12, <2>2 DEF MInv
<1> QED
  BY <1>13, <1>14

-----------------------------------------------------------------------------
(* Lines *)

\* A record takes the place of the one with its key, and no other record changes.
LEMMA ShowStep ==
    ASSUME MInv, NEW o \in Possible, o.resource \notin Silent, NEW os, Show(Emitted(o, os))
    PROVE  /\ \A k : k # Key(o) => Shown(k)' = Shown(k)
           /\ \A k : k = Key(o) => Shown(k)' = {Emitted(o, os)}
           /\ OneRecordEach'
           /\ asserted' \in [Runners -> SUBSET Keys]
           /\ \A r \in Runners :
                 asserted'[r] = IF step[r] = 0 THEN {} ELSE asserted[r] \cup {Key(o)}
<1> DEFINE rec == Emitted(o, os)
<1>1. <<rec.kind, rec.uid>> = Key(o)
  BY EmittedKey
<1>2. /\ view' = {v \in view : \A r \in {rec} : ~SameKey(v, r)} \cup {rec}
      /\ asserted' = [r \in Runners |-> IF step[r] = 0 THEN {}
                                         ELSE asserted[r] \cup {<<rec.kind, rec.uid>>}]
  BY DEF Show, Shows
<1> HIDE DEF rec
<1>3. \A v : SameKey(v, rec) <=> <<v.kind, v.uid>> = Key(o)
  BY <1>1 DEF SameKey
<1>4. view' = {v \in view : <<v.kind, v.uid>> # Key(o)} \cup {rec}
  BY <1>2, <1>3
<1>5. Key(o) \in Keys
  BY DEF Keys
<1>6. \A k : Shown(k)' = {v \in view' : <<v.kind, v.uid>> = k}
  BY DEF Shown
<1>7. \A k : k # Key(o) => Shown(k)' = Shown(k)
  BY <1>1, <1>4, <1>6 DEF Shown
<1>8. \A k : k = Key(o) => Shown(k)' = {rec}
  BY <1>1, <1>4, <1>6
<1>9. OneRecordEach'
  <2>1. \A v, w \in view : SameKey(v, w) => v = w
    BY DEF MInv, OneRecordEach
  <2>2. \A v, w \in view' : SameKey(v, w) => v = w
    BY <1>1, <1>4, <2>1 DEF SameKey
  <2> QED
    BY <2>2 DEF OneRecordEach
<1> QED
  BY <1>1, <1>2, <1>5, <1>7, <1>8, <1>9 DEF MInv, Running, rec

\* INITIAL or EXPOSURE: of the key, either what is cached is shown, or the key is behind.
LEMMA WriteKeeps ==
    ASSUME MInv, NEW o \in got \cup {x[2] : x \in left}, Write(o),
           UNCHANGED <<best, api, changes, main, listed, cache, step, restarts>>,
           got' \subseteq got, left' \subseteq left, \A x \in left \ left' : x[2] = o
    PROVE  MInv'
<1>1. o \in Possible /\ o.resource \notin Silent
  BY ArePossible DEF MInv, Running, Held
<1>2. /\ Show(Emitted(o, cache))
      /\ behind' = IF o \in cache THEN behind \ {Key(o)} ELSE behind \cup {Key(o)}
  BY DEF Write
<1>3. /\ \A k : k # Key(o) => Shown(k)' = Shown(k)
      /\ \A k : k = Key(o) => Shown(k)' = {Emitted(o, cache)}
      /\ OneRecordEach'
      /\ asserted' \in [Runners -> SUBSET Keys]
      /\ \A r \in Runners :
            asserted'[r] = IF step[r] = 0 THEN {} ELSE asserted[r] \cup {Key(o)}
  BY <1>1, <1>2, ShowStep
<1>4. Awaits' = Awaits /\ Dumped' = Dumped /\ \A r : Version(r)' = Version(r)
  BY DEF Awaits, Dumped, Watched, Version
<1>5. \A k : Said(k)' = Said(k)
  BY DEF Said, Emitted, Version
<1>6. o.resource \in Known \ Silent /\ Key(o) \in Keys
  BY <1>1, CachedWhole, AllIsKnown DEF Keys
<1>7. Population'
  BY PopulationKept DEF Held
<1>8. OneEach' /\ Owners' /\ Counters'
  BY DEF MInv, OneEach, Owners, ReplicaSets, Counters
<1>9. Watching'
  BY <1>4 DEF MInv, Watching, Open
<1>10. Running'
  BY <1>2, <1>3, <1>6 DEF MInv, Running
<1>11. Covered'
  <2> SUFFICES ASSUME NEW r \in Runners, NEW p \in cache, p.resource \in Done(r)
               PROVE  Key(p) \in asserted'[r]
    BY DEF Covered, Done
  <2>1. step[r] # 0
    BY Bounds
  <2> QED
    BY <1>3, <2>1 DEF MInv, Covered
<1>12. Mirrors'
  <2> SUFFICES ASSUME NEW r \in Dumped, NEW u, NEW k, k = <<EmitKind(r), u>>, Reached(k)'
               PROVE  /\ k \notin behind' => Shown(k)' = Said(k)
                      /\ \A v \in Shown(k)' : v.version = Version(r) /\ v.fields = Kept(r)
    BY <1>4, <1>5 DEF Mirrors
  <2>1. CASE k = Key(o)
    <3>1. Shown(k)' = {Emitted(o, cache)}
      BY <1>3, <2>1
    <3>2. o.resource = r
      BY <1>6, <2>1, KeyOf, DumpedKnown
    <3>3. k \notin behind' => o \in cache
      BY <1>2, <2>1
    <3>4. o \in cache => Said(k) = {Emitted(o, cache)}
      <4>1. \A p \in cache : p.resource \notin Silent /\ Key(p) = k => p.uid = o.uid
        BY <2>1 DEF Key
      <4>2. o \in cache => {p \in cache : p.resource \notin Silent /\ Key(p) = k} = {o}
        BY <1>1, <2>1, <4>1 DEF MInv, OneEach
      <4> QED
        BY <4>2 DEF Said
    <3> QED
      BY <3>1, <3>2, <3>3, <3>4, EmittedKey
  <2>2. CASE k # Key(o)
    <3>1. Shown(k)' = Shown(k) /\ (k \notin behind' => k \notin behind)
      BY <1>2, <1>3, <2>2
    <3>2. Reached(k)
      <4>1. main = "snapshot" => k \in asserted[Main]
        BY <1>3, <2>2, Bounds DEF Reached
      <4>2. \A x \in left : Key(x[2]) = k => x \in left'
        BY <2>2
      <4> QED
        BY <4>1, <4>2 DEF Reached
    <3> QED
      BY <3>1, <3>2 DEF MInv, Mirrors
  <2> QED
    BY <2>1, <2>2
<1> QED
  BY <1>3, <1>7, <1>8, <1>9, <1>10, <1>11, <1>12 DEF MInv

LEMMA ReadStep ==
    ASSUME MInv, \/ \E o \in got : EmitExposure(o)
                 \/ \E r \in Runners : \E x \in left : EmitInitial(r, x[2])
    PROVE  MInv'
<1>1. ASSUME NEW o \in got, EmitExposure(o) PROVE MInv'
  <2>1. /\ got' = got \ {o} /\ Write(o)
        /\ UNCHANGED <<best, api, changes, main, listed, cache, step, left, restarts>>
    BY <1>1 DEF EmitExposure, discoveryVars, clusterVars, informerVars, snapVars
  <2> QED
    BY <2>1, WriteKeeps
<1>2. ASSUME NEW r \in Runners, NEW x \in left, EmitInitial(r, x[2]) PROVE MInv'
  <2>1. /\ <<r, x[2]>> \in left /\ left' = left \ {<<r, x[2]>>} /\ Write(x[2])
        /\ UNCHANGED <<best, api, changes, main, listed, cache, got, step, restarts>>
    BY <1>2 DEF EmitInitial, discoveryVars, clusterVars, informerVars, refreshVars
  <2>2. \A y \in left \ left' : y[2] = x[2]
    BY <2>1
  <2> QED
    BY <2>1, <2>2, WriteKeeps
<1> QED
  BY <1>1, <1>2

\* A refresh looks up Services of the cache.
LEMMA LookUpStep ==
    ASSUME MInv, NEW x \in exposed, LookUp(x)
    PROVE  MInv'
<1> DEFINE found == {p \in cache : /\ p.resource = "services"
                                   /\ p.ns = x[2].ns /\ p.name = x[2].name}
<1>1. /\ got' = got \cup found
      /\ UNCHANGED <<best, api, changes, main, listed, cache, step, left, asserted, view, behind,
                     restarts>>
  BY DEF LookUp, discoveryVars, clusterVars, informerVars, snapVars, spamVars
<1>2. found \subseteq cache /\ \A p \in found : p.resource \notin Silent
  BY DEF Silent
<1> HIDE DEF found
<1>3. Population'
  BY <1>1, <1>2, PopulationKept DEF Held
<1>4. OneEach' /\ Owners' /\ Counters' /\ OneRecordEach'
  BY <1>1 DEF MInv, OneEach, Owners, ReplicaSets, Counters, OneRecordEach
<1>5. Awaits' = Awaits /\ Dumped' = Dumped /\ \A r : Version(r)' = Version(r)
  BY <1>1 DEF Awaits, Dumped, Watched, Version
<1>6. Watching' /\ Running'
  BY <1>1, <1>2, <1>5 DEF MInv, Watching, Running, Open
<1>7. Covered'
  BY <1>1 DEF MInv, Covered, Done
<1>8. Mirrors'
  <2>1. \A k : Said(k)' = Said(k) /\ Shown(k)' = Shown(k) /\ Reached(k)' = Reached(k)
    BY <1>1 DEF Said, Shown, Reached, Emitted, Version
  <2> QED
    BY <1>1, <1>5, <2>1 DEF MInv, Mirrors
<1> QED
  BY <1>3, <1>4, <1>6, <1>7, <1>8 DEF MInv

-----------------------------------------------------------------------------
(* Events *)

\* The cached ReplicaSets are those of the cluster: no event of one is left to arrive.
LEMMA NoSilentEvent ==
    ASSUME MInv, "replicasets" \in listed
    PROVE  /\ \A o \in api : o.resource = "replicasets" => o \in cache
           /\ \A p \in cache : p.resource = "replicasets" => p \in api
<1>1. ReplicaSets(cache) = ReplicaSets(api)
  BY DEF MInv, Owners
<1> QED
  BY <1>1 DEF ReplicaSets

\* The cache takes the state of one object for that of its name, and the handler writes it.
LEMMA UpsertStep ==
    ASSUME MInv, NEW o \in api, Upsert(o)
    PROVE  MInv'
<1> DEFINE old == {p \in cache : Name(p) = Name(o)}
<1>1. o \in Possible /\ o \in Held /\ Trim(o) = o
  BY ArePossible, CachedWhole DEF MInv, Held
<1>2. /\ o.resource \in listed /\ o \notin cache
      /\ cache' = (cache \ old) \cup {o}
      /\ IF Open /\ o.resource \notin Silent
         THEN /\ Show(Emitted(o, cache'))
              /\ behind' = (behind \ {Key(o)}) \cup {Key(p) : p \in {q \in old : q.uid # o.uid}}
         ELSE UNCHANGED <<asserted, view, behind>>
      /\ UNCHANGED <<best, api, changes, main, listed, got, step, left, restarts>>
  BY <1>1 DEF Upsert, Hears, discoveryVars, clusterVars, snapVars, spamVars
<1>3. o.resource \notin Silent
  BY <1>2, NoSilentEvent DEF Silent
<1>4. old \subseteq cache /\ \A p \in cache : p.uid = o.uid => p \in old
  BY <1>1, OneName DEF MInv, Held
<1>5. \A p \in old : p.resource = o.resource
  BY DEF Name
<1> HIDE DEF old
<1>6. Awaits' = Awaits /\ Dumped' = Dumped /\ \A r : Version(r)' = Version(r)
  BY <1>2 DEF Awaits, Dumped, Watched, Version
<1>7. o.resource \in Dumped /\ o.resource \in Known \ Silent /\ Key(o) \in Keys
  BY <1>1, <1>2, <1>3, DumpedKnown DEF MInv, Watching, Awaits, Dumped, Keys
<1>8. Population'
  BY <1>2, PopulationKept DEF Held
<1>9. \A p, q \in cache' : p.uid = q.uid => p = q
  BY <1>2, <1>4 DEF MInv, OneEach
<1>10. OneEach'
  BY <1>2, <1>9 DEF MInv, OneEach
<1>11. Watching'
  BY <1>2, <1>6 DEF MInv, Watching, Open
<1>12. ReplicaSets(cache') = ReplicaSets(cache)
  BY <1>2, <1>3, <1>5 DEF ReplicaSets, Silent
<1>13. Owners' /\ Counters'
  <2>1. ReplicaSets(cache)' = ReplicaSets(cache') /\ ReplicaSets(api)' = ReplicaSets(api)
    BY <1>2 DEF ReplicaSets
  <2> QED
    BY <1>2, <1>12, <2>1 DEF MInv, Owners, Counters
<1>14. CASE ~Open
  <2>1. main \in {"discover", "sync"} /\ \A r \in Runners : step[r] = 0
    BY <1>14 DEF MInv, Counters, Running, Open
  <2>2. OneRecordEach' /\ Running'
    BY <1>2, <1>14 DEF MInv, OneRecordEach, Running
  <2>3. Covered' /\ Mirrors'
    BY <1>2, <2>1, Closed
  <2> QED
    BY <1>8, <1>10, <1>11, <1>13, <2>2, <2>3 DEF MInv
<1>15. CASE Open
  <2>1. /\ Show(Emitted(o, cache'))
        /\ behind' = (behind \ {Key(o)}) \cup {Key(p) : p \in {q \in old : q.uid # o.uid}}
    BY <1>2, <1>3, <1>15
  <2>2. /\ \A k : k # Key(o) => Shown(k)' = Shown(k)
        /\ \A k : k = Key(o) => Shown(k)' = {Emitted(o, cache')}
        /\ OneRecordEach'
        /\ asserted' \in [Runners -> SUBSET Keys]
        /\ \A r \in Runners :
              asserted'[r] = IF step[r] = 0 THEN {} ELSE asserted[r] \cup {Key(o)}
    BY <1>1, <1>3, <2>1, ShowStep
  <2>3. \A p \in old : p.resource \notin Silent /\ Key(p) \in Keys
    BY <1>3, <1>4, <1>5, CachedDumped
  <2>4. Running'
    <3>1. behind' \subseteq Keys
      BY <1>7, <2>1, <2>3 DEF MInv, Running
    <3> QED
      BY <1>2, <2>2, <3>1 DEF MInv, Running
  <2>5. Covered'
    <3> SUFFICES ASSUME NEW r \in Runners, NEW p \in cache', p.resource \in Done(r)
                 PROVE  Key(p) \in asserted'[r]
      BY <1>2 DEF Covered, Done
    <3>1. step[r] # 0
      BY Bounds
    <3>2. p = o \/ p \in cache
      BY <1>2
    <3> QED
      BY <2>2, <3>1, <3>2 DEF MInv, Covered
  <2>6. Mirrors'
    <3> SUFFICES ASSUME NEW r \in Dumped, NEW u, NEW k, k = <<EmitKind(r), u>>, Reached(k)'
                 PROVE  /\ k \notin behind' => Shown(k)' = Said(k)'
                        /\ \A v \in Shown(k)' : v.version = Version(r) /\ v.fields = Kept(r)
      BY <1>6 DEF Mirrors
    <3>1. Said(k)' = {Emitted(p, cache) : p \in {q \in cache' : q.resource \notin Silent /\ Key(q) = k}}
      <4>1. \A p : Emitted(p, cache)' = Emitted(p, cache)
        BY <1>2, <1>12 DEF Emitted, Version, ReplicaSets
      <4> QED
        BY <4>1 DEF Said
    <3>2. \A p : Emitted(p, cache') = Emitted(p, cache)
      BY <1>12 DEF Emitted
    <3>3. CASE k = Key(o)
      <4>1. Shown(k)' = {Emitted(o, cache)}
        BY <2>2, <3>2, <3>3
      <4>2. o.resource = r
        BY <1>7, <3>3, KeyOf, DumpedKnown
      <4>3. \A p : Key(p) = k => p.uid = o.uid
        BY <3>3 DEF Key
      <4>4. {q \in cache' : q.resource \notin Silent /\ Key(q) = k} = {o}
        BY <1>2, <1>3, <1>9, <3>3, <4>3
      <4> QED
        BY <3>1, <4>1, <4>2, <4>4, EmittedKey
    <3>4. CASE k # Key(o)
      <4>1. Shown(k)' = Shown(k) /\ (k \notin behind' => k \notin behind)
        BY <2>1, <2>2, <3>4
      <4>2. Reached(k)
        <5>1. main = "snapshot" => k \in asserted[Main]
          BY <1>2, <2>2, <3>4, Bounds DEF Reached
        <5> QED
          BY <1>2, <5>1 DEF Reached
      <4>3. ASSUME k \notin behind', NEW p \in old, Key(p) = k PROVE FALSE
        <5>1. p.uid = o.uid
          BY <2>1, <4>3
        <5>2. Key(p) = Key(o)
          BY <1>5, <5>1 DEF Key
        <5> QED
          BY <3>4, <4>3, <5>2
      <4>4. k \notin behind' =>
                {q \in cache' : q.resource \notin Silent /\ Key(q) = k} =
                {q \in cache : q.resource \notin Silent /\ Key(q) = k}
        BY <1>2, <3>4, <4>3
      <4>5. k \notin behind' => Said(k)' = Said(k)
        BY <3>1, <4>4 DEF Said
      <4> QED
        BY <4>1, <4>2, <4>5 DEF MInv, Mirrors
    <3> QED
      BY <3>3, <3>4
  <2> QED
    BY <1>8, <1>10, <1>11, <1>13, <2>2, <2>4, <2>5, <2>6 DEF MInv
<1> QED
  BY <1>14, <1>15

\* The cache loses an object, and the DELETE line names its key.
LEMMA DropStep ==
    ASSUME MInv, NEW p \in cache, Drop(p)
    PROVE  MInv'
<1>1. /\ p.resource \in listed /\ \A o \in api : o.uid # p.uid
      /\ cache' = cache \ {p}
      /\ UNCHANGED <<best, api, changes, main, listed, got, step, left, asserted, restarts>>
      /\ IF Open /\ p.resource \notin Silent
         THEN LET key == <<KindFromResource(p.resource), p.uid>>
              IN  view' = {v \in view : <<v.kind, v.uid>> # key} /\ behind' = behind \ {key}
         ELSE UNCHANGED <<view, behind>>
  BY DEF Drop, Hears, discoveryVars, clusterVars, refreshVars, snapVars, spamVars
<1>2. p.resource \notin Silent
  BY <1>1, NoSilentEvent DEF Silent
<1>3. p.resource \in Dumped /\ p.resource \in Known \ Silent
  BY <1>2, CachedDumped, DumpedKnown
<1>4. <<KindFromResource(p.resource), p.uid>> = Key(p)
  BY <1>3, KindsAgree DEF Key
<1>5. Awaits' = Awaits /\ Dumped' = Dumped /\ \A r : Version(r)' = Version(r)
  BY <1>1 DEF Awaits, Dumped, Watched, Version
<1>6. Population'
  BY <1>1, PopulationKept DEF Held
<1>7. OneEach' /\ Counters'
  BY <1>1 DEF MInv, OneEach, Counters
<1>8. OneRecordEach'
  BY <1>1 DEF MInv, OneRecordEach
<1>9. Watching'
  BY <1>1, <1>5 DEF MInv, Watching, Open
<1>10. ReplicaSets(cache') = ReplicaSets(cache)
  BY <1>1, <1>2 DEF ReplicaSets, Silent
<1>11. Owners'
  <2>1. ReplicaSets(cache)' = ReplicaSets(cache') /\ ReplicaSets(api)' = ReplicaSets(api)
    BY <1>1 DEF ReplicaSets
  <2> QED
    BY <1>1, <1>10, <2>1 DEF MInv, Owners
<1>12. Running'
  BY <1>1 DEF MInv, Running
<1>13. CASE ~Open
  <2>1. main \in {"discover", "sync"} /\ \A r \in Runners : step[r] = 0
    BY <1>13 DEF MInv, Counters, Running, Open
  <2>2. Covered' /\ Mirrors'
    BY <1>1, <2>1, Closed
  <2> QED
    BY <1>6, <1>7, <1>8, <1>9, <1>11, <1>12, <2>2 DEF MInv
<1>14. CASE Open
  <2>1. view' = {v \in view : <<v.kind, v.uid>> # Key(p)} /\ behind' = behind \ {Key(p)}
    BY <1>1, <1>2, <1>4, <1>14
  <2>2. Covered'
    BY <1>1 DEF MInv, Covered, Done
  <2>3. Mirrors'
    <3> SUFFICES ASSUME NEW r \in Dumped, NEW u, NEW k, k = <<EmitKind(r), u>>, Reached(k)'
                 PROVE  /\ k \notin behind' => Shown(k)' = Said(k)'
                        /\ \A v \in Shown(k)' : v.version = Version(r) /\ v.fields = Kept(r)
      BY <1>5 DEF Mirrors
    <3>1. Shown(k)' = {v \in view' : <<v.kind, v.uid>> = k}
      BY DEF Shown
    <3>2. Said(k)' = {Emitted(q, cache) : q \in {t \in cache' : t.resource \notin Silent /\ Key(t) = k}}
      <4>1. \A q : Emitted(q, cache)' = Emitted(q, cache)
        BY <1>1, <1>10 DEF Emitted, Version, ReplicaSets
      <4> QED
        BY <4>1 DEF Said
    <3>3. CASE k = Key(p)
      <4>1. Shown(k)' = {}
        BY <2>1, <3>1, <3>3
      <4>2. \A q : Key(q) = k => q.uid = p.uid
        BY <3>3 DEF Key
      <4>3. {t \in cache' : t.resource \notin Silent /\ Key(t) = k} = {}
        BY <1>1, <4>2 DEF MInv, OneEach
      <4> QED
        BY <3>2, <4>1, <4>3
    <3>4. CASE k # Key(p)
      <4>1. Shown(k)' = Shown(k) /\ (k \notin behind' => k \notin behind)
        BY <2>1, <3>1, <3>4 DEF Shown
      <4>2. Reached(k)
        BY <1>1 DEF Reached
      <4>3. {t \in cache' : t.resource \notin Silent /\ Key(t) = k} =
            {t \in cache : t.resource \notin Silent /\ Key(t) = k}
        BY <1>1, <3>4
      <4>4. Said(k)' = Said(k)
        BY <3>2, <4>3 DEF Said
      <4> QED
        BY <4>1, <4>2, <4>4 DEF MInv, Mirrors
    <3> QED
      BY <3>3, <3>4
  <2> QED
    BY <1>6, <1>7, <1>8, <1>9, <1>11, <1>12, <2>2, <2>3 DEF MInv
<1> QED
  BY <1>13, <1>14

-----------------------------------------------------------------------------
(* Snapshots *)

\* main opens the gate and begins, or a reconciliation does.
LEMMA BeginStep ==
    ASSUME MInv, StartStreaming \/ \E r \in Snapshotters : Reconcile(r)
    PROVE  MInv'
<1>1. PICK r \in Runners :
        /\ step[r] = 0 /\ step' = [step EXCEPT ![r] = 1]
        /\ UNCHANGED <<best, api, changes, listed, cache, got, left, asserted, view, behind, restarts>>
        /\ \/ main = "sync" /\ main' = "snapshot" /\ Awaits \subseteq listed /\ r = Main
           \/ main = "stream" /\ main' = "stream"
  BY DEF StartStreaming, Reconcile, Begin, discoveryVars, clusterVars, informerVars, refreshVars,
         spamVars, Runners
<1>2. Awaits' = Awaits /\ Dumped' = Dumped /\ \A s : Version(s)' = Version(s)
  BY <1>1 DEF Awaits, Dumped, Watched, Version
<1>3. Population'
  BY <1>1, PopulationKept DEF Held
<1>4. OneEach' /\ Owners' /\ Counters' /\ OneRecordEach'
  BY <1>1 DEF MInv, OneEach, Owners, ReplicaSets, Counters, OneRecordEach
<1>5. Watching'
  BY <1>1, <1>2 DEF MInv, Watching, Open
<1>6. \A s \in Runners : step'[s] = IF s = r THEN 1 ELSE step[s]
  BY <1>1 DEF MInv, Running
<1>7. Running'
  <2>1. step' \in [Runners -> 0..(Len(Batches) + 1)]
    BY <1>1, Bounds DEF MInv, Running
  <2>2. \A s \in Runners : step'[s] = 0 => asserted'[s] = {}
    BY <1>1, <1>6 DEF MInv, Running
  <2>3. \A s \in Runners : step'[s] # 0 => main' = "stream" \/ (main' = "snapshot" /\ s = Main)
    BY <1>1, <1>6 DEF MInv, Running
  <2> QED
    BY <1>1, <2>1, <2>2, <2>3 DEF MInv, Running
<1>8. Covered'
  <2>1. \A s \in Runners : Done(s)' = IF s = r THEN {} ELSE Done(s)
    <3>1. 1..(1 - 1) = {}
      OBVIOUS
    <3> QED
      BY <1>6, <3>1 DEF Done
  <2> QED
    BY <1>1, <2>1 DEF MInv, Covered
<1>9. Mirrors'
  <2>1. \A k : Said(k)' = Said(k) /\ Shown(k)' = Shown(k)
    BY <1>1 DEF Said, Shown, Emitted, Version
  <2>2. \A k : Reached(k)' => Reached(k)
    BY <1>1, Bounds DEF Reached, MInv, Running
  <2> QED
    BY <1>1, <1>2, <2>1, <2>2 DEF MInv, Mirrors
<1> QED
  BY <1>3, <1>4, <1>5, <1>7, <1>8, <1>9 DEF MInv

\* What is listed is asserted, and has its INITIAL to come.
LEMMA ListCachedStep ==
    ASSUME MInv, NEW r \in Runners, ListCached(r)
    PROVE  MInv'
<1> DEFINE found == {o \in cache : o.resource \in Batches[step[r]] \cap Dumped}
           keys == {<<KindFromResource(o.resource), o.uid>> : o \in found}
<1>1. /\ step[r] \in 1..Len(Batches) /\ step' = [step EXCEPT ![r] = @ + 1]
      /\ left' = left \cup ({r} \X found)
      /\ asserted' = [asserted EXCEPT ![r] = @ \cup keys]
      /\ UNCHANGED <<best, api, changes, main, listed, cache, got, view, behind, restarts>>
  BY DEF ListCached, discoveryVars, clusterVars, informerVars, refreshVars
<1>2. /\ \A o \in found : o \in cache /\ o.resource \in Dumped
      /\ \A o \in cache : o.resource \in Batches[step[r]] => o \in found
  <2>1. Batches[step[r]] \subseteq All \ Silent
    BY <1>1, BatchesKnown
  <2> QED
    BY <2>1, CachedDumped
<1>3. \A o \in found : <<KindFromResource(o.resource), o.uid>> = Key(o)
  BY <1>2, DumpedKnown, KindsAgree DEF Key
<1>4. keys = {Key(o) : o \in found}
  BY <1>3
<1> HIDE DEF found, keys
<1>5. Awaits' = Awaits /\ Dumped' = Dumped /\ \A s : Version(s)' = Version(s)
  BY <1>1 DEF Awaits, Dumped, Watched, Version
<1>6. Population'
  <2>1. \A x \in left' : x \in left \/ x[2] \in cache
    BY <1>1, <1>2
  <2> QED
    BY <1>1, <2>1, PopulationKept DEF Held
<1>7. OneEach' /\ Owners' /\ Counters' /\ OneRecordEach'
  BY <1>1 DEF MInv, OneEach, Owners, ReplicaSets, Counters, OneRecordEach
<1>8. Watching'
  BY <1>1, <1>5 DEF MInv, Watching, Open
<1>9. /\ \A s \in Runners : step'[s] = IF s = r THEN step[r] + 1 ELSE step[s]
      /\ \A s \in Runners : asserted'[s] = IF s = r THEN asserted[r] \cup keys ELSE asserted[s]
  BY <1>1 DEF MInv, Running
<1>10. Running'
  <2>1. step' \in [Runners -> 0..(Len(Batches) + 1)]
    BY <1>1, Bounds DEF MInv, Running
  <2>2. keys \subseteq Keys
    BY <1>2, <1>4, CachedDumped, DumpedKnown
  <2>3. asserted' \in [Runners -> SUBSET Keys]
    BY <1>1, <2>2 DEF MInv, Running
  <2>4. left' \subseteq Runners \X Possible
    <3>1. \A o \in found : o \in Possible
      BY <1>2, ArePossible DEF MInv
    <3> QED
      BY <1>1, <3>1 DEF MInv, Running
  <2>5. \A x \in left' : x[2].resource \notin Silent
    <3>1. \A o \in found : o.resource \notin Silent
      BY <1>2, DumpedKnown
    <3> QED
      BY <1>1, <3>1 DEF MInv, Running
  <2>6. \A s \in Runners : step'[s] = 0 => step[s] = 0 /\ s # r
    BY <1>1, <1>9, Bounds
  <2>7. \A s \in Runners : step'[s] = 0 => asserted'[s] = {}
    BY <1>9, <2>6 DEF MInv, Running
  <2>8. \A s \in Runners : step'[s] # 0 => main' = "stream" \/ (main' = "snapshot" /\ s = Main)
    BY <1>1, <1>9, Bounds DEF MInv, Running
  <2> QED
    BY <1>1, <2>1, <2>3, <2>4, <2>5, <2>7, <2>8 DEF MInv, Running
<1>11. Covered'
  <2> SUFFICES ASSUME NEW s \in Runners, NEW o \in cache, o.resource \in Done(s)'
               PROVE  Key(o) \in asserted'[s]
    BY <1>1 DEF Covered
  <2>1. CASE s # r
    <3>1. Done(s)' = Done(s)
      BY <1>9, <2>1 DEF Done
    <3> QED
      BY <1>9, <2>1, <3>1 DEF MInv, Covered
  <2>2. CASE s = r
    <3>1. PICK i \in 1..((step[r] + 1) - 1) : o.resource \in Batches[i]
      BY <1>9, <2>2 DEF Done
    <3>2. step[r] \in Nat /\ (i = step[r] \/ i \in 1..(step[r] - 1))
      BY <1>1, <3>1, Bounds
    <3>3. CASE i = step[r]
      BY <1>2, <1>4, <1>9, <2>2, <3>1, <3>3
    <3>4. CASE i \in 1..(step[r] - 1)
      <4>1. o.resource \in Done(r)
        BY <3>1, <3>4 DEF Done
      <4> QED
        BY <1>9, <2>2, <4>1 DEF MInv, Covered
    <3> QED
      BY <3>2, <3>3, <3>4
  <2> QED
    BY <2>1, <2>2
<1>12. Mirrors'
  <2>1. \A k : Said(k)' = Said(k) /\ Shown(k)' = Shown(k)
    BY <1>1 DEF Said, Shown, Emitted, Version
  <2>2. ASSUME NEW k, Reached(k)' PROVE Reached(k)
    <3>1. CASE main = "stream"
      BY <3>1 DEF Reached
    <3>2. CASE main # "stream"
      <4>1. /\ main = "snapshot" /\ k \in asserted'[Main]
            /\ \A x \in left' : x[1] = Main => Key(x[2]) # k
        BY <1>1, <2>2, <3>2 DEF Reached
      <4>2. ASSUME NEW o \in found, r = Main PROVE Key(o) # k
        <5>1. <<r, o>> \in left'
          BY <1>1
        <5>2. <<r, o>>[1] = Main /\ <<r, o>>[2] = o
          BY <4>2
        <5> QED
          BY <4>1, <5>1, <5>2
      <4>3. k \in asserted[Main]
        <5>1. CASE r # Main
          BY <1>9, <4>1, <5>1, Bounds
        <5>2. CASE r = Main
          <6>1. k \notin keys
            BY <1>4, <4>2, <5>2
          <6> QED
            BY <1>9, <4>1, <5>2, <6>1
        <5> QED
          BY <5>1, <5>2
      <4> QED
        BY <1>1, <4>1, <4>3 DEF Reached
    <3> QED
      BY <3>1, <3>2
  <2> QED
    BY <1>1, <1>5, <2>1, <2>2 DEF MInv, Mirrors
<1> QED
  BY <1>6, <1>7, <1>8, <1>10, <1>11, <1>12 DEF MInv

\* The sweep takes what is not asserted, and nothing that is cached is.
LEMMA EndStep ==
    ASSUME MInv, NEW r \in Runners, End(r)
    PROVE  MInv'
<1> DEFINE kinds == {KindFromResource(res) : res \in Dumped}
<1>1. /\ step[r] = Len(Batches) + 1 /\ \A x \in left : x[1] # r
      /\ step' = [step EXCEPT ![r] = 0] /\ asserted' = [asserted EXCEPT ![r] = {}]
      /\ main' = "stream"
      /\ behind' = {k \in behind : k[1] \in kinds => k \in asserted[r]}
      /\ UNCHANGED <<best, api, changes, listed, cache, got, left, restarts>>
  BY DEF End, discoveryVars, clusterVars, informerVars, refreshVars
<1>2. PICK others \in BOOLEAN :
        view' = {v \in view : IF v.kind \in kinds THEN <<v.kind, v.uid>> \in asserted[r]
                              ELSE others}
  BY DEF End
<1>3. \A s \in Dumped : EmitKind(s) \in kinds
  BY DumpedKnown, KindsAgree
<1> HIDE DEF kinds
<1>4. main = "stream" \/ (main = "snapshot" /\ r = Main)
  BY <1>1, Bounds DEF MInv, Running
<1>5. Awaits' = Awaits /\ Dumped' = Dumped /\ \A s : Version(s)' = Version(s)
  BY <1>1 DEF Awaits, Dumped, Watched, Version
<1>6. Population'
  BY <1>1, PopulationKept DEF Held
<1>7. OneEach' /\ Owners' /\ Counters'
  BY <1>1 DEF MInv, OneEach, Owners, ReplicaSets, Counters
<1>8. OneRecordEach'
  BY <1>2 DEF MInv, OneRecordEach
<1>9. Watching'
  BY <1>1, <1>4, <1>5 DEF MInv, Watching, Open
<1>10. /\ \A s \in Runners : step'[s] = IF s = r THEN 0 ELSE step[s]
       /\ \A s \in Runners : asserted'[s] = IF s = r THEN {} ELSE asserted[s]
  BY <1>1 DEF MInv, Running
<1>11. Running'
  <2>1. step' \in [Runners -> 0..(Len(Batches) + 1)]
    BY <1>1, Bounds DEF MInv, Running
  <2>2. asserted' \in [Runners -> SUBSET Keys]
    BY <1>1 DEF MInv, Running
  <2>3. \A s \in Runners : step'[s] = 0 => asserted'[s] = {}
    BY <1>10 DEF MInv, Running
  <2> QED
    BY <1>1, <2>1, <2>2, <2>3 DEF MInv, Running
<1>12. Covered'
  <2>1. \A s \in Runners : Done(s)' = IF s = r THEN {} ELSE Done(s)
    <3>1. 1..(0 - 1) = {}
      OBVIOUS
    <3> QED
      BY <1>10, <3>1 DEF Done
  <2> QED
    BY <1>1, <1>10, <2>1 DEF MInv, Covered
<1>13. \A o \in cache : o.resource \notin Silent => Key(o) \in asserted[r]
  <2>1. Done(r) = All \ Silent
    <3>1. (Len(Batches) + 1) - 1 = Len(Batches)
      BY Bounds
    <3> QED
      BY <1>1, <3>1, InventoryAssumption DEF InventoryAssumption, Done
  <2> QED
    BY <2>1, CachedDumped DEF MInv, Covered, Dumped
<1>14. Mirrors'
  <2> SUFFICES ASSUME NEW s \in Dumped, NEW u, NEW k, k = <<EmitKind(s), u>>
               PROVE  /\ k \notin behind' => Shown(k)' = Said(k)'
                      /\ \A v \in Shown(k)' : v.version = Version(s) /\ v.fields = Kept(s)
    BY <1>5 DEF Mirrors
  <2>1. Said(k)' = Said(k)
    BY <1>1 DEF Said, Emitted, Version
  <2>2. k[1] \in kinds
    BY <1>3
  <2>3. Shown(k)' = IF k \in asserted[r] THEN Shown(k) ELSE {}
    <3>1. \A v \in view : <<v.kind, v.uid>> = k => v.kind \in kinds
      BY <2>2
    <3>2. Shown(k)' = {v \in view' : <<v.kind, v.uid>> = k}
      BY DEF Shown
    <3> QED
      BY <1>2, <3>1, <3>2 DEF Shown
  <2>4. CASE k \notin asserted[r]
    <3>1. Said(k) = {}
      BY <1>13, <2>4 DEF Said
    <3> QED
      BY <2>1, <2>3, <2>4, <3>1
  <2>5. CASE k \in asserted[r]
    <3>1. Reached(k)
      BY <1>1, <1>4, <2>5 DEF Reached
    <3>2. k \notin behind' => k \notin behind
      BY <1>1, <2>5
    <3> QED
      BY <2>1, <2>3, <2>5, <3>1, <3>2 DEF MInv, Mirrors
  <2> QED
    BY <2>4, <2>5
<1> QED
  BY <1>6, <1>7, <1>8, <1>9, <1>11, <1>12, <1>14 DEF MInv

LEMMA InitMInv == Init => MInv
<1> SUFFICES ASSUME Init PROVE MInv
  OBVIOUS
<1>1. /\ cache = {} /\ got = {} /\ left = {} /\ view = {} /\ behind = {}
      /\ step = [r \in Runners |-> 0] /\ asserted = [r \in Runners |-> {}]
  BY DEF Init
<1>2. main \in {"discover", "sync"}
  BY DEF Init, FromNothing, AllFound
<1>3. OneRecordEach /\ Mirrors
  BY <1>1, <1>2 DEF OneRecordEach, Mirrors, Reached
<1>4. Running /\ Covered
  <2>1. Len(Batches) \in Nat
    BY InventoryAssumption, LenProperties DEF InventoryAssumption
  <2> QED
    BY <1>1, <2>1 DEF Running, Covered
<1>5. /\ \A os \in Initial : os \subseteq Objects /\ OneOfEach(os)
      /\ \A os \in Resident : OneOfEach(os)
      /\ MaxChanges \in Nat \ {0} /\ MaxRestarts \in Nat
  BY InventoryAssumption DEF InventoryAssumption
<1>6. ASSUME api \in Initial PROVE Population /\ OneEach
  BY <1>1, <1>5, <1>6 DEF Population, OneEach, OneOfEach, Held
<1>7. CASE FromNothing
  <2>1. api \in Initial /\ changes = MaxChanges - 1 /\ restarts = 0 /\ listed = {}
        /\ main = "discover"
    BY <1>7 DEF FromNothing
  <2>2. Watching /\ Owners
    BY <1>1, <2>1 DEF Watching, Owners, Open
  <2>3. Counters
    BY <1>5, <2>1 DEF Counters
  <2> QED
    BY <1>3, <1>4, <1>6, <2>1, <2>2, <2>3 DEF MInv
<1>8. CASE AllFound
  <2>1. /\ (api \in Resident /\ changes = MaxChanges) \/ (api \in Initial /\ changes = 0)
        /\ restarts = MaxRestarts /\ main = "sync" /\ listed \subseteq Optional
        /\ \A r \in Optional : First(best[r], r)
    BY <1>8 DEF AllFound
  <2>2. Population /\ OneEach
    <3>1. CASE api \in Resident /\ changes = MaxChanges
      BY <1>1, <1>5, <3>1 DEF Population, OneEach, OneOfEach, Held
    <3> QED
      BY <1>6, <2>1, <3>1
  <2>3. Counters
    BY <1>5, <2>1 DEF Counters
  <2>4. \A r \in Optional : best[r] # Unknown
    BY <2>1, DiscoveryAssumption DEF DiscoveryAssumption, First
  <2>5. \A r \in Optional : r \notin Typed
    BY AllIsKnown DEF Typed, Gateway, Routes, Traefik
  <2>6. listed \subseteq Awaits
    BY <2>1, <2>4, <2>5 DEF Awaits, All, Watched
  <2>7. "replicasets" \notin listed
    BY <2>1, <2>5 DEF Typed
  <2>8. Watching /\ Owners
    BY <1>1, <2>1, <2>6, <2>7 DEF Watching, Owners, Open
  <2> QED
    BY <1>3, <1>4, <2>2, <2>3, <2>8 DEF MInv
<1> QED
  BY <1>7, <1>8 DEF Init

\* Whatever the cluster, the agent, its readers and restarts do, and however their lines
\* interleave, what SPAM shows of a key is the record of its cached object, unless the last
\* line of the key was overtaken or never written.
THEOREM Mirrored == Spec => []MInv
<1>1. Init => MInv
  BY InitMInv
<1>2. MInv /\ [Next]_vars => MInv'
  <2> SUFFICES ASSUME MInv, [Next]_vars PROVE MInv'
    OBVIOUS
  <2>1. CASE \/ \E o \in Objects : Create(o) \/ Delete(o)
             \/ \E o, p \in Objects : Update(o, p)
             \/ \E p \in Offered : ChangeCRD(p)
    BY <2>1, ClusterStep
  <2>2. CASE \E ok \in BOOLEAN : Discover(ok)
    BY <2>2, DiscoverStep
  <2>3. CASE StartInformers
    BY <2>3, StartInformersStep
  <2>4. CASE List(Typed \ Silent) \/ List(Silent) \/ \E r \in Optional : List({r})
    <3>1. Typed \ Silent \in SUBSET All /\ Silent \in SUBSET All
      BY DEF All, Typed, Silent
    <3>2. \A r \in Optional : {r} \in SUBSET All
      BY DEF All
    <3> QED
      BY <2>4, <3>1, <3>2, ListStep
  <2>5. ASSUME NEW r \in Runners, Snapshot(r) PROVE MInv'
    <3>1. CASE ListCached(r)
      BY <3>1, ListCachedStep
    <3>2. CASE \E x \in left : EmitInitial(r, x[2])
      BY <3>2, ReadStep
    <3>3. CASE End(r)
      BY <3>3, EndStep
    <3> QED
      BY <2>5, <3>1, <3>2, <3>3 DEF Snapshot
  <2>6. Main \in Runners /\ Snapshotters \subseteq Runners
    BY DEF Runners
  <2>7. CASE StartStreaming \/ Snapshot(Main)
    BY <2>5, <2>6, <2>7, BeginStep
  <2>8. CASE \E r \in Snapshotters : Reconcile(r) \/ Snapshot(r)
    BY <2>5, <2>6, <2>8, BeginStep
  <2>9. CASE (\E o \in api : Upsert(o)) \/ (\E p \in cache : Drop(p))
    BY <2>9, UpsertStep, DropStep
  <2>10. CASE (\E x \in exposed : LookUp(x)) \/ (\E o \in got : EmitExposure(o))
    BY <2>10, LookUpStep, ReadStep
  <2>11. CASE Restart
    BY <2>11, RestartStep
  <2>12. CASE UNCHANGED vars
    <3>1. UNCHANGED <<best, api, changes, main, listed, cache, got, step, left, asserted, view,
                      behind, restarts>>
      BY <2>12 DEF vars, discoveryVars, clusterVars, informerVars, refreshVars, snapVars, spamVars
    <3>2. Population' /\ OneEach' /\ Owners' /\ Counters'
      BY <3>1 DEF MInv, Population, OneEach, Owners, ReplicaSets, Counters, Held
    <3>3. Watching' /\ OneRecordEach' /\ Running' /\ Covered' /\ Mirrors'
      BY <3>1, AgentStays DEF MInv
    <3> QED
      BY <3>2, <3>3 DEF MInv
  <2> QED
    BY <2>1, <2>2, <2>3, <2>4, <2>7, <2>8, <2>9, <2>10, <2>11, <2>12 DEF Next, AgentStep
<1> QED
  BY <1>1, <1>2, PTL DEF Spec

\* Caches hold objects as the transforms leave them, only for resources that are watched, and
\* SPAM never holds two records of one kind and uid.
THEOREM TypeCorrect == Spec => []TypeOK
<1>1. MInv => TypeOK
  <2> SUFFICES ASSUME MInv PROVE TypeOK
    OBVIOUS
  <2>1. cache \cup got \cup {x[2] : x \in left} \subseteq Cacheable
    <3> SUFFICES ASSUME NEW o \in Held PROVE o \in Cacheable
      BY DEF Held
    <3> QED
      BY ArePossible, CachedWhole DEF MInv, Cacheable
  <2>2. \A v, w \in view : SameKey(v, w) => v = w
    BY DEF MInv, OneRecordEach
  <2>3. listed \subseteq Awaits /\ (main = "discover" => cache = {})
    BY DEF MInv, Watching
  <2>4. /\ step \in [Runners -> 0..(Len(Batches) + 1)]
        /\ asserted \in [Runners -> SUBSET Keys] /\ behind \subseteq Keys
    BY DEF MInv, Running
  <2>5. /\ main \in {"discover", "sync", "snapshot", "stream"}
        /\ changes \in 0..MaxChanges /\ restarts \in 0..MaxRestarts
    BY DEF MInv, Counters
  <2> QED
    BY <2>1, <2>2, <2>3, <2>4, <2>5 DEF TypeOK
<1> QED
  BY <1>1, Mirrored, PTL

\* Once the agent streams, every record SPAM shows of a watched resource is of this process;
\* when its events have arrived they are the API server's objects as they are, but for keys
\* whose last line was overtaken or is missing.
THEOREM ClusterShown == Spec => []ShowsTheCluster
<1>1. MInv => ShowsTheCluster
  <2> SUFFICES ASSUME MInv, main = "stream", NEW r \in All \ Silent, Watched(r)
               PROVE  LET shown == {v \in view : v.kind = EmitKind(r)}
                          now == {Record(Version(r), o, Reads(r), ReplicaSets(api)) :
                                      o \in InGroup(api, r)}
                      IN  /\ \A v \in shown : v.version = Version(r) /\ v.fields = Reads(r)
                          /\ Reachable(r) /\ CaughtUp(r) => Settled(shown) = Settled(now)
    BY DEF ShowsTheCluster
  <2> DEFINE key(u) == <<EmitKind(r), u>>
             shown == {v \in view : v.kind = EmitKind(r)}
             now == {Record(Version(r), o, Reads(r), ReplicaSets(api)) : o \in InGroup(api, r)}
  <2>1. r \in Dumped /\ r \in Known \ Silent
    BY DumpedKnown DEF Dumped
  <2>2. \A u : /\ key(u) \notin behind => Shown(key(u)) = Said(key(u))
               /\ \A v \in Shown(key(u)) : v.version = Version(r) /\ v.fields = Kept(r)
    BY <2>1 DEF MInv, Mirrors, Reached
  <2>3. Kept(r) = Reads(r)
    BY <2>1, NothingTrimmed
  <2>4. \A v \in shown : v \in Shown(key(v.uid)) /\ <<v.kind, v.uid>> = key(v.uid)
    BY DEF Shown
  <2>5. \A v \in shown : v.version = Version(r) /\ v.fields = Reads(r)
    BY <2>2, <2>3, <2>4
  <2>6. ASSUME CaughtUp(r) PROVE Settled(shown) = Settled(now)
    <3>1. {Trim(o) : o \in InGroup(api, r)} = InGroup(api, r)
      BY ArePossible, CachedWhole DEF MInv, InGroup
    <3>2. {p \in cache : p.resource = r} = InGroup(api, r)
      BY <2>6, <3>1 DEF CaughtUp
    <3>3. ReplicaSets(cache) = ReplicaSets(api)
      <4>1. "replicasets" \in Awaits
        BY DEF Awaits, Watched, All, Typed
      <4> QED
        BY <4>1 DEF MInv, Watching, Owners, Open
    <3>4. now = {Emitted(o, cache) : o \in {p \in cache : p.resource = r}}
      <4>1. \A o \in InGroup(api, r) :
                Emitted(o, cache) = Record(Version(r), o, Reads(r), ReplicaSets(api))
        BY <2>3, <3>3 DEF InGroup, Emitted
      <4> QED
        BY <3>2, <4>1
    <3>5. ASSUME NEW v \in shown, <<v.kind, v.uid>> \notin behind PROVE v \in now
      <4>1. v \in Said(key(v.uid))
        BY <2>2, <2>4, <3>5
      <4>2. PICK o \in cache : o.resource \notin Silent /\ Key(o) = key(v.uid) /\ v = Emitted(o, cache)
        BY <4>1 DEF Said
      <4>3. o.resource \in Known \ Silent
        BY <4>2, CachedDumped, DumpedKnown
      <4>4. o.resource = r
        BY <2>1, <4>2, <4>3, KeyOf
      <4> QED
        BY <3>4, <4>2, <4>4
    <3>6. ASSUME NEW v \in now, <<v.kind, v.uid>> \notin behind PROVE v \in shown
      <4>1. PICK o \in cache : o.resource = r /\ v = Emitted(o, cache)
        BY <3>4
      <4>2. Key(o) = key(o.uid) /\ <<v.kind, v.uid>> = key(o.uid) /\ v.kind = EmitKind(r)
        BY <4>1, EmittedKey, RecordKey DEF Key, Emitted
      <4>3. v \in Said(key(o.uid))
        BY <4>1, <4>2 DEF Said
      <4>4. v \in Shown(key(o.uid))
        BY <2>2, <3>6, <4>2, <4>3
      <4> QED
        BY <4>2, <4>4 DEF Shown
    <3> HIDE DEF shown, now
    <3> QED
      BY <3>5, <3>6 DEF Settled
  <2> QED
    BY <2>5, <2>6
<1> QED
  BY <1>1, Mirrored, PTL

\* The join of a record's backends gives the Services its object's backends refer to.
LEMMA JoinsTargets ==
    ASSUME NEW o, NEW v, v.backends = RecordBackends(o)
    PROVE  Joins(v, o.ns) = {Target(o, b) : b \in {x \in AllBackends(o) : IsService(x)}}
<1>1. CASE o.resource \notin Traefik
  BY <1>1 DEF RecordBackends, Joins, Target
<1>2. CASE o.resource \in Traefik
  <2> DEFINE bs == {x \in AllBackends(o) : IsService(x)}
             shown(b) == [kind |-> "Service", ns |-> Target(o, b).ns, name |-> b.name]
  <2>1. v.backends = {shown(b) : b \in bs}
    BY <1>2 DEF RecordBackends, TraefikBackends
  <2>2. \A b \in bs : IsService(shown(b))
    BY DEF IsService
  <2>3. \A b : [ns |-> IF shown(b).ns = Absent THEN o.ns ELSE shown(b).ns, name |-> shown(b).name]
               = Target(o, b)
    BY DEF Target
  <2> HIDE DEF bs
  <2>4. {x \in v.backends : IsService(x)} = {shown(b) : b \in bs}
    BY <2>1, <2>2
  <2>5. Joins(v, o.ns) = {Target(o, b) : b \in bs}
    <3> HIDE DEF shown
    <3> QED
      BY <2>3, <2>4 DEF Joins
  <2> QED
    BY <2>5 DEF bs
<1> QED
  BY <1>1, <1>2

-----------------------------------------------------------------------------
(* Hosts *)

Ticked(call) == {a \in ToSet(call.args) : a.ticked}

\* What a call yields: texts of its arguments between backticks, of a host matcher's without
\* a ")" all of them, of another function's none.
LEMMA FoundTexts ==
    ASSUME NEW call \in MatchCall
    PROVE  /\ Found(call) \in Seq(STRING)
           /\ call.fn \notin HostMatchers => ToSet(Found(call)) = {}
           /\ call.fn \in HostMatchers =>
                /\ ToSet(Found(call)) \subseteq {a.text : a \in Ticked(call)}
                /\ (\A a \in ToSet(call.args) : ~a.paren) =>
                      {a.text : a \in Ticked(call)} \subseteq ToSet(Found(call))
<1> DEFINE all == call.args
           Arg == [text : STRING, paren : BOOLEAN, ticked : BOOLEAN]
           I == {i \in 1..Len(all) : all[i].paren}
           cut == IF I # {} THEN Min(I) ELSE 0
           args == IF cut = 0 THEN all ELSE SubSeq(all, 1, cut - 1)
           host(a) == IF a.ticked THEN <<a.text>> ELSE <<>>
           hosts == [i \in DOMAIN args |-> host(args[i])]
<1>1. /\ all \in Seq(Arg) /\ Len(all) \in Nat /\ DOMAIN all = 1..Len(all)
      /\ \A i \in 1..Len(all) : all[i] \in Arg
  BY LenProperties, ElementOfSeq DEF MatchCall
<1>2. Found(call) = IF call.fn \in HostMatchers THEN FlattenSeq(hosts) ELSE <<>>
  BY DEF Found, SelectInSeq
<1> HIDE DEF all, Arg
<1>3. I = {} \/ cut \in 1..Len(all)
  <2>1. I \in SUBSET (1..Len(all))
    OBVIOUS
  <2> HIDE DEF I
  <2> QED
    BY <1>1, <2>1, LeastPosition
<1>4. (\A a \in ToSet(all) : ~a.paren) => I = {}
  BY <1>1 DEF ToSet
<1> HIDE DEF I
<1>5. \E n \in 0..Len(all) : /\ args \in Seq(Arg) /\ DOMAIN args = 1..n /\ Len(args) = n
                             /\ \A i \in 1..n : args[i] = all[i]
                             /\ I = {} => n = Len(all)
  <2>1. CASE I = {}
    <3>1. args = all
      BY <2>1
    <3>2. Len(all) \in 0..Len(all)
      BY <1>1
    <3> HIDE DEF args
    <3> QED
      BY <1>1, <3>1, <3>2
  <2>2. CASE I # {}
    <3>1. cut \in 1..Len(all)
      BY <1>3, <2>2
    <3> HIDE DEF cut
    <3>2. args = SubSeq(all, 1, cut - 1) /\ cut - 1 \in 0..Len(all)
      BY <1>1, <3>1
    <3>3. \A i \in 1..(cut - 1) : all[i] \in Arg
      BY <1>1, <3>1
    <3>4. /\ SubSeq(all, 1, cut - 1) \in Seq(Arg)
          /\ Len(SubSeq(all, 1, cut - 1)) = IF 1 <= cut - 1 THEN (cut - 1) - 1 + 1 ELSE 0
          /\ \A i \in 1..((cut - 1) - 1 + 1) : SubSeq(all, 1, cut - 1)[i] = all[1 + i - 1]
      BY <3>1, <3>2, <3>3, SubSeqProperties
    <3>5. Len(args) = cut - 1 /\ \A i \in 1..(cut - 1) : args[i] = all[i]
      BY <1>1, <3>1, <3>2, <3>4
    <3>6. args \in Seq(Arg) /\ DOMAIN args = 1..(cut - 1)
      BY <3>2, <3>4, <3>5, LenProperties
    <3> QED
      BY <2>2, <3>2, <3>5, <3>6
  <2> QED
    BY <2>1, <2>2
<1> HIDE DEF args
<1>6. PICK n \in 0..Len(all) : /\ args \in Seq(Arg) /\ DOMAIN args = 1..n /\ Len(args) = n
                               /\ \A i \in 1..n : args[i] = all[i]
                               /\ I = {} => n = Len(all)
  BY <1>5
<1>7. /\ DOMAIN hosts = 1..n /\ \A i \in 1..n : hosts[i] = host(all[i]) /\ hosts[i] \in Seq(STRING)
      /\ 1..n \subseteq 1..Len(all)
  <2>1. 1..n \subseteq 1..Len(all)
    BY <1>1
  <2>2. \A i \in 1..n : args[i] = all[i] /\ all[i].text \in STRING
    BY <1>1, <1>6, <2>1 DEF Arg
  <2>3. \A i \in 1..n : host(all[i]) \in Seq(STRING)
    <3> SUFFICES ASSUME NEW i \in 1..n PROVE host(all[i]) \in Seq(STRING)
      OBVIOUS
    <3> DEFINE x == all[i].text
    <3>1. x \in STRING
      BY <2>2
    <3> HIDE DEF x
    <3>2. <<x>> \in Seq(STRING)
      BY <3>1, SingleElement, Zenon
    <3>3. <<>> \in Seq(STRING)
      BY EmptySeq
    <3> QED
      BY <3>2, <3>3 DEF x
  <2>4. DOMAIN args = 1..n
    BY <1>6
  <2> HIDE DEF host
  <2> QED
    BY <2>1, <2>2, <2>3, <2>4
<1>8. /\ FlattenSeq(hosts) \in Seq(STRING)
      /\ ToSet(FlattenSeq(hosts)) = UNION {ToSet(hosts[i]) : i \in 1..n}
  <2>1. hosts \in Seq(Seq(STRING)) /\ Len(hosts) = n
    BY <1>6, <1>7, IsASeq, LenProperties
  <2> HIDE DEF hosts
  <2> QED
    BY <2>1, FlattenedElements
<1>9. \A a : ToSet(host(a)) = IF a.ticked THEN {a.text} ELSE {}
  <2>1. \A x : ToSet(<<x>>) = {x}
    BY DEF ToSet
  <2> QED
    BY <2>1, EmptyElements
<1> HIDE DEF hosts, host
<1>10. ToSet(FlattenSeq(hosts)) = UNION {IF all[i].ticked THEN {all[i].text} ELSE {} : i \in 1..n}
  BY <1>7, <1>8, <1>9
<1>11. Ticked(call) = {a \in {all[i] : i \in 1..Len(all)} : a.ticked}
  BY <1>1 DEF Ticked, ToSet, all
<1>12. ToSet(FlattenSeq(hosts)) \subseteq {a.text : a \in Ticked(call)}
  BY <1>7, <1>10, <1>11
<1>13. I = {} => {a.text : a \in Ticked(call)} \subseteq ToSet(FlattenSeq(hosts))
  BY <1>6, <1>10, <1>11
<1> QED
  BY <1>2, <1>4, <1>8, <1>12, <1>13, EmptySeq, EmptyElements DEF all

\* ExtractTraefikHosts keeps of a list of hosts each one, and each once.
LEMMA OnceProperties ==
    ASSUME NEW X, NEW hosts \in Seq(X)
    PROVE  /\ Once(hosts) \in Seq(X) /\ IsInjective(Once(hosts))
           /\ ToSet(Once(hosts)) = ToSet(hosts)
<1> DEFINE n == Len(hosts)
           add(d, i) == IF hosts[i] \in ToSet(d) THEN d ELSE Append(d, hosts[i])
           grow == [p \in (1..n) \X Seq(X) |-> add(p[2], p[1])]
           Eq(g) == g = [i \in 0..n |-> IF i = 0 THEN <<>> ELSE add(g[i - 1], i)]
<1>1. n \in Nat /\ DOMAIN hosts = 1..n /\ \A i \in 1..n : hosts[i] \in X
  BY LenProperties, ElementOfSeq
<1>2. ASSUME NEW d \in Seq(X), NEW i \in 1..n PROVE add(d, i) \in Seq(X)
  BY <1>1, AppendedElements
<1>3. Once(hosts) = (CHOOSE g : Eq(g))[n]
  BY DEF Once
<1> HIDE DEF n, add
<1>4. \A d \in Seq(X), i \in 1..n : grow[<<i, d>>] = add(d, i)
  OBVIOUS
<1>5. PICK f : Recursion(f, <<>>, grow, Seq(X), 0, n)
  <2>1. Steps(grow, Seq(X), 0, n)
    BY <1>2, <1>4 DEF Steps
  <2>2. 0 \in Int /\ n \in Int /\ 0 <= n /\ <<>> \in Seq(X)
    BY <1>1, EmptySeq
  <2> HIDE DEF grow
  <2> QED
    BY <2>1, <2>2, RecursionExists
<1> HIDE DEF grow
<1>6. \A i \in 0..n : i # 0 => grow[<<i, f[i - 1]>>] = add(f[i - 1], i)
  <2> SUFFICES ASSUME NEW i \in 0..n, i # 0 PROVE grow[<<i, f[i - 1]>>] = add(f[i - 1], i)
    OBVIOUS
  <2>1. i \in 1..n /\ i - 1 \in 0..n
    BY <1>1
  <2>2. f[i - 1] \in Seq(X)
    BY <1>5, <2>1 DEF Recursion
  <2> QED
    BY <1>4, <2>1, <2>2
<1>7. Eq(f)
  BY <1>5, <1>6 DEF Recursion
<1>8. PICK g : Eq(g) /\ Once(hosts) = g[n]
  <2>1. Eq(CHOOSE g : Eq(g))
    BY <1>7
  <2> QED
    BY <1>3, <2>1
<1>9. \A i \in 0..n : g[i] = IF i = 0 THEN <<>> ELSE add(g[i - 1], i)
  BY <1>8
<1> HIDE DEF Eq
<1> DEFINE S == {i \in 0..n : /\ g[i] \in Seq(X) /\ IsInjective(g[i])
                              /\ ToSet(g[i]) = {hosts[j] : j \in 1..i}}
<1>10. 0 \in S
  <2>1. 0 \in 0..n
    BY <1>1
  <2>2. g[0] = <<>>
    BY <1>9, <2>1
  <2>3. <<>> \in Seq(X) /\ DOMAIN <<>> = {}
    BY EmptySeq, LenProperties
  <2>4. IsInjective(<<>>)
    BY <2>3 DEF IsInjective
  <2>5. {hosts[j] : j \in 1..0} = {}
    OBVIOUS
  <2> QED
    BY <2>1, <2>2, <2>3, <2>4, <2>5, EmptyElements
<1>11. ASSUME NEW i \in S, i < n PROVE i + 1 \in S
  <2>1. i \in 0..n /\ i + 1 \in 0..n /\ i + 1 \in 1..n /\ i + 1 # 0 /\ (i + 1) - 1 = i
    BY <1>1, <1>11
  <2> DEFINE h == hosts[i + 1]
  <2>2. g[i] \in Seq(X) /\ IsInjective(g[i]) /\ ToSet(g[i]) = {hosts[j] : j \in 1..i}
    OBVIOUS
  <2>3. g[i + 1] = IF h \in ToSet(g[i]) THEN g[i] ELSE Append(g[i], h)
    BY <1>9, <2>1 DEF add
  <2>4. {hosts[j] : j \in 1..(i + 1)} = {hosts[j] : j \in 1..i} \cup {h}
    <3>1. \A j : j \in 1..(i + 1) <=> j \in 1..i \/ j = i + 1
      BY <2>1
    <3> QED
      BY <3>1
  <2>5. h \in X
    BY <1>1, <2>1
  <2> HIDE DEF h
  <2>6. CASE h \in ToSet(g[i])
    BY <2>1, <2>2, <2>3, <2>4, <2>6
  <2>7. CASE h \notin ToSet(g[i])
    <3> DEFINE s == g[i]
    <3>1. /\ Append(s, h) \in Seq(X) /\ ToSet(Append(s, h)) = ToSet(s) \cup {h}
      BY <2>2, <2>5, AppendedElements
    <3>2. /\ Len(s) \in Nat /\ DOMAIN s = 1..Len(s) /\ DOMAIN Append(s, h) = 1..(Len(s) + 1)
          /\ \A k \in 1..Len(s) : Append(s, h)[k] = s[k]
          /\ Append(s, h)[Len(s) + 1] = h
      BY <2>2, <2>5, AppendProperties, LenProperties
    <3>3. \A k \in 1..Len(s) : s[k] # h
      BY <2>7, <3>2 DEF ToSet
    <3>4. \A k, l \in 1..Len(s) : s[k] = s[l] => k = l
      BY <2>2, <3>2 DEF IsInjective
    <3>5. \A k : k \in 1..(Len(s) + 1) <=> k \in 1..Len(s) \/ k = Len(s) + 1
      BY <3>2
    <3> HIDE DEF s
    <3>6. IsInjective(Append(s, h))
      BY <3>2, <3>3, <3>4, <3>5 DEF IsInjective
    <3>7. g[i + 1] = Append(s, h)
      BY <2>3, <2>7 DEF s
    <3>8. ToSet(s) = {hosts[j] : j \in 1..i}
      BY <2>2 DEF s
    <3> QED
      BY <2>1, <2>4, <3>1, <3>6, <3>7, <3>8
  <2> QED
    BY <2>6, <2>7
<1>12. S = 0..n
  <2>1. S \in SUBSET (0..n) /\ 0 \in Int /\ n \in Int /\ 0 <= n
    BY <1>1
  <2> HIDE DEF S
  <2> QED
    BY <1>10, <1>11, <2>1, IntervalInduction
<1>13. n \in S
  <2> HIDE DEF S
  <2> QED
    BY <1>1, <1>12
<1>14. ToSet(hosts) = {hosts[j] : j \in 1..n}
  BY <1>1 DEF ToSet
<1> QED
  BY <1>8, <1>13, <1>14

\* The calls of an object, and the hosts found in them.
LEMMA CallsOf ==
    ASSUME NEW o, o.rules \in Seq(RouteRule)
    PROVE  /\ Calls(o) \in Seq(MatchCall)
           /\ ToSet(ExtractTraefikHosts(o)) = UNION {ToSet(Found(c)) : c \in ToSet(Calls(o))}
           /\ IsInjective(ExtractTraefikHosts(o))
<1> DEFINE rules == o.rules
           matches == [i \in DOMAIN rules |-> rules[i].match]
           calls == Calls(o)
           found == [i \in DOMAIN calls |-> Found(calls[i])]
<1>1. Len(rules) \in Nat /\ DOMAIN rules = 1..Len(rules)
  BY LenProperties
<1>2. \A i \in 1..Len(rules) : rules[i].match \in Seq(MatchCall)
  <2>1. \A i \in 1..Len(rules) : rules[i] \in RouteRule
    BY ElementOfSeq
  <2> QED
    BY <2>1 DEF RouteRule
<1>3. matches \in Seq(Seq(MatchCall))
  BY <1>1, <1>2, IsASeq
<1>4. calls = FlattenSeq(matches)
  BY DEF Calls
<1> HIDE DEF matches, calls
<1>5. calls \in Seq(MatchCall)
  BY <1>3, <1>4, FlattenedElements
<1>6. /\ Len(calls) \in Nat /\ DOMAIN calls = 1..Len(calls)
      /\ \A i \in 1..Len(calls) : calls[i] \in MatchCall
  BY <1>5, LenProperties, ElementOfSeq
<1>7. \A i \in 1..Len(calls) : Found(calls[i]) \in Seq(STRING)
  BY <1>6, FoundTexts
<1>8. found \in Seq(Seq(STRING)) /\ Len(found) = Len(calls)
  BY <1>6, <1>7, IsASeq, LenProperties
<1>9. \A i \in 1..Len(calls) : found[i] = Found(calls[i])
  BY <1>6
<1>10. ExtractTraefikHosts(o) = Once(FlattenSeq(found))
  BY DEF ExtractTraefikHosts, calls
<1> HIDE DEF found
<1>11. /\ FlattenSeq(found) \in Seq(STRING)
       /\ ToSet(FlattenSeq(found)) = UNION {ToSet(found[i]) : i \in 1..Len(calls)}
  BY <1>8, FlattenedElements
<1>12. /\ IsInjective(ExtractTraefikHosts(o))
       /\ ToSet(ExtractTraefikHosts(o)) = UNION {ToSet(found[i]) : i \in 1..Len(calls)}
  BY <1>10, <1>11, OnceProperties
<1>13. UNION {ToSet(found[i]) : i \in 1..Len(calls)} = UNION {ToSet(Found(c)) : c \in ToSet(calls)}
  BY <1>6, <1>9 DEF ToSet
<1> QED
  BY <1>5, <1>12, <1>13 DEF calls

-----------------------------------------------------------------------------
(* Records of any age *)

\* v shows the state of o, its backends and its hosts.
Tells(v, o) ==
    /\ ShownIn(o, v)
    /\ v.backends = RecordBackends(o)
    /\ v.hosts = IF o.resource \in Traefik THEN ExtractTraefikHosts(o) ELSE <<>>

TruthOf(os) == Held \subseteq os /\ \A v \in view : \E o \in os : Tells(v, o)

\* Every record, of whatever age and process, tells a state of one of the objects.
Truthful == TruthOf(Objects) \/ (api \in Resident /\ changes = MaxChanges /\ TruthOf(api))

LEMMA RecordTells == \A o, os : Tells(Emitted(o, os), o)
BY DEF Tells, ShownIn, Emitted, Record

\* What a step may add to what is held and to what SPAM shows keeps the records truthful.
LEMMA TruthKept ==
    ASSUME MInv, Truthful,
           api' \subseteq api \cup Objects, api' # api => changes # MaxChanges,
           changes = MaxChanges => changes' = MaxChanges,
           Held' \subseteq Held \cup api',
           \A v \in view' : v \in view \/ \E o \in Held : \E os : v = Emitted(o, os)
    PROVE  Truthful'
<1>1. ASSUME NEW os, Held \subseteq os, \A v \in view : \E o \in os : Tells(v, o),
             NEW v \in view'
      PROVE  \E o \in os : Tells(v, o)
  BY <1>1, RecordTells
<1>2. api \subseteq Held
  BY DEF Held
<1>3. CASE TruthOf(Objects)
  <2>1. Held' \subseteq Objects
    BY <1>2, <1>3 DEF TruthOf
  <2>2. \A v \in view' : \E o \in Objects : Tells(v, o)
    BY <1>1, <1>3 DEF TruthOf
  <2> QED
    BY <2>1, <2>2 DEF Truthful, TruthOf, Tells, ShownIn
<1>4. CASE api \in Resident /\ changes = MaxChanges /\ TruthOf(api)
  <2>1. api' = api /\ changes' = MaxChanges /\ Held' \subseteq api
    BY <1>2, <1>4 DEF TruthOf
  <2>2. \A v \in view' : \E o \in api : Tells(v, o)
    BY <1>1, <1>4 DEF TruthOf
  <2> QED
    BY <1>4, <2>1, <2>2 DEF Truthful, TruthOf, Tells, ShownIn
<1> QED
  BY <1>3, <1>4 DEF Truthful

\* The line of an object that is held.
LEMMA TruthShown ==
    ASSUME NEW o, NEW os, Show(Emitted(o, os))
    PROVE  \A v \in view' : v \in view \/ v = Emitted(o, os)
BY DEF Show, Shows

LEMMA TruthStep ==
    ASSUME MInv, Truthful, [Next]_vars
    PROVE  Truthful'
<1>1. \A o \in Held : Trim(o) = o
  BY ArePossible, CachedWhole DEF MInv
<1>2. api \subseteq Held /\ cache \subseteq Held /\ got \subseteq Held /\ \A x \in left : x[2] \in Held
  BY DEF Held
<1>3. MaxChanges \in Nat /\ changes \in Nat
  BY Bounds
<1>4. ASSUME NEW os, Change(os), os \subseteq api \cup Objects PROVE Truthful'
  <2>1. api' = os /\ changes < MaxChanges /\ UNCHANGED <<cache, got, left, view>>
    BY <1>4 DEF Change, informerVars, refreshVars, snapVars, spamVars
  <2>2. Held' \subseteq Held \cup api'
    BY <2>1 DEF Held
  <2> QED
    BY <1>3, <1>4, <2>1, <2>2, TruthKept
<1>5. CASE \E o \in Objects : Create(o) \/ Delete(o)
  BY <1>4, <1>5 DEF Create, Delete
<1>6. CASE \E o, p \in Objects : Update(o, p)
  BY <1>4, <1>6 DEF Update
<1>7. CASE \E p \in Offered : ChangeCRD(p)
  <2>1. changes < MaxChanges /\ UNCHANGED <<api, cache, got, left, view>>
    BY <1>7 DEF ChangeCRD, informerVars, refreshVars, snapVars, spamVars
  <2>2. Held' = Held
    BY <2>1 DEF Held
  <2> QED
    BY <1>3, <2>1, <2>2, TruthKept
<1>8. ASSUME UNCHANGED <<api, changes>>, Held' \subseteq Held,
             \A v \in view' : v \in view \/ \E o \in Held : \E os : v = Emitted(o, os)
      PROVE  Truthful'
  BY <1>8, TruthKept
<1>9. ASSUME NEW rs, List(rs) PROVE Truthful'
  <2>1. /\ UNCHANGED <<api, changes, got, left, view>>
        /\ cache' = cache \cup {Trim(o) : o \in UNION {InGroup(api, r) : r \in rs}}
    BY <1>9 DEF List, clusterVars, refreshVars, snapVars, spamVars
  <2>2. cache' \subseteq cache \cup api
    BY <1>1, <1>2, <2>1 DEF InGroup
  <2>3. Held' \subseteq Held
    BY <2>1, <2>2 DEF Held
  <2> QED
    BY <1>8, <2>1, <2>3
<1>10. CASE \/ \E ok \in BOOLEAN : Discover(ok)
            \/ StartInformers \/ StartStreaming
            \/ \E r \in Snapshotters : Reconcile(r)
  <2>1. UNCHANGED <<api, changes, cache, got, left, view>>
    BY <1>10 DEF Discover, StartInformers, StartStreaming, Reconcile, Begin, clusterVars,
                 informerVars, refreshVars, snapVars, spamVars
  <2>2. Held' = Held
    BY <2>1 DEF Held
  <2> QED
    BY <1>8, <2>1, <2>2
<1>11. ASSUME NEW r, Snapshot(r) PROVE Truthful'
  <2>1. CASE ListCached(r)
    <3> DEFINE found == {o \in cache : o.resource \in Batches[step[r]] \cap Dumped}
    <3>1. UNCHANGED <<api, changes, cache, got, view>> /\ left' = left \cup ({r} \X found)
      BY <2>1 DEF ListCached, clusterVars, informerVars, refreshVars
    <3>2. found \subseteq cache
      OBVIOUS
    <3> HIDE DEF found
    <3>3. \A x \in left' : x \in left \/ x[2] \in cache
      BY <3>1, <3>2
    <3>4. Held' \subseteq Held
      BY <3>1, <3>3 DEF Held
    <3> QED
      BY <1>8, <3>1, <3>4
  <2>2. ASSUME NEW x \in left, EmitInitial(r, x[2]) PROVE Truthful'
    <3>1. UNCHANGED <<api, changes, cache, got>> /\ left' \subseteq left /\ Show(Emitted(x[2], cache))
      BY <2>2 DEF EmitInitial, Write, clusterVars, informerVars, refreshVars
    <3>2. Held' \subseteq Held
      BY <3>1 DEF Held
    <3>3. \A v \in view' : v \in view \/ v = Emitted(x[2], cache)
      BY <3>1, TruthShown
    <3> QED
      BY <1>2, <1>8, <3>1, <3>2, <3>3
  <2>3. CASE End(r)
    <3>1. UNCHANGED <<api, changes, cache, got, left>> /\ view' \subseteq view
      BY <2>3 DEF End, clusterVars, informerVars, refreshVars
    <3>2. Held' = Held
      BY <3>1 DEF Held
    <3> QED
      BY <1>8, <3>1, <3>2
  <2> QED
    BY <1>11, <2>1, <2>2, <2>3 DEF Snapshot
<1>12. ASSUME NEW o \in api, Upsert(o) PROVE Truthful'
  <2>1. /\ UNCHANGED <<api, changes, got, left>>
        /\ cache' = (cache \ {p \in cache : Name(p) = Name(o)}) \cup {Trim(o)}
        /\ view' = view \/ Show(Emitted(Trim(o), cache'))
    BY <1>12 DEF Upsert, clusterVars, snapVars, spamVars
  <2>2. Trim(o) = o
    BY <1>1, <1>2
  <2>3. Held' \subseteq Held
    BY <2>1, <2>2 DEF Held
  <2>4. \A v \in view' : v \in view \/ v = Emitted(o, cache')
    BY <2>1, <2>2, TruthShown
  <2> QED
    BY <1>2, <1>8, <2>1, <2>3, <2>4
<1>13. ASSUME NEW p \in cache, Drop(p) PROVE Truthful'
  <2>1. UNCHANGED <<api, changes, got, left>> /\ cache' \subseteq cache /\ view' \subseteq view
    BY <1>13 DEF Drop, clusterVars, refreshVars, snapVars, spamVars
  <2>2. Held' \subseteq Held
    BY <2>1 DEF Held
  <2> QED
    BY <1>8, <2>1, <2>2
<1>14. ASSUME NEW x \in exposed, LookUp(x) PROVE Truthful'
  <2>1. UNCHANGED <<api, changes, cache, left, view>> /\ got' \subseteq got \cup cache
    BY <1>14 DEF LookUp, clusterVars, informerVars, snapVars, spamVars
  <2>2. Held' \subseteq Held
    BY <2>1 DEF Held
  <2> QED
    BY <1>8, <2>1, <2>2
<1>15. ASSUME NEW o \in got, EmitExposure(o) PROVE Truthful'
  <2>1. /\ UNCHANGED <<api, changes, cache, left>> /\ got' \subseteq got
        /\ Show(Emitted(o, cache))
    BY <1>15 DEF EmitExposure, Write, clusterVars, informerVars, snapVars
  <2>2. Held' \subseteq Held
    BY <2>1 DEF Held
  <2>3. \A v \in view' : v \in view \/ v = Emitted(o, cache)
    BY <2>1, TruthShown
  <2> QED
    BY <1>2, <1>8, <2>1, <2>2, <2>3
<1>16. CASE Restart
  <2>1. UNCHANGED <<api, changes, view>> /\ cache' = {} /\ got' = {} /\ left' = {}
    BY <1>16 DEF Restart, clusterVars
  <2>2. Held' \subseteq Held
    BY <2>1 DEF Held
  <2> QED
    BY <1>8, <2>1, <2>2
<1>17. CASE UNCHANGED vars
  <2>1. UNCHANGED <<api, changes, cache, got, left, view>>
    BY <1>17 DEF vars, clusterVars, informerVars, refreshVars, snapVars, spamVars
  <2>2. Held' = Held
    BY <2>1 DEF Held
  <2> QED
    BY <1>8, <2>1, <2>2
<1> QED
  BY <1>5, <1>6, <1>7, <1>9, <1>10, <1>11, <1>12, <1>13, <1>14, <1>15, <1>16, <1>17
  DEF Next, AgentStep

LEMMA TruthAlways == Spec => [](MInv /\ Truthful)
<1>1. Init => Truthful
  <2> SUFFICES ASSUME Init PROVE Truthful
    OBVIOUS
  <2>1. Held = api /\ view = {}
    BY DEF Init, Held
  <2>2. api \in Initial \/ (api \in Resident /\ changes = MaxChanges)
    BY DEF Init, FromNothing, AllFound
  <2>3. \A os \in Initial : os \subseteq Objects
    BY InventoryAssumption DEF InventoryAssumption
  <2> QED
    BY <2>1, <2>2, <2>3 DEF Truthful, TruthOf
<1>2. MInv /\ Truthful /\ [Next]_vars => Truthful'
  BY TruthStep
<1> QED
  BY <1>1, <1>2, Mirrored, PTL DEF Spec

\* A record that shows the state of a cached object is the one of that object.
LEMMA TruthTold ==
    ASSUME MInv, Truthful, NEW o \in cache, NEW v \in view, ShownIn(o, v)
    PROVE  Tells(v, o)
<1>1. o \in Held
  BY DEF Held
<1>2. CASE TruthOf(Objects)
  BY <1>1, <1>2, InventoryAssumption DEF InventoryAssumption, TruthOf, Tells, ShownIn
<1>3. CASE TruthOf(api)
  <2>1. \A p, q \in api : p.uid = q.uid => p = q
    BY DEF MInv, OneEach
  <2>2. PICK p \in api : Tells(v, p)
    BY <1>3 DEF TruthOf
  <2>3. p = o
    BY <1>1, <1>3, <2>1, <2>2 DEF TruthOf, Tells, ShownIn
  <2> QED
    BY <2>2, <2>3
<1> QED
  BY <1>2, <1>3 DEF Truthful

\* Of a Route, an IngressRoute or an Ingress, RefreshBackendServices and the EXPOSURE index
\* name the Services that SPAM joins from its record, for any rules and namespaces, whichever
\* process and line the record is from.
THEOREM GraphShared == Spec => []GraphAgrees
<1>1. MInv /\ Truthful => GraphAgrees
  <2> SUFFICES ASSUME MInv, Truthful,
                      NEW o \in cache, o.resource \in Routes \cup Traefik \cup {"ingresses"},
                      NEW v \in view, ShownIn(o, v)
               PROVE  Targets([o EXCEPT !.default = <<>>]) = Joins(v, o.ns)
    BY DEF GraphAgrees
  <2>1. v.backends = RecordBackends(o)
    BY TruthTold DEF Tells
  <2> DEFINE p == [o EXCEPT !.default = <<>>]
  <2>2. Shaped(o)
    BY ArePossible, InventoryAssumption DEF InventoryAssumption, MInv
  <2>3. p.default = <<>> /\ p.rules = o.rules /\ p.ns = o.ns
    BY <2>2 DEF Shaped
  <2> HIDE DEF p
  <2>4. ToSet(p.default) = {}
    BY <2>3 DEF ToSet
  <2>5. AllBackends(p) = AllBackends(o)
    BY <2>3 DEF AllBackends
  <2>6. \A b : Target(p, b) = Target(o, b)
    BY <2>3 DEF Target
  <2>7. Targets(p) = {Target(o, b) : b \in {x \in AllBackends(o) : IsService(x)}}
    BY <2>4, <2>5, <2>6 DEF Targets
  <2> QED
    BY <2>1, <2>7, JoinsTargets DEF p
<1> QED
  BY <1>1, TruthAlways, PTL

\* Records that show the state of a cached IngressRoute list its literal hosts, each once,
\* whichever process emitted them; only an argument with a ")" cuts the list short, and only
\* one without backticks is left out.
THEOREM HostsTold == Spec => []HostsListed
<1>1. MInv /\ Truthful => HostsListed
  <2> SUFFICES ASSUME MInv, Truthful, NEW o \in cache, o.resource \in Traefik,
                      NEW v \in view, ShownIn(o, v)
               PROVE  LET calls == {c \in ToSet(Calls(o)) : c.fn \in HostMatchers}
                          plain == {c \in calls : \A a \in ToSet(c.args) : ~a.paren}
                          ticked(cs) == {a \in UNION {ToSet(c.args) : c \in cs} : a.ticked}
                          texts(cs) == {a.text : a \in ticked(cs)}
                      IN  /\ IsInjective(v.hosts)
                          /\ texts(plain) \subseteq ToSet(v.hosts)
                          /\ ToSet(v.hosts) \subseteq texts(calls)
    BY DEF HostsListed
  <2>1. v.hosts = ExtractTraefikHosts(o)
    BY TruthTold DEF Tells
  <2>2. o.rules \in Seq(RouteRule)
    BY ArePossible, InventoryAssumption DEF InventoryAssumption, MInv, Shaped
  <2> DEFINE all == ToSet(Calls(o))
  <2>3. /\ IsInjective(v.hosts) /\ ToSet(v.hosts) = UNION {ToSet(Found(c)) : c \in all}
    BY <2>1, <2>2, CallsOf
  <2>4. all \subseteq MatchCall
    BY <2>2, CallsOf, LenProperties, ElementOfSeq DEF ToSet
  <2> HIDE DEF all
  <2>5. \A c \in all : /\ c.fn \notin HostMatchers => ToSet(Found(c)) = {}
                       /\ c.fn \in HostMatchers =>
                            ToSet(Found(c)) \subseteq {a.text : a \in Ticked(c)}
    BY <2>4, FoundTexts
  <2>6. \A c \in all : c.fn \in HostMatchers /\ (\A a \in ToSet(c.args) : ~a.paren) =>
                         {a.text : a \in Ticked(c)} \subseteq ToSet(Found(c))
    BY <2>4, FoundTexts
  <2> DEFINE calls == {c \in all : c.fn \in HostMatchers}
             plain == {c \in calls : \A a \in ToSet(c.args) : ~a.paren}
             ticked(cs) == {a \in UNION {ToSet(c.args) : c \in cs} : a.ticked}
             texts(cs) == {a.text : a \in ticked(cs)}
  <2>7. texts(plain) \subseteq ToSet(v.hosts)
    <3> SUFFICES ASSUME NEW c \in plain, NEW a \in ToSet(c.args), a.ticked
                 PROVE  a.text \in ToSet(v.hosts)
      OBVIOUS
    <3>1. a.text \in ToSet(Found(c))
      BY <2>6 DEF Ticked
    <3> QED
      BY <2>3, <3>1
  <2>8. ToSet(v.hosts) \subseteq texts(calls)
    <3> SUFFICES ASSUME NEW x \in ToSet(v.hosts) PROVE x \in texts(calls)
      OBVIOUS
    <3>1. PICK c \in all : x \in ToSet(Found(c))
      BY <2>3
    <3>2. c \in calls /\ x \in {a.text : a \in Ticked(c)}
      BY <2>5, <3>1
    <3> QED
      BY <3>2 DEF Ticked
  <2> QED
    BY <2>3, <2>7, <2>8 DEF all
<1> QED
  BY <1>1, TruthAlways, PTL

-----------------------------------------------------------------------------
(* Discovery *)

\* The instance that has found everything has the first version of each resource.
LEMMA FoundFirst == AllFound => Inv
<1> SUFFICES ASSUME AllFound PROVE Inv
  OBVIOUS
<1>1. /\ pending = {} /\ answers = [v \in AllGVs |-> Wanted(v)]
      /\ best = [r \in Optional |-> CHOOSE v \in AllGVs : First(v, r)]
      /\ \A r \in Optional : First(best[r], r)
  BY DEF AllFound
<1>2. \A v \in AllGVs : answers[v] = Wanted(v) /\ Wanted(v) \subseteq Optional
  BY <1>1 DEF Wanted, Optional
<1>3. Shape
  BY <1>1, <1>2 DEF Shape, First
<1>4. Probed
  BY <1>1, <1>2 DEF Probed
<1>5. ASSUME NEW r \in Optional PROVE Newest(r)
  <2>1. First(best[r], r)
    BY <1>1
  <2>2. best[r] \in Answering(r)
    BY <1>2, <2>1 DEF First, Answering
  <2>3. \A w \in Answering(r) : w = best[r] \/ Precedes(best[r], w)
    BY <1>2, <2>1 DEF First, Answering
  <2> QED
    BY <2>2, <2>3 DEF Newest
<1> QED
  BY <1>3, <1>4, <1>5 DEF Inv

\* The agent discovers as specified alone, through changes, restarts and everything else it
\* does, so the version it watches is the best that answered.
THEOREM NewestWatched == Spec => []NewestAnswered
<1>1. Init => Inv
  <2>1. FromNothing => Inv
    BY StartEstablishes DEF FromNothing, DiscoveryInit
  <2> QED
    BY <2>1, FoundFirst DEF Init
<1>2. [Next]_vars => [DiscoveryNext]_discoveryVars
  <2> SUFFICES ASSUME [Next]_vars PROVE [DiscoveryNext]_discoveryVars
    OBVIOUS
  <2>1. CASE \E ok \in BOOLEAN : Discover(ok)
    BY <2>1 DEF Discover, DiscoveryNext
  <2>2. CASE \E p \in Offered : ChangeCRD(p)
    BY <2>2 DEF ChangeCRD, DiscoveryNext
  <2>3. CASE Restart
    BY <2>3 DEF Restart, DiscoveryNext
  <2>4. CASE \/ \E o \in Objects : Create(o) \/ Delete(o)
             \/ \E o, p \in Objects : Update(o, p)
    BY <2>4 DEF Create, Delete, Update, Change
  <2>5. CASE \/ StartInformers \/ StartStreaming
             \/ List(Typed \ Silent) \/ List(Silent) \/ \E r \in Optional : List({r})
    BY <2>5 DEF StartInformers, StartStreaming, Begin, List
  <2>6. ASSUME NEW r, Reconcile(r) \/ Snapshot(r) PROVE UNCHANGED discoveryVars
    BY <2>6 DEF Reconcile, Begin, Snapshot, ListCached, EmitInitial, End
  <2>7. CASE \/ \E o \in api : Upsert(o)
             \/ \E p \in cache : Drop(p)
             \/ \E x \in exposed : LookUp(x)
             \/ \E o \in got : EmitExposure(o)
    BY <2>7 DEF Upsert, Drop, LookUp, EmitExposure
  <2>8. CASE UNCHANGED vars
    BY <2>8 DEF vars
  <2> QED
    BY <2>1, <2>2, <2>3, <2>4, <2>5, <2>6, <2>7, <2>8 DEF Next, AgentStep
<1>3. Inv /\ [DiscoveryNext]_discoveryVars => Inv'
  BY DiscoveryStep
<1>4. Inv => NewestAnswered
  BY NewestFromInv
<1> QED
  BY <1>1, <1>2, <1>3, <1>4, PTL DEF Spec
=============================================================================
