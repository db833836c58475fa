------------------------------ MODULE PodsProofs ------------------------------
(***************************************************************************)
(* SPAM shows the cached pod (ViewIsCurrent), at most one record per         *)
(* container (TypeOK), and the parts of the image the pod names              *)
(* (DescribesTheImage), for every set of containers, images and ids, every   *)
(* number of lives of a pod name, of changes and of queued notifications,    *)
(* and however many goroutines take snapshots.                               *)
(***************************************************************************)
EXTENDS Pods, ImagesProofs

-----------------------------------------------------------------------------
(* The inductive invariant *)

Specs == UNION {[S -> References] : S \in SUBSET Containers}
Statuses == UNION {[S -> KubeletIDs \cup {NoID}] : S \in SUBSET Containers}
PodStates == [uid : Nat, phase : 1..Len(Phases), spec : Specs, status : Statuses]

\* A pod's statuses are of containers of its spec, and a pod that is not there has none.
WellFormed(p) ==
    /\ DOMAIN p.status \subseteq DOMAIN p.spec
    /\ p.uid = 0 => DOMAIN p.spec = {}
    /\ p.uid <= lives

\* Containers and statuses of a pod are only added.
Older(p, q) ==
    Exists(p) /\ p.uid = q.uid =>
        DOMAIN p.spec \subseteq DOMAIN q.spec /\ DOMAIN p.status \subseteq DOMAIN q.status

\* The states of the pod that somebody still holds.
Held == {cache} \cup {queue[i][1] : i \in 1..Len(queue)} \cup {queue[i][2] : i \in 1..Len(queue)}
                \cup {pod[r] : r \in Runners}

KeySets == SUBSET ((1..lives) \X Containers)

Types ==
    /\ api \in PodStates /\ cache \in PodStates
    /\ queue \in Seq(PodStates \X PodStates) /\ Len(queue) <= MaxQueue
    /\ lives \in 0..MaxLives /\ changes \in 0..MaxChanges
    /\ step \in [Runners -> {"idle", "begun", "listed"}]
    /\ pod \in [Runners -> PodStates]
    /\ left \in [Runners -> SUBSET Containers]
    /\ asserted \in [Runners -> KeySets] /\ behind \in KeySets

\* Each notification starts where the one before it ended, the last one ends at the cache.
Linked ==
    \A i \in 1..Len(queue) :
        /\ queue[i][2] = IF i = Len(queue) THEN cache ELSE queue[i + 1][1]
        /\ Older(queue[i][1], queue[i][2])

\* What is held of a pod is an earlier state of it; a UID that is not the cached one does not
\* come back.
PodOk(p) ==
    /\ WellFormed(p) /\ Older(p, cache)
    /\ Exists(p) /\ p.uid = api.uid => p.uid = cache.uid

PodsOk ==
    /\ WellFormed(api) /\ Older(cache, api)
    /\ \A p \in Held : PodOk(p)
    /\ \A r \in Runners : left[r] \subseteq DOMAIN pod[r].spec

\* The record of one container, as Records writes it.
Rec(p, c) ==
    [uid |-> p.uid, name |-> c, phase |-> p.phase, image |-> p.spec[c],
     id |-> StatusImageID(p, c),
     says |-> Describe(Written(p.spec[c]),
                       StatusImageID(p, c).prefix \o Written(StatusImageID(p, c).of))]

\* What SPAM shows, and what a pod says, of container c of the pod with uid u.
Shown(u, c) == {r \in view : r.uid = u /\ r.name = c}
Said(p, u, c) == IF p.uid = u /\ c \in DOMAIN p.spec THEN {Rec(p, c)} ELSE {}

\* A record of the cached pod is of a container of its, and counts towards every snapshot
\* that has listed the pods: no sweep removes it.
RecordOk(s) ==
    /\ s.uid \in 1..lives /\ s.name \in Containers
    /\ s.image \in References /\ s.id \in KubeletIDs \cup {NoID}
    /\ s.phase \in 1..Len(Phases)
    /\ s.uid = api.uid => s.uid = cache.uid
    /\ s.uid = cache.uid => /\ s.name \in DOMAIN cache.spec
                            /\ \A r \in Runners : step[r] = "listed" => Key(s) \in asserted[r]

ViewOk ==
    /\ \A s \in view : RecordOk(s)
    /\ \A s, t \in view : s.uid = t.uid /\ s.name = t.name => s = t

\* Of every container that is not behind, SPAM shows what one of the states ahead says of
\* it: what the handler saw last, or what a snapshot listed that was not overtaken.
Tracks ==
    \A u \in Nat, c \in Containers :
        <<u, c>> \notin behind => \E p \in Ahead : Shown(u, c) = Said(p, u, c)

PInv == Types /\ Linked /\ PodsOk /\ ViewOk /\ Tracks

-----------------------------------------------------------------------------
(* Lemmas *)

LEMMA EmptyMaps == <<>> \in Specs /\ <<>> \in Statuses /\ DOMAIN <<>> = {}
<1>1. \A X : <<>> \in [{} -> X] /\ DOMAIN <<>> = {}
  <2> TAKE X
  <2>1. <<>> \in Seq(X) /\ Len(<<>>) = 0
    BY EmptySeq
  <2>2. <<>> \in [1..0 -> X] /\ DOMAIN <<>> = 1..0
    BY <2>1, LenProperties
  <2> QED
    BY <2>2
<1> QED
  BY <1>1 DEF Specs, Statuses

\* NoPod is the state of a pod that is not there.
LEMMA NoPodState ==
    /\ NoPod \in PodStates /\ ~Exists(NoPod) /\ NoPod.uid = 0
    /\ DOMAIN NoPod.spec = {} /\ DOMAIN NoPod.status = {}
<1>1. 1 \in 1..Len(Phases)
  BY DEF Phases
<1> QED
  BY <1>1, EmptyMaps DEF NoPod, None, PodStates, Exists

LEMMA PodFields ==
    ASSUME NEW p \in PodStates
    PROVE  /\ p.uid \in Nat /\ p.phase \in 1..Len(Phases)
           /\ DOMAIN p.spec \subseteq Containers /\ DOMAIN p.status \subseteq Containers
           /\ \A c \in DOMAIN p.spec : p.spec[c] \in References
           /\ \A c \in DOMAIN p.status : p.status[c] \in KubeletIDs \cup {NoID}
           /\ \A c \in Containers : StatusImageID(p, c) \in KubeletIDs \cup {NoID}
<1>1. p.uid \in Nat /\ p.phase \in 1..Len(Phases) /\ p.spec \in Specs /\ p.status \in Statuses
  BY DEF PodStates
<1>2. PICK S \in SUBSET Containers : p.spec \in [S -> References]
  BY <1>1 DEF Specs
<1>3. PICK T \in SUBSET Containers : p.status \in [T -> KubeletIDs \cup {NoID}]
  BY <1>1 DEF Statuses
<1> QED
  BY <1>1, <1>2, <1>3 DEF StatusImageID

\* The records of a pod, one by one.
LEMMA RecordsAre ==
    ASSUME NEW p, NEW cs \in SUBSET (DOMAIN p.spec)
    PROVE  Records(p, cs) = {Rec(p, c) : c \in cs}
BY DEF Records, Rec, Refs

LEMMA RecFields ==
    ASSUME NEW p, NEW c
    PROVE  /\ Rec(p, c).uid = p.uid /\ Rec(p, c).name = c /\ Rec(p, c).phase = p.phase
           /\ Rec(p, c).image = p.spec[c] /\ Rec(p, c).id = StatusImageID(p, c)
BY DEF Rec

\* Statuses that were only added to and are as many as before are the same (pod.go:147-167).
LEMMA SameIDs ==
    ASSUME NEW p \in PodStates, NEW q \in PodStates, DOMAIN p.status \subseteq DOMAIN q.status,
           \A list \in Lists : SameImageIDs(p, q, list)
    PROVE  \A c \in Containers : StatusImageID(p, c) = StatusImageID(q, c)
<1> SUFFICES ASSUME NEW c \in Containers PROVE StatusImageID(p, c) = StatusImageID(q, c)
  OBVIOUS
<1> DEFINE list == ListOf[c]
<1>1. list \in Lists
  BY PodsAssumption
<1>2. /\ Cardinality(Reported(p, list)) = Cardinality(Reported(q, list))
      /\ \A d \in Reported(p, list) : p.status[d] = StatusImageID(q, d)
  BY <1>1 DEF SameImageIDs
<1>3. Reported(p, list) = Reported(q, list)
  <2>1. Reported(p, list) \subseteq Reported(q, list)
    BY DEF Reported
  <2>2. IsFiniteSet(Reported(q, list))
    <3>1. Reported(q, list) \in SUBSET Containers
      BY PodFields DEF Reported
    <3> QED
      BY <3>1, PodsAssumption, FS_Subset
  <2> QED
    BY <1>2, <2>1, <2>2, FS_Subset
<1>4. CASE c \in DOMAIN p.status
  <2>1. c \in Reported(p, list)
    BY <1>4 DEF Reported
  <2> QED
    BY <1>2, <1>4, <2>1 DEF StatusImageID
<1>5. CASE c \notin DOMAIN p.status
  <2>1. c \notin Reported(p, list)
    BY <1>5 DEF Reported
  <2>2. c \notin DOMAIN q.status
    BY <1>3, <2>1 DEF Reported
  <2> QED
    BY <1>5, <2>2 DEF StatusImageID
<1> QED
  BY <1>4, <1>5

\* EmitPod leaves out only containers that say the same before and after.
LEMMA QuietIsUnchanged ==
    ASSUME NEW p \in PodStates, NEW q \in PodStates, Exists(q), Older(p, q),
           Exists(p) => p.uid = q.uid, Exists(p) \/ DOMAIN p.spec = {},
           NEW u \in Nat, NEW c \in Containers, c \notin ToEmit(p, q) \/ u # q.uid
    PROVE  Said(p, u, c) = Said(q, u, c)
<1>1. CASE u # q.uid
  <2>1. Said(q, u, c) = {}
    BY <1>1 DEF Said
  <2>2. Said(p, u, c) = {}
    BY <1>1 DEF Said
  <2> QED
    BY <2>1, <2>2
<1>2. CASE u = q.uid /\ ~Exists(p)
  <2>1. c \notin DOMAIN q.spec
    BY <1>2 DEF ToEmit
  <2> QED
    BY <1>2, <2>1 DEF Said
<1>3. CASE u = q.uid /\ Exists(p)
  <2>1. /\ p.uid = u /\ q.uid = u
        /\ DOMAIN p.spec \subseteq DOMAIN q.spec /\ DOMAIN p.status \subseteq DOMAIN q.status
    BY <1>3 DEF Older
  <2>2. ASSUME p.phase = q.phase, c \in DOMAIN p.spec, c \in DOMAIN q.spec,
               p.spec[c] = q.spec[c], StatusImageID(p, c) = StatusImageID(q, c)
        PROVE  Said(p, u, c) = Said(q, u, c)
    BY <2>1, <2>2 DEF Said, Rec
  <2>3. CASE c \notin DOMAIN q.spec
    BY <2>1, <2>3 DEF Said
  <2>4. CASE c \in DOMAIN q.spec /\ SamePodImages(p, q)
    <3>1. p.phase = q.phase /\ p.spec = q.spec /\ \A list \in Lists : SameImageIDs(p, q, list)
      BY <2>4 DEF SamePodImages
    <3>2. StatusImageID(p, c) = StatusImageID(q, c)
      BY <2>1, <3>1, SameIDs
    <3> QED
      BY <2>2, <2>4, <3>1, <3>2
  <2>5. CASE c \in DOMAIN q.spec /\ ~SamePodImages(p, q)
    <3>1. p.phase = q.phase /\ c \in DOMAIN p.spec /\ Refs(p)[c] = Refs(q)[c]
      BY <1>3, <2>5 DEF ToEmit
    <3>2. Refs(p)[c] = [image |-> p.spec[c], id |-> StatusImageID(p, c)]
      BY <3>1 DEF Refs
    <3>3. Refs(q)[c] = [image |-> q.spec[c], id |-> StatusImageID(q, c)]
      BY <2>5 DEF Refs
    <3>4. Refs(p)[c].image = p.spec[c] /\ Refs(p)[c].id = StatusImageID(p, c)
      BY <3>2
    <3>5. Refs(q)[c].image = q.spec[c] /\ Refs(q)[c].id = StatusImageID(q, c)
      BY <3>3
    <3> QED
      BY <2>2, <2>5, <3>1, <3>4, <3>5
  <2> QED
    BY <2>3, <2>4, <2>5
<1> QED
  BY <1>1, <1>2, <1>3

LEMMA ToEmitOfNew ==
    ASSUME NEW p, NEW q
    PROVE  ToEmit(p, q) \in SUBSET (DOMAIN q.spec)
BY DEF ToEmit

\* The keys of a pod's records.
LEMMA RecordKeys ==
    ASSUME NEW p, NEW cs \in SUBSET (DOMAIN p.spec)
    PROVE  /\ {Key(s) : s \in Records(p, cs)} = Keys(p, cs)
           /\ Emitted(Records(p, cs)) = {s \in view : s.uid = p.uid /\ s.name \in cs}
           /\ \A u, c : <<u, c>> \in Keys(p, cs) <=> u = p.uid /\ c \in cs
<1>1. Records(p, cs) = {Rec(p, d) : d \in cs}
  BY RecordsAre
<1>2. \A d \in cs : Rec(p, d).uid = p.uid /\ Rec(p, d).name = d
  BY RecFields
<1>3. {Key(s) : s \in Records(p, cs)} = Keys(p, cs)
  <2>1. \A d \in cs : Key(Rec(p, d)) = <<p.uid, d>>
    BY <1>2 DEF Key
  <2> QED
    BY <1>1, <2>1 DEF Keys
<1>4. Emitted(Records(p, cs)) = {s \in view : s.uid = p.uid /\ s.name \in cs}
  BY <1>1, <1>2 DEF Emitted
<1> QED
  BY <1>3, <1>4 DEF Keys

\* The records EmitPod logs replace those of their keys.
LEMMA ShownAfterShow ==
    ASSUME NEW p, NEW cs \in SUBSET (DOMAIN p.spec), Show(Records(p, cs)), NEW u, NEW c
    PROVE  Shown(u, c)' = IF u = p.uid /\ c \in cs THEN {Rec(p, c)} ELSE Shown(u, c)
<1>1. Records(p, cs) = {Rec(p, d) : d \in cs}
  BY RecordsAre
<1>2. \A d \in cs : Rec(p, d).uid = p.uid /\ Rec(p, d).name = d
  BY RecFields
<1>3. view' = {s \in view : ~(s.uid = p.uid /\ s.name \in cs)} \cup {Rec(p, d) : d \in cs}
  BY <1>1, RecordKeys DEF Show
<1>4. Shown(u, c)' = {r \in view' : r.uid = u /\ r.name = c}
  BY DEF Shown
<1>5. CASE u = p.uid /\ c \in cs
  BY <1>2, <1>3, <1>4, <1>5
<1>6. CASE ~(u = p.uid /\ c \in cs)
  BY <1>2, <1>3, <1>4, <1>6 DEF Shown
<1> QED
  BY <1>5, <1>6

\* EmitPodDelete: a pod that is gone has nothing to show.
LEMMA ShownAfterDelete ==
    ASSUME NEW p, EmitPodDelete(p), NEW u, NEW c
    PROVE  Shown(u, c)' = IF u = p.uid /\ c \in DOMAIN p.spec THEN {} ELSE Shown(u, c)
<1>1. view' = {s \in view : ~(s.uid = p.uid /\ s.name \in DOMAIN p.spec)}
  BY RecordKeys DEF EmitPodDelete
<1>2. Shown(u, c)' = {r \in view' : r.uid = u /\ r.name = c}
  BY DEF Shown
<1> QED
  BY <1>1, <1>2 DEF Shown

-----------------------------------------------------------------------------
(* The invariant holds initially *)

LEMMA ResidentStates ==
    ASSUME NEW p \in Residents
    PROVE  /\ p \in PodStates /\ p.uid = 1
           /\ DOMAIN p.spec = Fixed /\ DOMAIN p.status = Fixed
<1> DEFINE state(image, id) == [uid |-> 1, phase |-> 2, spec |-> [c \in Fixed |-> image],
                              status |-> [c \in Fixed |-> id]]
<1>0. PICK image \in References : \E id \in ReportedFor(image) \cup {NoID} : p = state(image, id)
  BY DEF Residents
<1>1. PICK id \in ReportedFor(image) \cup {NoID} : p = state(image, id)
  BY <1>0
<1>2. id \in KubeletIDs \cup {NoID}
  BY <1>1 DEF KubeletIDs
<1>3. Fixed \in SUBSET Containers
  BY DEF Fixed
<1>4. [c \in Fixed |-> image] \in Specs /\ [c \in Fixed |-> id] \in Statuses
  <2>1. [c \in Fixed |-> image] \in [Fixed -> References]
    BY <1>1
  <2>2. [c \in Fixed |-> id] \in [Fixed -> KubeletIDs \cup {NoID}]
    BY <1>2
  <2> QED
    BY <1>3, <2>1, <2>2 DEF Specs, Statuses
<1>5. 2 \in 1..Len(Phases)
  BY DEF Phases
<1> QED
  BY <1>1, <1>4, <1>5 DEF PodStates

LEMMA InitPInv == Init => PInv
<1> SUFFICES ASSUME Init PROVE PInv
  OBVIOUS
<1>1. /\ cache = NoPod /\ queue = <<>> /\ view = {} /\ behind = {}
      /\ step = [r \in Runners |-> "idle"] /\ pod = [r \in Runners |-> NoPod]
      /\ left = [r \in Runners |-> {}] /\ asserted = [r \in Runners |-> {}]
      /\ lives \in 0..MaxLives /\ changes \in 0..MaxChanges
      /\ lives \in Nat
  BY PodsAssumption DEF Init
<1>2. queue \in Seq(PodStates \X PodStates) /\ Len(queue) = 0 /\ 1..Len(queue) = {}
  BY <1>1, EmptySeq
<1>3. api \in PodStates /\ WellFormed(api)
  <2>1. CASE api = NoPod
    BY <1>1, <2>1, NoPodState DEF WellFormed
  <2>2. CASE api \in Residents /\ lives = MaxLives
    BY <2>2, ResidentStates, PodsAssumption DEF WellFormed
  <2> QED
    BY <2>1, <2>2 DEF Init
<1>4. Types
  <2>1. cache \in PodStates /\ pod \in [Runners -> PodStates]
    BY <1>1, NoPodState
  <2>2. Len(queue) <= MaxQueue
    BY <1>2, PodsAssumption
  <2>3. /\ step \in [Runners -> {"idle", "begun", "listed"}]
        /\ left \in [Runners -> SUBSET Containers]
        /\ asserted \in [Runners -> KeySets] /\ behind \in KeySets
    BY <1>1 DEF KeySets
  <2> QED
    BY <1>1, <1>2, <1>3, <2>1, <2>2, <2>3 DEF Types
<1>5. Linked
  BY <1>2 DEF Linked
<1>6. PodsOk
  <2>1. \A p \in Held : p = NoPod
    BY <1>1, <1>2 DEF Held
  <2>2. PodOk(NoPod) /\ Older(cache, api)
    BY <1>1, NoPodState DEF PodOk, WellFormed, Older
  <2>3. \A r \in Runners : left[r] = {}
    BY <1>1
  <2> QED
    BY <1>3, <2>1, <2>2, <2>3 DEF PodsOk
<1>7. ViewOk
  BY <1>1 DEF ViewOk
<1>8. Tracks
  <2> SUFFICES ASSUME NEW u \in Nat, NEW c \in Containers
               PROVE  cache \in Ahead /\ Shown(u, c) = Said(cache, u, c)
    BY DEF Tracks
  <2> QED
    BY <1>1, NoPodState DEF Ahead, Shown, Said
<1> QED
  BY <1>4, <1>5, <1>6, <1>7, <1>8 DEF PInv

\* What is held is well typed.
LEMMA HeldTyped ==
    ASSUME PInv
    PROVE  /\ Len(queue) \in Nat
           /\ \A i \in 1..Len(queue) : queue[i][1] \in Held /\ queue[i][2] \in Held
           /\ \A r \in Runners : pod[r] \in Held
           /\ cache \in Held /\ Ahead \subseteq Held
           /\ \A p \in Held : p \in PodStates /\ PodOk(p)
<1>1. queue \in Seq(PodStates \X PodStates) /\ pod \in [Runners -> PodStates] /\ cache \in PodStates
  BY DEF PInv, Types
<1>2. \A i \in 1..Len(queue) : queue[i] \in PodStates \X PodStates
  BY <1>1, ElementOfSeq
<1>3. \A i \in 1..Len(queue) : queue[i][1] \in PodStates /\ queue[i][2] \in PodStates
  BY <1>2
<1>4. Len(queue) \in Nat
  BY <1>1, LenProperties
<1>5. \A p \in Held : p \in PodStates
  BY <1>1, <1>3 DEF Held
<1> QED
  BY <1>4, <1>5 DEF PInv, PodsOk, Held, Ahead

-----------------------------------------------------------------------------
(* A change in the API server *)

\* The new state of the pod has what the old one had, if it is the same pod.
LEMMA ChangeKeeps ==
    ASSUME PInv, NEW p \in PodStates, Changed(p), lives' \in lives..MaxLives,
           DOMAIN p.status \subseteq DOMAIN p.spec, p.uid = 0 => DOMAIN p.spec = {},
           p.uid <= lives',
           \/ p.uid \in {0, lives + 1}
           \/ p.uid = api.uid /\ DOMAIN api.spec \subseteq DOMAIN p.spec
                              /\ DOMAIN api.status \subseteq DOMAIN p.status
    PROVE  PInv'
<1>1. Types /\ Linked /\ PodsOk /\ ViewOk /\ Tracks
  BY DEF PInv
<1>2. /\ api' = p /\ changes < MaxChanges /\ changes' = changes + 1
      /\ cache' = cache /\ queue' = queue /\ step' = step /\ pod' = pod /\ left' = left
      /\ asserted' = asserted /\ view' = view /\ behind' = behind
  BY DEF Changed, snapVars, spamVars
<1>3. /\ lives \in Nat /\ MaxLives \in Nat /\ lives' \in Nat /\ lives <= lives'
      /\ changes \in Nat /\ MaxChanges \in Nat /\ api.uid \in Nat /\ p.uid \in Nat
      /\ cache.uid \in Nat
  BY <1>1, PodsAssumption, PodFields DEF Types
<1>4. \A q \in Held : q.uid \in Nat /\ q.uid <= lives /\ PodOk(q)
  BY HeldTyped, PodFields DEF PodOk, WellFormed
<1>5. Held' = Held /\ Ahead' = Ahead
  BY <1>2 DEF Held, Ahead
<1>6. Types'
  <2>1. \A S \in KeySets : S \in KeySets'
    BY <1>3 DEF KeySets
  <2>2. asserted' \in [Runners -> KeySets'] /\ behind' \in KeySets'
    <3>1. asserted \in [Runners -> KeySets] /\ behind \in KeySets
      BY <1>1 DEF Types
    <3> QED
      BY <1>2, <2>1, <3>1
  <2>3. lives' \in 0..MaxLives /\ changes' \in 0..MaxChanges
    BY <1>2, <1>3
  <2> QED
    BY <1>1, <1>2, <2>2, <2>3 DEF Types
<1>7. Linked'
  BY <1>1, <1>2 DEF Linked, Older, Exists
<1>8. \A q \in Held : q.uid = p.uid /\ q.uid # 0 => p.uid = api.uid
  BY <1>3, <1>4
<1>9. PodsOk'
  <2>1. Older(cache', api')
    <3> SUFFICES ASSUME Exists(cache), cache.uid = p.uid
                 PROVE  DOMAIN cache.spec \subseteq DOMAIN p.spec
                        /\ DOMAIN cache.status \subseteq DOMAIN p.status
      BY <1>2 DEF Older
    <3>1. /\ p.uid = api.uid /\ DOMAIN api.spec \subseteq DOMAIN p.spec
          /\ DOMAIN api.status \subseteq DOMAIN p.status
      <4>1. cache.uid <= lives /\ cache.uid # 0
        BY <1>4, HeldTyped DEF Exists
      <4> QED
        BY <1>3, <4>1
    <3>2. DOMAIN cache.spec \subseteq DOMAIN api.spec /\ DOMAIN cache.status \subseteq DOMAIN api.status
      BY <1>1, <3>1 DEF PodsOk, Older
    <3> QED
      BY <3>1, <3>2
  <2>2. WellFormed(api)'
    BY <1>2 DEF WellFormed
  <2>3. ASSUME NEW q \in Held PROVE PodOk(q)'
    <3>1. WellFormed(q) /\ Older(q, cache) /\ (Exists(q) /\ q.uid = api.uid => q.uid = cache.uid)
      BY <1>4 DEF PodOk
    <3>2. q.uid <= lives'
      BY <1>3, <1>4
    <3>3. Exists(q) /\ q.uid = p.uid => q.uid = cache.uid
      BY <1>8, <3>1 DEF Exists
    <3> QED
      BY <1>2, <3>1, <3>2, <3>3 DEF PodOk, WellFormed, Older, Exists
  <2> QED
    BY <1>1, <1>2, <1>5, <2>1, <2>2, <2>3 DEF PodsOk, Older, Exists
<1>10. ViewOk'
  <2>1. ASSUME NEW s \in view PROVE RecordOk(s)'
    <3>1. RecordOk(s) /\ s.uid \in Nat /\ s.uid # 0 /\ s.uid <= lives
      BY <1>1, <1>3 DEF ViewOk, RecordOk
    <3>2. s.uid = p.uid => p.uid = api.uid
      BY <1>3, <3>1
    <3>3. s.uid \in 1..lives'
      BY <1>3, <3>1
    <3> QED
      BY <1>2, <3>1, <3>2, <3>3 DEF RecordOk
  <2> QED
    BY <1>1, <1>2, <2>1 DEF ViewOk
<1>11. Tracks'
  <2>1. \A u \in Nat, c \in Containers : Shown(u, c)' = Shown(u, c)
    BY <1>2 DEF Shown
  <2> QED
    BY <1>1, <1>2, <1>5, <2>1 DEF Tracks, Said, Rec, StatusImageID
<1> QED
  BY <1>6, <1>7, <1>9, <1>10, <1>11 DEF PInv

LEMMA ClusterStep ==
    ASSUME PInv,
           \/ \E image \in Images : Create(image)
           \/ Delete \/ Advance
           \/ \E c \in Containers, image \in Images : SetImage(c, image)
           \/ ReportStatus
    PROVE  PInv'
<1>1. /\ api \in PodStates /\ WellFormed(api) /\ lives \in 0..MaxLives /\ lives \in Nat
      /\ MaxLives \in Nat
  BY PodsAssumption DEF PInv, Types, PodsOk
<1>2. /\ api.uid \in Nat /\ api.phase \in 1..Len(Phases) /\ api.spec \in Specs
      /\ api.status \in Statuses /\ api.uid <= lives
      /\ DOMAIN api.status \subseteq DOMAIN api.spec
      /\ api.uid = 0 => DOMAIN api.spec = {}
  BY <1>1 DEF PodStates, WellFormed
<1>3. ASSUME NEW image \in Images, Create(image) PROVE PInv'
  <2> DEFINE p == [uid |-> lives + 1, phase |-> 1, spec |-> [c \in Fixed |-> image],
                   status |-> None]
  <2>1. [c \in Fixed |-> image] \in Specs
    <3>1. image \in References /\ Fixed \in SUBSET Containers
      BY PodsAssumption DEF Fixed
    <3>2. [c \in Fixed |-> image] \in [Fixed -> References]
      BY <3>1
    <3> QED
      BY <3>1, <3>2 DEF Specs
  <2>2. None \in Statuses /\ DOMAIN None = {}
    BY EmptyMaps DEF None
  <2>3. 1 \in 1..Len(Phases)
    BY DEF Phases
  <2>4. p \in PodStates
    BY <1>1, <2>1, <2>2, <2>3 DEF PodStates
  <2>5. p.uid = lives + 1 /\ DOMAIN p.status = {}
    BY <2>2
  <2>6. Changed(p) /\ lives' = lives + 1 /\ lives < MaxLives
    BY <1>3 DEF Create
  <2>7. lives' \in lives..MaxLives /\ p.uid <= lives' /\ p.uid # 0
    BY <1>1, <2>5, <2>6
  <2> HIDE DEF p
  <2> QED
    BY <2>4, <2>5, <2>6, <2>7, ChangeKeeps
<1>4. CASE Delete
  <2>1. Changed(NoPod) /\ lives' = lives
    BY <1>4 DEF Delete
  <2>2. lives' \in lives..MaxLives
    BY <1>1, <2>1
  <2> QED
    BY <1>1, <2>1, <2>2, NoPodState, ChangeKeeps
<1>5. CASE Advance
  <2> DEFINE p == [api EXCEPT !.phase = @ + 1]
  <2>1. Changed(p) /\ lives' = lives /\ api.phase + 1 \in 1..Len(Phases)
    <3>1. Len(Phases) = 3
      BY DEF Phases
    <3> QED
      BY <1>2, <1>5, <3>1 DEF Advance
  <2>2. p \in PodStates /\ p.uid = api.uid /\ p.spec = api.spec /\ p.status = api.status
    BY <1>1, <2>1 DEF PodStates
  <2>3. lives' \in lives..MaxLives
    BY <1>1, <2>1
  <2> HIDE DEF p
  <2> QED
    BY <1>2, <2>1, <2>2, <2>3, ChangeKeeps
<1>6. ASSUME NEW c \in Containers, NEW image \in Images, SetImage(c, image) PROVE PInv'
  <2> DEFINE s == [d \in DOMAIN api.spec \cup {c} |-> IF d = c THEN image ELSE api.spec[d]]
             p == [api EXCEPT !.spec = s]
  <2>1. Changed(p) /\ lives' = lives /\ Exists(api)
    BY <1>6 DEF SetImage
  <2>2. s \in Specs /\ DOMAIN s = DOMAIN api.spec \cup {c}
    <3>1. DOMAIN api.spec \cup {c} \in SUBSET Containers
      BY <1>1, PodFields
    <3>2. image \in References /\ \A d \in DOMAIN api.spec : api.spec[d] \in References
      BY <1>1, PodFields, PodsAssumption
    <3>3. s \in [DOMAIN api.spec \cup {c} -> References]
      BY <3>2
    <3> QED
      BY <3>1, <3>3 DEF Specs
  <2> HIDE DEF s
  <2>3. p \in PodStates /\ p.uid = api.uid /\ p.spec = s /\ p.status = api.status
    BY <1>1, <2>2 DEF PodStates
  <2>4. lives' \in lives..MaxLives /\ api.uid # 0
    BY <1>1, <2>1 DEF Exists
  <2> HIDE DEF p
  <2> QED
    BY <1>2, <2>1, <2>2, <2>3, <2>4, ChangeKeeps
<1>7. CASE ReportStatus
  <2>1. PICK ids \in [DOMAIN api.spec -> ImageIDs \cup {NoID}] : Changed([api EXCEPT !.status = ids])
    BY <1>7 DEF ReportStatus
  <2> DEFINE p == [api EXCEPT !.status = ids]
  <2>2. Changed(p) /\ lives' = lives /\ Exists(api)
    BY <1>7, <2>1 DEF ReportStatus
  <2>3. ids \in Statuses /\ DOMAIN ids = DOMAIN api.spec
    <3>1. DOMAIN api.spec \in SUBSET Containers
      BY <1>1, PodFields
    <3>2. ids \in [DOMAIN api.spec -> KubeletIDs \cup {NoID}]
      BY <2>1, PodsAssumption
    <3> QED
      BY <3>1, <3>2 DEF Statuses
  <2>4. p \in PodStates /\ p.uid = api.uid /\ p.spec = api.spec /\ p.status = ids
    BY <1>1, <2>3 DEF PodStates
  <2>5. lives' \in lives..MaxLives /\ api.uid # 0
    BY <1>1, <2>2 DEF Exists
  <2> HIDE DEF p
  <2> QED
    BY <1>2, <2>2, <2>3, <2>4, <2>5, ChangeKeeps
<1> QED
  BY <1>3, <1>4, <1>5, <1>6, <1>7

-----------------------------------------------------------------------------
(* Emission *)

\* What a pod says is well typed.
LEMMA RecTyped ==
    ASSUME NEW p \in PodStates, WellFormed(p), lives \in Nat, NEW c \in DOMAIN p.spec
    PROVE  LET r == Rec(p, c)
           IN  /\ r.uid \in 1..lives /\ r.name \in Containers
               /\ r.image \in References /\ r.id \in KubeletIDs \cup {NoID}
               /\ r.phase \in 1..Len(Phases)
<1>1. p.uid \in Nat /\ p.uid # 0 /\ p.uid <= lives
  BY PodFields DEF WellFormed
<1>2. /\ c \in Containers /\ p.phase \in 1..Len(Phases) /\ p.spec[c] \in References
      /\ StatusImageID(p, c) \in KubeletIDs \cup {NoID}
  BY PodFields
<1>3. p.uid \in 1..lives
  BY <1>1
<1> QED
  BY <1>2, <1>3, RecFields

\* The keys of lines of a pod that is held.
LEMMA KeysTyped ==
    ASSUME PInv, NEW p \in Held, NEW cs \in SUBSET (DOMAIN p.spec)
    PROVE  Keys(p, cs) \in KeySets
<1>1. p \in PodStates /\ WellFormed(p) /\ lives \in Nat
  BY HeldTyped, PodsAssumption DEF PodOk, PInv, Types
<1>2. \A c \in cs : p.uid \in 1..lives /\ c \in Containers
  BY <1>1, RecTyped, RecFields
<1> QED
  BY <1>2 DEF Keys, KeySets

\* Lines of a held state keep the records in order.
LEMMA ShowStep ==
    ASSUME PInv, NEW p \in Held, NEW cs \in SUBSET (DOMAIN p.spec), Show(Records(p, cs)),
           api' = api, cache' = cache, lives' = lives, step' = step
    PROVE  ViewOk' /\ asserted' \in [Runners -> KeySets]
<1>1. Types /\ PodsOk /\ ViewOk
  BY DEF PInv
<1>2. p \in PodStates /\ PodOk(p) /\ WellFormed(p) /\ lives \in Nat
  BY HeldTyped, PodsAssumption DEF PodOk, PInv, Types
<1> DEFINE rs == Records(p, cs)
<1>3. rs = {Rec(p, c) : c \in cs}
  BY RecordsAre
<1>4. \A c \in cs : Rec(p, c).uid = p.uid /\ Rec(p, c).name = c
  BY RecFields
<1>5. {Key(s) : s \in rs} = Keys(p, cs)
  BY RecordKeys
<1>6. view' = (view \ Emitted(rs)) \cup rs
  BY DEF Show
<1>7. asserted' = [r \in Runners |-> IF step[r] = "idle" THEN {}
                                     ELSE asserted[r] \cup Keys(p, cs)]
  BY <1>5 DEF Show
<1>8. Emitted(rs) = {s \in view : s.uid = p.uid /\ s.name \in cs}
  BY RecordKeys
<1>9. asserted' \in [Runners -> KeySets]
  <2>1. Keys(p, cs) \in KeySets
    BY KeysTyped
  <2>2. \A r \in Runners : asserted[r] \in KeySets
    BY <1>1 DEF Types
  <2> QED
    BY <1>7, <2>1, <2>2 DEF KeySets
<1>10. ASSUME NEW s \in rs PROVE RecordOk(s)'
  <2>1. PICK c \in cs : s = Rec(p, c)
    BY <1>3
  <2>2. /\ s.uid \in 1..lives /\ s.name \in Containers
        /\ s.image \in References /\ s.id \in KubeletIDs \cup {NoID}
        /\ s.phase \in 1..Len(Phases)
    BY <1>2, <2>1, RecTyped
  <2>3. s.uid = p.uid /\ s.name = c /\ c \in DOMAIN p.spec /\ Exists(p)
    BY <1>2, <1>4, <2>1 DEF WellFormed, Exists
  <2>4. s.uid = api.uid => s.uid = cache.uid
    BY <1>2, <2>3 DEF PodOk
  <2>5. s.uid = cache.uid => s.name \in DOMAIN cache.spec
    BY <1>2, <2>3 DEF PodOk, Older
  <2>6. \A r \in Runners : step[r] = "listed" => Key(s) \in asserted'[r]
    BY <1>5, <1>7
  <2> QED
    BY <2>2, <2>4, <2>5, <2>6 DEF RecordOk, Key
<1>11. ASSUME NEW s \in view PROVE RecordOk(s)'
  <2>1. RecordOk(s)
    BY <1>1 DEF ViewOk
  <2>2. \A r \in Runners : step[r] = "listed" /\ Key(s) \in asserted[r] => Key(s) \in asserted'[r]
    BY <1>7
  <2> QED
    BY <2>1, <2>2 DEF RecordOk, Key
<1> HIDE DEF rs
<1>12. \A s \in view' : RecordOk(s)'
  BY <1>6, <1>10, <1>11
<1>13. \A s, t \in rs : s.name = t.name => s = t
  BY <1>3, <1>4
<1>14. \A s \in rs : s.uid = p.uid /\ s.name \in cs
  BY <1>3, <1>4
<1>15. \A s, t \in view' : s.uid = t.uid /\ s.name = t.name => s = t
  BY <1>1, <1>6, <1>8, <1>13, <1>14 DEF ViewOk
<1>16. ViewOk'
  BY <1>12, <1>15 DEF ViewOk
<1> QED
  BY <1>9, <1>16

-----------------------------------------------------------------------------
(* The informer and the handler *)

LEMMA DeliverStep == PInv /\ Deliver => PInv'
<1> SUFFICES ASSUME PInv, Deliver PROVE PInv'
  OBVIOUS
<1> USE DEF podVars, snapVars, spamVars
<1>1. Types /\ Linked /\ PodsOk /\ ViewOk /\ Tracks
  BY DEF PInv
<1>2. /\ Len(queue) < MaxQueue /\ cache' = api /\ queue' = Append(queue, <<cache, api>>)
      /\ api' = api /\ lives' = lives /\ changes' = changes /\ step' = step /\ pod' = pod
      /\ left' = left /\ asserted' = asserted /\ view' = view /\ behind' = behind
  BY DEF Deliver
<1>3. Len(queue) \in Nat /\ MaxQueue \in Nat
  BY HeldTyped, PodsAssumption
<1>4. /\ queue' \in Seq(PodStates \X PodStates) /\ Len(queue') = Len(queue) + 1
      /\ \A i \in 1..Len(queue) : queue'[i] = queue[i]
      /\ queue'[Len(queue) + 1] = <<cache, api>>
  BY <1>1, <1>2, AppendProperties DEF Types
<1>5. \A i \in 1..Len(queue') : i \in 1..Len(queue) \/ i = Len(queue) + 1
  BY <1>3, <1>4
<1>6. Types'
  <2>1. Len(queue') <= MaxQueue
    BY <1>2, <1>3, <1>4
  <2>2. KeySets' = KeySets
    BY <1>2 DEF KeySets
  <2> QED
    BY <1>1, <1>2, <1>4, <2>1, <2>2 DEF Types
<1>7. Older(cache, api) /\ WellFormed(api)
  BY <1>1 DEF PodsOk
<1>8. Linked'
  <2>1. ASSUME NEW i \in 1..Len(queue')
        PROVE  /\ queue'[i][2] = IF i = Len(queue') THEN cache' ELSE queue'[i + 1][1]
               /\ Older(queue'[i][1], queue'[i][2])
    <3>1. CASE i = Len(queue) + 1
      <4>1. queue'[i][1] = cache /\ queue'[i][2] = api /\ i = Len(queue')
        BY <1>4, <3>1
      <4> QED
        BY <1>2, <1>7, <4>1
    <3>2. CASE i \in 1..Len(queue)
      <4>1. /\ queue'[i] = queue[i]
            /\ queue[i][2] = IF i = Len(queue) THEN cache ELSE queue[i + 1][1]
            /\ Older(queue[i][1], queue[i][2])
        BY <1>1, <1>4, <3>2 DEF Linked
      <4>2. CASE i = Len(queue)
        BY <1>3, <1>4, <4>1, <4>2
      <4>3. CASE i # Len(queue)
        <5>1. i + 1 \in 1..Len(queue) /\ i # Len(queue')
          BY <1>3, <1>4, <3>2, <4>3
        <5> QED
          BY <1>4, <4>1, <4>3, <5>1
      <4> QED
        BY <4>2, <4>3
    <3> QED
      BY <1>5, <3>1, <3>2
  <2> QED
    BY <2>1 DEF Linked, Older, Exists
<1>9. Held' \subseteq Held \cup {api}
  <2>1. Held' = {cache'} \cup {queue'[i][1] : i \in 1..Len(queue')}
                \cup {queue'[i][2] : i \in 1..Len(queue')} \cup {pod[r] : r \in Runners}
    BY <1>2 DEF Held
  <2>2. \A i \in 1..Len(queue') : queue'[i][1] \in Held /\ queue'[i][2] \in Held \cup {api}
    <3> SUFFICES ASSUME NEW i \in 1..Len(queue')
                 PROVE  queue'[i][1] \in Held /\ queue'[i][2] \in Held \cup {api}
      OBVIOUS
    <3>1. CASE i \in 1..Len(queue)
      BY <1>4, <3>1, HeldTyped
    <3>2. CASE i = Len(queue) + 1
      BY <1>4, <3>2, HeldTyped
    <3> QED
      BY <1>5, <3>1, <3>2
  <2> QED
    BY <1>2, <2>1, <2>2, HeldTyped
<1>10. PodsOk'
  <2>1. ASSUME NEW p \in Held PROVE PodOk(p)'
    <3>1. WellFormed(p) /\ Older(p, cache) /\ (Exists(p) /\ p.uid = api.uid => p.uid = cache.uid)
      BY HeldTyped DEF PodOk
    <3>2. Older(p, api)
      <4> SUFFICES ASSUME Exists(p), p.uid = api.uid
                   PROVE  /\ DOMAIN p.spec \subseteq DOMAIN api.spec
                          /\ DOMAIN p.status \subseteq DOMAIN api.status
        BY DEF Older
      <4>1. p.uid = cache.uid /\ Exists(cache)
        BY <3>1 DEF Exists
      <4> QED
        BY <1>7, <3>1, <4>1 DEF Older
    <3> QED
      BY <1>2, <3>1, <3>2 DEF PodOk, WellFormed, Older, Exists
  <2>2. ASSUME NEW p, p = api PROVE PodOk(p)'
    BY <1>2, <1>7, <2>2 DEF PodOk, WellFormed, Older, Exists
  <2>3. WellFormed(api)' /\ Older(cache, api)'
    BY <1>2, <1>7 DEF WellFormed, Older, Exists
  <2>4. \A p \in Held' : PodOk(p)'
    BY <1>9, <2>1, <2>2
  <2> QED
    BY <1>1, <1>2, <2>3, <2>4 DEF PodsOk
<1>11. ViewOk'
  <2>1. ASSUME NEW s \in view PROVE RecordOk(s)'
    <3>1. RecordOk(s) /\ s.uid # 0
      <4>1. RecordOk(s) /\ s.uid \in 1..lives
        BY <1>1 DEF ViewOk, RecordOk
      <4>2. lives \in Nat
        BY <1>1, PodsAssumption DEF Types
      <4> QED
        BY <4>1, <4>2
    <3>2. s.uid = api.uid => s.name \in DOMAIN api.spec
      <4> SUFFICES ASSUME s.uid = api.uid PROVE s.name \in DOMAIN api.spec
        OBVIOUS
      <4>1. s.uid = cache.uid /\ s.name \in DOMAIN cache.spec /\ Exists(cache)
        BY <3>1 DEF RecordOk, Exists
      <4> QED
        BY <1>7, <4>1 DEF Older
    <3> QED
      BY <1>2, <3>1, <3>2 DEF RecordOk
  <2> QED
    BY <1>1, <1>2, <2>1 DEF ViewOk
<1>12. Tracks'
  <2> SUFFICES ASSUME NEW u \in Nat, NEW c \in Containers, <<u, c>> \notin behind
               PROVE  \E p \in Ahead' : Shown(u, c)' = Said(p, u, c)
    BY <1>2 DEF Tracks, Said, Rec, StatusImageID
  <2>1. PICK p \in Ahead : Shown(u, c) = Said(p, u, c)
    BY <1>1 DEF Tracks
  <2>2. p \in Ahead'
    <3>1. Ahead' = {cache'} \cup {queue'[i][1] : i \in 1..Len(queue')}
      BY DEF Ahead
    <3>2. CASE p = cache
      <4>1. Len(queue) + 1 \in 1..Len(queue') /\ queue'[Len(queue) + 1][1] = cache
        BY <1>3, <1>4
      <4> QED
        BY <3>1, <3>2, <4>1
    <3>3. ASSUME NEW i \in 1..Len(queue), p = queue[i][1] PROVE p \in Ahead'
      <4>1. i \in 1..Len(queue') /\ queue'[i][1] = p
        BY <1>3, <1>4, <3>3
      <4> QED
        BY <3>1, <4>1
    <3> QED
      BY <2>1, <3>2, <3>3 DEF Ahead
  <2>3. Shown(u, c)' = Shown(u, c)
    BY <1>2 DEF Shown
  <2> QED
    BY <2>1, <2>2, <2>3
<1> QED
  BY <1>6, <1>8, <1>10, <1>11, <1>12 DEF PInv

LEMMA HandleStep == PInv /\ Handle => PInv'
<1> SUFFICES ASSUME PInv, Handle PROVE PInv'
  OBVIOUS
<1> USE DEF podVars, snapVars
<1>1. Types /\ Linked /\ PodsOk /\ ViewOk /\ Tracks
  BY DEF PInv
<1>2. /\ queue # <<>> /\ queue' = Tail(queue)
      /\ api' = api /\ lives' = lives /\ changes' = changes /\ cache' = cache
      /\ step' = step /\ pod' = pod /\ left' = left
  BY DEF Handle
<1>3. /\ Len(queue) \in Nat \ {0} /\ queue' \in Seq(PodStates \X PodStates)
      /\ Len(queue') = Len(queue) - 1
      /\ \A i \in 1..Len(queue') : queue'[i] = queue[i + 1]
  <2>1. queue \in Seq(PodStates \X PodStates)
    BY <1>1 DEF Types
  <2> QED
    BY <1>2, <2>1, HeadTailProperties, EmptySeq
<1> DEFINE old == queue[1][1]
           new == queue[1][2]
<1>4. 1 \in 1..Len(queue) /\ Head(queue)[1] = old /\ Head(queue)[2] = new
  BY <1>3
<1>5. /\ old \in PodStates /\ new \in PodStates /\ old \in Held /\ new \in Held
      /\ WellFormed(old) /\ WellFormed(new) /\ Older(old, new)
      /\ new = IF Len(queue) = 1 THEN cache ELSE queue[2][1]
  <2>1. old \in Held /\ new \in Held
    BY <1>4, HeldTyped
  <2>2. /\ new = IF 1 = Len(queue) THEN cache ELSE queue[1 + 1][1]
        /\ Older(old, new)
    BY <1>1, <1>4 DEF Linked
  <2> QED
    BY <2>1, <2>2, HeldTyped DEF PodOk
<1>6. /\ Exists(new) => Show(Records(new, ToEmit(old, new)))
      /\ ~Exists(new) => EmitPodDelete(old)
      /\ behind' = Unsaid(old, new) \cup
                      (behind \ IF Exists(new) THEN Keys(new, ToEmit(old, new))
                                               ELSE Keys(old, DOMAIN old.spec))
  BY <1>4 DEF Handle, EmitPod
<1> HIDE DEF old, new
<1>7. \A i \in 1..Len(queue') : i + 1 \in 1..Len(queue)
  BY <1>3
<1>8. Unsaid(old, new) \in KeySets /\ behind' \in KeySets
  <2>1. DOMAIN new.spec \ ToEmit(old, new) \in SUBSET (DOMAIN new.spec)
        /\ DOMAIN old.spec \in SUBSET (DOMAIN old.spec)
    OBVIOUS
  <2>2. Unsaid(old, new) \in KeySets
    <3>1. Keys(old, DOMAIN old.spec) \in KeySets
      BY <1>5, <2>1, KeysTyped
    <3>2. Keys(new, DOMAIN new.spec \ ToEmit(old, new)) \in KeySets
      BY <1>5, <2>1, KeysTyped
    <3> QED
      BY <3>1, <3>2 DEF Unsaid, KeySets
  <2>3. behind \in KeySets
    BY <1>1 DEF Types
  <2> QED
    BY <1>6, <2>2, <2>3 DEF KeySets
<1>9. ViewOk' /\ asserted' \in [Runners -> KeySets]
  <2>1. CASE Exists(new)
    BY <1>2, <1>5, <1>6, <2>1, ToEmitOfNew, ShowStep
  <2>2. CASE ~Exists(new)
    <3>1. view' \subseteq view /\ asserted' = asserted
      BY <1>6, <2>2 DEF EmitPodDelete
    <3>2. \A s \in view : RecordOk(s)'
      BY <1>1, <1>2, <3>1 DEF ViewOk, RecordOk, Key
    <3> QED
      BY <1>1, <3>1, <3>2 DEF ViewOk, Types
  <2> QED
    BY <2>1, <2>2
<1>10. Types'
  <2>1. Len(queue') <= MaxQueue
    BY <1>1, <1>3, PodsAssumption DEF Types
  <2>2. KeySets' = KeySets
    BY <1>2 DEF KeySets
  <2> QED
    BY <1>1, <1>2, <1>3, <1>8, <1>9, <2>1, <2>2 DEF Types
<1>11. Linked'
  <2>1. ASSUME NEW i \in 1..Len(queue')
        PROVE  /\ queue'[i][2] = IF i = Len(queue') THEN cache ELSE queue'[i + 1][1]
               /\ Older(queue'[i][1], queue'[i][2])
    <3>1. /\ queue[i + 1][2] = IF i + 1 = Len(queue) THEN cache ELSE queue[i + 1 + 1][1]
          /\ Older(queue[i + 1][1], queue[i + 1][2])
      BY <1>1, <1>7 DEF Linked
    <3>2. queue'[i] = queue[i + 1]
      BY <1>3
    <3>3. CASE i = Len(queue')
      BY <1>3, <3>1, <3>2, <3>3
    <3>4. CASE i # Len(queue')
      <4>1. i + 1 \in 1..Len(queue') /\ i + 1 # Len(queue)
        BY <1>3, <3>4
      <4>2. queue'[i + 1] = queue[i + 1 + 1]
        BY <1>3, <4>1
      <4> QED
        BY <3>1, <3>2, <3>4, <4>1, <4>2
    <3> QED
      BY <3>3, <3>4
  <2> QED
    BY <1>2, <2>1 DEF Linked, Older, Exists
<1>12. PodsOk'
  <2>1. Held' \subseteq Held
    <3>1. Held' = {cache} \cup {queue'[i][1] : i \in 1..Len(queue')}
                \cup {queue'[i][2] : i \in 1..Len(queue')} \cup {pod[r] : r \in Runners}
      BY <1>2 DEF Held
    <3>2. \A i \in 1..Len(queue') : queue'[i][1] \in Held /\ queue'[i][2] \in Held
      BY <1>3, <1>7, HeldTyped
    <3> QED
      BY <3>1, <3>2, HeldTyped
  <2>2. \A p \in Held : PodOk(p)'
    BY <1>2, HeldTyped DEF PodOk, WellFormed, Older, Exists
  <2> QED
    BY <1>1, <1>2, <2>1, <2>2 DEF PodsOk, WellFormed, Older, Exists
<1>13. Tracks'
  <2> SUFFICES ASSUME NEW u \in Nat, NEW c \in Containers, <<u, c>> \notin behind'
               PROVE  \E p \in Ahead' : Shown(u, c)' = Said(p, u, c)
    BY <1>2 DEF Tracks, Said, Rec, StatusImageID
  <2>1. Ahead' = {cache} \cup {queue'[i][1] : i \in 1..Len(queue')}
    BY <1>2 DEF Ahead
  <2>2. new \in Ahead'
    <3>1. CASE Len(queue) = 1
      BY <1>5, <2>1, <3>1
    <3>2. CASE Len(queue) # 1
      <4>0. 1 \in 1..Len(queue')
        BY <1>3, <3>2
      <4>1. 1 \in 1..Len(queue') /\ queue'[1] = queue[1 + 1]
        BY <1>3, <4>0
      <4> QED
        BY <1>5, <2>1, <3>2, <4>1
    <3> QED
      BY <3>1, <3>2
  <2>3. \A p \in Ahead : p = old \/ p \in Ahead'
    <3> SUFFICES ASSUME NEW p \in Ahead PROVE p = old \/ p \in Ahead'
      OBVIOUS
    <3>1. CASE p = cache
      BY <2>1, <3>1
    <3>2. ASSUME NEW i \in 1..Len(queue), p = queue[i][1] PROVE p = old \/ p \in Ahead'
      <4>1. CASE i = 1
        BY <3>2, <4>1 DEF old
      <4>2. CASE i # 1
        <5>1. i - 1 \in 1..Len(queue') /\ (i - 1) + 1 = i
          BY <1>3, <4>2
        <5>2. queue'[i - 1] = queue[i]
          BY <1>3, <5>1
        <5> QED
          BY <2>1, <3>2, <5>1, <5>2
      <4> QED
        BY <4>1, <4>2
    <3> QED
      BY <3>1, <3>2 DEF Ahead
  <2>4. old.uid \in Nat /\ new.uid \in Nat /\ (Exists(old) \/ DOMAIN old.spec = {})
        /\ (Exists(new) \/ DOMAIN new.spec = {})
    BY <1>5, PodFields DEF WellFormed, Exists
  <2>5. <<u, c>> \notin Unsaid(old, new)
    BY <1>6
  <2>6. CASE Exists(new)
    <3>0. ToEmit(old, new) \in SUBSET (DOMAIN new.spec)
      BY ToEmitOfNew
    <3>1. Shown(u, c)' = IF u = new.uid /\ c \in ToEmit(old, new) THEN {Rec(new, c)}
                                                                   ELSE Shown(u, c)
      BY <1>6, <2>6, <3>0, ShownAfterShow
    <3>2. CASE u = new.uid /\ c \in ToEmit(old, new)
      <4>1. c \in DOMAIN new.spec
        BY <3>0, <3>2
      <4>2. Said(new, u, c) = {Rec(new, c)}
        BY <3>2, <4>1 DEF Said
      <4> QED
        BY <2>2, <3>1, <3>2, <4>2
    <3>3. CASE ~(u = new.uid /\ c \in ToEmit(old, new))
      <4>1. <<u, c>> \notin behind
        <5>1. <<u, c>> \notin Keys(new, ToEmit(old, new))
          BY <3>0, <3>3, RecordKeys
        <5> QED
          BY <1>6, <2>6, <5>1
      <4>2. PICK p \in Ahead : Shown(u, c) = Said(p, u, c)
        BY <1>1, <4>1 DEF Tracks
      <4>3. Said(old, u, c) = Said(new, u, c)
        <5>1. CASE Exists(old) /\ old.uid # new.uid
          <6>1. Unsaid(old, new) = Keys(old, DOMAIN old.spec)
                                      \cup Keys(new, DOMAIN new.spec \ ToEmit(old, new))
            BY <2>6, <5>1 DEF Unsaid
          <6>2. ~(u = old.uid /\ c \in DOMAIN old.spec)
            BY <2>5, <6>1, RecordKeys
          <6>3. ~(u = new.uid /\ c \in DOMAIN new.spec \ ToEmit(old, new))
            BY <2>5, <6>1, RecordKeys
          <6> QED
            BY <3>3, <6>2, <6>3 DEF Said
        <5>2. CASE Exists(old) => old.uid = new.uid
          BY <1>5, <2>4, <2>6, <3>3, <5>2, QuietIsUnchanged
        <5> QED
          BY <5>1, <5>2
      <4> QED
        BY <2>2, <2>3, <3>1, <3>3, <4>2, <4>3
    <3> QED
      BY <3>2, <3>3
  <2>7. CASE ~Exists(new)
    <3>1. Shown(u, c)' = IF u = old.uid /\ c \in DOMAIN old.spec THEN {} ELSE Shown(u, c)
      BY <1>6, <2>7, ShownAfterDelete
    <3>2. Said(new, u, c) = {}
      BY <2>4, <2>7 DEF Said
    <3>3. CASE u = old.uid /\ c \in DOMAIN old.spec
      BY <2>2, <3>1, <3>2, <3>3
    <3>4. CASE ~(u = old.uid /\ c \in DOMAIN old.spec)
      <4>1. Said(old, u, c) = {}
        BY <3>4 DEF Said
      <4>2. <<u, c>> \notin behind
        <5>1. <<u, c>> \notin Keys(old, DOMAIN old.spec)
          BY <3>4, RecordKeys
        <5> QED
          BY <1>6, <2>7, <5>1
      <4>3. PICK p \in Ahead : Shown(u, c) = Said(p, u, c)
        BY <1>1, <4>2 DEF Tracks
      <4> QED
        BY <2>2, <2>3, <3>1, <3>2, <3>4, <4>1, <4>3
    <3> QED
      BY <3>3, <3>4
  <2> QED
    BY <2>6, <2>7
<1> QED
  BY <1>9, <1>10, <1>11, <1>12, <1>13 DEF PInv

-----------------------------------------------------------------------------
(* Snapshots *)

\* What a step that leaves pods, notifications and records alone keeps.
LEMMA Unmoved ==
    ASSUME PInv, api' = api, cache' = cache, queue' = queue, lives' = lives,
           changes' = changes
    PROVE  /\ Linked' /\ KeySets' = KeySets /\ Ahead' = Ahead
           /\ WellFormed(api)' /\ Older(cache, api)' /\ \A p \in Held : PodOk(p)'
<1>1. Linked /\ WellFormed(api) /\ Older(cache, api) /\ \A p \in Held : PodOk(p)
  BY DEF PInv, PodsOk
<1>2. Linked'
  BY <1>1 DEF Linked, Older, Exists
<1>3. KeySets' = KeySets /\ Ahead' = Ahead
  BY DEF KeySets, Ahead
<1>4. WellFormed(api)' /\ Older(cache, api)'
  BY <1>1 DEF WellFormed, Older, Exists
<1>5. \A p \in Held : PodOk(p)'
  BY <1>1 DEF PodOk, WellFormed, Older, Exists
<1> QED
  BY <1>2, <1>3, <1>4, <1>5

LEMMA BeginStep == ASSUME PInv, NEW r \in Runners, Begin(r) PROVE PInv'
<1> USE DEF podVars, snapVars, spamVars
<1>1. Types /\ Linked /\ PodsOk /\ ViewOk /\ Tracks
  BY DEF PInv
<1>2. /\ step' = [step EXCEPT ![r] = "begun"]
      /\ api' = api /\ lives' = lives /\ changes' = changes /\ cache' = cache /\ queue' = queue
      /\ pod' = pod /\ left' = left /\ asserted' = asserted /\ view' = view /\ behind' = behind
  BY DEF Begin
<1>3. /\ Linked' /\ KeySets' = KeySets /\ Ahead' = Ahead
      /\ WellFormed(api)' /\ Older(cache, api)' /\ \A p \in Held : PodOk(p)'
  BY <1>2, Unmoved
<1>4. Types'
  BY <1>1, <1>2, <1>3 DEF Types
<1>5. PodsOk'
  <2>1. Held' = Held
    BY <1>2 DEF Held
  <2> QED
    BY <1>1, <1>2, <1>3, <2>1 DEF PodsOk
<1>6. ViewOk'
  <2>1. \A q \in Runners : step'[q] = "listed" => step[q] = "listed"
    BY <1>1, <1>2 DEF Types
  <2>2. \A s \in view : RecordOk(s)'
    BY <1>1, <1>2, <2>1 DEF ViewOk, RecordOk, Key
  <2> QED
    BY <1>1, <1>2, <2>2 DEF ViewOk
<1>7. Tracks'
  <2>1. \A u \in Nat, c \in Containers : Shown(u, c)' = Shown(u, c)
    BY <1>2 DEF Shown
  <2> QED
    BY <1>1, <1>2, <1>3, <2>1 DEF Tracks, Said, Rec, StatusImageID
<1> QED
  BY <1>3, <1>4, <1>5, <1>6, <1>7 DEF PInv

LEMMA ListStep == ASSUME PInv, NEW r \in Runners, List(r) PROVE PInv'
<1> USE DEF podVars, snapVars, spamVars
<1>1. Types /\ Linked /\ PodsOk /\ ViewOk /\ Tracks
  BY DEF PInv
<1> DEFINE ks == Keys(cache, DOMAIN cache.spec)
<1>2. /\ step' = [step EXCEPT ![r] = "listed"] /\ pod' = [pod EXCEPT ![r] = cache]
      /\ left' = [left EXCEPT ![r] = DOMAIN cache.spec]
      /\ asserted' = [asserted EXCEPT ![r] = asserted[r] \cup ks]
      /\ api' = api /\ lives' = lives /\ changes' = changes /\ cache' = cache /\ queue' = queue
      /\ view' = view /\ behind' = behind
  BY DEF List
<1>3. /\ Linked' /\ KeySets' = KeySets /\ Ahead' = Ahead
      /\ WellFormed(api)' /\ Older(cache, api)' /\ \A p \in Held : PodOk(p)'
  BY <1>2, Unmoved
<1>4. ks \in KeySets /\ (\A u, c : <<u, c>> \in ks <=> u = cache.uid /\ c \in DOMAIN cache.spec)
  BY HeldTyped, KeysTyped, RecordKeys
<1> HIDE DEF ks
<1>5. /\ step \in [Runners -> {"idle", "begun", "listed"}] /\ pod \in [Runners -> PodStates]
      /\ left \in [Runners -> SUBSET Containers] /\ asserted \in [Runners -> KeySets]
  BY <1>1 DEF Types
<1>6. Types'
  <2>1. DOMAIN cache.spec \in SUBSET Containers /\ cache \in PodStates
    BY <1>1, PodFields DEF Types
  <2>2. asserted[r] \cup ks \in KeySets
    BY <1>4, <1>5 DEF KeySets
  <2>3. /\ step' \in [Runners -> {"idle", "begun", "listed"}] /\ pod' \in [Runners -> PodStates]
        /\ left' \in [Runners -> SUBSET Containers] /\ asserted' \in [Runners -> KeySets]
    BY <1>2, <1>5, <2>1, <2>2
  <2> QED
    BY <1>1, <1>2, <1>3, <2>3 DEF Types
<1>7. PodsOk'
  <2>1. \A q \in Runners : pod'[q] = pod[q] \/ pod'[q] = cache
    BY <1>2, <1>5
  <2>2. Held' \subseteq Held
    BY <1>2, <2>1 DEF Held
  <2>3. \A q \in Runners : left'[q] \subseteq DOMAIN pod'[q].spec
    <3> SUFFICES ASSUME NEW q \in Runners PROVE left'[q] \subseteq DOMAIN pod'[q].spec
      OBVIOUS
    <3>1. CASE q = r
      BY <1>2, <1>5, <3>1
    <3>2. CASE q # r
      BY <1>1, <1>2, <1>5, <3>2 DEF PodsOk
    <3> QED
      BY <3>1, <3>2
  <2> QED
    BY <1>3, <2>2, <2>3 DEF PodsOk
<1>8. ViewOk'
  <2>1. ASSUME NEW s \in view PROVE RecordOk(s)'
    <3>1. RecordOk(s)
      BY <1>1 DEF ViewOk
    <3>2. ASSUME NEW q \in Runners, s.uid = cache.uid, step'[q] = "listed"
          PROVE  Key(s) \in asserted'[q]
      <4>1. CASE q = r
        <5>1. Key(s) \in ks
          BY <1>4, <3>1, <3>2 DEF Key, RecordOk
        <5> QED
          BY <1>2, <1>5, <4>1, <5>1
      <4>2. CASE q # r
        BY <1>2, <1>5, <3>1, <3>2, <4>2 DEF RecordOk
      <4> QED
        BY <4>1, <4>2
    <3> QED
      BY <1>2, <3>1, <3>2 DEF RecordOk, Key
  <2> QED
    BY <1>1, <1>2, <2>1 DEF ViewOk
<1>9. Tracks'
  <2>1. \A u \in Nat, c \in Containers : Shown(u, c)' = Shown(u, c)
    BY <1>2 DEF Shown
  <2> QED
    BY <1>1, <1>2, <1>3, <2>1 DEF Tracks, Said, Rec, StatusImageID
<1> QED
  BY <1>3, <1>6, <1>7, <1>8, <1>9 DEF PInv

LEMMA InitialStep == ASSUME PInv, NEW r \in Runners, EmitInitial(r) PROVE PInv'
<1> USE DEF podVars
<1>1. Types /\ Linked /\ PodsOk /\ ViewOk /\ Tracks
  BY DEF PInv
<1>2. PICK c \in left[r] :
         /\ Show(Records(pod[r], {c}))
         /\ left' = [left EXCEPT ![r] = left[r] \ {c}]
         /\ behind' = IF pod[r] \in Ahead THEN behind \ Keys(pod[r], {c})
                                         ELSE behind \cup Keys(pod[r], {c})
  BY DEF EmitInitial
<1>3. /\ api' = api /\ lives' = lives /\ changes' = changes /\ cache' = cache /\ queue' = queue
      /\ step' = step /\ pod' = pod
  BY DEF EmitInitial
<1>4. /\ Linked' /\ KeySets' = KeySets /\ Ahead' = Ahead
      /\ WellFormed(api)' /\ Older(cache, api)' /\ \A p \in Held : PodOk(p)'
  BY <1>3, Unmoved
<1> DEFINE p == pod[r]
<1>5. p \in Held /\ {c} \in SUBSET (DOMAIN p.spec) /\ p \in PodStates
  BY <1>1, <1>2, HeldTyped DEF PodsOk
<1>6. Keys(p, {c}) \in KeySets
      /\ (\A u, d : <<u, d>> \in Keys(p, {c}) <=> u = p.uid /\ d \in {c})
  BY <1>5, KeysTyped, RecordKeys
<1>7. ViewOk' /\ asserted' \in [Runners -> KeySets]
  BY <1>2, <1>3, <1>5, ShowStep
<1>8. Types'
  <2>1. behind' \in KeySets
    BY <1>1, <1>2, <1>6 DEF Types, KeySets
  <2>2. left' \in [Runners -> SUBSET Containers]
    BY <1>1, <1>2 DEF Types
  <2> QED
    BY <1>1, <1>3, <1>4, <1>7, <2>1, <2>2 DEF Types
<1>9. PodsOk'
  <2>1. Held' = Held
    BY <1>3 DEF Held
  <2>2. \A q \in Runners : left'[q] \subseteq left[q]
    BY <1>1, <1>2 DEF Types
  <2> QED
    BY <1>1, <1>3, <1>4, <2>1, <2>2 DEF PodsOk
<1>10. Tracks'
  <2> SUFFICES ASSUME NEW u \in Nat, NEW d \in Containers, <<u, d>> \notin behind'
               PROVE  \E q \in Ahead : Shown(u, d)' = Said(q, u, d)
    BY <1>4 DEF Tracks, Said, Rec, StatusImageID
  <2>1. Shown(u, d)' = IF u = p.uid /\ d \in {c} THEN {Rec(p, d)} ELSE Shown(u, d)
    BY <1>2, <1>5, ShownAfterShow
  <2>2. CASE u = p.uid /\ d = c
    <3>1. <<u, d>> \in Keys(p, {c}) /\ p \in Ahead
      BY <1>2, <1>6, <2>2
    <3>2. Said(p, u, d) = {Rec(p, d)}
      BY <1>5, <2>2 DEF Said
    <3> QED
      BY <2>1, <2>2, <3>1, <3>2
  <2>3. CASE ~(u = p.uid /\ d = c)
    <3>1. <<u, d>> \notin Keys(p, {c})
      BY <1>6, <2>3
    <3>2. <<u, d>> \notin behind
      BY <1>2, <3>1
    <3> QED
      BY <1>1, <2>1, <2>3, <3>2 DEF Tracks
  <2> QED
    BY <2>2, <2>3
<1> QED
  BY <1>4, <1>7, <1>8, <1>9, <1>10 DEF PInv

\* What a sweep removes is of a pod that the cache no longer holds.
LEMMA EndStep == ASSUME PInv, NEW r \in Runners, End(r) PROVE PInv'
<1> USE DEF podVars
<1>1. Types /\ Linked /\ PodsOk /\ ViewOk /\ Tracks
  BY DEF PInv
<1>2. /\ step[r] = "listed" /\ step' = [step EXCEPT ![r] = "idle"]
      /\ pod' = [pod EXCEPT ![r] = NoPod] /\ left[r] = {} /\ left' = left
      /\ asserted' = [asserted EXCEPT ![r] = {}]
      /\ view' = view \ Unasserted(r)
      /\ behind' = behind \ {Key(s) : s \in Unasserted(r)}
      /\ api' = api /\ lives' = lives /\ changes' = changes /\ cache' = cache /\ queue' = queue
  BY DEF End
<1>3. /\ Linked' /\ KeySets' = KeySets /\ Ahead' = Ahead
      /\ WellFormed(api)' /\ Older(cache, api)' /\ \A p \in Held : PodOk(p)'
  BY <1>2, Unmoved
<1>4. /\ step \in [Runners -> {"idle", "begun", "listed"}] /\ pod \in [Runners -> PodStates]
      /\ left \in [Runners -> SUBSET Containers] /\ asserted \in [Runners -> KeySets]
  BY <1>1 DEF Types
<1>5. Types'
  <2>1. {} \in KeySets /\ behind' \in KeySets
    BY <1>1, <1>2 DEF Types, KeySets
  <2>2. /\ step' \in [Runners -> {"idle", "begun", "listed"}] /\ pod' \in [Runners -> PodStates]
        /\ asserted' \in [Runners -> KeySets]
    BY <1>2, <1>4, <2>1, NoPodState
  <2> QED
    BY <1>1, <1>2, <1>3, <2>1, <2>2 DEF Types
<1>6. PodsOk'
  <2>1. \A q \in Runners : pod'[q] = pod[q] \/ pod'[q] = NoPod
    BY <1>2, <1>4
  <2>2. Held' \subseteq Held \cup {NoPod}
    BY <1>2, <2>1 DEF Held
  <2>3. ASSUME NEW p, p = NoPod PROVE PodOk(p)'
    <3>1. p.uid = 0 /\ ~Exists(p) /\ DOMAIN p.spec = {} /\ DOMAIN p.status = {} /\ 0 <= lives'
      BY <1>1, <1>2, <2>3, NoPodState, PodsAssumption DEF Types
    <3> QED
      BY <3>1 DEF PodOk, WellFormed, Older, Exists
  <2>4. \A q \in Runners : left'[q] \subseteq DOMAIN pod'[q].spec
    <3> SUFFICES ASSUME NEW q \in Runners PROVE left'[q] \subseteq DOMAIN pod'[q].spec
      OBVIOUS
    <3>1. CASE q = r
      BY <1>2, <3>1
    <3>2. CASE q # r
      BY <1>1, <1>2, <1>4, <3>2 DEF PodsOk
    <3> QED
      BY <3>1, <3>2
  <2> QED
    BY <1>3, <2>2, <2>3, <2>4 DEF PodsOk
<1>7. ViewOk'
  <2>1. ASSUME NEW s \in view PROVE RecordOk(s)'
    <3>1. \A q \in Runners : step'[q] = "listed" => step[q] = "listed" /\ asserted'[q] = asserted[q]
      BY <1>2, <1>4
    <3>2. RecordOk(s)
      BY <1>1 DEF ViewOk
    <3> QED
      BY <1>2, <3>1, <3>2 DEF RecordOk, Key
  <2> QED
    BY <1>1, <1>2, <2>1 DEF ViewOk
<1>8. Tracks'
  <2> SUFFICES ASSUME NEW u \in Nat, NEW c \in Containers, <<u, c>> \notin behind'
               PROVE  \E p \in Ahead : Shown(u, c)' = Said(p, u, c)
    BY <1>3 DEF Tracks, Said, Rec, StatusImageID
  <2>1. Shown(u, c)' = {s \in Shown(u, c) : s \notin Unasserted(r)}
    BY <1>2 DEF Shown
  <2>2. CASE \E s \in Shown(u, c) : s \in Unasserted(r)
    <3>1. PICK s \in view : s.uid = u /\ s.name = c /\ s \in Unasserted(r)
      BY <2>2 DEF Shown
    <3>2. u # cache.uid
      BY <1>1, <1>2, <3>1 DEF Unasserted, ViewOk, RecordOk
    <3>3. \A t \in Shown(u, c) : t = s
      BY <1>1, <3>1 DEF Shown, ViewOk
    <3>4. Shown(u, c)' = {}
      BY <2>1, <3>1, <3>3
    <3>5. Said(cache, u, c) = {}
      BY <3>2 DEF Said
    <3> QED
      BY <3>4, <3>5 DEF Ahead
  <2>3. CASE \A s \in Shown(u, c) : s \notin Unasserted(r)
    <3>1. \A s \in Unasserted(r) : Key(s) # <<u, c>>
      BY <2>3 DEF Unasserted, Shown, Key
    <3>2. <<u, c>> \notin behind
      BY <1>2, <3>1
    <3>3. Shown(u, c)' = Shown(u, c)
      BY <2>1, <2>3
    <3> QED
      BY <1>1, <3>2, <3>3 DEF Tracks
  <2> QED
    BY <2>2, <2>3
<1> QED
  BY <1>3, <1>5, <1>6, <1>7, <1>8 DEF PInv

-----------------------------------------------------------------------------
(* Theorems *)

\* The strengthened invariant is an invariant.
THEOREM Inductive == Spec => []PInv
<1>1. Init => PInv
  BY InitPInv
<1>2. PInv /\ [Next]_vars => PInv'
  <2> SUFFICES ASSUME PInv, [Next]_vars PROVE PInv'
    OBVIOUS
  <2>1. CASE UNCHANGED vars
    <3>1. /\ api' = api /\ lives' = lives /\ changes' = changes /\ cache' = cache
          /\ queue' = queue /\ step' = step /\ pod' = pod /\ left' = left
          /\ asserted' = asserted /\ view' = view /\ behind' = behind
      BY <2>1 DEF vars, podVars, snapVars, spamVars
    <3>2. /\ Linked' /\ KeySets' = KeySets /\ Ahead' = Ahead
          /\ WellFormed(api)' /\ Older(cache, api)' /\ \A p \in Held : PodOk(p)'
      BY <3>1, Unmoved
    <3>3. Types'
      BY <3>1, <3>2 DEF PInv, Types
    <3>4. PodsOk'
      <4>1. Held' = Held
        BY <3>1 DEF Held
      <4> QED
        BY <3>1, <3>2, <4>1 DEF PInv, PodsOk
    <3>5. ViewOk'
      BY <3>1 DEF PInv, ViewOk, RecordOk, Key
    <3>6. Tracks'
      <4>1. \A u \in Nat, c \in Containers : Shown(u, c)' = Shown(u, c)
        BY <3>1 DEF Shown
      <4> QED
        BY <3>1, <3>2, <4>1 DEF PInv, Tracks, Said, Rec, StatusImageID
    <3> QED
      BY <3>2, <3>3, <3>4, <3>5, <3>6 DEF PInv
  <2>2. CASE Next
    BY <2>2, ClusterStep, DeliverStep, HandleStep, BeginStep, ListStep, InitialStep, EndStep DEF Next
  <2> QED
    BY <2>1, <2>2
<1> QED
  BY <1>1, <1>2, PTL DEF Spec

\* SPAM never shows two records for one container (pod_uid/container_name), and none of a
\* pod that was not created.
THEOREM TypeCorrect == Spec => []TypeOK
<1>1. PInv => TypeOK
  <2> SUFFICES ASSUME PInv PROVE TypeOK
    OBVIOUS
  <2>1. Types /\ PodsOk /\ ViewOk
    BY DEF PInv
  <2>2. lives \in Nat /\ api.uid \in 0..lives /\ cache.uid \in 0..lives
    <3>1. WellFormed(api) /\ WellFormed(cache)
      BY <2>1, HeldTyped DEF PodsOk, PodOk
    <3> QED
      BY <2>1, <3>1, PodFields, PodsAssumption DEF Types, WellFormed
  <2>3. \A s \in view : /\ s.uid \in 1..lives /\ s.name \in Containers
                        /\ s.image \in References /\ s.id \in KubeletIDs \cup {NoID}
                        /\ s.phase \in 1..Len(Phases)
    BY <2>1 DEF ViewOk, RecordOk
  <2> QED
    BY <2>1, <2>2, <2>3 DEF TypeOK, Types, ViewOk, KeySets
<1> QED
  BY <1>1, Inductive, PTL

\* No UPDATE that EmitPod suppresses and no SNAPSHOT_END makes SPAM lag: once the handler has
\* caught up, SPAM shows the cached pod, container by container, and nothing of a deleted
\* one, whatever states the informer skipped and however the lines of any number of snapshots
\* fall between the handler's (pod.go:13-27, 158-223); but for the containers whose last line
\* was overtaken, or left unsaid when a relist replaced the UID.
THEOREM CaughtUpIsCurrent == Spec => []ViewIsCurrent
<1>1. PInv => ViewIsCurrent
  <2> SUFFICES ASSUME PInv, queue = <<>>
               PROVE  {s \in view : Key(s) \notin behind} =
                      {s \in Records(cache, DOMAIN cache.spec) : Key(s) \notin behind}
    BY DEF ViewIsCurrent
  <2>1. Types /\ ViewOk /\ Tracks
    BY DEF PInv
  <2>2. Ahead = {cache}
    <3>1. 1..Len(queue) = {}
      BY EmptySeq
    <3> QED
      BY <3>1 DEF Ahead
  <2>3. \A u \in Nat, c \in Containers :
           <<u, c>> \notin behind => Shown(u, c) = Said(cache, u, c)
    BY <2>1, <2>2 DEF Tracks
  <2>4. Records(cache, DOMAIN cache.spec) = {Rec(cache, c) : c \in DOMAIN cache.spec}
    BY RecordsAre
  <2>5. ASSUME NEW s \in view, Key(s) \notin behind PROVE s \in Records(cache, DOMAIN cache.spec)
    <3>1. s.uid \in Nat /\ s.name \in Containers
      BY <2>1, PodsAssumption DEF ViewOk, RecordOk, Types
    <3>2. s \in Shown(s.uid, s.name)
      BY DEF Shown
    <3>3. s \in Said(cache, s.uid, s.name)
      BY <2>3, <2>5, <3>1, <3>2 DEF Key
    <3> QED
      BY <2>4, <3>3 DEF Said
  <2>6. ASSUME NEW c \in DOMAIN cache.spec, Key(Rec(cache, c)) \notin behind
        PROVE  Rec(cache, c) \in view
    <3>1. cache.uid \in Nat /\ c \in Containers
      BY <2>1, PodFields DEF Types
    <3>2. Rec(cache, c) \in Said(cache, cache.uid, c) /\ Key(Rec(cache, c)) = <<cache.uid, c>>
      BY RecFields DEF Said, Key
    <3>3. Rec(cache, c) \in Shown(cache.uid, c)
      BY <2>3, <2>6, <3>1, <3>2
    <3> QED
      BY <3>3 DEF Shown
  <2> QED
    BY <2>4, <2>5, <2>6
<1> QED
  BY <1>1, Inductive, PTL

-----------------------------------------------------------------------------
(* What the records say of the images *)

\* Every record says what SplitImage and SplitImageName make of its image and its id.
Described ==
    \A r \in view : r.says = Describe(Written(r.image), r.id.prefix \o Written(r.id.of))

LEMMA RecordsDescribe ==
    ASSUME NEW p, NEW cs, NEW r \in Records(p, cs)
    PROVE  r.says = Describe(Written(r.image), r.id.prefix \o Written(r.id.of))
BY DEF Records

LEMMA DescribedStep == Described /\ [Next]_vars => Described'
<1> SUFFICES ASSUME Described, [Next]_vars PROVE Described'
  OBVIOUS
<1>1. CASE view' = view
  BY <1>1 DEF Described
<1>2. ASSUME NEW p, NEW cs, view' \subseteq view \cup Records(p, cs) PROVE Described'
  BY <1>2, RecordsDescribe DEF Described
<1>3. ASSUME NEW p, NEW cs, Show(Records(p, cs)) PROVE Described'
  <2>1. view' \subseteq view \cup Records(p, cs)
    BY <1>3 DEF Show
  <2> QED
    BY <1>2, <2>1
<1>4. CASE Handle
  <2> DEFINE old == Head(queue)[1]
             new == Head(queue)[2]
  <2>1. IF Exists(new) THEN EmitPod(old, new) ELSE EmitPodDelete(old)
    BY <1>4 DEF Handle
  <2> HIDE DEF old, new
  <2>2. CASE Exists(new)
    <3>1. Show(Records(new, ToEmit(old, new)))
      BY <2>1, <2>2 DEF EmitPod
    <3> QED
      BY <1>3, <3>1
  <2>3. CASE ~Exists(new)
    <3>1. view' \subseteq view
      BY <2>1, <2>3 DEF EmitPodDelete
    <3> QED
      BY <3>1 DEF Described
  <2> QED
    BY <2>2, <2>3
<1>5. ASSUME NEW r \in Runners, EmitInitial(r) PROVE Described'
  <2>1. PICK c \in left[r] : Show(Records(pod[r], {c}))
    BY <1>5 DEF EmitInitial
  <2> QED
    BY <1>3, <2>1
<1>6. ASSUME NEW r \in Runners, End(r) PROVE Described'
  <2>1. view' \subseteq view
    BY <1>6 DEF End
  <2> QED
    BY <2>1 DEF Described
<1>7. CASE ~Handle /\ ~\E r \in Runners : EmitInitial(r) \/ End(r)
  <2>1. view' = view
    BY <1>7 DEF Next, vars, podVars, snapVars, spamVars, Create, Delete, Advance, SetImage,
                ReportStatus, Changed, Deliver, Begin, List
  <2> QED
    BY <1>1, <2>1
<1> QED
  BY <1>4, <1>5, <1>6, <1>7

\* A record whose id is not one of another image, or whose registry the code sees, says what
\* the reference says.
LEMMA RightlyDescribed ==
    ASSUME NEW r \in References, NEW id \in KubeletIDs \cup {NoID},
           id \in ReportedFor(r) \cup {NoID} \/ ~Dotless(r)
    PROVE  Describe(Written(r), id.prefix \o Written(id.of)) = Says(r, id.of)
<1>1. CASE id = NoID
  BY <1>1, DescribesUnresolved DEF NoID
<1>2. CASE id # NoID
  <2>1. PICK i \in References : id \in ReportedFor(i) /\ (Dotless(r) => i = r)
    BY <1>2 DEF KubeletIDs
  <2>2. PICK prefix \in {<<>>, <<"docker-pullable://">>}, d \in ContentDigests :
           id = [prefix |-> prefix, of |-> Pulled(i, d)]
    BY <2>1 DEF ReportedFor
  <2>3. r.registry # <<>> /\ r.digest = <<>> /\ ~Contains(r.registry \o r.path, ".")
           => Pulled(i, d) = Pulled(r, d)
    BY <2>1 DEF Dotless
  <2>4. Describe(Written(r), prefix \o Written(Pulled(i, d))) = Says(r, Pulled(i, d))
    BY <2>3, DescribesResolved
  <2> QED
    BY <2>2, <2>4
<1> QED
  BY <1>1, <1>2

\* Splitting inverts writing: every record says of its image what the reference says, and
\* of what that leaves out what was resolved, whatever ports, dots, slashes, tags and
\* digests the image is written with (image.go:7-70), but for the registry without a dot
\* while the status is still the previous image's.
THEOREM ImagesDescribed == Spec => []DescribesTheImage
<1>1. Init => Described
  BY DEF Init, Described
<1>2. Described /\ [Next]_vars => Described'
  BY DescribedStep
<1>3. PInv /\ Described => DescribesTheImage
  <2> SUFFICES ASSUME PInv, Described, NEW r \in view, ~(Lagging(r) /\ Dotless(r.image))
               PROVE  r.says = Says(r.image, r.id.of)
    BY DEF DescribesTheImage
  <2>1. r.image \in References /\ r.id \in KubeletIDs \cup {NoID}
    BY DEF PInv, ViewOk, RecordOk
  <2>2. r.id \in ReportedFor(r.image) \cup {NoID} \/ ~Dotless(r.image)
    BY DEF Lagging
  <2>3. r.says = Describe(Written(r.image), r.id.prefix \o Written(r.id.of))
    BY DEF Described
  <2> QED
    BY <2>1, <2>2, <2>3, RightlyDescribed
<1> QED
  BY <1>1, <1>2, <1>3, Inductive, PTL DEF Spec
===============================================================================
