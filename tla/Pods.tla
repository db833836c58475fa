-------------------------------- MODULE Pods --------------------------------
(***************************************************************************)
(* From pods to container records (pod.go): what an ADD, UPDATE or DELETE   *)
(* notification of one pod name emits after the image diff, what snapshots  *)
(* emit line by line beside the handler, and what SPAM then shows for the   *)
(* pod's containers.  The API server, the informer and SPAM are external.   *)
(* A name may be used again by a pod with a new UID; a notification carries *)
(* the object cached before and the one cached now, and a relist may skip   *)
(* any number of states, the deletion included.                             *)
(***************************************************************************)
EXTENDS Images, FiniteSets

CONSTANTS
    Containers,     \* names of the containers a pod may have (unique in a pod)
    ListOf,         \* [Containers -> {"init", "main", "ephemeral"}]
    Images,         \* references a PodSpec may name
    Runners,        \* goroutines that may run EmitFullSnapshot
    ImageIDs,       \* image ids the kubelet may report: [prefix, of], a prefix and a reference
    \* bounds of the model
    MaxLives,       \* UIDs the pod name goes through
    MaxChanges,     \* changes of the pod in the API server
    MaxQueue        \* notifications waiting for the handler

Lists == {"init", "main", "ephemeral"}
Fixed == {c \in Containers : ListOf[c] # "ephemeral"}     \* only ephemeral ones come later
Phases == <<"Pending", "Running", "Succeeded">>
NoID == [prefix |-> <<>>, of |-> NoImage]                 \* ImageID == ""

\* What the kubelet may report for an image.
ReportedFor(image) == {[prefix |-> p, of |-> Pulled(image, d)] :
                          p \in {<<>>, <<"docker-pullable://">>}, d \in ContentDigests}
KubeletIDs == UNION {ReportedFor(i) : i \in References}

ASSUME PodsAssumption ==
    /\ IsFiniteSet(Containers) /\ ListOf \in [Containers -> Lists]
    /\ ImageIDs \subseteq KubeletIDs /\ Images \subseteq References
    /\ MaxLives \in Nat \ {0} /\ MaxChanges \in Nat /\ MaxQueue \in Nat \ {0}

VARIABLES
    api,        \* the pod in the API server: [uid, phase, spec, status]; uid 0: none
    cache,      \* the pod in the informer's cache
    queue,      \* notifications the handler has not seen: <<old, new>>
    step,       \* per runner: "idle", "begun" (SNAPSHOT_BEGIN is out) or "listed"
    pod,        \* per runner, the pod it listed
    left,       \* per runner, containers of it whose INITIAL is not written yet
    asserted,   \* SPAM: per runner, keys of its SNAPSHOT line and of records since its BEGIN
    view,       \* SPAM: the current record of every container it shows
    behind,     \* history: keys whose last line was overtaken, or was never written
    lives,      \* UIDs given out
    changes     \* changes so far

podVars == <<api, lives, changes>>
snapVars == <<step, pod, left>>
spamVars == <<asserted, view, behind>>
vars == <<podVars, cache, queue, snapVars, spamVars>>

None == <<>>
NoPod == [uid |-> 0, phase |-> 1, spec |-> None, status |-> None]
Exists(p) == p.uid # 0

\* A pod that was there before the process, with any image, and that stays as it is.
Residents ==
    UNION {{[uid |-> 1, phase |-> 2, spec |-> [c \in Fixed |-> image],
             status |-> [c \in Fixed |-> id]] : id \in ReportedFor(image) \cup {NoID}}
           : image \in References}

Init ==
    /\ \/ api = NoPod /\ lives = 0 /\ changes = 0
       \/ api \in Residents /\ lives = MaxLives /\ changes = MaxChanges
    /\ cache = NoPod /\ queue = <<>> /\ view = {} /\ behind = {}
    /\ step = [r \in Runners |-> "idle"] /\ pod = [r \in Runners |-> NoPod]
    /\ left = [r \in Runners |-> {}] /\ asserted = [r \in Runners |-> {}]

-----------------------------------------------------------------------------
(* The pod in the API server *)

Changed(p) ==
    /\ api' = p /\ changes < MaxChanges /\ changes' = changes + 1
    /\ UNCHANGED <<cache, queue, snapVars, spamVars>>

Create(image) ==
    /\ ~Exists(api) /\ lives < MaxLives
    /\ Changed([uid |-> lives + 1, phase |-> 1, spec |-> [c \in Fixed |-> image],
                status |-> None])
    /\ lives' = lives + 1

Delete == Exists(api) /\ Changed(NoPod) /\ UNCHANGED lives

Advance ==
    /\ Exists(api) /\ api.phase < Len(Phases)
    /\ Changed([api EXCEPT !.phase = @ + 1])
    /\ UNCHANGED lives

\* An image changed in place, or an ephemeral container added.
SetImage(c, image) ==
    /\ Exists(api)
    /\ c \in DOMAIN api.spec => api.spec[c] # image
    /\ Changed([api EXCEPT !.spec = [d \in DOMAIN @ \cup {c} |-> IF d = c THEN image ELSE @[d]]])
    /\ UNCHANGED lives

\* The kubelet reports a status for every container of the spec.
ReportStatus ==
    /\ Exists(api)
    /\ \E ids \in [DOMAIN api.spec -> ImageIDs \cup {NoID}] :
          ids # api.status /\ Changed([api EXCEPT !.status = ids])
    /\ UNCHANGED lives

-----------------------------------------------------------------------------
(* Emission *)

\* Variant for the mutation runs: the image stands for an id not reported yet.
StatusOrImage(p, c) ==
    IF c \in DOMAIN p.status THEN p.status[c] ELSE [NoID EXCEPT !.of = p.spec[c]]

\* statusImageID.
StatusImageID(p, c) == IF c \in DOMAIN p.status THEN p.status[c] ELSE NoID

Reported(p, list) == {c \in DOMAIN p.status : ListOf[c] = list}

\* sameImageIDs, for one of the three lists of statuses.
SameImageIDs(a, b, list) ==
    /\ Cardinality(Reported(a, list)) = Cardinality(Reported(b, list))
    /\ \A c \in Reported(a, list) : a.status[c] = StatusImageID(b, c)

\* Variant for the mutation runs: the phase is not part of the signature.
SameImagesOnly(a, b) == a.spec = b.spec /\ \A list \in Lists : SameImageIDs(a, b, list)

\* SamePodImages: phase, names and images list by list, ids.
SamePodImages(a, b) ==
    a.phase = b.phase /\ a.spec = b.spec /\ \A list \in Lists : SameImageIDs(a, b, list)

\* collectContainers: image and id of every container of the spec.
Refs(p) == [c \in DOMAIN p.spec |-> [image |-> p.spec[c], id |-> StatusImageID(p, c)]]

\* The records of some containers of a pod.
Records(p, cs) ==
    {LET ref == Refs(p)[c]
     IN  [uid |-> p.uid, name |-> c, phase |-> p.phase, image |-> ref.image, id |-> ref.id,
          says |-> Describe(Written(ref.image), ref.id.prefix \o Written(ref.id.of))] : c \in cs}
Emitted(rs) == {r \in view : \E s \in rs : s.uid = r.uid /\ s.name = r.name}

\* The key of a record (pod_uid/container_name), and those of a pod's containers.
Key(r) == <<r.uid, r.name>>
Keys(p, cs) == {<<p.uid, c>> : c \in cs}

\* Lines of some containers: SPAM replaces their records and counts them towards every
\* snapshot being written.
Show(rs) ==
    /\ view' = (view \ Emitted(rs)) \cup rs
    /\ asserted' = [r \in Runners |-> IF step[r] = "idle" THEN {}
                                       ELSE asserted[r] \cup {Key(s) : s \in rs}]

\* The containers EmitPod logs a line for: all of a pod that is new or in a new phase,
\* else those whose image or id differs from the old object's.
ToEmit(old, new) ==
    IF Exists(old) /\ SamePodImages(old, new) THEN {}
    ELSE IF ~Exists(old) \/ old.phase # new.phase THEN DOMAIN new.spec
    ELSE {c \in DOMAIN new.spec : c \in DOMAIN old.spec => Refs(old)[c] # Refs(new)[c]}

EmitPod(old, new) == Show(Records(new, ToEmit(old, new)))

EmitPodDelete(p) == view' = view \ Emitted(Records(p, DOMAIN p.spec)) /\ UNCHANGED asserted

-----------------------------------------------------------------------------
(* The informer and the handler *)

\* A watch event or a relist: the cache takes the current object, then the handler of this
\* name is notified: ADD, DELETE, or UPDATE whenever the name was and still is there.
Deliver ==
    /\ cache # api /\ Len(queue) < MaxQueue
    /\ cache' = api
    /\ queue' = Append(queue, <<cache, api>>)
    /\ UNCHANGED <<podVars, snapVars, spamVars>>

\* What onUpdate leaves unsaid when a relist replaced the pod by one with a new UID: that the
\* old one is gone, and what the two have in common.
Unsaid(old, new) ==
    IF Exists(old) /\ Exists(new) /\ old.uid # new.uid
    THEN Keys(old, DOMAIN old.spec) \cup Keys(new, DOMAIN new.spec \ ToEmit(old, new)) ELSE {}

Handle ==
    /\ queue # <<>>
    /\ queue' = Tail(queue)
    /\ LET old == Head(queue)[1]
           new == Head(queue)[2]
       IN  /\ IF Exists(new) THEN EmitPod(old, new) ELSE EmitPodDelete(old)
           /\ behind' = Unsaid(old, new) \cup
                  (behind \ IF Exists(new) THEN Keys(new, ToEmit(old, new))
                                           ELSE Keys(old, DOMAIN old.spec))
    /\ UNCHANGED <<podVars, cache, snapVars>>

-----------------------------------------------------------------------------
(* EmitFullSnapshot, as run by r; pods come first *)

\* SNAPSHOT_BEGIN.
Begin(r) ==
    /\ step[r] = "idle"
    /\ step' = [step EXCEPT ![r] = "begun"]
    /\ UNCHANGED <<podVars, cache, queue, pod, left, spamVars>>

\* Lister().List: the pod as it is now; the SNAPSHOT line's keys come from this list too.
List(r) ==
    /\ step[r] = "begun"
    /\ step' = [step EXCEPT ![r] = "listed"]
    /\ pod' = [pod EXCEPT ![r] = cache]
    /\ left' = [left EXCEPT ![r] = DOMAIN cache.spec]
    /\ asserted' = [asserted EXCEPT ![r] = @ \cup Keys(cache, DOMAIN cache.spec)]
    /\ UNCHANGED <<podVars, cache, queue, view, behind>>

\* The cached state, and the states whose replacement the handler has still to see.
Ahead == {cache} \cup {queue[i][1] : i \in 1..Len(queue)}

\* INITIAL for a listed container, whatever the handler emitted meanwhile: the line is
\* overtaken when it has already handled the notification that replaced the listed pod.
EmitInitial(r) ==
    /\ \E c \in left[r] :
          /\ Show(Records(pod[r], {c}))
          /\ left' = [left EXCEPT ![r] = @ \ {c}]
          /\ behind' = IF pod[r] \in Ahead THEN behind \ Keys(pod[r], {c})
                                          ELSE behind \cup Keys(pod[r], {c})
    /\ UNCHANGED <<podVars, cache, queue, step, pod>>

\* What SPAM drops when it receives the SNAPSHOT_END of r.
Unasserted(r) == {s \in view : Key(s) \notin asserted[r]}

\* The SNAPSHOT line and, after those of the other kinds, SNAPSHOT_END.
End(r) ==
    /\ step[r] = "listed" /\ left[r] = {}
    /\ step' = [step EXCEPT ![r] = "idle"]
    /\ pod' = [pod EXCEPT ![r] = NoPod]
    /\ asserted' = [asserted EXCEPT ![r] = {}]
    /\ view' = view \ Unasserted(r)
    /\ behind' = behind \ {Key(s) : s \in Unasserted(r)}
    /\ UNCHANGED <<podVars, cache, queue, left>>

Next ==
    \/ \E image \in Images : Create(image)
    \/ Delete
    \/ Advance
    \/ \E c \in Containers, image \in Images : SetImage(c, image)
    \/ ReportStatus
    \/ Deliver
    \/ Handle
    \/ \E r \in Runners : Begin(r) \/ List(r) \/ EmitInitial(r) \/ End(r)

Spec == Init /\ [][Next]_vars

-----------------------------------------------------------------------------
(* Properties *)

\* At most one record per container (pod_uid/container_name), of a pod that was created.
TypeOK ==
    /\ \A r \in view : /\ r.uid \in 1..lives /\ r.name \in Containers
                       /\ r.image \in References
                       /\ r.id \in KubeletIDs \cup {NoID}
                       /\ r.phase \in 1..Len(Phases)
    /\ \A r, s \in view : r.uid = s.uid /\ r.name = s.name => r = s
    /\ {api.uid, cache.uid} \subseteq 0..lives /\ lives \in 0..MaxLives
    /\ changes \in 0..MaxChanges /\ Len(queue) <= MaxQueue
    /\ step \in [Runners -> {"idle", "begun", "listed"}]
    /\ left \in [Runners -> SUBSET Containers]
    /\ asserted \in [Runners -> SUBSET ((1..lives) \X Containers)]
    /\ behind \subseteq (1..lives) \X Containers

\* Unchanged containers are suppressed (pod.go:160-180), yet no suppressed UPDATE and no sweep
\* makes SPAM lag: once the handler has caught up, SPAM shows the cached pod's phase, images
\* and ids, container by container, and nothing of a deleted pod, whatever states the
\* informer skipped and however the lines of snapshots fall between the handler's.
\* (Excepted, container by container and until its next line: an INITIAL read before an
\* UPDATE or DELETE and written after it; and a relist that replaced one UID by another,
\* which onUpdate does not tell from a tick of the same pod.)
ViewIsCurrent ==
    queue = <<>> => {r \in view : Key(r) \notin behind} =
                    {r \in Records(cache, DOMAIN cache.spec) : Key(r) \notin behind}

\* The status names what was resolved for the image before a change in place, and the image
\* has a registry that image.go:22 does not see: it looks for a dot.
Lagging(r) == r.id \notin ReportedFor(r.image) \cup {NoID}
Dotless(i) == i.registry # <<>> /\ i.digest = <<>> /\ ~Contains(i.registry \o i.path, ".")

\* Splitting inverts writing: registry, image, tag and digest of every record are those of
\* the reference the pod names, whatever ports, dots and slashes it is written with, and
\* what it leaves out is the resolved image's (image.go).  (Excepted: after a change in
\* place to localhost/app, say, the other image's repository until the kubelet reports.)
DescribesTheImage ==
    \A r \in view : ~(Lagging(r) /\ Dotless(r.image)) => r.says = Says(r.image, r.id.of)
=============================================================================
