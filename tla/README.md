# SCAM in TLA+

Specifications, model-checking configurations and proofs for SCAM, the agent that watches
a Kubernetes cluster and pushes inventory records to SPAM (`cmd/scam`,
`internal/collector`).  Source paths below are relative to `src/`; `push.go`, `pod.go` and
the like stand for `internal/collector/push.go` and so on.

    tlc -workers 2 -config PushSafety.cfg MCPushLoop.tla      # any run of the table below
    tlapm PushLoopProofs.tla                                  # the proofs

## 1. The system

### Components, their state and operations

| component | code | state | operations |
|---|---|---|---|
| event ids | `eventid.go` | one atomic counter, 0 at every start | `NextEventID` |
| line capture | `push.go:30-75` | `buf`, a slice under `mu`, at most `maxBufferSize` lines | `Write`, `Flush`, `Rebuffer` |
| push loop | `push.go:77-265` | `backoff`, `lastPushedEventID`, `lastSnapshotAt`, the round in flight, a ticker of capacity 1 | `PushLoop`, `pushAll`, `push`, `scanMaxEventID`, `NextBackoff` |
| heartbeat | `push.go:241-364` | `consecutiveFailures`, `lastErrorLog`, `firstTick`, a timer | `HeartbeatLoop`, `nextHeartbeatBackoff` |
| informer handlers | `informer.go`, `main.go:157-282` | the caches and notification queues of client-go; the `synced` flag | `OnEvents`, `extractDeleted` |
| backend refresh | `refs.go` | none: reads the caches through the global `Refs` | `IngressBackends`, `RouteBackends`, `RefreshBackendServices` |
| snapshots | `snapshot.go`, `informer.go:63-73` | per run: snapshot id, kind, list, keys | `EmitFullSnapshot`, `Emit*Snapshot`, `SnapshotLoop` |
| pod records | `pod.go` | none: compares the old and the new object | `EmitPod`, `SamePodImages`, `EmitPodDelete`, `EmitContainerSnapshot` |
| ROR identity | `rorself.go`, `main.go:81-128`, `logattrs.go` | `current`, a timer, the attributes stamped on records | `fetchRorIdentity`, `rorIdentityLoop` |
| bootstrap | `main.go` | the signal context, the goroutines started, the informers chosen | start-up order, `WaitForCacheSync`, shutdown |
| discovery | `gatewayapi.go:20-67`, `traefik.go:20-66` | `best` and `rank`, for the life of the process in what is watched | `DiscoverGatewayAPI`, `DiscoverTraefik` |
| cache transforms | `transform.go` | what the caches keep | `Trim*` |
| record builders | `service.go`, `ingress.go`, `gatewayapi.go`, `traefik.go`, ... | none | `Emit*`, `TraefikBackends`, `ExtractTraefikHosts`, the kind tables |
| image references | `image.go` | none | `SplitImage`, `SplitImageName` |

### How they interact

The API server feeds client-go, which changes an informer's cache first and then notifies
its handler, one goroutine per kind.  Handlers, `SnapshotLoop`, the heartbeat and `main` all
write through `collector.Log`, whose output goes to stdout and to `LineCapture`.  The record's
`event_id` is drawn while the arguments of the log call are evaluated, before the slog
handler's lock and before `LineCapture.mu`.  `PushLoop` takes the whole buffer at a tick, posts
it in batches, and puts back what was not ACKed.  SPAM answers with the highest `event_id` it
holds; when that differs from `lastPushedEventID`, PushLoop itself runs `EmitFullSnapshot` and
so becomes a logger of the lines it will push.

`main` looks up the identity (ROR, then kube-system), starts `rorIdentityLoop` and
`HeartbeatLoop`, discovers the optional resources, builds an informer with a transform for each
resource it will watch, waits for all caches, opens the gate, emits the initial snapshot and only
then starts PushLoop.  It returns on SIGTERM without waiting for anyone.

### What is hard

* Concurrency: ids and lines are not handed out in the same order; lines are captured while a
  round is in flight; handlers read one informer's cache from another informer's goroutine; two
  snapshots and the live stream interleave without a lock.
* Failure: a response may be lost after SPAM persisted the batch; a batch in the middle may
  fail; a 200 may carry no id; one hop of the ROR lookup may fail.
* Bounds: the buffer drops its oldest lines, also while it is being drained.
* Restarts: every counter restarts at 0 while SPAM's does not; deletions that happened while no
  process ran are known to SPAM alone.
* Time: ticks that queue up, cooldown, backoff, refresh cadences, a cache sync that never ends.
* Agreement of parts written apart: what a transform drops and what a record reads, the kind in an
  UPDATE and the one in a DELETE, the Services refreshed and those named in a record, a version
  chosen by one process and by the next.

`PROJECT.json` lists each hazard at its line, with the properties aimed at it.

### What makes each part correct

* Line capture and push loop: of the lines a process captured, the newest `maxBufferSize` are
  ACKed, in flight or buffered; ACKs follow the order of capture and nothing ACKed is sent
  again; nothing is stranded; no reconcile fires while nothing is wrong.
* Handlers and snapshots: no live object is missed; a snapshot tombstones only dead objects;
  what died while no process ran is swept; the view converges to the cache.
* Pods: a suppressed UPDATE or a sweep never leaves SPAM behind the cache; a record describes the
  image its pod names.
* Discovery: the version watched is the best that answered, whatever failed and in whatever order.
* Inventory as a whole: once the agent streams, SPAM shows what the API server holds, complete and
  under the right kind, also after a restart that watches something else, but for what a line
  overtaken by a newer one or a relist left behind; and it does come to stream.
* ROR identity: whole or absent, never lost once there, and it arrives without a restart.
* Heartbeat: an outage stays visible in the log while the pings back off; the session is kept
  alive however long the caches take.

## 2. The modules

| module | models | composes with |
|---|---|---|
| `LineCapture` | `Write` and `Rebuffer` as operators on sequences (Flush is "take all, leave none") | extended by `PushLoop` |
| `PushLoop` | loggers, event ids, the buffer, PushLoop with its select, SPAM's answers, start, signal, exit, crash, restart | implements `Outbox` |
| `Outbox` | abstract: a bounded outbox that delivers oldest first, never twice, and gives up a line only when `Capacity` newer ones came, when closing, or when the process ends | |
| `Collector` | caches, notification queues, the gate, handlers, EXPOSURE refresh, `EmitFullSnapshot` in several goroutines, SPAM's view | its stream is what `PushLoop` transports |
| `Images` | `SplitImage`, `SplitImageName` over tokens, and a reference definition of what an image reference says | extended by `Pods` |
| `Pods` | one pod name through several UIDs, the image diff of `EmitPod`, deletes, relists, container snapshots line by line beside the handler, and pods with any image reference | refines what `Collector` calls a record, for pods |
| `RorIdentity` | boot lookup, refresh loop, the two hops with ROR changing in between, the stamped attributes | extended by `Agent` |
| `Heartbeat` | timer, backoff, what is logged | extended by `Agent` |
| `Agent` | main's phases around the two loops, `cluster_id`, the wait for the caches, the signal, one clock for both timers | composes `RorIdentity` and `Heartbeat` |
| `Discovery` | the probes of both discovery loops, their ranks and failures, the API server's versions | extended by `Inventory` |
| `Records` | what a transform removes and a record reads, kinds, pod owners, backends, Traefik hosts, as operators on objects | extended by `Inventory` |
| `Inventory` | discovery, cache sync, gate, handlers, refreshes and snapshots line by line, relists and restarts over every watched resource, with SPAM's view | composes `Discovery` and `Records`; `Collector` splits its notifications and LISTs further |
| `PushLoopProofs`, `CollectorProofs`, `PodsProofs`, `ImagesProofs`, `AgentProofs`, `DiscoveryProofs`, `InventoryProofs` | the theorems (section 4) | each extends the module it is named after; `PodsProofs` extends `ImagesProofs`, `InventoryProofs` extends `DiscoveryProofs`, `PushLoopProofs` covers `LineCapture` and `AgentProofs` covers `Heartbeat` |
| `DataLemmas` | no code: lemmas on intervals, functions defined by recursion and flattened sequences | extended by `AgentProofs`, `ImagesProofs`, `InventoryProofs` |
| `MC*` | instances for TLC (symmetry, constants that are functions) | |

### State and actions of PushLoop against the code

A line is its position in `captured`, which keeps its `event_id` (0: a log line without one).
`buf` is `LineCapture.buf`; `round` and `sent` are `records` and the progress of `pushAll`;
`backoff`, `lastPushed`, `lastSeen`, `sinceSnapshot` are PushLoop's variables, counted in push
intervals; `tick` is the one slot of `ticker.C`; `pc` is where PushLoop is.  `TakeID` and
`WriteLine` split a log call at the point where other goroutines may get in between;
`LogOperational` is a log line without an id.  `Tick` is `case <-ticker.C` up to the start of
`pushAll`; each answer of SPAM is one `BatchAcked`, `RoundFailed` or `FinalReturn`; `RoundDone`
is the code after `pushAll` returned true, with the "ACK mismatch" line it logs and the start
of the triggered snapshot; `SnapshotDone` resets the cooldown.  `doomed` remembers that the
request in flight was built with a context already cancelled, so SPAM cannot answer it.
`Gone` is the loss of everything in memory, taken by `Exit`, `AbortSync` and `Crash`; `Boot` is
the Deployment's next process (`replicas: 1`, `Recreate`).  `stored`, `flawed`, `acked` describe
SPAM and its answers; `born`, `boots`, `streak`, `healthy` are history for the properties.

### The other modules

`Collector`: an object is a UID whose states only move forward (`0`, `1..MaxVersion`, deleted).
`WatchEvent` is client-go: cache, then queue.  A cache is keyed by name, so a relist that finds an
object of another UID under a name (`Relist`) is one `onUpdate(old, new)`, and nobody says that the
old UID is gone; the pods' handler may say nothing at all (`quiet` remembers those pods until a
record shows them).  `Handle` is one `OnEvents` callback with the
record it emits; `Lookup` and `EmitExposure` are the two halves of one turn of
`RefreshBackendServices`, between which the Service may change.  Where its loop stands is `todo`: the
object whose targets it walks and the position of the next one (`Target`), while `Seen` are the
targets before it.  A snapshot is `Begin`, then
`List`, `EmitInitial` for each listed object and `EmitKeys` for each kind, then `End`; `OpenGate`
and `Reconcile` start one.  SPAM applies records in stream order; at SNAPSHOT_END it tombstones
what is in no key list and has no record since the matching SNAPSHOT_BEGIN (the contract of
`.docs/plan.md:216-219`, where BEGIN and END are still called `reconcile_begin` and the end of the
replay).

`Pods`: phase, image per container, reported ids.  `Deliver` moves the cache to the present
state of the API server, skipping any number of states, and queues `<<old, new>>`; `Handle` is
the handler; `ToEmit` is the diff with its fast path.  A snapshot is `Begin`, `List`, one
`EmitInitial` per container of the pod as it was listed, and `End`, between which the handler runs.
`behind` has the containers whose last line was overtaken (an INITIAL of a pod whose replacement the
handler had already written) or never written (`Unsaid`: a relist replaced the UID); their next line
or sweep takes them out.  Statuses are complete for the spec they
were reported for, as the kubelet writes them; they may lag behind the spec.

`Images`: a string is a sequence of tokens, the separators and words between them, so that the
code's searches for `/`, `:`, `@` and `.` are searches in the sequence (`Tokens` is the set of them).  `Written` puts a reference
together from its parts and `Pulled` is what a runtime resolves it to; `Says` states, on the parts,
what a record should say of it.  `Pods` starts either from an empty name or from a resident pod
with any reference of `References`.  An image changed in place leaves the status, and so the id, of the
image before: `Lagging` records are those, and `DescribesTheImage` excepts the `Dotless` among them.

`RorIdentity`: one lookup is `ReadKey`, `SelfLookup`, `ClusterLookup`; `Settle` is what main (at
boot) or `rorIdentityLoop` does with the result.  `Unset` is the empty string, which the provers
need as a constant; the runs give it the value `""`.  `Heartbeat`: `PingFails`/`PingSucceeds` are one
turn of the loop.  `Agent`: `main` walks through `ror`, `id`, `sync`, `stream`, `exit`; `Hop` is a step
of a lookup, by main or by the loop; `Identify` is `main.go:91-155`; `Tick` advances both timers;
before `signal.NotifyContext` a signal ends the process, afterwards it ends the loops (`LoopsStop`)
and main (`Exit`).  A lookup does not take `ctx` and can still succeed afterwards, a ping cannot.

`Discovery`: `Probe` is one turn of either loop.  Gateway API versions come in any order, as a Go
map yields them, Traefik's in the order of the two nested loops; an error and an absent group
are both an empty answer.  `served` is the API server's and may change at any point.

`Records`: an object has a resource, an API group, a uid, a namespace and a name, and those parts that
code takes apart: the default backend and the rules of an Ingress or a route, match calls with
backticked or quoted arguments, owner references.  Everything else it says is one number, `rev`.  `Trims` and `Reads` are sets of field
names, taken from the transforms and from the Emit functions; `Trim` empties the parts a transform
removes, and a record carries the fields that survive.

`Inventory`: `main` is `discover`, `sync`, `snapshot` or `stream`.  `List` is the LIST of informers.
`Upsert` and `Drop` are a notification with its handler's own line, that is one step: `Collector` and
`Pods` have queues.  `Upsert` finds the cached object by name: under the same uid it is an update, under
another one the relist of `informer.go:27-36`, which leaves the old uid at SPAM.  The refresh that
follows is `LookUp` and `EmitExposure`, a snapshot is `Begin`, `ListCached`, `EmitInitial` and `End`, and
all of these interleave, for main, `SnapshotLoop` and PushLoop alike.  `Write` is a line of a state read
before: when the cache has moved on the key is `behind`, as in `Pods`.  Kinds are listed in `Batches`; the
code has one per kind, the run groups them.  `Restart` starts a process from nothing while SPAM keeps its
view; `ChangeCRD` is an API server that starts or stops serving a version.  What SPAM does with kinds for
which an envelope has no SNAPSHOT line is not known from this repository, so both are possible.

## 3. The runs

| run | question | bounds | result |
|---|---|---|---|
| `push_safety` | do buffering, batching, failure, reconcile, shutdown and crash lose, repeat or reorder lines, and does the path implement `Outbox`? | 2 loggers, buffer 2, batch 1, snapshot of 2 lines, 3 lines, 1 flawed ACK, 1 process; 725 000 states | holds |
| `push_liveness` | is any line stranded, and do the guarantees survive a restart? | 1 logger, 2 lines, 2 processes; 104 000 states | holds |
| `push_backoff` | does the wait grow when pushes keep failing? | as above | no, finding 1 |
| `push_drift` | does a reconcile mean that SPAM lacks something? | 2 loggers, buffer 3 | no, finding 2 |
| `push_exit` | does main wait for the last flush? | 1 logger | no, finding 3 |
| `collector_main` | is anything missed at start-up, are lingerers swept, does the view converge? | a Service and an Ingress that names it twice, or a pod and one that takes its name; 2 states each, 1 periodic snapshotter; 953 000 states | holds |
| `collector_overlap` | do overlapping snapshots tombstone the living? | Service and Ingress, 1 state each, 2 snapshotters; 4.0 million states | holds |
| `collector_stale` | is SPAM current once everything was handled? | 2 states, initial snapshot only | no, finding 4 |
| `pods` | does the UPDATE diff or a sweep ever leave SPAM behind, and do records describe the image? | 2 containers, 2 images, 2 ids, 2 UIDs, 4 changes, 2 pending notifications, 1 snapshotter; residents with 270 references; 415 000 states | holds |
| `agent` | is the identity whole, kept, and does it arrive; does an outage stay visible, do waits never shrink, is the session kept alive? | 3 changes of ROR or Secret, refresh below the retry interval, ping interval 1, cap 3, reminder 6; 158 000 states | holds |
| `ror_transient` | does a failed lookup keep the identity? | interval above the retry interval | no, finding 5 |
| `inventory` | is the best version watched, does SPAM show the cluster, do backends and hosts agree, does the agent come to stream? | 5 group-versions that may come and go, 6 object states, 2 snapshot runners; 1 change around a restart, or 3 changes with everything discovered; 1376 resident clusters over all 15 resources; 425 000 states | holds |

Why the bounds are enough.  A buffer of two lines overflows with three; with a round of two in
flight and batches of one there is a first, a last and a failed batch, and a reconcile snapshot
writes two lines plus the mismatch line into that same buffer, so overflow meets a round in
flight, a partial success and a put-back tail in one behaviour.  Two loggers are what it takes
for ids to be written out of order.  Two processes are what a stale SPAM id needs.  In
`Collector` one Service and one Ingress give every pair of goroutines that shares an object:
the Service's own handler, the Ingress handler that re-emits it, and the snapshotters; two states
tell an old record from a new one, and one state suffices where only life and death matter
(`collector_overlap`); a pod and one of its name give the relist that replaces a UID.  Instances start
from one of these sets (`Clusters`).  In `Pods` four changes cover create, report, change, phase, and
create, delete, create, report around a relist, with a snapshot listed before any of them and written
after; an ephemeral container makes the lists of spec and status
differ in length; the references combine a missing, dotted, ported and localhost registry, paths
with none, one and two slashes and dots, with and without tag and digest; the two images a
PodSpec changes between have a registry without a dot and one with, and the reported ids are of a bare
image and of the first, so a status may name the image before.  In `agent` an interval
below the retry interval exercises `min`, three failures reach the cap and four pass it.  In
`inventory` two versions of the Gateway API group, two of the newer Traefik group, at one rank, and
one of the legacy group give every comparison of ranks; a process that starts from nothing meets one
change on either side of any step and of a restart (`FromNothing`); one that has found everything
(`AllFound`) meets three, enough to update an object, delete it and create another of its name while a
snapshot and a refresh of it are being written;
residents have up to two backends, calls, arguments and owners, so that every list has a first, a
last and a repeated element.
`CHECK_DEADLOCK FALSE` is given where the bounds, or a process that has ended, really stop the
model.

### Fairness

`PushLoop!FairSpec`: weak fairness of the clock, of PushLoop's own steps, of SPAM answering (the
30 s client timeout ends every request one way or the other), and of finishing a log call once
begun: the Go scheduler and `net/http` give these.  Strong fairness of a persisted and well-formed
ACK says that SPAM is not unreachable for ever; without it no agent delivers anything.  Nothing
is assumed about new lines, signals, crashes or restarts.  `Collector!FairSpec`: goroutines run,
the initial LISTs arrive, the snapshot timer fires (`SNAPSHOT_INTERVAL` not `0`); `Converges`
speaks of behaviours whose cluster stops changing, which the bound on states brings about.
`Agent!FairSpec`: main and both loops run, time passes, and each ROR hop, attempted for ever,
sometimes succeeds; nothing is assumed of the caches, of kube-system's Get or of a ping's outcome, so
`SessionAlive` and `BindingArrives` hold while the caches never sync.  `Inventory!FairSpec`: the
agent's own steps (discovery, LISTs, main's snapshot) are taken, and a LIST that can succeed is retried until it does; `Starts`
supposes only that versions being watched can eventually be read for good.

## 4. What is proved

Each theorem holds for every value of the constants that satisfies the named assumptions of its
module, which TLC evaluates on every run.  Each proof module states an inductive invariant and shows
that `Init` implies it, that every action keeps it, one lemma per part or per kind of step, and that
it implies the property.  The larger invariants were checked by TLC on the instances of section 3 first.

| module | theorem | shows |
|---|---|---|
| `PushLoopProofs` | `TypeCorrect`, `NeverLost`, `InOrder` | `TypeOK`, `NewestNeverLost`, `AckedBeforePending` |
| | `Implements` | `KeepsPromise`: every step of `PushLoop` is a step of `Outbox` or a stutter |
| | `NoNeedlessReconcile` | `QuietWhenHealthy` |
| `CollectorProofs` | `TypeCorrect`, `NoneMissed`, `PastSwept`, `DeadOnly` | `TypeOK`, `NothingMissed`, `LingerersSwept`, `TombstonesOnlyTheDead` |
| `PodsProofs` | `TypeCorrect`, `CaughtUpIsCurrent`, `ImagesDescribed` | `TypeOK`, `ViewIsCurrent`, `DescribesTheImage` |
| `AgentProofs` | `OutageVisible`, `WaitsGrow`, `NeverBelowCap` | `OutageStaysVisible`, `WaitNeverShrinks`, and what a wait above the cap is cut down to |
| | `RunsIdentity`, `RunsHeartbeat` | the process runs each loop as specified alone |
| | `MetadataWhole`, `BindingKept`, `AgentOutageVisible`, `AgentWaitsGrow`, `TypeCorrect` | `MetadataComplete`, `BindingNeverLost`, `OutageStaysVisible`, `WaitNeverShrinks`, `TypeOK`, of the process |
| `DiscoveryProofs` | `NewestIsChosen` | `NewestAnswered`, of the two loops |
| `InventoryProofs` | `TypeCorrect`, `Mirrored`, `ClusterShown`, `NewestWatched` | `TypeOK`, the invariant behind the others, `ShowsTheCluster`, `NewestAnswered`, of the whole agent |
| | `GraphShared`, `HostsTold` | `GraphAgrees`, `HostsListed` |

### The delivery path

The constants are positive numbers and PushLoop is not one of the other loggers
(`BufferAssumption`, `PushAssumption`).  Neither guarantee is inductive: they speak of sets of pending
lines, while the reason they hold is where those lines lie.  `IInv` is `TypeOK`, `Control` (which
values of `pc`, `main`, `round`, `sent` and the held id go together) and `Runs`: the buffer is a run
of consecutive lines that ends with the newest one; the round in flight is another run, ending at
some line `hi`; the two are adjacent unless the buffer is full; all ACKed lines lie before the
unsent ones, and every line of this process before that point which is still among the newest
`MaxBufferSize` is ACKed.  The end `hi` is an existential: a capture keeps it, a flush moves it to
the newest line, a batch moves only the boundary inside the round, and a failed round, whose tail
goes back in front, moves it to just before the new buffer.  The gap between round and buffer is
what makes `Rebuffer` delicate: when the buffer has overflowed meanwhile, the tail is dropped
whole (`RebufferRun`, with `NewestProperties`, `WriteRun` and
`RebufferProperties` for the buffer's operations).  `PendingIsTwoRuns` turns runs back into sets.

`Implements` maps each action to `Outbox` with `Pending` for its contents.  A capture is `Accept`
(`CaptureAccepts`), a batch `Deliver` of a stretch of the oldest (`AckDelivers`), a failed round
gives up only lines that `Capacity` newer ones displaced (`FailureDisplaces`), the end of the final
flush is `Abandon`, the end of the process `Perish`; a flush moves lines between buffer and round and
changes nothing outside (`FlushKeepsPending`).

`NoNeedlessReconcile` compares two maxima: of the ids SPAM stores and of those this process has
pushed.  `Agreement` says what links them in the middle of a round: while nothing failed, SPAM's
highest id is the larger of `lastPushed` and the highest id ACKed in this round.  That a maximum
exists at all is a fact about finite sets that would be shown by induction; instead `Topped` (every
stretch of captured lines has a highest id) is a part of the invariant: each capture adds one line
to what had one.

### Handlers and snapshots

From `CollectorAssumption` (every object has a kind that snapshots dump, backends are objects), for
any number of objects, kinds, snapshotters and queued notifications.  What SPAM shows is right only
at certain points; `IInv` says which step makes up for it at the others.  `Announced`: behind the open
gate, a live object that SPAM does not show is in the queue of its kind, or main's snapshot has it in
hand or has still to list its kind, or it is one of the `quiet` pods.  `Covered`: an object SPAM shows
that a running snapshot neither listed nor saw asserted is gone, or its kind is still to be listed, so the sweep at the end takes only the dead.  `Sources`: no
record is of an object that the cache never held, in the queues, between the two halves of an
EXPOSURE, or in what a snapshot listed; without it a late record would revive what died while no
process ran (`PastIsOver`).

### Pods

From `PodsAssumption`, which has the containers of a pod form a finite set, for any number of
snapshotters.  When the handler lags, SPAM shows a mixture: INITIAL lines carry a container as some
snapshot listed it, the handler's as an older notification had it.  `Tracks` says of what: of each container
that is not `behind`, SPAM shows what one of the states `Ahead` says, from the one the handler saw last to
the cache.  An INITIAL whose pod is one of those keeps it; one whose pod the handler has already replaced
puts its container `behind`.  `Linked` (each notification starts where the one before ended; within one
uid containers and statuses are only added) makes the handler's diff sound: where `SamePodImages` or the
diff suppresses a record, the two states say the same (`QuietIsUnchanged`), so no state ahead is left
behind, unless a relist replaced the uid (`Unsaid`).  `RecordOk` adds that a record of the cached pod
counts towards every snapshot that has listed the pods, so no sweep takes it.  When the queue is empty
only the cache is ahead, which is `ViewIsCurrent`.

### Image references

From `ImagesAssumption`, the grammar: a component, a tag or a digest has none of the separators that set
it off, a registry looks like a host, and docker.io is one of them.  `ImagesProofs` starts from the
positions of a token (`FirstPosition`, `LastPosition`) and of two joined strings.  `Separated` says that
a separator which is not in what follows (or precedes) it is found by the search from the end (or the
start) and cuts the string into the parts it was put between; `Trailing`, that what is added behind
without a slash does not move the last one.  From these each search of the code finds what was written:
the colon behind the last slash is the tag's and not a port's (`ColonOfTheTag`), the last `@` the
digest's, the first slash a registry's, and an id's prefix is taken off once (`Unprefixed`).
`OwnPartsAreTheReference`, `NameOfTheRepository` and `IdParts` put that together for `SplitImage`,
`SplitImageName` and the kubelet's ids, and `DescribesUnresolved` and `DescribesResolved` are the two
cases of `Says`.  `Described` carries them to the records of `Pods`.

One case has to be excepted: an image whose registry has no dot, as in `localhost/app`, takes its
repository from the id (`image.go:22` looks for a slash and a dot), and after a change in place that id
is of another image (`Lagging` and `Dotless`).  `RightlyDescribed` shows that nothing else is wrong: with
an id of the image itself, or with a registry the code sees, both sides agree.

### Identity, heartbeat and the process

`IInv` of the heartbeat ties the running wait to the failures (`armed = Backoff(failures)`) and says
that the age of the latest ERROR plus what is left of the wait stays below the reminder and one wait.
`Wait` is a recursive function; its equation and its bounds are shown by a finite induction obtained
from the pigeonhole lemma of the library (`ReachesEnd`, `FiniteInduction`).  `WaitsGrow` needs
`PingInterval <= MaxWait`, because the code does: with `HEARTBEAT_INTERVAL` above 15 minutes the second
failure shortens the wait (section 5).  `NeverBelowCap` says without the hypothesis that this is all
that happens.

`AgentProofs` shows that each step of the process is a step of `RorIdentity` or a stutter, and the same
for `Heartbeat`, so what is proved of a loop alone holds of the process.  `RorInv` adds that the stamped
attributes are those of the current identity, and that between the hops the UID of the first is known.

### Discovery

`NewestIsChosen` is `DiscoverySpec => []NewestAnswered`, for every set of
group-versions, ranks and resources that satisfies `DiscoveryAssumption` (Gateway versions have
distinct ranks, Traefik's are listed once, the two loops want different resources).  A probe
compares with the version kept and not with all that answered, and at equal rank keeps the earlier;
so the invariant adds that what answered was probed, of the loop that wants the resource, and that
everything probed had its turn before everything pending.  `ProbePreserves` is the step;
`Comparable` derives from ranks and turns that the version kept precedes the new one whenever the
code does not replace it.

`NewestWatched` carries the result to `Inventory`: each step of the agent is one of `Discovery` or a
stutter, and a behaviour that starts with everything found starts in a state in which the invariant
holds (`FoundFirst`).

### The inventory as a whole

From `DiscoveryAssumption` and `InventoryAssumption`, for any versions, objects, batches, snapshotters,
changes and restarts.  The assumptions say what an object is in this model: it has the resources main asks
for, a uid keeps its name, `rev` tells its states apart, and of the parts the model takes apart an object
has only those that some code reads of its resource (`Shaped`; the rest is in `rev`).  They also leave
pods and ReplicaSets as they are, which is a limit of the result and not of the proof: what a pod's UPDATE
emits is the subject of `Pods`, and ReplicaSets have no handler (`main.go` watches them for `PodOwner`
only), so a change of a ReplicaSet's owner emits no pod until the next snapshot.

`MInv` joins four arguments.  `NothingTrimmed` compares, resource by resource, what the transforms
remove with what is read, so the cache holds whole objects (`CachedWhole`).  `KindsAgree` and
`KindsDiffer` say that DELETE and SNAPSHOT lines name the kind of the records, and that no two resources
share one, so a sweep or a DELETE never touches another resource.  `Covered` says that what is cached of
the kinds a snapshot has listed is asserted in it, listed or announced since, so its sweep takes nothing
that is cached.  `Mirrors` is the invariant proper: what SPAM shows of a key that was `Reached` (main's
snapshot has dealt with it, or the agent streams) and is not `behind` is the record of the cached object
of that key, and of a key that is behind at least a record of this process.  While the initial snapshot is
written, what an earlier process left is still shown under the keys not reached; its END sweeps them.  For
the owners of pods all need that the ReplicaSets were listed (`Owners`), which the wait for the caches
gives.  A record's line keeps `MInv` when its object is cached and puts its key behind when not
(`WriteKeeps`), which serves INITIAL and EXPOSURE alike; `UpsertStep` and `DropStep` are the handlers,
`ListCachedStep` and `EndStep` the snapshot.

`GraphAgrees` and `HostsListed` speak of records before the agent streams too, and of keys that are
behind, to which `Mirrors` says little.  `Truthful` does: every record tells the state of some object that
is or was there (`TruthOf`), because a uid and a `rev` name one state.  It is kept by every step
(`TruthStep`), so a record that shows the state of a cached object is the one that object yields now
(`TruthTold`).  For `GraphShared` what is left is that the two ways to name Services, each with its own
default of kind and namespace, agree for one object (`JoinsTargets`), resource by resource.

For `HostsTold` what one object yields is a fact about sequences: what one call yields (`FoundTexts`), that
flattening keeps the elements and only those (`FlattenedElements`), and that `Once` keeps each element of
the list once (`OnceProperties`).  The last two are defined by recursion over a position and shown by the
finite induction of `DataLemmas`: `RecursionExists` gives the function its equation and
`IntervalInduction` the property at every position.

### Only model-checked

All liveness (`EveryLineSettles`, `Converges`, `BindingArrives`, `SessionAlive`, `Starts`), which is out of
the prover's reach, as is ENABLED.  Every other property of a passing run is a theorem.

## 5. Findings

1. `BackoffGrows`: a tick sets `backoff` to 0 before it pushes, so a failure always computes
   `NextBackoff(0)`: the wait never doubles and `maxBackoff` is unreachable.
2. `ReconcileOnlyOnDrift`: batches ACKed before a failed one never reach `lastPushedEventID`; the
   next round then looks like drift and fires a whole snapshot.
3. `ExitAfterFlush`: `main` returns while the final flush has not begun or is in flight.
4. `SettledIsCurrent`: a snapshot line or EXPOSURE read before an UPDATE or DELETE can be written
   after it, and stays SPAM's last word until the next snapshot.
5. `FailureKeepsIdentity`: when only the second hop fails, the degraded identity replaces the
   complete one.

Seen while modelling, and not runs: an ADD of an object of the initial LIST may still be queued
when the gate opens and is then emitted, so the snapshot is not "the only initial signal"
(`.docs/architecture.md:86-89`); with `HEARTBEAT_INTERVAL` above 15 minutes the first wait exceeds
`maxHeartbeatBackoff` and the second failure shortens it.

Where the documents and the code disagree, and the model follows the code:

* `.docs/architecture.md:47-61` and `.docs/records.md:84-85` say that the agent drops ClusterIP Services no
  Ingress or route refers to.  It emits every Service, live and in snapshots, and `service.go:17-19` says so.
  `NothingMissed`, `Converges` and `ShowsTheCluster` contain these Services; the mutant `ListReferenced` of
  `collector_overlap` is the documented filter applied to the snapshot alone, and tombstones living Services.
* `.docs/architecture.md:24-26` and `.docs/spam.md:511` say that EndpointSlices are not watched.
  `main.go:182-187` watches and emits them, and `ShowsTheCluster` contains them.
* `.docs/records.md:77-78` says that a pod's UPDATE emits only containers whose `image_spec` or `image_id`
  changed.  A change of phase emits all of them again (`pod.go:165-172`), on which `ViewIsCurrent` rests for
  the phase SPAM shows: the mutant `SameImagesOnly`, which goes by the images alone, breaks it.
* `.docs/records.md:65-66` says that `registry` is empty when the spec was a bare name.  Once the kubelet
  has reported an id, the repository of a bare name without a digest is taken from that id, its registry
  included (`image.go:18-27`); `Says` in `DescribesTheImage` has it so.
* `.docs/records.md:62` calls `owner` the direct controllerRef, while `PodOwner` resolves Deployments; of a
  ReplicaSet missing from the cache when a pod is emitted its own name is left as owner.
* `.docs/records.md:250` says that host patterns are kept as they are, while one with a closing
  parenthesis is lost with those behind it (`traefik.go:17`).
* `.docs/records.md:222` has the kind of a route's backend default to "Service": the record leaves it
  out; `.docs/records.md:244` shows Traefik backends with lower-case keys and a port: `BackendTarget`
  (`collector.go`) has neither.

And of the code alone:

* A relist that finds an object of another UID under a name is an `onUpdate(old, new)`
  (`informer.go:27-36`): no DELETE of the old UID is emitted, and SPAM shows both until the next snapshot.
  Of a pod with the same images and phase the new UID is not announced either (`pod.go:160`).
  `ViewIsCurrent`, `NothingMissed` and `ShowsTheCluster` except it (`behind`, `quiet`); `Converges` shows that
  the periodic snapshot heals it.
* Finding 4 is excepted in the same way: `ViewIsCurrent` and `ShowsTheCluster` say nothing of a key whose last
  line carried a state already replaced, until its next line or sweep.
* Host patterns between quotes are not seen: `traefik.go:18` looks for backticks.
* A discovery error other than NotFound costs the version for the life of the process and is logged
  at Debug, below the level of the logger; `main.go:239` then reports "CRDs not installed".
* The wait for the caches has no timeout: a kind whose version disappears between discovery and LIST
  holds up everything, while pings report a live session (`Starts` supposes otherwise).  Later, a
  version that is no longer served leaves its cache as it was until the process restarts.
* The default backend of an Ingress is refreshed and indexed (`refs.go:64`) but not part of its
  record (`GraphAgrees` excepts it).
* An image changed in place to one of a registry without a dot is described by the repository of the
  image before, with its own tag, until the kubelet reports (`image.go:22`; `DescribesTheImage` excepts it).
* A ping whose timer fires together with the signal fails by cancellation and may log an ERROR
  during shutdown.

## 6. Not modelled, and the plan

Not modelled: HTTP, JSON, environment parsing, flags, client construction and logging text;
`resolve*Interval`; the random jitter of `SnapshotLoop` and the sort order of its lines; the copies of
fields that a record takes over as they are (ports, addresses, listeners, labels), which are one
number here; malformed unstructured objects, which the accessors of `helpers.go` skip;
`ServiceReferenced`, which nothing calls; the static settings of `deploy/` and the Dockerfile; SPAM
beyond what its answers and its documented reading of the stream let the agent observe.

What is left to prove, in this order:

1. `Collector` as the detail of `Inventory`: with a notification's cache change and its handler's line
   taken for one step, each of its steps is one of `Inventory`'s or a stutter.
2. The shutdown of `PushLoop`: what the final flush may leave behind, as an action property.
