------------------------------- MODULE PushLoop -------------------------------
(***************************************************************************)
(* The delivery path of SCAM: goroutines that log records (event handlers,  *)
(* SnapshotLoop, main, the heartbeat) -> LineCapture -> PushLoop -> SPAM,   *)
(* inside the life of one process and across restarts (push.go, eventid.go, *)
(* the start and the end of main.go).                                       *)
(*                                                                          *)
(* Time is counted in units of PushInterval.  A captured line is known by   *)
(* its position in `captured`, which keeps the event_id it carries (0 for   *)
(* an operational log line).  SPAM is external: it is modelled by what its  *)
(* responses let push() observe.                                            *)
(***************************************************************************)
EXTENDS LineCapture, FiniteSets

CONSTANTS
    Sources,           \* goroutines that log through collector.Log, PushLoop's own excepted
    Pusher,            \* the PushLoop goroutine, which logs while it runs triggerSnapshot
    PushBatchLimit,    \* pushBatchLimit (2 000)
    MaxBackoff,        \* maxBackoff in push intervals (10)
    SnapshotCooldown,  \* snapshotCooldown in push intervals (10)
    SnapshotLines,     \* lines one EmitFullSnapshot logs, BEGIN and END included
    \* bounds of the model
    MaxLines,          \* Sources start no line once this many are captured
    MaxFlawed,         \* 200 responses to batches not persisted, or without last_seen_event_id
    MaxBoots           \* processes started, one after the other

ASSUME PushAssumption ==
    /\ Pusher \notin Sources
    /\ PushBatchLimit \in Nat \ {0}
    /\ MaxBackoff \in Nat \ {0}
    /\ SnapshotCooldown \in Nat \ {0}
    /\ SnapshotLines \in Nat \ {0}
    /\ MaxLines \in Nat
    /\ MaxFlawed \in Nat
    /\ MaxBoots \in Nat \ {0}

VARIABLES
    \* loggers and the buffer
    captured,       \* event_id of every line ever captured, in capture order
    buf,            \* LineCapture.buf, as positions in captured
    nextEventID,    \* eventid.go: the last id handed out by this process
    held,           \* per goroutine, the id drawn for a record not yet written (0: none)
    \* the process
    main,           \* "starting" | "running" | "stopping" (shutdown logged) | "down"
    ctxDone,        \* the signal context is cancelled
    \* PushLoop
    pc,             \* "off" | "wait" (select) | "sending" | "snapshot" | "final" | "done"
    round,          \* the records this round flushed
    sent,           \* how many of them SPAM has ACKed (whole batches)
    doomed,         \* the request in flight was made with a cancelled context
    lastSeen,       \* pushAll's running maximum of last_seen_event_id
    backoff,        \* PushLoop's backoff
    lastPushed,     \* lastPushedEventID
    sinceSnapshot,  \* time since lastSnapshotAt, counted up to SnapshotCooldown
    snapLeft,       \* lines the running triggered snapshot has still to log
    tick,           \* ticker.C holds a tick (its capacity is 1)
    \* SPAM, and what the properties remember
    stored,         \* positions SPAM persisted
    flawed,         \* 200 responses that did not persist, or carried no last_seen_event_id
    acked,          \* positions whose batch was answered 200
    born,           \* Len(captured) when this process started
    boots,          \* processes started so far
    streak,         \* failed rounds in a row, counted up to 2
    healthy         \* every push so far succeeded, was persisted and answered with
                    \* last_seen_event_id, all in the first process

logVars   == <<captured, buf, nextEventID, held>>
mainVars  == <<main, ctxDone, born, boots>>
roundVars == <<round, sent, doomed, lastSeen>>
loopVars  == <<backoff, lastPushed, sinceSnapshot, snapLeft>>
spamVars  == <<stored, flawed, acked>>
histVars  == <<streak, healthy>>
vars == <<logVars, mainVars, pc, roundVars, loopVars, tick, spamVars, histVars>>

Emitters == Sources \cup {Pusher}
Up == main # "down"

-----------------------------------------------------------------------------
(* Helpers *)

SeqRange(s) == {s[i] : i \in DOMAIN s}

\* scanMaxEventID: the highest id in a set of ids, 0 when there is none.
HighestID(ids) ==
    LET top == {i \in ids : \A j \in ids : j <= i}
    IN  IF top = {} THEN 0 ELSE CHOOSE i \in top : TRUE

IDsAt(positions) == {captured[p] : p \in positions}

\* Variant for the mutation runs: the tail starts one record late.
UnsentSkipsOne == SubSeq(round, sent + 2, Len(round))

\* records[len(batch):] after `sent` records were ACKed, and the next batch.
Unsent == SubSeq(round, sent + 1, Len(round))
BatchEnd == IF Len(round) - sent > PushBatchLimit THEN sent + PushBatchLimit
                                                  ELSE Len(round)
Batch == {round[i] : i \in (sent + 1)..BatchEnd}

\* NextBackoff, in push intervals.
NextBackoff(current) ==
    IF current = 0 THEN 1
    ELSE IF 2 * current > MaxBackoff THEN MaxBackoff ELSE 2 * current

\* Variants for the mutation runs: backoff counted below zero, backoff never consumed.
BackoffUnguarded == backoff - 1
BackoffStuck == backoff

\* What a tick leaves of backoff (push.go:111-117); a positive rest skips the tick.
BackoffLeft == IF backoff > 0 THEN backoff - 1 ELSE 0

\* Lines captured and neither ACKed nor given up: buffered, or in the round in flight.
Pending == SeqRange(buf) \cup SeqRange(Unsent)

-----------------------------------------------------------------------------
Init ==
    /\ captured = <<>> /\ buf = <<>> /\ nextEventID = 0
    /\ held = [g \in Emitters |-> 0]
    /\ main = "starting" /\ ctxDone = FALSE /\ born = 0 /\ boots = 1
    /\ pc = "off" /\ round = <<>> /\ sent = 0 /\ doomed = FALSE /\ lastSeen = 0
    /\ backoff = 0 /\ lastPushed = 0 /\ snapLeft = 0 /\ tick = FALSE
    /\ sinceSnapshot = SnapshotCooldown       \* lastSnapshotAt is the zero time
    /\ stored = {} /\ flawed = 0 /\ acked = {}
    /\ streak = 0 /\ healthy = TRUE

-----------------------------------------------------------------------------
(* Loggers: NextEventID() is evaluated before the handler takes its lock, so *)
(* another goroutine may log between the two.                                *)

Capture(id) ==
    /\ captured' = Append(captured, id)
    /\ buf' = Write(buf, Len(captured) + 1)

MayLog(g) ==
    /\ Up /\ held[g] = 0
    /\ IF g = Pusher
       THEN pc = "snapshot" /\ snapLeft > 0
       ELSE Len(captured) + Cardinality({h \in Sources : held[h] # 0}) < MaxLines

TakeID(g) ==
    /\ MayLog(g)
    /\ nextEventID' = nextEventID + 1
    /\ held' = [held EXCEPT ![g] = nextEventID + 1]
    /\ UNCHANGED <<captured, buf, mainVars, pc, roundVars, loopVars, tick, spamVars, histVars>>

WriteLine(g) ==
    /\ Up /\ held[g] # 0
    /\ Capture(held[g])
    /\ held' = [held EXCEPT ![g] = 0]
    /\ snapLeft' = IF g = Pusher THEN snapLeft - 1 ELSE snapLeft
    /\ UNCHANGED <<nextEventID, mainVars, pc, roundVars, backoff, lastPushed,
                   sinceSnapshot, tick, spamVars, histVars>>

\* A log line without event_id (startup, heartbeat, "snapshot: scheduled", ...).
LogOperational(g) ==
    /\ g \in Sources /\ MayLog(g)
    /\ Capture(0)
    /\ UNCHANGED <<nextEventID, held, mainVars, pc, roundVars, loopVars, tick, spamVars, histVars>>

-----------------------------------------------------------------------------
(* PushLoop *)

\* main starts PushLoop only after cache sync and the whole initial snapshot.
StartPushLoop ==
    /\ main = "starting"
    /\ main' = "running" /\ pc' = "wait"
    /\ UNCHANGED <<logVars, ctxDone, born, boots, roundVars, loopVars, tick, spamVars, histVars>>

\* One push interval passes; a tick nobody has taken yet is not queued twice.
Elapse ==
    /\ Up /\ pc # "off"
    /\ tick' = TRUE
    /\ sinceSnapshot' = IF sinceSnapshot < SnapshotCooldown THEN sinceSnapshot + 1
                                                            ELSE sinceSnapshot
    /\ UNCHANGED <<logVars, mainVars, pc, roundVars, backoff, lastPushed, snapLeft,
                   spamVars, histVars>>

BeginRound(next) ==
    /\ round' = buf /\ buf' = <<>> /\ sent' = 0 /\ lastSeen' = 0
    /\ pc' = next

\* case <-ticker.C: consume backoff, flush, and start pushAll unless empty.
Tick ==
    /\ Up /\ pc = "wait" /\ tick
    /\ tick' = FALSE
    /\ backoff' = BackoffLeft
    /\ IF BackoffLeft > 0 \/ buf = <<>>
       THEN UNCHANGED <<buf, pc, roundVars>>
       ELSE BeginRound("sending") /\ doomed' = ctxDone
    /\ UNCHANGED <<captured, nextEventID, held, mainVars, lastPushed, sinceSnapshot,
                   snapLeft, spamVars, histVars>>

\* A batch answered 200.  SPAM may have persisted it or not; the body may carry
\* last_seen_event_id or not (spoken).  The next request uses ctx as it is now.
BatchAcked(persisted, spoken) ==
    /\ Up /\ pc \in {"sending", "final"} /\ sent < Len(round) /\ ~doomed
    /\ flawed' = IF persisted /\ spoken THEN flawed ELSE flawed + 1
    /\ flawed' <= MaxFlawed
    /\ stored' = IF persisted THEN stored \cup Batch ELSE stored
    /\ acked' = acked \cup Batch
    /\ sent' = BatchEnd
    /\ doomed' = (pc = "sending" /\ ctxDone)
    /\ lastSeen' = IF spoken THEN HighestID({lastSeen} \cup IDsAt(stored')) ELSE lastSeen
    /\ healthy' = (healthy /\ persisted /\ spoken)
    /\ UNCHANGED <<logVars, mainVars, pc, round, loopVars, tick, streak>>

\* pushAll fails: transport error, timeout, cancelled context, status # 200.  SPAM
\* may nevertheless have persisted the batch (the response was lost).
RoundFailed(persisted) ==
    /\ Up /\ pc = "sending" /\ sent < Len(round)
    /\ persisted => ~doomed
    /\ stored' = IF persisted THEN stored \cup Batch ELSE stored
    /\ buf' = Rebuffer(Unsent, buf)
    /\ backoff' = NextBackoff(backoff)
    /\ pc' = "wait" /\ round' = <<>> /\ sent' = 0 /\ doomed' = FALSE /\ lastSeen' = 0
    /\ streak' = IF streak < 2 THEN streak + 1 ELSE 2
    /\ healthy' = FALSE
    /\ UNCHANGED <<captured, nextEventID, held, mainVars, lastPushed, sinceSnapshot,
                   snapLeft, tick, flawed, acked>>

\* Variant for the mutation runs: the last record's id stands for the highest.
AdvancedToLast == captured[round[Len(round)]]

\* What PushLoop advances lastPushedEventID to once a round has succeeded.
Advanced == LET batchHigh == HighestID(IDsAt(SeqRange(round)))
            IN  IF batchHigh > lastPushed THEN batchHigh ELSE lastPushed

Mismatch == lastSeen # 0 /\ lastSeen # Advanced /\ sinceSnapshot >= SnapshotCooldown

\* pushAll returned ok: advance, compare, and start triggerSnapshot on a mismatch
\* (after logging "snapshot: ACK mismatch", itself a captured line).
RoundDone ==
    /\ Up /\ pc = "sending" /\ sent = Len(round)
    /\ lastPushed' = Advanced
    /\ IF Mismatch THEN pc' = "snapshot" /\ snapLeft' = SnapshotLines /\ Capture(0)
                   ELSE pc' = "wait" /\ UNCHANGED <<snapLeft, captured, buf>>
    /\ round' = <<>> /\ sent' = 0 /\ doomed' = FALSE /\ lastSeen' = 0 /\ streak' = 0
    /\ UNCHANGED <<nextEventID, held, mainVars, backoff, sinceSnapshot, tick, spamVars, healthy>>

\* triggerSnapshot returned: lastSnapshotAt = time.Now().
SnapshotDone ==
    /\ Up /\ pc = "snapshot" /\ snapLeft = 0
    /\ pc' = "wait" /\ sinceSnapshot' = 0
    /\ UNCHANGED <<logVars, mainVars, roundVars, backoff, lastPushed, snapLeft, tick,
                   spamVars, histVars>>

\* case <-ctx.Done(): the last flush, under a context of its own.
ShutdownFlush ==
    /\ Up /\ pc = "wait" /\ ctxDone
    /\ BeginRound("final") /\ doomed' = FALSE
    /\ UNCHANGED <<captured, nextEventID, held, mainVars, loopVars, tick, spamVars, histVars>>

\* The final pushAll fails or times out, or has nothing left to send; its result is ignored.
FinalReturn(persisted) ==
    /\ Up /\ pc = "final"
    /\ persisted => sent < Len(round)
    /\ stored' = IF persisted THEN stored \cup Batch ELSE stored
    /\ pc' = "done" /\ round' = <<>> /\ sent' = 0 /\ doomed' = FALSE /\ lastSeen' = 0
    /\ healthy' = (healthy /\ sent = Len(round))
    /\ UNCHANGED <<logVars, mainVars, loopVars, tick, flawed, acked, streak>>

-----------------------------------------------------------------------------
(* The process *)

Signal ==
    /\ Up /\ ~ctxDone
    /\ ctxDone' = TRUE
    /\ UNCHANGED <<logVars, main, born, boots, pc, roundVars, loopVars, tick, spamVars, histVars>>

\* <-ctx.Done() in main: log "shutdown" ...
LogShutdown ==
    /\ main = "running" /\ ctxDone
    /\ main' = "stopping"
    /\ Capture(0)
    /\ UNCHANGED <<nextEventID, held, ctxDone, born, boots, pc, roundVars, loopVars, tick,
                   spamVars, histVars>>

\* What a process that ends leaves behind: nothing it held in memory.
Gone ==
    /\ main' = "down" /\ ctxDone' = FALSE /\ born' = Len(captured)
    /\ buf' = <<>> /\ nextEventID' = 0 /\ held' = [g \in Emitters |-> 0]
    /\ pc' = "off" /\ round' = <<>> /\ sent' = 0 /\ doomed' = FALSE /\ lastSeen' = 0
    /\ backoff' = 0 /\ lastPushed' = 0 /\ snapLeft' = 0 /\ tick' = FALSE
    /\ sinceSnapshot' = SnapshotCooldown
    /\ streak' = 0
    /\ UNCHANGED <<captured, boots, spamVars, healthy>>

\* ... and return, which ends every goroutine; or "cache sync aborted".
Exit == main = "stopping" /\ Gone
AbortSync == main = "starting" /\ ctxDone /\ Gone
\* SIGKILL, OOM, node loss (in "stopping" that is what Exit does anyway).
Crash == main \in {"starting", "running"} /\ Gone

\* The Deployment's controller starts the next process (replicas: 1, Recreate).
Boot ==
    /\ main = "down" /\ boots < MaxBoots
    /\ main' = "starting" /\ boots' = boots + 1 /\ healthy' = FALSE
    /\ UNCHANGED <<logVars, ctxDone, born, pc, roundVars, loopVars, tick, spamVars, streak>>

-----------------------------------------------------------------------------
LoggerStep == \E g \in Emitters : TakeID(g) \/ WriteLine(g) \/ LogOperational(g)
SpamStep == \E b \in BOOLEAN :
               \/ \E s \in BOOLEAN : BatchAcked(b, s)
               \/ RoundFailed(b)
               \/ FinalReturn(b)
LoopStep == StartPushLoop \/ Tick \/ RoundDone \/ SnapshotDone \/ ShutdownFlush
ProcessStep == Signal \/ LogShutdown \/ Exit \/ AbortSync \/ Crash \/ Boot

Next == LoggerStep \/ SpamStep \/ LoopStep \/ Elapse \/ ProcessStep

Spec == Init /\ [][Next]_vars

\* The runtime schedules every goroutine and the clock runs; http.Client's 30 s
\* timeout ends every request; SPAM is not unreachable for ever.
Fairness ==
    /\ WF_vars(Elapse) /\ WF_vars(LoopStep) /\ WF_vars(SpamStep)
    /\ \A g \in Emitters : WF_vars(WriteLine(g))
    /\ WF_vars(TakeID(Pusher))
    /\ SF_vars(BatchAcked(TRUE, TRUE))

FairSpec == Spec /\ Fairness

-----------------------------------------------------------------------------
(* Properties *)

TypeOK ==
    /\ captured \in Seq(Nat) /\ buf \in Seq(Nat) /\ round \in Seq(Nat)
    /\ nextEventID \in Nat /\ held \in [Emitters -> Nat]
    /\ main \in {"starting", "running", "stopping", "down"}
    /\ ctxDone \in BOOLEAN /\ born \in Nat /\ boots \in Nat
    /\ pc \in {"off", "wait", "sending", "snapshot", "final", "done"}
    /\ sent \in Nat /\ doomed \in BOOLEAN /\ lastSeen \in Nat
    /\ backoff \in 0..MaxBackoff /\ lastPushed \in Nat
    /\ sinceSnapshot \in 0..SnapshotCooldown /\ snapLeft \in 0..SnapshotLines
    /\ tick \in BOOLEAN
    /\ stored \subseteq 1..Len(captured) /\ acked \subseteq 1..Len(captured)
    /\ flawed \in Nat /\ streak \in 0..2 /\ healthy \in BOOLEAN

\* The promise of a bounded buffer that drops its oldest (LineCapture.Write, Rebuffer):
\* of the lines this process captured, the newest MaxBufferSize are never lost, whatever
\* pushes fail and whatever is captured while a round is in flight.
NewestNeverLost ==
    Up /\ pc \notin {"final", "done"} =>
        \A p \in (born + 1)..Len(captured) :
            p > Len(captured) - MaxBufferSize => p \in acked \cup Pending

\* "batches already ACKed by SPAM must not be resent" (pushAll, push.go:167), and lines
\* are ACKed in capture order: every ACKed line is older than every pending one.
AckedBeforePending == \A a \in acked, p \in Pending : a < p

\* While every push succeeds, is persisted and is answered with last_seen_event_id, in the
\* first process, that id and lastPushedEventID agree at the end of every round, so no
\* reconcile snapshot is fired, in whatever order concurrent loggers write their ids.
QuietWhenHealthy == [][healthy /\ pc = "sending" => pc' # "snapshot"]_vars

\* A failing push, the backoff after it, a reconcile snapshot and a full buffer never
\* strand a captured line: it is ACKed or displaced, or the process is told to stop.
\* (Bound: the lines of the Sources and of one reconcile are followed.)
EveryLineSettles ==
    \A p \in 1..(MaxLines + SnapshotLines + 1) :
        p \in Pending /\ Up ~> p \notin Pending \/ ctxDone \/ ~Up

\* The delivery path implements the abstract outbox: what is buffered or in flight waits,
\* what was ACKed is delivered, and the final flush closes it.
Promise == INSTANCE Outbox WITH Capacity <- MaxBufferSize, accepted <- Len(captured),
                                waiting <- Pending, delivered <- acked,
                                closing <- pc \in {"final", "done"}
KeepsPromise == Promise!Spec

-----------------------------------------------------------------------------
(* What comments and tests say and the code does not do *)

\* push_test.go:14 has the wait doubled after a second failure in a row, push.go:128 logs
\* "push failed, backing off": a second failed round waits longer than one interval.
BackoffGrows ==
    [][pc = "sending" /\ pc' = "wait" /\ streak >= 1 /\ streak' = 2 => backoff' > 1]_vars

\* push.go:78-79: SPAM's highest persisted id is compared with "the local 'highest
\* pushed'", so a reconcile fires only when SPAM's id and the highest id this process had
\* ACKed really differ.
ReconcileOnlyOnDrift ==
    [][pc = "sending" /\ pc' = "snapshot" =>
          HighestID(IDsAt(stored)) # HighestID(IDsAt({p \in acked : p > born}))]_vars

\* push.go:25-28: the final flush is bounded because an unreachable SPAM would make it hold
\* the process: main does not return before the flush is over.
ExitAfterFlush == [][main = "stopping" /\ main' = "down" => pc = "done"]_vars
===============================================================================
