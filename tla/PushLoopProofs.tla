---------------------------- MODULE PushLoopProofs ----------------------------
(***************************************************************************)
(* Type correctness of the delivery path, its two delivery guarantees       *)
(* (NewestNeverLost, AckedBeforePending), that it implements Outbox, and     *)
(* that a healthy process fires no reconcile (QuietWhenHealthy), for every   *)
(* set of sources, buffer size, batch limit, backoff, cooldown, snapshot     *)
(* size and bound.                                                           *)
(***************************************************************************)
EXTENDS PushLoop, SequenceTheorems, TLAPS

-----------------------------------------------------------------------------
(* The buffer: what Write and Rebuffer do to consecutive lines *)

\* s holds the consecutive lines that end with line hi.
IsRun(s, hi) == \A i \in 1..Len(s) : s[i] = hi - Len(s) + i

\* Newest(s, n) is the last n elements of s (push.go:50 and push.go:73).
LEMMA NewestProperties ==
    ASSUME NEW s \in Seq(Nat), NEW n \in 0..Len(s)
    PROVE  /\ Newest(s, n) \in Seq(Nat)
           /\ Len(Newest(s, n)) = n
           /\ \A i \in 1..n : Newest(s, n)[i] = s[Len(s) - n + i]
<1> DEFINE m == Len(s) - n + 1
<1>1. Len(s) \in Nat /\ m \in Int /\ n \in Nat
  BY LenProperties
<1>2. \A i \in m..Len(s) : s[i] \in Nat
  BY <1>1, ElementOfSeq
<1>3. /\ SubSeq(s, m, Len(s)) \in Seq(Nat)
      /\ Len(SubSeq(s, m, Len(s))) = IF m <= Len(s) THEN Len(s) - m + 1 ELSE 0
      /\ \A i \in 1..(Len(s) - m + 1) : SubSeq(s, m, Len(s))[i] = s[m + i - 1]
  BY <1>1, <1>2, SubSeqProperties
<1> QED
  BY <1>1, <1>3 DEF Newest

\* Write keeps a run a run, and a full buffer full (push.go:43-57).
LEMMA WriteRun ==
    ASSUME NEW s \in Seq(Nat), NEW hi \in Nat, IsRun(s, hi), Len(s) <= MaxBufferSize
    PROVE  /\ Write(s, hi + 1) \in Seq(Nat)
           /\ Len(Write(s, hi + 1)) = IF Len(s) = MaxBufferSize THEN MaxBufferSize
                                                                ELSE Len(s) + 1
           /\ IsRun(Write(s, hi + 1), hi + 1)
<1> DEFINE kept == IF Len(s) >= MaxBufferSize THEN Newest(s, MaxBufferSize - 1) ELSE s
<1>1. Len(s) \in Nat /\ MaxBufferSize \in Nat \ {0}
  BY LenProperties, BufferAssumption
<1>2. /\ kept \in Seq(Nat)
      /\ Len(kept) = IF Len(s) = MaxBufferSize THEN MaxBufferSize - 1 ELSE Len(s)
      /\ IsRun(kept, hi)
  <2>1. CASE Len(s) = MaxBufferSize
    <3>1. MaxBufferSize - 1 \in 0..Len(s)
      BY <1>1, <2>1
    <3>2. /\ kept \in Seq(Nat)
          /\ Len(kept) = MaxBufferSize - 1
          /\ \A i \in 1..(MaxBufferSize - 1) : kept[i] = s[Len(s) - (MaxBufferSize - 1) + i]
      BY <1>1, <2>1, <3>1, NewestProperties
    <3> QED
      BY <1>1, <2>1, <3>2 DEF IsRun
  <2>2. CASE Len(s) < MaxBufferSize
    BY <1>1, <2>2
  <2> QED
    BY <1>1, <2>1, <2>2
<1>3. /\ Append(kept, hi + 1) \in Seq(Nat)
      /\ Len(Append(kept, hi + 1)) = Len(kept) + 1
      /\ \A i \in 1..Len(kept) : Append(kept, hi + 1)[i] = kept[i]
      /\ Append(kept, hi + 1)[Len(kept) + 1] = hi + 1
  BY <1>2, AppendProperties
<1> HIDE DEF kept
<1>4. IsRun(Append(kept, hi + 1), hi + 1)
  <2>1. ASSUME NEW i \in 1..(Len(kept) + 1)
        PROVE  Append(kept, hi + 1)[i] = hi + 1 - (Len(kept) + 1) + i
    <3>1. Len(kept) \in Nat
      BY <1>2, LenProperties
    <3>2. CASE i = Len(kept) + 1
      BY <1>3, <3>1, <3>2
    <3>3. CASE i \in 1..Len(kept)
      BY <1>2, <1>3, <3>1, <3>3 DEF IsRun
    <3> QED
      BY <3>1, <3>2, <3>3
  <2> QED
    BY <1>3, <2>1 DEF IsRun
<1> QED
  BY <1>1, <1>2, <1>3, <1>4 DEF Write, kept

\* Rebuffer returns the newest MaxBufferSize of the two parts, in order (push.go:63-75).
LEMMA RebufferProperties ==
    ASSUME NEW u \in Seq(Nat), NEW b \in Seq(Nat)
    PROVE  /\ Rebuffer(u, b) \in Seq(Nat)
           /\ Len(Rebuffer(u, b)) = IF Len(u) + Len(b) > MaxBufferSize
                                    THEN MaxBufferSize ELSE Len(u) + Len(b)
           /\ \A i \in 1..Len(Rebuffer(u, b)) :
                 Rebuffer(u, b)[i] = (u \o b)[Len(u) + Len(b) - Len(Rebuffer(u, b)) + i]
<1> DEFINE lines == u \o b
<1>1. /\ Len(u) \in Nat /\ Len(b) \in Nat /\ MaxBufferSize \in Nat
      /\ lines \in Seq(Nat) /\ Len(lines) = Len(u) + Len(b)
  BY LenProperties, ConcatProperties, BufferAssumption
<1> HIDE DEF lines
<1>2. CASE Len(lines) > MaxBufferSize
  <2>1. MaxBufferSize \in 0..Len(lines)
    BY <1>1, <1>2
  <2>2. /\ Newest(lines, MaxBufferSize) \in Seq(Nat)
        /\ Len(Newest(lines, MaxBufferSize)) = MaxBufferSize
        /\ \A i \in 1..MaxBufferSize :
              Newest(lines, MaxBufferSize)[i] = lines[Len(lines) - MaxBufferSize + i]
    BY <1>1, <2>1, NewestProperties
  <2>3. Rebuffer(u, b) = Newest(lines, MaxBufferSize)
    BY <1>2 DEF Rebuffer, lines
  <2>4. Len(Rebuffer(u, b)) = MaxBufferSize
    BY <2>2, <2>3
  <2>5. \A i \in 1..MaxBufferSize :
           Rebuffer(u, b)[i] = (u \o b)[Len(u) + Len(b) - MaxBufferSize + i]
    <3> SUFFICES ASSUME NEW i \in 1..MaxBufferSize
                 PROVE  Rebuffer(u, b)[i] = lines[Len(u) + Len(b) - MaxBufferSize + i]
      BY Zenon DEF lines
    <3>1. Rebuffer(u, b)[i] = lines[Len(lines) - MaxBufferSize + i]
      BY <2>2, <2>3
    <3>2. Len(lines) - MaxBufferSize + i = Len(u) + Len(b) - MaxBufferSize + i
      BY <1>1
    <3> QED
      BY <3>1, <3>2
  <2>6. Rebuffer(u, b) \in Seq(Nat) /\ Len(u) + Len(b) > MaxBufferSize
    BY <1>1, <1>2, <2>2, <2>3
  <2> QED
    BY <2>4, <2>5, <2>6
<1>3. CASE ~(Len(lines) > MaxBufferSize)
  <2>1. Rebuffer(u, b) = lines
    BY <1>3 DEF Rebuffer, lines
  <2> QED
    BY <1>1, <1>3, <2>1 DEF lines
<1> QED
  BY <1>2, <1>3

\* Put back in front of what was captured meanwhile, an unsent run makes a run again: the
\* two parts are adjacent, or the newer part fills the buffer and the older one is dropped.
LEMMA RebufferRun ==
    ASSUME NEW u \in Seq(Nat), NEW b \in Seq(Nat), NEW hi \in Nat, NEW top \in Nat,
           IsRun(u, hi), IsRun(b, top), Len(b) <= MaxBufferSize,
           hi + Len(b) = top \/ Len(b) = MaxBufferSize
    PROVE  IsRun(Rebuffer(u, b), top)
<1>1. /\ Len(u) \in Nat /\ Len(b) \in Nat /\ MaxBufferSize \in Nat
      /\ \A i \in 1..(Len(u) + Len(b)) :
            (u \o b)[i] = IF i <= Len(u) THEN u[i] ELSE b[i - Len(u)]
  BY LenProperties, ConcatProperties, BufferAssumption
<1>2. SUFFICES ASSUME NEW i \in 1..Len(Rebuffer(u, b))
               PROVE  Rebuffer(u, b)[i] = top - Len(Rebuffer(u, b)) + i
  BY DEF IsRun
<1> DEFINE n == Len(Rebuffer(u, b))
           j == Len(u) + Len(b) - n + i
<1>3. /\ n = IF Len(u) + Len(b) > MaxBufferSize THEN MaxBufferSize ELSE Len(u) + Len(b)
      /\ Rebuffer(u, b)[i] = (u \o b)[j]
  BY RebufferProperties
<1>4. n \in Nat /\ i \in 1..n /\ j \in 1..(Len(u) + Len(b))
  BY <1>1, <1>3
<1> HIDE DEF n
<1>5. CASE j <= Len(u)
  <2>1. hi + Len(b) = top
    BY <1>1, <1>3, <1>4, <1>5
  <2>2. (u \o b)[j] = hi - Len(u) + j
    BY <1>1, <1>4, <1>5 DEF IsRun
  <2>3. hi - Len(u) + j = top - n + i
    <3>1. hi = top - Len(b)
      BY <1>1, <2>1
    <3> QED
      BY <1>1, <1>4, <3>1
  <2> QED
    BY <1>3, <2>2, <2>3 DEF n
<1>6. CASE j > Len(u)
  <2>1. (u \o b)[j] = top - Len(b) + (j - Len(u))
    BY <1>1, <1>4, <1>6 DEF IsRun
  <2>2. top - Len(b) + (j - Len(u)) = top - n + i
    BY <1>1, <1>4
  <2> QED
    BY <1>3, <2>1, <2>2 DEF n
<1> QED
  BY <1>1, <1>4, <1>5, <1>6

-----------------------------------------------------------------------------
(* The inductive invariant *)

\* Which states of the control go with which states of the round and of main.
Control ==
    /\ held[Pusher] # 0 => pc = "snapshot" /\ snapLeft > 0
    /\ sent <= Len(round)
    /\ pc \notin {"sending", "final"} => round = <<>> /\ sent = 0
    /\ main \in {"starting", "down"} => pc = "off"
    /\ main = "down" => born = Len(captured)

\* The round in flight ends with line hi and the buffer with the newest line: nothing lies
\* between them unless the buffer is full, everything ACKed lies before what is unsent,
\* and everything of this process before that, still among the newest, is ACKed.
RunsTo(hi) ==
    /\ IsRun(round, hi)
    /\ born + Len(round) <= hi
    /\ hi + Len(buf) <= Len(captured)
    /\ hi + Len(buf) = Len(captured) \/ Len(buf) = MaxBufferSize
    /\ \A a \in acked : a <= hi - Len(round) + sent
    /\ Up /\ pc \notin {"final", "done"} =>
          \A p \in (born + 1)..(hi - Len(round) + sent) :
              p > Len(captured) - MaxBufferSize => p \in acked

Runs ==
    /\ IsRun(buf, Len(captured))
    /\ Len(buf) <= MaxBufferSize
    /\ \E hi \in 0..Len(captured) : RunsTo(hi)

IInv == TypeOK /\ Control /\ Runs

-----------------------------------------------------------------------------
(* Lemmas *)

\* scanMaxEventID returns an id.
LEMMA HighestIDIsNat ==
    ASSUME NEW S \in SUBSET Nat
    PROVE  HighestID(S) \in Nat
<1> DEFINE top == {i \in S : \A j \in S : j <= i}
<1>1. CASE top = {}
  BY <1>1 DEF HighestID
<1>2. CASE top # {}
  <2>1. (CHOOSE i \in top : TRUE) \in top
    BY <1>2
  <2> QED
    BY <1>2, <2>1 DEF HighestID
<1> QED
  BY <1>1, <1>2

\* The ids SPAM knows are ids (used for last_seen_event_id).
LEMMA IDsAtAreNat ==
    ASSUME captured \in Seq(Nat), NEW P \in SUBSET (1..Len(captured))
    PROVE  IDsAt(P) \in SUBSET Nat
BY ElementOfSeq DEF IDsAt

\* NextBackoff stays within its cap (push.go:246-255).
LEMMA NextBackoffInRange ==
    ASSUME NEW current \in 0..MaxBackoff
    PROVE  NextBackoff(current) \in 0..MaxBackoff
BY PushAssumption DEF NextBackoff

LEMMA Empty == <<>> \in Seq(Nat) /\ Len(<<>>) = 0
BY EmptySeq

LEMMA Lengths ==
    ASSUME TypeOK
    PROVE  /\ Len(captured) \in Nat /\ Len(buf) \in Nat /\ Len(round) \in Nat
           /\ MaxBufferSize \in Nat \ {0}
BY LenProperties, BufferAssumption DEF TypeOK

\* One captured line: the buffer still ends with the newest line, and is one line longer
\* or full.
LEMMA CaptureProperties ==
    ASSUME IInv, NEW id \in Nat, Capture(id)
    PROVE  /\ captured' \in Seq(Nat) /\ Len(captured') = Len(captured) + 1
           /\ buf' \in Seq(Nat) /\ IsRun(buf', Len(captured'))
           /\ Len(buf') = IF Len(buf) = MaxBufferSize THEN MaxBufferSize ELSE Len(buf) + 1
<1>1. /\ captured \in Seq(Nat) /\ buf \in Seq(Nat) /\ Len(captured) \in Nat
      /\ IsRun(buf, Len(captured)) /\ Len(buf) <= MaxBufferSize
  BY Lengths DEF IInv, TypeOK, Runs
<1>2. captured' = Append(captured, id) /\ buf' = Write(buf, Len(captured) + 1)
  BY DEF Capture
<1>3. captured' \in Seq(Nat) /\ Len(captured') = Len(captured) + 1
  BY <1>1, <1>2, AppendProperties
<1>4. /\ Write(buf, Len(captured) + 1) \in Seq(Nat)
      /\ Len(Write(buf, Len(captured) + 1)) = IF Len(buf) = MaxBufferSize THEN MaxBufferSize
                                                                        ELSE Len(buf) + 1
      /\ IsRun(Write(buf, Len(captured) + 1), Len(captured) + 1)
  BY <1>1, WriteRun
<1> QED
  BY <1>2, <1>3, <1>4

\* The tail of a round that is put back after a failure.
LEMMA UnsentProperties ==
    ASSUME IInv, NEW hi \in 0..Len(captured), RunsTo(hi)
    PROVE  /\ Unsent \in Seq(Nat) /\ Len(Unsent) = Len(round) - sent
           /\ IsRun(Unsent, hi)
<1>1. /\ round \in Seq(Nat) /\ Len(round) \in Nat /\ sent \in Nat /\ sent <= Len(round)
      /\ hi \in Nat
      /\ \A i \in 1..Len(round) : round[i] = hi - Len(round) + i
  BY Lengths DEF IInv, TypeOK, Control, RunsTo, IsRun
<1>2. \A i \in (sent + 1)..Len(round) : round[i] \in Nat
  BY <1>1, ElementOfSeq
<1>3. /\ Unsent \in Seq(Nat)
      /\ Len(Unsent) = IF sent + 1 <= Len(round) THEN Len(round) - (sent + 1) + 1 ELSE 0
      /\ \A i \in 1..(Len(round) - (sent + 1) + 1) : Unsent[i] = round[(sent + 1) + i - 1]
  BY <1>1, <1>2, SubSeqProperties DEF Unsent
<1>4. Len(Unsent) = Len(round) - sent
  BY <1>1, <1>3
<1>5. ASSUME NEW i \in 1..Len(Unsent)
      PROVE  Unsent[i] = hi - Len(Unsent) + i
  <2> DEFINE k == Len(round) - (sent + 1) + 1
  <2>1. i \in 1..k /\ (sent + 1) + i - 1 = sent + i /\ sent + i \in 1..Len(round)
    BY <1>1, <1>4
  <2>2. Unsent[i] = round[(sent + 1) + i - 1]
    BY <1>3, <2>1
  <2>3. round[sent + i] = hi - Len(round) + (sent + i)
    BY <1>1, <2>1
  <2> QED
    BY <1>1, <1>4, <2>1, <2>2, <2>3
<1> QED
  BY <1>3, <1>4, <1>5 DEF IsRun

\* One batch is a non-empty interval of lines, right after those SPAM has ACKed.
LEMMA BatchProperties ==
    ASSUME IInv, sent < Len(round), NEW hi \in 0..Len(captured), RunsTo(hi)
    PROVE  /\ BatchEnd \in (sent + 1)..Len(round)
           /\ Batch = (hi - Len(round) + sent + 1)..(hi - Len(round) + BatchEnd)
           /\ Batch \subseteq 1..Len(captured)
<1>1. /\ Len(round) \in Nat /\ Len(captured) \in Nat /\ sent \in Nat /\ hi \in Nat
      /\ hi <= Len(captured) /\ Len(round) <= hi
      /\ \A i \in 1..Len(round) : round[i] = hi - Len(round) + i
  BY Lengths DEF IInv, TypeOK, RunsTo, IsRun
<1>2. BatchEnd \in (sent + 1)..Len(round)
  BY <1>1, PushAssumption DEF BatchEnd
<1>3. Batch = {hi - Len(round) + i : i \in (sent + 1)..BatchEnd}
  <2>1. \A i \in (sent + 1)..BatchEnd : round[i] = hi - Len(round) + i
    BY <1>1, <1>2
  <2> QED
    BY <2>1 DEF Batch
<1>4. Batch = (hi - Len(round) + sent + 1)..(hi - Len(round) + BatchEnd)
  <2>1. ASSUME NEW p \in (hi - Len(round) + sent + 1)..(hi - Len(round) + BatchEnd)
        PROVE  p \in Batch
    <3>1. p - hi + Len(round) \in (sent + 1)..BatchEnd
      BY <1>1, <1>2
    <3>2. p = hi - Len(round) + (p - hi + Len(round))
      BY <1>1, <1>2
    <3> QED
      BY <1>3, <3>1, <3>2
  <2>2. ASSUME NEW p \in Batch
        PROVE  p \in (hi - Len(round) + sent + 1)..(hi - Len(round) + BatchEnd)
    BY <1>1, <1>2, <1>3
  <2> QED
    BY <2>1, <2>2
<1> QED
  BY <1>1, <1>2, <1>4
-----------------------------------------------------------------------------
(* The invariant holds initially *)

LEMMA InitIInv == Init => IInv
<1> SUFFICES ASSUME Init PROVE IInv
  OBVIOUS
<1>1. TypeOK
  <2>1. /\ ctxDone \in BOOLEAN /\ doomed \in BOOLEAN /\ tick \in BOOLEAN
        /\ healthy \in BOOLEAN
    BY DEF Init
  <2>2. held \in [Emitters -> Nat]
    BY DEF Init
  <2> QED
    BY <2>1, <2>2, Empty, PushAssumption DEF Init, TypeOK
<1>2. Control
  BY PushAssumption DEF Init, Control, Emitters
<1>3. Runs
  <2>1. RunsTo(0)
    BY BufferAssumption DEF Init, RunsTo, IsRun
  <2>2. IsRun(buf, Len(captured)) /\ Len(buf) <= MaxBufferSize /\ 0 \in 0..Len(captured)
    BY BufferAssumption DEF Init, IsRun
  <2> QED
    BY <2>1, <2>2 DEF Runs
<1> QED
  BY <1>1, <1>2, <1>3 DEF IInv

-----------------------------------------------------------------------------
(* Every step preserves its type part *)

LEMMA TypeStep == IInv /\ [Next]_vars => TypeOK'
<1> SUFFICES ASSUME IInv, [Next]_vars PROVE TypeOK'
  OBVIOUS
<1> USE DEF logVars, mainVars, roundVars, loopVars, spamVars, histVars
<1>1. TypeOK /\ Control /\ Runs
  BY DEF IInv
<1>2. ASSUME NEW g \in Emitters, TakeID(g) PROVE TypeOK'
  BY <1>1, <1>2 DEF TypeOK, TakeID
<1>3. ASSUME NEW g \in Emitters, WriteLine(g) PROVE TypeOK'
  <2>1. Capture(held[g]) /\ held[g] \in Nat
    BY <1>1, <1>3 DEF TypeOK, WriteLine
  <2>2. captured' \in Seq(Nat) /\ buf' \in Seq(Nat) /\ Len(captured') = Len(captured) + 1
    BY <2>1, CaptureProperties
  <2>3. held' \in [Emitters -> Nat]
    BY <1>1, <1>3 DEF TypeOK, WriteLine
  <2>4. snapLeft' \in 0..SnapshotLines
    BY <1>1, <1>3, PushAssumption DEF TypeOK, Control, WriteLine
  <2> QED
    BY <1>1, <1>3, <2>2, <2>3, <2>4, Lengths DEF TypeOK, WriteLine
<1>4. ASSUME NEW g \in Emitters, LogOperational(g) PROVE TypeOK'
  <2>1. captured' \in Seq(Nat) /\ buf' \in Seq(Nat) /\ Len(captured') = Len(captured) + 1
    BY <1>4, CaptureProperties DEF LogOperational
  <2> QED
    BY <1>1, <1>4, <2>1, Lengths DEF TypeOK, LogOperational
<1>5. CASE StartPushLoop
  BY <1>1, <1>5 DEF TypeOK, StartPushLoop
<1>6. CASE Elapse
  BY <1>1, <1>6, PushAssumption DEF TypeOK, Elapse
<1>7. CASE Tick
  <2>1. tick' \in BOOLEAN /\ doomed' \in BOOLEAN
    BY <1>1, <1>7 DEF TypeOK, Tick, BeginRound
  <2>2. backoff' \in 0..MaxBackoff
    BY <1>1, <1>7, PushAssumption DEF TypeOK, Tick, BackoffLeft
  <2>3. CASE BackoffLeft > 0 \/ buf = <<>>
    BY <1>1, <1>7, <2>1, <2>2, <2>3 DEF TypeOK, Tick
  <2>4. CASE ~(BackoffLeft > 0 \/ buf = <<>>)
    BY <1>1, <1>7, <2>1, <2>2, <2>4, Empty DEF TypeOK, Tick, BeginRound
  <2> QED
    BY <2>3, <2>4
<1>8. ASSUME NEW b \in BOOLEAN, NEW s \in BOOLEAN, BatchAcked(b, s) PROVE TypeOK'
  <2>1. PICK hi \in 0..Len(captured) : RunsTo(hi)
    BY <1>1 DEF Runs
  <2>2. BatchEnd \in Nat /\ Batch \subseteq 1..Len(captured)
    <3>1. sent < Len(round) /\ sent \in Nat /\ Len(round) \in Nat
      BY <1>1, <1>8, Lengths DEF BatchAcked, TypeOK
    <3>2. BatchEnd \in (sent + 1)..Len(round) /\ Batch \subseteq 1..Len(captured)
      BY <2>1, <3>1, BatchProperties
    <3> QED
      BY <3>1, <3>2
  <2>3. stored' \subseteq 1..Len(captured) /\ acked' \subseteq 1..Len(captured)
    BY <1>1, <1>8, <2>2 DEF TypeOK, BatchAcked
  <2>4. lastSeen' \in Nat
    <3>1. IDsAt(stored') \in SUBSET Nat
      BY <1>1, <2>3, IDsAtAreNat DEF TypeOK
    <3>2. {lastSeen} \cup IDsAt(stored') \in SUBSET Nat
      BY <1>1, <3>1 DEF TypeOK
    <3>3. HighestID({lastSeen} \cup IDsAt(stored')) \in Nat
      BY <3>2, HighestIDIsNat
    <3> QED
      BY <1>1, <1>8, <3>3 DEF TypeOK, BatchAcked
  <2>5. flawed' \in Nat /\ healthy' \in BOOLEAN /\ doomed' \in BOOLEAN
    BY <1>1, <1>8 DEF TypeOK, BatchAcked
  <2> QED
    BY <1>1, <1>8, <2>2, <2>3, <2>4, <2>5 DEF TypeOK, BatchAcked
<1>9. ASSUME NEW b \in BOOLEAN, RoundFailed(b) PROVE TypeOK'
  <2>1. PICK hi \in 0..Len(captured) : RunsTo(hi)
    BY <1>1 DEF Runs
  <2>2. Batch \subseteq 1..Len(captured)
    BY <1>9, <2>1, BatchProperties DEF RoundFailed
  <2>3. buf' \in Seq(Nat)
    BY <1>1, <1>9, <2>1, UnsentProperties, RebufferProperties DEF TypeOK, RoundFailed
  <2>4. backoff' \in 0..MaxBackoff
    BY <1>1, <1>9, NextBackoffInRange DEF TypeOK, RoundFailed
  <2>5. doomed' \in BOOLEAN /\ healthy' \in BOOLEAN
    BY <1>9 DEF RoundFailed
  <2> QED
    BY <1>1, <1>9, <2>2, <2>3, <2>4, <2>5, Empty DEF TypeOK, RoundFailed
<1>10. CASE RoundDone
  <2>1. Advanced \in Nat
    <3>1. SeqRange(round) \subseteq 1..Len(captured)
      <4>1. PICK hi \in 0..Len(captured) : RunsTo(hi)
        BY <1>1 DEF Runs
      <4>2. /\ Len(round) \in Nat /\ Len(captured) \in Nat /\ hi \in Nat /\ born \in Nat
            /\ Len(round) <= hi /\ DOMAIN round = 1..Len(round)
        BY <1>1, <4>1, Lengths, LenProperties DEF TypeOK, RunsTo
      <4>3. \A i \in 1..Len(round) : round[i] = hi - Len(round) + i
        BY <4>1 DEF RunsTo, IsRun
      <4> QED
        BY <4>1, <4>2, <4>3 DEF SeqRange
    <3>2. HighestID(IDsAt(SeqRange(round))) \in Nat
      BY <1>1, <3>1, IDsAtAreNat, HighestIDIsNat DEF TypeOK
    <3> QED
      BY <1>1, <3>2 DEF TypeOK, Advanced
  <2>2. doomed' \in BOOLEAN
    BY <1>10 DEF RoundDone
  <2>3. CASE Mismatch
    <3>1. Capture(0)
      BY <1>10, <2>3 DEF RoundDone
    <3>2. captured' \in Seq(Nat) /\ buf' \in Seq(Nat) /\ Len(captured') = Len(captured) + 1
      BY <3>1, CaptureProperties
    <3> QED
      BY <1>1, <1>10, <2>1, <2>3, <2>2, <3>2, Empty, Lengths, PushAssumption
      DEF TypeOK, RoundDone
  <2>4. CASE ~Mismatch
    BY <1>1, <1>10, <2>1, <2>4, <2>2, Empty DEF TypeOK, RoundDone
  <2> QED
    BY <2>3, <2>4
<1>11. CASE SnapshotDone
  BY <1>1, <1>11, PushAssumption DEF TypeOK, SnapshotDone
<1>12. CASE ShutdownFlush
  BY <1>1, <1>12, Empty DEF TypeOK, ShutdownFlush, BeginRound
<1>13. ASSUME NEW b \in BOOLEAN, FinalReturn(b) PROVE TypeOK'
  <2>1. PICK hi \in 0..Len(captured) : RunsTo(hi)
    BY <1>1 DEF Runs
  <2>2. b => Batch \subseteq 1..Len(captured)
    BY <1>13, <2>1, BatchProperties DEF FinalReturn
  <2> QED
    BY <1>1, <1>13, <2>2, Empty DEF TypeOK, FinalReturn
<1>14. CASE Signal
  BY <1>1, <1>14 DEF TypeOK, Signal
<1>15. CASE LogShutdown
  <2>1. captured' \in Seq(Nat) /\ buf' \in Seq(Nat) /\ Len(captured') = Len(captured) + 1
    BY <1>15, CaptureProperties DEF LogShutdown
  <2> QED
    BY <1>1, <1>15, <2>1, Lengths DEF TypeOK, LogShutdown
<1>16. CASE Gone
  <2>1. ctxDone' \in BOOLEAN /\ doomed' \in BOOLEAN /\ tick' \in BOOLEAN
    BY <1>16 DEF Gone
  <2>2. held' \in [Emitters -> Nat]
    BY <1>16 DEF Gone
  <2> QED
    BY <1>1, <1>16, <2>1, <2>2, Empty, Lengths, PushAssumption DEF TypeOK, Gone
<1>17. CASE Boot
  <2>1. healthy' \in BOOLEAN
    BY <1>17 DEF Boot
  <2> QED
    BY <1>1, <1>17, <2>1 DEF TypeOK, Boot
<1>18. CASE UNCHANGED vars
  BY <1>1, <1>18 DEF TypeOK, vars
<1> QED
  BY <1>2, <1>3, <1>4, <1>5, <1>6, <1>7, <1>8, <1>9, <1>10, <1>11, <1>12, <1>13, <1>14,
     <1>15, <1>16, <1>17, <1>18
  DEF Next, LoggerStep, SpamStep, LoopStep, ProcessStep, Exit, AbortSync, Crash
-----------------------------------------------------------------------------
(* Every step preserves its control part *)

LEMMA ControlStep == IInv /\ [Next]_vars => Control'
<1> SUFFICES ASSUME IInv, [Next]_vars PROVE Control'
  OBVIOUS
<1> USE DEF logVars, mainVars, roundVars, loopVars, spamVars, histVars, Control
<1>1. /\ TypeOK /\ Control /\ Pusher \in Emitters
      /\ Len(round) \in Nat /\ Len(captured) \in Nat /\ Len(<<>>) = 0
  BY Lengths, Empty DEF IInv, Emitters
<1>2. ASSUME NEW g \in Emitters, TakeID(g) PROVE Control'
  <2>1. held'[Pusher] # 0 => pc = "snapshot" /\ snapLeft > 0
    BY <1>1, <1>2 DEF TypeOK, TakeID, MayLog
  <2> QED
    BY <1>1, <1>2, <2>1 DEF TakeID
<1>3. ASSUME NEW g \in Emitters, WriteLine(g) PROVE Control'
  <2>1. held'[Pusher] # 0 => pc = "snapshot" /\ snapLeft' > 0
    BY <1>1, <1>3 DEF TypeOK, WriteLine
  <2> QED
    BY <1>1, <1>3, <2>1 DEF WriteLine, Up
<1>4. ASSUME NEW g \in Emitters, LogOperational(g) PROVE Control'
  BY <1>1, <1>4 DEF LogOperational, MayLog, Up
<1>5. CASE StartPushLoop
  BY <1>1, <1>5 DEF StartPushLoop
<1>6. CASE Elapse
  BY <1>1, <1>6 DEF Elapse
<1>7. CASE Tick
  BY <1>1, <1>7, Lengths DEF Tick, BeginRound, Up
<1>8. ASSUME NEW b \in BOOLEAN, NEW s \in BOOLEAN, BatchAcked(b, s) PROVE Control'
  <2>1. BatchEnd <= Len(round)
    BY <1>1, <1>8, PushAssumption DEF TypeOK, BatchAcked, BatchEnd
  <2> QED
    BY <1>1, <1>8, <2>1 DEF BatchAcked
<1>9. ASSUME NEW b \in BOOLEAN, RoundFailed(b) PROVE Control'
  BY <1>1, <1>9 DEF RoundFailed
<1>10. CASE RoundDone
  BY <1>1, <1>10 DEF RoundDone
<1>11. CASE SnapshotDone
  BY <1>1, <1>11 DEF SnapshotDone
<1>12. CASE ShutdownFlush
  BY <1>1, <1>12, Lengths DEF ShutdownFlush, BeginRound
<1>13. ASSUME NEW b \in BOOLEAN, FinalReturn(b) PROVE Control'
  BY <1>1, <1>13 DEF FinalReturn
<1>14. CASE Signal
  BY <1>1, <1>14 DEF Signal
<1>15. CASE LogShutdown
  BY <1>1, <1>15 DEF LogShutdown
<1>16. CASE Gone
  BY <1>1, <1>16 DEF Gone
<1>17. CASE Boot
  BY <1>1, <1>17 DEF Boot
<1>18. CASE UNCHANGED vars
  BY <1>1, <1>18 DEF vars
<1> QED
  BY <1>2, <1>3, <1>4, <1>5, <1>6, <1>7, <1>8, <1>9, <1>10, <1>11, <1>12, <1>13, <1>14,
     <1>15, <1>16, <1>17, <1>18
  DEF Next, LoggerStep, SpamStep, LoopStep, ProcessStep, Exit, AbortSync, Crash
-----------------------------------------------------------------------------
(* Every step preserves its runs of lines *)

\* A captured line, whatever else changes, leaves the round where it was in relation to
\* the buffer.
LEMMA CaptureKeepsRunsTo ==
    ASSUME IInv, NEW id \in Nat, Capture(id), NEW hi \in 0..Len(captured), RunsTo(hi),
           acked' = acked, born' = born,
           Up' /\ pc' \notin {"final", "done"} => Up /\ pc \notin {"final", "done"},
           \/ round' = round /\ sent' = sent
           \/ round' = <<>> /\ sent' = 0 /\ sent = Len(round)
    PROVE  Runs'
<1>1. /\ Len(captured) \in Nat /\ Len(buf) \in Nat /\ Len(round) \in Nat
      /\ MaxBufferSize \in Nat \ {0} /\ hi \in Nat /\ hi <= Len(captured)
      /\ born \in Nat /\ sent \in Nat /\ acked \subseteq 1..Len(captured)
      /\ Len(<<>>) = 0
  BY Lengths, Empty DEF IInv, TypeOK
<1>2. /\ Len(captured') = Len(captured) + 1
      /\ IsRun(buf', Len(captured'))
      /\ Len(buf') = IF Len(buf) = MaxBufferSize THEN MaxBufferSize ELSE Len(buf) + 1
  BY CaptureProperties
<1>3. /\ hi \in 0..Len(captured')
      /\ Len(buf') <= MaxBufferSize
      /\ hi + Len(buf') <= Len(captured')
      /\ hi + Len(buf') = Len(captured') \/ Len(buf') = MaxBufferSize
  <2>1. Len(buf) <= MaxBufferSize
    BY DEF IInv, Runs
  <2>2. /\ hi + Len(buf) <= Len(captured)
        /\ hi + Len(buf) = Len(captured) \/ Len(buf) = MaxBufferSize
    BY DEF RunsTo
  <2> QED
    BY <1>1, <1>2, <2>1, <2>2
<1>4. hi - Len(round') + sent' = hi - Len(round) + sent
  BY <1>1
<1>5. IsRun(round', hi) /\ born' + Len(round') <= hi
  <2>1. IsRun(round, hi) /\ born + Len(round) <= hi
    BY DEF RunsTo
  <2>2. CASE round' = round
    BY <2>1, <2>2
  <2>3. CASE round' = <<>>
    BY <1>1, <2>1, <2>3 DEF IsRun
  <2> QED
    BY <2>2, <2>3
<1>6. \A a \in acked' : a <= hi - Len(round') + sent'
  BY <1>4 DEF RunsTo
<1>7. ASSUME Up', pc' \notin {"final", "done"},
             NEW p \in (born' + 1)..(hi - Len(round') + sent'),
             p > Len(captured') - MaxBufferSize
      PROVE  p \in acked'
  <2>1. p \in (born + 1)..(hi - Len(round) + sent)
    BY <1>4
  <2>2. p > Len(captured) - MaxBufferSize
    BY <1>1, <1>2, <1>7, <2>1
  <2> QED
    BY <1>7, <2>1, <2>2 DEF RunsTo
<1>8. RunsTo(hi)'
  BY <1>3, <1>5, <1>6, <1>7 DEF RunsTo
<1> QED
  BY <1>2, <1>3, <1>8 DEF Runs

\* Flush: the buffer becomes the round (push.go:97-103, 119-120).
LEMMA FlushKeepsRuns ==
    ASSUME IInv, pc = "wait", round' = buf, buf' = <<>>, sent' = 0, Up,
           captured' = captured, acked' = acked, born' = born
    PROVE  Runs'
<1>1. PICK hi \in 0..Len(captured) : RunsTo(hi)
  BY DEF IInv, Runs
<1>2. /\ Len(captured) \in Nat /\ Len(buf) \in Nat /\ hi \in Nat /\ born \in Nat
      /\ MaxBufferSize \in Nat \ {0}
      /\ round = <<>> /\ sent = 0 /\ Len(<<>>) = 0
      /\ acked \subseteq 1..Len(captured)
      /\ IsRun(buf, Len(captured)) /\ Len(buf) <= MaxBufferSize
  BY <1>1, Lengths, Empty DEF IInv, TypeOK, Control, Runs
<1>3. /\ born <= hi /\ hi + Len(buf) <= Len(captured)
      /\ hi + Len(buf) = Len(captured) \/ Len(buf) = MaxBufferSize
      /\ \A a \in acked : a <= hi
      /\ \A p \in (born + 1)..hi : p > Len(captured) - MaxBufferSize => p \in acked
  BY <1>1, <1>2 DEF RunsTo
<1>4. IsRun(buf', Len(captured')) /\ Len(buf') <= MaxBufferSize
  BY <1>2 DEF IsRun
<1>5. \A a \in acked' : a <= Len(captured) - Len(round') + sent'
  BY <1>2, <1>3
<1>6. ASSUME NEW p \in (born' + 1)..(Len(captured) - Len(round') + sent'),
             p > Len(captured') - MaxBufferSize
      PROVE  p \in acked'
  <2>1. p \in (born + 1)..hi
    BY <1>2, <1>3, <1>6
  <2> QED
    BY <1>3, <1>6, <2>1
<1>7. RunsTo(Len(captured))'
  BY <1>2, <1>3, <1>5, <1>6 DEF RunsTo, IsRun
<1> QED
  BY <1>2, <1>4, <1>7 DEF Runs
\* A step that changes none of the lines.
LEMMA IdleKeepsRuns ==
    ASSUME IInv, captured' = captured, buf' = buf, acked' = acked, born' = born,
           Up' /\ pc' \notin {"final", "done"} => Up /\ pc \notin {"final", "done"},
           round' = round, sent' = sent
    PROVE  Runs'
<1>1. PICK hi \in 0..Len(captured) : RunsTo(hi)
  BY DEF IInv, Runs
<1>2. RunsTo(hi)'
  BY <1>1 DEF RunsTo, IsRun
<1>3. IsRun(buf', Len(captured')) /\ Len(buf') <= MaxBufferSize
  BY DEF IInv, Runs
<1> QED
  BY <1>1, <1>2, <1>3 DEF Runs

\* A failed round goes back in front of the buffer (push.go:63-75, 126).
LEMMA RebufferKeepsRuns ==
    ASSUME IInv, Up, pc = "sending", buf' = Rebuffer(Unsent, buf), round' = <<>>, sent' = 0,
           captured' = captured, acked' = acked, born' = born
    PROVE  Runs'
<1>1. PICK hi \in 0..Len(captured) : RunsTo(hi)
  BY DEF IInv, Runs
<1>2. /\ Len(captured) \in Nat /\ Len(buf) \in Nat /\ Len(round) \in Nat /\ hi \in Nat
      /\ born \in Nat /\ sent \in Nat /\ sent <= Len(round)
      /\ MaxBufferSize \in Nat \ {0} /\ Len(<<>>) = 0
      /\ buf \in Seq(Nat) /\ acked \subseteq 1..Len(captured)
  BY <1>1, Lengths, Empty DEF IInv, TypeOK, Control
<1>3. IsRun(buf, Len(captured)) /\ Len(buf) <= MaxBufferSize
  BY DEF IInv, Runs
<1>4. /\ born + Len(round) <= hi /\ hi + Len(buf) <= Len(captured)
      /\ hi + Len(buf) = Len(captured) \/ Len(buf) = MaxBufferSize
  BY <1>1 DEF RunsTo
<1>5. /\ \A a \in acked : a <= hi - Len(round) + sent
      /\ \A p \in (born + 1)..(hi - Len(round) + sent) :
            p > Len(captured) - MaxBufferSize => p \in acked
  BY <1>1 DEF RunsTo
<1>6. Unsent \in Seq(Nat) /\ Len(Unsent) = Len(round) - sent /\ IsRun(Unsent, hi)
  BY <1>1, UnsentProperties
<1>7. Len(buf') = IF Len(Unsent) + Len(buf) > MaxBufferSize THEN MaxBufferSize
                                                            ELSE Len(Unsent) + Len(buf)
  BY <1>2, <1>6, RebufferProperties
<1>8. IsRun(buf', Len(captured'))
  BY <1>2, <1>3, <1>4, <1>6, RebufferRun
<1>9. /\ Len(buf') \in Nat /\ Len(buf') <= MaxBufferSize
      /\ Len(buf') <= Len(round) - sent + Len(buf)
      /\ \/ Len(buf') = MaxBufferSize
         \/ Len(buf') = Len(round) - sent + Len(buf) /\ hi + Len(buf) = Len(captured)
  <2>1. Len(buf') = IF (Len(round) - sent) + Len(buf) > MaxBufferSize
                    THEN MaxBufferSize ELSE (Len(round) - sent) + Len(buf)
    BY <1>6, <1>7
  <2> QED
    BY <1>2, <1>3, <1>4, <2>1
<1>10. PICK top \in 0..Len(captured) : top = Len(captured) - Len(buf')
  <2>1. Len(round) - sent + Len(buf) <= Len(captured)
    BY <1>2, <1>4
  <2>2. Len(captured) - Len(buf') \in 0..Len(captured)
    BY <1>2, <1>9, <2>1
  <2> QED
    BY <2>2
<1>11. /\ born <= top
       /\ top >= hi - Len(round) + sent
       /\ top = hi - Len(round) + sent \/ Len(buf') = MaxBufferSize
  <2>1. top >= hi - Len(round) + sent
    <3>1. top >= Len(captured) - (Len(round) - sent + Len(buf))
      BY <1>2, <1>9, <1>10
    <3> QED
      BY <1>2, <1>4, <1>10, <3>1
  <2>2. born <= top
    BY <1>2, <1>4, <1>10, <2>1
  <2>3. CASE Len(buf') = Len(round) - sent + Len(buf) /\ hi + Len(buf) = Len(captured)
    BY <1>2, <1>10, <2>1, <2>2, <2>3
  <2>4. CASE Len(buf') = MaxBufferSize
    BY <2>1, <2>2, <2>4
  <2> QED
    BY <1>9, <2>3, <2>4
<1>12. ASSUME NEW p \in (born' + 1)..top, p > Len(captured') - MaxBufferSize
      PROVE  p \in acked'
  <2>1. top = hi - Len(round) + sent
    BY <1>2, <1>9, <1>10, <1>11, <1>12
  <2> QED
    BY <1>5, <1>12, <2>1
<1>13. \A a \in acked' : a <= top
  BY <1>2, <1>5, <1>11
<1>14. /\ IsRun(round', top) /\ born' + Len(round') <= top /\ top - Len(round') + sent' = top
       /\ top + Len(buf') = Len(captured')
  BY <1>2, <1>9, <1>10, <1>11 DEF IsRun
<1>15. RunsTo(top)'
  BY <1>12, <1>13, <1>14 DEF RunsTo
<1> QED
  BY <1>2, <1>8, <1>9, <1>15 DEF Runs

\* A batch answered 200 moves the boundary between ACKed and unsent (push.go:150-176).
LEMMA BatchKeepsRuns ==
    ASSUME IInv, sent < Len(round), sent' = BatchEnd, acked' = acked \cup Batch,
           captured' = captured, buf' = buf, round' = round, born' = born, pc' = pc, Up' = Up
    PROVE  Runs'
<1>1. PICK hi \in 0..Len(captured) : RunsTo(hi)
  BY DEF IInv, Runs
<1>2. /\ Len(captured) \in Nat /\ Len(round) \in Nat /\ hi \in Nat /\ born \in Nat
      /\ sent \in Nat /\ acked \subseteq 1..Len(captured)
  BY <1>1, Lengths DEF IInv, TypeOK
<1>3. /\ BatchEnd \in (sent + 1)..Len(round)
      /\ Batch = (hi - Len(round) + sent + 1)..(hi - Len(round) + BatchEnd)
  BY <1>1, BatchProperties
<1>4. \A a \in acked' : a <= hi - Len(round') + sent'
  <2>1. \A a \in acked : a <= hi - Len(round) + sent
    BY <1>1 DEF RunsTo
  <2> QED
    BY <1>2, <1>3, <2>1
<1>5. ASSUME Up', pc' \notin {"final", "done"},
             NEW p \in (born' + 1)..(hi - Len(round') + sent'),
             p > Len(captured') - MaxBufferSize
      PROVE  p \in acked'
  <2>1. CASE p <= hi - Len(round) + sent
    <3>1. p \in (born + 1)..(hi - Len(round) + sent)
      BY <1>2, <1>3, <2>1
    <3> QED
      BY <1>1, <1>5, <3>1 DEF RunsTo
  <2>2. CASE p > hi - Len(round) + sent
    BY <1>2, <1>3, <2>2
  <2> QED
    BY <1>2, <1>3, <2>1, <2>2
<1>6. RunsTo(hi)'
  BY <1>1, <1>4, <1>5 DEF RunsTo, IsRun
<1>7. IsRun(buf', Len(captured')) /\ Len(buf') <= MaxBufferSize
  BY DEF IInv, Runs
<1> QED
  BY <1>1, <1>6, <1>7 DEF Runs
\* A round that succeeded, or the final one however it ended, leaves nothing behind
\* (push.go:105, 131).
LEMMA EndKeepsRuns ==
    ASSUME IInv, captured' = captured, buf' = buf, acked' = acked, born' = born, Up' = Up,
           round' = <<>>, sent' = 0,
           pc' = "done" \/ (Up /\ pc = "sending" /\ sent = Len(round))
    PROVE  Runs'
<1>1. PICK hi \in 0..Len(captured) : RunsTo(hi)
  BY DEF IInv, Runs
<1>2. /\ Len(captured) \in Nat /\ Len(round) \in Nat /\ hi \in Nat /\ born \in Nat
      /\ sent \in Nat /\ sent <= Len(round) /\ acked \subseteq 1..Len(captured)
      /\ Len(<<>>) = 0
  BY <1>1, Lengths, Empty DEF IInv, TypeOK, Control
<1>3. IsRun(round', hi) /\ born' + Len(round') <= hi
  BY <1>1, <1>2 DEF RunsTo, IsRun
<1>4. \A a \in acked' : a <= hi - Len(round') + sent'
  <2>1. \A a \in acked : a <= hi - Len(round) + sent
    BY <1>1 DEF RunsTo
  <2> QED
    BY <1>2, <2>1
<1>5. ASSUME Up', pc' \notin {"final", "done"},
             NEW p \in (born' + 1)..(hi - Len(round') + sent'),
             p > Len(captured') - MaxBufferSize
      PROVE  p \in acked'
  <2>1. p \in (born + 1)..(hi - Len(round) + sent)
    BY <1>2, <1>5
  <2> QED
    BY <1>1, <1>5, <2>1 DEF RunsTo
<1>6. RunsTo(hi)'
  BY <1>1, <1>3, <1>4, <1>5 DEF RunsTo
<1>7. IsRun(buf', Len(captured')) /\ Len(buf') <= MaxBufferSize
  BY DEF IInv, Runs
<1> QED
  BY <1>1, <1>6, <1>7 DEF Runs

LEMMA RunsStep == IInv /\ [Next]_vars => Runs'
<1> SUFFICES ASSUME IInv, [Next]_vars PROVE Runs'
  OBVIOUS
<1> USE DEF logVars, mainVars, roundVars, loopVars, spamVars, histVars, Up
<1>0. PICK hi \in 0..Len(captured) : RunsTo(hi)
  BY DEF IInv, Runs
<1>1. TypeOK /\ Control
  BY DEF IInv
<1>2. ASSUME NEW g \in Emitters, TakeID(g) PROVE Runs'
  BY <1>2, IdleKeepsRuns DEF TakeID
<1>3. ASSUME NEW g \in Emitters, WriteLine(g) PROVE Runs'
  <2>1. held[g] \in Nat
    BY <1>1 DEF TypeOK
  <2> QED
    BY <1>0, <1>3, <2>1, CaptureKeepsRunsTo DEF WriteLine
<1>4. ASSUME NEW g \in Emitters, LogOperational(g) PROVE Runs'
  BY <1>0, <1>4, CaptureKeepsRunsTo DEF LogOperational
<1>5. CASE StartPushLoop
  <2>1. Up /\ Up' /\ pc = "off"
    BY <1>1, <1>5 DEF StartPushLoop, Control
  <2> QED
    BY <1>5, <2>1, IdleKeepsRuns DEF StartPushLoop
<1>6. CASE Elapse
  BY <1>6, IdleKeepsRuns DEF Elapse
<1>7. CASE Tick
  <2>1. CASE BackoffLeft > 0 \/ buf = <<>>
    BY <1>7, <2>1, IdleKeepsRuns DEF Tick
  <2>2. CASE ~(BackoffLeft > 0 \/ buf = <<>>)
    BY <1>7, <2>2, FlushKeepsRuns DEF Tick, BeginRound
  <2> QED
    BY <2>1, <2>2
<1>8. ASSUME NEW b \in BOOLEAN, NEW s \in BOOLEAN, BatchAcked(b, s) PROVE Runs'
  BY <1>8, BatchKeepsRuns DEF BatchAcked
<1>9. ASSUME NEW b \in BOOLEAN, RoundFailed(b) PROVE Runs'
  BY <1>9, RebufferKeepsRuns DEF RoundFailed
<1>10. CASE RoundDone
  <2>1. CASE Mismatch
    BY <1>0, <1>10, <2>1, CaptureKeepsRunsTo DEF RoundDone
  <2>2. CASE ~Mismatch
    BY <1>10, <2>2, EndKeepsRuns DEF RoundDone
  <2> QED
    BY <2>1, <2>2
<1>11. CASE SnapshotDone
  BY <1>11, IdleKeepsRuns DEF SnapshotDone
<1>12. CASE ShutdownFlush
  BY <1>12, FlushKeepsRuns DEF ShutdownFlush, BeginRound
<1>13. ASSUME NEW b \in BOOLEAN, FinalReturn(b) PROVE Runs'
  BY <1>13, EndKeepsRuns DEF FinalReturn
<1>14. CASE Signal
  BY <1>14, IdleKeepsRuns DEF Signal
<1>15. CASE LogShutdown
  BY <1>0, <1>15, CaptureKeepsRunsTo DEF LogShutdown
<1>16. CASE Gone
  <2>1. /\ Len(captured) \in Nat /\ acked \subseteq 1..Len(captured) /\ Len(<<>>) = 0
        /\ MaxBufferSize \in Nat \ {0}
    BY <1>1, Lengths, Empty DEF TypeOK
  <2>2. /\ captured' = captured /\ acked' = acked /\ born' = Len(captured) /\ ~Up'
        /\ round' = <<>> /\ buf' = <<>> /\ sent' = 0
    BY <1>16 DEF Gone
  <2>3. RunsTo(Len(captured))'
    BY <2>1, <2>2 DEF RunsTo, IsRun
  <2> QED
    BY <2>1, <2>2, <2>3 DEF Runs, IsRun
<1>17. CASE Boot
  <2>1. /\ Len(captured) \in Nat /\ hi \in Nat /\ hi <= Len(captured)
        /\ round = <<>> /\ sent = 0 /\ born = Len(captured) /\ Len(<<>>) = 0
    BY <1>0, <1>1, <1>17, Lengths, Empty DEF Control, Boot
  <2>2. /\ captured' = captured /\ acked' = acked /\ born' = born
        /\ round' = round /\ buf' = buf /\ sent' = sent
    BY <1>17 DEF Boot
  <2>3. (born' + 1)..(hi - Len(round') + sent') = {}
    BY <2>1, <2>2
  <2>4. RunsTo(hi)'
    BY <1>0, <2>2, <2>3 DEF RunsTo, IsRun
  <2> QED
    BY <1>0, <2>2, <2>4 DEF IInv, Runs, IsRun
<1>18. CASE UNCHANGED vars
  BY <1>18, IdleKeepsRuns DEF vars
<1> QED
  BY <1>2, <1>3, <1>4, <1>5, <1>6, <1>7, <1>8, <1>9, <1>10, <1>11, <1>12, <1>13, <1>14,
     <1>15, <1>16, <1>17, <1>18
  DEF Next, LoggerStep, SpamStep, LoopStep, ProcessStep, Exit, AbortSync, Crash

-----------------------------------------------------------------------------
(* Theorems *)

\* The strengthened invariant is an invariant.
THEOREM Inductive == Spec => []IInv
<1>1. Init => IInv
  BY InitIInv
<1>2. IInv /\ [Next]_vars => IInv'
  BY TypeStep, ControlStep, RunsStep DEF IInv
<1> QED
  BY <1>1, <1>2, PTL DEF Spec

\* Every variable of the delivery path keeps its type; in particular backoff stays within
\* its cap and SPAM only ever holds lines that were captured.
THEOREM TypeCorrect == Spec => []TypeOK
<1>1. IInv => TypeOK
  BY DEF IInv
<1> QED
  BY <1>1, Inductive, PTL

\* A run of lines is an interval of positions.
LEMMA RunIsInterval ==
    ASSUME NEW s \in Seq(Nat), NEW top \in Nat, IsRun(s, top)
    PROVE  SeqRange(s) = (top - Len(s) + 1)..top
<1>1. Len(s) \in Nat /\ DOMAIN s = 1..Len(s)
  BY LenProperties
<1>2. \A i \in 1..Len(s) : s[i] = top - Len(s) + i
  BY DEF IsRun
<1>3. ASSUME NEW x \in SeqRange(s) PROVE x \in (top - Len(s) + 1)..top
  BY <1>1, <1>2 DEF SeqRange
<1>4. ASSUME NEW x \in (top - Len(s) + 1)..top PROVE x \in SeqRange(s)
  <2>1. x - top + Len(s) \in 1..Len(s)
    BY <1>1
  <2>2. s[x - top + Len(s)] = top - Len(s) + (x - top + Len(s))
    BY <1>2, <2>1
  <2>3. s[x - top + Len(s)] = x
    BY <1>1, <2>2
  <2> QED
    BY <1>1, <2>1, <2>3 DEF SeqRange
<1> QED
  BY <1>3, <1>4

\* The lines waiting are exactly the two runs: the unsent tail of the round, the buffer.
LEMMA PendingIsTwoRuns ==
    ASSUME IInv, NEW hi \in 0..Len(captured), RunsTo(hi)
    PROVE  Pending = ((hi - Len(round) + sent + 1)..hi)
                     \cup ((Len(captured) - Len(buf) + 1)..Len(captured))
<1>1. /\ Len(captured) \in Nat /\ Len(buf) \in Nat /\ Len(round) \in Nat /\ sent \in Nat
      /\ hi \in Nat /\ buf \in Seq(Nat) /\ sent <= Len(round)
  BY Lengths DEF IInv, TypeOK, Control
<1>2. \A s \in Seq(Nat), top \in Nat :
         IsRun(s, top) => SeqRange(s) = (top - Len(s) + 1)..top
  BY RunIsInterval
<1>3. SeqRange(buf) = (Len(captured) - Len(buf) + 1)..Len(captured)
  BY <1>1, <1>2 DEF IInv, Runs
<1>4. SeqRange(Unsent) = (hi - Len(round) + sent + 1)..hi
  <2>1. Unsent \in Seq(Nat) /\ Len(Unsent) = Len(round) - sent /\ IsRun(Unsent, hi)
    BY UnsentProperties
  <2>2. SeqRange(Unsent) = (hi - Len(Unsent) + 1)..hi
    BY <1>1, <1>2, <2>1
  <2>3. hi - Len(Unsent) + 1 = hi - Len(round) + sent + 1
    BY <1>1, <2>1
  <2> QED
    BY <2>2, <2>3
<1> QED
  BY <1>3, <1>4 DEF Pending

\* No failure, backoff, reconcile or overflow loses one of the newest MaxBufferSize lines
\* of a running process: each is ACKed, in flight or buffered.
THEOREM NeverLost == Spec => []NewestNeverLost
<1>1. IInv => NewestNeverLost
  <2> SUFFICES ASSUME IInv, Up, pc \notin {"final", "done"},
                      NEW p \in (born + 1)..Len(captured),
                      p > Len(captured) - MaxBufferSize
               PROVE  p \in acked \cup Pending
    BY DEF NewestNeverLost
  <2>1. PICK hi \in 0..Len(captured) : RunsTo(hi)
    BY DEF IInv, Runs
  <2>2. /\ Len(captured) \in Nat /\ Len(buf) \in Nat /\ Len(round) \in Nat /\ sent \in Nat
        /\ hi \in Nat /\ born \in Nat /\ MaxBufferSize \in Nat
    BY <2>1, Lengths DEF IInv, TypeOK
  <2>3. hi + Len(buf) = Len(captured) \/ Len(buf) = MaxBufferSize
    BY <2>1 DEF RunsTo
  <2>4. CASE p <= hi - Len(round) + sent
    BY <2>1, <2>2, <2>4 DEF RunsTo
  <2>5. CASE p \in (hi - Len(round) + sent + 1)..hi
    BY <2>1, <2>5, PendingIsTwoRuns
  <2>6. CASE p \in (Len(captured) - Len(buf) + 1)..Len(captured)
    BY <2>1, <2>6, PendingIsTwoRuns
  <2> QED
    BY <2>2, <2>3, <2>4, <2>5, <2>6
<1> QED
  BY <1>1, Inductive, PTL

\* What SPAM has ACKed is never sent again in front of what waits, and lines are ACKed in
\* the order of capture.
THEOREM InOrder == Spec => []AckedBeforePending
<1>1. IInv => AckedBeforePending
  <2> SUFFICES ASSUME IInv, NEW a \in acked, NEW p \in Pending
               PROVE  a < p
    BY DEF AckedBeforePending
  <2>1. PICK hi \in 0..Len(captured) : RunsTo(hi)
    BY DEF IInv, Runs
  <2>2. /\ Len(captured) \in Nat /\ Len(buf) \in Nat /\ Len(round) \in Nat /\ sent \in Nat
        /\ hi \in Nat /\ sent <= Len(round) /\ a \in Nat
    BY <2>1, Lengths DEF IInv, TypeOK, Control
  <2>3. a <= hi - Len(round) + sent /\ hi + Len(buf) <= Len(captured)
    BY <2>1 DEF RunsTo
  <2>4. \/ p \in (hi - Len(round) + sent + 1)..hi
        \/ p \in (Len(captured) - Len(buf) + 1)..Len(captured)
    BY <2>1, PendingIsTwoRuns
  <2> QED
    BY <2>2, <2>3, <2>4
<1> QED
  BY <1>1, Inductive, PTL

-----------------------------------------------------------------------------
(* The delivery path implements Outbox: every step of it is a step of Outbox or stutters *)

\* Nothing is left to send of an empty round.
LEMMA EmptyTail == SeqRange(SubSeq(<<>>, 0 + 1, Len(<<>>))) = {}
<1>1. <<>> \in Seq(Nat) /\ Len(<<>>) = 0 /\ \A i \in 1..0 : <<>>[i] \in Nat
  BY Empty
<1>2. SubSeq(<<>>, 1, 0) \in Seq(Nat) /\ Len(SubSeq(<<>>, 1, 0)) = 0
  BY <1>1, SubSeqProperties
<1>3. DOMAIN SubSeq(<<>>, 1, 0) = {}
  BY <1>2, LenProperties
<1> QED
  BY <1>1, <1>3 DEF SeqRange

\* What is left to send of a round that is a run, after n of its lines were ACKed.
LEMMA TailIsInterval ==
    ASSUME NEW r \in Seq(Nat), NEW n \in Nat, n <= Len(r), NEW hi \in Nat, IsRun(r, hi)
    PROVE  SeqRange(SubSeq(r, n + 1, Len(r))) = (hi - Len(r) + n + 1)..hi
<1> DEFINE tail == SubSeq(r, n + 1, Len(r))
<1>1. Len(r) \in Nat /\ \A i \in 1..Len(r) : r[i] = hi - Len(r) + i
  BY LenProperties DEF IsRun
<1>2. \A i \in (n + 1)..Len(r) : r[i] \in Nat
  BY <1>1, ElementOfSeq
<1>3. /\ tail \in Seq(Nat)
      /\ Len(tail) = IF n + 1 <= Len(r) THEN Len(r) - (n + 1) + 1 ELSE 0
      /\ \A i \in 1..(Len(r) - (n + 1) + 1) : tail[i] = r[(n + 1) + i - 1]
  <2>1. n + 1 \in Int /\ Len(r) \in Int
    BY <1>1
  <2> HIDE DEF tail
  <2>2. tail = SubSeq(r, n + 1, Len(r))
    BY DEF tail
  <2> QED
    BY <2>1, <2>2, <1>2, SubSeqProperties
<1> HIDE DEF tail
<1>4. Len(tail) = Len(r) - n
  BY <1>1, <1>3
<1>5. ASSUME NEW i \in 1..Len(tail) PROVE tail[i] = hi - Len(tail) + i
  <2>1. i \in 1..(Len(r) - (n + 1) + 1) /\ (n + 1) + i - 1 = n + i /\ n + i \in 1..Len(r)
    BY <1>1, <1>4
  <2>2. tail[i] = r[(n + 1) + i - 1] /\ r[n + i] = hi - Len(r) + (n + i)
    BY <1>1, <1>3, <2>1
  <2> QED
    BY <1>1, <1>4, <2>1, <2>2
<1>6. SeqRange(tail) = (hi - Len(tail) + 1)..hi
  BY <1>3, <1>5, RunIsInterval DEF IsRun
<1>7. hi - Len(tail) + 1 = hi - Len(r) + n + 1
  BY <1>1, <1>4
<1>8. SeqRange(tail) = (hi - Len(r) + n + 1)..hi
  BY <1>6, <1>7
<1> QED
  BY <1>8 DEF tail

\* A line is captured: it is accepted, and at most the oldest waiting one is displaced.
LEMMA CaptureAccepts ==
    ASSUME IInv, NEW id \in Nat, Capture(id), acked' = acked,
           (pc' \in {"final", "done"}) = (pc \in {"final", "done"}),
           Unsent' = Unsent \/ (Pending = SeqRange(buf) /\ Pending' = SeqRange(buf'))
    PROVE  Promise!Accept
<1>1. /\ Len(captured) \in Nat /\ Len(buf) \in Nat /\ MaxBufferSize \in Nat \ {0}
      /\ buf \in Seq(Nat) /\ IsRun(buf, Len(captured)) /\ Len(buf) <= MaxBufferSize
  BY Lengths DEF IInv, TypeOK, Runs
<1>2. /\ buf' \in Seq(Nat) /\ Len(captured') = Len(captured) + 1
      /\ IsRun(buf', Len(captured'))
      /\ Len(buf') = IF Len(buf) = MaxBufferSize THEN MaxBufferSize ELSE Len(buf) + 1
  BY CaptureProperties
<1>3. SeqRange(buf) = (Len(captured) - Len(buf) + 1)..Len(captured)
  BY <1>1, RunIsInterval
<1>4. SeqRange(buf') = (Len(captured') - Len(buf') + 1)..Len(captured')
  <2>1. Len(captured') \in Nat
    BY <1>1, <1>2
  <2> QED
    BY <1>2, <2>1, RunIsInterval
<1>5. /\ SeqRange(buf') \subseteq SeqRange(buf) \cup {Len(captured) + 1}
      /\ Len(captured) + 1 \in SeqRange(buf')
      /\ \A p \in SeqRange(buf) \ SeqRange(buf') : p <= (Len(captured) + 1) - MaxBufferSize
  <2>1. \A n, m, c, n1 \in Nat :
           n <= m /\ m # 0 /\ n1 = (IF n = m THEN m ELSE n + 1)
           => /\ ((c + 1) - n1 + 1)..(c + 1) \subseteq ((c - n + 1)..c) \cup {c + 1}
              /\ c + 1 \in ((c + 1) - n1 + 1)..(c + 1)
              /\ \A p \in ((c - n + 1)..c) \ (((c + 1) - n1 + 1)..(c + 1)) : p <= (c + 1) - m
    OBVIOUS
  <2>2. /\ Len(buf') \in Nat
        /\ SeqRange(buf') = ((Len(captured) + 1) - Len(buf') + 1)..(Len(captured) + 1)
    BY <1>2, <1>4, LenProperties
  <2>3. /\ ((Len(captured) + 1) - Len(buf') + 1)..(Len(captured) + 1)
           \subseteq ((Len(captured) - Len(buf) + 1)..Len(captured)) \cup {Len(captured) + 1}
        /\ Len(captured) + 1 \in ((Len(captured) + 1) - Len(buf') + 1)..(Len(captured) + 1)
        /\ \A p \in ((Len(captured) - Len(buf) + 1)..Len(captured))
                     \ (((Len(captured) + 1) - Len(buf') + 1)..(Len(captured) + 1)) :
              p <= (Len(captured) + 1) - MaxBufferSize
    BY <1>1, <1>2, <2>1, <2>2
  <2> QED
    BY <1>3, <2>2, <2>3
<1>6. /\ Pending' \subseteq Pending \cup {Len(captured) + 1}
      /\ Len(captured) + 1 \in Pending'
      /\ Pending \ Pending' \subseteq SeqRange(buf) \ SeqRange(buf')
  <2>1. CASE Unsent' = Unsent
    BY <1>5, <2>1 DEF Pending, SeqRange
  <2>2. CASE Pending = SeqRange(buf) /\ Pending' = SeqRange(buf')
    BY <1>5, <2>2
  <2> QED
    BY <2>1, <2>2
<1>7. PICK lost : lost = Pending \ Pending'
  OBVIOUS
<1>8. lost \in SUBSET Promise!Displaced(Len(captured) + 1)
  <2>1. lost \subseteq {p \in Pending : p <= (Len(captured) + 1) - MaxBufferSize}
    BY <1>5, <1>6, <1>7
  <2>2. Promise!Displaced(Len(captured) + 1)
        = {p \in Pending : p <= (Len(captured) + 1) - MaxBufferSize}
    BY Zenon DEF Promise!Displaced
  <2> QED
    BY <2>1, <2>2
<1>9. Pending' = (Pending \cup {Len(captured) + 1}) \ lost
  BY <1>6, <1>7
<1> QED
  BY <1>2, <1>8, <1>9 DEF Promise!Accept

\* A batch is ACKed: it is every waiting line up to its last one.
LEMMA AckDelivers ==
    ASSUME IInv, NEW b \in BOOLEAN, NEW s \in BOOLEAN, BatchAcked(b, s)
    PROVE  Promise!Deliver
<1> USE DEF logVars
<1>0. TypeOK /\ Runs
  BY DEF IInv
<1>1. PICK hi \in 0..Len(captured) : RunsTo(hi)
  BY DEF IInv, Runs
<1>2. /\ sent < Len(round) /\ sent' = BatchEnd /\ acked' = acked \cup Batch
      /\ captured' = captured /\ buf' = buf /\ round' = round /\ pc' = pc
  BY DEF BatchAcked
<1>3. /\ Len(captured) \in Nat /\ Len(buf) \in Nat /\ Len(round) \in Nat /\ hi \in Nat
      /\ sent \in Nat /\ hi + Len(buf) <= Len(captured)
  <2>1. Len(captured) \in Nat /\ Len(buf) \in Nat /\ Len(round) \in Nat /\ sent \in Nat
    BY <1>0, Lengths DEF TypeOK
  <2> QED
    BY <1>1, <2>1 DEF RunsTo
<1>4. /\ BatchEnd \in (sent + 1)..Len(round)
      /\ Batch = (hi - Len(round) + sent + 1)..(hi - Len(round) + BatchEnd)
  BY <1>1, <1>2, BatchProperties
<1>6. Pending = ((hi - Len(round) + sent + 1)..hi)
                \cup ((Len(captured) - Len(buf) + 1)..Len(captured))
  BY <1>1, PendingIsTwoRuns
<1>7. Pending' = ((hi - Len(round) + BatchEnd + 1)..hi)
                 \cup ((Len(captured) - Len(buf) + 1)..Len(captured))
  <2>1. round \in Seq(Nat) /\ buf \in Seq(Nat) /\ IsRun(round, hi) /\ IsRun(buf, Len(captured))
    BY <1>0, <1>1 DEF TypeOK, Runs, RunsTo
  <2>2. BatchEnd \in Nat /\ BatchEnd <= Len(round)
    BY <1>3, <1>4
  <2>3. SeqRange(SubSeq(round, BatchEnd + 1, Len(round))) = (hi - Len(round) + BatchEnd + 1)..hi
    BY <1>3, <2>1, <2>2, TailIsInterval
  <2>4. SeqRange(buf) = (Len(captured) - Len(buf) + 1)..Len(captured)
    BY <1>3, <2>1, RunIsInterval
  <2>5. Unsent' = SubSeq(round, BatchEnd + 1, Len(round))
    BY <1>2 DEF Unsent
  <2> QED
    BY <1>2, <2>3, <2>4, <2>5 DEF Pending
<1> DEFINE last == hi - Len(round) + BatchEnd
<1>8. last \in Pending
  BY <1>3, <1>4, <1>6
<1>9. {p \in Pending : p <= last} = Batch
  BY <1>3, <1>4, <1>6
<1>10. Pending' = Pending \ Batch
  BY <1>3, <1>4, <1>6, <1>7
<1> QED
  BY <1>2, <1>8, <1>9, <1>10 DEF Promise!Deliver

\* A failed round goes back: only lines displaced by newer ones are given up.
LEMMA FailureDisplaces ==
    ASSUME IInv, IInv', NEW b \in BOOLEAN, RoundFailed(b)
    PROVE  Promise!Displace
<1>0. TypeOK /\ Control /\ Runs
  BY DEF IInv
<1>1. PICK hi \in 0..Len(captured) : RunsTo(hi)
  BY DEF IInv, Runs
<1>2. /\ buf' = Rebuffer(Unsent, buf) /\ round' = <<>> /\ sent' = 0
      /\ captured' = captured /\ acked' = acked /\ pc = "sending" /\ pc' = "wait"
  BY DEF RoundFailed
<1>3. /\ Len(captured) \in Nat /\ Len(buf) \in Nat /\ Len(round) \in Nat /\ hi \in Nat
      /\ sent \in Nat /\ sent <= Len(round) /\ buf \in Seq(Nat) /\ MaxBufferSize \in Nat
  BY <1>0, <1>1, Lengths DEF TypeOK, Control
<1>4. /\ hi + Len(buf) <= Len(captured)
      /\ hi + Len(buf) = Len(captured) \/ Len(buf) = MaxBufferSize
      /\ Len(buf) <= MaxBufferSize
  BY <1>0, <1>1 DEF RunsTo, Runs
<1>5. Unsent \in Seq(Nat) /\ Len(Unsent) = Len(round) - sent
  BY <1>1, UnsentProperties
<1>6. Len(buf') = IF (Len(round) - sent) + Len(buf) > MaxBufferSize
                  THEN MaxBufferSize ELSE (Len(round) - sent) + Len(buf)
  BY <1>2, <1>3, <1>5, RebufferProperties
<1>7. Pending = ((hi - Len(round) + sent + 1)..hi)
                \cup ((Len(captured) - Len(buf) + 1)..Len(captured))
  BY <1>1, PendingIsTwoRuns
<1>8. Pending' = (Len(captured) - Len(buf') + 1)..Len(captured)
  <2>1. Pending' = SeqRange(buf')
    BY <1>2, EmptyTail DEF Pending, Unsent
  <2>2. buf' \in Seq(Nat) /\ IsRun(buf', Len(captured)) /\ Len(captured) \in Nat
    BY <1>2, <1>3 DEF IInv, TypeOK, Runs, IsRun
  <2> QED
    BY <2>1, <2>2, RunIsInterval
<1>9. /\ \/ Len(buf') = Len(buf)
         \/ Len(buf') <= (Len(round) - sent) + Len(buf) /\ hi + Len(buf) = Len(captured)
      /\ \/ Len(buf') = MaxBufferSize
         \/ Len(buf') = (Len(round) - sent) + Len(buf)
      /\ Len(buf') \in Nat
  BY <1>3, <1>4, <1>6
<1>10. Pending' \subseteq Pending /\ \A p \in Pending \ Pending' : p <= Len(captured) - MaxBufferSize
  <2> SUFFICES ASSUME NEW p \in Int
               PROVE  /\ p \in Pending' => p \in Pending
                      /\ p \in Pending /\ p \notin Pending' => p <= Len(captured) - MaxBufferSize
    BY <1>3, <1>7, <1>8, <1>9
  <2>1. p \in Pending <=> \/ hi - Len(round) + sent + 1 <= p /\ p <= hi
                          \/ Len(captured) - Len(buf) + 1 <= p /\ p <= Len(captured)
    BY <1>3, <1>7
  <2>2. p \in Pending' <=> Len(captured) - Len(buf') + 1 <= p /\ p <= Len(captured)
    BY <1>3, <1>8, <1>9
  <2> DEFINE tail == Len(round) - sent
  <2>3. tail \in Nat /\ hi - Len(round) + sent + 1 = hi - tail + 1
    BY <1>3
  <2> HIDE DEF tail
  <2>4. CASE Len(buf') = tail + Len(buf) /\ hi + Len(buf) = Len(captured)
    BY <1>3, <1>9, <2>1, <2>2, <2>3, <2>4
  <2>5. CASE Len(buf') = MaxBufferSize /\ Len(buf') <= tail + Len(buf)
             /\ hi + Len(buf) = Len(captured)
    BY <1>3, <1>9, <2>1, <2>2, <2>3, <2>5
  <2>6. CASE Len(buf') = Len(buf) /\ Len(buf) = MaxBufferSize
    BY <1>3, <1>4, <2>1, <2>2, <2>3, <2>6
  <2> QED
    BY <1>3, <1>4, <1>6, <2>3, <2>4, <2>5, <2>6 DEF tail
<1>11. PICK lost : lost = Pending \ Pending'
  OBVIOUS
<1>12. lost \in SUBSET Promise!Displaced(Len(captured)) /\ Pending' = Pending \ lost
  BY <1>10, <1>11 DEF Promise!Displaced
<1> QED
  BY <1>2, <1>12 DEF Promise!Displace

\* A flush moves lines from the buffer to the round and loses none.
LEMMA FlushKeepsPending ==
    ASSUME IInv, pc = "wait", BeginRound("sending") \/ BeginRound("final")
    PROVE  Pending' = Pending
<1>1. round = <<>> /\ sent = 0 /\ buf \in Seq(Nat)
  BY DEF IInv, Control, TypeOK
<1>2. round' = buf /\ buf' = <<>> /\ sent' = 0
  BY DEF BeginRound
<1>3. Pending = SeqRange(buf)
  BY <1>1, EmptyTail DEF Pending, Unsent
<1>4. SeqRange(Unsent)' = SeqRange(buf)
  <2>1. Len(captured) \in Nat /\ Len(buf) \in Nat /\ IsRun(buf, Len(captured))
    BY Lengths DEF IInv, Runs
  <2>2. SeqRange(buf) = (Len(captured) - Len(buf) + 1)..Len(captured)
    BY <1>1, <2>1, RunIsInterval
  <2>3. SeqRange(SubSeq(buf, 0 + 1, Len(buf))) = (Len(captured) - Len(buf) + 0 + 1)..Len(captured)
    BY <1>1, <2>1, TailIsInterval
  <2>4. SeqRange(SubSeq(buf, 0 + 1, Len(buf))) = SeqRange(buf)
    BY <2>1, <2>2, <2>3
  <2> QED
    BY <1>2, <2>4 DEF Unsent, SeqRange
<1>5. SeqRange(buf') = {}
  <2>1. DOMAIN <<>> = {}
    BY Empty, LenProperties
  <2> QED
    BY <1>2, <2>1 DEF SeqRange
<1> QED
  BY <1>3, <1>4, <1>5 DEF Pending

LEMMA PromiseStep == IInv /\ IInv' /\ [Next]_vars => [Promise!Next]_(Promise!ovars)
<1> SUFFICES ASSUME IInv, IInv', [Next]_vars PROVE [Promise!Next]_(Promise!ovars)
  OBVIOUS
<1> USE DEF logVars, mainVars, roundVars, loopVars, spamVars, histVars
<1>1. TypeOK /\ Control
  BY DEF IInv
<1>2. ASSUME captured' = captured, buf' = buf, round' = round, sent' = sent, acked' = acked,
             (pc' \in {"final", "done"}) = (pc \in {"final", "done"})
      PROVE  UNCHANGED Promise!ovars
  BY <1>2 DEF Promise!ovars, Pending, Unsent, SeqRange
<1>3. ASSUME NEW g \in Emitters, TakeID(g) PROVE UNCHANGED Promise!ovars
  BY <1>2, <1>3 DEF TakeID
<1>4. ASSUME NEW g \in Emitters, WriteLine(g) PROVE Promise!Accept
  <2>1. held[g] \in Nat
    BY <1>1 DEF TypeOK
  <2>2. Unsent' = Unsent
    BY <1>4 DEF WriteLine, Unsent
  <2> QED
    BY <1>4, <2>1, <2>2, CaptureAccepts DEF WriteLine
<1>5. ASSUME NEW g \in Emitters, LogOperational(g) PROVE Promise!Accept
  <2>1. Unsent' = Unsent
    BY <1>5 DEF LogOperational, Unsent
  <2> QED
    BY <1>5, <2>1, CaptureAccepts DEF LogOperational
<1>6. CASE StartPushLoop
  <2>1. pc = "off"
    BY <1>1, <1>6 DEF StartPushLoop, Control
  <2> QED
    BY <1>2, <1>6, <2>1 DEF StartPushLoop
<1>7. CASE Elapse
  BY <1>2, <1>7 DEF Elapse
<1>8. CASE Tick
  <2>1. CASE BackoffLeft > 0 \/ buf = <<>>
    BY <1>2, <1>8, <2>1 DEF Tick
  <2>2. CASE ~(BackoffLeft > 0 \/ buf = <<>>)
    <3>1. pc = "wait" /\ BeginRound("sending") /\ captured' = captured /\ acked' = acked
      BY <1>8, <2>2 DEF Tick
    <3> QED
      BY <3>1, FlushKeepsPending DEF BeginRound, Promise!ovars
  <2> QED
    BY <2>1, <2>2
<1>9. ASSUME NEW b \in BOOLEAN, NEW s \in BOOLEAN, BatchAcked(b, s) PROVE Promise!Deliver
  BY <1>9, AckDelivers
<1>10. ASSUME NEW b \in BOOLEAN, RoundFailed(b) PROVE Promise!Displace
  BY <1>10, FailureDisplaces
<1>11. CASE RoundDone
  <2>1. Pending = SeqRange(buf)
    <3>1. round \in Seq(Nat) /\ Len(round) \in Nat /\ sent = Len(round)
      BY <1>1, <1>11, Lengths DEF TypeOK, RoundDone
    <3>2. \A i \in (sent + 1)..Len(round) : round[i] \in Nat
      BY <3>1
    <3>3. Unsent \in Seq(Nat) /\ Len(Unsent) = 0
      BY <3>1, <3>2, SubSeqProperties DEF Unsent
    <3>4. DOMAIN Unsent = {}
      BY <3>3, LenProperties
    <3> QED
      BY <3>4 DEF Pending, SeqRange
  <2>2. Pending' = SeqRange(buf')
    BY <1>11, EmptyTail DEF RoundDone, Pending, Unsent
  <2>3. CASE Mismatch
    <3>1. Promise!Accept
      BY <1>11, <2>1, <2>2, <2>3, CaptureAccepts DEF RoundDone
    <3> QED
      BY <3>1 DEF Promise!Next
  <2>4. CASE ~Mismatch
    BY <1>11, <2>1, <2>2, <2>4 DEF RoundDone, Promise!ovars
  <2> QED
    BY <2>3, <2>4
<1>12. CASE SnapshotDone
  BY <1>2, <1>12 DEF SnapshotDone
<1>13. CASE ShutdownFlush
  <2>1. Pending' = Pending
    BY <1>13, FlushKeepsPending DEF ShutdownFlush
  <2> QED
    BY <1>13, <2>1 DEF ShutdownFlush, BeginRound, Promise!Next, Promise!Close
<1>14. ASSUME NEW b \in BOOLEAN, FinalReturn(b) PROVE Promise!Abandon
  <2>1. Pending' = SeqRange(buf')
    BY <1>14, EmptyTail DEF FinalReturn, Pending, Unsent
  <2>2. Pending' \in SUBSET Pending
    BY <1>14, <2>1 DEF FinalReturn, Pending
  <2> QED
    BY <1>14, <2>2 DEF FinalReturn, Promise!Abandon
<1>15. CASE Signal
  BY <1>2, <1>15 DEF Signal
<1>16. CASE LogShutdown
  <2>1. Unsent' = Unsent
    BY <1>16 DEF LogShutdown, Unsent
  <2> QED
    BY <1>16, <2>1, CaptureAccepts DEF LogShutdown, Promise!Next
<1>17. CASE Gone
  <2>1. Pending' = SeqRange(buf')
    BY <1>17, EmptyTail DEF Gone, Pending, Unsent
  <2>2. DOMAIN <<>> = {}
    BY Empty, LenProperties
  <2>3. Pending' = {}
    BY <1>17, <2>1, <2>2 DEF Gone, SeqRange
  <2> QED
    BY <1>17, <2>3 DEF Gone, Promise!Next, Promise!Perish
<1>18. CASE Boot
  BY <1>2, <1>18 DEF Boot
<1>19. CASE UNCHANGED vars
  BY <1>2, <1>19 DEF vars
<1> QED
  BY <1>3, <1>4, <1>5, <1>6, <1>7, <1>8, <1>9, <1>10, <1>11, <1>12, <1>13, <1>14,
     <1>15, <1>16, <1>17, <1>18, <1>19
  DEF Next, LoggerStep, SpamStep, LoopStep, ProcessStep, Exit, AbortSync, Crash, Promise!Next

\* The delivery path implements Outbox for every buffer size, batch limit and environment:
\* lines are ACKed oldest first and never twice, and a line is given up only when
\* MaxBufferSize newer ones were captured, or the process is closing, or gone.
THEOREM Implements == Spec => KeepsPromise
<1>1. Init => Promise!Init
  <2> SUFFICES ASSUME Init PROVE Promise!Init
    OBVIOUS
  <2>1. Pending = SeqRange(<<>>)
    BY EmptyTail DEF Init, Pending, Unsent
  <2>2. DOMAIN <<>> = {}
    BY Empty, LenProperties
  <2>3. Pending = {}
    BY <2>1, <2>2 DEF SeqRange
  <2> QED
    BY <2>3, Empty DEF Init, Promise!Init
<1>2. IInv /\ IInv' /\ [Next]_vars => [Promise!Next]_(Promise!ovars)
  BY PromiseStep
<1> QED
  BY <1>1, <1>2, Inductive, PTL DEF Spec, KeepsPromise, Promise!Spec

-----------------------------------------------------------------------------
(* No reconcile without a drift: the invariant behind QuietWhenHealthy *)

\* A set of ids that has a highest one, or is empty.
HasTop(ids) == ids = {} \/ \E i \in ids : \A j \in ids : j <= i

Larger(i, j) == IF i >= j THEN i ELSE j

\* The lines of the running round that SPAM has ACKed.
AckedOfRound == {round[i] : i \in 1..sent}

\* Every stretch of captured lines has a highest id.
Topped == \A a, b \in Nat : HasTop(IDsAt((a..b) \cap (1..Len(captured))))

\* As long as nothing failed, SPAM holds what it ACKed, its highest id is the larger of
\* lastPushed and the highest id ACKed in this round, and that is what it last answered.
Agreement ==
    healthy /\ Up /\ pc \notin {"final", "done"} =>
        /\ HasTop(IDsAt(stored)) /\ HasTop(IDsAt(AckedOfRound))
        /\ HighestID(IDsAt(stored)) = Larger(lastPushed, HighestID(IDsAt(AckedOfRound)))
        /\ lastSeen \in {0, HighestID(IDsAt(stored))}
        /\ lastSeen = 0 \/ sent > 0

QInv == IInv /\ Topped /\ Agreement

\* scanMaxEventID returns the highest of the ids it is given.
LEMMA HighestIsTop ==
    ASSUME NEW S \in SUBSET Nat, HasTop(S)
    PROVE  /\ HighestID(S) \in Nat
           /\ S = {} => HighestID(S) = 0
           /\ S # {} => HighestID(S) \in S /\ \A j \in S : j <= HighestID(S)
<1> DEFINE top == {i \in S : \A j \in S : j <= i}
<1>1. CASE S = {}
  BY <1>1 DEF HighestID
<1>2. CASE S # {}
  <2>1. top # {}
    BY <1>2 DEF HasTop
  <2>2. (CHOOSE i \in top : TRUE) \in top
    BY <2>1
  <2>3. HighestID(S) = CHOOSE i \in top : TRUE
    BY <2>1 DEF HighestID
  <2> QED
    BY <1>2, <2>2, <2>3
<1> QED
  BY <1>1, <1>2

\* The highest of two sets of ids is the larger of their highest.
LEMMA TopOfUnion ==
    ASSUME NEW S \in SUBSET Nat, NEW T \in SUBSET Nat, HasTop(S), HasTop(T)
    PROVE  /\ HasTop(S \cup T)
           /\ HighestID(S \cup T) = Larger(HighestID(S), HighestID(T))
<1>1. /\ HighestID(S) \in Nat /\ (S = {} => HighestID(S) = 0)
      /\ S # {} => HighestID(S) \in S /\ \A j \in S : j <= HighestID(S)
  BY HighestIsTop
<1>2. /\ HighestID(T) \in Nat /\ (T = {} => HighestID(T) = 0)
      /\ T # {} => HighestID(T) \in T /\ \A j \in T : j <= HighestID(T)
  BY HighestIsTop
<1> DEFINE m == Larger(HighestID(S), HighestID(T))
<1>3. m \in Nat /\ m >= HighestID(S) /\ m >= HighestID(T) /\ m \in {HighestID(S), HighestID(T)}
  BY <1>1, <1>2 DEF Larger
<1> HIDE DEF m
<1>4. CASE S = {} /\ T = {}
  <2>1. m = 0 /\ S \cup T = {} /\ HasTop({}) /\ HighestID({}) = 0
    BY <1>1, <1>2, <1>3, <1>4 DEF HasTop
  <2> QED
    BY <2>1 DEF m
<1>5. CASE S # {} \/ T # {}
  <2>1. m \in S \cup T
    <3>1. CASE S = {}
      BY <1>1, <1>2, <1>3, <1>5, <3>1
    <3>2. CASE T = {}
      BY <1>1, <1>2, <1>3, <1>5, <3>2
    <3>3. CASE S # {} /\ T # {}
      BY <1>1, <1>2, <1>3, <3>3
    <3> QED
      BY <3>1, <3>2, <3>3
  <2>2. \A j \in S \cup T : j <= m
    BY <1>1, <1>2, <1>3
  <2>3. S \cup T # {} /\ HasTop(S \cup T) /\ S \cup T \in SUBSET Nat
    BY <2>1, <2>2 DEF HasTop
  <2>4. HighestID(S \cup T) \in S \cup T /\ \A j \in S \cup T : j <= HighestID(S \cup T)
    BY <2>3, HighestIsTop
  <2>5. HighestID(S \cup T) = m
    <3>1. HighestID(S \cup T) <= m /\ m <= HighestID(S \cup T)
      BY <2>1, <2>2, <2>4
    <3>2. HighestID(S \cup T) \in Nat
      BY <2>4
    <3> QED
      BY <1>3, <3>1, <3>2
  <2> QED
    BY <2>3, <2>5 DEF m
<1> QED
  BY <1>4, <1>5

\* A captured line keeps its id.
LEMMA IDsStay ==
    ASSUME captured \in Seq(Nat),
           captured' = captured \/ \E id \in Nat : captured' = Append(captured, id),
           NEW P \in SUBSET (1..Len(captured))
    PROVE  {captured'[p] : p \in P} = IDsAt(P)
<1>1. \A p \in 1..Len(captured) : captured'[p] = captured[p]
  BY AppendProperties
<1> QED
  BY <1>1 DEF IDsAt

\* Capturing a line leaves every stretch with a highest id.
LEMMA ToppedStep ==
    ASSUME captured \in Seq(Nat), Topped,
           captured' = captured \/ \E id \in Nat : captured' = Append(captured, id)
    PROVE  Topped'
<1>1. CASE captured' = captured
  BY <1>1 DEF Topped, IDsAt
<1>2. ASSUME NEW id \in Nat, captured' = Append(captured, id) PROVE Topped'
  <2> DEFINE C == Len(captured)
  <2>1. C \in Nat /\ Len(captured') = C + 1 /\ captured'[C + 1] = id
    BY <1>2, LenProperties, AppendProperties
  <2> SUFFICES ASSUME NEW a \in Nat, NEW b \in Nat
               PROVE  HasTop({captured'[p] : p \in (a..b) \cap (1..(C + 1))})
    BY <2>1 DEF Topped, IDsAt
  <2> DEFINE old == (a..b) \cap (1..C)
  <2>2. old \in SUBSET (1..C) /\ HasTop(IDsAt(old)) /\ IDsAt(old) \in SUBSET Nat
    BY IDsAtAreNat DEF Topped
  <2>3. {captured'[p] : p \in old} = IDsAt(old)
    BY <1>2, <2>2, IDsStay
  <2>4. CASE C + 1 \in a..b
    <3>1. (a..b) \cap (1..(C + 1)) = old \cup {C + 1}
      BY <2>1, <2>4
    <3>2. {captured'[p] : p \in old \cup {C + 1}} = IDsAt(old) \cup {id}
      BY <2>1, <2>3
    <3>3. HasTop({id}) /\ {id} \in SUBSET Nat
      BY DEF HasTop
    <3>4. HasTop(IDsAt(old) \cup {id})
      BY <2>2, <3>3, TopOfUnion
    <3> QED
      BY <3>1, <3>2, <3>4
  <2>5. CASE C + 1 \notin a..b
    <3>1. (a..b) \cap (1..(C + 1)) = old
      BY <2>1, <2>5
    <3> QED
      BY <2>2, <2>3, <3>1
  <2> QED
    BY <2>4, <2>5
<1> QED
  BY <1>1, <1>2

\* The lines of a round were captured.
LEMMA RoundCaptured ==
    ASSUME IInv
    PROVE  \A i \in 1..Len(round) : round[i] \in 1..Len(captured)
<1>1. PICK hi \in 0..Len(captured) : RunsTo(hi)
  BY DEF IInv, Runs
<1>2. /\ Len(round) \in Nat /\ Len(captured) \in Nat /\ hi \in Nat /\ born \in Nat
  BY <1>1, Lengths DEF IInv, TypeOK
<1>3. Len(round) <= hi /\ \A i \in 1..Len(round) : round[i] = hi - Len(round) + i
  BY <1>1, <1>2 DEF RunsTo, IsRun
<1> QED
  BY <1>2, <1>3

\* A step that leaves SPAM, lastPushed and the ACKed part of the round alone.
LEMMA AgreementStays ==
    ASSUME IInv, Agreement,
           captured' = captured \/ \E id \in Nat : captured' = Append(captured, id),
           healthy' /\ Up' /\ pc' \notin {"final", "done"}
              => healthy /\ Up /\ pc \notin {"final", "done"},
           stored' = stored, lastPushed' = lastPushed, lastSeen' = lastSeen, sent' = sent,
           round' = round \/ sent = 0
    PROVE  Agreement'
<1>1. /\ captured \in Seq(Nat) /\ stored \in SUBSET (1..Len(captured))
      /\ sent \in Nat /\ sent <= Len(round) /\ Len(round) \in Nat
  BY Lengths DEF IInv, TypeOK, Control
<1>2. AckedOfRound \in SUBSET (1..Len(captured))
  BY <1>1, RoundCaptured DEF AckedOfRound
<1>3. AckedOfRound' = AckedOfRound
  <2>1. CASE round' = round
    BY <2>1 DEF AckedOfRound
  <2>2. CASE sent = 0
    BY <2>2 DEF AckedOfRound
  <2> QED
    BY <2>1, <2>2
<1>4. IDsAt(stored)' = IDsAt(stored)
  BY <1>1, IDsStay DEF IDsAt
<1>5. IDsAt(AckedOfRound)' = IDsAt(AckedOfRound)
  BY <1>1, <1>2, <1>3, IDsStay DEF IDsAt
<1> QED
  BY <1>4, <1>5 DEF Agreement, HasTop, HighestID, Larger

\* A batch persisted and answered with last_seen_event_id keeps SPAM and the loop agreed
\* (push.go:150-176).
LEMMA AgreementOnAck ==
    ASSUME IInv, Topped, Agreement, NEW b \in BOOLEAN, NEW s \in BOOLEAN, BatchAcked(b, s)
    PROVE  Agreement'
<1> USE DEF logVars, mainVars, roundVars, loopVars, spamVars, histVars, Up
<1> SUFFICES ASSUME healthy', Up', pc' \notin {"final", "done"} PROVE Agreement'
  BY DEF Agreement
<1>1. b /\ s /\ healthy /\ Up /\ pc \notin {"final", "done"}
  BY DEF BatchAcked
<1>2. /\ sent < Len(round) /\ sent' = BatchEnd /\ stored' = stored \cup Batch
      /\ lastSeen' = HighestID({lastSeen} \cup IDsAt(stored'))
      /\ captured' = captured /\ round' = round /\ lastPushed' = lastPushed
  BY <1>1 DEF BatchAcked
<1>3. /\ captured \in Seq(Nat) /\ stored \in SUBSET (1..Len(captured)) /\ sent \in Nat
      /\ Len(round) \in Nat /\ Len(captured) \in Nat /\ lastPushed \in Nat /\ lastSeen \in Nat
      /\ born \in Nat
  BY Lengths DEF IInv, TypeOK
<1>4. /\ HasTop(IDsAt(stored)) /\ HasTop(IDsAt(AckedOfRound))
      /\ HighestID(IDsAt(stored)) = Larger(lastPushed, HighestID(IDsAt(AckedOfRound)))
      /\ lastSeen \in {0, HighestID(IDsAt(stored))}
  BY <1>1 DEF Agreement
<1>5. PICK hi \in 0..Len(captured) : RunsTo(hi)
  BY DEF IInv, Runs
<1>6. /\ BatchEnd \in (sent + 1)..Len(round)
      /\ Batch = (hi - Len(round) + sent + 1)..(hi - Len(round) + BatchEnd)
      /\ Batch \in SUBSET (1..Len(captured))
  BY <1>2, <1>5, BatchProperties
<1>7. HasTop(IDsAt(Batch))
  <2>1. hi - Len(round) + sent + 1 \in Nat /\ hi - Len(round) + BatchEnd \in Nat
    <3>1. Len(round) <= hi /\ hi \in Nat
      BY <1>3, <1>5 DEF RunsTo
    <3> QED
      BY <1>3, <1>6, <3>1
  <2>2. HasTop(IDsAt(((hi - Len(round) + sent + 1)..(hi - Len(round) + BatchEnd))
                     \cap (1..Len(captured))))
    BY <2>1 DEF Topped
  <2>3. ((hi - Len(round) + sent + 1)..(hi - Len(round) + BatchEnd)) \cap (1..Len(captured))
        = Batch
    BY <1>6
  <2> QED
    BY <2>2, <2>3
<1>8. AckedOfRound \in SUBSET (1..Len(captured))
  BY <1>2, <1>3, RoundCaptured DEF AckedOfRound
<1>9. AckedOfRound' = AckedOfRound \cup Batch
  <2>1. 1..BatchEnd = (1..sent) \cup ((sent + 1)..BatchEnd)
    BY <1>3, <1>6
  <2> QED
    BY <1>2, <2>1 DEF AckedOfRound, Batch
<1>10. \A P, Q \in SUBSET (1..Len(captured)) : IDsAt(P \cup Q) = IDsAt(P) \cup IDsAt(Q)
  BY DEF IDsAt
<1>11. /\ IDsAt(stored) \in SUBSET Nat /\ IDsAt(AckedOfRound) \in SUBSET Nat
       /\ IDsAt(Batch) \in SUBSET Nat
  BY <1>3, <1>6, <1>8, IDsAtAreNat
<1>12. /\ HasTop(IDsAt(stored) \cup IDsAt(Batch))
       /\ HighestID(IDsAt(stored) \cup IDsAt(Batch))
          = Larger(HighestID(IDsAt(stored)), HighestID(IDsAt(Batch)))
  BY <1>4, <1>7, <1>11, TopOfUnion
<1>13. /\ HasTop(IDsAt(AckedOfRound) \cup IDsAt(Batch))
       /\ HighestID(IDsAt(AckedOfRound) \cup IDsAt(Batch))
          = Larger(HighestID(IDsAt(AckedOfRound)), HighestID(IDsAt(Batch)))
  BY <1>4, <1>7, <1>11, TopOfUnion
<1>14. /\ IDsAt(stored)' = IDsAt(stored) \cup IDsAt(Batch)
       /\ IDsAt(AckedOfRound)' = IDsAt(AckedOfRound) \cup IDsAt(Batch)
       /\ IDsAt(stored') = IDsAt(stored) \cup IDsAt(Batch)
  <2>1. /\ IDsAt(stored \cup Batch) = IDsAt(stored) \cup IDsAt(Batch)
        /\ IDsAt(AckedOfRound \cup Batch) = IDsAt(AckedOfRound) \cup IDsAt(Batch)
    BY <1>3, <1>6, <1>8, <1>10
  <2> QED
    BY <1>2, <1>9, <2>1 DEF IDsAt
<1> DEFINE h == HighestID(IDsAt(stored))
           r == HighestID(IDsAt(AckedOfRound))
           k == HighestID(IDsAt(Batch))
<1>15. h \in Nat /\ r \in Nat /\ k \in Nat
  BY <1>11, HighestIDIsNat
<1>16. lastSeen' = Larger(h, k)
  <2> DEFINE now == IDsAt(stored) \cup IDsAt(Batch)
  <2>1. now \in SUBSET Nat /\ HasTop(now) /\ HighestID(now) = Larger(h, k)
    BY <1>11, <1>12
  <2>2. HasTop({lastSeen}) /\ {lastSeen} \in SUBSET Nat
    BY <1>3 DEF HasTop
  <2>3. HighestID({lastSeen}) = lastSeen
    BY <2>2, HighestIsTop
  <2>4. HighestID({lastSeen} \cup now) = Larger(lastSeen, Larger(h, k))
    <3> HIDE DEF now
    <3> QED
      BY <2>1, <2>2, <2>3, TopOfUnion
  <2>5. Larger(lastSeen, Larger(h, k)) = Larger(h, k)
    <3>1. lastSeen \in {0, h}
      BY <1>4
    <3> HIDE DEF h, r, k
    <3> QED
      BY <1>15, <3>1 DEF Larger
  <2> QED
    BY <1>2, <1>14, <2>4, <2>5
<1>17. Larger(h, k) = Larger(lastPushed, Larger(r, k))
  <2>1. h = Larger(lastPushed, r)
    BY <1>4
  <2> HIDE DEF h, r, k
  <2> QED
    BY <1>3, <1>15, <2>1 DEF Larger
<1>18. HasTop(IDsAt(stored))' /\ HasTop(IDsAt(AckedOfRound))'
  BY <1>12, <1>13, <1>14 DEF HasTop
<1>19. /\ HighestID(IDsAt(stored))' = Larger(h, k)
       /\ HighestID(IDsAt(AckedOfRound))' = Larger(r, k)
  BY <1>12, <1>13, <1>14 DEF HighestID
<1>20. sent' > 0
  BY <1>2, <1>3, <1>6
<1> HIDE DEF h, r, k
<1>21. HighestID(IDsAt(stored))' = Larger(lastPushed', HighestID(IDsAt(AckedOfRound))')
  BY <1>2, <1>17, <1>19
<1>22. lastSeen' = HighestID(IDsAt(stored))'
  BY <1>16, <1>19
<1> QED
  BY <1>18, <1>20, <1>21, <1>22 DEF Agreement, Larger

\* At the end of a healthy round the loop's own id is the one SPAM answered.
LEMMA AgreedAtTheEnd ==
    ASSUME IInv, Agreement, healthy, Up, pc = "sending", sent = Len(round)
    PROVE  /\ Advanced = HighestID(IDsAt(stored))
           /\ lastSeen \in {0, Advanced}
<1>1. /\ HasTop(IDsAt(stored)) /\ HasTop(IDsAt(AckedOfRound))
      /\ HighestID(IDsAt(stored)) = Larger(lastPushed, HighestID(IDsAt(AckedOfRound)))
      /\ lastSeen \in {0, HighestID(IDsAt(stored))}
  BY DEF Agreement
<1>2. round \in Seq(Nat) /\ Len(round) \in Nat /\ DOMAIN round = 1..Len(round)
      /\ lastPushed \in Nat /\ captured \in Seq(Nat)
  BY Lengths, LenProperties DEF IInv, TypeOK
<1>3. AckedOfRound = SeqRange(round) /\ AckedOfRound \in SUBSET (1..Len(captured))
  BY <1>2, RoundCaptured DEF AckedOfRound, SeqRange
<1>4. HighestID(IDsAt(AckedOfRound)) \in Nat
  BY <1>2, <1>3, IDsAtAreNat, HighestIDIsNat
<1>5. Advanced = Larger(lastPushed, HighestID(IDsAt(AckedOfRound)))
  <2>1. Advanced = IF HighestID(IDsAt(AckedOfRound)) > lastPushed
                   THEN HighestID(IDsAt(AckedOfRound)) ELSE lastPushed
    BY <1>3 DEF Advanced
  <2> QED
    BY <1>2, <1>4, <2>1 DEF Larger
<1> QED
  BY <1>1, <1>5

\* A round that succeeded hands its ids to lastPushedEventID (push.go:131-146).
LEMMA AgreementOnDone ==
    ASSUME IInv, Agreement, RoundDone
    PROVE  Agreement'
<1> USE DEF logVars, mainVars, roundVars, loopVars, spamVars, histVars, Up
<1> SUFFICES ASSUME healthy', Up' PROVE Agreement'
  BY DEF Agreement
<1>1. /\ healthy /\ Up /\ pc = "sending" /\ sent = Len(round) /\ lastPushed' = Advanced
      /\ stored' = stored /\ round' = <<>> /\ sent' = 0 /\ lastSeen' = 0
      /\ captured' = captured \/ captured' = Append(captured, 0)
  BY DEF RoundDone, Capture
<1>2. Advanced = HighestID(IDsAt(stored)) /\ HasTop(IDsAt(stored))
  BY <1>1, AgreedAtTheEnd DEF Agreement
<1>3. /\ captured \in Seq(Nat) /\ stored \in SUBSET (1..Len(captured))
  BY DEF IInv, TypeOK
<1>4. IDsAt(stored)' = IDsAt(stored)
  <2>1. captured' = captured \/ \E id \in Nat : captured' = Append(captured, id)
    BY <1>1
  <2> QED
    BY <1>1, <1>3, <2>1, IDsStay DEF IDsAt
<1>5. IDsAt(AckedOfRound)' = {}
  BY <1>1 DEF IDsAt, AckedOfRound
<1>6. HighestID(IDsAt(stored)) \in Nat
  BY <1>3, IDsAtAreNat, HighestIDIsNat
<1>7. HighestID(IDsAt(AckedOfRound))' = 0 /\ HasTop(IDsAt(AckedOfRound))'
  BY <1>5 DEF HighestID, HasTop
<1>8. HasTop(IDsAt(stored))' /\ HighestID(IDsAt(stored))' = lastPushed'
  BY <1>1, <1>2, <1>4 DEF HasTop, HighestID
<1>9. HighestID(IDsAt(stored))' = Larger(lastPushed', HighestID(IDsAt(AckedOfRound))')
  BY <1>1, <1>2, <1>6, <1>7, <1>8 DEF Larger
<1> QED
  BY <1>1, <1>7, <1>8, <1>9 DEF Agreement, Larger

LEMMA AgreementStep == QInv /\ [Next]_vars => Topped' /\ Agreement'
<1> SUFFICES ASSUME IInv, Topped, Agreement, [Next]_vars PROVE Topped' /\ Agreement'
  BY DEF QInv
<1> USE DEF logVars, mainVars, roundVars, loopVars, spamVars, histVars, Up
<1>1. TypeOK /\ Control
  BY DEF IInv
<1>2. captured' = captured \/ \E id \in Nat : captured' = Append(captured, id)
  <2>1. ASSUME NEW g \in Emitters, LoggerStep
        PROVE  captured' = captured \/ \E id \in Nat : captured' = Append(captured, id)
    BY <1>1, <2>1 DEF LoggerStep, TakeID, WriteLine, LogOperational, Capture, TypeOK
  <2>2. CASE LoggerStep
    BY <2>1, <2>2 DEF LoggerStep
  <2>3. CASE SpamStep
    BY <2>3 DEF SpamStep, BatchAcked, RoundFailed, FinalReturn
  <2>4. CASE LoopStep
    BY <2>4 DEF LoopStep, StartPushLoop, Tick, RoundDone, SnapshotDone, ShutdownFlush, Capture
  <2>5. CASE Elapse
    BY <2>5 DEF Elapse
  <2>6. CASE ProcessStep
    BY <2>6 DEF ProcessStep, Signal, LogShutdown, Exit, AbortSync, Crash, Gone, Boot, Capture
  <2>7. CASE UNCHANGED vars
    BY <2>7 DEF vars
  <2> QED
    BY <2>2, <2>3, <2>4, <2>5, <2>6, <2>7 DEF Next
<1>3. Topped'
  BY <1>1, <1>2, ToppedStep DEF TypeOK
<1> SUFFICES Agreement'
  BY <1>3
<1>4. ASSUME NEW g \in Emitters, TakeID(g) PROVE Agreement'
  BY <1>2, <1>4, AgreementStays DEF TakeID
<1>5. ASSUME NEW g \in Emitters, WriteLine(g) PROVE Agreement'
  BY <1>2, <1>5, AgreementStays DEF WriteLine
<1>6. ASSUME NEW g \in Emitters, LogOperational(g) PROVE Agreement'
  BY <1>2, <1>6, AgreementStays DEF LogOperational
<1>7. CASE StartPushLoop
  <2>1. Up /\ pc = "off"
    BY <1>1, <1>7 DEF StartPushLoop, Control
  <2> QED
    BY <1>2, <1>7, <2>1, AgreementStays DEF StartPushLoop
<1>8. CASE Elapse
  BY <1>2, <1>8, AgreementStays DEF Elapse
<1>9. CASE Tick
  <2>1. sent = 0
    BY <1>1, <1>9 DEF Tick, Control
  <2>2. CASE BackoffLeft > 0 \/ buf = <<>>
    BY <1>2, <1>9, <2>1, <2>2, AgreementStays DEF Tick
  <2>3. CASE ~(BackoffLeft > 0 \/ buf = <<>>)
    <3>1. lastSeen = 0 \/ Agreement'
      <4> SUFFICES ASSUME healthy', Up' PROVE lastSeen = 0
        BY DEF Agreement
      <4> QED
        BY <1>9, <2>1, <2>3 DEF Tick, Agreement
    <3>2. ASSUME lastSeen = 0 PROVE Agreement'
      BY <1>2, <1>9, <2>1, <2>3, <3>2, AgreementStays DEF Tick, BeginRound
    <3> QED
      BY <3>1, <3>2
  <2> QED
    BY <2>2, <2>3
<1>10. ASSUME NEW b \in BOOLEAN, NEW s \in BOOLEAN, BatchAcked(b, s) PROVE Agreement'
  BY <1>10, AgreementOnAck
<1>11. ASSUME NEW b \in BOOLEAN, RoundFailed(b) PROVE Agreement'
  BY <1>11 DEF RoundFailed, Agreement
<1>12. CASE RoundDone
  BY <1>12, AgreementOnDone
<1>13. CASE SnapshotDone
  BY <1>2, <1>13, AgreementStays DEF SnapshotDone
<1>14. CASE ShutdownFlush
  BY <1>14 DEF ShutdownFlush, BeginRound, Agreement
<1>15. ASSUME NEW b \in BOOLEAN, FinalReturn(b) PROVE Agreement'
  BY <1>15 DEF FinalReturn, Agreement
<1>16. CASE Signal
  BY <1>2, <1>16, AgreementStays DEF Signal
<1>17. CASE LogShutdown
  BY <1>2, <1>17, AgreementStays DEF LogShutdown
<1>18. CASE Gone
  BY <1>18 DEF Gone, Agreement
<1>19. CASE Boot
  BY <1>19 DEF Boot, Agreement
<1>20. CASE UNCHANGED vars
  BY <1>2, <1>20, AgreementStays DEF vars
<1> QED
  BY <1>4, <1>5, <1>6, <1>7, <1>8, <1>9, <1>10, <1>11, <1>12, <1>13, <1>14, <1>15,
     <1>16, <1>17, <1>18, <1>19, <1>20
  DEF Next, LoggerStep, SpamStep, LoopStep, ProcessStep, Exit, AbortSync, Crash

\* As long as every push of the first process succeeds, is persisted and answered with
\* last_seen_event_id, no reconcile snapshot is fired, whatever order the loggers write
\* their ids in and however long the process runs.
THEOREM NoNeedlessReconcile == Spec => QuietWhenHealthy
<1>1. Init => QInv
  <2> SUFFICES ASSUME Init PROVE Topped /\ Agreement
    BY InitIInv DEF QInv
  <2>1. /\ captured = <<>> /\ Len(captured) = 0 /\ stored = {} /\ sent = 0 /\ lastSeen = 0
        /\ lastPushed = 0
    BY Empty DEF Init
  <2>2. \A a, b \in Nat : (a..b) \cap (1..Len(captured)) = {}
    BY <2>1
  <2>3. Topped
    BY <2>2 DEF Topped, HasTop, IDsAt
  <2>4. IDsAt(stored) = {} /\ IDsAt(AckedOfRound) = {}
    BY <2>1 DEF IDsAt, AckedOfRound
  <2>5. Agreement
    BY <2>1, <2>4 DEF Agreement, HasTop, HighestID, Larger
  <2> QED
    BY <2>3, <2>5
<1>2. IInv /\ IInv' /\ QInv /\ [Next]_vars => QInv'
  BY AgreementStep DEF QInv
<1>3. QInv /\ [Next]_vars => [healthy /\ pc = "sending" => pc' # "snapshot"]_vars
  <2> SUFFICES ASSUME QInv, Next, healthy, pc = "sending", pc' = "snapshot" PROVE FALSE
    OBVIOUS
  <2> USE DEF logVars, mainVars, roundVars, loopVars, spamVars, histVars
  <2>1. RoundDone /\ Mismatch
    BY DEF Next, LoggerStep, SpamStep, LoopStep, ProcessStep, TakeID, WriteLine,
           LogOperational, BatchAcked, RoundFailed, FinalReturn, StartPushLoop, Tick,
           BeginRound, RoundDone, SnapshotDone, ShutdownFlush, Elapse, Signal, LogShutdown,
           Exit, AbortSync, Crash, Gone, Boot
  <2>2. lastSeen \in {0, Advanced}
    BY <2>1, AgreedAtTheEnd DEF QInv, RoundDone
  <2> QED
    BY <2>1, <2>2 DEF Mismatch
<1> QED
  BY <1>1, <1>2, <1>3, Inductive, PTL DEF Spec, QuietWhenHealthy
===============================================================================
