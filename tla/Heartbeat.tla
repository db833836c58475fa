------------------------------ MODULE Heartbeat ------------------------------
(***************************************************************************)
(* HeartbeatLoop (push.go:241-320): the liveness ping, its backoff and what *)
(* it logs of an outage.  Time is counted in a unit that divides            *)
(* HEARTBEAT_INTERVAL, maxHeartbeatBackoff and heartbeatReminderAfter       *)
(* (5 min for the defaults: 1, 3 and 12); a ping takes no time, its timeout *)
(* being 3 s.                                                               *)
(***************************************************************************)
EXTENDS Integers

CONSTANTS
    PingInterval,    \* HEARTBEAT_INTERVAL
    MaxWait,         \* maxHeartbeatBackoff
    ReminderAfter,   \* heartbeatReminderAfter
    MaxCount         \* bound: consecutiveFailures is counted up to here

ASSUME HeartbeatAssumption ==
    /\ PingInterval \in Nat \ {0} /\ MaxWait \in Nat \ {0}
    /\ ReminderAfter \in Nat \ {0} /\ MaxCount \in Nat \ {0}

LongestWait == IF PingInterval > MaxWait THEN PingInterval ELSE MaxWait
Horizon == ReminderAfter + LongestWait      \* sinceError is counted up to here

VARIABLES
    failures,     \* consecutiveFailures
    sinceError,   \* time since lastErrorLog
    firstTick,    \* firstTick
    pingTimer,    \* time until timer.C fires
    logged,       \* what the last ping logged: "none" | "ERROR" | "restored" | "ok"
    stopped,      \* ctx is done and the loop has returned
    armed         \* what the timer was last set to

heartbeatVars == <<failures, sinceError, firstTick, pingTimer, logged, stopped, armed>>

\* Variant for the mutation runs: the wait restarts from the interval at the cap.
WaitWraps[n \in 1..MaxCount] ==
    IF n = 1 THEN PingInterval
    ELSE IF 2 * WaitWraps[n - 1] >= MaxWait THEN PingInterval ELSE 2 * WaitWraps[n - 1]
BackoffWraps(n) == WaitWraps[n]

\* nextHeartbeatBackoff: doubled n - 1 times, cut at the cap when a doubling reaches it.
Wait[n \in 1..MaxCount] ==
    IF n = 1 THEN PingInterval
    ELSE IF 2 * Wait[n - 1] >= MaxWait THEN MaxWait ELSE 2 * Wait[n - 1]
Backoff(n) == Wait[n]

\* Variant for the mutation runs: only the first failure of an outage is logged.
LogsFirstOnly(n) == n = 1

\* The first failure of an outage is logged, and one every ReminderAfter.
LogsError(n) == n = 1 \/ sinceError >= ReminderAfter

HeartbeatInit ==
    /\ failures = 0 /\ sinceError = Horizon /\ firstTick = TRUE /\ pingTimer = 0
    /\ logged = "none" /\ stopped = FALSE /\ armed = 0

HeartbeatElapse ==
    /\ ~stopped /\ pingTimer > 0
    /\ pingTimer' = pingTimer - 1
    /\ sinceError' = IF sinceError < Horizon THEN sinceError + 1 ELSE Horizon
    /\ UNCHANGED <<failures, firstTick, logged, stopped, armed>>

Upto(n) == IF n < MaxCount THEN n ELSE MaxCount

\* sendHeartbeat returned an error.
PingFails ==
    /\ ~stopped /\ pingTimer = 0
    /\ failures' = Upto(failures + 1)
    /\ IF LogsError(failures + 1) THEN logged' = "ERROR" /\ sinceError' = 0
                                  ELSE logged' = "none" /\ UNCHANGED sinceError
    /\ pingTimer' = Backoff(failures') /\ armed' = pingTimer'
    /\ firstTick' = FALSE
    /\ UNCHANGED stopped

\* sendHeartbeat succeeded.
PingSucceeds ==
    /\ ~stopped /\ pingTimer = 0
    /\ failures' = 0
    /\ IF failures > 0
       THEN logged' = "restored" /\ sinceError' = Horizon /\ UNCHANGED firstTick
       ELSE /\ logged' = IF firstTick THEN "ok" ELSE "none"
            /\ firstTick' = FALSE
            /\ UNCHANGED sinceError
    /\ pingTimer' = PingInterval /\ armed' = pingTimer'
    /\ UNCHANGED stopped

HeartbeatStop ==
    /\ ~stopped /\ stopped' = TRUE
    /\ UNCHANGED <<failures, sinceError, firstTick, pingTimer, logged, armed>>

HeartbeatNext == HeartbeatElapse \/ PingFails \/ PingSucceeds \/ HeartbeatStop

HeartbeatSpec == HeartbeatInit /\ [][HeartbeatNext]_heartbeatVars

-----------------------------------------------------------------------------
(* Properties *)

HeartbeatTypeOK ==
    /\ failures \in 0..MaxCount /\ sinceError \in 0..Horizon
    /\ pingTimer \in 0..LongestWait /\ armed \in 0..LongestWait
    /\ firstTick \in BOOLEAN /\ stopped \in BOOLEAN
    /\ logged \in {"none", "ERROR", "restored", "ok"}

\* In an outage the latest ERROR is never older than the reminder and one wait: "every
\* heartbeatReminderAfter of continuous failure a fresh ERROR fires" (push.go:252-255)
\* survives the backoff, whose pings need not fall on the hour.
OutageStaysVisible ==
    ~stopped /\ failures > 0 => sinceError < ReminderAfter + LongestWait

\* While an outage lasts the pings never come closer together again.
WaitNeverShrinks ==
    [][failures > 0 /\ failures' > 0 /\ pingTimer = 0 /\ pingTimer' > 0 => armed' >= armed]_heartbeatVars

=============================================================================
