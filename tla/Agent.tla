-------------------------------- MODULE Agent --------------------------------
(***************************************************************************)
(* The process around its identity: main's boot sequence (main.go:44-155),  *)
(* rorIdentityLoop and HeartbeatLoop side by side, the wait for the caches, *)
(* SIGTERM and return.  CALLCENTER_URL and ROR_API_ENDPOINT are set.  Both  *)
(* loops share one clock, in the unit of their timers; a lookup, a ping and *)
(* a timer that is due take none of it (their timeouts are 10 s and 3 s).   *)
(***************************************************************************)
EXTENDS RorIdentity, Heartbeat

CONSTANTS
    EnvClusterID,     \* CLUSTER_ID
    KubeSystemUID     \* the UID of the namespace kube-system

ASSUME AgentAssumption ==
    EnvClusterID \in STRING /\ KubeSystemUID \in STRING /\ KubeSystemUID # Unset

VARIABLES
    main,         \* "ror" | "id" | "sync" | "stream" | "exit": where main is
    clusterID,    \* cluster_id of every record and of the pings, Unset if unknown
    done          \* a signal has come: ctx is done

vars == <<rorVars, heartbeatVars, main, clusterID, done>>

Init ==
    /\ RorInit /\ HeartbeatInit
    /\ main = "ror" /\ clusterID = Unset /\ done = FALSE

Looping == main \in {"sync", "stream"}

\* resolveClusterID: the override, or kube-system if its Get succeeds.
ResolveClusterID(ok) ==
    IF EnvClusterID # Unset THEN EnvClusterID ELSE IF ok THEN KubeSystemUID ELSE Unset

\* The world outside moves in every phase.
Outside ==
    /\ main # "exit" /\ (RorChanges \/ SecretChanges)
    /\ UNCHANGED <<heartbeatVars, main, clusterID, done>>

\* A hop of the boot lookup, after which main goes on, or of the loop's.
Hop(A) ==
    /\ main = "ror" \/ Looping
    /\ A
    /\ main' = IF main = "ror" /\ booted' THEN "id" ELSE main
    /\ UNCHANGED <<heartbeatVars, clusterID, done>>

\* main.go:91-98, once, and the loops are started (main.go:144-155).
Identify(ok) ==
    /\ main = "id" /\ main' = "sync"
    /\ clusterID' = ResolveClusterID(ok)
    /\ UNCHANGED <<rorVars, heartbeatVars, done>>

RorWakes ==
    /\ Looping /\ TimerFires
    /\ UNCHANGED <<heartbeatVars, main, clusterID, done>>

\* Variant for the mutation runs: the heartbeat is started beside PushLoop.
BeatsStreaming == main = "stream" /\ clusterID # Unset /\ ~stopped

\* HeartbeatLoop runs: it returned at once if cluster_id was empty.
Beats == Looping /\ clusterID # Unset /\ ~stopped

\* With ctx done the select may still take the timer, but the request is cancelled.
Ping ==
    /\ Beats
    /\ PingFails \/ (~done /\ PingSucceeds)
    /\ UNCHANGED <<rorVars, main, clusterID, done>>

\* Time passes while nothing is due.
Tick ==
    /\ Looping /\ ~done
    /\ IF phase = "off" THEN UNCHANGED rorVars ELSE RorElapse
    /\ IF Beats THEN HeartbeatElapse ELSE UNCHANGED heartbeatVars
    /\ phase # "off" \/ Beats
    /\ UNCHANGED <<main, clusterID, done>>

\* WaitForCacheSync returns true, however long it took; PushLoop starts.
Synced ==
    /\ main = "sync" /\ main' = "stream"
    /\ UNCHANGED <<rorVars, heartbeatVars, clusterID, done>>

\* Before signal.NotifyContext the signal ends the process, afterwards ctx.
Signal ==
    /\ ~done /\ done' = TRUE
    /\ main' = IF Looping THEN main ELSE "exit"
    /\ UNCHANGED <<rorVars, heartbeatVars, clusterID>>

LoopsStop ==
    /\ Looping /\ done
    /\ \/ RorStop /\ UNCHANGED heartbeatVars
       \/ Beats /\ HeartbeatStop /\ UNCHANGED rorVars
    /\ UNCHANGED <<main, clusterID, done>>

\* "cache sync aborted" (main.go:285-288), or main returns (main.go:324-326).
Exit ==
    /\ Looping /\ done /\ main' = "exit"
    /\ UNCHANGED <<rorVars, heartbeatVars, clusterID, done>>

Next ==
    \/ Outside \/ Hop(Lookup) \/ RorWakes \/ Ping \/ Tick
    \/ \E ok \in BOOLEAN : Identify(ok)
    \/ Synced \/ Signal \/ LoopsStop \/ Exit

\* The goroutines run, time passes, and ROR does not fail a hop every time.  Nothing is
\* assumed of the caches (Synced), of kube-system's Get nor of the pings' outcome.
Fairness ==
    /\ WF_vars(Hop(Lookup)) /\ WF_vars(RorWakes) /\ WF_vars(Ping) /\ WF_vars(Tick)
    /\ WF_vars(\E ok \in BOOLEAN : Identify(ok)) /\ WF_vars(Exit)
    /\ SF_vars(Hop(SelfLookup(TRUE))) /\ SF_vars(Hop(ClusterLookup(TRUE)))

Spec == Init /\ [][Next]_vars
FairSpec == Spec /\ Fairness

-----------------------------------------------------------------------------
(* Properties *)

TypeOK ==
    /\ RorTypeOK /\ HeartbeatTypeOK
    /\ main \in {"ror", "id", "sync", "stream", "exit"} /\ done \in BOOLEAN
    /\ clusterID \in {Unset, EnvClusterID, KubeSystemUID}

\* An identity that appears or changes after boot reaches the records: while ROR holds a
\* record and the key is readable, the attributes come to equal it again and again, whatever
\* transient failures lie between (rorself.go:107-112), synced caches or not.
BindingArrives ==
    <>[](ror # Zero /\ apikey /\ ~done) => []<>(attrs = ClusterAttrSet(Resolved(ror)))

\* SPAM's session is kept alive (main.go:150-153): once cluster_id is known pings go on until
\* shutdown, whatever fails and however long the caches take to sync.
SessionAlive ==
    <>[](Looping /\ clusterID # Unset /\ ~done) => []<><<Ping>>_vars
=============================================================================
