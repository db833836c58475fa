----------------------------- MODULE AgentProofs -----------------------------
(***************************************************************************)
(* The heartbeat for every interval, cap and reminder: what the backoff     *)
(* returns, how old the latest ERROR of an outage can be, and when the      *)
(* pings of an outage may come closer together.  The identity of the        *)
(* records for every binding ROR may hold.  And the process around both:    *)
(* each loop run by Agent is the loop specified alone, so what is proved of *)
(* either alone holds side by side, through the boot, the wait for the      *)
(* caches and the shutdown.                                                 *)
(***************************************************************************)
EXTENDS Agent, DataLemmas

-----------------------------------------------------------------------------
(* The backoff of the heartbeat *)

\* One step of nextHeartbeatBackoff's loop.
Doubled(w) == IF 2 * w >= MaxWait THEN MaxWait ELSE 2 * w

\* nextHeartbeatBackoff: the interval after one failure, then doubled and cut at the cap.
LEMMA WaitEquation ==
    /\ Wait[1] = PingInterval
    /\ \A n \in 1..MaxCount : n # 1 => Wait[n] = Doubled(Wait[n - 1])
<1> DEFINE step == [p \in (2..MaxCount) \X Int |-> Doubled(p[2])]
<1>1. PingInterval \in Int /\ MaxWait \in Int /\ MaxCount \in Int /\ 1 <= MaxCount
  BY HeartbeatAssumption DEF HeartbeatAssumption
<1>2. \A i \in 2..MaxCount, w \in Int : step[<<i, w>>] = Doubled(w) /\ Doubled(w) \in Int
  BY <1>1 DEF Doubled
<1> HIDE DEF step
<1>3. PICK f : Recursion(f, PingInterval, step, Int, 1, MaxCount)
  <2>1. Steps(step, Int, 1, MaxCount)
    <3>1. \A i \in (1 + 1)..MaxCount : i \in 2..MaxCount
      BY <1>1
    <3> QED
      BY <1>2, <3>1 DEF Steps
  <2> QED
    BY <1>1, <2>1, RecursionExists
<1>4. f = [n \in 1..MaxCount |-> IF n = 1 THEN PingInterval ELSE Doubled(f[n - 1])]
  <2>1. f = [n \in 1..MaxCount |-> f[n]]
    BY <1>3 DEF Recursion
  <2>2. ASSUME NEW n \in 1..MaxCount
        PROVE  f[n] = IF n = 1 THEN PingInterval ELSE Doubled(f[n - 1])
    <3>1. CASE n = 1
      BY <1>1, <1>3, <3>1 DEF Recursion
    <3>2. CASE n # 1
      <4>1. n \in 2..MaxCount /\ n - 1 \in 1..MaxCount
        BY <1>1, <3>2
      <4> QED
        BY <1>2, <1>3, <3>2, <4>1 DEF Recursion
    <3> QED
      BY <3>1, <3>2
  <2> QED
    BY <2>1, <2>2
<1>5. Wait = [n \in 1..MaxCount |-> IF n = 1 THEN PingInterval ELSE Doubled(Wait[n - 1])]
  BY <1>4 DEF Wait, Doubled
<1> QED
  BY <1>1, <1>5

\* What a wait is made of: positive, within the longest; the cap is never undercut.
LEMMA WaitBounds ==
    \A n \in 1..MaxCount : /\ Wait[n] \in 1..LongestWait
                           /\ n < MaxCount => Wait[n] <= Wait[n + 1] \/ MaxWait <= Wait[n + 1]
                           /\ PingInterval <= MaxWait => Wait[n] <= MaxWait
<1> DEFINE S == {n \in 1..MaxCount : /\ Wait[n] \in 1..LongestWait
                                     /\ PingInterval <= MaxWait => Wait[n] <= MaxWait}
<1>1. /\ PingInterval \in Nat /\ PingInterval >= 1 /\ MaxWait \in Nat /\ MaxWait >= 1
      /\ MaxCount \in Nat /\ MaxCount >= 1
      /\ LongestWait \in Nat /\ LongestWait >= PingInterval /\ LongestWait >= MaxWait
  BY HeartbeatAssumption DEF HeartbeatAssumption, LongestWait
<1>2. 1 \in S
  BY <1>1, WaitEquation
<1>3. ASSUME NEW n \in S, n < MaxCount PROVE n + 1 \in S
  <2>1. n + 1 \in 1..MaxCount /\ n + 1 # 1 /\ (n + 1) - 1 = n
    BY <1>1, <1>3
  <2>2. Wait[n + 1] = Doubled(Wait[n])
    BY <2>1, WaitEquation
  <2> QED
    BY <1>1, <1>3, <2>1, <2>2 DEF Doubled
<1>4. S = 1..MaxCount
  <2>1. S \in SUBSET (1..MaxCount) /\ MaxCount \in Nat \ {0}
    BY <1>1
  <2> HIDE DEF S
  <2> QED
    BY <1>2, <1>3, <2>1, FiniteInduction
<1> SUFFICES ASSUME NEW n \in 1..MaxCount
             PROVE  /\ Wait[n] \in 1..LongestWait
                    /\ n < MaxCount => Wait[n] <= Wait[n + 1] \/ MaxWait <= Wait[n + 1]
                    /\ PingInterval <= MaxWait => Wait[n] <= MaxWait
  OBVIOUS
<1>5. Wait[n] \in 1..LongestWait /\ (PingInterval <= MaxWait => Wait[n] <= MaxWait)
  BY <1>4
<1>6. ASSUME n < MaxCount PROVE Wait[n] <= Wait[n + 1] \/ MaxWait <= Wait[n + 1]
  <2>1. n + 1 \in 1..MaxCount /\ n + 1 # 1 /\ (n + 1) - 1 = n
    BY <1>1, <1>6
  <2>2. Wait[n + 1] = Doubled(Wait[n])
    BY <2>1, WaitEquation
  <2> QED
    BY <1>1, <1>5, <2>2 DEF Doubled
<1> QED
  BY <1>5, <1>6

-----------------------------------------------------------------------------
(* The inductive invariant of the heartbeat *)

\* The time since the latest ERROR and the wait that is running add up to less than the
\* reminder and the longest wait, and the wait is the backoff of the failures so far.
IInv ==
    /\ HeartbeatTypeOK
    /\ failures > 0 => /\ armed = Backoff(failures) /\ pingTimer <= armed
                       /\ sinceError + pingTimer < Horizon

LEMMA Sizes ==
    /\ PingInterval \in Nat /\ PingInterval >= 1 /\ MaxWait \in Nat /\ MaxWait >= 1
    /\ ReminderAfter \in Nat /\ ReminderAfter >= 1 /\ MaxCount \in Nat /\ MaxCount >= 1
    /\ LongestWait \in Nat /\ LongestWait >= PingInterval /\ LongestWait >= MaxWait
    /\ Horizon \in Nat /\ Horizon = ReminderAfter + LongestWait
BY HeartbeatAssumption DEF HeartbeatAssumption, LongestWait, Horizon

LEMMA InitIInv == HeartbeatInit => IInv
<1> SUFFICES ASSUME HeartbeatInit PROVE IInv
  OBVIOUS
<1>1. /\ failures = 0 /\ sinceError = Horizon /\ firstTick = TRUE /\ pingTimer = 0
      /\ logged = "none" /\ stopped = FALSE /\ armed = 0
  BY DEF HeartbeatInit
<1>2. /\ 0 \in 0..MaxCount /\ Horizon \in 0..Horizon /\ 0 \in 0..LongestWait
  BY Sizes
<1>3. HeartbeatTypeOK
  BY <1>1, <1>2 DEF HeartbeatTypeOK
<1> QED
  BY <1>1, <1>3 DEF IInv

LEMMA ElapseKeeps ==
    ASSUME IInv, HeartbeatElapse
    PROVE  IInv'
<1>1. HeartbeatTypeOK'
  BY Sizes DEF IInv, HeartbeatTypeOK, HeartbeatElapse
<1>2. failures' > 0 => /\ armed' = Backoff(failures') /\ pingTimer' <= armed'
                       /\ sinceError' + pingTimer' < Horizon
  BY Sizes DEF IInv, HeartbeatTypeOK, HeartbeatElapse, Backoff
<1> QED
  BY <1>1, <1>2 DEF IInv

LEMMA FailureKeeps ==
    ASSUME IInv, PingFails
    PROVE  IInv'
<1> USE Sizes
<1>1. failures' \in 1..MaxCount
  BY DEF IInv, HeartbeatTypeOK, PingFails, Upto
<1>2. armed' = Wait[failures'] /\ pingTimer' = Wait[failures'] /\ Wait[failures'] \in 1..LongestWait
  BY <1>1, WaitBounds DEF PingFails, Backoff
<1>3. /\ sinceError' \in 0..Horizon /\ sinceError' < ReminderAfter
      /\ logged' \in {"none", "ERROR"}
  <2>1. sinceError \in 0..Horizon
    BY DEF IInv, HeartbeatTypeOK
  <2> QED
    BY <2>1 DEF PingFails, LogsError
<1>4. stopped' = stopped /\ firstTick' = FALSE
  BY DEF PingFails
<1>5. HeartbeatTypeOK'
  <2>1. stopped' \in BOOLEAN /\ firstTick' \in BOOLEAN
    BY <1>4 DEF IInv, HeartbeatTypeOK
  <2> QED
    BY <1>1, <1>2, <1>3, <2>1 DEF HeartbeatTypeOK
<1>6. sinceError' + pingTimer' < Horizon
  BY <1>2, <1>3
<1> QED
  BY <1>2, <1>5, <1>6 DEF IInv, Backoff

LEMMA SuccessKeeps ==
    ASSUME IInv, PingSucceeds
    PROVE  IInv'
<1>1. failures' = 0 /\ pingTimer' = PingInterval /\ armed' = PingInterval
  BY DEF PingSucceeds
<1>2. sinceError' \in 0..Horizon /\ logged' \in {"none", "restored", "ok"}
  BY Sizes DEF IInv, HeartbeatTypeOK, PingSucceeds
<1>3. firstTick' \in BOOLEAN /\ stopped' \in BOOLEAN
  BY DEF IInv, HeartbeatTypeOK, PingSucceeds
<1>4. HeartbeatTypeOK'
  BY Sizes, <1>1, <1>2, <1>3 DEF HeartbeatTypeOK
<1> QED
  BY <1>1, <1>4 DEF IInv

LEMMA IInvStep ==
    ASSUME IInv, [HeartbeatNext]_heartbeatVars
    PROVE  IInv'
<1>1. CASE HeartbeatElapse
  BY <1>1, ElapseKeeps
<1>2. CASE PingFails
  BY <1>2, FailureKeeps
<1>3. CASE PingSucceeds
  BY <1>3, SuccessKeeps
<1>4. CASE HeartbeatStop
  <2>1. HeartbeatTypeOK'
    BY <1>4 DEF IInv, HeartbeatTypeOK, HeartbeatStop
  <2> QED
    BY <1>4, <2>1 DEF IInv, HeartbeatStop, Backoff
<1>5. CASE UNCHANGED heartbeatVars
  <2>1. HeartbeatTypeOK'
    BY <1>5 DEF IInv, HeartbeatTypeOK, heartbeatVars
  <2> QED
    BY <1>5, <2>1 DEF IInv, heartbeatVars, Backoff
<1> QED
  BY <1>1, <1>2, <1>3, <1>4, <1>5 DEF HeartbeatNext

-----------------------------------------------------------------------------
(* The action property, one step at a time *)

\* In an outage the next wait is no shorter than the last one, or at least the cap.
NoCloser == armed' >= armed \/ armed' >= MaxWait

LEMMA WaitGrows ==
    ASSUME IInv, [HeartbeatNext]_heartbeatVars,
           failures > 0, failures' > 0, pingTimer = 0, pingTimer' > 0
    PROVE  NoCloser /\ (PingInterval <= MaxWait => armed' >= armed)
<1> USE Sizes
<1>1. failures \in 1..MaxCount /\ armed = Wait[failures] /\ armed \in 0..LongestWait
  BY DEF IInv, HeartbeatTypeOK, Backoff
<1>2. PingFails
  BY DEF HeartbeatNext, HeartbeatElapse, PingSucceeds, HeartbeatStop, heartbeatVars
<1>3. armed' = Wait[failures'] /\ failures' = Upto(failures + 1)
  BY <1>2 DEF PingFails, Backoff
<1>4. CASE failures < MaxCount
  <2>1. failures' = failures + 1 /\ failures' \in 1..MaxCount
    BY <1>1, <1>3, <1>4 DEF Upto
  <2>2. /\ Wait[failures] \in 1..LongestWait /\ Wait[failures + 1] \in 1..LongestWait
        /\ Wait[failures] <= Wait[failures + 1] \/ MaxWait <= Wait[failures + 1]
        /\ PingInterval <= MaxWait => Wait[failures] <= MaxWait
    BY <1>1, <1>4, <2>1, WaitBounds
  <2> QED
    BY <1>1, <1>3, <2>1, <2>2 DEF NoCloser
<1>5. CASE failures = MaxCount
  <2>1. failures' = failures
    BY <1>3, <1>5 DEF Upto
  <2> QED
    BY <1>1, <1>3, <2>1 DEF NoCloser
<1> QED
  BY <1>1, <1>4, <1>5

-----------------------------------------------------------------------------
(* Theorems on the heartbeat *)

\* The strengthened invariant is an invariant.
THEOREM Inductive == HeartbeatSpec => []IInv
<1>1. HeartbeatInit => IInv
  BY InitIInv
<1>2. IInv /\ [HeartbeatNext]_heartbeatVars => IInv'
  BY IInvStep
<1> QED
  BY <1>1, <1>2, PTL DEF HeartbeatSpec

LEMMA VisibleFromIInv == IInv => OutageStaysVisible
BY Sizes DEF IInv, HeartbeatTypeOK, OutageStaysVisible, Horizon

\* For every interval, cap and reminder, in an outage the latest ERROR is younger than the
\* reminder and one wait: the hour of push.go:252-255 holds up to the last backoff.
THEOREM OutageVisible == HeartbeatSpec => []OutageStaysVisible
BY Inductive, VisibleFromIInv, PTL

\* With an interval up to the cap, the pings of an outage never come closer together.
THEOREM WaitsGrow ==
    ASSUME PingInterval <= MaxWait
    PROVE  HeartbeatSpec => WaitNeverShrinks
<1>1. IInv /\ [HeartbeatNext]_heartbeatVars =>
        [failures > 0 /\ failures' > 0 /\ pingTimer = 0 /\ pingTimer' > 0
            => armed' >= armed]_heartbeatVars
  BY WaitGrows
<1> QED
  BY <1>1, Inductive, PTL DEF HeartbeatSpec, WaitNeverShrinks

\* With any interval, a wait of an outage is followed by one that is no shorter or is at
\* least maxHeartbeatBackoff: an interval above the cap is cut down to it, and no further.
CapIsFloor ==
    [][failures > 0 /\ failures' > 0 /\ pingTimer = 0 /\ pingTimer' > 0 => NoCloser]_heartbeatVars

THEOREM NeverBelowCap == HeartbeatSpec => CapIsFloor
<1>1. IInv /\ [HeartbeatNext]_heartbeatVars =>
        [failures > 0 /\ failures' > 0 /\ pingTimer = 0 /\ pingTimer' > 0
            => NoCloser]_heartbeatVars
  BY WaitGrows
<1> QED
  BY <1>1, Inductive, PTL DEF HeartbeatSpec, CapIsFloor

-----------------------------------------------------------------------------
(* The inductive invariant of the identity *)

Whole(id) == id.UID # Unset /\ id.Slug # Unset

\* The attributes are those of the current identity, which is none or whole; between the
\* two hops the UID of the first is known; main's own lookup starts from none.
IdentityInv ==
    /\ attrs = ClusterAttrSet(current)
    /\ current = Zero \/ Whole(current)
    /\ phase = "cluster" => uid # Unset
    /\ ~booted => current = Zero

RorInv == RorTypeOK /\ IdentityInv

-----------------------------------------------------------------------------
(* Facts about the data *)

LEMMA UnsetIsString == Unset \in STRING
BY RorAssumption DEF RorAssumption

LEMMA ZeroIsIdentity == Zero \in Identity /\ Zero.UID = Unset
BY UnsetIsString DEF Zero, Identity

LEMMA BindingFields ==
    \A b \in Bindings \cup {Zero} :
        /\ b \in Identity
        /\ b.UID \in STRING /\ b.Slug \in STRING /\ b.Name \in STRING /\ b.Environment \in STRING
        /\ b # Zero => b.UID # Unset
<1>1. Bindings \subseteq Identity /\ \A b \in Bindings : b.UID # Unset
  BY RorAssumption DEF RorAssumption, Identity
<1>2. \A b \in Identity : /\ b.UID \in STRING /\ b.Slug \in STRING /\ b.Name \in STRING
                          /\ b.Environment \in STRING
  BY DEF Identity
<1> QED
  BY <1>1, <1>2, ZeroIsIdentity

\* The identity put together after the second hop is whole, whether the hop gave a slug
\* or not.
LEMMA AssembledIsWhole ==
    ASSUME NEW u \in STRING, u # Unset,
           NEW slug \in STRING, NEW name \in STRING, NEW env \in STRING
    PROVE  /\ Assemble(u, slug, name, env) \in Identity
           /\ Whole(Assemble(u, slug, name, env)) /\ Assemble(u, slug, name, env) # Zero
BY ZeroIsIdentity DEF Assemble, Whole, Identity

LEMMA AttrsType ==
    ASSUME NEW id \in Identity
    PROVE  /\ ClusterAttrSet(id) \in [name : STRING, environment : STRING, ror : Identity]
           /\ ClusterAttrSet(id).ror = IF id.UID # Unset THEN id ELSE Zero
<1>1. ResolveClusterName(id.Name) \in STRING /\ ResolveEnvironment(id.Environment) \in STRING
  BY RorAssumption DEF RorAssumption, Identity, ResolveClusterName, ResolveEnvironment
<1> QED
  BY <1>1, ZeroIsIdentity DEF ClusterAttrSet

LEMMA CadenceBounds ==
    /\ RefreshInterval \in Nat /\ RetryInterval \in Nat /\ MaxChanges \in Nat
    /\ \A id \in Identity : Cadence(id) \in 0..RefreshInterval
BY RorAssumption DEF RorAssumption, Cadence, Least

-----------------------------------------------------------------------------
(* Steps of the identity *)

LEMMA InitRorInv == RorInit => RorInv
<1> SUFFICES ASSUME RorInit PROVE RorInv
  OBVIOUS
<1>1. IdentityInv
  BY DEF RorInit, IdentityInv
<1>2. attrs \in [name : STRING, environment : STRING, ror : Identity]
  BY ZeroIsIdentity, AttrsType DEF RorInit
<1>3. 0 \in 0..MaxChanges /\ 0 \in 0..RefreshInterval
  BY CadenceBounds
<1>4. RorTypeOK
  BY <1>2, <1>3, ZeroIsIdentity, UnsetIsString DEF RorInit, RorTypeOK
<1> QED
  BY <1>1, <1>4 DEF RorInv

\* The end of a lookup, with what it may end with.
LEMMA SettleKeeps ==
    ASSUME RorInv, NEW id \in Identity, id = Zero \/ Whole(id), Settle(id)
    PROVE  RorInv' /\ (attrs.ror # Zero => attrs'.ror # Zero)
<1>1. /\ current \in Identity /\ attrs = ClusterAttrSet(current)
      /\ current = Zero \/ Whole(current)
      /\ ~booted => current = Zero
      /\ ror \in Bindings \cup {Zero} /\ apikey \in BOOLEAN /\ changes \in 0..MaxChanges
  BY DEF RorInv, RorTypeOK, IdentityInv
<1>2. \/ current' = id /\ attrs' = ClusterAttrSet(id) /\ (booted => id # Zero)
      \/ current' = current /\ attrs' = attrs
  BY DEF Settle, Adopt
<1>3. /\ current' \in Identity /\ attrs' = ClusterAttrSet(current')
      /\ current' = Zero \/ Whole(current')
  BY <1>1, <1>2
<1>4. attrs' \in [name : STRING, environment : STRING, ror : Identity]
  BY <1>3, AttrsType
<1>5. /\ booted' = TRUE /\ uid' = Unset /\ phase' \in {"wait", "off"}
      /\ rorTimer' = Cadence(current') /\ UNCHANGED <<ror, apikey, changes>>
  BY DEF Settle, rorExternal
<1>6. RorTypeOK'
  <2>1. rorTimer' \in 0..RefreshInterval
    BY <1>3, <1>5, CadenceBounds
  <2>2. apikey' \in BOOLEAN /\ booted' \in BOOLEAN
    BY <1>1, <1>5
  <2>3. ror' \in Bindings \cup {Zero} /\ changes' \in 0..MaxChanges /\ uid' \in STRING
    BY <1>1, <1>5, UnsetIsString
  <2> QED
    BY <1>3, <1>4, <1>5, <2>1, <2>2, <2>3 DEF RorTypeOK
<1>7. IdentityInv'
  BY <1>3, <1>5 DEF IdentityInv
<1>8. ASSUME attrs.ror # Zero PROVE attrs'.ror # Zero
  <2>1. current # Zero /\ booted
    BY <1>1, <1>8, ZeroIsIdentity, AttrsType
  <2>2. current' # Zero /\ Whole(current')
    BY <1>2, <1>3, <2>1
  <2> QED
    BY <1>3, <2>2, AttrsType DEF Whole
<1> QED
  BY <1>6, <1>7, <1>8 DEF RorInv

\* A step that leaves the loop's identity and the attributes alone.
LEMMA QuietKeeps ==
    ASSUME RorInv, UNCHANGED <<booted, current, attrs>>,
           ror' \in Bindings \cup {Zero}, apikey' \in BOOLEAN, changes' \in 0..MaxChanges,
           phase' \in {"key", "self", "cluster", "wait", "off"}, uid' \in STRING,
           rorTimer' \in 0..RefreshInterval, phase' = "cluster" => uid' # Unset
    PROVE  RorInv' /\ (attrs.ror # Zero => attrs'.ror # Zero)
<1>1. booted' \in BOOLEAN
  BY DEF RorInv, RorTypeOK
<1>2. RorTypeOK'
  BY <1>1 DEF RorInv, RorTypeOK
<1>3. IdentityInv'
  BY DEF RorInv, IdentityInv
<1> QED
  BY <1>2, <1>3 DEF RorInv

LEMMA LookupKeeps ==
    ASSUME RorInv, Lookup
    PROVE  RorInv' /\ (attrs.ror # Zero => attrs'.ror # Zero)
<1>0. /\ ror \in Bindings \cup {Zero} /\ apikey \in BOOLEAN /\ changes \in 0..MaxChanges
      /\ uid \in STRING /\ rorTimer \in 0..RefreshInterval
      /\ phase = "cluster" => uid # Unset
  BY DEF RorInv, RorTypeOK, IdentityInv
<1>1. CASE Settle(Zero)
  BY <1>1, ZeroIsIdentity, SettleKeeps
<1>2. CASE ReadKey
  <2>1. CASE Settle(Zero)
    BY <1>1, <2>1
  <2>2. CASE phase' = "self" /\ UNCHANGED <<rorExternal, booted, uid, current, attrs, rorTimer>>
    BY <1>0, <2>2, QuietKeeps DEF rorExternal
  <2> QED
    BY <1>2, <2>1, <2>2 DEF ReadKey
<1>3. ASSUME NEW ok \in BOOLEAN, SelfLookup(ok)
      PROVE  RorInv' /\ (attrs.ror # Zero => attrs'.ror # Zero)
  <2>1. CASE Settle(Zero)
    BY <1>1, <2>1
  <2>2. CASE /\ ror # Zero /\ uid' = ror.UID /\ phase' = "cluster"
             /\ UNCHANGED <<rorExternal, booted, current, attrs, rorTimer>>
    <3>1. uid' \in STRING /\ uid' # Unset
      BY <1>0, <2>2, BindingFields
    <3> QED
      BY <1>0, <2>2, <3>1, QuietKeeps DEF rorExternal
  <2> QED
    BY <1>3, <2>1, <2>2 DEF SelfLookup
<1>4. ASSUME NEW ok \in BOOLEAN, ClusterLookup(ok)
      PROVE  RorInv' /\ (attrs.ror # Zero => attrs'.ror # Zero)
  <2>1. uid \in STRING /\ uid # Unset
    BY <1>0, <1>4 DEF ClusterLookup
  <2>2. /\ ror.Slug \in STRING /\ ror.Name \in STRING /\ ror.Environment \in STRING
        /\ Unset \in STRING
    BY <1>0, BindingFields, UnsetIsString
  <2>3. PICK slug \in STRING, name \in STRING, env \in STRING :
           Settle(Assemble(uid, slug, name, env))
    BY <1>4, <2>2 DEF ClusterLookup
  <2>4. Assemble(uid, slug, name, env) \in Identity /\ Whole(Assemble(uid, slug, name, env))
    BY <2>1, AssembledIsWhole
  <2> QED
    BY <2>3, <2>4, SettleKeeps
<1> QED
  BY <1>2, <1>3, <1>4 DEF Lookup

LEMMA RorStep ==
    ASSUME RorInv, [RorNext]_rorVars
    PROVE  RorInv' /\ (attrs.ror # Zero => attrs'.ror # Zero)
<1>0. /\ ror \in Bindings \cup {Zero} /\ apikey \in BOOLEAN /\ changes \in 0..MaxChanges
      /\ uid \in STRING /\ rorTimer \in 0..RefreshInterval
      /\ phase \in {"key", "self", "cluster", "wait", "off"}
      /\ phase = "cluster" => uid # Unset
  BY DEF RorInv, RorTypeOK, IdentityInv
<1>1. CASE RorChanges
  <2>1. changes' \in 0..MaxChanges /\ ror' \in Bindings \cup {Zero}
    BY <1>0, <1>1, CadenceBounds DEF RorChanges
  <2> QED
    BY <1>0, <1>1, <2>1, QuietKeeps DEF RorChanges
<1>2. CASE SecretChanges
  <2>1. changes' \in 0..MaxChanges
    BY <1>0, <1>2, CadenceBounds DEF SecretChanges
  <2>2. apikey' \in BOOLEAN
    BY <1>2 DEF SecretChanges
  <2> QED
    BY <1>0, <1>2, <2>1, <2>2, QuietKeeps DEF SecretChanges
<1>3. CASE Lookup
  BY <1>3, LookupKeeps
<1>4. CASE RorElapse
  <2>1. rorTimer' \in 0..RefreshInterval
    BY <1>0, <1>4, CadenceBounds DEF RorElapse
  <2> QED
    BY <1>0, <1>4, <2>1, QuietKeeps DEF RorElapse, rorExternal
<1>5. CASE TimerFires
  BY <1>0, <1>5, QuietKeeps DEF TimerFires, rorExternal
<1>6. CASE RorStop
  BY <1>0, <1>6, QuietKeeps DEF RorStop, rorExternal
<1>7. CASE UNCHANGED rorVars
  BY <1>0, <1>7, QuietKeeps DEF rorVars, rorExternal
<1> QED
  BY <1>1, <1>2, <1>3, <1>4, <1>5, <1>6, <1>7 DEF RorNext

-----------------------------------------------------------------------------
(* The process runs the two loops as they are alone *)

\* Whatever main does, the identity takes one of its own steps, or none.
LEMMA RorSteps == [Next]_vars => [RorNext]_rorVars
<1> SUFFICES ASSUME [Next]_vars PROVE [RorNext]_rorVars
  OBVIOUS
<1>1. CASE Outside
  BY <1>1 DEF Outside, RorNext
<1>2. CASE Hop(Lookup)
  BY <1>2 DEF Hop, RorNext
<1>3. CASE RorWakes
  BY <1>3 DEF RorWakes, RorNext
<1>4. CASE Tick
  BY <1>4 DEF Tick, RorNext
<1>5. CASE LoopsStop
  BY <1>5 DEF LoopsStop, RorNext
<1>6. CASE UNCHANGED rorVars
  BY <1>6
<1> QED
  BY <1>1, <1>2, <1>3, <1>4, <1>5, <1>6 DEF Next, Ping, Identify, Synced, Signal, Exit, vars

\* And so does the heartbeat.
LEMMA HeartbeatSteps == [Next]_vars => [HeartbeatNext]_heartbeatVars
<1> SUFFICES ASSUME [Next]_vars PROVE [HeartbeatNext]_heartbeatVars
  OBVIOUS
<1>1. CASE Ping
  BY <1>1 DEF Ping, HeartbeatNext
<1>2. CASE Tick
  BY <1>2 DEF Tick, HeartbeatNext
<1>3. CASE LoopsStop
  BY <1>3 DEF LoopsStop, HeartbeatNext
<1>4. CASE UNCHANGED heartbeatVars
  BY <1>4
<1> QED
  BY <1>1, <1>2, <1>3, <1>4
  DEF Next, Outside, Hop, RorWakes, Identify, Synced, Signal, Exit, vars

\* rorIdentityLoop, with main's own lookup before it, is not disturbed by the rest of main:
\* the process implements the identity specified alone.
THEOREM RunsIdentity == Spec => RorSpec
BY RorSteps, PTL DEF Spec, Init, RorSpec

\* HeartbeatLoop is not disturbed either, although main starts it late or never and a
\* signal may cancel its requests.
THEOREM RunsHeartbeat == Spec => HeartbeatSpec
BY HeartbeatSteps, PTL DEF Spec, Init, HeartbeatSpec

-----------------------------------------------------------------------------
(* Theorems on the identity and the process *)

\* The identity alone: its invariant, and what follows from it.
THEOREM RorInductive == RorSpec => []RorInv
<1>1. RorInit => RorInv
  BY InitRorInv
<1>2. RorInv /\ [RorNext]_rorVars => RorInv'
  BY RorStep
<1> QED
  BY <1>1, <1>2, PTL DEF RorSpec

\* ror_metadata is whole or absent for every record ROR may hold (without a slug, a name or
\* an environment) and every answer of the two hops, with ROR changing between them.
THEOREM MetadataWhole == Spec => []MetadataComplete
<1>1. RorInv => MetadataComplete
  BY AttrsType, ZeroIsIdentity DEF RorInv, RorTypeOK, IdentityInv, Whole, MetadataComplete
<1> QED
  BY <1>1, RunsIdentity, RorInductive, PTL

\* No failing lookup takes the ROR identity away from the records again.
THEOREM BindingKept == Spec => BindingNeverLost
<1>1. RorInv /\ [RorNext]_rorVars => [attrs.ror # Zero => attrs'.ror # Zero]_rorVars
  BY RorStep
<1> QED
  BY <1>1, RunsIdentity, RorInductive, PTL DEF RorSpec, BindingNeverLost

\* In the process the heartbeat's outage is as visible as alone: in particular a request
\* that the shutdown cancels counts as a failure, and hides none.
THEOREM AgentOutageVisible == Spec => []OutageStaysVisible
BY RunsHeartbeat, OutageVisible, PTL

\* The pings of an outage come no closer together in the process either.
THEOREM AgentWaitsGrow ==
    ASSUME PingInterval <= MaxWait
    PROVE  Spec => WaitNeverShrinks
BY RunsHeartbeat, WaitsGrow, PTL

LEMMA MainTypes ==
    ASSUME main \in {"ror", "id", "sync", "stream", "exit"}, done \in BOOLEAN,
           clusterID \in {Unset, EnvClusterID, KubeSystemUID}, [Next]_vars
    PROVE  /\ main' \in {"ror", "id", "sync", "stream", "exit"} /\ done' \in BOOLEAN
           /\ clusterID' \in {Unset, EnvClusterID, KubeSystemUID}
<1>1. main' \in {"ror", "id", "sync", "stream", "exit"}
  BY DEF Next, Outside, Hop, RorWakes, Ping, Tick, Identify, Synced, Signal, LoopsStop, Exit, vars
<1>2. done' = done \/ done' = TRUE
  BY DEF Next, Outside, Hop, RorWakes, Ping, Tick, Identify, Synced, Signal, LoopsStop, Exit, vars
<1>3. clusterID' = clusterID \/ \E ok \in BOOLEAN : clusterID' = ResolveClusterID(ok)
  BY DEF Next, Outside, Hop, RorWakes, Ping, Tick, Identify, Synced, Signal, LoopsStop, Exit, vars
<1>4. clusterID' \in {Unset, EnvClusterID, KubeSystemUID}
  BY <1>3 DEF ResolveClusterID
<1>5. done' \in BOOLEAN
  BY <1>2
<1> QED
  BY <1>1, <1>4, <1>5

\* Every variable of the process keeps its type; in particular the attributes stay strings
\* and no timer is set beyond its interval.
THEOREM TypeCorrect == Spec => []TypeOK
<1> DEFINE Own == /\ main \in {"ror", "id", "sync", "stream", "exit"} /\ done \in BOOLEAN
                  /\ clusterID \in {Unset, EnvClusterID, KubeSystemUID}
<1>1. Init => Own
  BY DEF Init
<1>2. Own /\ [Next]_vars => Own'
  BY MainTypes
<1>3. RorInv /\ IInv /\ Own => TypeOK
  BY DEF RorInv, IInv, TypeOK
<1> QED
  BY <1>1, <1>2, <1>3, RunsIdentity, RorInductive, RunsHeartbeat, Inductive, PTL DEF Spec
=============================================================================
