----------------------------- MODULE RorIdentity -----------------------------
(***************************************************************************)
(* The ROR identity of the cluster: the boot lookup of main (main.go:81-99, *)
(* 122), rorIdentityLoop and the two-hop lookup (rorself.go), and the       *)
(* attributes stamped on every record (logattrs.go).  ROR and the Secret    *)
(* that holds the apikey are external and may change between two steps.     *)
(* Time is counted in units of a minute or more.                            *)
(***************************************************************************)
EXTENDS Integers

CONSTANTS
    Unset,             \* "": a field that is absent, an answer not known
    Bindings,          \* what ROR may hold for this cluster: records like Zero
    EnvName,           \* CLUSTER_NAME
    EnvEnvironment,    \* ENVIRONMENT
    RefreshInterval,   \* ROR_REFRESH_INTERVAL (default 1 h; 0: refresh disabled)
    RetryInterval,     \* rorRetryInterval (10 min)
    MaxChanges         \* bound: changes of ROR's record or of the Secret

Zero == [UID |-> Unset, Slug |-> Unset, Name |-> Unset, Environment |-> Unset]

ASSUME RorAssumption ==
    /\ Unset \in STRING
    /\ Bindings \subseteq [UID : STRING, Slug : STRING, Name : STRING, Environment : STRING]
    /\ \A b \in Bindings : b.UID # Unset
    /\ EnvName \in STRING /\ EnvEnvironment \in STRING
    /\ RefreshInterval \in Nat /\ RetryInterval \in Nat \ {0} /\ MaxChanges \in Nat

VARIABLES
    ror,        \* ROR's record of the cluster, Zero while it is not registered
    apikey,     \* resolveRorApiKey finds a key
    changes,    \* changes of the two so far
    phase,      \* "key" | "self" | "cluster" (hop about to be made) | "wait" | "off"
    booted,     \* main's own lookup is over
    uid,        \* rorSelfLookup's answer, between the two hops
    current,    \* the loop's current identity
    attrs,      \* collector.clusterAttrs: [name, environment, ror]
    rorTimer    \* time until timer.C fires

rorExternal == <<ror, apikey, changes>>
rorVars == <<rorExternal, phase, booted, uid, current, attrs, rorTimer>>

Least(a, b) == IF a < b THEN a ELSE b

\* Variant for the mutation runs: the retry cadence without min().
CadenceRetry(id) == IF id = Zero THEN RetryInterval ELSE RefreshInterval

\* next(): the tighter cadence while nothing is resolved.
Cadence(id) == IF id = Zero THEN Least(RetryInterval, RefreshInterval) ELSE RefreshInterval

ResolveClusterName(name) == IF name # Unset THEN name ELSE EnvName
ResolveEnvironment(env) == IF env # Unset THEN env ELSE EnvEnvironment

\* clusterAttrSet, without the cluster_id, version and commit that never change;
\* ror_metadata is absent (Zero) unless the UID is known.
ClusterAttrSet(id) ==
    [name |-> ResolveClusterName(id.Name),
     environment |-> ResolveEnvironment(id.Environment),
     ror |-> IF id.UID # Unset THEN id ELSE Zero]

\* Variant for the mutation runs: no fallback for an empty slug.
AssembleBare(u, slug, name, env) ==
    [UID |-> u, Slug |-> slug, Name |-> name, Environment |-> env]

\* The end of fetchRorIdentity: the slug falls back to the UID.
Assemble(u, slug, name, env) ==
    [UID |-> u, Slug |-> IF slug # Unset THEN slug ELSE u, Name |-> name, Environment |-> env]

Resolved(b) == Assemble(b.UID, b.Slug, b.Name, b.Environment)

-----------------------------------------------------------------------------
RorInit ==
    /\ ror \in Bindings \cup {Zero} /\ apikey \in BOOLEAN /\ changes = 0
    /\ phase = "key" /\ booted = FALSE /\ uid = Unset
    /\ current = Zero /\ attrs = ClusterAttrSet(Zero) /\ rorTimer = 0

\* The cluster is registered in ROR, or its record changes (slug -> UUID, rename).
RorChanges ==
    /\ changes < MaxChanges /\ changes' = changes + 1
    /\ ror' \in Bindings \ {ror}
    /\ UNCHANGED <<apikey, phase, booted, uid, current, attrs, rorTimer>>

\* The Secret with the apikey is created or removed.
SecretChanges ==
    /\ changes < MaxChanges /\ changes' = changes + 1
    /\ apikey' = ~apikey
    /\ UNCHANGED <<ror, phase, booted, uid, current, attrs, rorTimer>>

\* Variant for the mutation runs: a failed lookup replaces the identity too.
AdoptAlways(id) == id # current

\* Variant for the mutation runs: only the first resolution is adopted.
AdoptOnce(id) == id # Zero /\ current = Zero

\* rorIdentityLoop adopts a successful, different resolution only.
Adopt(id) == id # Zero /\ id # current

\* The lookup ended with id.  main takes it as it is and starts rorIdentityLoop.
Settle(id) ==
    /\ IF ~booted \/ Adopt(id)
       THEN current' = id /\ attrs' = ClusterAttrSet(id)
       ELSE UNCHANGED <<current, attrs>>
    /\ booted' = TRUE /\ uid' = Unset
    /\ phase' = IF RefreshInterval > 0 THEN "wait" ELSE "off"
    /\ rorTimer' = Cadence(current')
    /\ UNCHANGED rorExternal

\* resolveRorApiKey: without a key the round ends.
ReadKey ==
    /\ phase = "key"
    /\ IF apikey THEN phase' = "self" /\ UNCHANGED <<rorExternal, booted, uid, current, attrs, rorTimer>>
                 ELSE Settle(Zero)

\* rorSelfLookup: fails, is not a cluster identity, or gives the UID.
SelfLookup(ok) ==
    /\ phase = "self"
    /\ IF ok /\ ror # Zero
       THEN /\ uid' = ror.UID /\ phase' = "cluster"
            /\ UNCHANGED <<rorExternal, booted, current, attrs, rorTimer>>
       ELSE Settle(Zero)

\* rorClusterLookup: fails (no field), or gives ROR's fields as they are by now.
ClusterLookup(ok) ==
    /\ phase = "cluster"
    /\ Settle(IF ok THEN Assemble(uid, ror.Slug, ror.Name, ror.Environment)
                    ELSE Assemble(uid, Unset, Unset, Unset))

RorElapse ==
    /\ phase = "wait" /\ rorTimer > 0
    /\ rorTimer' = rorTimer - 1
    /\ UNCHANGED <<rorExternal, phase, booted, uid, current, attrs>>

TimerFires ==
    /\ phase = "wait" /\ rorTimer = 0
    /\ phase' = "key"
    /\ UNCHANGED <<rorExternal, booted, uid, current, attrs, rorTimer>>

\* ctx is done when the loop comes to its select.
RorStop ==
    /\ phase = "wait" /\ phase' = "off"
    /\ UNCHANGED <<rorExternal, booted, uid, current, attrs, rorTimer>>

Lookup == ReadKey \/ \E ok \in BOOLEAN : SelfLookup(ok) \/ ClusterLookup(ok)

RorNext == RorChanges \/ SecretChanges \/ Lookup \/ RorElapse \/ TimerFires \/ RorStop

RorSpec == RorInit /\ [][RorNext]_rorVars

-----------------------------------------------------------------------------
(* Properties *)

Identity == [UID : STRING, Slug : STRING, Name : STRING, Environment : STRING]

RorTypeOK ==
    /\ ror \in Bindings \cup {Zero} /\ apikey \in BOOLEAN /\ changes \in 0..MaxChanges
    /\ phase \in {"key", "self", "cluster", "wait", "off"} /\ booted \in BOOLEAN
    /\ uid \in STRING /\ current \in Identity
    /\ attrs \in [name : STRING, environment : STRING, ror : Identity]
    /\ rorTimer \in 0..RefreshInterval

\* ror_metadata is emitted whole or not at all: its cluster_id is never empty although the
\* second hop may fail (rorself.go:194-198), and the UID SPAM matches grants by is there.
MetadataComplete ==
    attrs.ror # Zero => attrs.ror.UID # Unset /\ attrs.ror.Slug # Unset

\* Once bound, records keep a ROR identity: no failing Secret, Self or cluster lookup
\* takes the ACL identifier away again.
BindingNeverLost == [][attrs.ror # Zero => attrs'.ror # Zero]_rorVars

-----------------------------------------------------------------------------
\* rorself.go:115-117: "A transient lookup failure keeps the current identity -- attrs only
\* change on a successful, different resolution."
FailureKeepsIdentity ==
    [][booted /\ current # Zero /\ ClusterLookup(FALSE) => current' = current]_rorVars
=============================================================================
