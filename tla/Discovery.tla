------------------------------ MODULE Discovery ------------------------------
(***************************************************************************)
(* API discovery (DiscoverGatewayAPI, DiscoverTraefik): which version of    *)
(* each optional resource the agent watches.  Both loops probe the group-   *)
(* versions they know and keep, per resource, one of the highest rank.  A   *)
(* probe may fail, and the API server may start or stop serving a version   *)
(* between two probes.                                                      *)
(***************************************************************************)
EXTENDS Integers, Sequences

CONSTANTS
    GatewayGVs,         \* the group-versions of gwAPIVersionRank, as <<group, version>>
    TraefikGVs,         \* those of traefikGroups x {v1, v1alpha1}, in the order of the loops
    Rank,               \* gwAPIVersionRank of a version, traefikGroupRank of a group
    GatewayResources,   \* gwAPIResources
    TraefikResources,   \* traefikResources
    Offered             \* <<group-version, resource>> pairs the API server may serve

AllGVs == GatewayGVs \cup {TraefikGVs[i] : i \in 1..Len(TraefikGVs)}
Optional == GatewayResources \cup TraefikResources
Unknown == <<>>         \* no version: the resource is not watched

ASSUME DiscoveryAssumption ==
    /\ TraefikGVs \in Seq(AllGVs)
    /\ \A i \in 1..Len(TraefikGVs) : TraefikGVs[i] \notin GatewayGVs
    /\ \A i, j \in 1..Len(TraefikGVs) : TraefikGVs[i] = TraefikGVs[j] => i = j
    /\ Rank \in [AllGVs -> Nat \ {0}]
    /\ \A v, w \in GatewayGVs : Rank[v] = Rank[w] => v = w
    /\ GatewayResources \cap TraefikResources = {}
    /\ Unknown \notin AllGVs

VARIABLES
    served,     \* <<group-version, resource>> pairs the API server serves
    pending,    \* group-versions not probed yet
    best,       \* best and rank of the code: the version chosen so far per resource
    answers     \* what each probe answered (history)

discoveryVars == <<served, pending, best, answers>>

\* The turn of a Traefik version among the probes; those of Gateway API come first, in the
\* random order of a Go map.
Turn(v) == IF v \in GatewayGVs THEN 0 ELSE CHOOSE i \in 1..Len(TraefikGVs) : TraefikGVs[i] = v
InTurn(v) == \A w \in pending : Turn(v) <= Turn(w)

\* wantResource, wantTraefikResource.
Wanted(v) == IF v \in GatewayGVs THEN GatewayResources ELSE TraefikResources

\* Variant for the mutation runs: >= in the comparison of ranks.
BetterOrEqual(v, old) == old = Unknown \/ Rank[v] >= Rank[old]

\* gatewayapi.go:45, traefik.go:43: a resource without a version has rank 0.
Better(v, old) == old = Unknown \/ Rank[v] > Rank[old]

StartDiscovery ==
    /\ pending' = AllGVs
    /\ best' = [r \in Optional |-> Unknown]
    /\ answers' = [v \in AllGVs |-> {}]

DiscoveryInit ==
    /\ served \in SUBSET Offered
    /\ pending = AllGVs
    /\ best = [r \in Optional |-> Unknown]
    /\ answers = [v \in AllGVs |-> {}]

\* ServerResourcesForGroupVersion: an answer, or an error (NotFound or any other), which the
\* loop takes for an empty answer.
Probe(v, ok) ==
    /\ v \in pending /\ InTurn(v)
    /\ LET answer == {r \in Wanted(v) : ok /\ <<v, r>> \in served}
       IN  /\ answers' = [answers EXCEPT ![v] = answer]
           /\ best' = [r \in Optional |->
                          IF r \in answer /\ Better(v, best[r]) THEN v ELSE best[r]]
    /\ pending' = pending \ {v}
    /\ UNCHANGED served

\* The turns of the two loops.
DiscoverGatewayAPI(ok) == \E v \in GatewayGVs : Probe(v, ok)
DiscoverTraefik(ok) == \E i \in 1..Len(TraefikGVs) : Probe(TraefikGVs[i], ok)

\* A CRD is installed, or a version of it is no longer served.
ChangeServed(p) ==
    /\ served' = IF p \in served THEN served \ {p} ELSE served \cup {p}
    /\ UNCHANGED <<pending, best, answers>>

\* Probes of one process or of a succession of them.
DiscoveryNext ==
    \/ \E ok \in BOOLEAN : DiscoverGatewayAPI(ok) \/ DiscoverTraefik(ok)
    \/ \E p \in Offered : ChangeServed(p)
    \/ StartDiscovery /\ UNCHANGED served

DiscoverySpec == DiscoveryInit /\ [][DiscoveryNext]_discoveryVars

-----------------------------------------------------------------------------
(* Properties *)

\* v goes before w: a higher rank or, between versions of one Traefik group, an earlier turn.
Precedes(v, w) == Rank[v] > Rank[w] \/ (Rank[v] = Rank[w] /\ Turn(v) < Turn(w))

\* Whatever the order of the probes, their failures and what the server does meanwhile, the
\* version chosen for a resource is the first in precedence of those that answered with it,
\* and a resource nothing answered with has none: a failing probe costs its own version only.
NewestAnswered ==
    \A r \in Optional :
        LET found == {v \in AllGVs : r \in answers[v]}
        IN  IF found = {} THEN best[r] = Unknown
            ELSE best[r] \in found /\ \A w \in found : w = best[r] \/ Precedes(best[r], w)
=============================================================================
