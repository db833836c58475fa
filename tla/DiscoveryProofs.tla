--------------------------- MODULE DiscoveryProofs ---------------------------
(***************************************************************************)
(* Proof that discovery keeps, whatever answers when, the best version that *)
(* answered.  A probe compares with the version kept only, so it must be    *)
(* known that this one precedes all that answered before: the inductive     *)
(* invariant also orders what was probed before what is pending, which      *)
(* settles the tie between two versions of one Traefik group.               *)
(***************************************************************************)
EXTENDS Discovery, TLAPS

Answering(r) == {v \in AllGVs : r \in answers[v]}

\* NewestAnswered for one resource.
Newest(r) ==
    IF Answering(r) = {} THEN best[r] = Unknown
    ELSE best[r] \in Answering(r) /\ \A w \in Answering(r) : w = best[r] \/ Precedes(best[r], w)

Shape ==
    /\ pending \subseteq AllGVs
    /\ best \in [Optional -> AllGVs \cup {Unknown}]
    /\ answers \in [AllGVs -> SUBSET Optional]

\* What answered was probed, in turn, and with resources of its own group.
Probed ==
    /\ \A v \in AllGVs : answers[v] \subseteq Wanted(v)
    /\ \A v \in pending : answers[v] = {}
    /\ \A v \in pending : \A w \in AllGVs \ pending : Turn(w) <= Turn(v)

Inv == Shape /\ Probed /\ \A r \in Optional : Newest(r)

\* Turns of the Gateway API come first, those of Traefik's versions tell them apart.
LEMMA TurnFacts ==
    ASSUME NEW v \in AllGVs
    PROVE  /\ Turn(v) \in Nat
           /\ v \notin GatewayGVs => TraefikGVs[Turn(v)] = v
  <1>1. CASE v \in GatewayGVs
    BY <1>1 DEF Turn
  <1>2. CASE v \notin GatewayGVs
    <2>1. PICK i \in 1..Len(TraefikGVs) : TraefikGVs[i] = v
      BY <1>2 DEF AllGVs
    <2>2. Turn(v) = CHOOSE j \in 1..Len(TraefikGVs) : TraefikGVs[j] = v
      BY <1>2 DEF Turn
    <2>3. Turn(v) \in 1..Len(TraefikGVs) /\ TraefikGVs[Turn(v)] = v
      BY <2>1, <2>2
    <2>4. Len(TraefikGVs) \in Nat
      BY DiscoveryAssumption DEF DiscoveryAssumption
    <2>5. QED
      BY <2>3, <2>4
  <1>3. QED
    BY <1>1, <1>2

\* Versions that want a resource in common are of the same loop, and so comparable: by rank
\* or, at equal rank, by turn.
LEMMA Comparable ==
    ASSUME NEW v \in AllGVs, NEW w \in AllGVs, v # w,
           NEW r \in Wanted(v) \cap Wanted(w),
           Turn(w) <= Turn(v), ~(Rank[v] > Rank[w])
    PROVE  Precedes(w, v)
  <1>1. Rank[v] \in Nat /\ Rank[w] \in Nat
    BY DiscoveryAssumption DEF DiscoveryAssumption
  <1>2. v \in GatewayGVs <=> w \in GatewayGVs
    BY DiscoveryAssumption DEF DiscoveryAssumption, Wanted
  <1>3. Turn(v) \in Nat /\ Turn(w) \in Nat
    BY TurnFacts
  <1>4. CASE v \in GatewayGVs
    <2>1. Rank[v] # Rank[w]
      BY <1>2, <1>4, DiscoveryAssumption DEF DiscoveryAssumption
    <2>2. QED
      BY <1>1, <2>1 DEF Precedes
  <1>5. CASE v \notin GatewayGVs
    <2>1. Turn(v) # Turn(w)
      BY <1>2, <1>5, TurnFacts
    <2>2. QED
      BY <1>1, <1>3, <2>1 DEF Precedes
  <1>6. QED
    BY <1>4, <1>5

\* Nothing new for r.
LEMMA NewestStays ==
    ASSUME NEW r \in Optional, Newest(r), Answering(r)' = Answering(r), best'[r] = best[r]
    PROVE  Newest(r)'
  <1>1. CASE Answering(r) = {}
    BY <1>1 DEF Newest
  <1>2. CASE Answering(r) # {}
    <2>1. /\ best[r] \in Answering(r)
          /\ \A w \in Answering(r) : w = best[r] \/ Precedes(best[r], w)
      BY <1>2 DEF Newest
    <2>2. \A w \in Answering(r)' : w = best'[r] \/ Precedes(best'[r], w)
      BY <2>1
    <2>3. QED
      BY <1>2, <2>1, <2>2 DEF Newest, Precedes, Turn
  <1>3. QED
    BY <1>1, <1>2

LEMMA StartEstablishes ==
    ASSUME pending = AllGVs, best = [r \in Optional |-> Unknown],
           answers = [v \in AllGVs |-> {}]
    PROVE  Inv
  <1>1. Shape
    BY DEF Shape
  <1>2. Probed
    BY DEF Probed
  <1>3. \A r \in Optional : Newest(r)
    BY DEF Newest, Answering
  <1>4. QED
    BY <1>1, <1>2, <1>3 DEF Inv

\* The same of the primed variables: a new process starts from nothing.
LEMMA RestartEstablishes ==
    ASSUME StartDiscovery PROVE Inv'
  <1>1. Shape'
    BY DEF Shape, StartDiscovery
  <1>2. Probed'
    BY DEF Probed, StartDiscovery
  <1>3. ASSUME NEW r \in Optional PROVE Newest(r)'
    BY DEF Newest, Answering, StartDiscovery
  <1>4. QED
    BY <1>1, <1>2, <1>3 DEF Inv

LEMMA SameAnswers ==
    ASSUME Inv, UNCHANGED <<pending, best, answers>>
    PROVE  Inv'
  <1>1. Shape'
    BY DEF Inv, Shape
  <1>2. Probed'
    BY DEF Inv, Probed, Turn, Wanted
  <1>3. ASSUME NEW r \in Optional PROVE Newest(r)'
    BY NewestStays DEF Inv, Answering
  <1>4. QED
    BY <1>1, <1>2, <1>3 DEF Inv

\* A probe that answers with r replaces the version kept or is preceded by it.
LEMMA ProbePreserves ==
    ASSUME Inv, NEW v \in AllGVs, NEW ok \in BOOLEAN, Probe(v, ok)
    PROVE  Inv'
  <1> DEFINE answer == {r \in Wanted(v) : ok /\ <<v, r>> \in served}
  <1>1. /\ v \in pending /\ InTurn(v)
        /\ answers' = [answers EXCEPT ![v] = answer]
        /\ best' = [r \in Optional |-> IF r \in answer /\ Better(v, best[r]) THEN v ELSE best[r]]
        /\ pending' = pending \ {v}
    BY DEF Probe
  <1>2. answer \subseteq Wanted(v) /\ answer \subseteq Optional
    BY DEF Wanted, Optional
  <1> HIDE DEF answer
  <1>3. answers[v] = {} /\ answers'[v] = answer
    BY <1>1 DEF Inv, Shape, Probed
  <1>4. \A w \in AllGVs \ {v} : answers'[w] = answers[w]
    BY <1>1 DEF Inv, Shape
  <1>5. Shape'
    BY <1>1, <1>2 DEF Inv, Shape
  <1>6. Probed'
    <2>1. \A w \in AllGVs : answers'[w] \subseteq Wanted(w)
      BY <1>2, <1>3, <1>4 DEF Inv, Probed
    <2>2. \A w \in pending' : answers'[w] = {}
      BY <1>1, <1>4 DEF Inv, Shape, Probed
    <2>3. ASSUME NEW x \in pending', NEW w \in AllGVs \ pending'
          PROVE  Turn(w) <= Turn(x)
      <3>1. x \in pending
        BY <1>1
      <3>2. CASE w = v
        BY <1>1, <3>1, <3>2 DEF InTurn
      <3>3. CASE w # v
        BY <1>1, <3>1, <3>3 DEF Inv, Probed
      <3>4. QED
        BY <3>2, <3>3
    <2>4. QED
      BY <2>1, <2>2, <2>3 DEF Probed, Wanted, Turn
  <1>7. ASSUME NEW r \in Optional PROVE Newest(r)'
    <2>1. Newest(r)
      BY DEF Inv
    <2>2. Answering(r) \subseteq AllGVs /\ v \notin Answering(r)
      BY <1>3 DEF Answering
    <2>3. CASE r \notin answer
      <3>1. Answering(r)' = Answering(r)
        BY <1>3, <1>4, <2>3 DEF Answering
      <3>2. best'[r] = best[r]
        BY <1>1, <2>3
      <3>3. QED
        BY <2>1, <3>1, <3>2, NewestStays
    <2>4. CASE r \in answer
      <3>1. Answering(r)' = Answering(r) \cup {v}
        BY <1>3, <1>4, <2>4 DEF Answering
      <3>2. best'[r] = IF Better(v, best[r]) THEN v ELSE best[r]
        BY <1>1, <2>4
      <3>3. CASE Answering(r) = {}
        <4>1. best'[r] = v
          BY <2>1, <3>2, <3>3 DEF Newest, Better
        <4>2. QED
          BY <3>1, <3>3, <4>1 DEF Newest
      <3>4. CASE Answering(r) # {}
        <4>1. /\ best[r] \in Answering(r)
              /\ \A w \in Answering(r) : w = best[r] \/ Precedes(best[r], w)
          BY <2>1, <3>4 DEF Newest
        <4>2. best[r] \in AllGVs /\ best[r] # v /\ best[r] # Unknown
          BY <2>2, <4>1, DiscoveryAssumption DEF DiscoveryAssumption
        <4>3. \A w \in AllGVs : Rank[w] \in Nat
          BY DiscoveryAssumption DEF DiscoveryAssumption
        <4>4. CASE Rank[v] > Rank[best[r]]
          <5>1. best'[r] = v
            BY <3>2, <4>4 DEF Better
          <5>2. ASSUME NEW w \in Answering(r) PROVE Precedes(v, w)
            <6>1. Rank[best[r]] >= Rank[w]
              BY <2>2, <4>1, <4>2, <4>3 DEF Precedes
            <6>2. QED
              BY <2>2, <4>2, <4>3, <4>4, <6>1 DEF Precedes
          <5>3. QED
            BY <3>1, <5>1, <5>2 DEF Newest, Precedes, Turn
        <4>5. CASE ~(Rank[v] > Rank[best[r]])
          <5>1. best'[r] = best[r]
            BY <3>2, <4>2, <4>5 DEF Better
          <5>2. r \in Wanted(v) \cap Wanted(best[r])
            BY <1>2, <2>4, <4>1, <4>2 DEF Answering, Inv, Probed
          <5>3. Turn(best[r]) <= Turn(v)
            <6>1. best[r] \notin pending
              BY <4>1 DEF Answering, Inv, Probed
            <6>2. QED
              BY <1>1, <4>2, <6>1 DEF Inv, Probed
          <5>4. Precedes(best[r], v)
            BY <4>2, <4>5, <5>2, <5>3, Comparable
          <5>5. \A w \in Answering(r)' : w = best'[r] \/ Precedes(best'[r], w)
            BY <3>1, <4>1, <5>1, <5>4
          <5>6. best'[r] \in Answering(r)'
            BY <3>1, <4>1, <5>1
          <5>7. QED
            BY <5>5, <5>6 DEF Newest, Precedes, Turn
        <4>6. QED
          BY <4>4, <4>5
      <3>5. QED
        BY <3>3, <3>4
    <2>5. QED
      BY <2>3, <2>4
  <1>8. QED
    BY <1>5, <1>6, <1>7 DEF Inv

LEMMA DiscoveryStep == Inv /\ [DiscoveryNext]_discoveryVars => Inv'
  <1> SUFFICES ASSUME Inv, [DiscoveryNext]_discoveryVars PROVE Inv'
    OBVIOUS
  <1>1. CASE \E ok \in BOOLEAN : DiscoverGatewayAPI(ok) \/ DiscoverTraefik(ok)
    <2>1. PICK v \in AllGVs, ok \in BOOLEAN : Probe(v, ok)
      BY <1>1 DEF DiscoverGatewayAPI, DiscoverTraefik, AllGVs
    <2>2. QED
      BY <2>1, ProbePreserves
  <1>2. CASE \E p \in Offered : ChangeServed(p)
    BY <1>2, SameAnswers DEF ChangeServed
  <1>3. CASE StartDiscovery /\ UNCHANGED served
    BY <1>3, RestartEstablishes
  <1>4. CASE UNCHANGED discoveryVars
    BY <1>4, SameAnswers DEF discoveryVars
  <1>5. QED
    BY <1>1, <1>2, <1>3, <1>4 DEF DiscoveryNext

LEMMA NewestFromInv == Inv => NewestAnswered
  BY DEF Inv, Newest, Answering, NewestAnswered

\* Whatever the order of the probes, their failures, the changes of what is served between
\* them and the restarts of the process: the version watched is the best that answered.
THEOREM NewestIsChosen == DiscoverySpec => []NewestAnswered
  <1>1. DiscoveryInit => Inv
    BY StartEstablishes DEF DiscoveryInit
  <1>2. QED
    BY <1>1, DiscoveryStep, NewestFromInv, PTL DEF DiscoverySpec
=============================================================================
