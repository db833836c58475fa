----------------------------- MODULE MCPushLoop -----------------------------
(* Instances of PushLoop for TLC. *)
EXTENDS PushLoop, TLC

\* Goroutines that log are interchangeable; no definition tells one from another.
SourceSymmetry == Permutations(Sources)
=============================================================================
