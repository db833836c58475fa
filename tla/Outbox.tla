-------------------------------- MODULE Outbox --------------------------------
(***************************************************************************)
(* What the delivery path promises about captured lines, without saying     *)
(* how: a numbered stream of lines, each waiting, delivered (ACKed) or      *)
(* lost.  Lines are delivered oldest first, never twice, and a line may be  *)
(* given up only when Capacity newer ones have been accepted, when the      *)
(* process is closing, or when it ends.                                     *)
(***************************************************************************)
EXTENDS Integers

CONSTANT Capacity

VARIABLES
    accepted,    \* how many lines were accepted; they are 1..accepted
    waiting,     \* lines that may still be delivered
    delivered,   \* lines the receiver acknowledged
    closing      \* the last delivery attempt of the process has begun

ovars == <<accepted, waiting, delivered, closing>>

Init == accepted = 0 /\ waiting = {} /\ delivered = {} /\ closing = FALSE

\* The lines that Capacity newer ones displace once n lines were accepted.
Displaced(n) == {p \in waiting : p <= n - Capacity}

Accept ==
    /\ accepted' = accepted + 1
    /\ \E lost \in SUBSET Displaced(accepted + 1) :
          waiting' = (waiting \cup {accepted + 1}) \ lost
    /\ UNCHANGED <<delivered, closing>>

\* A batch is every waiting line up to some line of it.
Deliver ==
    /\ \E last \in waiting :
          LET batch == {p \in waiting : p <= last} IN
          /\ delivered' = delivered \cup batch
          /\ waiting' = waiting \ batch
    /\ UNCHANGED <<accepted, closing>>

Displace ==
    /\ \E lost \in SUBSET Displaced(accepted) : waiting' = waiting \ lost
    /\ UNCHANGED <<accepted, delivered, closing>>

Close == closing' = TRUE /\ UNCHANGED <<accepted, waiting, delivered>>

\* The last attempt failed: what it had taken is given up.
Abandon ==
    /\ closing
    /\ waiting' \in SUBSET waiting
    /\ UNCHANGED <<accepted, delivered, closing>>

\* The process ended; nothing of what waited survives it.
Perish == waiting' = {} /\ closing' = FALSE /\ UNCHANGED <<accepted, delivered>>

Next == Accept \/ Deliver \/ Displace \/ Close \/ Abandon \/ Perish

Spec == Init /\ [][Next]_ovars
===============================================================================
