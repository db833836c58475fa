------------------------------- MODULE MCAgent -------------------------------
(* Instances of Agent, over the records of MCRorIdentity. *)
EXTENDS Agent, MCRorIdentity
=============================================================================
