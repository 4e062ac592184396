---------------------------- MODULE MCNodeNotify ----------------------------
(* Instances of NodeNotify for TLC. *)
EXTENDS NodeNotify

CONSTANT u1
=============================================================================
