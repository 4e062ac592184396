---------------------------- MODULE MCForgeQueue ----------------------------
(* Instances of ForgeQueue for TLC. *)
EXTENDS ForgeQueue
=============================================================================
