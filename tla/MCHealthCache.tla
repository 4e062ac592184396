--------------------------- MODULE MCHealthCache ---------------------------
(* Instances of HealthCache for TLC. *)
EXTENDS HealthCache
=============================================================================
