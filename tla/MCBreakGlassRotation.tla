------------------------ MODULE MCBreakGlassRotation ------------------------
(* Instances of BreakGlassRotation for TLC. *)
EXTENDS BreakGlassRotation

CONSTANT prod

\* As the repository has it: the environment's file holds the passwords of all.
Together == [s \in Services |-> prod]
=============================================================================
