------------------------ MODULE MCForgeReconcileLoop ------------------------
(* Instances of ForgeReconcileLoop for TLC. *)
EXTENDS ForgeReconcileLoop

CONSTANTS s1, s2
TwoSources == <<s1, s2>>
=============================================================================
