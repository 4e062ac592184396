------------------------- MODULE MCForgeReadModel -------------------------
(* Instances of ForgeReadModel for TLC. *)
EXTENDS ForgeReadModel

OneSource == [i \in Items |-> CHOOSE s \in Sources : TRUE]
AllDeclared == {Sources}
AnyDeclared == SUBSET Sources
NoneRefused == {}
FirstRefused == {d \in Deliveries : d.rev = 1 /\ ~d.deleted}
===========================================================================
