---- MODULE MCSlotMap ----
(* Instances of SlotMap for TLC. *)
EXTENDS SlotMapPool, TLC

Symmetry == Permutations(Threads)
OneForeignHandle == {[index |-> 0, generation |-> 1]}
NoForeignHandle == {}
=============================================================================
