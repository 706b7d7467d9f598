------------------------------ MODULE MCScope ------------------------------
(* Small instances of Scope. *)
EXTENDS Scope

ObjectSymmetry == Permutations(Objects)
=============================================================================
