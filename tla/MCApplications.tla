--------------------------- MODULE MCApplications ---------------------------
(* Issues and removals of one application, in any order. *)
EXTENDS Applications, TLC

Symmetric == Permutations(Ops)
=============================================================================
