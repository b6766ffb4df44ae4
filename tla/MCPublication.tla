------------------------------ MODULE MCPublication ------------------------------
(* A small instance of Publication. *)
EXTENDS Publication, TLC

Symmetry == Permutations(Importers)

================================================================================
