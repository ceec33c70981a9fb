------------------------------ MODULE MCReads ------------------------------
(* Reads with small sets of databases and callers. *)
EXTENDS Reads, TLC

Symmetry == Permutations(Callers)

=============================================================================
