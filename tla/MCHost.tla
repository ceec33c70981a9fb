------------------------------- MODULE MCHost ------------------------------
\* Model values for Host.
EXTENDS Host, TLC

Symmetry == Permutations(Envs) \cup Permutations(Cells) \cup Permutations(DBs)

=============================================================================
