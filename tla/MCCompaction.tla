---------------------------- MODULE MCCompaction ---------------------------
\* Model values for Compaction.
EXTENDS Compaction, TLC

Symmetry == Permutations(Writers) \cup Permutations(Compactors) \cup Permutations(Keys)

=============================================================================
