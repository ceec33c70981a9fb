------------------------------ MODULE MCWriter -----------------------------
\* Model values for Writer.
EXTENDS Writer, TLC

Symmetry == Permutations(Writers) \cup Permutations(Keys)

=============================================================================
