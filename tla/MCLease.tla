------------------------------ MODULE MCLease ------------------------------
\* Model values for Lease.
EXTENDS Lease, TLC

Symmetry == Permutations(Clients)

=============================================================================
