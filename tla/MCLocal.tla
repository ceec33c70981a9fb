------------------------------ MODULE MCLocal ------------------------------
EXTENDS Local

CONSTANTS c1, c2, r1, r2

\* Two writers, a writer and a reader, two readers of one wrapper.
MCScenes ==
    {[cast |-> {c1, c2}, limit |-> 0],
     [cast |-> {c1, r1}, limit |-> 1],
     [cast |-> {r1, r2}, limit |-> 2]}
=============================================================================
