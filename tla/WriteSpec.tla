----------------------------- MODULE WriteSpec -----------------------------
(***************************************************************************)
(* What WithWrite promises its callers: the mutations of a database form   *)
(* one log that only grows, a key enters it at most once, and a call is    *)
(* acknowledged only with the TXID at which its key stands in the log.     *)
(***************************************************************************)
EXTENDS Naturals, Sequences

CONSTANT Keys

VARIABLES
    log,        \* keys of the durable mutations, by TXID
    acked       \* acknowledgements given: a key and the TXID reported for it

LogInit == log = <<>> /\ acked = {}

\* A flush reaches the replica.
Commit(k) ==
    /\ \A t \in DOMAIN log : log[t] # k
    /\ log' = Append(log, k)
    /\ UNCHANGED acked

\* WithWrite returns, for a new or for a deduplicated mutation.
Acknowledge(k, t) ==
    /\ t \in DOMAIN log /\ log[t] = k
    /\ acked' = acked \cup {[key |-> k, txid |-> t]}
    /\ UNCHANGED log

LogNext ==
    \E k \in Keys : Commit(k) \/ \E t \in DOMAIN log : Acknowledge(k, t)

LogSpec == LogInit /\ [][LogNext]_<<log, acked>>

=============================================================================
