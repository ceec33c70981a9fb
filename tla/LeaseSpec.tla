----------------------------- MODULE LeaseSpec -----------------------------
(***************************************************************************)
(* What the lease promises the runtime: a sequence of epochs, each owned   *)
(* by one client, and never two clients that may write at the same time.   *)
(*                                                                         *)
(* safe[c] is the epoch under which c may write (leaseStale is false for   *)
(* its Held), or 0.  A client may stop being safe at any moment: its clock *)
(* reaches the expiry, a renewal fails, its process dies.  Only when       *)
(* nobody is safe may the next epoch be granted or the lease be released.  *)
(***************************************************************************)
EXTENDS Naturals

CONSTANTS
    Clients,
    NoOwner             \* the owner of a lease that was never granted

VARIABLES
    epoch,      \* ownership generation of the latest grant
    owner,      \* the client that generation was granted to
    taken,      \* the record says held (it may have expired)
    safe        \* safe[c]: the epoch c may write under, 0 for none

leaseVars == <<epoch, owner, taken, safe>>

LeaseTypeOK ==
    /\ epoch \in Nat
    /\ owner \in Clients \cup {NoOwner}
    /\ taken \in BOOLEAN
    /\ safe \in [Clients -> Nat]

NobodySafe == \A c \in Clients : safe[c] = 0

LeaseInit ==
    /\ epoch = 0
    /\ owner = NoOwner
    /\ taken = FALSE
    /\ safe = [c \in Clients |-> 0]

\* A successful acquisition takes effect at the store.
Grant(c) ==
    /\ NobodySafe
    /\ epoch' = epoch + 1
    /\ owner' = c
    /\ taken' = TRUE
    /\ UNCHANGED safe

\* The owner learns of its acquisition, or of a renewal that arrives late.
Enter(c) ==
    /\ owner = c /\ taken
    /\ safe[c] = 0
    /\ safe' = [safe EXCEPT ![c] = epoch]
    /\ UNCHANGED <<epoch, owner, taken>>

\* c is not safe any more: expiry, lost renewal, release under way, crash.
Leave(c) ==
    /\ safe[c] # 0
    /\ safe' = [safe EXCEPT ![c] = 0]
    /\ UNCHANGED <<epoch, owner, taken>>

\* A release takes effect at the store.
Free ==
    /\ NobodySafe
    /\ taken
    /\ taken' = FALSE
    /\ UNCHANGED <<epoch, owner, safe>>

LeaseNext ==
    \/ \E c \in Clients : Grant(c) \/ Enter(c) \/ Leave(c)
    \/ Free

FenceSpec == LeaseInit /\ [][LeaseNext]_leaseVars

=============================================================================
