------------------------------ MODULE Buffers ------------------------------
(***************************************************************************)
(* The temporary write buffers of the sessions of one Bridge.  Every       *)
(* wrapper VFS (one for the reads of a database, one for its writes) has a *)
(* directory it creates on demand and removes when its last open database  *)
(* file is closed; all wrappers are charged to one tempBudget, which is    *)
(* kept up to date by measuring the directory and then, under b.mu,        *)
(* applying what was measured.                                             *)
(*                                                                         *)
(* A byte stands for one WriteAt.  wrapperVFS.cleanupPending is left out:  *)
(* the code sets it and never reads it.                                    *)
(***************************************************************************)
EXTENDS Integers, FiniteSets

CONSTANTS
    Writers,    \* sessions on the write wrapper
    Readers,    \* sessions on the read wrapper
    None,       \* no directory
    MaxDirs     \* bound: directories that exist at once

VARIABLES
    limit,          \* b.limit; 0 for a budget that is switched off
    bufferRoot,     \* wrapper -> w.bufferRoot
    activeFiles,    \* wrapper -> w.activeFiles
    accounted,      \* wrapper -> w.accountedBytes
    used,           \* b.used
    bytes,          \* directory that exists -> bytes in it
    left,           \* a directory exists that nobody will remove
    at,             \* session -> where it is
    home,           \* session -> the directory its files are in
    doomed,         \* session -> the directory it is about to remove
    size            \* session -> the size it measured

bufferVars == <<bufferRoot, activeFiles, accounted, used, bytes, left, at,
                home, doomed, size>>

Wrappers == {"read", "write"}
Sessions == Writers \cup Readers
Dirs == 1 .. MaxDirs

\* A session is of one wrapper, and MkdirTemp always finds an unused name.
ASSUME SessionsAssumption ==
    /\ IsFiniteSet(Sessions)
    /\ Writers \cap Readers = {}
ASSUME DirsAssumption ==
    /\ MaxDirs \in Nat
    /\ MaxDirs >= 2 * Cardinality(Sessions) + 3
    /\ None \notin Dirs

Wrapper(s) == IF s \in Readers THEN "read" ELSE "write"

\* Where SQLite has the session's main database file open.
Opened == {"open", "check", "write", "wrote", "reconcile"}

BuffersTypeOK ==
    /\ bufferRoot \in [Wrappers -> Dirs \cup {None}]
    /\ activeFiles \in [Wrappers -> 0 .. Cardinality(Sessions)]
    /\ accounted \in [Wrappers -> Nat]
    /\ used \in Nat
    /\ DOMAIN bytes \subseteq Dirs
    /\ \A d \in DOMAIN bytes : bytes[d] \in Nat
    /\ left \in BOOLEAN
    /\ at \in [Sessions -> Opened \cup {"none", "rooted", "remove", "closing",
                                        "settle", "closed", "discard"}]
    /\ home \in [Sessions -> Dirs \cup {None}]
    /\ doomed \in [Sessions -> Dirs \cup {None}]
    /\ size \in [Sessions -> Nat]

BuffersInit ==
    /\ bufferRoot = [w \in Wrappers |-> None]
    /\ activeFiles = [w \in Wrappers |-> 0]
    /\ accounted = [w \in Wrappers |-> 0]
    /\ used = 0
    /\ bytes = [d \in {} |-> 0]
    /\ left = FALSE
    /\ at = [s \in Sessions |-> "none"]
    /\ home = [s \in Sessions |-> None]
    /\ doomed = [s \in Sessions |-> None]
    /\ size = [s \in Sessions |-> 0]

Move(s, there) == at' = [at EXCEPT ![s] = there]

\* The directories a wrapper or a session knows.
InUse == UNION {{bufferRoot[w] : w \in Wrappers},
                {home[s] : s \in Sessions}, {doomed[s] : s \in Sessions}}

\* The directories once d is made, if it is not there.
WithDir(d) ==
    [e \in DOMAIN bytes \cup {d} |-> IF e \in DOMAIN bytes THEN bytes[e] ELSE 0]

\* ensureBufferRoot, for session s.
EnsureRoot(s) ==
    LET w == Wrapper(s) IN
    IF bufferRoot[w] # None
    THEN /\ home' = [home EXCEPT ![s] = bufferRoot[w]]
         /\ UNCHANGED <<bufferRoot, bytes>>
    ELSE LET d == CHOOSE e \in Dirs : e \notin InUse IN    \* MkdirTemp
         /\ bufferRoot' = [bufferRoot EXCEPT ![w] = d]
         /\ bytes' = WithDir(d)
         /\ home' = [home EXCEPT ![s] = d]

\* OpenWriteWithManifest up to the registration of the session.
Prepare(s) ==
    /\ s \in Writers
    /\ at[s] = "none"
    /\ EnsureRoot(s)
    /\ Move(s, "rooted")
    /\ UNCHANGED <<activeFiles, accounted, used, left, doomed, size>>

\* wrapperVFS.Open of the main database.  Litestream creates the buffer of a
\* write session in its directory, and the directory with it if it is gone.
OpenMain(s) ==
    /\ at[s] = IF s \in Writers THEN "rooted" ELSE "none"
    /\ activeFiles' = [activeFiles EXCEPT ![Wrapper(s)] = @ + 1]
    /\ bytes' = IF home[s] = None THEN bytes ELSE WithDir(home[s])
    /\ Move(s, "open")
    /\ UNCHANGED <<bufferRoot, accounted, used, left, home, doomed, size>>

\* Session s no longer has files.  What it leaves in a directory nobody knows
\* stays there.
LeaveHome(s) ==
    /\ home' = [home EXCEPT ![s] = None]
    /\ left' = (left \/ DOMAIN bytes \ InUse' # {})
    /\ bytes' = [d \in DOMAIN bytes \cap InUse' |-> bytes[d]]

\* OpenWriteWithManifest when the connection cannot be opened.
OpenFails(s) ==
    /\ at[s] = "rooted"
    /\ UNCHANGED <<bufferRoot, activeFiles, accounted, used, doomed, size>>
    /\ LeaveHome(s)
    /\ Move(s, "closing")

\* openTempFile: the first temporary file of a read session.
OpenTemp(s) ==
    /\ s \in Readers
    /\ at[s] = "open"
    /\ home[s] = None
    /\ EnsureRoot(s)
    /\ UNCHANGED <<activeFiles, accounted, used, left, at, doomed, size>>

\* bufferSize of wrapper w.
BufferSize(w) ==
    IF bufferRoot[w] \in DOMAIN bytes THEN bytes[bufferRoot[w]] ELSE 0

\* The walk over the directory, from one place to the next.  Without a budget
\* nothing is measured, and nothing is counted.
Measure(s, from, to) ==
    /\ limit > 0
    /\ at[s] = from
    /\ size' = [size EXCEPT ![s] = BufferSize(Wrapper(s))]
    /\ Move(s, to)
    /\ UNCHANGED <<bufferRoot, activeFiles, accounted, used, bytes, left, home,
                   doomed>>

NotNegative(n) == IF n < 0 THEN 0 ELSE n

\* The measured size of s replaces what its wrapper is charged.
Apply(s) ==
    /\ used' = NotNegative(used + size[s] - accounted[Wrapper(s)])
    /\ accounted' = [accounted EXCEPT ![Wrapper(s)] = size[s]]
    /\ size' = [size EXCEPT ![s] = 0]

\* tempBudget.release
Refund(w) ==
    /\ used' = NotNegative(used - accounted[w])
    /\ accounted' = [accounted EXCEPT ![w] = 0]

\* Mutant: what is in use already is let through, the write not counted.
CheckUnder(s) ==
    /\ at[s] = "check"
    /\ Apply(s)
    /\ Move(s, IF used' > limit THEN "open" ELSE "write")
    /\ UNCHANGED <<bufferRoot, activeFiles, bytes, left, home, doomed>>

\* tempBudget.check: refuse the write that would pass the limit.
Check(s) ==
    /\ at[s] = "check"
    /\ Apply(s)
    /\ Move(s, IF used' + 1 > limit THEN "open" ELSE "write")
    /\ UNCHANGED <<bufferRoot, activeFiles, bytes, left, home, doomed>>

\* The write itself.  In a directory its wrapper has lost nobody counts it.
Write(s) ==
    /\ at[s] = "write"
    /\ bytes' = IF home[s] = bufferRoot[Wrapper(s)]
                THEN [bytes EXCEPT ![home[s]] = @ + 1]
                ELSE bytes
    /\ Move(s, "wrote")
    /\ UNCHANGED <<bufferRoot, activeFiles, accounted, used, left, home, doomed,
                   size>>

\* Truncate, or the close or deletion of a temporary file.
Shrink(s) ==
    /\ at[s] = "open"
    /\ home[s] \in DOMAIN bytes /\ bytes[home[s]] > 0
    /\ bytes' = [bytes EXCEPT ![home[s]] = @ - 1]
    /\ Move(s, "wrote")
    /\ UNCHANGED <<bufferRoot, activeFiles, accounted, used, left, home, doomed,
                   size>>

\* tempBudget.reconcile, after a write or a shrink.
Reconcile(s) ==
    /\ at[s] = "reconcile"
    /\ Apply(s)
    /\ Move(s, "open")
    /\ UNCHANGED <<bufferRoot, activeFiles, bytes, left, home, doomed>>

\* Take the wrapper's directory away from it, to remove it.
Detach(s) ==
    /\ doomed' = [doomed EXCEPT ![s] = bufferRoot[Wrapper(s)]]
    /\ bufferRoot' = [bufferRoot EXCEPT ![Wrapper(s)] = None]

\* trackedFile.Close and fileClosed up to the unlock: the last open file
\* takes the directory with it.
FileClosed(s) ==
    /\ at[s] = "open"
    /\ activeFiles' = [activeFiles EXCEPT ![Wrapper(s)] = @ - 1]
    /\ IF activeFiles[Wrapper(s)] = 1
       THEN Detach(s)
       ELSE UNCHANGED <<doomed, bufferRoot>>
    /\ LeaveHome(s)
    /\ Move(s, IF doomed'[s] # None THEN "remove" ELSE "closing")
    /\ UNCHANGED <<accounted, used, size>>

\* RemoveAll, on the directory s took from its wrapper.
RemoveAll(s) ==
    /\ bytes' = [d \in DOMAIN bytes \ {doomed[s]} |-> bytes[d]]
    /\ doomed' = [doomed EXCEPT ![s] = None]
    /\ UNCHANGED <<bufferRoot, activeFiles, left, home, size>>

\* The rest of fileClosed.
Remove(s) ==
    /\ at[s] = "remove"
    /\ Refund(Wrapper(s))
    /\ RemoveAll(s)
    /\ Move(s, "closing")

\* SQLite closes the temporary databases of a connection after its main one;
\* tempFileClosed of such a file applies what it measured.
CloseTemp(s) ==
    /\ at[s] = "settle"
    /\ Apply(s)
    /\ Move(s, "closed")
    /\ UNCHANGED <<bufferRoot, activeFiles, bytes, left, home, doomed>>

\* discardBuffers up to the unlock; nothing to do while files are open.
Discard(s) ==
    /\ at[s] \in {"closing", "closed"}
    /\ IF activeFiles[Wrapper(s)] > 0
       THEN Move(s, "none") /\ UNCHANGED <<doomed, bufferRoot>>
       ELSE Move(s, "discard") /\ Detach(s)
    /\ UNCHANGED <<activeFiles, accounted, used, bytes, left, home, size>>

\* Mutant: without a directory there is nothing to give back.
DiscardedIfAny(s) ==
    /\ at[s] = "discard"
    /\ IF doomed[s] = None THEN UNCHANGED <<used, accounted>>
       ELSE Refund(Wrapper(s))
    /\ RemoveAll(s)
    /\ Move(s, "none")

\* The rest of discardBuffers, which ends Session.Close.
Discarded(s) ==
    /\ at[s] = "discard"
    /\ Refund(Wrapper(s))
    /\ RemoveAll(s)
    /\ Move(s, "none")

\* The session at work on its open database.
Work(s) ==
    \/ OpenTemp(s)
    \/ Measure(s, "open", "check") /\ home[s] # None
    \/ Check(s)
    \/ Write(s)
    \/ Shrink(s)
    \/ Measure(s, "wrote", "reconcile")
    \/ Reconcile(s)

\* Session.Close
Close(s) ==
    \/ FileClosed(s)
    \/ Remove(s)
    \/ Measure(s, "closing", "settle")
    \/ CloseTemp(s)
    \/ Discard(s)
    \/ Discarded(s)
=============================================================================
