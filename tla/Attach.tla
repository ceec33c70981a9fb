------------------------------- MODULE Attach ------------------------------
(***************************************************************************)
(* The loadable VFS extension (src/bindings/vfs): a host loads it through  *)
(* a scratch connection, registers a VFS for the replica of a DSN with     *)
(* SELECT walrusd_vfs_attach(name, url, ...), closes the scratch           *)
(* connection and opens the DSN with its own SQLite.                       *)
(*                                                                         *)
(* WalrusdVFSAttach holds attachMu from its check to its end.  SQLite      *)
(* takes no part in that lock: it can open a database through a name as    *)
(* soon as the name is registered, and calls into vfsMap then.             *)
(***************************************************************************)
EXTENDS Naturals, FiniteSets, Functions

CONSTANTS
    Threads,        \* threads of the host
    Replicas        \* replica URLs

VARIABLES
    scratch,        \* threads with the extension loaded in an open connection
    permanent,      \* the extension was loaded permanently
    attached,       \* the map of the same name
    vfsMap,         \* vfsMap[n]: the replica that the Go VFS of name n reads
    sqlite,         \* names that SQLite has registered
    attaching       \* the holder of attachMu, if any, with the name it is registering

attachVars == <<scratch, permanent, attached, vfsMap, sqlite, attaching>>

-----------------------------------------------------------------------------
AttachTypeOK ==
    /\ scratch \subseteq Threads /\ permanent \in BOOLEAN
    /\ attached \subseteq Nat /\ sqlite \subseteq Nat
    /\ DOMAIN vfsMap \subseteq Nat /\ Range(vfsMap) \subseteq Replicas
    /\ attaching \subseteq Threads \X Nat /\ Cardinality(attaching) <= 1

AttachInit ==
    /\ scratch = {} /\ permanent = FALSE
    /\ attached = {} /\ sqlite = {} /\ vfsMap = <<>>
    /\ attaching = {}

\* sqlite3_walrusdvfs_init: SQLITE_OK_LOAD_PERMANENTLY.
ExtensionInit(t) ==
    /\ t \notin scratch
    /\ scratch' = scratch \cup {t}
    /\ permanent' = TRUE
    /\ UNCHANGED <<attached, vfsMap, sqlite, attaching>>

\* scratch.close()
ScratchClose(t) ==
    /\ t \in scratch
    /\ \A a \in attaching : a[1] # t
    /\ scratch' = scratch \ {t}
    /\ UNCHANGED <<permanent, attached, vfsMap, sqlite, attaching>>

\* Mutant: attachMu is not taken.
AttachBeginsUnlocked(t, n, url) ==
    /\ t \in scratch /\ \A a \in attaching : a[1] # t
    /\ n \notin attached
    /\ vfsMap' = [x \in DOMAIN vfsMap \cup {n} |-> IF x = n THEN url ELSE vfsMap[x]]
    /\ attaching' = attaching \cup {<<t, n>>}
    /\ UNCHANGED <<scratch, permanent, attached, sqlite>>

\* walrusd_vfs_attach_impl and WalrusdVFSAttach, up to vfsMap.Store in newVFS.
\* An argument, a client or credentials refused, and a name that is attached
\* already, change nothing.
AttachBegins(t, n, url) ==
    /\ t \in scratch /\ attaching = {}
    /\ n \notin attached
    /\ vfsMap' = [x \in DOMAIN vfsMap \cup {n} |-> IF x = n THEN url ELSE vfsMap[x]]
    /\ attaching' = {<<t, n>>}
    /\ UNCHANGED <<scratch, permanent, attached, sqlite>>

\* s3vfsNew registers the name with SQLite.
AttachEnds(t) ==
    /\ \E n \in {a[2] : a \in {b \in attaching : b[1] = t}} :
        /\ sqlite' = sqlite \cup {n}
        /\ attached' = attached \cup {n}
    /\ attaching' = {}
    /\ UNCHANGED <<scratch, permanent, vfsMap>>

\* s3vfsNew fails: the Go VFS stays in vfsMap, and the name can be tried again.
AttachFails(t) ==
    /\ \E a \in attaching : a[1] = t
    /\ attaching' = {}
    /\ UNCHANGED <<scratch, permanent, attached, vfsMap, sqlite>>

=============================================================================
