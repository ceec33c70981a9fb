-------------------------------- MODULE Host -------------------------------
(***************************************************************************)
(* A Node process that reads through its own SQLite: the addon, the C ABI  *)
(* and the VFS extension, composed as README.md of the binding describes   *)
(* (readDsn, attach, open).  The threads of the extension's host are the   *)
(* environments; while one is inside a native call it does nothing else.   *)
(***************************************************************************)
EXTENDS Addon

VARIABLES scratch, permanent, attached, vfsMap, sqlite, attaching

Extension == INSTANCE Attach WITH Threads <- Envs, Replicas <- DBs

attachVars == <<scratch, permanent, attached, vfsMap, sqlite, attaching>>
vars == <<handleVars, addonVars, attachVars>>

HostTypeOK == AddonTypeOK /\ Extension!AttachTypeOK

Init == AddonInit /\ Extension!AttachInit

\* The environment is not in WalrusdVFSAttach.
Outside(e) == \A a \in attaching : a[1] # e

HostExtension(e) ==
    /\ js[e] = "idle" /\ dsns # {}
    /\ \/ Extension!ExtensionInit(e)
       \/ Extension!ScratchClose(e)
       \/ \E v \in dsns : Extension!AttachBegins(e, v.name, v.db)
       \/ Extension!AttachEnds(e)
       \/ Extension!AttachFails(e)
    /\ UNCHANGED <<handleVars, addonVars>>

\* The connections of an environment go with it.
HostAddon(e) ==
    /\ Outside(e)
    /\ EnvStep(e)
    /\ scratch' = {f \in scratch : js'[f] # "gone"}
    /\ UNCHANGED <<permanent, attached, vfsMap, sqlite, attaching>>

HostCall(k) ==
    /\ \/ ThreadStep(k)
       \/ Outside(call[k].env) /\ LoopStep(k)
    /\ UNCHANGED attachVars

Next ==
    \/ \E e \in Envs : HostAddon(e) \/ HostExtension(e)
    \/ \E k \in DOMAIN call : HostCall(k)

Spec == Init /\ [][Next]_vars

-----------------------------------------------------------------------------
\* No native function is called through a symbol that is not there: walrusd_load
\* throws, and loadNative returns no addon to call.
SymbolsThere ==
    (\E e \in Envs : js[e] \in {"idle", "init", "init failed", "closing"}) \/ call # <<>>
        => symbols = "complete"

\* A call is served by the runtime of its own client, and by none when close was
\* called before: a handle is never given out again (nextHandle in api.go).
ServedByOwn ==
    \A k \in DOMAIN call :
        call[k].pc = "entered" => call[k].served = call[k].runtime /\ ~call[k].late

\* What a failed init reports is not left over from an init that had ended before
\* it began, though walrusd_runtime_init_error is asked in a second call.
InitErrorRecent ==
    \A e \in Envs :
        js[e] = "init failed" /\ initErr \in Inits
            => initErr >= client[e].runtime \/ initErr \in client[e].during

\* A CallWork is there until it is delivered, and then it is freed: call_thread
\* and call_deliver never use one that was freed, nor one of another call,
\* before the release, and none is left when its call was delivered or its
\* environment was torn down before or after the hand-over.
WorkOwned ==
    \A k \in DOMAIN call :
        call[k].pc \in {"begin", "entered", "push"} \/ call[k].queued
            <=> heap[call[k].cell] = [call |-> k, live |-> TRUE]

\* A promise that is pending keeps the event loop alive, and is going to be
\* settled: its call runs or is queued, and its threadsafe function is there.
\* This is what call_thread and walrusd_call_async are written for; it is lost
\* once a thread released something else than its own threadsafe function.
PendingHoldsLoop ==
    \A k \in DOMAIN call :
        call[k].promise = "pending" /\ js[call[k].env] # "gone" /\ ~misread
            => /\ call[k].fn = "open"
               /\ call[k].pc \in {"begin", "entered", "push"} \/ call[k].queued

\* A name in a DSN leads to the replica of the database it was made for: the
\* names are unique in the process, and a name that is attached stays.
AttachedAsIssued ==
    \A v \in issued : v.name \in sqlite => v.name \in DOMAIN vfsMap /\ vfsMap[v.name] = v.db

\* The code that a registered VFS points to stays in memory after the scratch
\* connections are closed (SQLITE_OK_LOAD_PERMANENTLY).
MappedWhileRegistered == sqlite # {} => permanent \/ scratch # {}

=============================================================================
