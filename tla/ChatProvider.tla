----------------------------- MODULE ChatProvider -----------------------------
(***************************************************************************)
(* ChatProvider with autoConnect: its effect connects the engine on mount, *)
(* after the disconnect() of an earlier unmount, and disconnects it on     *)
(* unmount.  The engine is EngineLifecycle; no one else calls it.          *)
(***************************************************************************)
EXTENDS EngineLifecycle

CONSTANTS
    MaxMounts    \* bound on the mounts

ASSUME ProviderAssumption == MaxMounts \in Nat /\ MaxCalls >= 2 * MaxMounts

VARIABLES
    mounted,        \* isActive of the last effect
    mounts,         \* connectAttemptRef: how often the effect ran
    awaited,        \* the disconnect() the effect waits for, or 0
    disconnectRef,  \* disconnectPromiseRef.current: a disconnect(), or 0
    connecting,     \* the effect's engine.connect(), or 0
    reported,       \* did the effect call onConnectError?
    hasty           \* history: was there an unmount before engine and effect had settled?

providerVars == <<mounted, mounts, awaited, disconnectRef, connecting, reported, hasty>>
allVars == <<vars, providerVars>>

\* No call is under way and no effect waits.
Settled == Quiet /\ awaited = 0

ProviderInit ==
    /\ Init
    /\ mounted = FALSE /\ mounts = 0 /\ awaited = 0
    /\ disconnectRef = 0 /\ connecting = 0 /\ reported = FALSE /\ hasty = FALSE

\* engine.connect(), which returns at once unless the engine is disconnected.
ConnectEngine ==
    \/ engine = "disconnected" /\ Connect(calls + 1) /\ connecting' = calls + 1
    \/ engine # "disconnected" /\ connecting' = 0 /\ UNCHANGED vars

\* Mutant: ignores disconnectPromiseRef.
Mount_DoesNotWait ==
    /\ ~mounted /\ mounts < MaxMounts
    /\ mounted' = TRUE /\ mounts' = mounts + 1 /\ reported' = FALSE
    /\ awaited' = 0
    /\ ConnectEngine
    /\ UNCHANGED <<disconnectRef, hasty>>

\* The effect runs.  With no disconnect() pending it connects in the same step.
Mount ==
    /\ ~mounted /\ mounts < MaxMounts
    /\ mounted' = TRUE /\ mounts' = mounts + 1 /\ reported' = FALSE
    /\ awaited' = disconnectRef
    /\ \/ disconnectRef = 0 /\ ConnectEngine
       \/ disconnectRef # 0 /\ connecting' = 0 /\ UNCHANGED vars
    /\ UNCHANGED <<disconnectRef, hasty>>

\* The disconnect() it waited for has settled, and the effect is still active.
Resume ==
    /\ awaited # 0 /\ call[awaited].pc = "done" /\ disconnectRef # awaited
    /\ awaited' = 0
    /\ ConnectEngine
    /\ UNCHANGED <<mounted, mounts, disconnectRef, reported, hasty>>

\* The cleanup: the effect and its attempt are stale from now on.
Unmount ==
    /\ mounted
    /\ hasty' = (hasty \/ ~Settled)
    /\ mounted' = FALSE /\ awaited' = 0 /\ connecting' = 0
    /\ Disconnect(calls + 1)
    /\ disconnectRef' = calls + 1
    /\ UNCHANGED <<mounts, reported>>

\* The finally() of the disconnect() that is still the current one.
DisconnectSettled ==
    /\ disconnectRef # 0 /\ call[disconnectRef].pc = "done"
    /\ disconnectRef' = 0
    /\ UNCHANGED <<vars, mounted, mounts, awaited, connecting, reported, hasty>>

\* The engine and its transport go on; a rejection of the effect's own
\* engine.connect() reaches onConnectError while the effect is active.
EngineRuns ==
    /\ Runtime
    /\ reported' = (reported \/ (connecting # 0 /\ ConnectRefused(connecting)))
    /\ UNCHANGED <<mounted, mounts, awaited, disconnectRef, connecting, hasty>>

ProviderNext == Mount \/ Resume \/ Unmount \/ DisconnectSettled \/ EngineRuns

ProviderSpec == ProviderInit /\ [][ProviderNext]_allVars

-------------------------------------------------------------------------------
(* Properties. *)

(* Remounts may come at any moment; unmounts before the engine has settled are beyond *)
(* what the engine can take: ConnectedIsOpen and its like hold until the first one.   *)

\* When all has settled, a mounted provider that has not lost its connection is connected
\* or has called onConnectError: its connect() was not swallowed by the disconnect() of an
\* earlier mount.  One that is unmounted has left no connection.
SettledAsMounted ==
    Settled /\ ~hasty =>
        /\ mounted /\ drops = 0 => engine = "connected" \/ reported
        /\ ~mounted => transport = "disconnected"

\* An engine that reports 'connected' is connected.
ConnectedIsOpen == engine = "connected" /\ ~hasty => transport = "connected"

\* The engine settles as the provider is mounted, and 'connected' means a transport that is.
ConnectedAsMounted == SettledAsMounted /\ ConnectedIsOpen

===============================================================================
