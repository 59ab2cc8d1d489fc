---------------------------- MODULE EngineLifecycle ----------------------------
(***************************************************************************)
(* ChatEngine.connect(), disconnect() and use() over an ITransport, and    *)
(* the plugins they install and destroy.  Every await of the two calls is  *)
(* a boundary between two steps, so calls may interleave there; what runs  *)
(* between two awaits is one step.  A transport tells its subscribers of a *)
(* change of state synchronously, so the engine follows in the same step.  *)
(***************************************************************************)
EXTENDS Integers, Sequences, FiniteSets

CONSTANTS
    Configured,   \* plugins given to the constructor, a sequence
    Late,         \* plugins registered later with use(), each once
    MaxCalls,     \* bound on the connect() and disconnect() calls
    MaxDrops,     \* bound on the losses of an established connection
    Overlap       \* may a call be made before the earlier ones have settled?

Registered == {Configured[i] : i \in DOMAIN Configured}
Plugins == Registered \cup Late
Calls   == 1 .. MaxCalls

ASSUME LifecycleAssumption ==
    /\ Configured \in Seq(Registered)
    /\ \A i, j \in DOMAIN Configured : Configured[i] = Configured[j] => i = j
    /\ IsFiniteSet(Late) /\ Registered \cap Late = {}
    /\ MaxCalls \in Nat \ {0} /\ MaxDrops \in Nat
    /\ Overlap \in BOOLEAN

VARIABLES
    engine,      \* connectionState.state
    transport,   \* transport.getState()
    opening,     \* the call whose transport.connect() is under way, or 0
    wired,       \* calls whose listeners are on the transport: transportUnsubs
    plugins,     \* plugins, in order of registration
    installed,   \* installedPlugins
    loose,       \* installs started by use() that have not settled
    instances,   \* install() minus destroy(), per plugin: used by properties only
    call,        \* every call made so far, and where it stands
    calls,       \* how many calls were made
    wanted,      \* was the last of them a connect()?
    drops        \* how often an established connection was lost

vars == <<engine, transport, opening, wired, plugins, installed, loose,
          instances, call, calls, wanted, drops>>

States == {"disconnected", "connecting", "connected", "reconnecting", "disconnecting"}

-------------------------------------------------------------------------------
(* The engine's own state machine. *)

\* VALID_TRANSITIONS: what an action makes of a state it is valid in.
Transitions == [
    disconnected  |-> [connect |-> "connecting"],
    connecting    |-> [onOpen |-> "connected", onError |-> "disconnected"],
    connected     |-> [onClose |-> "reconnecting", disconnect |-> "disconnecting"],
    reconnecting  |-> [retry |-> "connecting", maxRetries |-> "disconnected",
                       disconnect |-> "disconnecting"],
    disconnecting |-> [onClose |-> "disconnected"]]

\* getConnectionTransitionActions(): the actions that lead from a state to each
\* state the engine can follow its transport to.
Paths == [
    disconnected  |-> [connecting |-> <<"connect">>, connected |-> <<"connect", "onOpen">>],
    connecting    |-> [connected |-> <<"onOpen">>, disconnected |-> <<"onError">>],
    connected     |-> [reconnecting |-> <<"onClose">>, disconnecting |-> <<"disconnect">>,
                       disconnected |-> <<"onClose", "maxRetries">>],
    reconnecting  |-> [connecting |-> <<"retry">>, connected |-> <<"retry", "onOpen">>,
                       disconnecting |-> <<"disconnect">>, disconnected |-> <<"maxRetries">>],
    disconnecting |-> [disconnected |-> <<"onClose">>]]

\* The transitions of a path of one or two actions, one after the other.
Follow(s, path) ==
    IF Len(path) = 1 THEN Transitions[s][path[1]] ELSE Transitions[Transitions[s][path[1]]][path[2]]

\* Mutant: only the first action of the path.
Sync_OneStep(s, t) ==
    IF t \in DOMAIN Paths[s] THEN Transitions[s][Paths[s][t][1]] ELSE s

\* syncConnectionState(t): the engine follows where it can, and stays otherwise.
Sync(s, t) == IF t \in DOMAIN Paths[s] THEN Follow(s, Paths[s][t]) ELSE s

-------------------------------------------------------------------------------
(* Calls. *)

Running(c) == call[c].pc \notin {"none", "done"}
Quiet == \A c \in Calls : ~Running(c)
\* May the application make another call now?
MayCall == Overlap \/ (Quiet /\ loose = {})

Init ==
    /\ engine = "disconnected" /\ transport = "disconnected"
    /\ opening = 0 /\ wired = {}
    /\ plugins = Configured /\ installed = {} /\ loose = {}
    /\ instances = [p \in Plugins |-> 0]
    /\ call = [c \in Calls |-> [pc |-> "none", at |-> 0]]
    /\ calls = 0 /\ wanted = FALSE
    /\ drops = 0

Goto(c, pc, at) == [call EXCEPT ![c] = [pc |-> pc, at |-> at]]

\* The positions from i on whose plugin is one of `those`.
Ahead(i, those) == {j \in i .. Len(plugins) : plugins[j] \in those}
IsFirst(j, positions) == j \in positions /\ \A k \in positions : j <= k

InstallFrom(c, i, now) ==
    LET todo == Ahead(i, Plugins \ now)
    IN \/ todo = {} /\ call' = Goto(c, "done", 0)
       \/ \E j \in todo : IsFirst(j, todo) /\ call' = Goto(c, "installing", j)

\* The transport changes state and tells the engine's listeners, if any.
Notify(t) ==
    /\ transport' = t
    /\ engine' = IF wired = {} THEN engine ELSE Sync(engine, t)

-------------------------------------------------------------------------------
(* connect(). *)

\* connect() up to the await of transport.connect().  The call returns at once
\* when the engine is not disconnected (no step).  A transport that is not
\* disconnected returns at once as well, without a new attempt.
Connect(c) ==
    /\ c = calls + 1 /\ c <= MaxCalls
    /\ engine = "disconnected"
    /\ engine' = Sync(engine, "connecting")
    /\ wired' = {c}                       \* unwireTransport(); wireTransport()
    /\ calls' = c /\ wanted' = TRUE
    /\ \/ /\ transport = "disconnected"
          /\ transport' = "connecting" /\ opening' = c
          /\ call' = Goto(c, "opening", 0)
       \/ /\ transport # "disconnected"
          /\ call' = Goto(c, "opened", 0)
          /\ UNCHANGED <<transport, opening>>
    /\ UNCHANGED <<plugins, installed, loose, instances, drops>>

\* Mutant: believes the promise, not the state.
ConnectOpened_Always(c) ==
    /\ call[c].pc = "opened"
    /\ engine' = "connected"
    /\ InstallFrom(c, 1, installed)
    /\ UNCHANGED <<transport, opening, wired, plugins, installed, loose, instances, calls, wanted, drops>>

\* transport.connect() resolved: connect() goes on to the plugins.
ConnectOpened(c) ==
    /\ call[c].pc = "opened"
    /\ engine' = IF engine = "connecting" THEN Sync(engine, "connected") ELSE engine
    /\ InstallFrom(c, 1, installed)
    /\ UNCHANGED <<transport, opening, wired, plugins, installed, loose, instances, calls, wanted, drops>>

\* transport.connect() rejected: take the listeners off again and throw.
ConnectRefused(c) ==
    /\ call[c].pc = "refused"
    /\ wired' = wired \ {c}               \* detachTransport()
    /\ engine' = IF engine = "connecting" THEN Sync(engine, "disconnected") ELSE engine
    /\ call' = Goto(c, "done", 0)
    /\ UNCHANGED <<transport, opening, plugins, installed, loose, instances, calls, wanted, drops>>

\* The awaited plugin.install() resolved, and the loop goes on.
PluginInstalled(c) ==
    LET p == plugins[call[c].at]
    IN /\ call[c].pc = "installing"
       /\ installed' = installed \cup {p}
       /\ instances' = [instances EXCEPT ![p] = @ + 1]
       /\ InstallFrom(c, call[c].at + 1, installed')
       /\ UNCHANGED <<engine, transport, opening, wired, plugins, loose, calls, wanted, drops>>

\* It rejected: an error event, and the loop goes on.
PluginInstallFails(c) ==
    /\ call[c].pc = "installing"
    /\ InstallFrom(c, call[c].at + 1, installed)
    /\ UNCHANGED <<engine, transport, opening, wired, plugins, installed, loose, instances, calls, wanted, drops>>

-------------------------------------------------------------------------------
(* disconnect(). *)

\* Mutant: a connection already lost is not unwired.
CloseTransport_NotIfDown(c) ==
    \/ engine = "disconnected" /\ call' = Goto(c, "done", 0)
       /\ UNCHANGED <<engine, wired, transport, opening>>
    \/ /\ engine # "disconnected"
       /\ engine' = Sync(engine, "disconnecting") /\ UNCHANGED wired
       /\ transport' = "disconnecting" /\ opening' = 0 /\ call' = Goto(c, "closing", 0)
\* After the plugins: what disconnect() does depends on the engine's state now.
CloseTransport(c) ==
    IF engine \in {"disconnected", "connecting"}
    THEN /\ engine' = Sync(engine, "disconnected")
         /\ wired' = {}
         /\ call' = Goto(c, "done", 0)
         /\ UNCHANGED <<transport, opening>>
    ELSE /\ engine' = Sync(engine, "disconnecting")
         /\ UNCHANGED wired
         /\ \/ /\ transport \in {"disconnected", "disconnecting"}    \* returns at once
               /\ call' = Goto(c, "closed", 0)
               /\ UNCHANGED <<transport, opening>>
            \/ /\ transport \notin {"disconnected", "disconnecting"}
               /\ transport' = "disconnecting"
               /\ opening' = 0
               /\ \/ opening = 0 /\ call' = Goto(c, "closing", 0)
                  \* An attempt under way is cut short: the promise its caller
                  \* awaits resolves, rejects or never settles.
                  \/ /\ opening # 0
                     /\ \E pc \in {"opening", "opened", "refused"} :
                          call' = [Goto(c, "closing", 0) EXCEPT ![opening].pc = pc]

\* The loop over the plugins goes on at position i, with `now` installed:
\* destroy() the next one that is, or go on to the transport.
DestroyFrom(c, i, now) ==
    LET todo == Ahead(i, now)
    IN \/ todo = {} /\ CloseTransport(c) /\ UNCHANGED instances
       \/ \E j \in todo :
             /\ IsFirst(j, todo)
             /\ call' = Goto(c, "destroying", j)
             /\ instances' = [instances EXCEPT ![plugins[j]] = @ - 1]
             /\ UNCHANGED <<engine, transport, opening, wired>>

Disconnect(c) ==
    /\ c = calls + 1 /\ c <= MaxCalls
    /\ calls' = c /\ wanted' = FALSE
    /\ DestroyFrom(c, 1, installed)
    /\ UNCHANGED <<plugins, installed, loose, drops>>

\* Mutant: stays in installedPlugins.
PluginDestroyed_KeepsMark(c) ==
    /\ call[c].pc = "destroying"
    /\ installed' = installed
    /\ DestroyFrom(c, call[c].at + 1, installed')
    /\ UNCHANGED <<plugins, loose, calls, wanted, drops>>

\* The awaited plugin.destroy() settled, either way, and the loop goes on.
PluginDestroyed(c) ==
    /\ call[c].pc = "destroying"
    /\ installed' = installed \ {plugins[call[c].at]}
    /\ DestroyFrom(c, call[c].at + 1, installed')
    /\ UNCHANGED <<plugins, loose, calls, wanted, drops>>

\* Mutant: goes on only if it brings the news itself.
Disconnected_MissesEvent(c) ==
    /\ call[c].pc = "closed" /\ engine = "disconnecting"
    /\ engine' = Sync(engine, "disconnected")
    /\ wired' = {}
    /\ call' = Goto(c, "done", 0)
    /\ UNCHANGED <<transport, opening, plugins, installed, loose, instances, calls, wanted, drops>>

\* transport.disconnect() resolved: the finally block.
Disconnected(c) ==
    /\ call[c].pc = "closed"
    /\ engine' = Sync(engine, "disconnected")
    /\ wired' = {}
    /\ call' = Goto(c, "done", 0)
    /\ UNCHANGED <<transport, opening, plugins, installed, loose, instances, calls, wanted, drops>>
-------------------------------------------------------------------------------
(* use(). *)

\* Register p, and when the engine is connected start its install as well.
Use(p) ==
    /\ p \in Late /\ \A i \in DOMAIN plugins : plugins[i] # p
    /\ plugins' = Append(plugins, p)
    /\ loose' = IF engine = "connected" THEN loose \cup {p} ELSE loose
    /\ UNCHANGED <<engine, transport, opening, wired, installed, instances, call, calls, wanted, drops>>

LooseInstalled(p) ==
    /\ p \in loose
    /\ loose' = loose \ {p}
    /\ installed' = installed \cup {p}
    /\ instances' = [instances EXCEPT ![p] = @ + 1]
    /\ UNCHANGED <<engine, transport, opening, wired, plugins, call, calls, wanted, drops>>

LooseInstallFails(p) ==
    /\ p \in loose
    /\ loose' = loose \ {p}
    /\ UNCHANGED <<engine, transport, opening, wired, plugins, installed, instances, call, calls, wanted, drops>>

-------------------------------------------------------------------------------
(* The transport: what every ITransport may do, also one that gives up. *)

TransportOpens ==
    /\ transport \in {"connecting", "reconnecting"}
    /\ Notify("connected")
    /\ call' = IF opening = 0 THEN call ELSE Goto(opening, "opened", 0)
    /\ opening' = 0
    /\ UNCHANGED <<wired, plugins, installed, loose, instances, calls, wanted, drops>>

TransportRefuses ==
    /\ transport = "connecting"
    /\ Notify("disconnected")
    /\ call' = IF opening = 0 THEN call ELSE Goto(opening, "refused", 0)
    /\ opening' = 0
    /\ UNCHANGED <<wired, plugins, installed, loose, instances, calls, wanted, drops>>

\* The connection is lost, or a recovery is given up.
TransportDrops ==
    /\ drops < MaxDrops /\ drops' = drops + 1
    /\ \/ transport = "connected" /\ \E t \in {"reconnecting", "disconnected"} : Notify(t)
       \/ transport = "reconnecting" /\ Notify("disconnected")
    /\ UNCHANGED <<opening, wired, plugins, installed, loose, instances, call, calls, wanted>>

\* The transport has closed, and the disconnect() that asked for it goes on.
TransportCloses ==
    /\ transport = "disconnecting"
    /\ Notify("disconnected")
    /\ call' = [c \in Calls |-> IF call[c].pc = "closing" THEN [pc |-> "closed", at |-> 0]
                                ELSE call[c]]
    /\ UNCHANGED <<opening, wired, plugins, installed, loose, instances, calls, wanted, drops>>

-------------------------------------------------------------------------------
(* Specification. *)

\* What the application does, and what then goes on by itself.
Application == MayCall /\ (\/ \E c \in Calls : Connect(c) \/ Disconnect(c)
                          \/ \E p \in Late : Use(p))
Continue(c) == \/ ConnectOpened(c) \/ ConnectRefused(c)
               \/ PluginInstalled(c) \/ PluginInstallFails(c)
               \/ PluginDestroyed(c) \/ Disconnected(c)
Transport == TransportOpens \/ TransportRefuses \/ TransportCloses
Runtime == \/ \E c \in Calls : Continue(c)
           \/ \E p \in Late : LooseInstalled(p) \/ LooseInstallFails(p)
           \/ Transport \/ TransportDrops

Next == Application \/ Runtime

Spec == Init /\ [][Next]_vars

\* Promises of plugins and of transport.connect() and disconnect() settle, and
\* what awaits them runs.
TransportSettles == transport \in {"connecting", "disconnecting"} /\ Transport
Fairness == /\ \A c \in Calls : WF_vars(Continue(c))
            /\ WF_vars(TransportSettles)
FairSpec == Spec /\ Fairness

-------------------------------------------------------------------------------
(* Properties. *)

\* The types of the variables.
TypeOK ==
    /\ engine \in States /\ transport \in States
    /\ opening \in {0} \cup Calls /\ wired \subseteq Calls
    /\ plugins \in Seq(Plugins) /\ installed \subseteq Plugins /\ loose \subseteq Late
    /\ instances \in [Plugins -> Int]
    /\ call \in [Calls -> [pc : {"none", "opening", "opened", "refused", "installing",
                                 "destroying", "closing", "closed", "done"},
                           at : Nat]]
    /\ \A c \in Calls : call[c].pc \in {"installing", "destroying"} => call[c].at \in DOMAIN plugins
    /\ calls \in 0 .. MaxCalls /\ wanted \in BOOLEAN
    /\ drops \in 0 .. MaxDrops

\* The engine reports what its transport reports: connect() and disconnect()
\* announce a state the transport takes in the same step, and every later
\* change is followed (syncConnectionState), whichever way it comes.
EngineMirrorsTransport == engine = transport

\* An application that waits for its calls: after disconnect() nothing is left
\* of the connection, and the engine does not listen any more.
StoppedIsClosed ==
    Quiet /\ ~wanted => transport = "disconnected" /\ engine = "disconnected" /\ wired = {}

\* After disconnect() no plugin is left installed; and a plugin is never installed a second
\* time, nor destroyed a second time, without the other in between (installedPlugins).
StoppedIsUninstalled ==
    /\ Quiet /\ ~wanted /\ loose = {} => installed = {} /\ \A p \in Plugins : instances[p] = 0
    /\ \A p \in Plugins : instances[p] \in {0, 1}

\* The engine listens to the transport once, however often connect() ran, so
\* no inbound event is handled twice.
WiredOnce == Cardinality(wired) <= 1

\* An engine that reports a connection hears of its loss.
HearsWhatItReports == engine \in {"connecting", "connected", "reconnecting"} => wired # {}

\* Every call settles.
CallsSettle == \A c \in Calls : Running(c) ~> ~Running(c)
===============================================================================
