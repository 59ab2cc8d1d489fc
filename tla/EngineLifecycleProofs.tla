------------------------- MODULE EngineLifecycleProofs -------------------------
(*****************************************************************************)
(* What holds of connect(), disconnect() and use() for any plugins, any      *)
(* number of calls and any overlap of them, and of the ChatProvider above    *)
(* them for any number of mounts.                                            *)
(*****************************************************************************)
EXTENDS ChatProvider, FiniteSetTheorems, TLAPS

-------------------------------------------------------------------------------
(* The state machine. *)

\* Following a path never takes an invalid transition, and leads to the target;
\* where there is no path the engine stays.
LEMMA SyncReaches ==
    ASSUME NEW s \in States, NEW t \in States
    PROVE  Sync(s, t) = IF t \in DOMAIN Paths[s] THEN t ELSE s
<1>1. CASE s = "disconnected"
  BY <1>1 DEF Sync, Follow, Paths, Transitions, States
<1>2. CASE s = "connecting"
  BY <1>2 DEF Sync, Follow, Paths, Transitions, States
<1>3. CASE s = "connected"
  BY <1>3 DEF Sync, Follow, Paths, Transitions, States
<1>4. CASE s = "reconnecting"
  BY <1>4 DEF Sync, Follow, Paths, Transitions, States
<1>5. CASE s = "disconnecting"
  BY <1>5 DEF Sync, Follow, Paths, Transitions, States
<1> QED BY <1>1, <1>2, <1>3, <1>4, <1>5 DEF States

\* The moves of the engine the invariants below rest on.
LEMMA SyncMoves ==
    /\ \A s, t \in States : Sync(s, t) \in States
    /\ \A s \in States : Sync(s, "disconnected") = "disconnected"
    /\ Sync("disconnected", "connecting") = "connecting"
    /\ Sync("connecting", "connected") = "connected"
    /\ \A s \in {"connected", "reconnecting", "disconnecting"} :
         Sync(s, "disconnecting") = "disconnecting"
BY SyncReaches DEF Paths, States

-------------------------------------------------------------------------------
(* Types. *)

PCs == {"none", "opening", "opened", "refused", "installing", "destroying", "closing", "closed", "done"}
CallRecords == [pc : PCs, at : Nat]

\* Every position a call stands at is one of the list, which only grows.
AtOK(cl, list) ==
    \A c \in Calls : cl[c].pc \in {"installing", "destroying"} => cl[c].at \in DOMAIN list

\* A jump of one call keeps the types of all.
LEMMA GotoType ==
    ASSUME TypeOK, NEW c \in Calls, NEW pc \in PCs, NEW at \in Nat,
           pc \in {"installing", "destroying"} => at \in DOMAIN plugins
    PROVE  Goto(c, pc, at) \in [Calls -> CallRecords] /\ AtOK(Goto(c, pc, at), plugins)
BY DEF TypeOK, Goto, AtOK, CallRecords, PCs

\* The types hold at the start.
LEMMA TypeInit == Init => TypeOK
<1> SUFFICES ASSUME Init PROVE TypeOK
  OBVIOUS
<1> USE LifecycleAssumption
<1>1. plugins \in Seq(Plugins)
  BY DEF Init, Plugins, Registered
<1>2. wanted \in BOOLEAN
  BY DEF Init
<1>3. call \in [Calls -> CallRecords] /\ AtOK(call, plugins)
  BY DEF Init, CallRecords, PCs, AtOK
<1>4. instances \in [Plugins -> Int]
  BY DEF Init
<1> QED BY <1>1, <1>2, <1>3, <1>4 DEF Init, TypeOK, States, CallRecords, PCs, AtOK

\* What a loop has ahead are plugins of the list.
LEMMA AheadInList ==
    ASSUME TypeOK, NEW i \in Nat \ {0}, NEW those, NEW j \in Ahead(i, those)
    PROVE  j \in DOMAIN plugins /\ j \in Nat /\ plugins[j] \in Plugins /\ plugins[j] \in those
BY DEF TypeOK, Ahead

\* connect()'s loop keeps the types.
LEMMA InstallFromType ==
    ASSUME TypeOK, NEW c \in Calls, NEW i \in Nat \ {0}, NEW now, InstallFrom(c, i, now)
    PROVE  call' \in [Calls -> CallRecords] /\ AtOK(call', plugins)
<1>1. CASE call' = Goto(c, "done", 0)
  BY <1>1, GotoType DEF PCs
<1>2. CASE \E j \in Ahead(i, Plugins \ now) : call' = Goto(c, "installing", j)
  BY <1>2, GotoType, AheadInList DEF PCs
<1> QED BY <1>1, <1>2 DEF InstallFrom

\* So does a notification of the transport.
LEMMA NotifyType ==
    ASSUME TypeOK, NEW t \in States, Notify(t)
    PROVE  engine' \in States /\ transport' \in States
BY SyncMoves DEF Notify, TypeOK

\* So does the close of the transport.
LEMMA CloseTransportType ==
    ASSUME TypeOK, NEW c \in Calls, CloseTransport(c)
    PROVE  /\ engine' \in States /\ transport' \in States
           /\ opening' \in {0} \cup Calls /\ wired' \subseteq Calls
           /\ call' \in [Calls -> CallRecords] /\ AtOK(call', plugins)
<1>1. Sync(engine, "disconnected") \in States /\ Sync(engine, "disconnecting") \in States
  BY SyncMoves DEF TypeOK, States
<1>2. /\ engine' \in States /\ transport' \in States
      /\ opening' \in {0} \cup Calls /\ wired' \subseteq Calls
  BY <1>1 DEF CloseTransport, TypeOK, States
<1>3. CASE call' = Goto(c, "done", 0) \/ call' = Goto(c, "closed", 0) \/ call' = Goto(c, "closing", 0)
  BY <1>2, <1>3, GotoType DEF PCs
<1>4. CASE /\ opening # 0
           /\ \E pc \in {"opening", "opened", "refused"} :
                call' = [Goto(c, "closing", 0) EXCEPT ![opening].pc = pc]
  <2>1. PICK pc \in {"opening", "opened", "refused"} :
          call' = [Goto(c, "closing", 0) EXCEPT ![opening].pc = pc]
    BY <1>4
  <2>2. Goto(c, "closing", 0) \in [Calls -> CallRecords] /\ AtOK(Goto(c, "closing", 0), plugins)
    BY GotoType DEF PCs
  <2>3. opening \in Calls
    BY <1>4 DEF TypeOK
  <2>4. call' \in [Calls -> CallRecords]
    BY <2>1, <2>2, <2>3 DEF CallRecords, PCs
  <2>5. AtOK(call', plugins)
    BY <2>1, <2>2, <2>3 DEF AtOK, CallRecords, PCs
  <2> QED BY <1>2, <2>4, <2>5
<1> QED BY <1>2, <1>3, <1>4 DEF CloseTransport

\* So does disconnect()'s loop.
LEMMA DestroyFromType ==
    ASSUME TypeOK, NEW c \in Calls, NEW i \in Nat \ {0}, NEW now, DestroyFrom(c, i, now)
    PROVE  /\ engine' \in States /\ transport' \in States
           /\ opening' \in {0} \cup Calls /\ wired' \subseteq Calls
           /\ call' \in [Calls -> CallRecords] /\ AtOK(call', plugins)
           /\ instances' \in [Plugins -> Int]
<1>1. CASE CloseTransport(c) /\ UNCHANGED instances
  BY <1>1, CloseTransportType DEF TypeOK
<1>2. CASE \E j \in Ahead(i, now) :
             /\ call' = Goto(c, "destroying", j)
             /\ instances' = [instances EXCEPT ![plugins[j]] = @ - 1]
             /\ UNCHANGED <<engine, transport, opening, wired>>
  BY <1>2, GotoType, AheadInList DEF PCs, TypeOK
<1> QED BY <1>1, <1>2 DEF DestroyFrom

\* A step of the engine, whoever makes its calls and whenever.
EngineStep == Runtime \/ (\E c \in Calls : Connect(c) \/ Disconnect(c)) \/ \E p \in Late : Use(p)

\* Every step keeps the types.
LEMMA TypeStep == TypeOK /\ [EngineStep]_vars => TypeOK'
<1> SUFFICES ASSUME TypeOK, [EngineStep]_vars PROVE TypeOK'
  OBVIOUS
<1> USE LifecycleAssumption
<1> DEFINE Rest == /\ engine' \in States /\ transport' \in States
                   /\ opening' \in {0} \cup Calls /\ wired' \subseteq Calls
                   /\ plugins' \in Seq(Plugins) /\ installed' \subseteq Plugins
                   /\ loose' \subseteq Late /\ instances' \in [Plugins -> Int]
                   /\ calls' \in 0 .. MaxCalls /\ drops' \in 0 .. MaxDrops
           Moved == call' \in [Calls -> CallRecords] /\ AtOK(call', plugins')
<1>0. ASSUME Rest, Moved, wanted' \in BOOLEAN
      PROVE  TypeOK'
  BY <1>0 DEF TypeOK, CallRecords, PCs, AtOK
<1>s. /\ Sync(engine, "disconnected") \in States /\ Sync(engine, "connecting") \in States
      /\ Sync(engine, "connected") \in States
  BY SyncMoves DEF TypeOK, States
<1>1. ASSUME NEW c \in Calls, Connect(c) PROVE TypeOK'
  <2>1. Rest
    BY <1>1, <1>s DEF Connect, TypeOK, States, Calls
  <2>2. Moved
    BY <1>1, GotoType DEF Connect, PCs
  <2>3. wanted' \in BOOLEAN
    BY <1>1 DEF Connect
  <2> QED BY <2>1, <2>2, <2>3, <1>0
<1>2. ASSUME NEW c \in Calls, Disconnect(c) PROVE TypeOK'
  <2>1. Rest
    BY SMTT(20), <1>2, DestroyFromType DEF Disconnect, TypeOK, Calls
  <2>2. Moved
    BY <1>2, DestroyFromType DEF Disconnect
  <2>3. wanted' \in BOOLEAN
    BY <1>2 DEF Disconnect
  <2> QED BY <2>1, <2>2, <2>3, <1>0
<1>3. ASSUME NEW p \in Late, Use(p) PROVE TypeOK'
  <2>1. Rest
    BY <1>3 DEF Use, TypeOK, Plugins
  <2>2. Moved
    BY <1>3 DEF Use, TypeOK, AtOK, CallRecords, PCs
  <2>3. wanted' \in BOOLEAN
    BY <1>3 DEF Use, TypeOK
  <2> QED BY <2>1, <2>2, <2>3, <1>0
<1>4. ASSUME NEW c \in Calls, ConnectOpened(c) PROVE TypeOK'
  <2>1. Rest
    BY <1>4, <1>s DEF ConnectOpened, TypeOK
  <2>2. Moved
    <3>1. InstallFrom(c, 1, installed) /\ plugins' = plugins
      BY <1>4 DEF ConnectOpened
    <3> QED BY <3>1, InstallFromType
  <2>3. wanted' \in BOOLEAN
    BY <1>4 DEF ConnectOpened, TypeOK
  <2> QED BY <2>1, <2>2, <2>3, <1>0
<1>5. ASSUME NEW c \in Calls, ConnectRefused(c) PROVE TypeOK'
  <2>1. Rest
    BY <1>5, <1>s DEF ConnectRefused, TypeOK
  <2>2. Moved
    BY <1>5, GotoType DEF ConnectRefused, PCs
  <2>3. wanted' \in BOOLEAN
    BY <1>5 DEF ConnectRefused, TypeOK
  <2> QED BY <2>1, <2>2, <2>3, <1>0
<1>6. ASSUME NEW c \in Calls, PluginInstalled(c) PROVE TypeOK'
  <2>1. call[c].at \in DOMAIN plugins /\ plugins[call[c].at] \in Plugins /\ call[c].at + 1 \in Nat \ {0}
    BY <1>6 DEF PluginInstalled, TypeOK
  <2>2. Rest
    BY <1>6, <2>1 DEF PluginInstalled, TypeOK
  <2>3. Moved
    BY <1>6, <2>1, InstallFromType DEF PluginInstalled
  <2>4. wanted' \in BOOLEAN
    BY <1>6 DEF PluginInstalled, TypeOK
  <2> QED BY <2>2, <2>3, <2>4, <1>0
<1>7. ASSUME NEW c \in Calls, PluginInstallFails(c) PROVE TypeOK'
  <2>1. call[c].at + 1 \in Nat \ {0}
    BY <1>7 DEF PluginInstallFails, TypeOK
  <2>2. Rest
    BY <1>7 DEF PluginInstallFails, TypeOK
  <2>3. Moved
    BY <1>7, <2>1, InstallFromType DEF PluginInstallFails
  <2>4. wanted' \in BOOLEAN
    BY <1>7 DEF PluginInstallFails, TypeOK
  <2> QED BY <2>2, <2>3, <2>4, <1>0
<1>8. ASSUME NEW c \in Calls, PluginDestroyed(c) PROVE TypeOK'
  <2>1. call[c].at + 1 \in Nat \ {0}
    BY <1>8 DEF PluginDestroyed, TypeOK
  <2>2. DestroyFrom(c, call[c].at + 1, installed')
    BY <1>8 DEF PluginDestroyed
  <2>3. Rest
    BY <1>8, <2>1, <2>2, DestroyFromType DEF PluginDestroyed, TypeOK
  <2>4. Moved
    BY <1>8, <2>1, <2>2, DestroyFromType DEF PluginDestroyed
  <2>5. wanted' \in BOOLEAN
    BY <1>8 DEF PluginDestroyed, TypeOK
  <2> QED BY <2>3, <2>4, <2>5, <1>0
<1>9. ASSUME NEW c \in Calls, Disconnected(c) PROVE TypeOK'
  <2>1. Rest
    BY <1>9, <1>s DEF Disconnected, TypeOK
  <2>2. Moved
    BY <1>9, GotoType DEF Disconnected, PCs
  <2>3. wanted' \in BOOLEAN
    BY <1>9 DEF Disconnected, TypeOK
  <2> QED BY <2>1, <2>2, <2>3, <1>0
<1>10. ASSUME NEW p \in Late, LooseInstalled(p) \/ LooseInstallFails(p) PROVE TypeOK'
  <2>1. Rest
    BY <1>10 DEF LooseInstalled, LooseInstallFails, TypeOK, Plugins
  <2>2. Moved
    BY <1>10 DEF LooseInstalled, LooseInstallFails, TypeOK, AtOK, CallRecords, PCs
  <2>3. wanted' \in BOOLEAN
    BY <1>10 DEF LooseInstalled, LooseInstallFails, TypeOK
  <2> QED BY <2>1, <2>2, <2>3, <1>0
<1>11. ASSUME TransportOpens \/ TransportRefuses PROVE TypeOK'
  <2>1. engine' \in States /\ transport' \in States
    BY <1>11, NotifyType DEF TransportOpens, TransportRefuses, States
  <2>2. Rest
    BY <1>11, <2>1 DEF TransportOpens, TransportRefuses, TypeOK
  <2>3. call' = call \/ (opening \in Calls /\ \E pc \in {"opened", "refused"} : call' = Goto(opening, pc, 0))
    BY <1>11 DEF TransportOpens, TransportRefuses, TypeOK
  <2>4. Moved
    <3>1. CASE call' = call
      BY <1>11, <3>1 DEF TransportOpens, TransportRefuses, TypeOK, AtOK, CallRecords, PCs
    <3>2. CASE opening \in Calls /\ \E pc \in {"opened", "refused"} : call' = Goto(opening, pc, 0)
      BY <1>11, <3>2, GotoType DEF TransportOpens, TransportRefuses, PCs
    <3> QED BY <2>3, <3>1, <3>2
  <2>5. wanted' \in BOOLEAN
    BY <1>11 DEF TransportOpens, TransportRefuses, TypeOK
  <2> QED BY <2>2, <2>4, <2>5, <1>0
<1>12. ASSUME TransportDrops PROVE TypeOK'
  <2>1. engine' \in States /\ transport' \in States
    BY <1>12, NotifyType DEF TransportDrops, States
  <2>2. Rest
    BY <1>12, <2>1 DEF TransportDrops, TypeOK
  <2>3. Moved
    BY <1>12 DEF TransportDrops, TypeOK, AtOK, CallRecords, PCs
  <2>4. wanted' \in BOOLEAN
    BY <1>12 DEF TransportDrops, TypeOK
  <2> QED BY <2>2, <2>3, <2>4, <1>0
<1>13. ASSUME TransportCloses PROVE TypeOK'
  <2>1. engine' \in States /\ transport' \in States
    BY <1>13, NotifyType DEF TransportCloses, States
  <2>2. Rest
    BY <1>13, <2>1 DEF TransportCloses, TypeOK
  <2>3. Moved
    BY <1>13 DEF TransportCloses, TypeOK, AtOK, CallRecords, PCs
  <2>4. wanted' \in BOOLEAN
    BY <1>13 DEF TransportCloses, TypeOK
  <2> QED BY <2>2, <2>3, <2>4, <1>0
<1>14. ASSUME UNCHANGED vars PROVE TypeOK'
  BY <1>14 DEF vars, TypeOK
<1> QED
  BY <1>1, <1>2, <1>3, <1>4, <1>5, <1>6, <1>7, <1>8, <1>9, <1>10, <1>11, <1>12, <1>13, <1>14
  DEF EngineStep, Runtime, Continue, Transport

\* So does every step.
LEMMA TypeNext == TypeOK /\ [Next]_vars => TypeOK'
BY TypeStep DEF Next, Application, EngineStep

\* The variables keep their types, and every call stands at a plugin of the list
\* while it installs or destroys one.
THEOREM TypeCorrect == Spec => []TypeOK
<1> QED BY TypeInit, TypeNext, PTL DEF Spec

-------------------------------------------------------------------------------
(* The engine and its listeners. *)

\* The listeners are those of one call.
OneListener == \E c \in Calls : wired \subseteq {c}

\* A call that was refused while it was listening has seen the engine go down,
\* so the engine does not come to depend on listeners about to be taken off.
RefusedIsDown ==
    \A c \in wired : call[c].pc = "refused" =>
        engine \in {"disconnected", "disconnecting"} /\ transport \in {"disconnected", "disconnecting"}

ListenInv == OneListener /\ HearsWhatItReports /\ RefusedIsDown

\* Nothing is listened to at the start.
LEMMA ListenInit == Init => ListenInv
BY LifecycleAssumption DEF Init, ListenInv, OneListener, HearsWhatItReports, RefusedIsDown, Calls

\* A step that leaves the engine, its transport and its listeners alone, and
\* refuses no call, keeps the invariant.
LEMMA ListenStays ==
    ASSUME ListenInv, UNCHANGED <<engine, transport, wired>>,
           \A c \in wired : call'[c].pc = "refused" => call[c].pc = "refused"
    PROVE  ListenInv'
BY DEF ListenInv, OneListener, HearsWhatItReports, RefusedIsDown

\* A jump refuses no other call.
LEMMA GotoRefuses ==
    ASSUME TypeOK, NEW c \in Calls, NEW pc \in PCs \ {"refused"}, NEW at, NEW d \in Calls,
           Goto(c, pc, at)[d].pc = "refused"
    PROVE  call[d].pc = "refused"
BY DEF TypeOK, Goto, PCs

\* connect()'s loop takes no listener on.
LEMMA InstallRefuses ==
    ASSUME TypeOK, NEW c \in Calls, NEW i, NEW now, InstallFrom(c, i, now), NEW d \in Calls,
           call'[d].pc = "refused"
    PROVE  call[d].pc = "refused"
BY GotoRefuses DEF InstallFrom, PCs

\* A transport that goes to t, with the engine following if it listens.
LEMMA NotifyListens ==
    ASSUME TypeOK, ListenInv, NEW t \in {"connected", "reconnecting", "disconnected"}, Notify(t),
           wired' = wired,
           \A c \in wired : call'[c].pc = "refused" =>
               t = "disconnected" \/ (call[c].pc = "refused" /\ transport \notin {"disconnected", "disconnecting"})
    PROVE  ListenInv'
<1>1. CASE wired = {}
  BY <1>1 DEF Notify, ListenInv, OneListener, HearsWhatItReports, RefusedIsDown
<1>2. CASE wired # {}
  <2>1. OneListener' /\ HearsWhatItReports'
    BY <1>2 DEF ListenInv, OneListener, HearsWhatItReports
  <2>2. t = "disconnected" => engine' = "disconnected" /\ transport' = "disconnected"
    BY <1>2, SyncMoves DEF Notify, TypeOK
  <2>3. RefusedIsDown'
    BY <2>2 DEF ListenInv, RefusedIsDown
  <2> QED BY <2>1, <2>3 DEF ListenInv
<1> QED BY <1>1, <1>2

\* Nor does the close of the transport.
LEMMA CloseListens ==
    ASSUME TypeOK, ListenInv, NEW c \in Calls, CloseTransport(c)
    PROVE  ListenInv'
<1>1. CASE engine \in {"disconnected", "connecting"}
  <2>1. engine' = "disconnected" /\ wired' = {}
    BY <1>1, SyncMoves DEF CloseTransport, TypeOK
  <2> QED BY <2>1, LifecycleAssumption DEF ListenInv, OneListener, HearsWhatItReports, RefusedIsDown, Calls
<1>2. CASE engine \notin {"disconnected", "connecting"}
  <2>1. engine' = "disconnecting" /\ wired' = wired
    BY <1>2, SyncMoves DEF CloseTransport, TypeOK, States
  <2>2. transport' \in {"disconnected", "disconnecting"}
    BY <1>2 DEF CloseTransport, TypeOK, States
  <2> QED BY <2>1, <2>2 DEF ListenInv, OneListener, HearsWhatItReports, RefusedIsDown
<1> QED BY <1>1, <1>2

\* Nor does disconnect()'s loop.
LEMMA DestroyListens ==
    ASSUME TypeOK, ListenInv, NEW c \in Calls, NEW i, NEW now, DestroyFrom(c, i, now)
    PROVE  ListenInv'
<1>1. CASE CloseTransport(c)
  BY <1>1, CloseListens
<1>2. CASE \E j \in Ahead(i, now) : /\ call' = Goto(c, "destroying", j)
                                   /\ UNCHANGED <<engine, transport, opening, wired>>
  BY <1>2, ListenStays, GotoRefuses DEF TypeOK, PCs
<1> QED BY <1>1, <1>2 DEF DestroyFrom

\* Every step keeps the invariant.
LEMMA ListenNext == TypeOK /\ ListenInv /\ [Next]_vars => ListenInv'
<1> SUFFICES ASSUME TypeOK, ListenInv, [Next]_vars PROVE ListenInv'
  OBVIOUS
<1>1. ASSUME NEW c \in Calls, Connect(c) PROVE ListenInv'
  <2>1. engine' = "connecting" /\ wired' = {c}
    BY <1>1, SyncMoves DEF Connect
  <2>2. call'[c].pc # "refused"
    BY <1>1 DEF Connect, Goto, TypeOK
  <2> QED BY <2>1, <2>2 DEF ListenInv, OneListener, HearsWhatItReports, RefusedIsDown
<1>2. ASSUME NEW c \in Calls, Disconnect(c) PROVE ListenInv'
  BY <1>2, DestroyListens DEF Disconnect
<1>3. ASSUME NEW p \in Late, Use(p) PROVE ListenInv'
  BY <1>3, ListenStays DEF Use
<1>4. ASSUME NEW c \in Calls, ConnectOpened(c) PROVE ListenInv'
  <2>1. engine' = engine \/ (engine = "connecting" /\ engine' = "connected")
    BY <1>4, SyncMoves DEF ConnectOpened
  <2>2. transport' = transport /\ wired' = wired
    BY <1>4 DEF ConnectOpened
  <2>3. \A d \in wired : call'[d].pc = "refused" => call[d].pc = "refused"
    BY <1>4, InstallRefuses DEF ConnectOpened, TypeOK
  <2> QED BY <2>1, <2>2, <2>3 DEF ListenInv, OneListener, HearsWhatItReports, RefusedIsDown
<1>5. ASSUME NEW c \in Calls, ConnectRefused(c) PROVE ListenInv'
  <2>1. wired' = wired \ {c} /\ transport' = transport
    BY <1>5 DEF ConnectRefused
  <2>2. engine' = engine \/ engine' = "disconnected"
    BY <1>5, SyncMoves DEF ConnectRefused, TypeOK
  <2>3. \A d \in wired : call'[d].pc = "refused" => call[d].pc = "refused"
    BY <1>5, GotoRefuses DEF ConnectRefused, TypeOK, PCs
  <2>4. c \in wired => engine \in {"disconnected", "disconnecting"}
    BY <1>5 DEF ConnectRefused, ListenInv, RefusedIsDown
  <2>5. OneListener'
    BY <2>1 DEF ListenInv, OneListener
  <2>6. HearsWhatItReports'
    BY <2>1, <2>2, <2>4 DEF ListenInv, HearsWhatItReports
  <2>7. RefusedIsDown'
    BY <2>1, <2>2, <2>3 DEF ListenInv, RefusedIsDown
  <2> QED BY <2>5, <2>6, <2>7 DEF ListenInv
<1>6. ASSUME NEW c \in Calls, PluginInstalled(c) \/ PluginInstallFails(c) PROVE ListenInv'
  BY <1>6, ListenStays, InstallRefuses DEF PluginInstalled, PluginInstallFails, TypeOK
<1>7. ASSUME NEW c \in Calls, PluginDestroyed(c) PROVE ListenInv'
  BY <1>7, DestroyListens DEF PluginDestroyed
<1>8. ASSUME NEW c \in Calls, Disconnected(c) PROVE ListenInv'
  <2>1. engine' = "disconnected" /\ wired' = {}
    BY <1>8, SyncMoves DEF Disconnected, TypeOK
  <2> QED BY <2>1, LifecycleAssumption DEF ListenInv, OneListener, HearsWhatItReports, RefusedIsDown, Calls
<1>9. ASSUME NEW p \in Late, LooseInstalled(p) \/ LooseInstallFails(p) PROVE ListenInv'
  BY <1>9, ListenStays DEF LooseInstalled, LooseInstallFails
<1>10. ASSUME TransportOpens PROVE ListenInv'
  <2>1. \A d \in wired : call'[d].pc = "refused" => call[d].pc = "refused"
    BY <1>10, GotoRefuses DEF TransportOpens, TypeOK, PCs
  <2> QED BY <1>10, <2>1, NotifyListens DEF TransportOpens
<1>11. ASSUME TransportRefuses PROVE ListenInv'
  BY <1>11, NotifyListens DEF TransportRefuses
<1>12. ASSUME TransportDrops PROVE ListenInv'
  <2>1. call' = call /\ wired' = wired /\ transport \in {"connected", "reconnecting"}
    BY <1>12 DEF TransportDrops
  <2>2. PICK t \in {"reconnecting", "disconnected"} : Notify(t)
    BY <1>12 DEF TransportDrops
  <2> QED BY <2>1, <2>2, NotifyListens
<1>13. ASSUME TransportCloses PROVE ListenInv'
  BY <1>13, NotifyListens DEF TransportCloses
<1>14. ASSUME UNCHANGED vars PROVE ListenInv'
  BY <1>14, ListenStays DEF vars
<1> QED
  BY <1>1, <1>2, <1>3, <1>4, <1>5, <1>6, <1>7, <1>8, <1>9, <1>10, <1>11, <1>12, <1>13, <1>14
  DEF Next, Application, Runtime, Continue, Transport

\* The invariant of the listeners, with the types.
LEMMA ListenCorrect == Spec => [](TypeOK /\ ListenInv)
<1>1. Init => TypeOK /\ ListenInv
  BY TypeInit, ListenInit
<1>2. (TypeOK /\ ListenInv) /\ [Next]_vars => (TypeOK /\ ListenInv)'
  BY TypeNext, ListenNext
<1> QED BY <1>1, <1>2, PTL DEF Spec

\* However connect(), disconnect() and use() overlap, the engine's listeners are
\* on the transport at most once (wireTransport, unwireTransport).
THEOREM ListensOnce == Spec => []WiredOnce
<1>1. TypeOK /\ ListenInv => WiredOnce
  <2> SUFFICES ASSUME ListenInv PROVE WiredOnce
    OBVIOUS
  <2>1. PICK c \in Calls : wired = {} \/ wired = {c}
    BY DEF ListenInv, OneListener
  <2>2. Cardinality({}) = 0 /\ Cardinality({c}) = 1
    BY FS_EmptySet, FS_Singleton
  <2> QED BY <2>1, <2>2 DEF WiredOnce
<1> QED BY <1>1, ListenCorrect, PTL

\* However they overlap, an engine that reports a connection, or an attempt at
\* one, listens to its transport.
THEOREM ListensToWhatItReports == Spec => []HearsWhatItReports
<1>1. TypeOK /\ ListenInv => HearsWhatItReports
  BY DEF ListenInv
<1> QED BY <1>1, ListenCorrect, PTL

-------------------------------------------------------------------------------
(* An application that waits for every call before it makes the next. *)

\* Only the last call may still be running.
OneCall == \A c \in Calls : Running(c) => c = calls

\* Where a running call stands says what the transport is doing.
Stage ==
    /\ opening # 0 => call[opening].pc = "opening"
    /\ \A c \in Calls :
         /\ call[c].pc = "opening" => transport = "connecting" /\ opening = c
         /\ call[c].pc = "closing" => transport = "disconnecting"
         /\ call[c].pc \in {"refused", "closed"} => transport = "disconnected"

\* And the other way round.
InFlight ==
    /\ transport = "connecting" => \E c \in Calls : call[c].pc = "opening"
    /\ transport = "disconnecting" => \E c \in Calls : call[c].pc = "closing"

\* The last call says which of the two a running call is.
Kind ==
    \A c \in Calls :
      /\ call[c].pc \in {"opening", "opened", "refused", "installing"} => wanted
      /\ call[c].pc \in {"destroying", "closing", "closed"} => ~wanted

\* An engine that does not listen misses nothing.
Unheard == wired = {} => transport = "disconnected"

SeqInv == /\ EngineMirrorsTransport /\ OneCall /\ Stage /\ InFlight /\ Kind /\ Unheard
          /\ StoppedIsClosed

\* No call runs at the start.
LEMMA SeqInit == Init => SeqInv
<1> SUFFICES ASSUME Init PROVE SeqInv
  OBVIOUS
<1>1. \A c \in Calls : call[c].pc = "none"
  BY DEF Init
<1> QED
  BY <1>1 DEF Init, SeqInv, EngineMirrorsTransport, OneCall, Stage, InFlight, Kind, Unheard, StoppedIsClosed, Running

\* The transport moves and a listening engine follows.
LEMMA NotifyMirrors ==
    ASSUME TypeOK, EngineMirrorsTransport, Unheard, wired' = wired,
           NEW t \in States, Notify(t),
           \/ transport \in {"connecting", "reconnecting"} /\ t = "connected"
           \/ transport = "connected" /\ t = "reconnecting"
           \/ transport # "disconnected" /\ t = "disconnected"
    PROVE  EngineMirrorsTransport' /\ Unheard' /\ transport' = t
<1>1. wired # {} /\ transport' = t /\ engine' = Sync(transport, t)
  BY DEF Notify, EngineMirrorsTransport, Unheard
<1>2. t \in DOMAIN Paths[transport]
  BY DEF Paths, TypeOK, States
<1>3. engine' = t
  BY <1>1, <1>2, SyncReaches DEF TypeOK
<1> QED BY <1>1, <1>3 DEF EngineMirrorsTransport, Unheard

\* A running call c goes on to another await, or is over, while the engine, the
\* transport and the listeners stay.
LEMMA SeqGoto ==
    ASSUME TypeOK, SeqInv, NEW c \in Calls, Running(c),
           call[c].pc \notin {"opening", "closing"},
           NEW pc \in {"installing", "destroying", "done"}, NEW at, call' = Goto(c, pc, at),
           UNCHANGED <<engine, transport, opening, wired, calls, wanted>>,
           pc = "installing" => wanted, pc = "destroying" => ~wanted, pc = "done" => wanted
    PROVE  SeqInv'
<1>1. c = calls /\ call'[c].pc = pc /\ \A d \in Calls : d # c => call'[d] = call[d] /\ ~Running(d)
  BY DEF SeqInv, OneCall, Goto, TypeOK
<1>2. EngineMirrorsTransport' /\ Unheard'
  BY DEF SeqInv, EngineMirrorsTransport, Unheard
<1>3. OneCall'
  BY <1>1 DEF OneCall, Running
<1>4. Stage'
  BY <1>1 DEF SeqInv, Stage, TypeOK
<1>5. InFlight'
  BY <1>1 DEF SeqInv, InFlight
<1>6. Kind'
  BY <1>1 DEF SeqInv, Kind
<1>7. StoppedIsClosed'
  BY <1>1 DEF StoppedIsClosed, Quiet, Running
<1> QED BY <1>2, <1>3, <1>4, <1>5, <1>6, <1>7 DEF SeqInv

\* connect()'s loop, from any place in the list.
LEMMA SeqInstallFrom ==
    ASSUME TypeOK, SeqInv, NEW c \in Calls, call[c].pc \in {"opened", "installing"},
           NEW i, NEW now, InstallFrom(c, i, now),
           UNCHANGED <<engine, transport, opening, wired, calls, wanted>>
    PROVE  SeqInv'
<1>1. wanted /\ Running(c) /\ call[c].pc \notin {"opening", "closing"}
  BY DEF SeqInv, Kind, Running
<1>2. CASE call' = Goto(c, "done", 0)
  BY <1>1, <1>2, SeqGoto
<1>3. CASE \E j \in Ahead(i, Plugins \ now) : call' = Goto(c, "installing", j)
  BY <1>1, <1>3, SeqGoto
<1> QED BY <1>2, <1>3 DEF InstallFrom

\* disconnect() reaches the transport: c is the only call running, and the
\* transport is neither connecting nor disconnecting.
LEMMA SeqClose ==
    ASSUME TypeOK, SeqInv, NEW c \in Calls, CloseTransport(c),
           \A d \in Calls : d # c => ~Running(d),
           call[c].pc \notin {"opening", "closing"},
           calls' = c, ~wanted'
    PROVE  SeqInv'
<1>1. opening = 0 /\ transport \notin {"connecting", "disconnecting"} /\ engine = transport
  BY DEF SeqInv, Stage, InFlight, EngineMirrorsTransport, Running, TypeOK
<1>2. CASE engine = "disconnected"
  <2>1. /\ engine' = "disconnected" /\ transport' = "disconnected" /\ wired' = {} /\ opening' = 0
        /\ call' = Goto(c, "done", 0)
    BY <1>1, <1>2, SyncMoves DEF CloseTransport, States
  <2>2. \A d \in Calls : ~Running(d)'
    BY <2>1 DEF Goto, Running, TypeOK
  <2> QED
    BY <2>1, <2>2 DEF SeqInv, EngineMirrorsTransport, OneCall, Stage, InFlight, Kind, Unheard, StoppedIsClosed, Running
<1>3. CASE engine \in {"connected", "reconnecting"}
  <2>1. /\ engine' = "disconnecting" /\ transport' = "disconnecting" /\ wired' = wired /\ opening' = 0
        /\ call' = Goto(c, "closing", 0)
    BY <1>1, <1>3, SyncMoves DEF CloseTransport
  <2>2. call'[c].pc = "closing" /\ \A d \in Calls : d # c => ~Running(d)'
    BY <2>1 DEF Goto, Running, TypeOK
  <2>3. EngineMirrorsTransport' /\ OneCall' /\ InFlight'
    BY <2>1, <2>2 DEF EngineMirrorsTransport, OneCall, InFlight
  <2>4. Stage'
    BY <2>1, <2>2 DEF Stage, Running
  <2>5. Kind'
    BY <2>2 DEF Kind, Running
  <2>6. Unheard'
    BY <1>1, <1>3, <2>1 DEF SeqInv, Unheard
  <2>7. StoppedIsClosed'
    BY <2>2 DEF StoppedIsClosed, Quiet, Running
  <2> QED BY <2>3, <2>4, <2>5, <2>6, <2>7 DEF SeqInv
<1> QED BY <1>1, <1>2, <1>3 DEF TypeOK, States

\* disconnect()'s loop, from any place in the list.
LEMMA SeqDestroyFrom ==
    ASSUME TypeOK, SeqInv, NEW c \in Calls, NEW i, NEW now, DestroyFrom(c, i, now),
           \A d \in Calls : d # c => ~Running(d),
           call[c].pc \notin {"opening", "closing"},
           calls' = c, ~wanted'
    PROVE  SeqInv'
<1>1. CASE CloseTransport(c)
  BY <1>1, SeqClose
<1>2. CASE \E j \in Ahead(i, now) : /\ call' = Goto(c, "destroying", j)
                                   /\ UNCHANGED <<engine, transport, opening, wired>>
  <2>1. UNCHANGED <<engine, transport, opening, wired>>
    BY <1>2
  <2>2. call'[c].pc = "destroying" /\ \A d \in Calls : d # c => call'[d] = call[d] /\ ~Running(d) /\ ~Running(d)'
    BY <1>2 DEF Goto, Running, TypeOK
  <2>3. EngineMirrorsTransport' /\ Unheard'
    BY <2>1 DEF SeqInv, EngineMirrorsTransport, Unheard
  <2>4. OneCall'
    BY <2>2 DEF OneCall
  <2>5. Stage'
    BY <2>1, <2>2 DEF SeqInv, Stage, Running, TypeOK
  <2>6. InFlight'
    BY <2>1, <2>2 DEF SeqInv, InFlight
  <2>7. Kind'
    BY <2>2 DEF Kind, Running
  <2>8. StoppedIsClosed'
    BY <2>2 DEF StoppedIsClosed, Quiet, Running
  <2> QED BY <2>3, <2>4, <2>5, <2>6, <2>7, <2>8 DEF SeqInv
<1> QED BY <1>1, <1>2 DEF DestroyFrom

\* Every step keeps the invariant, provided a call is made when no other runs.
LEMMA SeqStep ==
    ASSUME TypeOK, SeqInv,
           \/ Quiet /\ \E c \in Calls : Connect(c) \/ Disconnect(c)
           \/ \E p \in Late : Use(p)
           \/ Runtime \/ UNCHANGED vars
    PROVE  SeqInv'
<1>q. ASSUME Quiet PROVE opening = 0 /\ transport \notin {"connecting", "disconnecting"}
  BY <1>q DEF Quiet, Running, SeqInv, Stage, InFlight, TypeOK
<1>1. ASSUME NEW c \in Calls, Connect(c), Quiet PROVE SeqInv'
  <2>1. engine = "disconnected" /\ transport = "disconnected" /\ opening = 0
    BY <1>1, <1>q DEF Connect, SeqInv, EngineMirrorsTransport
  <2>2. /\ engine' = "connecting" /\ transport' = "connecting" /\ opening' = c /\ wired' = {c}
        /\ call' = Goto(c, "opening", 0) /\ calls' = c
    BY <1>1, <2>1, SyncMoves DEF Connect
  <2>3. wanted'
    BY <1>1 DEF Connect
  <2>4. call'[c].pc = "opening" /\ \A d \in Calls : d # c => ~Running(d)'
    BY <1>1, <2>2 DEF Goto, Quiet, Running, TypeOK
  <2>5. EngineMirrorsTransport' /\ OneCall' /\ InFlight' /\ Unheard'
    BY <2>2, <2>4 DEF EngineMirrorsTransport, OneCall, InFlight, Unheard
  <2>6. Stage'
    BY <2>2, <2>4 DEF Stage, Running
  <2>7. Kind'
    BY <2>3, <2>4 DEF Kind, Running
  <2>8. StoppedIsClosed'
    BY <2>3 DEF StoppedIsClosed
  <2> QED BY <2>5, <2>6, <2>7, <2>8 DEF SeqInv
<1>2. ASSUME NEW c \in Calls, Disconnect(c), Quiet PROVE SeqInv'
  <2>1. calls' = c /\ ~wanted' /\ DestroyFrom(c, 1, installed)
    BY <1>2 DEF Disconnect
  <2>2. \A d \in Calls : ~Running(d) /\ call[d].pc \notin {"opening", "closing"}
    BY <1>2 DEF Quiet, Running
  <2> QED BY <2>1, <2>2, SeqDestroyFrom
<1>3. ASSUME UNCHANGED <<engine, transport, opening, wired, call, calls, wanted>> PROVE SeqInv'
  BY <1>3 DEF SeqInv, EngineMirrorsTransport, OneCall, Stage, InFlight, Kind, Unheard, StoppedIsClosed,
              Quiet, Running
<1>4. ASSUME NEW c \in Calls, ConnectOpened(c) PROVE SeqInv'
  <2>1. engine # "connecting"
    BY <1>4 DEF ConnectOpened, SeqInv, EngineMirrorsTransport, InFlight, OneCall, Running
  <2>2. engine' = engine /\ call[c].pc = "opened" /\ InstallFrom(c, 1, installed)
        /\ UNCHANGED <<transport, opening, wired, calls, wanted>>
    BY <1>4, <2>1 DEF ConnectOpened
  <2> QED BY <2>2, SeqInstallFrom
<1>5. ASSUME NEW c \in Calls, ConnectRefused(c) PROVE SeqInv'
  <2>1. transport = "disconnected" /\ engine = "disconnected" /\ opening = 0 /\ wanted /\ c = calls
    BY <1>5 DEF ConnectRefused, SeqInv, EngineMirrorsTransport, Stage, Kind, OneCall, Running, TypeOK
  <2>2. /\ engine' = "disconnected" /\ transport' = "disconnected" /\ opening' = 0
        /\ call' = Goto(c, "done", 0) /\ calls' = calls
    BY <1>5, <2>1 DEF ConnectRefused
  <2>3. wanted'
    BY <1>5, <2>1 DEF ConnectRefused
  <2>4. \A d \in Calls : ~Running(d)'
    BY <2>1, <2>2 DEF Goto, Running, TypeOK, SeqInv, OneCall
  <2> QED
    BY <2>2, <2>3, <2>4 DEF SeqInv, EngineMirrorsTransport, OneCall, Stage, InFlight, Kind, Unheard,
                            StoppedIsClosed, Running
<1>6. ASSUME NEW c \in Calls, PluginInstalled(c) \/ PluginInstallFails(c) PROVE SeqInv'
  BY <1>6, SeqInstallFrom DEF PluginInstalled, PluginInstallFails
<1>7. ASSUME NEW c \in Calls, PluginDestroyed(c) PROVE SeqInv'
  <2>1. Running(c) /\ c = calls /\ \A d \in Calls : d # c => ~Running(d)
    BY <1>7 DEF PluginDestroyed, SeqInv, OneCall, Running
  <2>2. calls' = c /\ DestroyFrom(c, call[c].at + 1, installed')
    BY <1>7, <2>1 DEF PluginDestroyed
  <2>3. ~wanted'
    BY <1>7 DEF PluginDestroyed, SeqInv, Kind
  <2>4. call[c].pc \notin {"opening", "closing"}
    BY <1>7 DEF PluginDestroyed
  <2> QED BY <2>1, <2>2, <2>3, <2>4, SeqDestroyFrom
<1>8. ASSUME NEW c \in Calls, Disconnected(c) PROVE SeqInv'
  <2>1. transport = "disconnected" /\ engine = "disconnected" /\ opening = 0 /\ ~wanted /\ c = calls
    BY <1>8 DEF Disconnected, SeqInv, EngineMirrorsTransport, Stage, Kind, OneCall, Running, TypeOK
  <2>2. /\ engine' = "disconnected" /\ transport' = "disconnected" /\ opening' = 0 /\ wired' = {}
        /\ call' = Goto(c, "done", 0) /\ calls' = calls
    BY <1>8, <2>1, SyncMoves DEF Disconnected, States
  <2>4. \A d \in Calls : ~Running(d)'
    BY <2>1, <2>2 DEF Goto, Running, TypeOK, SeqInv, OneCall
  <2> QED
    BY <2>2, <2>4 DEF SeqInv, EngineMirrorsTransport, OneCall, Stage, InFlight, Kind, Unheard,
                      StoppedIsClosed, Running
<1>9. ASSUME NEW t \in {"connected", "disconnected"}, NEW pc \in {"opened", "refused"}, Notify(t),
             transport \in {"connecting", "reconnecting"},
             t = "connected" => pc = "opened",
             t = "disconnected" => transport = "connecting",
             call' = (IF opening = 0 THEN call ELSE Goto(opening, pc, 0)), opening' = 0,
             UNCHANGED <<wired, calls, wanted>>
      PROVE  SeqInv'
  <2>1. EngineMirrorsTransport' /\ Unheard' /\ transport' = t
    BY <1>9, NotifyMirrors DEF SeqInv, States
  <2>2. CASE opening = 0
    <3>1. \A c \in Calls : call'[c] = call[c] /\ call[c].pc \notin {"opening", "closing", "refused", "closed"}
      BY <1>9, <2>2 DEF SeqInv, Stage, Calls
    <3>2. transport = "reconnecting" /\ t = "connected"
      BY <1>9, <2>2, <3>1 DEF SeqInv, InFlight
    <3>3. OneCall' /\ Stage' /\ InFlight'
      BY <1>9, <2>1, <3>1, <3>2 DEF SeqInv, OneCall, Stage, InFlight, Running
    <3>4. Kind'
      BY <1>9, <3>1 DEF SeqInv, Kind
    <3>5. StoppedIsClosed'
      BY <1>9, <3>1, <3>2 DEF SeqInv, StoppedIsClosed, Quiet, Running
    <3> QED BY <2>1, <3>3, <3>4, <3>5 DEF SeqInv
  <2>3. CASE opening # 0
    <3>1. opening \in Calls /\ call[opening].pc = "opening" /\ wanted /\ opening = calls
      BY <2>3 DEF SeqInv, Stage, Kind, OneCall, Running, TypeOK
    <3>2. call'[opening].pc = pc /\ \A d \in Calls : d # opening => call'[d] = call[d] /\ ~Running(d) /\ ~Running(d)'
      BY <1>9, <2>3, <3>1 DEF Goto, TypeOK, SeqInv, OneCall, Running
    <3>3. wanted'
      BY <1>9, <3>1
    <3>4. OneCall'
      BY <1>9, <3>1, <3>2 DEF OneCall
    <3>5. pc = "refused" => transport' = "disconnected"
      BY <1>9, <2>1
    <3>6. Stage'
      BY <1>9, <3>2, <3>5 DEF Stage, Running
    <3>7. InFlight'
      BY <1>9, <2>1 DEF InFlight
    <3>8. Kind'
      BY <3>2, <3>3 DEF Kind, Running
    <3>9. StoppedIsClosed'
      BY <3>3 DEF StoppedIsClosed
    <3> QED BY <2>1, <3>4, <3>6, <3>7, <3>8, <3>9 DEF SeqInv
  <2> QED BY <2>2, <2>3
<1>10. ASSUME TransportOpens PROVE SeqInv'
  BY <1>9, <1>10 DEF TransportOpens
<1>11. ASSUME TransportRefuses PROVE SeqInv'
  BY <1>9, <1>11 DEF TransportRefuses
<1>12. ASSUME TransportDrops PROVE SeqInv'
  <2>1. /\ transport \in {"connected", "reconnecting"}
        /\ UNCHANGED <<opening, wired, call, calls, wanted>>
    BY <1>12 DEF TransportDrops
  <2>2. PICK t \in {"reconnecting", "disconnected"} :
          Notify(t) /\ (t = "reconnecting" => transport = "connected")
    BY <1>12 DEF TransportDrops
  <2>3. EngineMirrorsTransport' /\ Unheard' /\ transport' = t
    BY <2>1, <2>2, NotifyMirrors DEF SeqInv, States
  <2>4. OneCall' /\ Kind'
    BY <2>1 DEF SeqInv, OneCall, Kind, Running
  <2>5. \A c \in Calls : call[c].pc \notin {"opening", "closing", "refused", "closed"}
    BY <2>1 DEF SeqInv, Stage
  <2>6. Stage' /\ InFlight'
    BY <2>1, <2>3, <2>5 DEF SeqInv, Stage, InFlight
  <2>7. StoppedIsClosed'
    BY <2>1 DEF SeqInv, StoppedIsClosed, Quiet, Running
  <2> QED BY <2>3, <2>4, <2>6, <2>7 DEF SeqInv
<1>13. ASSUME TransportCloses PROVE SeqInv'
  <2>1. PICK c \in Calls : call[c].pc = "closing"
    BY <1>13 DEF TransportCloses, SeqInv, InFlight
  <2>2. c = calls /\ ~wanted /\ \A d \in Calls : d # c => ~Running(d)
    BY <2>1 DEF SeqInv, OneCall, Kind, Running
  <2>3. call'[c].pc = "closed" /\ \A d \in Calls : d # c => call'[d] = call[d] /\ ~Running(d)'
    BY <1>13, <2>1, <2>2 DEF TransportCloses, Running
  <2>4. transport = "disconnecting" /\ UNCHANGED <<opening, wired, calls, wanted>>
    BY <1>13 DEF TransportCloses
  <2>5. EngineMirrorsTransport' /\ Unheard' /\ transport' = "disconnected"
    BY <1>13, <2>4, NotifyMirrors DEF TransportCloses, SeqInv, States
  <2>6. opening = 0
    BY <2>4 DEF SeqInv, Stage, TypeOK
  <2>7. OneCall' /\ Stage' /\ InFlight'
    BY <2>2, <2>3, <2>4, <2>5, <2>6 DEF OneCall, Stage, InFlight, Running
  <2>8. Kind'
    BY <2>2, <2>3, <2>4 DEF Kind, Running
  <2>9. StoppedIsClosed'
    BY <2>3 DEF StoppedIsClosed, Quiet, Running
  <2> QED BY <2>5, <2>7, <2>8, <2>9 DEF SeqInv
<1>14. CASE Quiet /\ \E c \in Calls : Connect(c) \/ Disconnect(c)
  BY <1>1, <1>2, <1>14
<1>15. CASE Runtime
  BY <1>3, <1>4, <1>5, <1>6, <1>7, <1>8, <1>10, <1>11, <1>12, <1>13, <1>15
  DEF Runtime, Continue, Transport, LooseInstalled, LooseInstallFails
<1> QED BY <1>3, <1>14, <1>15 DEF Use, vars

\* One call at a time: every step keeps the invariant of its stages.
LEMMA SeqNext == ~Overlap => (TypeOK /\ SeqInv /\ [Next]_vars => SeqInv')
BY SeqStep DEF Next, Application, MayCall

\* So it holds in every behaviour of an application that waits for its calls.
LEMMA SeqCorrect ==
    ASSUME ~Overlap
    PROVE  Spec => [](TypeOK /\ SeqInv)
<1>1. Init => TypeOK /\ SeqInv
  BY TypeInit, SeqInit
<1>2. (TypeOK /\ SeqInv) /\ [Next]_vars => (TypeOK /\ SeqInv)'
  BY TypeNext, SeqNext
<1> QED BY <1>1, <1>2, PTL DEF Spec

\* The engine of an application that waits for its calls always reports what
\* its transport reports.
THEOREM EngineIsTruthful ==
    ASSUME ~Overlap
    PROVE  Spec => []EngineMirrorsTransport
<1>1. TypeOK /\ SeqInv => EngineMirrorsTransport
  BY DEF SeqInv
<1> QED BY <1>1, SeqCorrect, PTL

\* And its disconnect() leaves no connection and no listener behind.
THEOREM DisconnectCloses ==
    ASSUME ~Overlap
    PROVE  Spec => []StoppedIsClosed
<1>1. TypeOK /\ SeqInv => StoppedIsClosed
  BY DEF SeqInv
<1> QED BY <1>1, SeqCorrect, PTL

-------------------------------------------------------------------------------
(* The plugins of such an application. *)

\* The plugin whose destroy() call c awaits.
Destroying(c, p) == call[c].pc = "destroying" /\ plugins[call[c].at] = p

\* The list of plugins and what is installed of it.
ListInv ==
    /\ \A i, j \in DOMAIN plugins : plugins[i] = plugins[j] => i = j
    /\ \A p \in installed \cup loose : \E i \in DOMAIN plugins : plugins[i] = p

\* What runs at a time: a loop of connect() or disconnect(), or an install that use() started.
LooseInv == loose \cap installed = {} /\ (loose # {} => Quiet /\ wanted)

\* connect() installs what is not installed, disconnect() has left nothing installed behind it.
LoopInv ==
    \A c \in Calls :
      /\ call[c].pc = "installing" => plugins[call[c].at] \notin installed
      /\ call[c].pc = "destroying" =>
           /\ plugins[call[c].at] \in installed
           /\ \A k \in DOMAIN plugins : k < call[c].at => plugins[k] \notin installed

InstanceInv ==
    \A p \in Plugins :
      instances[p] = IF p \in installed /\ \A c \in Calls : ~Destroying(c, p) THEN 1 ELSE 0

StopInv == ~wanted /\ (\A c \in Calls : call[c].pc # "destroying") => installed = {}

PlugInv == ListInv /\ LooseInv /\ LoopInv /\ InstanceInv /\ StopInv

\* Nothing is installed at the start.
LEMMA PlugInit == Init => PlugInv
BY LifecycleAssumption DEF Init, PlugInv, ListInv, LooseInv, LoopInv, InstanceInv, StopInv, Plugins, Registered

\* A step that leaves the plugins alone, and every call that is in one of their loops.
LEMMA PlugStays ==
    ASSUME PlugInv, UNCHANGED <<plugins, installed, loose, instances, wanted>>,
           Quiet => Quiet',
           \A c \in Calls : /\ call'[c].pc \in {"installing", "destroying"} => call'[c] = call[c]
                            /\ call[c].pc = "destroying" => call'[c] = call[c]
    PROVE  PlugInv'
<1>1. ListInv' /\ LooseInv'
  BY DEF PlugInv, ListInv, LooseInv
<1>2. LoopInv' /\ StopInv'
  BY DEF PlugInv, LoopInv, StopInv
<1>3. \A p \in Plugins, c \in Calls : Destroying(c, p)' <=> Destroying(c, p)
  BY DEF Destroying
<1>4. InstanceInv'
  BY <1>3 DEF PlugInv, InstanceInv
<1> QED BY <1>1, <1>2, <1>4 DEF PlugInv

\* connect() goes on from position i, with `installed'` installed.
LEMMA PlugInstallFrom ==
    ASSUME TypeOK, SeqInv, PlugInv, NEW c \in Calls, call[c].pc \in {"opened", "installing"},
           NEW i \in Nat \ {0}, InstallFrom(c, i, installed'), UNCHANGED <<plugins, loose, wanted>>,
           \/ UNCHANGED <<installed, instances>>
           \/ \E p \in Plugins \ installed :
                /\ \E k \in DOMAIN plugins : plugins[k] = p
                /\ installed' = installed \cup {p}
                /\ instances' = [instances EXCEPT ![p] = @ + 1]
    PROVE  PlugInv'
<1>1. /\ wanted /\ c = calls /\ ~Quiet /\ loose = {}
      /\ \A d \in Calls : call[d].pc # "destroying" /\ (d # c => ~Running(d))
  BY DEF SeqInv, Kind, OneCall, Running, PlugInv, LooseInv, Quiet
<1>2. \A d \in Calls : d # c => call'[d] = call[d]
  BY DEF InstallFrom, Goto, TypeOK
<1>3. \/ call'[c].pc = "done"
      \/ call'[c].pc = "installing" /\ plugins[call'[c].at] \notin installed'
  <2>1. CASE call' = Goto(c, "done", 0)
    BY <2>1 DEF Goto, TypeOK
  <2>2. ASSUME NEW j \in Ahead(i, Plugins \ installed'), call' = Goto(c, "installing", j)
        PROVE  call'[c].pc = "installing" /\ plugins[call'[c].at] \notin installed'
    <3>1. plugins[j] \notin installed'
      BY DEF Ahead
    <3> QED BY <2>2, <3>1 DEF Goto, TypeOK
  <2> QED BY <2>1, <2>2 DEF InstallFrom
<1>4. ListInv' /\ LooseInv' /\ StopInv'
  BY <1>1 DEF PlugInv, ListInv, LooseInv, StopInv
<1>5. \A d \in Calls : call'[d].pc # "destroying"
  BY <1>1, <1>2, <1>3
<1>6. LoopInv'
  BY <1>1, <1>2, <1>3, <1>5 DEF LoopInv, Running
<1>7. \A p \in Plugins : instances[p] = IF p \in installed THEN 1 ELSE 0
  BY <1>1 DEF PlugInv, InstanceInv, Destroying
<1>8. \A p \in Plugins : instances'[p] = IF p \in installed' THEN 1 ELSE 0
  BY <1>7 DEF TypeOK
<1>9. InstanceInv'
  BY <1>5, <1>8 DEF InstanceInv, Destroying
<1> QED BY <1>4, <1>6, <1>9 DEF PlugInv

\* disconnect() goes on from position i: nothing before it is installed any more.
LEMMA PlugDestroyFrom ==
    ASSUME TypeOK, SeqInv, PlugInv, NEW c \in Calls, NEW i \in Nat \ {0}, DestroyFrom(c, i, installed'),
           UNCHANGED <<plugins, loose>>, ~wanted', loose = {}, installed' \subseteq installed,
           \A d \in Calls : d # c => ~Running(d), call[c].pc \notin {"opening", "closing"},
           \A k \in DOMAIN plugins : k < i => plugins[k] \notin installed',
           \A p \in Plugins : instances[p] = IF p \in installed' THEN 1 ELSE 0
    PROVE  PlugInv'
<1>1. ListInv' /\ LooseInv'
  BY DEF PlugInv, ListInv, LooseInv
<1>2. CASE Ahead(i, installed') = {} /\ CloseTransport(c) /\ UNCHANGED instances
  <2>1. opening = 0
    BY DEF SeqInv, Stage, TypeOK, Running
  <2>2. \E pc \in {"done", "closed", "closing"} : call' = Goto(c, pc, 0)
    BY <1>2, <2>1 DEF CloseTransport
  <2>3. call'[c].pc \in {"done", "closed", "closing"} /\ \A d \in Calls : d # c => call'[d] = call[d]
    BY <2>2 DEF Goto, TypeOK
  <2>4. \A d \in Calls : call'[d].pc \notin {"installing", "destroying"}
    BY <2>3 DEF Running
  <2>5. \A k \in DOMAIN plugins : plugins[k] \notin installed'
    <3> SUFFICES ASSUME NEW k \in DOMAIN plugins, plugins[k] \in installed' PROVE FALSE
      OBVIOUS
    <3>1. k \in i .. Len(plugins)
      BY DEF TypeOK
    <3> QED BY <1>2, <3>1 DEF Ahead
  <2>6. installed' = {}
    BY <2>5 DEF PlugInv, ListInv
  <2>7. LoopInv' /\ StopInv' /\ InstanceInv'
    BY <1>2, <2>4, <2>6 DEF LoopInv, StopInv, InstanceInv, Destroying
  <2> QED BY <1>1, <2>7 DEF PlugInv
<1>3. ASSUME NEW j \in Ahead(i, installed'), IsFirst(j, Ahead(i, installed')),
             call' = Goto(c, "destroying", j), instances' = [instances EXCEPT ![plugins[j]] = @ - 1]
      PROVE  PlugInv'
  <2>1. j \in DOMAIN plugins /\ j \in Nat /\ plugins[j] \in installed' /\ plugins[j] \in Plugins
    BY AheadInList
  <2>2. call'[c] = [pc |-> "destroying", at |-> j] /\ \A d \in Calls : d # c => call'[d] = call[d]
    BY <1>3 DEF Goto, TypeOK
  <2>3. \A d \in Calls : d # c => call'[d].pc \notin {"installing", "destroying"}
    BY <2>2 DEF Running
  <2>4. \A k \in DOMAIN plugins : k < j => plugins[k] \notin installed'
    <3> SUFFICES ASSUME NEW k \in DOMAIN plugins, k < j, plugins[k] \in installed' PROVE FALSE
      OBVIOUS
    <3>1. k \in i .. Len(plugins)
      BY DEF TypeOK
    <3>2. k \in Ahead(i, installed')
      BY <3>1 DEF Ahead
    <3> QED BY <1>3, <2>1, <3>1, <3>2 DEF IsFirst
  <2>5. LoopInv'
    BY <2>1, <2>2, <2>3, <2>4 DEF LoopInv
  <2>6. StopInv'
    BY <2>2 DEF StopInv
  <2>7. \A p \in Plugins : (\E d \in Calls : Destroying(d, p)') <=> p = plugins[j]
    BY <2>2, <2>3 DEF Destroying
  <2>8. InstanceInv'
    BY <1>3, <2>1, <2>7 DEF InstanceInv, TypeOK
  <2> QED BY <1>1, <2>5, <2>6, <2>8 DEF PlugInv
<1> QED BY <1>2, <1>3 DEF DestroyFrom

\* Every step keeps the invariant of the plugins.
LEMMA PlugNext == ~Overlap => (TypeOK /\ SeqInv /\ PlugInv /\ [Next]_vars => PlugInv')
<1> SUFFICES ASSUME ~Overlap, TypeOK, SeqInv, PlugInv, [Next]_vars PROVE PlugInv'
  OBVIOUS
<1>a. \A p \in Plugins : (\A c \in Calls : call[c].pc # "destroying") =>
                           instances[p] = IF p \in installed THEN 1 ELSE 0
  BY DEF PlugInv, InstanceInv, Destroying
<1>1. ASSUME NEW c \in Calls, Connect(c), Quiet, loose = {} PROVE PlugInv'
  <2>1. /\ UNCHANGED <<plugins, installed, loose, instances>> /\ wanted'
        /\ call' = Goto(c, "opening", 0) \/ call' = Goto(c, "opened", 0)
    BY <1>1 DEF Connect
  <2>2. \A d \in Calls : /\ call'[d].pc \notin {"installing", "destroying"}
                         /\ call[d].pc \notin {"installing", "destroying"}
    <3>1. \A d \in Calls : call[d].pc \notin {"installing", "destroying"}
      BY <1>1 DEF Quiet, Running
    <3>2. call'[c].pc \in {"opening", "opened"} /\ \A d \in Calls : d # c => call'[d] = call[d]
      BY <2>1 DEF Goto, TypeOK
    <3> QED BY <3>1, <3>2
  <2>3. ListInv' /\ LooseInv' /\ StopInv' /\ LoopInv'
    BY <1>1, <2>1, <2>2 DEF PlugInv, ListInv, LooseInv, StopInv, LoopInv
  <2>4. InstanceInv'
    BY <1>a, <2>1, <2>2 DEF InstanceInv, Destroying
  <2> QED BY <2>3, <2>4 DEF PlugInv
<1>2. ASSUME NEW c \in Calls, Disconnect(c), Quiet, loose = {} PROVE PlugInv'
  <2>1. \A d \in Calls : ~Running(d) /\ call[d].pc \notin {"opening", "closing", "destroying"}
    BY <1>2 DEF Quiet, Running
  <2>2. DestroyFrom(c, 1, installed') /\ UNCHANGED <<plugins, installed, loose>> /\ ~wanted'
    BY <1>2 DEF Disconnect
  <2>3. \A p \in Plugins : instances[p] = IF p \in installed' THEN 1 ELSE 0
    BY <1>a, <2>1, <2>2
  <2>4. \A k \in DOMAIN plugins : k < 1 => plugins[k] \notin installed'
    BY DEF TypeOK
  <2> QED BY <1>2, <2>1, <2>2, <2>3, <2>4, PlugDestroyFrom
<1>3. ASSUME NEW p \in Late, Use(p), Quiet, loose = {} PROVE PlugInv'
  <2>1. /\ \A i \in DOMAIN plugins : plugins[i] # p
        /\ plugins' = Append(plugins, p) /\ UNCHANGED <<installed, instances, call, wanted>>
        /\ loose' = {} \/ (loose' = {p} /\ engine = "connected")
    BY <1>3 DEF Use
  <2>2. /\ DOMAIN plugins' = DOMAIN plugins \cup {Len(plugins) + 1}
        /\ plugins'[Len(plugins) + 1] = p /\ \A i \in DOMAIN plugins : plugins'[i] = plugins[i]
    BY <2>1 DEF TypeOK
  <2>3. engine = "connected" => wanted
    BY <1>3 DEF SeqInv, StoppedIsClosed, TypeOK
  <2>4. ListInv'
    BY <2>1, <2>2 DEF PlugInv, ListInv
  <2>5. p \notin installed
    BY <2>1 DEF PlugInv, ListInv
  <2>6. LooseInv'
    BY <1>3, <2>1, <2>3, <2>5 DEF LooseInv, Quiet, Running
  <2>7. \A c \in Calls : call[c].pc \notin {"installing", "destroying"}
    BY <1>3 DEF Quiet, Running
  <2>8. LoopInv' /\ StopInv'
    BY <2>1, <2>7 DEF PlugInv, LoopInv, StopInv
  <2>9. InstanceInv'
    BY <1>a, <2>1, <2>7 DEF InstanceInv, Destroying
  <2> QED BY <2>4, <2>6, <2>8, <2>9 DEF PlugInv
<1>4. ASSUME NEW c \in Calls, ConnectOpened(c) PROVE PlugInv'
  <2>1. call[c].pc = "opened" /\ InstallFrom(c, 1, installed')
        /\ UNCHANGED <<plugins, installed, loose, instances, wanted>>
    BY <1>4 DEF ConnectOpened
  <2> QED BY <2>1, PlugInstallFrom
<1>5. ASSUME NEW c \in Calls, PluginInstalled(c) \/ PluginInstallFails(c) PROVE PlugInv'
  <2>1. /\ call[c].pc = "installing" /\ InstallFrom(c, call[c].at + 1, installed')
        /\ UNCHANGED <<plugins, loose, wanted>> /\ call[c].at \in DOMAIN plugins /\ call[c].at \in Nat
    BY <1>5 DEF PluginInstalled, PluginInstallFails, TypeOK
  <2>2. plugins[call[c].at] \in Plugins \ installed
    BY <2>1 DEF PlugInv, LoopInv, TypeOK
  <2>3. \/ UNCHANGED <<installed, instances>>
        \/ \E p \in Plugins \ installed :
             /\ \E k \in DOMAIN plugins : plugins[k] = p
             /\ installed' = installed \cup {p}
             /\ instances' = [instances EXCEPT ![p] = @ + 1]
    BY <1>5, <2>1, <2>2 DEF PluginInstalled, PluginInstallFails
  <2> QED BY <2>1, <2>3, PlugInstallFrom
<1>6. ASSUME NEW c \in Calls, PluginDestroyed(c) PROVE PlugInv'
  <2> DEFINE j == call[c].at
  <2>1. /\ call[c].pc = "destroying" /\ installed' = installed \ {plugins[j]}
        /\ DestroyFrom(c, j + 1, installed') /\ UNCHANGED <<plugins, loose, wanted>>
        /\ j \in DOMAIN plugins /\ j \in Nat
    BY <1>6 DEF PluginDestroyed, TypeOK
  <2>2. ~wanted /\ c = calls /\ loose = {} /\ \A d \in Calls : d # c => ~Running(d)
    BY <2>1 DEF SeqInv, Kind, OneCall, Running, PlugInv, LooseInv, Quiet
  <2>3. \A p \in Plugins : (\E d \in Calls : Destroying(d, p)) <=> p = plugins[j]
    BY <2>1, <2>2 DEF Destroying, Running
  <2>4. \A p \in Plugins : instances[p] = IF p \in installed' THEN 1 ELSE 0
    BY <2>1, <2>3 DEF PlugInv, InstanceInv
  <2>5. \A k \in DOMAIN plugins : k < j + 1 => plugins[k] \notin installed'
    BY <2>1 DEF PlugInv, LoopInv, TypeOK
  <2>6. ~wanted' /\ installed' \subseteq installed /\ call[c].pc \notin {"opening", "closing"}
        /\ j + 1 \in Nat \ {0}
    BY <2>1, <2>2
  <2> HIDE DEF j
  <2> QED BY <2>1, <2>2, <2>4, <2>5, <2>6, PlugDestroyFrom
<1>7. ASSUME NEW p \in Late, LooseInstalled(p) \/ LooseInstallFails(p) PROVE PlugInv'
  <2>1. /\ p \in loose /\ loose' = loose \ {p} /\ UNCHANGED <<plugins, call, wanted>>
        /\ \/ UNCHANGED <<installed, instances>>
           \/ installed' = installed \cup {p} /\ instances' = [instances EXCEPT ![p] = @ + 1]
    BY <1>7 DEF LooseInstalled, LooseInstallFails
  <2>2. /\ Quiet /\ wanted /\ p \notin installed
        /\ \A c \in Calls : call[c].pc \notin {"installing", "destroying"}
    BY <2>1 DEF PlugInv, LooseInv, Quiet, Running
  <2>3. ListInv' /\ LoopInv' /\ StopInv'
    BY <2>1, <2>2 DEF PlugInv, ListInv, LoopInv, StopInv
  <2>4. LooseInv'
    BY <2>1, <2>2 DEF PlugInv, LooseInv, Quiet, Running
  <2>5. \A q \in Plugins : instances'[q] = IF q \in installed' THEN 1 ELSE 0
    BY <1>a, <2>1, <2>2 DEF TypeOK
  <2>6. InstanceInv'
    BY <2>1, <2>2, <2>5 DEF InstanceInv, Destroying
  <2> QED BY <2>3, <2>4, <2>6 DEF PlugInv
<1>8. ASSUME NEW c \in Calls, ConnectRefused(c) \/ Disconnected(c) PROVE PlugInv'
  <2>1. /\ call[c].pc \in {"refused", "closed"} /\ call' = Goto(c, "done", 0)
        /\ UNCHANGED <<plugins, installed, loose, instances, wanted>>
    BY <1>8 DEF ConnectRefused, Disconnected
  <2>2. call'[c].pc = "done" /\ \A d \in Calls : d # c => call'[d] = call[d]
    BY <2>1 DEF Goto, TypeOK
  <2>3. ~Quiet
    BY <2>1 DEF Quiet, Running
  <2> QED BY <2>1, <2>2, <2>3, PlugStays
<1>9. ASSUME TransportOpens \/ TransportRefuses PROVE PlugInv'
  <2>1. /\ UNCHANGED <<plugins, installed, loose, instances, wanted>>
        /\ \/ opening = 0 /\ UNCHANGED call
           \/ opening # 0 /\ \E pc \in {"opened", "refused"} : call' = Goto(opening, pc, 0)
    BY <1>9 DEF TransportOpens, TransportRefuses
  <2>2. CASE UNCHANGED call
    BY <2>1, <2>2, PlugStays DEF Quiet, Running
  <2>3. ASSUME opening # 0, NEW pc \in {"opened", "refused"}, call' = Goto(opening, pc, 0) PROVE PlugInv'
    <3>1. opening \in Calls /\ call[opening].pc = "opening" /\ ~Quiet
      BY <2>3 DEF TypeOK, SeqInv, Stage, Quiet, Running
    <3>2. call'[opening].pc = pc /\ \A d \in Calls : d # opening => call'[d] = call[d]
      BY <2>3, <3>1 DEF Goto, TypeOK
    <3> QED BY <2>1, <3>1, <3>2, PlugStays
  <2> QED BY <2>1, <2>2, <2>3
<1>10. ASSUME TransportDrops \/ UNCHANGED vars PROVE PlugInv'
  <2>1. UNCHANGED <<plugins, installed, loose, instances, wanted, call>>
    BY <1>10 DEF TransportDrops, vars
  <2> QED BY <2>1, PlugStays DEF Quiet, Running
<1>11. ASSUME TransportCloses PROVE PlugInv'
  <2>1. /\ UNCHANGED <<plugins, installed, loose, instances, wanted>>
        /\ \A c \in Calls : call'[c] = IF call[c].pc = "closing" THEN [pc |-> "closed", at |-> 0] ELSE call[c]
    BY <1>11 DEF TransportCloses
  <2> QED BY <2>1, PlugStays DEF Quiet, Running
<1> QED
  BY <1>1, <1>2, <1>3, <1>4, <1>5, <1>6, <1>7, <1>8, <1>9, <1>10, <1>11
     DEF Next, Application, MayCall, Runtime, Continue, Transport

\* Its disconnect() leaves no plugin installed, and every destroy() follows an install() of
\* its own: for any list of plugins, with use() at any time and failing installs.
THEOREM DisconnectUninstalls ==
    ASSUME ~Overlap
    PROVE  Spec => []StoppedIsUninstalled
<1>1. Init => PlugInv
  BY PlugInit
<1>2. (TypeOK /\ SeqInv) /\ PlugInv /\ [Next]_vars => PlugInv'
  BY PlugNext
<1>3. PlugInv => StoppedIsUninstalled
  <2>1. PlugInv /\ Quiet /\ ~wanted => installed = {} /\ \A p \in Plugins : instances[p] = 0
    BY DEF PlugInv, StopInv, InstanceInv, Quiet, Running
  <2>2. PlugInv => \A p \in Plugins : instances[p] \in {0, 1}
    BY DEF PlugInv, InstanceInv
  <2> QED BY <2>1, <2>2 DEF StoppedIsUninstalled
<1> QED
  BY <1>1, <1>2, <1>3, SeqCorrect, PTL DEF Spec

-------------------------------------------------------------------------------
(* ChatProvider *)

ProviderTypes ==
    /\ awaited \in {0} \cup Calls /\ disconnectRef \in {0} \cup Calls /\ connecting \in {0} \cup Calls
    /\ mounted \in BOOLEAN /\ reported \in BOOLEAN /\ hasty \in BOOLEAN

\* Which call was the last one, as the effect sees it.
EffectInv ==
    /\ mounted /\ awaited = 0 <=> wanted
    /\ wanted => connecting = calls /\ calls # 0 /\ disconnectRef = 0
    /\ awaited # 0 => mounted /\ awaited = calls
    /\ disconnectRef # 0 => disconnectRef = calls
    /\ ~wanted /\ disconnectRef = 0 => Quiet

\* A connect() that has not been refused is connected, until the connection is lost.
ConnectInv ==
    wanted /\ drops = 0 =>
        call[calls].pc \in {"opening", "refused"} \/ transport = "connected" \/ reported

ProviderInv ==
    /\ TypeOK /\ ProviderTypes
    /\ ~hasty => SeqInv /\ EffectInv /\ ConnectInv

\* The effect calls connect() when nothing runs, and the engine is disconnected.
LEMMA ConnectsAfresh ==
    ASSUME ProviderInv, ~hasty, Quiet, ~wanted, ConnectEngine
    PROVE  /\ TypeOK' /\ SeqInv' /\ wanted' /\ calls' \in Calls /\ connecting' = calls'
           /\ call'[calls'].pc = "opening" /\ drops' = drops
<1>1. TypeOK /\ SeqInv BY DEF ProviderInv
<1>2. engine = "disconnected" /\ transport = "disconnected" BY <1>1 DEF SeqInv, StoppedIsClosed
<1>3. Connect(calls + 1) /\ connecting' = calls + 1 BY <1>2 DEF ConnectEngine
<1>4. calls + 1 \in Calls BY <1>1, <1>3 DEF TypeOK, Connect, Calls
<1>5. TypeOK' BY <1>1, <1>3, <1>4, TypeStep DEF EngineStep
<1>6. SeqInv' BY <1>1, <1>3, <1>4, SeqStep
<1>7. calls' = calls + 1 /\ wanted' /\ drops' = drops
  <2>1. calls' = calls + 1 /\ wanted' = TRUE /\ drops' = drops BY <1>3 DEF Connect
  <2> QED BY <2>1, Zenon
<1>8. call' = Goto(calls + 1, "opening", 0) BY <1>2, <1>3 DEF Connect
<1>9. call'[calls + 1].pc = "opening" BY <1>1, <1>4, <1>8 DEF Goto, TypeOK
<1> QED BY <1>3, <1>4, <1>5, <1>6, <1>7, <1>9

\* The effect's connect() keeps the engine's types.
LEMMA ConnectEngineTypes ==
    ASSUME TypeOK, ConnectEngine
    PROVE  TypeOK' /\ connecting' \in {0} \cup Calls
<1>1. CASE Connect(calls + 1) /\ connecting' = calls + 1
  <2>1. calls + 1 \in Calls BY <1>1 DEF TypeOK, Connect, Calls
  <2> QED BY <1>1, <2>1, TypeStep DEF EngineStep
<1>2. CASE connecting' = 0 /\ UNCHANGED vars BY <1>2, TypeStep
<1> QED BY <1>1, <1>2 DEF ConnectEngine

\* A step that leaves the engine alone.
LEMMA EngineStays ==
    ASSUME TypeOK, UNCHANGED vars
    PROVE  TypeOK' /\ (SeqInv => SeqInv')
<1>1. TypeOK' BY TypeStep
<1>2. ASSUME SeqInv PROVE SeqInv' BY <1>2, SeqStep
<1> QED BY <1>1, <1>2

\* The effect runs: it connects, or waits for the last disconnect().
LEMMA MountKeeps == ASSUME ProviderInv, Mount PROVE ProviderInv'
<1>1. TypeOK /\ ProviderTypes BY DEF ProviderInv
<1>2. /\ ~mounted /\ mounted' = TRUE /\ reported' = FALSE /\ awaited' = disconnectRef
      /\ UNCHANGED <<disconnectRef, hasty>>
  BY DEF Mount
<1>3. CASE disconnectRef = 0 /\ ConnectEngine
  <2>1. TypeOK' /\ connecting' \in {0} \cup Calls BY <1>1, <1>3, ConnectEngineTypes
  <2>2. ProviderTypes' BY <1>1, <1>2, <2>1 DEF ProviderTypes, Calls
  <2>3. ASSUME ~hasty PROVE SeqInv' /\ EffectInv' /\ ConnectInv'
    <3>1. ~wanted /\ Quiet BY <1>2, <1>3, <2>3 DEF ProviderInv, EffectInv
    <3>2. /\ SeqInv' /\ wanted' /\ calls' \in Calls /\ connecting' = calls'
          /\ call'[calls'].pc = "opening"
      BY <3>1, <1>3, <2>3, ConnectsAfresh
    <3>3. calls' # 0 BY <3>2 DEF Calls
    <3>4. EffectInv' BY <1>2, <1>3, <3>2, <3>3 DEF EffectInv
    <3>5. ConnectInv' BY <3>2 DEF ConnectInv
    <3> QED BY <3>2, <3>4, <3>5
  <2> QED BY <1>2, <2>1, <2>2, <2>3 DEF ProviderInv
<1>4. CASE disconnectRef # 0 /\ connecting' = 0 /\ UNCHANGED vars
  <2>1. TypeOK' /\ (SeqInv => SeqInv') BY <1>1, <1>4, EngineStays
  <2>2. ProviderTypes' BY <1>1, <1>2, <1>4 DEF ProviderTypes, Calls
  <2>3. ASSUME ~hasty PROVE EffectInv' /\ ConnectInv'
    <3>1. EffectInv /\ ~wanted BY <1>2, <2>3 DEF ProviderInv, EffectInv
    <3>2. UNCHANGED <<wanted, calls>> BY <1>4 DEF vars
    <3> QED BY <1>2, <1>4, <3>1, <3>2 DEF EffectInv, ConnectInv
  <2> QED BY <1>2, <2>1, <2>2, <2>3 DEF ProviderInv
<1> QED BY <1>3, <1>4 DEF Mount

\* The awaited disconnect() has settled: the effect connects.
LEMMA ResumeKeeps == ASSUME ProviderInv, Resume PROVE ProviderInv'
<1>1. TypeOK /\ ProviderTypes BY DEF ProviderInv
<1>2. /\ awaited # 0 /\ disconnectRef # awaited /\ awaited' = 0 /\ ConnectEngine
      /\ UNCHANGED <<mounted, mounts, disconnectRef, reported, hasty>>
  BY DEF Resume
<1>3. TypeOK' /\ connecting' \in {0} \cup Calls BY <1>1, <1>2, ConnectEngineTypes
<1>4. ProviderTypes' BY <1>1, <1>2, <1>3 DEF ProviderTypes, Calls
<1>5. ASSUME ~hasty PROVE SeqInv' /\ EffectInv' /\ ConnectInv'
  <2>1. EffectInv BY <1>5 DEF ProviderInv
  <2>2. ~wanted /\ disconnectRef = 0 /\ Quiet BY <1>2, <2>1 DEF EffectInv
  <2>3. /\ SeqInv' /\ wanted' /\ calls' \in Calls /\ connecting' = calls'
        /\ call'[calls'].pc = "opening"
    BY <2>2, <1>2, <1>5, ConnectsAfresh
  <2>4. calls' # 0 BY <2>3 DEF Calls
  <2>5. mounted BY <1>2, <2>1 DEF EffectInv
  <2>6. EffectInv' BY <1>2, <2>2, <2>3, <2>4, <2>5 DEF EffectInv
  <2>7. ConnectInv' BY <2>3 DEF ConnectInv
  <2> QED BY <2>3, <2>6, <2>7
<1> QED BY <1>2, <1>3, <1>4, <1>5 DEF ProviderInv

\* The effect's cleanup disconnects.
LEMMA UnmountKeeps == ASSUME ProviderInv, Unmount PROVE ProviderInv'
<1>1. TypeOK /\ ProviderTypes BY DEF ProviderInv
<1>2. /\ hasty' = (hasty \/ ~Settled) /\ mounted' = FALSE /\ awaited' = 0 /\ connecting' = 0
      /\ Disconnect(calls + 1) /\ disconnectRef' = calls + 1 /\ reported' = reported
  BY DEF Unmount
<1>3. calls + 1 \in Calls BY <1>1, <1>2 DEF TypeOK, Disconnect, Calls
<1>4. TypeOK' BY <1>1, <1>2, <1>3, TypeStep DEF EngineStep
<1>5. ProviderTypes' BY <1>1, <1>2, <1>3 DEF ProviderTypes, Calls
<1>6. ASSUME ~hasty' PROVE SeqInv' /\ EffectInv' /\ ConnectInv'
  <2>1. ~hasty /\ Quiet BY <1>2, <1>6 DEF Settled
  <2>2. SeqInv' BY <1>1, <1>2, <1>3, <2>1, SeqStep DEF ProviderInv
  <2>3. calls' = calls + 1 /\ ~wanted'
    <3>1. calls' = calls + 1 /\ wanted' = FALSE BY <1>2 DEF Disconnect
    <3> QED BY <3>1, Zenon
  <2>4. calls + 1 # 0 BY <1>3 DEF Calls
  <2>5. EffectInv' BY <1>2, <2>3, <2>4 DEF EffectInv
  <2>6. ConnectInv' BY <2>3 DEF ConnectInv
  <2> QED BY <2>2, <2>5, <2>6
<1> QED BY <1>4, <1>5, <1>6 DEF ProviderInv

\* A disconnect() settles and is forgotten, if it is the last one.
LEMMA SettledKeeps == ASSUME ProviderInv, DisconnectSettled PROVE ProviderInv'
<1>1. TypeOK /\ ProviderTypes BY DEF ProviderInv
<1>2. /\ disconnectRef # 0 /\ call[disconnectRef].pc = "done" /\ disconnectRef' = 0
      /\ UNCHANGED <<vars, mounted, mounts, awaited, connecting, reported, hasty>>
  BY DEF DisconnectSettled
<1>3. TypeOK' /\ (SeqInv => SeqInv') BY <1>1, <1>2, EngineStays
<1>4. ProviderTypes' BY <1>1, <1>2 DEF ProviderTypes, Calls
<1>5. ASSUME ~hasty PROVE EffectInv' /\ ConnectInv'
  <2>1. SeqInv /\ EffectInv /\ ConnectInv BY <1>5 DEF ProviderInv
  <2>2. UNCHANGED <<wanted, calls, drops, call, transport>> BY <1>2 DEF vars
  <2>3. Quiet' BY <1>2, <2>1, <2>2 DEF EffectInv, SeqInv, OneCall, Quiet, Running
  <2>4. EffectInv' BY <1>2, <2>1, <2>2, <2>3 DEF EffectInv
  <2>5. ConnectInv' BY <1>2, <2>1, <2>2 DEF ConnectInv
  <2> QED BY <2>4, <2>5
<1> QED BY <1>2, <1>3, <1>4, <1>5 DEF ProviderInv

\* When no call runs the engine's steps start none.
LEMMA RuntimeKeepsQuiet ==
    ASSUME TypeOK, SeqInv, Quiet, Runtime
    PROVE  Quiet'
<1>1. opening = 0 /\ transport \notin {"connecting", "disconnecting"}
  BY DEF Quiet, Running, SeqInv, Stage, InFlight, TypeOK
<1>2. \A c \in Calls : ~Continue(c)
  BY DEF Quiet, Running, Continue, ConnectOpened, ConnectRefused, PluginInstalled, PluginInstallFails,
         PluginDestroyed, Disconnected
<1>3. call' = call
  BY <1>1, <1>2 DEF Runtime, LooseInstalled, LooseInstallFails, Transport, TransportOpens,
                    TransportRefuses, TransportCloses, TransportDrops
<1> QED BY <1>3 DEF Quiet, Running

\* The engine's steps leave the counts of calls alone.
LEMMA RuntimeFrame ==
    ASSUME Runtime
    PROVE  UNCHANGED <<calls, wanted>> /\ (drops' = drops \/ TransportDrops)
<1>1. CASE \E c \in Calls : Continue(c)
  BY <1>1 DEF Continue, ConnectOpened, ConnectRefused, PluginInstalled, PluginInstallFails,
              PluginDestroyed, Disconnected
<1>2. CASE \E p \in Late : LooseInstalled(p) \/ LooseInstallFails(p)
  BY <1>2 DEF LooseInstalled, LooseInstallFails
<1>3. CASE Transport
  BY <1>3 DEF Transport, TransportOpens, TransportRefuses, TransportCloses
<1>4. CASE TransportDrops
  BY <1>4 DEF TransportDrops
<1> QED BY <1>1, <1>2, <1>3, <1>4 DEF Runtime

\* The engine's steps follow the stages of its last call.
LEMMA RunsKeepConnectInv ==
    ASSUME ProviderInv, ~hasty, EngineRuns
    PROVE  ConnectInv'
<1>1. TypeOK /\ SeqInv /\ EffectInv /\ ConnectInv BY DEF ProviderInv
<1>2. /\ Runtime /\ reported' = (reported \/ (connecting # 0 /\ ConnectRefused(connecting)))
      /\ UNCHANGED <<calls, wanted>> /\ (drops' = drops \/ TransportDrops)
  BY RuntimeFrame DEF EngineRuns
<1> SUFFICES ASSUME wanted, drops' = 0
             PROVE  call'[calls].pc \in {"opening", "refused"} \/ transport' = "connected" \/ reported'
  BY <1>2 DEF ConnectInv
<1>3. drops = 0 /\ ~TransportDrops
  <2>1. TransportDrops => drops' = drops + 1 BY DEF TransportDrops
  <2>2. drops \in Nat BY <1>1 DEF TypeOK
  <2> QED BY <1>2, <2>1, <2>2
<1>4. connecting = calls /\ calls \in Calls BY <1>1 DEF EffectInv, TypeOK, Calls
<1>5. call[calls].pc \in {"opening", "refused"} \/ transport = "connected" \/ reported
  BY <1>1, <1>3 DEF ConnectInv
<1>6. CASE reported BY <1>2, <1>6
<1>7. CASE \E c \in Calls : Continue(c)
  <2>1. PICK c \in Calls : Continue(c) BY <1>7
  <2>2. Running(c)
    BY <2>1 DEF Continue, ConnectOpened, ConnectRefused, PluginInstalled, PluginInstallFails,
                PluginDestroyed, Disconnected, Running
  <2>3. c = calls BY <1>1, <2>2 DEF SeqInv, OneCall
  <2>4. CASE ConnectRefused(c)
    <3>1. connecting = c /\ connecting # 0 BY <2>3, <1>4 DEF Calls
    <3>2. connecting # 0 /\ ConnectRefused(connecting) BY <3>1, <2>4, Zenon
    <3> QED BY <3>2, <1>2, Zenon
  <2>5. CASE ConnectOpened(c) \/ PluginInstalled(c) \/ PluginInstallFails(c)
    <3>1. call[calls].pc \in {"opened", "installing"} /\ transport' = transport
      BY <2>3, <2>5 DEF ConnectOpened, PluginInstalled, PluginInstallFails
    <3> QED BY <3>1, <1>5, <1>6
  <2>6. CASE PluginDestroyed(c) \/ Disconnected(c)
    <3>1. call[c].pc \in {"destroying", "closed"} BY <2>6 DEF PluginDestroyed, Disconnected
    <3> QED BY <3>1, <1>1 DEF SeqInv, Kind
  <2> QED BY <2>1, <2>4, <2>5, <2>6 DEF Continue
<1>8. CASE \E p \in Late : LooseInstalled(p) \/ LooseInstallFails(p)
  BY <1>5, <1>6, <1>8 DEF LooseInstalled, LooseInstallFails
<1>9. CASE TransportOpens BY <1>9 DEF TransportOpens, Notify
<1>10. CASE TransportRefuses
  <2>1. PICK c \in Calls : call[c].pc = "opening" BY <1>1, <1>10 DEF TransportRefuses, SeqInv, InFlight
  <2>2. opening = c /\ c = calls BY <1>1, <2>1 DEF SeqInv, Stage, OneCall, Running
  <2>3. call' = Goto(calls, "refused", 0) BY <1>10, <2>2 DEF TransportRefuses, Calls
  <2>4. call'[calls].pc = "refused" BY <2>3, <1>1, <1>4 DEF Goto, TypeOK
  <2> QED BY <2>4
<1>11. CASE TransportCloses
  <2>1. PICK c \in Calls : call[c].pc = "closing" BY <1>1, <1>11 DEF TransportCloses, SeqInv, InFlight
  <2> QED BY <2>1, <1>1 DEF SeqInv, Kind
<1> QED BY <1>2, <1>3, <1>7, <1>8, <1>9, <1>10, <1>11 DEF Runtime, Transport

\* The engine's and the transport's own steps.
LEMMA RunsKeep == ASSUME ProviderInv, EngineRuns PROVE ProviderInv'
<1>1. TypeOK /\ ProviderTypes BY DEF ProviderInv
<1>2. /\ Runtime /\ reported' \in BOOLEAN /\ UNCHANGED <<calls, wanted>>
      /\ UNCHANGED <<mounted, mounts, awaited, disconnectRef, connecting, hasty>>
  BY RuntimeFrame DEF EngineRuns
<1>3. TypeOK' BY <1>1, <1>2, TypeStep DEF EngineStep
<1>4. ProviderTypes' BY <1>1, <1>2 DEF ProviderTypes, Calls
<1>5. ASSUME ~hasty PROVE SeqInv' /\ EffectInv' /\ ConnectInv'
  <2>1. SeqInv /\ EffectInv BY <1>5 DEF ProviderInv
  <2>2. SeqInv' BY <1>1, <1>2, <2>1, SeqStep
  <2>3. Quiet => Quiet' BY <1>1, <1>2, <2>1, RuntimeKeepsQuiet
  <2>4. EffectInv' BY <1>2, <2>1, <2>3 DEF EffectInv
  <2>5. ConnectInv' BY <1>5, RunsKeepConnectInv
  <2> QED BY <2>2, <2>4, <2>5
<1> QED BY <1>2, <1>3, <1>4, <1>5 DEF ProviderInv

\* The invariant holds before the first mount.
LEMMA ProviderInitially == ProviderInit => ProviderInv
<1> SUFFICES ASSUME ProviderInit PROVE ProviderInv OBVIOUS
<1>1. TypeOK /\ SeqInv BY TypeInit, SeqInit DEF ProviderInit
<1>2. /\ mounted = FALSE /\ awaited = 0 /\ disconnectRef = 0 /\ connecting = 0
      /\ reported = FALSE /\ hasty = FALSE
  BY DEF ProviderInit
<1>3. ProviderTypes BY <1>2 DEF ProviderTypes
<1>4. ~wanted
  <2>1. wanted = FALSE BY DEF ProviderInit, Init
  <2> QED BY <2>1, Zenon
<1>5. Quiet BY DEF ProviderInit, Init, Quiet, Running
<1>6. EffectInv /\ ConnectInv BY <1>2, <1>4, <1>5 DEF EffectInv, ConnectInv
<1> QED BY <1>1, <1>3, <1>6 DEF ProviderInv

\* Every step of the provider keeps the invariant.
LEMMA ProviderStep == ProviderInv /\ [ProviderNext]_allVars => ProviderInv'
<1> SUFFICES ASSUME ProviderInv, [ProviderNext]_allVars PROVE ProviderInv' OBVIOUS
<1>1. CASE UNCHANGED allVars
  <2>1. UNCHANGED vars /\ UNCHANGED providerVars BY <1>1 DEF allVars
  <2>2. TypeOK' /\ (SeqInv => SeqInv') BY <2>1, EngineStays DEF ProviderInv
  <2>3. ProviderTypes' BY <2>1 DEF ProviderInv, ProviderTypes, providerVars
  <2>4. EffectInv => EffectInv'
    BY <2>1 DEF EffectInv, providerVars, vars, Quiet, Running
  <2>5. ConnectInv => ConnectInv' BY <2>1 DEF ConnectInv, providerVars, vars
  <2>6. hasty' = hasty BY <2>1 DEF providerVars
  <2> QED BY <2>2, <2>3, <2>4, <2>5, <2>6 DEF ProviderInv
<1> QED BY <1>1, MountKeeps, ResumeKeeps, UnmountKeeps, SettledKeeps, RunsKeep, Zenon DEF ProviderNext

\* ChatProvider.tsx: as long as no unmount came before engine and effect had settled, the engine
\* comes to rest as the provider is mounted (connected, but for an error that was reported or a lost
\* connection; or with its transport closed), and 'connected' means a transport that is; for any
\* number of mounts.
THEOREM ProviderConnects == ProviderSpec => []ConnectedAsMounted
<1>1. ProviderInv => ConnectedAsMounted
  <2> SUFFICES ASSUME ProviderInv, ~hasty PROVE ConnectedAsMounted
    BY DEF ConnectedAsMounted, SettledAsMounted, ConnectedIsOpen
  <2>1. TypeOK /\ SeqInv /\ EffectInv /\ ConnectInv BY DEF ProviderInv
  <2>2. engine = transport BY <2>1 DEF SeqInv, EngineMirrorsTransport
  <2>3. ASSUME Settled, mounted, drops = 0 PROVE engine = "connected" \/ reported
    <3>1. wanted /\ calls \in Calls BY <2>1, <2>3 DEF Settled, EffectInv, TypeOK, Calls
    <3>2. call[calls].pc \notin {"opening", "refused"} BY <2>3, <3>1 DEF Settled, Quiet, Running
    <3> QED BY <2>1, <2>2, <2>3, <3>1, <3>2 DEF ConnectInv
  <2>4. ASSUME Settled, ~mounted PROVE transport = "disconnected"
    BY <2>1, <2>4 DEF Settled, EffectInv, SeqInv, StoppedIsClosed
  <2> QED BY <2>2, <2>3, <2>4 DEF ConnectedAsMounted, SettledAsMounted, ConnectedIsOpen
<1> QED BY <1>1, ProviderInitially, ProviderStep, PTL DEF ProviderSpec

===============================================================================
