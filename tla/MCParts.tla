-------------------------------- MODULE MCParts ---------------------------------
(***************************************************************************)
(* Parts that do not act on each other's state, checked side by side:      *)
(* every behaviour is one of a single part and leaves the others as they   *)
(* are, so their state spaces add up.                                      *)
(***************************************************************************)
EXTENDS ConversationView, DitHistory, Typing, MessageStorage, DevTools, EventBus, WireFormat,
        StorageQueries, DemoApi, StreamBridge, MiddlewarePipeline

CONSTANTS a, b, m1, r1, s1, s2, h1, h2, cust, star

VARIABLE part

\* A message, another one and two streams of conversation a; b is opened and left.
MCConvOf == [x \in Ids \cup Streams |-> a]
\* localeCompare() has the first two ids the other way around.
MCLocaleRank == <<2, 1, 3>>
MCDevConversationOf == [m \in DevMessages |-> CHOOSE c \in DevConversations : TRUE]

PartsInit ==
    /\ part \in {"lists", "streams", "history", "typing", "storage", "inspector", "bus", "wire", "queries", "api", "bridge", "pipeline"}
    /\ Init /\ HistoryInit /\ TypingInit /\ StorageInit /\ DevToolsInit /\ BusInit /\ WireInit
    /\ QueryInit /\ ApiInit /\ BridgeInit /\ PipelineInit
    /\ part # "history" => room = 0
    /\ part # "storage" => database = {}
    /\ part # "inspector" => inspected = CHOOSE e \in Engines : TRUE
    /\ part # "api" => apiDemo = "media"
    /\ part # "bridge" => source.room = a /\ roomOf = [s \in BridgeStreams |-> a]
    /\ part # "wire" => setup = [storage |-> "none", transport |-> "polling"]

\* The parts p is not stay as they are.  A ConversationView is two: its messages and its
\* streams share nothing but the conversation that is shown.
Others(p) ==
    /\ part = p /\ UNCHANGED part
    /\ p \notin {"lists", "streams"} => UNCHANGED vars
    /\ p # "history" => UNCHANGED historyVars
    /\ p # "typing" => UNCHANGED typingVars
    /\ p # "storage" => UNCHANGED storageVars
    /\ p # "inspector" => UNCHANGED devVars
    /\ p # "bus" => UNCHANGED busVars
    /\ p # "wire" => UNCHANGED wireVars
    /\ p # "queries" => UNCHANGED queryVars
    /\ p # "api" => UNCHANGED apiVars
    /\ p # "bridge" => UNCHANGED bridgeVars
    /\ p # "pipeline" => UNCHANGED pipelineVars

PartsNext ==
    \/ Others("lists") /\ Next /\ UNCHANGED stream
    \/ Others("streams") /\ Next /\ UNCHANGED <<stored, sending>>
    \/ Others("history") /\ HistoryNext
    \/ Others("typing") /\ TypingNext
    \/ Others("storage") /\ StorageNext
    \/ Others("inspector") /\ DevToolsNext
    \/ Others("bus") /\ BusNext
    \/ Others("wire") /\ WireNext
    \/ Others("queries") /\ QueryNext
    \/ Others("api") /\ ApiNext
    \/ Others("bridge") /\ BridgeNext
    \/ Others("pipeline") /\ PipelineNext

PartsSpec == PartsInit /\ [][PartsNext]_<<part, vars, historyVars, typingVars, storageVars,
                                           devVars, busVars, wireVars, queryVars, apiVars, bridgeVars,
                                           pipelineVars>>
===============================================================================
