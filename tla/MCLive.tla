-------------------------------- MODULE MCLive ----------------------------------
(***************************************************************************)
(* ChatProvider over its engine, the DIT transport and the bridge of the   *)
(* WebSocket demo, checked side by side with their fairness: every         *)
(* behaviour is one of a single part, so their state spaces add up.        *)
(***************************************************************************)
EXTENDS ChatProvider, DitTransport, DemoSocketBridge

CONSTANT p1

VARIABLE part

\* One plugin, given to the engine's constructor.
MCConfigured == <<p1>>

LiveInit ==
    /\ part \in {"provider", "transport", "bridge"}
    /\ ProviderInit /\ DitInit /\ BridgeInit
    /\ part # "transport" => room = 0

LiveNext ==
    /\ UNCHANGED part
    /\ \/ part = "provider" /\ ProviderNext /\ UNCHANGED <<ditVars, bridgeVars>>
       \/ part = "transport" /\ DitNext /\ UNCHANGED <<allVars, bridgeVars>>
       \/ part = "bridge" /\ BridgeNext /\ UNCHANGED <<allVars, ditVars>>

LiveSpec ==
    /\ LiveInit /\ [][LiveNext]_<<part, allVars, ditVars, bridgeVars>>
    /\ PollingFairness /\ BridgeFairness
===============================================================================
