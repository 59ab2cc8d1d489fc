--------------------------- MODULE TransportContract ---------------------------
(***************************************************************************)
(* What an ITransport promises to ChatEngine: the ConnectionState it       *)
(* reports moves only along the edges the engine's own state machine       *)
(* knows, an unwanted loss of the connection is followed by reconnecting,  *)
(* and inbound events are taken in only while it reports 'connected'.  A   *)
(* subscriber that disconnects in the middle of a batch is still handed    *)
(* the rest of it, but nothing of it is left when connect() is called      *)
(* again.                                                                  *)
(***************************************************************************)
EXTENDS Naturals

VARIABLES
    state,      \* getState()
    coming,     \* events taken in that the onMessage subscribers have not been handed yet
    delivered   \* events handed to them so far

vars == <<state, coming, delivered>>

States == {"disconnected", "connecting", "connected", "reconnecting", "disconnecting"}

Init == state = "disconnected" /\ coming = 0 /\ delivered = 0

StateMoves(from, to) == state \in from /\ state' \in to /\ UNCHANGED <<coming, delivered>>

Connect    == coming = 0 /\ StateMoves({"disconnected"}, {"connecting"})
Open       == StateMoves({"connecting", "reconnecting"}, {"connected"})
Refuse     == StateMoves({"connecting"}, {"disconnected"})
Lose       == StateMoves({"connected"}, {"reconnecting", "disconnected"})
Disconnect == StateMoves({"connecting", "connected", "reconnecting"}, {"disconnecting"})
Close      == StateMoves({"disconnecting"}, {"disconnected"})

\* A batch that arrives may end a reconnection by itself.
Receive ==
    /\ state \in {"connected", "reconnecting"} /\ state' = "connected"
    /\ coming = 0 /\ coming' \in Nat
    /\ UNCHANGED delivered

Deliver == coming > 0 /\ coming' = coming - 1 /\ delivered' = delivered + 1 /\ UNCHANGED state

Next == Connect \/ Open \/ Refuse \/ Lose \/ Disconnect \/ Close \/ Receive \/ Deliver

Spec == Init /\ [][Next]_vars

\* disconnect() settles: whoever waits for 'disconnected' sees it.
CloseSettles == state = "disconnecting" ~> state = "disconnected"
===============================================================================
