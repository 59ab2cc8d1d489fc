---------------------------- MODULE DemoSocketBridge ----------------------------
(***************************************************************************)
(* The WebSocket demo's server: for each socket a bridge that fetches the  *)
(* conversation and its events over HTTP, then polls for more and sends    *)
(* them on.  The events of the conversation are numbered.                  *)
(***************************************************************************)
EXTENDS Integers, Sequences

CONSTANTS
    Sockets,
    MaxPublished, MaxBreaks  \* bounds: events, and things that go wrong

ASSUME BridgeAssumption == {MaxPublished, MaxBreaks} \subseteq Nat

VARIABLES
    published,  \* the events of the conversation so far
    listening,  \* the WebSocketServer: "no", "starting" or "yes"
    socket,     \* each socket: "none", "open", "closing" or "closed"
    bridge,     \* handleDemoWebSocketConnection() of each
    received,   \* the events each client has received
    frames,     \* history: what became of each client's frame
    early,      \* history: sockets that closed before their bridge listened
    breaks

bridgeVars == <<published, listening, socket, bridge, received, frames, early, breaks>>

\* stage: where it awaits; answer: the events a fetch has read; nextCursor, pollTimer and
\* closed as in the code; tracked: is the socket in the registry?
NewBridge == [stage |-> "none", answer |-> 0, nextCursor |-> 0, pollTimer |-> FALSE,
              closed |-> FALSE, tracked |-> FALSE]

BridgeInit ==
    /\ published = 0 /\ listening = "no" /\ early = {} /\ breaks = 0
    /\ socket = [s \in Sockets |-> "none"] /\ bridge = [s \in Sockets |-> NewBridge]
    /\ received = [s \in Sockets |-> <<>>] /\ frames = [s \in Sockets |-> "none"]

Numbers(first, last) == [i \in 1 .. (last - first + 1) |-> first + i - 1]

\* sendSocketPayload(): what is sent to a socket that is not open is dropped.
SendOn(s, first, last) ==
    received' = IF socket[s] = "open" THEN [received EXCEPT ![s] = @ \o Numbers(first, last)]
                ELSE received

\* ensureDemoWebSocketServer(): callers share one attempt, and a failed one is repeated.
EnsureServer ==
    /\ \/ listening = "no" /\ listening' = "starting"
       \/ listening = "starting" /\ listening' = "yes"
       \/ listening = "starting" /\ listening' = "no" /\ breaks < MaxBreaks
    /\ breaks' = IF listening' = "no" THEN breaks + 1 ELSE breaks
    /\ UNCHANGED <<published, socket, bridge, received, frames, early>>

PublishEvent ==
    /\ published < MaxPublished /\ published' = published + 1
    /\ UNCHANGED <<listening, socket, bridge, received, frames, early, breaks>>

\* A client connects: the 'connection' event, up to fetchDemoWebSocketConversation().
ClientOpens(s) ==
    /\ listening = "yes" /\ socket[s] = "none"
    /\ socket' = [socket EXCEPT ![s] = "open"]
    /\ bridge' = [bridge EXCEPT ![s].stage = "conversation"]
    /\ UNCHANGED <<published, listening, received, frames, early, breaks>>

ConversationReturns(s) ==
    /\ bridge[s].stage = "conversation"
    /\ bridge' = [bridge EXCEPT ![s].stage = "events"]
    /\ UNCHANGED <<published, listening, socket, received, frames, early, breaks>>

\* The events route answers a fetch, with or without a cursor.
EventsAreRead(s) ==
    /\ bridge[s].stage \in {"events", "polling"}
    /\ bridge' = [bridge EXCEPT ![s].stage = IF @ = "events" THEN "snapshot" ELSE "polled",
                                ![s].answer = published]
    /\ UNCHANGED <<published, listening, socket, received, frames, early, breaks>>

\* Mutant: the cursor of the snapshot is not taken over.
Serve_NoCursor(s) ==
    /\ bridge[s].stage = "snapshot"
    /\ SendOn(s, 1, bridge[s].answer)
    /\ bridge' = [bridge EXCEPT ![s].stage = "serving", ![s].pollTimer = TRUE, ![s].tracked = TRUE]
    /\ early' = IF socket[s] = "closed" THEN early \cup {s} ELSE early
    /\ UNCHANGED <<published, listening, socket, frames, breaks>>

\* The snapshot is sent; only now does the bridge listen to its socket and poll, even
\* if the socket is closed already.
Serve(s) ==
    /\ bridge[s].stage = "snapshot"
    /\ SendOn(s, 1, bridge[s].answer)
    /\ bridge' = [bridge EXCEPT ![s].stage = "serving", ![s].nextCursor = bridge[s].answer,
                                ![s].pollTimer = TRUE, ![s].tracked = TRUE]
    /\ early' = IF socket[s] = "closed" THEN early \cup {s} ELSE early
    /\ UNCHANGED <<published, listening, socket, frames, breaks>>

PollTimerFires(s) ==
    /\ bridge[s].stage = "serving" /\ bridge[s].pollTimer
    /\ bridge' = [bridge EXCEPT ![s].pollTimer = FALSE, ![s].stage = "polling"]
    /\ UNCHANGED <<published, listening, socket, received, frames, early, breaks>>

\* Mutant: a bridge that was closed during the fetch goes on.
PollReturns_IgnoresClosed(s) ==
    /\ bridge[s].stage = "polled"
    /\ SendOn(s, bridge[s].nextCursor + 1, bridge[s].answer)
    /\ bridge' = [bridge EXCEPT ![s].stage = "serving", ![s].nextCursor = bridge[s].answer,
                                ![s].pollTimer = TRUE]
    /\ UNCHANGED <<published, listening, socket, frames, early, breaks>>

\* Mutant: the timer is armed again only when there was something to send.
PollReturns_StopsWhenEmpty(s) ==
    /\ bridge[s].stage = "polled"
    /\ SendOn(s, bridge[s].nextCursor + 1, bridge[s].answer)
    /\ bridge' = [bridge EXCEPT ![s].stage = "serving", ![s].nextCursor = bridge[s].answer,
                                ![s].pollTimer = bridge[s].answer > bridge[s].nextCursor]
    /\ UNCHANGED <<published, listening, socket, frames, early, breaks>>

\* pollForEvents() after its fetch.
PollReturns(s) ==
    /\ bridge[s].stage = "polled"
    /\ \/ /\ ~bridge[s].closed
          /\ SendOn(s, bridge[s].nextCursor + 1, bridge[s].answer)
          /\ bridge' = [bridge EXCEPT ![s].stage = "serving", ![s].nextCursor = bridge[s].answer,
                                      ![s].pollTimer = TRUE]
       \/ /\ bridge[s].closed
          /\ bridge' = [bridge EXCEPT ![s].stage = "serving"]
          /\ UNCHANGED received
    /\ UNCHANGED <<published, listening, socket, frames, early, breaks>>

\* socket.close(), unless it is closed: the 'close' event comes later.
Closing(s) == socket' = [socket EXCEPT ![s] = IF @ = "open" THEN "closing" ELSE @]

\* A fetch fails.  A bridge that was not closed closes its socket and polls no more.
FetchFails(s) ==
    /\ bridge[s].stage \in {"conversation", "events", "polling"} /\ breaks < MaxBreaks
    /\ breaks' = breaks + 1
    /\ bridge' = [bridge EXCEPT ![s].stage = IF @ = "polling" THEN "serving" ELSE "refused"]
    /\ IF bridge[s].closed THEN UNCHANGED socket ELSE Closing(s)
    /\ UNCHANGED <<published, listening, received, frames, early>>

\* cleanup().
Cleanup(b) == [b EXCEPT !.closed = TRUE, !.pollTimer = FALSE, !.tracked = FALSE]

\* The 'close' or 'error' event: nobody hears it before Serve.
SocketCloses(s) ==
    /\ \/ socket[s] = "closing" /\ UNCHANGED breaks
       \/ socket[s] = "open" /\ breaks < MaxBreaks /\ breaks' = breaks + 1
    /\ socket' = [socket EXCEPT ![s] = "closed"]
    /\ bridge' = IF bridge[s].tracked THEN [bridge EXCEPT ![s] = Cleanup(@)] ELSE bridge
    /\ UNCHANGED <<published, listening, received, frames, early>>

\* closeDemoWebSocketConnections(): the user asks for a reconnect.
CloseConnections ==
    /\ breaks < MaxBreaks /\ breaks' = breaks + 1
    /\ socket' = [s \in Sockets |-> IF bridge[s].tracked /\ socket[s] = "open" THEN "closing"
                                    ELSE socket[s]]
    /\ UNCHANGED <<published, listening, bridge, received, frames, early>>

\* A client's frame: proxied by handleDemoWebSocketClientFrame(), refused with a close,
\* or lost if the bridge does not listen yet.
ClientFrame(s) ==
    /\ socket[s] = "open" /\ frames[s] = "none"
    /\ \/ /\ bridge[s].tracked /\ frames' = [frames EXCEPT ![s] = "proxied"]
          /\ UNCHANGED <<socket, breaks>>
       \/ /\ bridge[s].tracked /\ breaks < MaxBreaks /\ breaks' = breaks + 1
          /\ frames' = [frames EXCEPT ![s] = "refused"] /\ Closing(s)
       \/ /\ ~bridge[s].tracked /\ frames' = [frames EXCEPT ![s] = "lost"]
          /\ UNCHANGED <<socket, breaks>>
    /\ UNCHANGED <<published, listening, bridge, received, early>>

BridgeStep(s) ==
    \/ ConversationReturns(s) \/ EventsAreRead(s) \/ Serve(s) \/ PollTimerFires(s)
    \/ PollReturns(s)
BridgeNext ==
    \/ EnsureServer \/ PublishEvent \/ CloseConnections
    \/ \E s \in Sockets : ClientOpens(s) \/ BridgeStep(s) \/ FetchFails(s) \/ SocketCloses(s)
                          \/ ClientFrame(s)

\* The server's timers fire and its fetches return.
BridgeFairness == \A s \in Sockets : WF_bridgeVars(BridgeStep(s))
BridgeSpec == BridgeInit /\ [][BridgeNext]_bridgeVars /\ BridgeFairness

-------------------------------------------------------------------------------
(* Properties. *)

\* What a client has received is the first events, each once and in order, whatever is
\* published while the snapshot or a poll is on its way.
ReceivesAPrefix == \A s \in Sockets : received[s] = Numbers(1, Len(received[s]))

\* No bridge works for a closed socket once its last fetch has returned, and none is
\* left in the registry, unless the socket closed before the bridge listened to it.
ClosedIsQuiet ==
    \A s \in Sockets : socket[s] = "closed" /\ s \notin early =>
        ~bridge[s].pollTimer /\ ~bridge[s].tracked

\* What is published reaches every socket that stays open.
EventsReachSockets ==
    \A s \in Sockets : socket[s] = "open" /\ published = MaxPublished
        ~> socket[s] # "open" \/ Len(received[s]) = MaxPublished
===============================================================================
