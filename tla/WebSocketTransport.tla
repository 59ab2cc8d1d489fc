--------------------------- MODULE WebSocketTransport ---------------------------
(***************************************************************************)
(* WebSocketTransport (packages/chat-transport-websocket/src/              *)
(* websocket-transport.ts): an ITransport over one socket at a time, with  *)
(* reconnection.                                                           *)
(*                                                                         *)
(* An attempt is a call of openSocket with its socket and its promise.     *)
(* `job` is synchronous code that waits for its subscribers to return; a   *)
(* rejection is handled in a microtask, before any timer or socket event.  *)
(***************************************************************************)
EXTENDS Integers, FiniteSets

CONSTANTS
    Attempts,       \* slots for attempts whose socket or promise still matters
    Reconnect,      \* config.reconnect !== false
    Reentrant,      \* the kinds of synchronous code whose subscribers may call disconnect()
    BatchMax,       \* events in one frame at most
    MaxGeneration, MaxDelivered,   \* bounds of the exploration
    None

ASSUME WebSocketAssumption ==
    /\ Reconnect \in BOOLEAN
    /\ Reentrant \subseteq {"connecting", "schedule", "batch"}
    /\ {BatchMax, MaxGeneration, MaxDelivered} \subseteq Nat
    /\ None \notin Attempts /\ None \notin Nat

VARIABLES
    state, generation,   \* state, connectionGeneration
    manualDisconnect,
    socket,              \* the attempt whose socket is this.socket, or None
    reconnectTimer,      \* the generation the armed timer belongs to, or None
    attempt,             \* attempt[a]: [phase, gen, by]
    closing,             \* the socket that disconnect() took out, or None
    job,                 \* the synchronous code on the stack
    calls,               \* calls[g]: the promise of the connect() that started generation g
    delivered            \* events handed to the onMessage subscribers

vars == <<state, generation, manualDisconnect, socket, reconnectTimer, attempt, closing, job,
          calls, delivered>>

Generations  == 1..MaxGeneration
NoJob        == [kind |-> "none", gen |-> 0, left |-> 0]
Job(k, g, n) == [kind |-> k, gen |-> g, left |-> n]

\* connecting: the promise is pending; open: it was resolved; rejecting: it was rejected and
\* the caller has not run yet.
Free == [phase |-> "free", gen |-> 0, by |-> "connect"]

IsCurrent(g)       == g = generation
IsCurrentSocket(a) == a = socket /\ IsCurrent(attempt[a].gen)

Init ==
    /\ state = "disconnected" /\ generation = 0 /\ manualDisconnect = FALSE
    /\ socket = None /\ reconnectTimer = None /\ closing = None
    /\ attempt = [a \in Attempts |-> Free]
    /\ job = NoJob
    /\ calls = [g \in Generations |-> "none"]
    /\ delivered = 0

Closing    == state = "disconnecting"
Quiet      == job = NoJob /\ ~Closing
\* No microtask is queued either: a timer or a socket may call back.
TaskStarts == Quiet /\ \A a \in Attempts : attempt[a].phase # "rejecting"

\* openSocket(g): createSocket throws, or its socket becomes this.socket.
OpenSocket(g, by) ==
    \E a \in Attempts :
        /\ attempt[a] = Free
        /\ \/ /\ attempt' = [attempt EXCEPT ![a] = [phase |-> "connecting", gen |-> g, by |-> by]]
              /\ socket' = a
           \/ /\ attempt' = [attempt EXCEPT ![a] = [phase |-> "rejecting", gen |-> g, by |-> by]]
              /\ UNCHANGED socket

\* rejectOnce
Reject(a) ==
    /\ attempt' = [attempt EXCEPT ![a].phase = "rejecting"]
    /\ socket' = IF socket = a THEN None ELSE socket

-------------------------------------------------------------------------------
(* connect and disconnect *)

Connect ==
    /\ Quiet
    /\ state = "disconnected" /\ generation < MaxGeneration
    /\ manualDisconnect' = FALSE
    /\ reconnectTimer' = None
    /\ generation' = generation + 1
    /\ state' = "connecting"
    /\ calls' = [calls EXCEPT ![generation + 1] = "pending"]
    /\ job' = Job("connecting", generation + 1, 0)
    /\ UNCHANGED <<socket, attempt, closing, delivered>>

\* The subscribers of 'connecting' have returned.
FirstAttempt ==
    /\ job.kind = "connecting" /\ ~Closing
    /\ OpenSocket(job.gen, "connect")
    /\ job' = NoJob
    /\ UNCHANGED <<state, generation, manualDisconnect, reconnectTimer, closing, calls, delivered>>

\* Up to the notification of 'disconnecting'.
Disconnect ==
    /\ ~Closing /\ (Quiet \/ job.kind \in Reentrant)
    /\ state \notin {"disconnected", "disconnecting"} /\ generation < MaxGeneration
    /\ manualDisconnect' = TRUE
    /\ reconnectTimer' = None
    /\ generation' = generation + 1
    /\ socket' = None /\ closing' = socket
    /\ state' = "disconnecting"
    /\ UNCHANGED <<attempt, job, calls, delivered>>

\* Mutant: the socket is closed but its handlers stay attached.
Disconnected_KeepsHandlers ==
    /\ Closing
    /\ closing' = None
    /\ state' = "disconnected"
    /\ UNCHANGED <<generation, manualDisconnect, socket, reconnectTimer, attempt, job, calls, delivered>>

\* The socket is closed, then its handlers are detached, before the onclose that a browser calls
\* later: the promise of an attempt that was under way is settled by nothing.
Disconnected ==
    /\ Closing
    /\ attempt' = IF closing = None THEN attempt ELSE [attempt EXCEPT ![closing] = Free]
    /\ closing' = None
    /\ state' = "disconnected"
    /\ UNCHANGED <<generation, manualDisconnect, socket, reconnectTimer, job, calls, delivered>>

-------------------------------------------------------------------------------
(* Socket events *)

\* onopen
SocketOpens(a) ==
    /\ TaskStarts /\ attempt[a].phase = "connecting"
    /\ IF IsCurrent(attempt[a].gen)
       THEN /\ attempt' = [attempt EXCEPT ![a].phase = "open"]
            /\ state' = IF IsCurrentSocket(a) THEN "connected" ELSE state
            /\ calls' = IF attempt[a].by = "connect" THEN [calls EXCEPT ![attempt[a].gen] = "resolved"]
                                                     ELSE calls
            /\ UNCHANGED socket
       ELSE Reject(a) /\ UNCHANGED <<state, calls>>
    /\ UNCHANGED <<generation, manualDisconnect, reconnectTimer, closing, job, delivered>>

\* onerror or onclose before the socket was open
SocketRefused(a) ==
    /\ TaskStarts /\ attempt[a].phase = "connecting"
    /\ Reject(a)
    /\ UNCHANGED <<state, generation, manualDisconnect, reconnectTimer, closing, job, calls, delivered>>

\* Mutant: an unexpected close is reported but no reconnect is scheduled.
SocketCloses_GivesUp(a) ==
    /\ TaskStarts /\ attempt[a].phase = "open"
    /\ attempt' = [attempt EXCEPT ![a] = Free]
    /\ IF IsCurrentSocket(a)
       THEN /\ socket' = None
            /\ state' = "reconnecting"
       ELSE UNCHANGED <<socket, state>>
    /\ UNCHANGED <<generation, manualDisconnect, reconnectTimer, closing, job, calls, delivered>>

\* onclose after the socket was open
SocketCloses(a) ==
    /\ TaskStarts /\ attempt[a].phase = "open"
    /\ attempt' = [attempt EXCEPT ![a] = Free]
    /\ IF IsCurrentSocket(a)
       THEN /\ socket' = None
            /\ IF manualDisconnect
               THEN UNCHANGED <<state, job>>
               ELSE IF Reconnect
                    THEN state' = "reconnecting" /\ job' = Job("schedule", attempt[a].gen, 0)
                    ELSE state' = "disconnected" /\ UNCHANGED job
       ELSE UNCHANGED <<socket, state, job>>
    /\ UNCHANGED <<generation, manualDisconnect, reconnectTimer, closing, calls, delivered>>

\* onmessage: a frame of n events
SocketReceives(a, n) ==
    /\ TaskStarts /\ attempt[a].phase = "open" /\ IsCurrentSocket(a)
    /\ delivered + n <= MaxDelivered
    /\ job' = Job("batch", attempt[a].gen, n)
    /\ UNCHANGED <<state, generation, manualDisconnect, socket, reconnectTimer, attempt, closing,
                   calls, delivered>>

EmitMessage ==
    /\ job.kind = "batch" /\ ~Closing
    /\ IF job.left > 0
       THEN delivered' = delivered + 1 /\ job' = [job EXCEPT !.left = @ - 1]
       ELSE job' = NoJob /\ UNCHANGED delivered
    /\ UNCHANGED <<state, generation, manualDisconnect, socket, reconnectTimer, attempt, closing, calls>>

-------------------------------------------------------------------------------
(* Reconnection *)

\* Mutant: a failed first attempt is reported whatever happened since.
AttemptFailed_NoGuard(a) ==
    /\ Quiet /\ attempt[a].phase = "rejecting"
    /\ attempt' = [attempt EXCEPT ![a] = Free]
    /\ IF attempt[a].by = "connect"
       THEN /\ calls' = [calls EXCEPT ![attempt[a].gen] = "rejected"]
            /\ state' = "disconnected"
            /\ UNCHANGED job
       ELSE /\ state' = "reconnecting"
            /\ job' = Job("schedule", attempt[a].gen, 0)
            /\ UNCHANGED calls
    /\ UNCHANGED <<generation, manualDisconnect, socket, reconnectTimer, closing, delivered>>

\* The catch block of connect() or of the timer callback.
AttemptFailed(a) ==
    LET g == attempt[a].gen IN
    /\ Quiet /\ attempt[a].phase = "rejecting"
    /\ attempt' = [attempt EXCEPT ![a] = Free]
    /\ \/ /\ attempt[a].by = "connect"
          /\ state' = IF IsCurrent(g) THEN "disconnected" ELSE state
          /\ calls' = [calls EXCEPT ![g] = "rejected"]
          /\ UNCHANGED job
       \/ /\ attempt[a].by = "reconnect"
          /\ IF IsCurrent(g) /\ ~manualDisconnect
             THEN state' = "reconnecting" /\ job' = Job("schedule", g, 0)
             ELSE UNCHANGED <<state, job>>
          /\ UNCHANGED calls
    /\ UNCHANGED <<generation, manualDisconnect, socket, reconnectTimer, closing, delivered>>

\* scheduleReconnect, once the subscribers of 'reconnecting' have returned
ScheduleReconnect ==
    /\ job.kind = "schedule" /\ ~Closing
    /\ reconnectTimer' = IF IsCurrent(job.gen) /\ ~manualDisconnect THEN job.gen ELSE reconnectTimer
    /\ job' = NoJob
    /\ UNCHANGED <<state, generation, manualDisconnect, socket, attempt, closing, calls, delivered>>

TimerFires ==
    /\ TaskStarts /\ reconnectTimer # None
    /\ reconnectTimer' = None
    /\ IF IsCurrent(reconnectTimer) /\ ~manualDisconnect
       THEN OpenSocket(reconnectTimer, "reconnect")
       ELSE UNCHANGED <<attempt, socket>>
    /\ UNCHANGED <<state, generation, manualDisconnect, closing, job, calls, delivered>>

Next ==
    \/ Connect \/ FirstAttempt \/ Disconnect \/ Disconnected
    \/ EmitMessage \/ ScheduleReconnect \/ TimerFires
    \/ \E a \in Attempts :
         \/ SocketOpens(a) \/ SocketRefused(a) \/ SocketCloses(a) \/ AttemptFailed(a)
         \/ \E n \in 0..BatchMax : SocketReceives(a, n)

Spec == Init /\ [][Next]_vars

\* Synchronous code and microtasks run, an armed timer fires, and a socket that is connecting
\* opens or fails.
Fairness ==
    /\ WF_vars(FirstAttempt \/ Disconnected \/ EmitMessage \/ ScheduleReconnect)
    /\ WF_vars(TimerFires)
    /\ \A a \in Attempts :
         WF_vars(AttemptFailed(a)) /\ WF_vars(SocketOpens(a) \/ SocketRefused(a))

FairSpec == Spec /\ Fairness

-------------------------------------------------------------------------------
(* Properties *)

\* The events of the frame that are not handed out yet.
Coming == IF job.kind = "batch" THEN job.left ELSE 0

Contract == INSTANCE TransportContract WITH coming <- Coming

Records == [phase : {"free", "connecting", "open", "rejecting"}, gen : 0..MaxGeneration,
            by : {"connect", "reconnect"}]
Jobs == [kind : {"none", "connecting", "schedule", "batch"}, gen : 0..MaxGeneration, left : Nat]

\* Type invariant.
TypeOK ==
    /\ state \in Contract!States /\ generation \in 0..MaxGeneration
    /\ manualDisconnect \in BOOLEAN
    /\ socket \in Attempts \cup {None} /\ closing \in Attempts \cup {None}
    /\ reconnectTimer \in Generations \cup {None}
    /\ attempt \in [Attempts -> Records]
    /\ job \in Jobs /\ (job.kind = "none" => job = NoJob)
    /\ calls \in [Generations -> {"none", "pending", "resolved", "rejected"}]
    /\ delivered \in Nat

\* No connection leaks: a socket that is open is the transport's own, and it is open exactly
\* while the transport reports 'connected' (a send is then accepted), whatever was connected,
\* disconnected or lost before.
NoLeakedSocket ==
    /\ \A a \in Attempts : attempt[a].phase = "open" => a \in {socket, closing}
    /\ state = "connected" => socket # None /\ attempt[socket].phase = "open"
                              /\ IsCurrent(attempt[socket].gen)

Tries == {a \in Attempts : attempt[a].phase \in {"connecting", "rejecting"} /\ IsCurrent(attempt[a].gen)}

\* A transport that is connecting or reconnecting has exactly one thing that will take it
\* further, an armed timer or an attempt, of the current generation; in every other state
\* it has none, so nothing reconnects behind the back of disconnect().
OneRecoveryPath ==
    /\ Quiet /\ state = "connecting" => Cardinality(Tries) = 1 /\ reconnectTimer = None
    /\ Quiet /\ state = "reconnecting" => (Cardinality(Tries) = 1) # (reconnectTimer # None)
    /\ reconnectTimer # None => state = "reconnecting" /\ IsCurrent(reconnectTimer)
    /\ state \in {"connected", "disconnected"} => Tries = {}
    /\ Cardinality(Tries) <= 1

\* Both together: what is open or under way is in the transport's hands.
SocketsInHand == NoLeakedSocket /\ OneRecoveryPath

\* What subscribers see of the transport is what the ITransport contract allows, also when one
\* disconnects within a batch.
ImplementsContract == Contract!Spec

\* A transport that lost its connection keeps trying, and disconnect() settles.
KeepsTrying == state = "reconnecting" /\ Tries = {} ~> state # "reconnecting" \/ Tries # {}
AlwaysProceeds == KeepsTrying /\ Contract!CloseSettles
===============================================================================
