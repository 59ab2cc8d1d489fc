-------------------- MODULE ServerProofs --------------------
(*****************************************************************************)
(* The server side of the demos, for every value of the constants: the       *)
(* WebSocket demo's bridges, the DIT transport, the history that a page has  *)
(* of a DIT room, and the HTTP routes with their sessions.                   *)
(*****************************************************************************)
EXTENDS DemoSocketBridge, DitHistory, DemoApi, SequenceTheorems, FiniteSetTheorems, TLAPS

-------------------------------------------------------------------------------
(* DemoSocketBridge *)

SocketStates == {"none", "open", "closing", "closed"}
BeforeListening == {"none", "conversation", "events", "snapshot", "refused"}
SinceListening == {"serving", "polling", "polled"}
Bridges == [stage : BeforeListening \cup SinceListening, answer : Nat, nextCursor : Nat, pollTimer : BOOLEAN,
            closed : BOOLEAN, tracked : BOOLEAN]

\* The types of the variables the other invariants speak of.
BridgeTypes ==
    /\ published \in Nat
    /\ socket \in [Sockets -> SocketStates]
    /\ bridge \in [Sockets -> Bridges]
    /\ received \in [Sockets -> Seq(Nat)]

\* A bridge that does not listen yet has sent nothing.  From then on its cursor is the number
\* of events its client has, as long as the socket is open.
ReceivedInv ==
    \A s \in Sockets :
        /\ received[s] = Numbers(1, Len(received[s]))
        /\ bridge[s].stage \in BeforeListening => received[s] = <<>>
        /\ bridge[s].stage \in SinceListening /\ socket[s] = "open" => Len(received[s]) = bridge[s].nextCursor
        /\ bridge[s].stage \in {"snapshot", "polled"} => bridge[s].answer <= published
        /\ bridge[s].nextCursor <= published
        /\ bridge[s].stage = "polled" => bridge[s].nextCursor <= bridge[s].answer

\* A bridge is tracked from the moment it listens until its socket closes, and there is none
\* before the socket.
TrackedInv ==
    \A s \in Sockets :
        /\ bridge[s].stage \in BeforeListening =>
             ~bridge[s].tracked /\ ~bridge[s].closed /\ ~bridge[s].pollTimer
        /\ bridge[s].closed => ~bridge[s].tracked /\ ~bridge[s].pollTimer
        /\ bridge[s].stage \in SinceListening /\ ~bridge[s].closed => bridge[s].tracked
        /\ bridge[s].stage \in SinceListening /\ socket[s] = "closed" /\ s \notin early => bridge[s].closed
        /\ socket[s] = "none" => bridge[s].stage = "none"

-------------------------------------------------------------------------------
(* Numbers. *)

\* Numbers(n, k) is a sequence of numbers.
LEMMA NumbersType ==
    ASSUME NEW n \in Nat, NEW k \in Nat, n <= k
    PROVE  /\ Numbers(n + 1, k) \in Seq(Nat)
           /\ Len(Numbers(n + 1, k)) = k - n
           /\ \A i \in 1 .. (k - n) : Numbers(n + 1, k)[i] = n + i
<1>1. /\ k - (n + 1) + 1 = k - n /\ k - n \in Nat
      /\ \A i \in 1 .. (k - n) : (n + 1) + i - 1 = n + i /\ n + i \in Nat
  OBVIOUS
<1>2. Numbers(n + 1, k) = [i \in 1 .. (k - n) |-> n + i]
  BY <1>1 DEF Numbers
<1> QED
  BY <1>1, <1>2

\* What a client has and the events after it are the events from the first on.
LEMMA NumbersJoin ==
    ASSUME NEW n \in Nat, NEW k \in Nat, n <= k
    PROVE  Numbers(1, n) \o Numbers(n + 1, k) = Numbers(1, k)
<1> DEFINE A == Numbers(0 + 1, n)
           B == Numbers(n + 1, k)
           C == Numbers(0 + 1, k)
<1>1. /\ A \in Seq(Nat) /\ Len(A) = n /\ \A i \in 1 .. n : A[i] = i
  BY NumbersType, n - 0 = n, \A i \in 1 .. n : 0 + i = i
<1>2. /\ B \in Seq(Nat) /\ Len(B) = k - n /\ \A i \in 1 .. (k - n) : B[i] = n + i
  BY NumbersType
<1>3. /\ C \in Seq(Nat) /\ Len(C) = k /\ \A i \in 1 .. k : C[i] = i
  BY NumbersType, k - 0 = k, \A i \in 1 .. k : 0 + i = i
<1> HIDE DEF A, B, C
<1>4. A \o B \in Seq(Nat) /\ Len(A \o B) = k
  BY <1>1, <1>2
<1>5. ASSUME NEW i \in 1 .. k PROVE (A \o B)[i] = C[i]
  BY <1>1, <1>2, <1>3
<1>6. A \o B = C
  BY <1>3, <1>4, <1>5, SeqEqual
<1> QED
  BY <1>6, 0 + 1 = 1 DEF A, B, C

\* SendOn() keeps the prefix and its types.
LEMMA SendEffect ==
    ASSUME BridgeTypes, NEW s \in Sockets, NEW n \in Nat, NEW k \in Nat, n <= k,
           received[s] = Numbers(1, Len(received[s])),
           socket[s] = "open" => Len(received[s]) = n,
           SendOn(s, n + 1, k)
    PROVE  /\ received' \in [Sockets -> Seq(Nat)]
           /\ received'[s] = Numbers(1, Len(received'[s]))
           /\ socket[s] = "open" => Len(received'[s]) = k
           /\ \A t \in Sockets \ {s} : received'[t] = received[t]
<1>1. CASE socket[s] = "open"
  <2>1. received' = [received EXCEPT ![s] = @ \o Numbers(n + 1, k)]
    BY <1>1 DEF SendOn
  <2>2. received[s] \o Numbers(n + 1, k) = Numbers(1, k)
    BY <1>1, NumbersJoin
  <2>3. Numbers(1, k) \in Seq(Nat) /\ Len(Numbers(1, k)) = k
    BY NumbersType, 0 \in Nat, 0 <= k, 0 + 1 = 1, k - 0 = k
  <2>4. received' = [received EXCEPT ![s] = Numbers(1, k)]
    BY <2>1, <2>2
  <2> QED
    BY <2>3, <2>4 DEF BridgeTypes
<1>2. CASE socket[s] # "open"
  BY <1>2 DEF SendOn, BridgeTypes
<1> QED
  BY <1>1, <1>2

-------------------------------------------------------------------------------
(* The invariants. *)

BridgeInv == BridgeTypes /\ ReceivedInv /\ TrackedInv

\* No socket has a bridge at the start.
LEMMA BridgeInitially == BridgeInit => BridgeInv
<1> SUFFICES ASSUME BridgeInit PROVE BridgeInv
  OBVIOUS
<1>1. Numbers(1, 0) = <<>> /\ Len(<<>>) = 0
  <2>1. Numbers(0 + 1, 0) \in Seq(Nat) /\ Len(Numbers(0 + 1, 0)) = 0
    BY NumbersType, 0 \in Nat, 0 <= 0, 0 - 0 = 0
  <2>2. Numbers(1, 0) \in Seq(Nat) /\ Len(Numbers(1, 0)) = 0
    BY <2>1, 0 + 1 = 1
  <2> QED
    BY <2>2, EmptySeq
<1>2. NewBridge \in Bridges
  BY DEF NewBridge, Bridges, BeforeListening
<1>3. BridgeTypes
  BY <1>2 DEF BridgeInit, BridgeTypes, SocketStates
<1>4. ReceivedInv
  <2> SUFFICES ASSUME NEW s \in Sockets
               PROVE /\ received[s] = <<>> /\ bridge[s].stage = "none"
                     /\ bridge[s].nextCursor <= published
    BY <1>1 DEF ReceivedInv, SinceListening
  <2> QED
    BY DEF BridgeInit, NewBridge
<1>5. TrackedInv
  BY DEF BridgeInit, TrackedInv, NewBridge, SinceListening
<1> QED
  BY <1>3, <1>4, <1>5 DEF BridgeInv

\* One bridge is changed to b.
LEMMA OneMoves ==
    ASSUME BridgeTypes, NEW s \in Sockets, NEW b \in Bridges, bridge' = [bridge EXCEPT ![s] = b]
    PROVE  /\ bridge' \in [Sockets -> Bridges]
           /\ bridge'[s] = b
           /\ \A t \in Sockets \ {s} : bridge'[t] = bridge[t]
  BY DEF BridgeTypes

\* What the fields of b must be for the invariants to hold again.
LEMMA OthersAreKept ==
    ASSUME BridgeInv, NEW s \in Sockets, NEW b \in Bridges, bridge' = [bridge EXCEPT ![s] = b],
           published' = published, early \subseteq early',
           socket' \in [Sockets -> SocketStates], received' \in [Sockets -> Seq(Nat)],
           \A t \in Sockets \ {s} : socket'[t] = socket[t] /\ received'[t] = received[t],
           received'[s] = Numbers(1, Len(received'[s])),
           b.stage \in BeforeListening => received'[s] = <<>> /\ ~b.tracked /\ ~b.closed /\ ~b.pollTimer,
           b.stage \in SinceListening /\ socket'[s] = "open" => Len(received'[s]) = b.nextCursor,
           b.stage \in {"snapshot", "polled"} => b.answer <= published,
           b.nextCursor <= published,
           b.stage = "polled" => b.nextCursor <= b.answer,
           b.closed => ~b.tracked /\ ~b.pollTimer,
           b.stage \in SinceListening /\ ~b.closed => b.tracked,
           b.stage \in SinceListening /\ socket'[s] = "closed" /\ s \notin early' => b.closed,
           socket'[s] = "none" => b.stage = "none"
    PROVE  BridgeInv'
<1>1. /\ bridge' \in [Sockets -> Bridges] /\ bridge'[s] = b
      /\ \A t \in Sockets \ {s} : bridge'[t] = bridge[t]
  BY OneMoves DEF BridgeInv
<1>2. BridgeTypes'
  BY <1>1 DEF BridgeInv, BridgeTypes
<1>3. ReceivedInv'
  BY SMTT(20), <1>1 DEF BridgeInv, ReceivedInv
<1>4. TrackedInv'
  <2> SUFFICES ASSUME NEW t \in Sockets
               PROVE /\ bridge'[t].stage \in BeforeListening =>
                         ~bridge'[t].tracked /\ ~bridge'[t].closed /\ ~bridge'[t].pollTimer
                     /\ bridge'[t].closed => ~bridge'[t].tracked /\ ~bridge'[t].pollTimer
                     /\ bridge'[t].stage \in SinceListening /\ ~bridge'[t].closed => bridge'[t].tracked
                     /\ bridge'[t].stage \in SinceListening /\ socket'[t] = "closed" /\ t \notin early'
                          => bridge'[t].closed
                     /\ socket'[t] = "none" => bridge'[t].stage = "none"
    BY DEF TrackedInv
  <2>1. CASE t = s
    BY <1>1, <2>1
  <2>2. CASE t # s
    <3>1. bridge'[t] = bridge[t] /\ socket'[t] = socket[t]
      BY <1>1, <2>2
    <3> QED
      BY <3>1 DEF BridgeInv, TrackedInv
  <2> QED
    BY <2>1, <2>2
<1> QED
  BY <1>2, <1>3, <1>4 DEF BridgeInv

\* A step of one bridge.
LEMMA StepOfBridge == ASSUME BridgeInv, NEW s \in Sockets, BridgeStep(s) PROVE BridgeInv'
<1> DEFINE r == bridge[s]
<1>0. /\ r \in Bridges /\ published \in Nat
      /\ socket \in [Sockets -> SocketStates] /\ received \in [Sockets -> Seq(Nat)]
      /\ bridge \in [Sockets -> Bridges]
  BY DEF BridgeInv, BridgeTypes
<1>i. /\ received[s] = Numbers(1, Len(received[s]))
      /\ r.stage \in BeforeListening => received[s] = <<>> /\ ~r.tracked /\ ~r.closed /\ ~r.pollTimer
      /\ r.stage \in SinceListening /\ socket[s] = "open" => Len(received[s]) = r.nextCursor
      /\ r.stage \in {"snapshot", "polled"} => r.answer <= published
      /\ r.nextCursor <= published
      /\ r.stage = "polled" => r.nextCursor <= r.answer
      /\ r.closed => ~r.tracked /\ ~r.pollTimer
      /\ r.stage \in SinceListening /\ ~r.closed => r.tracked
      /\ r.stage \in SinceListening /\ socket[s] = "closed" /\ s \notin early => r.closed
      /\ socket[s] = "none" => r.stage = "none"
  BY DEF BridgeInv, ReceivedInv, TrackedInv
<1>t. r.answer \in Nat /\ r.nextCursor \in Nat
  BY <1>0 DEF Bridges
<1>1. CASE ConversationReturns(s)
  <2> DEFINE b == [r EXCEPT !.stage = "events"]
  <2>1. /\ b \in Bridges /\ b.stage = "events" /\ b.nextCursor = r.nextCursor
        /\ (b.closed <=> r.closed) /\ (b.tracked <=> r.tracked) /\ (b.pollTimer <=> r.pollTimer)
    BY <1>0 DEF Bridges, BeforeListening
  <2>2. bridge' = [bridge EXCEPT ![s] = b] /\ r.stage = "conversation"
    BY <1>1 DEF ConversationReturns
  <2> HIDE DEF b
  <2> QED
    BY <1>0, <1>i, <1>1, <2>1, <2>2, OthersAreKept DEF ConversationReturns, BeforeListening, SinceListening
<1>2. CASE EventsAreRead(s)
  <2> DEFINE stage == IF r.stage = "events" THEN "snapshot" ELSE "polled"
             b == [r EXCEPT !.stage = stage, !.answer = published]
  <2>0. stage \in {"snapshot", "polled"}
    OBVIOUS
  <2>1. /\ b \in Bridges /\ b.stage = stage /\ b.answer = published /\ b.nextCursor = r.nextCursor
        /\ (b.closed <=> r.closed) /\ (b.tracked <=> r.tracked) /\ (b.pollTimer <=> r.pollTimer)
    BY <1>0, <2>0 DEF Bridges, BeforeListening, SinceListening
  <2>2. bridge' = [bridge EXCEPT ![s] = b]
    BY <1>0, <1>2 DEF EventsAreRead
  <2>3. r.stage = "events" \/ r.stage = "polling"
    BY <1>2 DEF EventsAreRead
  <2>4. /\ socket' = socket /\ published' = published /\ early' = early /\ received' = received
    BY <1>2 DEF EventsAreRead
  <2>5. stage = "snapshot" <=> r.stage = "events"
    OBVIOUS
  <2> HIDE DEF b, stage
  <2>6. published <= published /\ r.nextCursor <= published
    BY <1>0, <1>i
  <2>7. CASE r.stage = "events"
    BY <1>0, <1>i, <2>1, <2>2, <2>4, <2>5, <2>6, <2>7, OthersAreKept DEF BeforeListening, SinceListening
  <2>8. CASE r.stage = "polling"
    <3>1. stage = "polled"
      BY <2>0, <2>5, <2>8
    <3> QED
      BY <1>0, <1>i, <2>1, <2>2, <2>4, <2>6, <2>8, <3>1, OthersAreKept DEF BeforeListening, SinceListening
  <2> QED
    BY <2>3, <2>7, <2>8
<1>3. CASE Serve(s)
  <2> DEFINE b == [r EXCEPT !.stage = "serving", !.nextCursor = r.answer, !.pollTimer = TRUE,
                            !.tracked = TRUE]
  <2>1. /\ b \in Bridges /\ b.stage = "serving" /\ b.nextCursor = r.answer
        /\ (b.closed <=> r.closed) /\ b.tracked /\ b.pollTimer
    BY <1>0, <1>t DEF Bridges, SinceListening
  <2>2. bridge' = [bridge EXCEPT ![s] = b] /\ r.stage = "snapshot"
    BY <1>0, <1>3 DEF Serve
  <2>3. SendOn(s, 0 + 1, r.answer) /\ received[s] = <<>> /\ Len(<<>>) = 0
    BY <1>i, <1>3, <2>2, 0 + 1 = 1 DEF Serve, BeforeListening
  <2>4. /\ received' \in [Sockets -> Seq(Nat)]
        /\ received'[s] = Numbers(1, Len(received'[s]))
        /\ socket[s] = "open" => Len(received'[s]) = r.answer
        /\ \A t \in Sockets \ {s} : received'[t] = received[t]
    BY <1>i, <1>t, <2>3, SendEffect, 0 \in Nat, 0 <= r.answer DEF BridgeInv
  <2>5. /\ socket' = socket /\ published' = published /\ early \subseteq early'
        /\ (socket[s] = "closed" => s \in early')
    BY <1>3 DEF Serve
  <2> HIDE DEF b
  <2> QED
    BY <1>0, <1>i, <2>1, <2>2, <2>4, <2>5, OthersAreKept DEF BeforeListening, SinceListening
<1>4. CASE PollTimerFires(s)
  <2> DEFINE b == [r EXCEPT !.pollTimer = FALSE, !.stage = "polling"]
  <2>1. /\ b \in Bridges /\ b.stage = "polling" /\ b.nextCursor = r.nextCursor
        /\ (b.closed <=> r.closed) /\ (b.tracked <=> r.tracked) /\ ~b.pollTimer
    BY <1>0 DEF Bridges, SinceListening
  <2>2. bridge' = [bridge EXCEPT ![s] = b] /\ r.stage = "serving"
    BY <1>0, <1>4 DEF PollTimerFires
  <2>3. /\ socket' = socket /\ published' = published /\ early' = early /\ received' = received
    BY <1>4 DEF PollTimerFires
  <2> HIDE DEF b
  <2> QED
    BY <1>0, <1>i, <2>1, <2>2, <2>3, OthersAreKept DEF BeforeListening, SinceListening
<1>5. CASE PollReturns(s)
  <2>1. CASE ~r.closed
    <3> DEFINE b == [r EXCEPT !.stage = "serving", !.nextCursor = r.answer, !.pollTimer = TRUE]
    <3>1. /\ b \in Bridges /\ b.stage = "serving" /\ b.nextCursor = r.answer
          /\ (b.closed <=> r.closed) /\ (b.tracked <=> r.tracked) /\ b.pollTimer
      BY <1>0, <1>t DEF Bridges, SinceListening
    <3>2. bridge' = [bridge EXCEPT ![s] = b] /\ r.stage = "polled"
      BY <1>0, <1>5, <2>1 DEF PollReturns
    <3>3. SendOn(s, r.nextCursor + 1, r.answer)
      BY <1>5, <2>1 DEF PollReturns
    <3>4. /\ received' \in [Sockets -> Seq(Nat)]
          /\ received'[s] = Numbers(1, Len(received'[s]))
          /\ socket[s] = "open" => Len(received'[s]) = r.answer
          /\ \A t \in Sockets \ {s} : received'[t] = received[t]
      BY <1>i, <1>t, <3>2, <3>3, SendEffect DEF BridgeInv, SinceListening
    <3>5. socket' = socket /\ published' = published /\ early' = early
      BY <1>5 DEF PollReturns
    <3> HIDE DEF b
    <3> QED
      BY <1>0, <1>i, <2>1, <3>1, <3>2, <3>4, <3>5, OthersAreKept DEF BeforeListening, SinceListening
  <2>2. CASE r.closed
    <3> DEFINE b == [r EXCEPT !.stage = "serving"]
    <3>1. /\ b \in Bridges /\ b.stage = "serving" /\ b.nextCursor = r.nextCursor
          /\ (b.closed <=> r.closed) /\ (b.tracked <=> r.tracked) /\ (b.pollTimer <=> r.pollTimer)
      BY <1>0 DEF Bridges, SinceListening
    <3>2. bridge' = [bridge EXCEPT ![s] = b] /\ r.stage = "polled"
      BY <1>0, <1>5, <2>2 DEF PollReturns
    <3>3. socket' = socket /\ published' = published /\ early' = early /\ received' = received
      BY <1>5, <2>2 DEF PollReturns
    <3> HIDE DEF b
    <3> QED
      BY <1>0, <1>i, <2>2, <3>1, <3>2, <3>3, OthersAreKept DEF BeforeListening, SinceListening
  <2> QED
    BY <2>1, <2>2
<1> QED
  BY <1>1, <1>2, <1>3, <1>4, <1>5 DEF BridgeStep

\* A client connects: there was no bridge before.
LEMMA StepOfClient == ASSUME BridgeInv, NEW s \in Sockets, ClientOpens(s) PROVE BridgeInv'
<1> DEFINE r == bridge[s]
           b == [r EXCEPT !.stage = "conversation"]
<1>1. /\ r \in Bridges /\ r.stage = "none" /\ published \in Nat
      /\ socket \in [Sockets -> SocketStates] /\ received \in [Sockets -> Seq(Nat)]
      /\ bridge \in [Sockets -> Bridges]
  BY DEF BridgeInv, BridgeTypes, TrackedInv, ClientOpens
<1>2. /\ received[s] = Numbers(1, Len(received[s]))
      /\ received[s] = <<>> /\ ~r.tracked /\ ~r.closed /\ ~r.pollTimer
      /\ r.nextCursor <= published
  BY <1>1 DEF BridgeInv, ReceivedInv, TrackedInv, BeforeListening
<1>3. /\ b \in Bridges /\ b.stage = "conversation" /\ b.nextCursor = r.nextCursor
      /\ (b.closed <=> r.closed) /\ (b.tracked <=> r.tracked) /\ (b.pollTimer <=> r.pollTimer)
  BY <1>1 DEF Bridges, BeforeListening
<1>4. /\ bridge' = [bridge EXCEPT ![s] = b]
      /\ published' = published /\ early' = early /\ received' = received
      /\ socket' = [socket EXCEPT ![s] = "open"]
  BY DEF ClientOpens
<1>5. /\ socket' \in [Sockets -> SocketStates] /\ socket'[s] = "open"
      /\ \A t \in Sockets \ {s} : socket'[t] = socket[t]
  BY <1>1, <1>4 DEF SocketStates
<1> HIDE DEF b
<1> QED
  BY <1>1, <1>2, <1>3, <1>4, <1>5, OthersAreKept DEF BeforeListening, SinceListening

\* Sockets that close, or not, change no bridge: nothing depends on whether they are open.
LEMMA SocketsClose ==
    ASSUME BridgeInv, bridge' = bridge, published' = published, received' = received,
           early' = early, socket' \in [Sockets -> SocketStates],
           \A s \in Sockets : socket'[s] = socket[s] \/ (socket[s] = "open" /\ socket'[s] = "closing")
    PROVE  BridgeInv'
<1>1. BridgeTypes'
  BY DEF BridgeInv, BridgeTypes
<1>2. ReceivedInv'
  BY DEF BridgeInv, ReceivedInv
<1>3. TrackedInv'
  BY DEF BridgeInv, TrackedInv
<1> QED
  BY <1>1, <1>2, <1>3 DEF BridgeInv

\* A fetch fails.
LEMMA StepOfFailure == ASSUME BridgeInv, NEW s \in Sockets, FetchFails(s) PROVE BridgeInv'
<1> DEFINE r == bridge[s]
           stage == IF r.stage = "polling" THEN "serving" ELSE "refused"
           b == [r EXCEPT !.stage = stage]
<1>1. /\ r \in Bridges /\ published \in Nat
      /\ socket \in [Sockets -> SocketStates] /\ received \in [Sockets -> Seq(Nat)]
      /\ bridge \in [Sockets -> Bridges]
  BY DEF BridgeInv, BridgeTypes
<1>2. /\ received[s] = Numbers(1, Len(received[s]))
      /\ r.stage \in BeforeListening => received[s] = <<>> /\ ~r.tracked /\ ~r.closed /\ ~r.pollTimer
      /\ r.stage \in SinceListening /\ socket[s] = "open" => Len(received[s]) = r.nextCursor
      /\ r.nextCursor <= published
      /\ r.closed => ~r.tracked /\ ~r.pollTimer
      /\ r.stage \in SinceListening /\ ~r.closed => r.tracked
      /\ r.stage \in SinceListening /\ socket[s] = "closed" /\ s \notin early => r.closed
      /\ socket[s] = "none" => r.stage = "none"
  BY DEF BridgeInv, ReceivedInv, TrackedInv
<1>3. /\ stage \in {"serving", "refused"}
      /\ stage = "serving" <=> r.stage = "polling"
      /\ r.stage \in {"conversation", "events", "polling"}
  BY DEF FetchFails
<1>4. /\ b \in Bridges /\ b.stage = stage /\ b.nextCursor = r.nextCursor
      /\ (b.closed <=> r.closed) /\ (b.tracked <=> r.tracked) /\ (b.pollTimer <=> r.pollTimer)
  BY <1>1, <1>3 DEF Bridges, BeforeListening, SinceListening
<1>5. /\ bridge' = [bridge EXCEPT ![s] = b]
      /\ published' = published /\ early' = early /\ received' = received
  BY DEF FetchFails
<1>6. /\ socket' \in [Sockets -> SocketStates]
      /\ socket'[s] = socket[s] \/ (socket[s] = "open" /\ socket'[s] = "closing")
      /\ \A t \in Sockets \ {s} : socket'[t] = socket[t]
  BY <1>1 DEF FetchFails, Closing, SocketStates
<1> HIDE DEF b, stage
<1> QED
  BY <1>1, <1>2, <1>3, <1>4, <1>5, <1>6, OthersAreKept DEF BeforeListening, SinceListening

\* A socket closes: its bridge is cleaned up if it listens.
LEMMA StepOfClose == ASSUME BridgeInv, NEW s \in Sockets, SocketCloses(s) PROVE BridgeInv'
<1> DEFINE r == bridge[s]
           b == IF r.tracked THEN Cleanup(r) ELSE r
<1>1. /\ r \in Bridges /\ published \in Nat
      /\ socket \in [Sockets -> SocketStates] /\ received \in [Sockets -> Seq(Nat)]
      /\ bridge \in [Sockets -> Bridges]
  BY DEF BridgeInv, BridgeTypes
<1>2. /\ received[s] = Numbers(1, Len(received[s]))
      /\ r.stage \in BeforeListening => received[s] = <<>> /\ ~r.tracked /\ ~r.closed /\ ~r.pollTimer
      /\ r.stage \in {"snapshot", "polled"} => r.answer <= published
      /\ r.nextCursor <= published
      /\ r.stage = "polled" => r.nextCursor <= r.answer
      /\ r.closed => ~r.tracked /\ ~r.pollTimer
      /\ r.stage \in SinceListening /\ ~r.closed => r.tracked
  BY DEF BridgeInv, ReceivedInv, TrackedInv
<1>3. /\ published' = published /\ early' = early /\ received' = received
      /\ socket' = [socket EXCEPT ![s] = "closed"]
  BY DEF SocketCloses
<1>4. /\ socket' \in [Sockets -> SocketStates] /\ socket'[s] = "closed"
      /\ \A t \in Sockets \ {s} : socket'[t] = socket[t]
  BY <1>1, <1>3 DEF SocketStates
<1>5. CASE r.tracked
  <2>1. /\ b \in Bridges /\ b.stage = r.stage /\ b.nextCursor = r.nextCursor /\ b.answer = r.answer
        /\ b.closed /\ ~b.tracked /\ ~b.pollTimer
    BY <1>1, <1>5 DEF Bridges, Cleanup
  <2>2. bridge' = [bridge EXCEPT ![s] = b]
    BY <1>5 DEF SocketCloses
  <2> HIDE DEF b
  <2> QED
    BY <1>1, <1>2, <1>3, <1>4, <1>5, <2>1, <2>2, OthersAreKept DEF BeforeListening, SinceListening
<1>6. CASE ~r.tracked
  <2>1. bridge' = [bridge EXCEPT ![s] = r]
    BY <1>1, <1>6 DEF SocketCloses
  <2> QED
    BY <1>1, <1>2, <1>3, <1>4, <1>6, <2>1, OthersAreKept DEF BeforeListening, SinceListening
<1> QED
  BY <1>5, <1>6

\* Every step keeps the invariant.
LEMMA BridgeStepKeeps == BridgeInv /\ [BridgeNext]_bridgeVars => BridgeInv'
<1> SUFFICES ASSUME BridgeInv, [BridgeNext]_bridgeVars PROVE BridgeInv'
  OBVIOUS
<1>0. socket \in [Sockets -> SocketStates]
  BY DEF BridgeInv, BridgeTypes
<1>1. CASE EnsureServer
  BY <1>0, <1>1, SocketsClose DEF EnsureServer
<1>2. CASE PublishEvent
  <2>1. BridgeTypes'
    BY <1>2 DEF BridgeInv, BridgeTypes, PublishEvent
  <2>2. \A s \in Sockets : bridge[s].answer \in Nat /\ bridge[s].nextCursor \in Nat
    BY DEF BridgeInv, BridgeTypes, Bridges
  <2>3. ReceivedInv'
    BY <1>2, <2>2 DEF BridgeInv, BridgeTypes, ReceivedInv, PublishEvent
  <2>4. TrackedInv'
    BY <1>2 DEF BridgeInv, TrackedInv, PublishEvent
  <2> QED
    BY <2>1, <2>3, <2>4 DEF BridgeInv
<1>3. CASE CloseConnections
  <2>1. /\ socket' \in [Sockets -> SocketStates]
        /\ \A s \in Sockets : socket'[s] = socket[s] \/ (socket[s] = "open" /\ socket'[s] = "closing")
    BY <1>0, <1>3 DEF CloseConnections, SocketStates
  <2> QED
    BY <1>3, <2>1, SocketsClose DEF CloseConnections
<1>4. ASSUME NEW s \in Sockets, ClientFrame(s) PROVE BridgeInv'
  <2>1. /\ socket' \in [Sockets -> SocketStates]
        /\ \A t \in Sockets : socket'[t] = socket[t] \/ (socket[t] = "open" /\ socket'[t] = "closing")
    BY <1>0, <1>4 DEF ClientFrame, Closing, SocketStates
  <2> QED
    BY <1>4, <2>1, SocketsClose DEF ClientFrame
<1>5. CASE UNCHANGED bridgeVars
  BY <1>0, <1>5, SocketsClose DEF bridgeVars
<1> QED
  BY <1>1, <1>2, <1>3, <1>4, <1>5, StepOfBridge, StepOfClient, StepOfFailure, StepOfClose
     DEF BridgeNext

\* demo-websocket-server.ts 429-466: what a client receives is the first events, each once
\* and in order.
THEOREM ClientsReceiveAPrefix == BridgeSpec => []ReceivesAPrefix
<1>1. BridgeInv => ReceivesAPrefix
  BY DEF BridgeInv, ReceivedInv, ReceivesAPrefix
<1> QED
  BY <1>1, BridgeInitially, BridgeStepKeeps, PTL DEF BridgeSpec

\* demo-websocket-server.ts 412-427: a bridge whose socket closed while it listened neither
\* polls nor is kept in the registry.
THEOREM ClosedBridgesAreQuiet == BridgeSpec => []ClosedIsQuiet
<1>1. BridgeInv => ClosedIsQuiet
  BY DEF BridgeInv, BridgeTypes, TrackedInv, ClosedIsQuiet, Bridges, BeforeListening, SinceListening
<1> QED
  BY <1>1, BridgeInitially, BridgeStepKeeps, PTL DEF BridgeSpec

-------------------------------------------------------------------------------
(* DitTransport *)

Polls ==
    {NoPoll} \cup [stage : {"after"}, from : Nat]
    \cup [stage : {"history"}, from : Nat, pages : Nat, collected : SUBSET Nat]

DitTypes ==
    /\ room \in Nat /\ state \in {"disconnected", "connected", "disconnecting"}
    /\ seen \in Seq(Nat) /\ cursor \in 0 .. room /\ bootstrapped \in BOOLEAN
    /\ poll \in Polls /\ got \subseteq 1 .. room /\ floor \in Nat

\* What the history poll has collected goes up to the newest message of its first page.
CollectedInv ==
    poll.stage = "history" =>
        /\ poll.pages < MaxPages
        /\ poll.pages = 0 => poll.from = 0 /\ poll.collected = {}
        /\ poll.pages # 0 =>
              \E top \in 1 .. room :
                 /\ poll.from \in 1 .. top /\ poll.collected = poll.from .. top
                 /\ top - poll.from + 1 <= Limit * poll.pages
                 /\ state = "connected" => \A g \in got : g <= top

\* A poll of an earlier connection finds the transport as connect() left it.
StaleInv ==
    /\ state = "disconnected" => poll = NoPoll
    /\ state = "connected" /\ ~bootstrapped /\ poll # NoPoll =>
          got = {} /\ seen = <<>> /\ cursor = 0 /\ floor = 0

\* What was handed over goes up to the cursor, without a gap from the oldest message asked for.
CursorInv ==
    state = "connected" =>
        /\ \A g \in got : g <= cursor
        /\ floor # 0 => floor <= cursor /\ floor .. cursor \subseteq got
        /\ poll.stage = "after" /\ bootstrapped => poll.from = cursor

\* The page after a cursor is one of the room.
FromInv == poll.stage = "after" => poll.from <= room

\* What was seen was handed over, and until the history is read what was handed over is remembered.
SeenInv ==
    state = "connected" =>
        /\ ToSet(seen) \subseteq got
        /\ ~bootstrapped \/ poll.stage = "history" => got \subseteq ToSet(seen)

DitInv == DitTypes /\ CollectedInv /\ FromInv /\ StaleInv /\ CursorInv /\ SeenInv /\ ~twice

\* Sorting by createdAt loses nothing and repeats nothing.
LEMMA InOrderHasAll ==
    ASSUME NEW S, S \subseteq Nat, IsFiniteSet(S)
    PROVE  /\ InOrder(S) \in Seq(Nat) /\ Len(InOrder(S)) = Cardinality(S)
           /\ ToSet(InOrder(S)) = S
<1> DEFINE n0 == Cardinality(S)
           Under(i) == {j \in S : j < i}
           rank == [i \in S |-> Cardinality(Under(i)) + 1]
<1>1. n0 \in Nat BY FS_CardinalityType
<1>2. ASSUME NEW i \in S PROVE IsFiniteSet(Under(i)) /\ Cardinality(Under(i)) \in 0 .. n0 - 1
  <2>1. IsFiniteSet(S \ {i}) /\ Cardinality(S \ {i}) = n0 - 1 BY FS_RemoveElement
  <2>2. Under(i) \in SUBSET (S \ {i}) OBVIOUS
  <2>3. IsFiniteSet(Under(i)) /\ Cardinality(Under(i)) <= n0 - 1 BY <2>1, <2>2, FS_Subset
  <2>4. Cardinality(Under(i)) \in Nat BY <2>3, FS_CardinalityType
  <2> QED BY <1>1, <2>3, <2>4
<1>3. ASSUME NEW i \in S, NEW k \in S, i < k PROVE rank[i] < rank[k]
  <2>1. ASSUME NEW j \in S, j < i PROVE j < k
    <3>1. i \in Nat /\ j \in Nat /\ k \in Nat OBVIOUS
    <3> QED BY <3>1, <2>1, <1>3
  <2>2. i \in Under(k) /\ i \notin Under(i) BY <1>3
  <2>3. Cardinality(Under(i)) <= Cardinality(Under(k)) /\ Cardinality(Under(i)) # Cardinality(Under(k))
    <3>1. Under(i) \in SUBSET Under(k) BY <2>1
    <3> QED BY <3>1, <2>2, <1>2, FS_Subset
  <2>4. Cardinality(Under(i)) \in Int /\ Cardinality(Under(k)) \in Int BY <1>2
  <2> HIDE DEF Under
  <2> QED BY <2>3, <2>4
<1>4. rank \in [S -> 1 .. n0]
  <2>1. \A i \in S : Cardinality(Under(i)) + 1 \in 1 .. n0 BY <1>1, <1>2
  <2> QED BY <2>1
<1>5. rank \in Injection(S, 1 .. n0)
  <2>1. \A i \in S, k \in S : rank[i] = rank[k] => i = k
    <3> SUFFICES ASSUME NEW i \in S, NEW k \in S, i # k PROVE rank[i] # rank[k] OBVIOUS
    <3>1. rank[i] \in Int /\ rank[k] \in Int BY <1>4
    <3>2. i < k \/ k < i OBVIOUS
    <3>3. rank[i] < rank[k] \/ rank[k] < rank[i] BY <1>3, <3>2
    <3> HIDE DEF rank
    <3> QED BY <3>1, <3>3
  <2> HIDE DEF rank
  <2> QED BY <1>4, <2>1 DEF Injection, IsInjective
<1>6. rank \in Surjection(S, 1 .. n0)
  <2>1. IsFiniteSet(1 .. n0) /\ Cardinality(1 .. n0) = n0 BY <1>1, FS_Interval
  <2> HIDE DEF rank
  <2> QED BY <1>5, <2>1, FS_Injection
<1>7. \A n \in 1 .. n0 : InOrder(S)[n] = CHOOSE i \in S : Cardinality({j \in S : j < i}) = n - 1
  BY DEF InOrder
<1>8. ASSUME NEW n \in 1 .. n0 PROVE InOrder(S)[n] \in S /\ rank[InOrder(S)[n]] = n
  <2>1. PICK k \in S : rank[k] = n
    <3> HIDE DEF rank
    <3> QED BY <1>6 DEF Surjection
  <2>2. Cardinality(Under(k)) = n - 1 BY <2>1, <1>2
  <2>3. InOrder(S)[n] \in S /\ Cardinality(Under(InOrder(S)[n])) = n - 1 BY <2>2, <1>7
  <2> QED BY <2>3
<1>9. DOMAIN InOrder(S) = 1 .. n0 BY DEF InOrder
<1>10. InOrder(S) \in Seq(Nat) /\ Len(InOrder(S)) = n0
  <2>1. \A n \in 1 .. n0 : InOrder(S)[n] \in Nat BY <1>8
  <2> DEFINE nth(n) == CHOOSE i \in S : Cardinality({j \in S : j < i}) = n - 1
  <2>2. InOrder(S) = [n \in 1 .. n0 |-> nth(n)] BY DEF InOrder
  <2>a. \A n \in 1 .. n0 : nth(n) \in Nat BY <2>1, <1>7
  <2> HIDE DEF nth
  <2>3. InOrder(S) \in [1 .. n0 -> Nat] BY <2>2, <2>a
  <2> QED BY <1>1, <2>3
<1>11. ASSUME NEW i \in S PROVE \E n \in 1 .. n0 : InOrder(S)[n] = i
  <2>1. rank[i] \in 1 .. n0 BY <1>4
  <2>2. InOrder(S)[rank[i]] \in S /\ rank[InOrder(S)[rank[i]]] = rank[i] BY <2>1, <1>8
  <2>3. InOrder(S)[rank[i]] = i
    <3> HIDE DEF rank
    <3> QED BY <2>2, <1>5 DEF Injection, IsInjective
  <2> QED BY <2>1, <2>3
<1>12. ToSet(InOrder(S)) = S
  <2> HIDE DEF n0
  <2> QED BY <1>8, <1>9, <1>11 DEF ToSet
<1> QED BY <1>10, <1>12

\* The ends of an interval.
LEMMA IntervalEnds ==
    ASSUME NEW a \in Int, NEW b \in Int, a <= b
    PROVE  Largest(a .. b) = b /\ Smallest(a .. b) = a
<1>1. b \in a .. b /\ \A j \in a .. b : j <= b OBVIOUS
<1>2. a \in a .. b /\ \A j \in a .. b : a <= j OBVIOUS
<1> QED BY <1>1, <1>2 DEF Largest, Smallest

\* A batch is the messages from one to another.
LEMMA BeforeIsInterval ==
    ASSUME DitTypes, NEW c \in 0 .. room
    PROVE  \E a \in 1 .. room + 1 :
              /\ Before(c) = a .. (IF c = 0 THEN room ELSE c - 1)
              /\ c # 0 => a <= c
              /\ (IF c = 0 THEN room ELSE c - 1) - a + 1 <= Limit
<1>1. room \in Nat /\ Limit \in Nat \ {0} BY DitAssumption DEF DitTypes
<1> DEFINE b == IF c = 0 THEN room ELSE c - 1
           a == IF b + 1 - Limit >= 1 THEN b + 1 - Limit ELSE 1
<1>2. b \in Int /\ a \in 1 .. room + 1 /\ b <= room BY <1>1
<1>3. \A i \in Int : i \in 1 .. room /\ i >= (IF c = 0 THEN room + 1 ELSE c) - Limit /\ (c # 0 => i < c)
                     <=> i \in a .. b
  BY <1>1
<1>4. Before(c) = a .. b BY <1>1, <1>3 DEF Before
<1>5. (c # 0 => a <= c) /\ b - a + 1 <= Limit BY <1>1
<1> QED BY <1>2, <1>4, <1>5

\* A page after a cursor is an interval that begins behind it.
LEMMA AfterIsInterval ==
    ASSUME DitTypes, NEW c \in 0 .. room, NEW page \in After(c)
    PROVE  \E a \in 1 .. room + 1, b \in 0 .. room :
              page = a .. b /\ b - a + 1 <= Limit /\ (c # 0 => a = c + 1)
<1>1. room \in Nat /\ Limit \in Nat \ {0} BY DitAssumption DEF DitTypes
<1>2. CASE c # 0
  <2> DEFINE b == IF c + Limit <= room THEN c + Limit ELSE room
  <2>1. page = {i \in 1 .. room : i > c /\ i <= c + Limit} BY <1>2 DEF After
  <2>2. \A i \in Int : i \in 1 .. room /\ i > c /\ i <= c + Limit <=> i \in c + 1 .. b BY <1>1, <1>2
  <2>3. page = c + 1 .. b BY <2>1, <2>2
  <2>4. c + 1 \in 1 .. room + 1 /\ b \in 0 .. room /\ b - (c + 1) + 1 <= Limit BY <1>1
  <2> HIDE DEF b
  <2> QED BY <2>3, <2>4
<1>3. CASE page = {i \in 1 .. room : i <= Limit} /\ c = 0
  <2> DEFINE b == IF Limit <= room THEN Limit ELSE room
  <2>1. \A i \in Int : i \in 1 .. room /\ i <= Limit <=> i \in 1 .. b BY <1>1
  <2>2. page = 1 .. b BY <2>1, <1>3
  <2>3. 1 \in 1 .. room + 1 /\ b \in 0 .. room /\ b - 1 + 1 <= Limit BY <1>1
  <2> HIDE DEF b
  <2> QED BY <1>3, <2>2, <2>3
<1>4. CASE page = {i \in 1 .. room : i > room - Limit} /\ c = 0
  <2> DEFINE a == IF room - Limit >= 0 THEN room - Limit + 1 ELSE 1
  <2>1. \A i \in Int : i \in 1 .. room /\ i > room - Limit <=> i \in a .. room BY <1>1
  <2>2. page = a .. room BY <2>1, <1>4
  <2>3. a \in 1 .. room + 1 /\ room \in 0 .. room /\ room - a + 1 <= Limit BY <1>1
  <2> HIDE DEF a
  <2> QED BY <1>4, <2>2, <2>3
<1> QED BY <1>2, <1>3, <1>4 DEF After


\* The elements of a sequence are of its type.
LEMMA ToSetOfSeq ==
    ASSUME NEW S, NEW s \in Seq(S)
    PROVE  ToSet(s) \subseteq S
<1>1. DOMAIN s = 1 .. Len(s) /\ \A i \in 1 .. Len(s) : s[i] \in S BY LenProperties, ElementOfSeq
<1> QED BY <1>1 DEF ToSet

\* The capped list of seen ids keeps the newest.
LEMMA RememberKeeps ==
    ASSUME seen \in Seq(Nat), NEW new \in Seq(Nat)
    PROVE  /\ Remember(new) \in Seq(Nat)
           /\ ToSet(Remember(new)) \subseteq ToSet(seen) \cup ToSet(new)
           /\ seen = <<>> /\ Len(new) <= SeenMax => ToSet(Remember(new)) = ToSet(new)
<1> DEFINE all == seen \o new
           from == IF Len(all) > SeenMax THEN Len(all) - SeenMax + 1 ELSE 1
           S == ToSet(seen) \cup ToSet(new)
<1>1. Remember(new) = SubSeq(all, from, Len(all)) BY DEF Remember
<1>2. /\ all \in Seq(Nat) /\ Len(all) = Len(seen) + Len(new) /\ Len(seen) \in Nat /\ Len(new) \in Nat
      /\ \A i \in 1 .. Len(seen) + Len(new) :
            all[i] = IF i <= Len(seen) THEN seen[i] ELSE new[i - Len(seen)]
      /\ DOMAIN seen = 1 .. Len(seen) /\ DOMAIN new = 1 .. Len(new)
  BY ConcatProperties, LenProperties
<1>3. SeenMax \in Nat BY DitAssumption
<1>4. \A i \in 1 .. Len(all) : all[i] \in S
  <2> SUFFICES ASSUME NEW i \in 1 .. Len(all) PROVE all[i] \in S OBVIOUS
  <2>1. CASE i <= Len(seen)
    <3>1. i \in DOMAIN seen /\ all[i] = seen[i] BY <1>2, <2>1
    <3> QED BY <3>1 DEF ToSet
  <2>2. CASE i > Len(seen)
    <3>1. i - Len(seen) \in DOMAIN new /\ all[i] = new[i - Len(seen)]
      <4> HIDE DEF all
      <4> QED BY <1>2, <2>2
    <3> QED BY <3>1 DEF ToSet
  <2> QED BY <1>2, <2>1, <2>2
<1>5. S \subseteq Nat BY ToSetOfSeq
<1>6. Remember(new) \in Seq(S)
  <2>1. from \in Int /\ Len(all) \in Int /\ from >= 1 BY <1>2, <1>3
  <2> HIDE DEF from, all
  <2>2. \A i \in from .. Len(all) : i \in 1 .. Len(all) BY <2>1
  <2> HIDE DEF S
  <2> QED BY <1>1, <1>4, <2>1, <2>2, SubSeqProperties
<1>7. Remember(new) \in Seq(Nat) BY <1>5, <1>6, SeqMonotonic
<1>8. ToSet(Remember(new)) \subseteq S
  <2> HIDE DEF S
  <2> QED BY <1>6, ToSetOfSeq
<1>9. ASSUME seen = <<>>, Len(new) <= SeenMax PROVE Remember(new) = new
  <2>1. all = new BY <1>9, ConcatEmptySeq
  <2>2. from = 1 BY <1>2, <1>3, <1>9, <2>1
  <2> QED BY <1>1, <2>1, <2>2, SubSeqFull
<1> QED BY <1>7, <1>8, <1>9

\* A batch is handed over, whatever ends the poll.
LEMMA BatchHandedOver ==
    ASSUME DitInv, poll # NoPoll, UNCHANGED <<room, bootstrapped>>,
           NEW batch, batch \subseteq 1 .. room, Cardinality(batch) <= SeenMax, PollEnds(batch),
           state = "connected" => batch \cap got \subseteq ToSet(seen),
           batch # {} => /\ Largest(batch) \in batch /\ \A i \in batch : i <= Largest(batch)
                         /\ state = "connected" => \A g \in got : g <= Largest(batch)
    PROVE  /\ seen' \in Seq(Nat) /\ cursor' \in 0 .. room /\ got' \subseteq 1 .. room
           /\ poll' = NoPoll /\ state' \in {"connected", "disconnected"} /\ ~twice'
           /\ state' = "connected" =>
                 /\ state = "connected" /\ got' = got \cup batch
                 /\ \A g \in got' : g <= cursor'
                 /\ ToSet(seen') \subseteq got'
                 /\ ~bootstrapped => got' \subseteq ToSet(seen')
<1>1. DitTypes /\ StaleInv /\ CursorInv /\ SeenInv /\ ~twice BY DEF DitInv
<1>2. room \in Nat /\ seen \in Seq(Nat) /\ cursor \in 0 .. room /\ got \subseteq 1 .. room
  BY <1>1 DEF DitTypes
<1> DEFINE fresh == batch \ ToSet(seen)
           new == InOrder(fresh)
<1>3. IsFiniteSet(batch) /\ IsFiniteSet(fresh) /\ Cardinality(fresh) <= Cardinality(batch)
  <2>1. IsFiniteSet(1 .. room) BY <1>2, FS_Interval
  <2>2. IsFiniteSet(batch) BY <2>1, FS_Subset
  <2>3. fresh \in SUBSET batch OBVIOUS
  <2> QED BY <2>2, <2>3, FS_Subset
<1>4. /\ new \in Seq(Nat) /\ Len(new) = Cardinality(fresh) /\ ToSet(new) = fresh
  <2>1. fresh \subseteq Nat
    <3>1. 1 .. room \subseteq Nat BY <1>2
    <3> QED BY <3>1
  <2> HIDE DEF fresh
  <2> QED BY <1>3, <2>1, InOrderHasAll
<1>5. new = ToTransportEvents(batch) BY DEF ToTransportEvents
<1> HIDE DEF new
<1>6. /\ seen' = Remember(new)
      /\ cursor' = IF batch = {} THEN cursor ELSE Largest(batch)
      /\ poll' = NoPoll
      /\ \/ state = "connected" /\ got' = got \cup fresh /\ twice' = (twice \/ fresh \cap got # {})
            /\ state' = "connected"
         \/ state = "disconnecting" /\ state' = "disconnected" /\ UNCHANGED <<got, twice>>
  BY <1>4, <1>5 DEF PollEnds
<1>7. /\ seen' \in Seq(Nat) /\ ToSet(seen') \subseteq ToSet(seen) \cup fresh
      /\ seen = <<>> /\ Len(new) <= SeenMax => ToSet(seen') = fresh
  BY <1>2, <1>4, <1>6, RememberKeeps
<1>8. cursor' \in 0 .. room BY <1>2, <1>6
<1>9. CASE state = "disconnecting"
  <2>1. state' = "disconnected" /\ got' = got /\ twice' = twice BY <1>6, <1>9
  <2>2. ~twice' BY <1>1, <2>1, Zenon
  <2> QED BY <1>2, <1>6, <1>7, <1>8, <2>1, <2>2
<1>10. CASE state = "connected"
  <2>1. state' = "connected" /\ got' = got \cup fresh /\ twice' = (twice \/ fresh \cap got # {})
    BY <1>6, <1>10
  <2>2. ToSet(seen) \subseteq got BY <1>1, <1>10 DEF SeenInv
  <2>3. ~twice' BY <1>1, <1>10, <2>1
  <2>4. got' = got \cup batch BY <2>1, <2>2
  <2>5. got' \subseteq 1 .. room BY <2>4, <1>2
  <2>6. \A g \in got' : g <= cursor' BY <2>4, <1>1, <1>6, <1>10 DEF CursorInv
  <2>7. ToSet(seen') \subseteq got' BY <2>1, <2>2, <1>7
  <2>8. ASSUME ~bootstrapped PROVE got' \subseteq ToSet(seen')
    <3>1. got = {} /\ seen = <<>> BY <2>8, <1>1, <1>10 DEF StaleInv
    <3>2. Len(new) <= SeenMax
      <4>1. Cardinality(fresh) \in Nat /\ Cardinality(batch) \in Nat BY <1>3, FS_CardinalityType
      <4> QED BY <4>1, <1>3, <1>4, DitAssumption
    <3>3. ToSet(seen') = fresh BY <3>1, <3>2, <1>7
    <3> QED BY <3>1, <3>3, <2>1
  <2> QED BY <2>1, <2>3, <2>4, <2>5, <2>6, <2>7, <2>8, <1>7, <1>8, <1>6, <1>10
<1> QED BY <1>6, <1>9, <1>10

\* The invariant after a poll has ended, given what became of floor.
LEMMA EndKeeps ==
    ASSUME DitInv, UNCHANGED <<room, bootstrapped>>, floor' \in Nat,
           seen' \in Seq(Nat), cursor' \in 0 .. room, got' \subseteq 1 .. room,
           poll' = NoPoll, state' \in {"connected", "disconnected"}, ~twice',
           state' = "connected" =>
                 /\ \A g \in got' : g <= cursor'
                 /\ ToSet(seen') \subseteq got'
                 /\ ~bootstrapped => got' \subseteq ToSet(seen')
                 /\ floor' # 0 => floor' <= cursor' /\ floor' .. cursor' \subseteq got'
    PROVE  DitInv'
<1>1. room \in Nat /\ bootstrapped \in BOOLEAN BY DEF DitInv, DitTypes
<1>2. poll' \in Polls /\ poll'.stage = "none" BY DEF Polls, NoPoll
<1>3. DitTypes' BY <1>1, <1>2 DEF DitTypes, Polls, NoPoll
<1>4. CollectedInv' BY <1>2 DEF CollectedInv
<1>a. FromInv' BY <1>2 DEF FromInv
<1>5. StaleInv' BY DEF StaleInv, NoPoll
<1>6. CursorInv' BY <1>2 DEF CursorInv
<1>7. SeenInv' BY <1>2 DEF SeenInv
<1> QED BY <1>3, <1>4, <1>a, <1>5, <1>6, <1>7 DEF DitInv


\* A bootstrap's pages fit into the list of seen ids.
LEMMA PageSizes == \A m \in Nat : m <= MaxPages => Limit * m <= SeenMax /\ Limit * m \in Nat
<1> SUFFICES ASSUME NEW m \in Nat, m <= MaxPages PROVE Limit * m <= SeenMax /\ Limit * m \in Nat OBVIOUS
<1>1. Limit \in Nat /\ MaxPages \in Nat /\ SeenMax \in Nat /\ Limit * MaxPages <= SeenMax BY DitAssumption
<1>2. Limit * (MaxPages - m) >= 0 BY <1>1
<1>3. Limit * MaxPages = Limit * m + Limit * (MaxPages - m) BY <1>1
<1>4. Limit * m \in Nat /\ Limit * (MaxPages - m) \in Int /\ Limit * MaxPages \in Int BY <1>1
<1> QED BY <1>1, <1>2, <1>3, <1>4

\* The bootstrap hands over what it has collected.
LEMMA HistoryEndKeeps ==
    ASSUME DitInv, poll.stage = "history", UNCHANGED <<room, bootstrapped>>,
           NEW from \in Nat, NEW top \in Nat, 1 <= from, top <= room, NEW m \in Nat, m <= MaxPages,
           top - from + 1 <= Limit * m,
           state = "connected" => \A g \in got : g <= top,
           NEW batch, batch = from .. top, PollEnds(batch),
           floor' = IF batch = {} THEN 0 ELSE Smallest(batch)
    PROVE  DitInv'
<1>1. DitTypes /\ StaleInv /\ CursorInv /\ SeenInv /\ ~twice BY DEF DitInv
<1>2. room \in Nat BY <1>1 DEF DitTypes
<1>3. poll # NoPoll BY DEF NoPoll
<1>4. batch \subseteq 1 .. room BY <1>2
<1>5. Cardinality(batch) <= SeenMax
  <2>1. Cardinality(batch) = IF from > top THEN 0 ELSE top - from + 1 BY FS_Interval
  <2>2. Limit * m <= SeenMax /\ Limit * m \in Nat BY PageSizes
  <2> QED BY <2>1, <2>2, DitAssumption
<1>6. batch # {} => from <= top BY <1>2
<1>7. batch # {} => Largest(batch) = top /\ Smallest(batch) = from BY <1>6, IntervalEnds
<1>8. batch # {} => /\ Largest(batch) \in batch /\ \A i \in batch : i <= Largest(batch)
                    /\ state = "connected" => \A g \in got : g <= Largest(batch)
  BY <1>6, <1>7
<1>9. state = "connected" => batch \cap got \subseteq ToSet(seen) BY <1>1 DEF SeenInv
<1>10. /\ seen' \in Seq(Nat) /\ cursor' \in 0 .. room /\ got' \subseteq 1 .. room
       /\ poll' = NoPoll /\ state' \in {"connected", "disconnected"} /\ ~twice'
       /\ state' = "connected" =>
             /\ state = "connected" /\ got' = got \cup batch
             /\ \A g \in got' : g <= cursor'
             /\ ToSet(seen') \subseteq got'
             /\ ~bootstrapped => got' \subseteq ToSet(seen')
  BY <1>3, <1>4, <1>5, <1>8, <1>9, BatchHandedOver
<1>11. cursor' = IF batch = {} THEN cursor ELSE Largest(batch) BY DEF PollEnds
<1>12. floor' \in Nat /\ (floor' # 0 => floor' <= cursor' /\ floor' .. cursor' = batch)
  BY <1>6, <1>7, <1>11
<1>13. state' = "connected" => batch \subseteq got' BY <1>10
<1> QED BY <1>10, <1>12, <1>13, EndKeeps

\* The page before what a history poll has collected continues it downwards.
LEMMA PageContinues ==
    ASSUME DitInv, poll.stage = "history"
    PROVE  \E a \in 1 .. room + 1, top \in 0 .. room :
              /\ Before(poll.from) = a .. (IF poll.from = 0 THEN room ELSE poll.from - 1)
              /\ poll.collected \cup Before(poll.from) = a .. top
              /\ (IF poll.from = 0 THEN room ELSE poll.from - 1) - a + 1 <= Limit
              /\ top - a + 1 <= Limit * (poll.pages + 1) /\ (Before(poll.from) # {} => top # 0 /\ a <= top)
              /\ state = "connected" => \A g \in got : g <= top
<1>1. DitTypes /\ CollectedInv /\ StaleInv /\ CursorInv /\ SeenInv /\ ~twice BY DEF DitInv
<1>2. room \in Nat /\ got \subseteq 1 .. room /\ Limit \in Nat \ {0} /\ MaxPages \in Nat \ {0}
  BY <1>1, DitAssumption DEF DitTypes
<1>3. poll.stage = "history" OBVIOUS
<1>4. /\ poll.from \in Nat /\ poll.pages \in Nat /\ poll.pages < MaxPages
      /\ poll.pages = 0 => poll.from = 0 /\ poll.collected = {}
      /\ poll.pages # 0 =>
              \E top \in 1 .. room :
                 /\ poll.from \in 1 .. top /\ poll.collected = poll.from .. top
                 /\ top - poll.from + 1 <= Limit * poll.pages
                 /\ state = "connected" => \A g \in got : g <= top
  <2>1. poll \in [stage : {"history"}, from : Nat, pages : Nat, collected : SUBSET Nat]
    BY <1>1, <1>3 DEF DitTypes, Polls, NoPoll
  <2> QED BY <2>1, <1>1, <1>3 DEF CollectedInv
<1> DEFINE c == poll.from
           page == Before(c)
           collected == poll.collected \cup page
           m == poll.pages + 1
<1>5. c \in 0 .. room BY <1>2, <1>4
<1>6. PICK a \in 1 .. room + 1 :
            /\ page = a .. (IF c = 0 THEN room ELSE c - 1)
            /\ c # 0 => a <= c
            /\ (IF c = 0 THEN room ELSE c - 1) - a + 1 <= Limit
  BY <1>5, <1>1, BeforeIsInterval
<1>7. Limit * m = Limit * poll.pages + Limit /\ Limit * poll.pages \in Nat BY <1>2, <1>4
<1> SUFFICES \E a_1 \in 1 .. room + 1, top \in 0 .. room :
         /\ page = a_1 .. (IF c = 0 THEN room ELSE c - 1) /\ collected = a_1 .. top
         /\ (IF c = 0 THEN room ELSE c - 1) - a_1 + 1 <= Limit
         /\ top - a_1 + 1 <= Limit * m /\ (page # {} => top # 0 /\ a_1 <= top)
         /\ state = "connected" => \A g \in got : g <= top
  BY Zenon
<1> HIDE DEF page
<1>8. CASE poll.pages = 0
  <2>1. c = 0 /\ collected = page BY <1>8, <1>4
  <2>2. collected = a .. room /\ room - a + 1 <= Limit BY <2>1, <1>6
  <2>3. Limit * m = Limit BY <1>8, <1>2
  <2>4. \A g \in got : g <= room BY <1>2
  <2>5. room \in 0 .. room BY <1>2
  <2>6. page # {} => room # 0 /\ a <= room BY <2>1, <1>6, <1>2
  <2> QED BY <2>2, <2>3, <2>4, <2>5, <2>6, <1>6
<1>9. CASE poll.pages # 0
  <2>1. PICK top \in 1 .. room :
               /\ c \in 1 .. top /\ poll.collected = c .. top
               /\ top - c + 1 <= Limit * poll.pages
               /\ state = "connected" => \A g \in got : g <= top
    BY <1>9, <1>4
  <2>2. page = a .. c - 1 /\ a <= c /\ c - 1 - a + 1 <= Limit BY <2>1, <1>6
  <2> HIDE DEF c
  <2>3. collected = a .. top BY <2>1, <2>2
  <2>4. top - a + 1 <= Limit * m
    <3> HIDE DEF m
    <3> QED BY <2>1, <2>2, <1>7, <1>2
  <2>5. top \in 0 .. room /\ top # 0 /\ a <= top BY <2>1, <2>2
  <2> QED BY <2>1, <2>3, <2>4, <2>5, <1>6
<1> QED BY <1>8, <1>9

\* A page of the bootstrap.
LEMMA HistoryPageKeeps == ASSUME DitInv, HistoryPage PROVE DitInv'
<1>1. DitTypes /\ CollectedInv /\ StaleInv /\ CursorInv /\ SeenInv /\ ~twice BY DEF DitInv
<1>2. room \in Nat /\ got \subseteq 1 .. room /\ Limit \in Nat \ {0} /\ MaxPages \in Nat \ {0}
  BY <1>1, DitAssumption DEF DitTypes
<1>3. poll.stage = "history" /\ UNCHANGED <<room, bootstrapped>> BY DEF HistoryPage
<1>4. /\ poll.from \in Nat /\ poll.pages \in Nat /\ poll.pages < MaxPages
      /\ poll.pages = 0 => poll.from = 0 /\ poll.collected = {}
      /\ poll.pages # 0 =>
              \E top \in 1 .. room :
                 /\ poll.from \in 1 .. top /\ poll.collected = poll.from .. top
                 /\ top - poll.from + 1 <= Limit * poll.pages
                 /\ state = "connected" => \A g \in got : g <= top
  <2>1. poll \in [stage : {"history"}, from : Nat, pages : Nat, collected : SUBSET Nat]
    BY <1>1, <1>3 DEF DitTypes, Polls, NoPoll
  <2> QED BY <2>1, <1>1, <1>3 DEF CollectedInv
<1> DEFINE c == poll.from
           page == Before(c)
           collected == poll.collected \cup page
           m == poll.pages + 1
<1>5. \E a \in 1 .. room + 1, top \in 0 .. room :
         /\ page = a .. (IF c = 0 THEN room ELSE c - 1) /\ collected = a .. top
         /\ (IF c = 0 THEN room ELSE c - 1) - a + 1 <= Limit
         /\ top - a + 1 <= Limit * m /\ (page # {} => top # 0 /\ a <= top)
         /\ state = "connected" => \A g \in got : g <= top
  BY <1>3, PageContinues, Zenon
<1>6. PICK a \in 1 .. room + 1, top \in 0 .. room :
         /\ page = a .. (IF c = 0 THEN room ELSE c - 1) /\ collected = a .. top
         /\ (IF c = 0 THEN room ELSE c - 1) - a + 1 <= Limit
         /\ top - a + 1 <= Limit * m /\ (page # {} => top # 0 /\ a <= top)
         /\ state = "connected" => \A g \in got : g <= top
  BY <1>5
<1>7. m \in Nat /\ m <= MaxPages /\ c \in Nat BY <1>2, <1>4
<1>8. CASE PollEnds(collected) /\ floor' = IF collected = {} THEN 0 ELSE Smallest(collected)
  <2>1. /\ a \in Nat /\ top \in Nat /\ 1 <= a /\ top <= room /\ collected = a .. top
        /\ top - a + 1 <= Limit * m /\ (state = "connected" => \A g \in got : g <= top)
    BY <1>2, <1>6
  <2> HIDE DEF collected, m, page, c
  <2>2. PICK batch : batch = collected OBVIOUS
  <2>3. /\ batch = a .. top /\ PollEnds(batch)
        /\ floor' = IF batch = {} THEN 0 ELSE Smallest(batch)
    BY <2>1, <2>2, <1>8
  <2> QED BY <1>3, <1>7, <2>1, <2>3, HistoryEndKeeps
<1>9. CASE /\ Cardinality(page) = Limit /\ m < MaxPages
           /\ poll' = [poll EXCEPT !.from = Smallest(page), !.pages = @ + 1, !.collected = collected]
           /\ UNCHANGED <<state, seen, cursor, got, floor, twice>>
  <2>1. page # {}
    <3>1. Cardinality({}) = 0 BY FS_EmptySet
    <3> QED BY <3>1, <1>2, <1>9
  <2>2. Smallest(page) = a
    <3> DEFINE b == IF c = 0 THEN room ELSE c - 1
    <3>1. page = a .. b /\ b \in Int /\ a \in Int BY <1>2, <1>6, <1>7
    <3> HIDE DEF c, page, b
    <3>2. a <= b BY <2>1, <3>1
    <3> QED BY <3>1, <3>2, IntervalEnds
  <2>3. poll \in [stage : {"history"}, from : Nat, pages : Nat, collected : SUBSET Nat]
    BY <1>1, <1>3 DEF DitTypes, Polls, NoPoll
  <2>4. a \in Nat /\ collected \in SUBSET Nat
    <3>1. a .. top \subseteq Nat BY <1>2
    <3> QED BY <3>1, <1>2, <1>6
  <2>5. /\ poll' \in [stage : {"history"}, from : Nat, pages : Nat, collected : SUBSET Nat]
        /\ poll'.stage = "history" /\ poll'.from = a /\ poll'.pages = m /\ poll'.collected = collected
    <3> HIDE DEF page, collected, c
    <3>1. poll' = [poll EXCEPT !.from = a, !.pages = poll.pages + 1, !.collected = collected] BY <1>9, <2>2
    <3>2. poll.pages + 1 \in Nat BY <1>4
    <3> QED BY <3>1, <3>2, <2>3, <2>4
  <2>6. DitTypes' BY <1>1, <1>3, <1>9, <2>5 DEF DitTypes, Polls
  <2>7. CollectedInv'
    <3>1. m # 0 /\ m < MaxPages BY <1>4, <1>9
    <3>2. top \in 1 .. room /\ a \in 1 .. top BY <1>6, <2>1, <1>2
    <3> HIDE DEF m, collected, page, c
    <3> QED BY <3>1, <3>2, <2>5, <1>3, <1>6, <1>9 DEF CollectedInv
  <2>8. StaleInv' /\ FromInv' BY <1>1, <1>3, <1>9, <2>5 DEF StaleInv, NoPoll, FromInv
  <2>9. CursorInv' BY <1>1, <1>3, <1>9, <2>5 DEF CursorInv
  <2>10. SeenInv' BY <1>1, <1>3, <1>9, <2>5 DEF SeenInv
  <2>11. ~twice' BY <1>1, <1>9, Zenon
  <2> QED BY <2>6, <2>7, <2>8, <2>9, <2>10, <2>11 DEF DitInv
<1> QED BY <1>8, <1>9 DEF HistoryPage

\* A page behind the cursor.
LEMMA AfterPageKeeps == ASSUME DitInv, AfterPage PROVE DitInv'
<1>1. DitTypes /\ StaleInv /\ CursorInv /\ SeenInv /\ ~twice BY DEF DitInv
<1>2. room \in Nat /\ got \subseteq 1 .. room /\ cursor \in 0 .. room /\ floor \in Nat
      /\ bootstrapped \in BOOLEAN /\ Limit \in Nat \ {0}
  BY <1>1, DitAssumption DEF DitTypes
<1>3. PICK page \in After(poll.from) :
          /\ PollEnds(page)
          /\ floor' = IF floor = 0 /\ page # {} THEN Smallest(page) ELSE floor
  BY DEF AfterPage
<1>4. poll.stage = "after" /\ UNCHANGED <<room, bootstrapped>> /\ poll # NoPoll
  BY DEF AfterPage, NoPoll
<1>5. \E a \in 1 .. room + 1, b \in 0 .. room :
         page = a .. b /\ b - a + 1 <= Limit /\ (poll.from # 0 => a = poll.from + 1)
  <2>1. poll \in [stage : {"after"}, from : Nat] BY <1>1, <1>4 DEF DitTypes, Polls, NoPoll
  <2>2. poll.from \in 0 .. room BY <2>1, <1>2, <1>4 DEF DitInv, FromInv
  <2> QED BY <1>1, <1>3, <2>2, AfterIsInterval
<1>6. PICK a \in 1 .. room + 1, b \in 0 .. room :
         page = a .. b /\ b - a + 1 <= Limit /\ (poll.from # 0 => a = poll.from + 1)
  BY <1>5
<1>7. /\ page \subseteq 1 .. room
      /\ page # {} => a <= b /\ Largest(page) = b /\ Smallest(page) = a
  <2>1. page # {} => a <= b BY <1>6
  <2>2. page \subseteq 1 .. room BY <1>2, <1>6
  <2> QED BY <2>1, <2>2, <1>6, IntervalEnds
<1>8. Cardinality(page) <= SeenMax
  <2>1. Cardinality(page) = IF a > b THEN 0 ELSE b - a + 1 BY <1>6, FS_Interval
  <2>2. Limit * 1 <= SeenMax /\ Limit * 1 \in Nat BY PageSizes, DitAssumption
  <2>3. Limit * 1 = Limit BY <1>2
  <2> QED BY <2>1, <2>2, <2>3, <1>2, <1>6, DitAssumption
<1>9. ASSUME state = "connected", bootstrapped
      PROVE  /\ poll.from = cursor /\ (cursor # 0 => a = cursor + 1) /\ (cursor = 0 => got = {})
             /\ \A g \in got : g < a
  <2>1. poll.from = cursor BY <1>1, <1>4, <1>9 DEF CursorInv
  <2>2. \A g \in got : g <= cursor BY <1>1, <1>9 DEF CursorInv
  <2>3. cursor = 0 => got = {} BY <2>2, <1>2
  <2> QED BY <2>1, <2>2, <2>3, <1>2, <1>6
<1>10. ASSUME state = "connected", ~bootstrapped
       PROVE  got = {} /\ seen = <<>> /\ cursor = 0 /\ floor = 0
  BY <1>1, <1>4, <1>10 DEF StaleInv
<1>11. state = "connected" => /\ page \cap got = {} /\ \A g \in got : page # {} => g <= b
  BY <1>2, <1>6, <1>7, <1>9, <1>10
<1>12. page # {} => /\ Largest(page) \in page /\ \A i \in page : i <= Largest(page)
                    /\ state = "connected" => \A g \in got : g <= Largest(page)
  BY <1>6, <1>7, <1>11
<1>13. /\ seen' \in Seq(Nat) /\ cursor' \in 0 .. room /\ got' \subseteq 1 .. room
       /\ poll' = NoPoll /\ state' \in {"connected", "disconnected"} /\ ~twice'
       /\ state' = "connected" =>
             /\ state = "connected" /\ got' = got \cup page
             /\ \A g \in got' : g <= cursor'
             /\ ToSet(seen') \subseteq got'
             /\ ~bootstrapped => got' \subseteq ToSet(seen')
  BY <1>3, <1>4, <1>7, <1>8, <1>11, <1>12, BatchHandedOver
<1>14. cursor' = IF page = {} THEN cursor ELSE b BY <1>3, <1>7 DEF PollEnds
<1>15. floor' \in Nat BY <1>2, <1>3, <1>7
<1>16. ASSUME state' = "connected", floor' # 0
       PROVE  floor' <= cursor' /\ floor' .. cursor' \subseteq got'
  <2>1. state = "connected" /\ got' = got \cup page BY <1>13, <1>16
  <2>2. CASE page = {} BY <2>1, <2>2, <1>1, <1>3, <1>14, <1>16 DEF CursorInv
  <2>3. CASE page # {} /\ floor = 0
    <3>1. floor' = a /\ cursor' = b BY <2>3, <1>3, <1>7, <1>14
    <3> QED BY <3>1, <2>1, <2>3, <1>6, <1>7
  <2>4. CASE page # {} /\ floor # 0
    <3>1. floor' = floor /\ cursor' = b BY <2>4, <1>3, <1>7, <1>14
    <3>2. floor <= cursor /\ floor .. cursor \subseteq got BY <2>1, <2>4, <1>1 DEF CursorInv
    <3>3. bootstrapped /\ cursor # 0 BY <2>1, <2>4, <3>2, <1>2, <1>10
    <3>4. a = cursor + 1 BY <3>3, <2>1, <1>9
    <3>5. a <= b BY <2>4, <1>7
    <3>6. \A i \in floor .. b : i \in floor .. cursor \/ i \in a .. b BY <3>4, <1>2
    <3>7. floor <= b BY <3>2, <3>4, <3>5, <1>2
    <3> QED BY <3>1, <3>2, <3>6, <3>7, <2>1, <1>6
  <2> QED BY <2>2, <2>3, <2>4
<1> QED BY <1>4, <1>13, <1>15, <1>16, EndKeeps


\* A poll that failed, or of a connection that is over.
LEMMA UnsuccessfulKeeps == ASSUME DitInv, Unsuccessful PROVE DitInv'
<1>1. DitTypes /\ CollectedInv /\ StaleInv /\ CursorInv /\ SeenInv /\ ~twice BY DEF DitInv
<1>2. room \in Nat /\ got \subseteq 1 .. room /\ cursor \in 0 .. room /\ floor \in Nat
  BY <1>1 DEF DitTypes
<1>3. poll # NoPoll /\ UNCHANGED <<room, bootstrapped>> BY DEF Unsuccessful
<1>4. CASE poll.stage = "history" /\ poll.pages # 0
  <2>1. poll \in [stage : {"history"}, from : Nat, pages : Nat, collected : SUBSET Nat]
    BY <1>1, <1>4 DEF DitTypes, Polls, NoPoll
  <2>2. PICK top \in 1 .. room :
                 /\ poll.from \in 1 .. top /\ poll.collected = poll.from .. top
                 /\ top - poll.from + 1 <= Limit * poll.pages
                 /\ state = "connected" => \A g \in got : g <= top
    BY <1>1, <1>4 DEF CollectedInv
  <2>3. poll.pages \in Nat /\ poll.pages <= MaxPages
    BY <2>1, <1>1, <1>4, DitAssumption DEF CollectedInv
  <2>4. poll.from \in Nat /\ top \in Nat /\ 1 <= poll.from /\ top <= room BY <2>1, <2>2, <1>2
  <2>5. poll.collected # {} BY <2>2
  <2>6. PICK batch : batch = poll.collected OBVIOUS
  <2>7. /\ batch = poll.from .. top /\ PollEnds(batch)
        /\ floor' = IF batch = {} THEN 0 ELSE Smallest(batch)
    BY <2>2, <2>5, <2>6, <1>4 DEF Unsuccessful
  <2> QED BY <1>3, <1>4, <2>2, <2>3, <2>4, <2>7, HistoryEndKeeps
<1>5. CASE ~(poll.stage = "history" /\ poll.pages # 0)
  <2>1. poll.stage = "history" => poll.collected = {} BY <1>1, <1>5 DEF CollectedInv
  <2>2. PollEnds({}) /\ floor' = floor BY <2>1 DEF Unsuccessful
  <2>3. Cardinality({}) <= SeenMax BY FS_EmptySet, DitAssumption
  <2>4. /\ seen' \in Seq(Nat) /\ cursor' \in 0 .. room /\ got' \subseteq 1 .. room
        /\ poll' = NoPoll /\ state' \in {"connected", "disconnected"} /\ ~twice'
        /\ state' = "connected" =>
              /\ state = "connected" /\ got' = got \cup {}
              /\ \A g \in got' : g <= cursor'
              /\ ToSet(seen') \subseteq got'
              /\ ~bootstrapped => got' \subseteq ToSet(seen')
    BY <1>3, <2>2, <2>3, BatchHandedOver
  <2>5. cursor' = cursor BY <2>2 DEF PollEnds
  <2>6. state' = "connected" /\ floor' # 0 => floor' <= cursor' /\ floor' .. cursor' \subseteq got'
    BY <1>1, <2>2, <2>4, <2>5 DEF CursorInv
  <2> QED BY <1>2, <1>3, <2>2, <2>4, <2>6, EndKeeps
<1> QED BY <1>4, <1>5

\* A poll starts.
LEMMA PollStartsKeeps == ASSUME DitInv, PollStarts PROVE DitInv'
<1>1. DitTypes /\ StaleInv /\ CursorInv /\ SeenInv /\ ~twice BY DEF DitInv
<1>2. /\ state = "connected" /\ poll = NoPoll /\ bootstrapped' = TRUE
      /\ poll' = IF bootstrapped THEN [stage |-> "after", from |-> cursor]
                 ELSE [stage |-> "history", from |-> 0, pages |-> 0, collected |-> {}]
      /\ UNCHANGED <<room, state, seen, cursor, got, floor, twice>>
  BY DEF PollStarts
<1>3. cursor \in Nat /\ cursor <= room /\ MaxPages \in Nat \ {0} BY <1>1, DitAssumption DEF DitTypes
<1>4. CASE bootstrapped
  <2>1. poll' = [stage |-> "after", from |-> cursor] BY <1>2, <1>4
  <2>2. poll'.stage = "after" /\ poll'.from = cursor BY <2>1
  <2>3. poll' \in Polls BY <2>1, <1>3 DEF Polls
  <2>4. DitTypes' BY <1>1, <1>2, <2>3 DEF DitTypes, Polls, NoPoll
  <2>5. CollectedInv' /\ FromInv' BY <2>2, <1>2, <1>3 DEF CollectedInv, FromInv
  <2>6. StaleInv' /\ SeenInv' BY <1>1, <1>2, <1>4, <2>2 DEF StaleInv, SeenInv
  <2>7. CursorInv' BY <1>1, <1>2, <2>2 DEF CursorInv
  <2> QED BY <1>1, <1>2, <2>4, <2>5, <2>6, <2>7 DEF DitInv
<1>5. CASE ~bootstrapped
  <2>1. poll' = [stage |-> "history", from |-> 0, pages |-> 0, collected |-> {}] BY <1>2, <1>5
  <2>2. poll'.stage = "history" /\ poll'.from = 0 /\ poll'.pages = 0 /\ poll'.collected = {} BY <2>1
  <2>3. poll' \in Polls BY <2>1 DEF Polls
  <2>4. DitTypes' BY <1>1, <1>2, <2>3 DEF DitTypes, Polls, NoPoll
  <2>5. CollectedInv' /\ FromInv' BY <2>2, <1>2, <1>3 DEF CollectedInv, FromInv
  <2>6. StaleInv' /\ SeenInv' BY <1>1, <1>2, <1>5 DEF StaleInv, SeenInv
  <2>7. CursorInv' BY <1>1, <1>2, <2>2 DEF CursorInv
  <2> QED BY <1>1, <1>2, <2>4, <2>5, <2>6, <2>7 DEF DitInv
<1> QED BY <1>4, <1>5, <1>1 DEF DitTypes

\* connect().
LEMMA ConnectingKeeps == ASSUME DitInv, DitConnect PROVE DitInv'
<1>1. DitTypes /\ CollectedInv /\ FromInv /\ StaleInv /\ ~twice BY DEF DitInv
<1>2. /\ seen' = <<>> /\ cursor' = 0 /\ bootstrapped' = FALSE /\ got' = {} /\ floor' = 0
      /\ state' = IF state = "disconnected" THEN "connected" ELSE state
      /\ UNCHANGED <<room, poll, twice>>
  BY DEF DitConnect
<1>3. <<>> \in Seq(Nat) /\ ToSet(<<>>) = {} BY DEF ToSet
<1>4. DitTypes'
  <2>1. room' \in Nat /\ seen' \in Seq(Nat) /\ cursor' \in 0 .. room' /\ poll' \in Polls'
    BY <1>1, <1>2, <1>3 DEF DitTypes, Polls, NoPoll
  <2>2. state' \in {"disconnected", "connected", "disconnecting"} /\ bootstrapped' \in BOOLEAN
        /\ got' \subseteq 1 .. room' /\ floor' \in Nat
    BY <1>1, <1>2 DEF DitTypes
  <2> QED BY <2>1, <2>2 DEF DitTypes, Polls, NoPoll
<1>5. CollectedInv' /\ FromInv' BY <1>1, <1>2 DEF CollectedInv, FromInv
<1>6. StaleInv' /\ CursorInv' BY <1>1, <1>2 DEF StaleInv, CursorInv, NoPoll
<1>7. SeenInv' BY <1>2, <1>3 DEF SeenInv
<1> QED BY <1>1, <1>2, <1>4, <1>5, <1>6, <1>7 DEF DitInv

\* A post, a disconnect() and a poll that fails.
LEMMA OthersKeep == ASSUME DitInv, Post \/ DitDisconnect \/ PollFails PROVE DitInv'
<1>1. DitTypes /\ CollectedInv /\ FromInv /\ StaleInv /\ CursorInv /\ SeenInv /\ ~twice BY DEF DitInv
<1>2. CASE Post
  <2>1. room' = room + 1 /\ room \in Nat /\ 1 .. room \subseteq 1 .. room'
        /\ UNCHANGED <<state, seen, cursor, bootstrapped, poll, got, floor, twice>>
    BY <1>1, <1>2 DEF Post, DitTypes
  <2>2. DitTypes' BY <1>1, <2>1 DEF DitTypes, Polls, NoPoll
  <2>3. CollectedInv' BY <1>1, <2>1 DEF CollectedInv
  <2>4. FromInv'
    <3>1. poll.stage = "after" => poll \in [stage : {"after"}, from : Nat]
      BY <1>1 DEF DitTypes, Polls, NoPoll
    <3>2. poll.stage = "after" => poll.from \in Nat BY <3>1
    <3> QED BY <1>1, <2>1, <3>2 DEF FromInv
  <2>5. StaleInv' /\ CursorInv' /\ SeenInv' BY <1>1, <2>1 DEF StaleInv, CursorInv, SeenInv, NoPoll
  <2> QED BY <1>1, <2>1, <2>2, <2>3, <2>4, <2>5 DEF DitInv
<1>3. CASE DitDisconnect
  <2>1. /\ state' = IF poll = NoPoll THEN "disconnected" ELSE "disconnecting"
        /\ UNCHANGED <<room, seen, cursor, bootstrapped, poll, got, floor, twice>>
    BY <1>3 DEF DitDisconnect
  <2>2. DitTypes' BY <1>1, <2>1 DEF DitTypes, Polls, NoPoll
  <2>3. CollectedInv' /\ FromInv' BY <1>1, <2>1 DEF CollectedInv, FromInv
  <2>4. StaleInv' /\ CursorInv' /\ SeenInv' BY <2>1 DEF StaleInv, CursorInv, SeenInv, NoPoll
  <2> QED BY <1>1, <2>1, <2>2, <2>3, <2>4 DEF DitInv
<1>4. CASE PollFails
  <2>1. /\ poll' = NoPoll /\ state' = IF state = "disconnecting" THEN "disconnected" ELSE state
        /\ UNCHANGED <<room, seen, cursor, bootstrapped, got, floor, twice>>
    BY <1>4 DEF PollFails
  <2>2. poll' \in Polls /\ poll'.stage = "none" BY <2>1 DEF Polls, NoPoll
  <2>3. DitTypes' BY <1>1, <2>1, <2>2 DEF DitTypes, Polls, NoPoll
  <2>4. CollectedInv' /\ FromInv' BY <2>2 DEF CollectedInv, FromInv
  <2>5. StaleInv' BY <2>1 DEF StaleInv, NoPoll
  <2>6. CursorInv' /\ SeenInv' BY <1>1, <2>1, <2>2 DEF CursorInv, SeenInv
  <2> QED BY <1>1, <2>1, <2>3, <2>4, <2>5, <2>6 DEF DitInv
<1> QED BY <1>2, <1>3, <1>4

\* The invariant holds before the first connect().
LEMMA DitInitially == DitInit => DitInv
<1> SUFFICES ASSUME DitInit PROVE DitInv OBVIOUS
<1>1. <<>> \in Seq(Nat) /\ ToSet(<<>>) = {} /\ MaxRoom \in Nat BY DitAssumption DEF ToSet
<1>2. poll = NoPoll /\ poll.stage = "none" /\ poll \in Polls BY DEF DitInit, NoPoll, Polls
<1>3. DitTypes
  <2>1. room \in Nat /\ seen = <<>> /\ cursor = 0 /\ got = {} /\ floor = 0 BY <1>1 DEF DitInit
  <2>2. bootstrapped = FALSE /\ state = "disconnected" BY DEF DitInit
  <2>3. seen \in Seq(Nat) /\ cursor \in 0 .. room /\ got \subseteq 1 .. room /\ floor \in Nat
    BY <1>1, <2>1
  <2> QED BY <1>2, <2>1, <2>2, <2>3 DEF DitTypes
<1>4. CollectedInv /\ FromInv /\ StaleInv /\ CursorInv /\ SeenInv /\ ~twice
  BY <1>2 DEF CollectedInv, FromInv, StaleInv, CursorInv, SeenInv, DitInit
<1> QED BY <1>3, <1>4 DEF DitInv

\* Every step keeps the invariant.
LEMMA DitStep == DitInv /\ [DitNext]_ditVars => DitInv'
<1> SUFFICES ASSUME DitInv, [DitNext]_ditVars PROVE DitInv' OBVIOUS
<1>1. CASE UNCHANGED ditVars
  BY <1>1 DEF ditVars, DitInv, DitTypes, CollectedInv, FromInv, StaleInv, CursorInv, SeenInv, Polls, NoPoll
<1> QED BY <1>1, OthersKeep, ConnectingKeeps, PollStartsKeeps, HistoryPageKeeps, AfterPageKeeps,
           UnsuccessfulKeeps, Zenon DEF DitNext

\* dit-transport.ts: what the transport has handed over of a room has no gap between the place its
\* bootstrap began at and its cursor, and nothing was handed over twice, for any page size and
\* limits, failures and reconnects.
THEOREM DitHasNoGap == DitSpec => []NoGapNoRepeat
<1>1. DitInv => NoGapNoRepeat BY DEF DitInv, CursorInv, NoGapNoRepeat
<1> QED BY <1>1, DitInitially, DitStep, PTL DEF DitSpec

-------------------------------------------------------------------------------
(* DitHistory *)

ServerInv ==
    /\ DitInv /\ connects \in Nat
    /\ connects > 0 => state = "connected"
    /\ got # {} => bootstrapped /\ poll.stage # "history"
    /\ poll.stage # "none" => bootstrapped
    /\ cursor # 0 => cursor \in got
    /\ \A i \in got, j \in got : i .. j \subseteq got

BrowserTypes ==
    /\ browserStore \subseteq 1 .. room /\ listed \subseteq 1 .. room /\ olderLoaded \subseteq 1 .. room
    /\ window \in [open : BOOLEAN, count : Nat, hasMore : BOOLEAN, restore : BOOLEAN]
    /\ pageCursor \in Nat /\ older \in {NoLoad} \cup [stage : {"asked"}, before : Nat] /\ whole \in BOOLEAN

PageInv ==
    /\ window.open => AllMessages = browserStore /\ window.count >= InitialVisible
    /\ ~window.open => listed = {} /\ olderLoaded = {} /\ older = NoLoad

WholeInv ==
    whole =>
        /\ connects > 0
        /\ \A i \in browserStore, j \in browserStore : i .. j \subseteq browserStore
        /\ browserStore # {} => \E i \in browserStore \cap got : \A j \in got : i <= j
        /\ \A i \in browserStore : \E j \in got : i <= j
        /\ pageCursor <= Cardinality(got)
        /\ \A i \in got : Cardinality({j \in got : j <= i}) <= pageCursor => i \in browserStore
        /\ older.stage = "asked" => older.before \in browserStore /\ \A i \in browserStore : older.before <= i

RestoreInv ==
    window.restore =>
        /\ older.stage = "asked"
        /\ WindowMessages # AllMessages \/ \A i \in AllMessages : older.before <= i

HistoryInv == ServerInv /\ BrowserTypes /\ PageInv /\ WholeInv /\ RestoreInv

-------------------------------------------------------------------------------
(* The newest members of a set of numbers. *)

\* A set of numbers that is not empty has a least element.
LEMMA SmallestOf ==
    ASSUME NEW S, S \subseteq Nat, S # {}
    PROVE  Smallest(S) \in S /\ \A i \in S : Smallest(S) <= i
<1>1. PICK x \in S : \A y \in S : ~(<<y, x>> \in OpToRel(<, Nat))
  BY WFMin, NatLessThanWellFounded, Zenon
<1>2. ASSUME NEW y \in S PROVE x <= y
  <2>1. ~(<<y, x>> \in {ss \in Nat \X Nat : ss[1] < ss[2]}) BY <1>1, Zenon DEF OpToRel
  <2>2. <<y, x>> \in Nat \X Nat OBVIOUS
  <2>3. ~(y < x) BY <2>1, <2>2
  <2> QED BY <2>3
<1> QED BY <1>2, Zenon DEF Smallest

\* A bounded one has a greatest.
LEMMA LargestOf ==
    ASSUME NEW n \in Nat, NEW S, S \subseteq 0 .. n, S # {}
    PROVE  \E x \in S : \A y \in S : y <= x
<1> DEFINE T == {n - y : y \in S}
<1>1. \A y \in S : n - y \in Nat OBVIOUS
<1>2. T \subseteq Nat /\ T # {} BY <1>1
<1>3. PICK t \in T : \A u \in T : t <= u
  <2> HIDE DEF T
  <2> QED BY <1>2, SmallestOf
<1>4. PICK x \in S : t = n - x OBVIOUS
<1>5. ASSUME NEW y \in S PROVE y <= x
  <2>1. n - y \in T OBVIOUS
  <2>2. t <= n - y BY <2>1, <1>3
  <2> QED BY <2>2, <1>4
<1> QED BY <1>5

\* How many the newest n of a set are.
LEMMA NewestSize ==
    ASSUME NEW r \in Nat, NEW S, S \subseteq 0 .. r, NEW n \in Nat
    PROVE  /\ IsFiniteSet(S) /\ Cardinality(S) \in Nat /\ Newest(S, n) \subseteq S
           /\ Cardinality(Newest(S, n)) \in Nat
           /\ \/ Newest(S, n) = S /\ Cardinality(S) <= n
              \/ Newest(S, n) # S /\ Cardinality(Newest(S, n)) = n /\ Cardinality(S) > n
<1> DEFINE N == Newest(S, n)
           Above(k) == {j \in S : j > k}
<1>1. IsFiniteSet(S)
  <2>1. IsFiniteSet(0 .. r) BY FS_Interval
  <2> QED BY <2>1, FS_Subset
<1>2. N = {i \in S : Cardinality(Above(i)) < n} BY DEF Newest
<1>3. N \in SUBSET S BY <1>2
<1>4. \A k : Above(k) \in SUBSET S OBVIOUS
<1>5. \A k : IsFiniteSet(Above(k)) /\ Cardinality(Above(k)) \in Nat
  <2> HIDE DEF Above
  <2>1. \A k : IsFiniteSet(Above(k)) BY <1>1, <1>4, FS_Subset
  <2> QED BY <2>1, FS_CardinalityType
<1>6. IsFiniteSet(N) /\ Cardinality(N) \in Nat /\ Cardinality(S) \in Nat /\ Cardinality(N) <= Cardinality(S)
      /\ (Cardinality(S) = Cardinality(N) => S = N)
  <2> HIDE DEF N
  <2>1. IsFiniteSet(N) BY <1>1, <1>3, FS_Subset
  <2> QED BY <2>1, <1>1, <1>3, FS_Subset, FS_CardinalityType
<1>7. Cardinality(N) <= n
  <2>1. CASE N = {} BY <2>1, FS_EmptySet
  <2>2. CASE N # {}
    <3>1. N \subseteq Nat
      <4>1. 0 .. r \subseteq Nat OBVIOUS
      <4> HIDE DEF N
      <4> QED BY <4>1, <1>3
    <3>2. PICK k \in N : \A i \in N : k <= i
      <4> HIDE DEF N
      <4> QED BY <3>1, <2>2, SmallestOf
    <3>3. Cardinality(Above(k)) < n BY <1>2
    <3>4. N \in SUBSET (Above(k) \cup {k})
      <4>1. ASSUME NEW i \in N PROVE i \in Above(k) \cup {k}
        <5>1. i \in S /\ k \in S /\ k <= i BY <3>2, <1>3
        <5> QED BY <5>1
      <4> QED BY <4>1
    <3>5. k \notin Above(k)
      <4>1. k \in Int BY <3>1
      <4> QED BY <4>1
    <3> HIDE DEF N, Above
    <3>6. IsFiniteSet(Above(k) \cup {k}) /\ Cardinality(Above(k) \cup {k}) = Cardinality(Above(k)) + 1
      BY <1>5, <3>5, FS_AddElement
    <3>7. Cardinality(N) <= Cardinality(Above(k)) + 1 BY <3>4, <3>6, FS_Subset
    <3> QED BY <3>3, <3>7, <1>5, <1>6
  <2> QED BY <2>1, <2>2
<1>8. ASSUME N # S PROVE Cardinality(N) >= n
  <2>1. S \ N \subseteq 0 .. r /\ S \ N # {} BY <1>3, <1>8
  <2>2. PICK k \in S \ N : \A i \in S \ N : i <= k
    <3> HIDE DEF N
    <3> QED BY <2>1, LargestOf
  <2>3. Above(k) \in SUBSET N
    <3>1. ASSUME NEW i \in S, i > k PROVE i \in N
      <4>1. i \in Int /\ k \in Int OBVIOUS
      <4>2. ~(i <= k) BY <4>1, <3>1
      <4> HIDE DEF N
      <4> QED BY <4>2, <2>2
    <3> HIDE DEF N
    <3> QED BY <3>1
  <2>4. Cardinality(Above(k)) >= n
    <3>1. ~(Cardinality(Above(k)) < n) BY <1>2, <2>2
    <3>2. Cardinality(Above(k)) \in Nat BY <1>5
    <3> HIDE DEF Above
    <3> QED BY <3>1, <3>2
  <2> HIDE DEF N, Above
  <2>5. Cardinality(Above(k)) <= Cardinality(N) BY <2>3, <1>6, FS_Subset
  <2> QED BY <2>4, <2>5, <1>5, <1>6
<1> HIDE DEF N
<1>9. \/ N = S /\ Cardinality(S) <= n
      \/ N # S /\ Cardinality(N) = n /\ Cardinality(S) > n
  BY <1>6, <1>7, <1>8
<1> QED BY <1>1, <1>3, <1>6, <1>9 DEF N

\* Of numbers without a hole the newest have none.
LEMMA NewestHasNoHole ==
    ASSUME NEW r \in Nat, NEW S, S \subseteq 0 .. r, NEW n \in Nat,
           \A i \in S, j \in S : i .. j \subseteq S
    PROVE  \A i \in Newest(S, n), j \in Newest(S, n) : i .. j \subseteq Newest(S, n)
<1> SUFFICES ASSUME NEW i \in Newest(S, n), NEW j \in Newest(S, n), NEW k \in i .. j
             PROVE  k \in Newest(S, n)
  OBVIOUS
<1> DEFINE Above(x) == {y \in S : y > x}
<1>1. i \in S /\ j \in S /\ Cardinality(Above(i)) < n BY DEF Newest
<1>2. k \in S BY <1>1
<1>3. i \in Int /\ k \in Int /\ i <= k BY <1>1
<1>4. Above(k) \in SUBSET Above(i)
  <2>1. ASSUME NEW y \in S, y > k PROVE y > i BY <2>1, <1>3
  <2> QED BY <2>1
<1>5. IsFiniteSet(S) BY NewestSize
<1>6. Above(i) \in SUBSET S /\ Above(k) \in SUBSET S OBVIOUS
<1>7. Cardinality(Above(k)) < n
  <2> HIDE DEF Above
  <2>1. IsFiniteSet(Above(i)) /\ IsFiniteSet(Above(k)) BY <1>5, <1>6, FS_Subset
  <2>2. Cardinality(Above(i)) \in Nat /\ Cardinality(Above(k)) \in Nat BY <2>1, FS_CardinalityType
  <2>3. Cardinality(Above(k)) <= Cardinality(Above(i)) BY <2>1, <1>4, FS_Subset
  <2> QED BY <2>2, <2>3, <1>1
<1> QED BY <1>2, <1>7 DEF Newest


-------------------------------------------------------------------------------
(* The server: what its process hands over only grows at its newer end. *)

\* The transport as its process started it.
ServerKeeps ==
    /\ ServerInv' /\ got \subseteq got' /\ \A i \in got' \ got, g \in got : g < i
    /\ room \in Nat /\ room' \in Nat /\ room <= room' /\ connects' = connects

\* The types of the transport's variables that the history speaks of.
LEMMA ServerTypes ==
    ASSUME ServerInv, connects > 0
    PROVE  /\ room \in Nat /\ got \subseteq 1 .. room /\ cursor \in 0 .. room /\ state = "connected"
           /\ \A g \in got : g \in Nat /\ g <= cursor /\ 1 <= g
           /\ got # {} => cursor # 0
<1>1. room \in Nat /\ got \subseteq 1 .. room /\ cursor \in 0 .. room /\ state = "connected"
  BY DEF ServerInv, DitInv, DitTypes
<1>2. \A g \in got : g <= cursor BY <1>1 DEF ServerInv, DitInv, CursorInv
<1>3. \A g \in got : g \in Nat /\ 1 <= g BY <1>1
<1>4. ASSUME NEW g \in got PROVE cursor # 0
  <2>1. 1 <= g /\ g <= cursor /\ g \in Nat /\ cursor \in Nat BY <1>1, <1>2, <1>3
  <2> QED BY <2>1
<1> QED BY <1>1, <1>2, <1>3, <1>4

\* What the server has got after a poll: an interval, if it was one.
LEMMA GotAfterBatch ==
    ASSUME DitInv, state = "connected", NEW batch, batch \subseteq 1 .. room, PollEnds(batch)
    PROVE  /\ got' = got \cup batch /\ cursor' = IF batch = {} THEN cursor ELSE Largest(batch)
           /\ state' = "connected" /\ poll' = NoPoll
<1> DEFINE fresh == batch \ ToSet(seen)
<1>1. room \in Nat /\ ToSet(seen) \subseteq got BY DEF DitInv, DitTypes, SeenInv
<1>2. fresh \subseteq Nat /\ IsFiniteSet(fresh)
  <2>1. 1 .. room \subseteq Nat BY <1>1
  <2>2. IsFiniteSet(1 .. room) BY <1>1, FS_Interval
  <2>3. fresh \in SUBSET (1 .. room) OBVIOUS
  <2> HIDE DEF fresh
  <2> QED BY <2>1, <2>2, <2>3, FS_Subset
<1>3. ToSet(ToTransportEvents(batch)) = fresh
  <2>1. ToTransportEvents(batch) = InOrder(fresh) BY DEF ToTransportEvents
  <2> HIDE DEF fresh
  <2> QED BY <2>1, <1>2, InOrderHasAll
<1>4. /\ cursor' = IF batch = {} THEN cursor ELSE Largest(batch)
      /\ state' = "connected" /\ poll' = NoPoll /\ got' = got \cup fresh
  BY <1>3 DEF PollEnds
<1> QED BY <1>1, <1>4

\* A batch that continues what was handed over.
LEMMA BatchContinues ==
    ASSUME ServerInv, connects > 0, NEW a \in Nat, NEW b \in Nat, 1 <= a, b <= room, PollEnds(a .. b),
           UNCHANGED <<room, connects>>, DitInv', bootstrapped' = bootstrapped, got # {} => a = cursor + 1,
           got # {} \/ a <= b => bootstrapped
    PROVE  ServerKeeps
<1>1. /\ room \in Nat /\ got \subseteq 1 .. room /\ cursor \in 0 .. room /\ state = "connected"
      /\ \A g \in got : g \in Nat /\ g <= cursor /\ 1 <= g
      /\ got # {} => cursor # 0
  BY ServerTypes
<1>2. a .. b \subseteq 1 .. room BY <1>1
<1>3. PICK batch : batch = a .. b OBVIOUS
<1>4. /\ got' = got \cup batch /\ cursor' = IF batch = {} THEN cursor ELSE Largest(batch)
      /\ state' = "connected" /\ poll' = NoPoll
  BY <1>1, <1>2, <1>3, GotAfterBatch DEF ServerInv
<1>5. batch = {} \/ (a <= b /\ cursor' = b)
  <2>1. a <= b => Largest(a .. b) = b BY IntervalEnds
  <2>2. ~(a <= b) => a .. b = {} OBVIOUS
  <2> QED BY <2>1, <2>2, <1>3, <1>4
<1>6. cursor # 0 => cursor \in got BY DEF ServerInv
<1>7. \A i \in got' \ got, g \in got : g < i BY <1>1, <1>3, <1>4
<1>8. cursor' # 0 => cursor' \in got' BY <1>3, <1>4, <1>5, <1>6
<1>9. \A i \in got', j \in got' : i .. j \subseteq got'
  <2> SUFFICES ASSUME NEW i \in got', NEW j \in got', NEW k \in i .. j PROVE k \in got' OBVIOUS
  <2>1. CASE batch = {} BY <2>1, <1>4 DEF ServerInv
  <2>2. CASE batch # {}
    <3>1. a <= b /\ \A x : x \in batch <=> x \in a .. b BY <2>2, <1>3, <1>5
    <3>2. i \in Nat /\ j \in Nat /\ k \in Nat /\ i <= k /\ k <= j /\ j <= b BY <1>1, <1>3, <1>4, <3>1
    <3>3. CASE k >= a BY <3>1, <3>2, <3>3, <1>4
    <3>4. CASE k < a
      <4>1. i \in got BY <3>1, <3>2, <3>4, <1>4
      <4>2. a = cursor + 1 /\ cursor \in got BY <4>1, <1>1, <1>6
      <4>3. k \in i .. cursor BY <4>2, <3>2, <3>4, <1>1
      <4>4. i .. cursor \subseteq got BY <4>1, <4>2 DEF ServerInv
      <4> QED BY <4>3, <4>4, <1>4
    <3> QED BY <3>2, <3>3, <3>4
  <2> QED BY <2>1, <2>2
<1>10. got' # {} => bootstrapped BY <1>3, <1>4, <1>5
<1>11. poll'.stage = "none" BY <1>4 DEF NoPoll
<1>12. ServerInv' BY <1>4, <1>8, <1>9, <1>10, <1>11 DEF ServerInv
<1> QED BY <1>1, <1>4, <1>7, <1>12 DEF ServerKeeps

\* Nothing is handed over.
LEMMA NothingHandedOver ==
    ASSUME ServerInv, connects > 0, DitInv', UNCHANGED <<got, cursor, connects>>, room' \in {room, room + 1},
           state' = "connected", bootstrapped => bootstrapped' = TRUE,
           got # {} => poll'.stage # "history",
           poll'.stage # "none" => bootstrapped'
    PROVE  ServerKeeps
<1>1. room \in Nat BY ServerTypes
<1>2. ServerInv' BY DEF ServerInv
<1> QED BY <1>1, <1>2 DEF ServerKeeps

\* The server's transport runs on.
LEMMA ServerRunsKeeps == ASSUME ServerInv, ServerRuns PROVE ServerKeeps
<1>1. connects > 0 BY DEF ServerRuns
<1>2. /\ room \in Nat /\ got \subseteq 1 .. room /\ cursor \in 0 .. room /\ state = "connected"
      /\ \A g \in got : g \in Nat /\ g <= cursor /\ 1 <= g
      /\ got # {} => cursor # 0
  BY <1>1, ServerTypes
<1>3. DitInv
      /\ (got # {} => bootstrapped /\ poll.stage # "history") /\ (poll.stage # "none" => bootstrapped)
  BY DEF ServerInv
<1>4. CASE Post
  <2>1. DitInv' BY <1>3, <1>4, OthersKeep
  <2>2. /\ UNCHANGED <<got, cursor, connects, state, bootstrapped, poll>> /\ room' = room + 1 BY <1>4 DEF Post
  <2> QED BY <2>1, <2>2, <1>1, <1>2, <1>3, NothingHandedOver
<1>5. CASE PollStarts
  <2>1. DitInv' BY <1>3, <1>5, PollStartsKeeps
  <2>2. UNCHANGED <<got, cursor, connects, state, room>> /\ bootstrapped' = TRUE BY <1>5 DEF PollStarts
  <2>3. got # {} => poll'.stage # "history" BY <1>3, <1>5 DEF PollStarts
  <2> QED BY <2>1, <2>2, <2>3, <1>1, <1>2, NothingHandedOver
<1>6. CASE PollFails
  <2>1. DitInv' BY <1>3, <1>6, OthersKeep
  <2>2. UNCHANGED <<got, cursor, connects, state, room, bootstrapped>> /\ poll'.stage = "none"
    BY <1>2, <1>6 DEF PollFails, NoPoll
  <2> QED BY <2>1, <2>2, <1>1, <1>2, NothingHandedOver
<1>7. CASE HistoryPage
  <2>1. DitInv' BY <1>3, <1>7, HistoryPageKeeps
  <2>2. poll.stage = "history" /\ UNCHANGED <<room, bootstrapped, connects>> /\ got = {} BY <1>3, <1>7 DEF HistoryPage
  <2>3. PICK collected : collected = poll.collected \cup Before(poll.from) OBVIOUS
  <2>4. \/ PollEnds(collected)
        \/ poll'.stage = "history" /\ UNCHANGED <<state, cursor, got>>
    <3>1. CASE PollEnds(poll.collected \cup Before(poll.from)) BY <3>1, <2>3
    <3>2. CASE UNCHANGED <<state, cursor, got>> /\ poll' = [poll EXCEPT !.from = Smallest(Before(poll.from)),
                              !.pages = @ + 1, !.collected = poll.collected \cup Before(poll.from)]
      <4>1. poll \in [stage : {"history"}, from : Nat, pages : Nat, collected : SUBSET Nat]
        BY <1>3, <2>2 DEF DitInv, DitTypes, Polls, NoPoll
      <4> QED BY <4>1, <3>2
    <3> QED BY <3>1, <3>2, <1>7 DEF HistoryPage
  <2>5. PICK a \in 1 .. room + 1, top \in 0 .. room : collected = a .. top
    <3>1. \E a \in 1 .. room + 1, top \in 0 .. room : poll.collected \cup Before(poll.from) = a .. top
      BY <1>3, <2>2, PageContinues
    <3> QED BY <3>1, <2>3
  <2>6. a \in Nat /\ 1 <= a /\ top \in Nat /\ top <= room BY <1>2
  <2>7. CASE PollEnds(collected)
    <3>1. PollEnds(a .. top) BY <2>5, <2>7
    <3> QED BY <3>1, <2>1, <2>2, <2>6, <1>1, <1>3, BatchContinues
  <2>8. CASE poll'.stage = "history" /\ UNCHANGED <<state, cursor, got>>
    BY <2>1, <2>2, <2>8, <1>1, <1>2, <1>3, NothingHandedOver
  <2> QED BY <2>4, <2>7, <2>8
<1>8. CASE AfterPage
  <2>1. DitInv' BY <1>3, <1>8, AfterPageKeeps
  <2>2. poll.stage = "after" /\ UNCHANGED <<room, bootstrapped, connects>> BY <1>8 DEF AfterPage
  <2>3. PICK page \in After(poll.from) : PollEnds(page) BY <1>8 DEF AfterPage
  <2>4. bootstrapped /\ poll.from = cursor BY <2>2, <1>2, <1>3 DEF DitInv, CursorInv
  <2>5. poll.from \in 0 .. room /\ DitTypes BY <2>4, <1>2, <1>3 DEF DitInv
  <2>6. PICK a \in 1 .. room + 1, b \in 0 .. room : page = a .. b /\ (poll.from # 0 => a = poll.from + 1)
    BY <2>5, AfterIsInterval
  <2>7. a \in Nat /\ 1 <= a /\ b \in Nat /\ b <= room /\ (got # {} => a = cursor + 1)
    BY <2>4, <2>6, <1>2
  <2>8. PollEnds(a .. b) BY <2>3, <2>6
  <2> QED BY <2>1, <2>2, <2>4, <2>7, <2>8, <1>1, BatchContinues
<1>9. CASE Unsuccessful
  <2>1. DitInv' BY <1>3, <1>9, UnsuccessfulKeeps
  <2>2. UNCHANGED <<room, bootstrapped, connects>> BY <1>9 DEF Unsuccessful
  <2>3. PollEnds(IF poll.stage = "history" THEN poll.collected ELSE {}) BY <1>9 DEF Unsuccessful
  <2>4. poll.stage # "none"
    <3>1. poll # NoPoll /\ poll \in Polls BY <1>3, <1>9 DEF Unsuccessful, DitInv, DitTypes
    <3> QED BY <3>1 DEF Polls
  <2>5. bootstrapped BY <2>4, <1>3
  <2>6. CASE poll.stage = "history" /\ poll.pages # 0
    <3>1. PICK top \in 1 .. room : poll.from \in 1 .. top /\ poll.collected = poll.from .. top
      BY <2>6, <1>3 DEF DitInv, CollectedInv
    <3>2. PollEnds(poll.from .. top) BY <3>1, <2>3, <2>6
    <3>3. poll.from \in Nat /\ top \in Nat /\ 1 <= poll.from /\ top <= room BY <3>1, <1>2
    <3>4. got = {} BY <2>6, <1>3
    <3> QED BY <3>2, <3>3, <3>4, <2>1, <2>2, <2>5, <1>1, BatchContinues
  <2>7. CASE ~(poll.stage = "history" /\ poll.pages # 0)
    <3>1. poll.stage = "history" => poll.collected = {} BY <2>7, <1>3 DEF DitInv, CollectedInv
    <3>2. PollEnds({}) BY <3>1, <2>3
    <3>3. {} \subseteq 1 .. room /\ {} = {} OBVIOUS
    <3>4. got' = got /\ cursor' = cursor /\ state' = "connected" /\ poll' = NoPoll
      BY <3>2, <1>2, <1>3, GotAfterBatch
    <3>5. poll'.stage = "none" BY <3>4 DEF NoPoll
    <3> QED BY <3>4, <3>5, <2>1, <2>2, <1>1, <1>2, NothingHandedOver
  <2> QED BY <2>6, <2>7
<1> QED BY <1>4, <1>5, <1>6, <1>7, <1>8, <1>9 DEF ServerRuns


-------------------------------------------------------------------------------
(* The window. *)

Windows == [open : BOOLEAN, count : Nat, hasMore : BOOLEAN, restore : BOOLEAN]

\* The types of the page.
LEMMA BrowserTypesFields ==
    ASSUME HistoryInv
    PROVE  /\ room \in Nat /\ AllMessages \subseteq 0 .. room /\ browserStore \subseteq 1 .. room
           /\ window \in Windows /\ window.count \in Nat /\ window.open \in BOOLEAN
           /\ got \subseteq 1 .. room /\ IsFiniteSet(got) /\ Cardinality(got) \in Nat
<1>1. room \in Nat /\ got \subseteq 1 .. room BY DEF HistoryInv, ServerInv, DitInv, DitTypes
<1>2. listed \subseteq 1 .. room /\ olderLoaded \subseteq 1 .. room /\ browserStore \subseteq 1 .. room
      /\ window \in Windows
  BY DEF HistoryInv, BrowserTypes, Windows
<1>3. 1 .. room \subseteq 0 .. room OBVIOUS
<1>4. AllMessages \subseteq 0 .. room BY <1>2, <1>3 DEF AllMessages
<1>5. IsFiniteSet(got) /\ Cardinality(got) \in Nat
  <2>1. IsFiniteSet(1 .. room) BY <1>1, FS_Interval
  <2>2. IsFiniteSet(got) BY <2>1, <1>1, FS_Subset
  <2> QED BY <2>2, FS_CardinalityType
<1>6. window.count \in Nat /\ window.open \in BOOLEAN BY <1>2 DEF Windows
<1> QED BY <1>1, <1>2, <1>4, <1>5, <1>6

\* The number of messages the window shows.
LEMMA VisibleSize ==
    ASSUME NEW r \in Nat, NEW S, S \subseteq 0 .. r, NEW n \in Nat, n >= InitialVisible
    PROVE  /\ Cardinality(S) \in Nat /\ VisibleOf(S, n) \subseteq S /\ Cardinality(VisibleOf(S, n)) \in Nat
           /\ \/ VisibleOf(S, n) = S /\ Cardinality(S) <= n
              \/ VisibleOf(S, n) # S /\ Cardinality(VisibleOf(S, n)) = n /\ Cardinality(S) > n
<1>1. InitialVisible \in Nat BY HistoryAssumption
<1>2. n > InitialVisible \/ n = InitialVisible BY <1>1
<1>3. VisibleOf(S, n) = Newest(S, n) BY <1>2 DEF VisibleOf
<1> QED BY <1>3, NewestSize

\* There are more messages than the window shows exactly if it leaves one out.
LEMMA MoreMessages ==
    ASSUME NEW r \in Nat, NEW S, NEW T, S \subseteq T, T \subseteq 0 .. r
    PROVE  Cardinality(S) \in Nat /\ Cardinality(T) \in Nat /\ Cardinality(S) <= Cardinality(T)
           /\ (Cardinality(S) = Cardinality(T) => S = T)
<1>1. IsFiniteSet(0 .. r) BY FS_Interval
<1>2. IsFiniteSet(T) BY <1>1, FS_Subset
<1>3. IsFiniteSet(S) BY <1>2, FS_Subset
<1> QED BY <1>2, <1>3, FS_Subset, FS_CardinalityType

\* What Shown() makes of a window.
LEMMA ShownWindow ==
    ASSUME NEW all, NEW w \in Windows, Shown(all, w)
    PROVE  /\ window' \in Windows /\ window'.open = w.open /\ window'.count = w.count
           /\ window'.restore => /\ w.restore /\ VisibleOf(all, w.count) # {}
                                 /\ Cardinality(VisibleOf(all, w.count)) = Cardinality(WindowMessages)
<1>1. CASE window' = [w EXCEPT !.restore = FALSE] BY <1>1 DEF Windows
<1>2. CASE window' = w /\ ~(VisibleOf(all, w.count) = {} \/ Cardinality(VisibleOf(all, w.count)) # Cardinality(WindowMessages))
  BY <1>2
<1> QED BY <1>1, <1>2 DEF Shown

\* More messages, while a page of the history may be on its way.
LEMMA ShownWithMore ==
    ASSUME HistoryInv, window.open, NEW all, all = AllMessages', AllMessages \subseteq all, all \subseteq 0 .. room,
           Shown(all, window), older' = older
    PROVE  window' \in Windows /\ window'.open = window.open /\ window'.count = window.count /\ RestoreInv'
<1>1. /\ room \in Nat /\ AllMessages \subseteq 0 .. room /\ window \in Windows /\ window.count \in Nat
      /\ window.count >= InitialVisible
  BY BrowserTypesFields DEF HistoryInv, PageInv
<1>2. /\ window' \in Windows /\ window'.open = window.open /\ window'.count = window.count
      /\ window'.restore => /\ window.restore
                            /\ Cardinality(VisibleOf(all, window.count)) = Cardinality(WindowMessages)
  BY <1>1, ShownWindow
<1>3. ASSUME window'.restore
      PROVE  older.stage = "asked" /\ (WindowMessages' # AllMessages' \/ \A i \in AllMessages' : older.before <= i)
  <2>1. older.stage = "asked" /\ (WindowMessages # AllMessages \/ \A i \in AllMessages : older.before <= i)
    BY <1>2, <1>3 DEF HistoryInv, RestoreInv
  <2>2. PICK n \in Nat : n = window.count /\ n >= InitialVisible BY <1>1
  <2>3. PICK before : before = AllMessages OBVIOUS
  <2>4. PICK shown : shown = VisibleOf(before, n) OBVIOUS
  <2>5. PICK shows : shows = VisibleOf(all, n) OBVIOUS
  <2>6. WindowMessages = shown /\ WindowMessages' = shows
    <3>1. WindowMessages = shown BY <2>2, <2>3, <2>4 DEF WindowMessages
    <3>2. WindowMessages' = VisibleOf(AllMessages', window'.count) BY DEF WindowMessages, VisibleOf, Newest
    <3> QED BY <3>1, <3>2, <2>2, <2>5, <1>2
  <2>7. /\ Cardinality(before) \in Nat /\ Cardinality(shown) \in Nat
        /\ \/ shown = before /\ Cardinality(before) <= n
           \/ shown # before /\ Cardinality(shown) = n /\ Cardinality(before) > n
    BY <1>1, <2>2, <2>3, <2>4, VisibleSize
  <2>8. /\ Cardinality(all) \in Nat /\ Cardinality(shows) \in Nat
        /\ \/ shows = all /\ Cardinality(all) <= n
           \/ shows # all /\ Cardinality(shows) = n /\ Cardinality(all) > n
    BY <1>1, <2>2, <2>5, VisibleSize
  <2>9. Cardinality(before) <= Cardinality(all) /\ (Cardinality(before) = Cardinality(all) => before = all)
    BY <1>1, <2>3, MoreMessages
  <2>10. Cardinality(shows) = Cardinality(shown) BY <1>2, <1>3, <2>2, <2>5, <2>6
  <2>11. shows # all \/ (shown = before /\ before = all) BY <2>7, <2>8, <2>9, <2>10
  <2> QED BY <2>1, <2>3, <2>6, <2>11
<1> QED BY <1>2, <1>3 DEF RestoreInv


-------------------------------------------------------------------------------
(* The steps. *)

\* A step of the page leaves the server as it is.
LEMMA PageLeavesServer ==
    ASSUME ServerInv,
           UNCHANGED <<room, state, seen, cursor, bootstrapped, poll, got, floor, twice, connects>>
    PROVE  ServerInv'
BY DEF ServerInv, DitInv, DitTypes, CollectedInv, FromInv, StaleInv, CursorInv, SeenInv, Polls, NoPoll

\* The server starts anew: its memory is empty, the page is told so.
LEMMA ServerStartsKeeps == ASSUME HistoryInv, ServerStarts PROVE HistoryInv'
<1>1. /\ connects' = connects + 1 /\ state' = "connected" /\ poll' = NoPoll
      /\ seen' = <<>> /\ cursor' = 0 /\ bootstrapped' = FALSE /\ got' = {} /\ floor' = 0 /\ whole' = FALSE
      /\ UNCHANGED <<room, twice, browserStore, listed, olderLoaded, window, pageCursor, older>>
  BY DEF ServerStarts
<1>2. ServerInv'
  <2>1. <<>> \in Seq(Nat) /\ ToSet(<<>>) = {} BY DEF ToSet
  <2>2. poll'.stage = "none" /\ poll' \in Polls BY <1>1 DEF NoPoll, Polls
  <2>3. room \in Nat /\ connects \in Nat /\ ~twice BY DEF HistoryInv, ServerInv, DitInv, DitTypes
  <2>4. DitTypes'
    <3>1. room' \in Nat /\ seen' \in Seq(Nat) /\ cursor' \in 0 .. room' /\ poll' \in Polls'
      BY <1>1, <2>1, <2>2, <2>3 DEF Polls, NoPoll
    <3>2. state' \in {"disconnected", "connected", "disconnecting"} /\ bootstrapped' \in BOOLEAN
          /\ got' \subseteq 1 .. room' /\ floor' \in Nat
      BY <1>1
    <3> QED BY <3>1, <3>2 DEF DitTypes, Polls, NoPoll
  <2>5. CollectedInv' /\ FromInv' BY <2>2 DEF CollectedInv, FromInv
  <2>6. StaleInv' BY <1>1 DEF StaleInv, NoPoll
  <2>7. CursorInv' /\ SeenInv' BY <1>1, <2>1, <2>2 DEF CursorInv, SeenInv
  <2>8. ~twice' BY <1>1, <2>3, Zenon
  <2>9. DitInv' BY <2>4, <2>5, <2>6, <2>7, <2>8 DEF DitInv
  <2> QED BY <1>1, <2>2, <2>3, <2>9 DEF ServerInv
<1>3. BrowserTypes' BY <1>1 DEF HistoryInv, BrowserTypes, NoLoad
<1>4. PageInv' /\ RestoreInv'
  BY <1>1 DEF HistoryInv, PageInv, RestoreInv, AllMessages, WindowMessages, VisibleOf, Newest, NoLoad
<1>5. WholeInv' BY <1>1 DEF WholeInv
<1> QED BY <1>2, <1>3, <1>4, <1>5 DEF HistoryInv

\* The server's steps do not touch the page.
LEMMA ServerRunsKeepsHistory == ASSUME HistoryInv, ServerRuns PROVE HistoryInv'
<1>1. UNCHANGED <<browserStore, listed, olderLoaded, window, pageCursor, older, whole>>
  BY DEF ServerRuns, browserVars
<1>2. ServerKeeps BY ServerRunsKeeps DEF HistoryInv
<1>3. /\ ServerInv' /\ got \subseteq got' /\ \A i \in got' \ got, g \in got : g < i
      /\ room \in Nat /\ room' \in Nat /\ room <= room' /\ connects' = connects
  BY <1>2 DEF ServerKeeps
<1>4. BrowserTypes'
  <2>1. 1 .. room \subseteq 1 .. room' BY <1>3
  <2> QED BY <1>1, <2>1 DEF HistoryInv, BrowserTypes, NoLoad
<1>5. PageInv' /\ RestoreInv'
  BY <1>1 DEF HistoryInv, PageInv, RestoreInv, AllMessages, WindowMessages, VisibleOf, Newest, NoLoad
<1>6. WholeInv'
  <2> SUFFICES ASSUME whole PROVE WholeInv' BY <1>1 DEF WholeInv
  <2>1. got' \subseteq Nat /\ IsFiniteSet(got') /\ IsFiniteSet(got)
    <3>1. got' \subseteq 1 .. room' BY <1>3 DEF ServerInv, DitInv, DitTypes
    <3>2. IsFiniteSet(1 .. room') /\ 1 .. room' \subseteq Nat BY <1>3, FS_Interval
    <3> QED BY <3>1, <3>2, <1>3, FS_Subset
  <2>2. Cardinality(got) \in Nat /\ Cardinality(got') \in Nat /\ Cardinality(got) <= Cardinality(got')
    BY <2>1, <1>3, FS_Subset, FS_CardinalityType
  <2>3. pageCursor \in Nat /\ pageCursor <= Cardinality(got) BY DEF HistoryInv, BrowserTypes, WholeInv
  <2>4. \A i \in got : \A j \in got' : i <= j \/ j \in got
    <3> SUFFICES ASSUME NEW i \in got, NEW j \in got' \ got PROVE i <= j OBVIOUS
    <3>1. i < j /\ i \in Int /\ j \in Int BY <1>3, <2>1
    <3> QED BY <3>1
  <2>5. ASSUME NEW i \in got', Cardinality({j \in got' : j <= i}) <= pageCursor PROVE i \in browserStore
    <3> DEFINE upTo == {j \in got' : j <= i}
    <3>1. CASE i \in got
      <4>1. \A j \in got' : j <= i => j \in got
        <5> SUFFICES ASSUME NEW j \in got', j <= i, j \notin got PROVE FALSE OBVIOUS
        <5>1. i < j /\ i \in Int /\ j \in Int BY <3>1, <1>3, <2>1
        <5> QED BY <5>1
      <4>2. upTo = {j \in got : j <= i} BY <4>1, <1>3
      <4> QED BY <4>2, <2>5, <3>1 DEF HistoryInv, WholeInv
    <3>2. CASE i \notin got
      <4>1. got \cup {i} \in SUBSET upTo
        <5>1. \A j \in got : j < i /\ j \in got' BY <1>3, <3>2
        <5>2. \A j \in got : j <= i BY <5>1, <2>1, <1>3
        <5>3. i <= i BY <2>1
        <5> QED BY <5>2, <5>3, <1>3
      <4>2. IsFiniteSet(got \cup {i}) /\ Cardinality(got \cup {i}) = Cardinality(got) + 1
        BY <2>1, <3>2, FS_AddElement
      <4>3. upTo \in SUBSET got' OBVIOUS
      <4> HIDE DEF upTo
      <4>4. IsFiniteSet(upTo) /\ Cardinality(upTo) \in Nat BY <4>3, <2>1, FS_Subset, FS_CardinalityType
      <4>5. Cardinality(got) + 1 <= Cardinality(upTo) BY <4>1, <4>2, <4>4, FS_Subset
      <4>6. Cardinality(upTo) <= pageCursor BY <2>5 DEF upTo
      <4> QED BY <4>4, <4>5, <4>6, <2>2, <2>3
    <3> QED BY <3>1, <3>2
  <2>6. browserStore # {} => \E i \in browserStore \cap got' : \A j \in got' : i <= j
    BY <2>4, <1>3 DEF HistoryInv, WholeInv
  <2>7. \A i \in browserStore : \E j \in got' : i <= j BY <1>3 DEF HistoryInv, WholeInv
  <2>8. pageCursor <= Cardinality(got') BY <2>2, <2>3
  <2>9. /\ connects > 0 /\ \A i \in browserStore, j \in browserStore : i .. j \subseteq browserStore
        /\ older.stage = "asked" => older.before \in browserStore /\ \A i \in browserStore : older.before <= i
    BY DEF HistoryInv, WholeInv
  <2> QED BY <1>1, <1>3, <2>5, <2>6, <2>7, <2>8, <2>9 DEF WholeInv
<1> QED BY <1>3, <1>4, <1>5, <1>6 DEF HistoryInv

\* Without a cursor of the page nothing is told of what it has.
LEMMA NoCursor ==
    ASSUME HistoryInv, NEW i \in got, Cardinality({j \in got : j <= i}) <= 0
    PROVE  FALSE
<1> DEFINE upTo == {j \in got : j <= i}
<1>1. got \subseteq 1 .. room /\ IsFiniteSet(got) /\ room \in Nat BY BrowserTypesFields
<1>2. i \in upTo /\ upTo \in SUBSET got BY <1>1
<1> HIDE DEF upTo
<1>3. IsFiniteSet(upTo) BY <1>1, <1>2, FS_Subset
<1>4. Cardinality(upTo) \in Nat /\ Cardinality(upTo) # 0 BY <1>2, <1>3, FS_CardinalityType, FS_EmptySet
<1> QED BY <1>4 DEF upTo

\* The page is opened, with what its database holds.
LEMMA OpenPageKeeps == ASSUME HistoryInv, OpenPage PROVE HistoryInv'
<1>1. /\ listed' = browserStore /\ olderLoaded' = {} /\ older' = NoLoad /\ pageCursor' = 0
      /\ window' = [Closed EXCEPT !.open = TRUE, !.count = InitialVisible]
      /\ whole' = (whole \/ (connects > 0 /\ browserStore = {}))
      /\ UNCHANGED <<room, state, seen, cursor, bootstrapped, poll, got, floor, twice, connects, browserStore>>
  BY DEF OpenPage, ditVars
<1>2. window' \in Windows /\ window'.open = TRUE /\ window'.count = InitialVisible /\ window'.restore = FALSE
  BY <1>1, HistoryAssumption DEF Closed, Windows
<1>3. ServerInv' BY <1>1, PageLeavesServer DEF HistoryInv
<1>4. browserStore \subseteq 1 .. room /\ whole \in BOOLEAN BY DEF HistoryInv, BrowserTypes
<1>5. BrowserTypes' BY <1>1, <1>2, <1>4 DEF BrowserTypes, Windows
<1>6. PageInv'
  <2>1. InitialVisible \in Nat BY HistoryAssumption
  <2> QED BY <1>1, <1>2, <2>1 DEF PageInv, AllMessages
<1>7. RestoreInv' BY <1>2 DEF RestoreInv
<1>8. WholeInv'
  <2> SUFFICES ASSUME whole' PROVE WholeInv' BY DEF WholeInv
  <2>1. \A i \in got : Cardinality({j \in got : j <= i}) <= 0 => i \in browserStore BY NoCursor
  <2>2. 0 <= Cardinality(got) BY BrowserTypesFields
  <2>3. older'.stage # "asked" BY <1>1 DEF NoLoad
  <2>4. CASE whole BY <2>1, <2>2, <2>3, <2>4, <1>1 DEF HistoryInv, WholeInv
  <2>5. CASE connects > 0 /\ browserStore = {} BY <2>1, <2>2, <2>3, <2>5, <1>1 DEF WholeInv
  <2> QED BY <2>4, <2>5, <1>1
<1> QED BY <1>3, <1>5, <1>6, <1>7, <1>8 DEF HistoryInv

\* The page is closed; its database stays.
LEMMA ClosePageKeeps == ASSUME HistoryInv, ClosePage PROVE HistoryInv'
<1>1. /\ window' = Closed /\ listed' = {} /\ olderLoaded' = {} /\ older' = NoLoad /\ pageCursor' = 0
      /\ UNCHANGED <<room, state, seen, cursor, bootstrapped, poll, got, floor, twice, connects, browserStore, whole>>
  BY DEF ClosePage, ditVars
<1>2. window' \in Windows /\ window'.open = FALSE /\ window'.restore = FALSE BY <1>1 DEF Closed, Windows
<1>3. ServerInv' BY <1>1, PageLeavesServer DEF HistoryInv
<1>4. BrowserTypes' BY <1>1, <1>2 DEF HistoryInv, BrowserTypes, Windows
<1>5. PageInv' BY <1>1, <1>2 DEF PageInv
<1>6. RestoreInv' BY <1>2 DEF RestoreInv
<1>7. WholeInv'
  <2>1. \A i \in got : Cardinality({j \in got : j <= i}) <= 0 => i \in browserStore BY NoCursor
  <2>2. 0 <= Cardinality(got) BY BrowserTypesFields
  <2>3. older'.stage # "asked" BY <1>1 DEF NoLoad
  <2> QED BY <2>1, <2>2, <2>3, <1>1 DEF HistoryInv, WholeInv
<1> QED BY <1>3, <1>4, <1>5, <1>6, <1>7 DEF HistoryInv


\* Polling the page makes up for what the server has and it has not.
LEMMA PagePollsWhole ==
    ASSUME HistoryInv, PagePolls, whole
    PROVE  /\ browserStore' = browserStore \cup got
           /\ pageCursor' \in Nat /\ pageCursor' <= Cardinality(got)
<1>1. Cardinality(got) \in Nat /\ pageCursor \in Nat /\ pageCursor <= Cardinality(got) /\ got # {}
      /\ got \subseteq 1 .. room /\ room \in Nat /\ IsFiniteSet(got)
  BY BrowserTypesFields DEF HistoryInv, BrowserTypes, WholeInv, PagePolls
<1>2. PICK new : new = EventsFor(pageCursor) OBVIOUS
<1>3. /\ browserStore' = browserStore \cup new
      /\ pageCursor' = IF new = {} THEN pageCursor ELSE Cardinality(got)
  BY <1>2 DEF PagePolls
<1>4. new \subseteq got BY <1>2 DEF EventsFor
<1>5. ASSUME NEW i \in got PROVE i \in browserStore \/ i \in new
  <2>1. CASE pageCursor = 0 BY <2>1, <1>2 DEF EventsFor
  <2>2. CASE pageCursor # 0
    <3> DEFINE upTo == {j \in got : j <= i}
    <3>1. upTo \in SUBSET got OBVIOUS
    <3>2. Cardinality(upTo) \in Nat
      <4> HIDE DEF upTo
      <4> QED BY <3>1, <1>1, FS_Subset, FS_CardinalityType
    <3>3. Cardinality(upTo) <= pageCursor => i \in browserStore BY DEF HistoryInv, WholeInv
    <3>4. Cardinality(upTo) > pageCursor => i \in new BY <2>2, <1>2 DEF EventsFor
    <3> HIDE DEF upTo
    <3> QED BY <3>2, <3>3, <3>4, <1>1
  <2> QED BY <2>1, <2>2
<1>6. browserStore' = browserStore \cup got
  <2>1. \A i \in got : i \in browserStore \cup new BY <1>5
  <2>2. browserStore \cup new = browserStore \cup got BY <2>1, <1>4
  <2> QED BY <2>2, <1>3
<1>7. pageCursor' \in Nat /\ pageCursor' <= Cardinality(got)
  <2>1. CASE new = {} BY <2>1, <1>1, <1>3
  <2>2. CASE new # {}
    <3>1. pageCursor' = Cardinality(got) BY <2>2, <1>3
    <3> QED BY <3>1, <1>1
  <2> QED BY <2>1, <2>2
<1> QED BY <1>6, <1>7

\* The page polls the server.
LEMMA PagePollsKeeps == ASSUME HistoryInv, PagePolls PROVE HistoryInv'
<1>1. /\ window.open /\ got # {} /\ Shown(listed' \cup olderLoaded, window)
      /\ \E new \in SUBSET got : browserStore' = browserStore \cup new /\ listed' = listed \cup new
      /\ UNCHANGED <<olderLoaded, older, whole>>
      /\ UNCHANGED <<room, state, seen, cursor, bootstrapped, poll, got, floor, twice, connects>>
  <2>1. EventsFor(pageCursor) \in SUBSET got BY DEF EventsFor
  <2> QED BY <2>1 DEF PagePolls, ditVars
<1>2. PICK new \in SUBSET got : browserStore' = browserStore \cup new /\ listed' = listed \cup new BY <1>1
<1>3. /\ room \in Nat /\ got \subseteq 1 .. room /\ AllMessages \subseteq 0 .. room /\ IsFiniteSet(got)
      /\ Cardinality(got) \in Nat
  BY BrowserTypesFields
<1>4. AllMessages = browserStore /\ window.count >= InitialVisible BY <1>1 DEF HistoryInv, PageInv
<1>5. AllMessages' = AllMessages \cup new /\ AllMessages' = listed' \cup olderLoaded
      /\ AllMessages' = browserStore' BY <1>1, <1>2, <1>4 DEF AllMessages
<1>6. AllMessages' \subseteq 0 .. room
  <2>1. 1 .. room \subseteq 0 .. room OBVIOUS
  <2> QED BY <2>1, <1>2, <1>3, <1>5
<1>7. window' \in Windows /\ window'.open = window.open /\ window'.count = window.count /\ RestoreInv'
  <2>1. PICK all : all = AllMessages' OBVIOUS
  <2>2. AllMessages \subseteq all /\ all \subseteq 0 .. room /\ Shown(all, window) BY <2>1, <1>1, <1>5, <1>6
  <2> QED BY <2>1, <2>2, <1>1, ShownWithMore
<1>8. ServerInv' BY <1>1, PageLeavesServer DEF HistoryInv
<1>9. pageCursor' \in Nat
  <2>1. pageCursor' \in {pageCursor, Cardinality(got)} BY DEF PagePolls
  <2> QED BY <2>1, <1>3 DEF HistoryInv, BrowserTypes
<1>10. BrowserTypes'
  <2>1. browserStore' \subseteq 1 .. room /\ listed' \subseteq 1 .. room
    BY <1>2, <1>3 DEF HistoryInv, BrowserTypes
  <2> QED BY <2>1, <1>1, <1>7, <1>9 DEF HistoryInv, BrowserTypes, Windows, NoLoad
<1>11. PageInv' BY <1>1, <1>4, <1>5, <1>7 DEF PageInv
<1>12. WholeInv'
  <2> SUFFICES ASSUME whole PROVE WholeInv' BY <1>1 DEF WholeInv
  <2>1. browserStore' = browserStore \cup got /\ pageCursor' <= Cardinality(got) BY PagePollsWhole
  <2>2. got \subseteq Nat /\ browserStore \subseteq Nat /\ browserStore \subseteq 1 .. room
    <3>1. 1 .. room \subseteq Nat BY <1>3
    <3> QED BY <3>1, <1>3 DEF HistoryInv, BrowserTypes
  <2>3. PICK g \in got : /\ \A j \in got : g <= j
                         /\ browserStore # {} => g \in browserStore
    <3>1. CASE browserStore = {}
      <4>1. Smallest(got) \in got /\ \A j \in got : Smallest(got) <= j BY <2>2, <1>1, SmallestOf
      <4> QED BY <4>1, <3>1
    <3>2. CASE browserStore # {} BY <3>2 DEF HistoryInv, WholeInv
    <3> QED BY <3>1, <3>2
  <2>4. /\ \A i \in got, j \in got : i .. j \subseteq got
        /\ \A i \in browserStore, j \in browserStore : i .. j \subseteq browserStore
        /\ \A i \in browserStore : \E j \in got : i <= j
        /\ older.stage = "asked" => older.before \in browserStore /\ \A i \in browserStore : older.before <= i
        /\ connects > 0
    BY DEF HistoryInv, ServerInv, WholeInv
  <2>5. ASSUME NEW i \in browserStore', NEW j \in browserStore', NEW n \in i .. j PROVE n \in browserStore'
    <3>1. i \in Nat /\ j \in Nat /\ g \in Nat /\ n \in Nat /\ i <= n /\ n <= j BY <2>1, <2>2
    <3>2. CASE n <= g
      <4>1. CASE i \in browserStore
        <5>1. n \in i .. g /\ g \in browserStore BY <4>1, <3>1, <3>2, <2>3
        <5> QED BY <5>1, <4>1, <2>4, <2>1
      <4>2. CASE i \in got
        <5>1. n = g BY <4>2, <3>1, <3>2, <2>3
        <5> QED BY <5>1, <2>1
      <4> QED BY <4>1, <4>2, <2>1
    <3>3. CASE n > g
      <4>1. n \in g .. j BY <3>1, <3>3
      <4>2. CASE j \in got BY <4>1, <4>2, <2>4, <2>1
      <4>3. CASE j \in browserStore
        <5>1. g \in browserStore BY <4>3, <2>3
        <5> QED BY <5>1, <4>1, <4>3, <2>4, <2>1
      <4> QED BY <4>2, <4>3, <2>1
    <3> QED BY <3>1, <3>2, <3>3
  <2>6. \E i \in browserStore' \cap got : \A j \in got : i <= j BY <2>1, <2>3
  <2>7. \A i \in browserStore' : \E j \in got : i <= j
    <3>1. \A i \in got : i <= i BY <2>2
    <3> QED BY <3>1, <2>1, <2>4
  <2>8. \A i \in got : i \in browserStore' BY <2>1
  <2>9. ASSUME older.stage = "asked" PROVE older.before \in browserStore' /\ \A i \in browserStore' : older.before <= i
    <3>1. older.before \in browserStore /\ g \in browserStore /\ older.before <= g BY <2>3, <2>4, <2>9
    <3>2. older.before \in Nat /\ g \in Nat BY <3>1, <2>2
    <3>3. ASSUME NEW i \in got PROVE older.before <= i
      <4>1. g <= i /\ i \in Nat BY <2>2, <2>3
      <4> QED BY <4>1, <3>1, <3>2
    <3> QED BY <3>1, <3>3, <2>1, <2>4, <2>9
  <2> QED BY <2>1, <2>4, <2>5, <2>6, <2>7, <2>8, <2>9, <1>1 DEF WholeInv
<1> QED BY <1>7, <1>8, <1>10, <1>11, <1>12 DEF HistoryInv

\* The list is read from the database.
LEMMA PageReloadsListKeeps == ASSUME HistoryInv, PageReloadsList PROVE HistoryInv'
<1>1. /\ window.open /\ Shown(listed' \cup olderLoaded, window) /\ listed' = listed \cup browserStore
      /\ UNCHANGED <<browserStore, olderLoaded, older, whole, pageCursor>>
      /\ UNCHANGED <<room, state, seen, cursor, bootstrapped, poll, got, floor, twice, connects>>
  BY DEF PageReloadsList, ditVars
<1>2. room \in Nat /\ AllMessages \subseteq 0 .. room BY BrowserTypesFields
<1>3. AllMessages = browserStore /\ window.count >= InitialVisible BY <1>1 DEF HistoryInv, PageInv
<1>4. AllMessages' = AllMessages /\ AllMessages' = listed' \cup olderLoaded BY <1>1, <1>3 DEF AllMessages
<1>5. window' \in Windows /\ window'.open = window.open /\ window'.count = window.count /\ RestoreInv'
  <2>1. PICK all : all = AllMessages' OBVIOUS
  <2>2. AllMessages \subseteq all /\ all \subseteq 0 .. room /\ Shown(all, window) BY <2>1, <1>1, <1>2, <1>4
  <2> QED BY <2>1, <2>2, <1>1, ShownWithMore
<1>6. ServerInv' BY <1>1, PageLeavesServer DEF HistoryInv
<1>7. BrowserTypes' BY <1>1, <1>5 DEF HistoryInv, BrowserTypes, Windows, NoLoad
<1>8. PageInv' BY <1>1, <1>3, <1>4, <1>5 DEF PageInv
<1>9. WholeInv' BY <1>1 DEF HistoryInv, WholeInv
<1> QED BY <1>5, <1>6, <1>7, <1>8, <1>9 DEF HistoryInv

\* Scrolling up shows more of the list.
LEMMA ShowMoreKeeps == ASSUME HistoryInv, ShowMore PROVE HistoryInv'
<1>1. /\ window.open /\ WindowMessages # AllMessages
      /\ Shown(AllMessages, [window EXCEPT !.count = @ + Increment, !.restore = TRUE])
      /\ UNCHANGED <<browserStore, listed, olderLoaded, older, whole, pageCursor>>
      /\ UNCHANGED <<room, state, seen, cursor, bootstrapped, poll, got, floor, twice, connects>>
  BY DEF ShowMore, ditVars
<1>2. /\ room \in Nat /\ AllMessages \subseteq 0 .. room /\ window \in Windows /\ window.count \in Nat
      /\ window.count >= InitialVisible /\ InitialVisible \in Nat \ {0} /\ Increment \in Nat \ {0}
  BY <1>1, BrowserTypesFields, HistoryAssumption DEF HistoryInv, PageInv
<1>3. PICK w : w = [window EXCEPT !.count = @ + Increment, !.restore = TRUE] OBVIOUS
<1>4. w \in Windows /\ w.open = window.open /\ w.count = window.count + Increment
      /\ w.count \in Nat /\ w.count >= InitialVisible
  <2>1. window.count + Increment \in Nat /\ window.count + Increment >= InitialVisible BY <1>2
  <2>2. PICK n \in Nat : n = window.count + Increment BY <2>1
  <2>3. w = [window EXCEPT !.count = n, !.restore = TRUE] BY <1>3, <2>2
  <2>4. w \in Windows /\ w.open = window.open /\ w.count = n BY <2>3, <1>2 DEF Windows
  <2> QED BY <2>1, <2>2, <2>4
<1>5. /\ window' \in Windows /\ window'.open = w.open /\ window'.count = w.count
      /\ window'.restore => Cardinality(VisibleOf(AllMessages, w.count)) = Cardinality(WindowMessages)
  BY <1>1, <1>3, <1>4, ShownWindow
<1>6. ~window'.restore
  <2>1. PICK all : all = AllMessages OBVIOUS
  <2>2. /\ Cardinality(all) \in Nat /\ Cardinality(VisibleOf(all, window.count)) \in Nat
        /\ \/ VisibleOf(all, window.count) = all /\ Cardinality(all) <= window.count
           \/ Cardinality(VisibleOf(all, window.count)) = window.count /\ Cardinality(all) > window.count
    BY <1>2, <2>1, VisibleSize
  <2>3. /\ Cardinality(VisibleOf(all, w.count)) \in Nat
        /\ \/ VisibleOf(all, w.count) = all /\ Cardinality(all) <= w.count
           \/ Cardinality(VisibleOf(all, w.count)) = w.count /\ Cardinality(all) > w.count
    BY <1>2, <1>4, <2>1, VisibleSize
  <2>4. WindowMessages = VisibleOf(all, window.count) /\ WindowMessages # all BY <1>1, <2>1 DEF WindowMessages
  <2>5. Cardinality(VisibleOf(all, w.count)) > Cardinality(VisibleOf(all, window.count))
    BY <1>2, <1>4, <2>2, <2>3, <2>4
  <2> QED BY <1>5, <2>1, <2>2, <2>3, <2>4, <2>5
<1>7. ServerInv' BY <1>1, PageLeavesServer DEF HistoryInv
<1>8. BrowserTypes' BY <1>1, <1>5 DEF HistoryInv, BrowserTypes, Windows, NoLoad
<1>9. PageInv' BY <1>1, <1>4, <1>5 DEF HistoryInv, PageInv, AllMessages
<1>10. WholeInv' BY <1>1 DEF HistoryInv, WholeInv
<1>11. RestoreInv' BY <1>6 DEF RestoreInv
<1> QED BY <1>7, <1>8, <1>9, <1>10, <1>11 DEF HistoryInv

\* At its end the page asks for older messages.
LEMMA LoadOlderKeeps == ASSUME HistoryInv, LoadOlder PROVE HistoryInv'
<1>1. /\ window.open /\ WindowMessages = AllMessages /\ WindowMessages # {}
      /\ older' = [stage |-> "asked", before |-> Smallest(WindowMessages)]
      /\ window' = [window EXCEPT !.restore = TRUE]
      /\ UNCHANGED <<browserStore, listed, olderLoaded, whole, pageCursor>>
      /\ UNCHANGED <<room, state, seen, cursor, bootstrapped, poll, got, floor, twice, connects>>
  BY DEF LoadOlder, ditVars
<1>2. room \in Nat /\ AllMessages \subseteq 0 .. room /\ window \in Windows BY BrowserTypesFields
<1>3. AllMessages = browserStore /\ AllMessages' = AllMessages BY <1>1 DEF HistoryInv, PageInv, AllMessages
<1>4. AllMessages \subseteq Nat
  <2>1. 0 .. room \subseteq Nat BY <1>2
  <2> QED BY <2>1, <1>2
<1>5. PICK before : before = Smallest(AllMessages) OBVIOUS
<1>6. before \in AllMessages /\ before \in Nat /\ \A i \in AllMessages : before <= i
  BY <1>1, <1>4, <1>5, SmallestOf
<1>7. older' = [stage |-> "asked", before |-> before] /\ older'.stage = "asked" /\ older'.before = before
  BY <1>1, <1>5
<1>8. window' \in Windows /\ window'.open = window.open /\ window'.count = window.count BY <1>1, <1>2 DEF Windows
<1>9. ServerInv' BY <1>1, PageLeavesServer DEF HistoryInv
<1>10. BrowserTypes' BY <1>1, <1>6, <1>7, <1>8 DEF HistoryInv, BrowserTypes, Windows
<1>11. PageInv' BY <1>1, <1>3, <1>8 DEF HistoryInv, PageInv
<1>12. WholeInv' BY <1>1, <1>3, <1>6, <1>7 DEF HistoryInv, WholeInv
<1>13. RestoreInv' BY <1>3, <1>6, <1>7 DEF RestoreInv
<1> QED BY <1>9, <1>10, <1>11, <1>12, <1>13 DEF HistoryInv

\* The request for older messages fails.
LEMMA OlderFailsKeeps == ASSUME HistoryInv, OlderFails PROVE HistoryInv'
<1>1. /\ older' = NoLoad /\ window' = [window EXCEPT !.restore = FALSE]
      /\ UNCHANGED <<browserStore, listed, olderLoaded, whole, pageCursor>>
      /\ UNCHANGED <<room, state, seen, cursor, bootstrapped, poll, got, floor, twice, connects>>
  BY DEF OlderFails
<1>2. window \in Windows BY BrowserTypesFields
<1>3. window' \in Windows /\ window'.open = window.open /\ window'.count = window.count /\ ~window'.restore
  BY <1>1, <1>2 DEF Windows
<1>4. ServerInv' BY <1>1, PageLeavesServer DEF HistoryInv
<1>5. BrowserTypes' BY <1>1, <1>3 DEF HistoryInv, BrowserTypes, Windows
<1>6. PageInv' BY <1>1, <1>3 DEF HistoryInv, PageInv, AllMessages
<1>7. WholeInv' BY <1>1 DEF HistoryInv, WholeInv, NoLoad
<1>8. RestoreInv' BY <1>3 DEF RestoreInv
<1> QED BY <1>4, <1>5, <1>6, <1>7, <1>8 DEF HistoryInv

\* Older messages arrive.
LEMMA OlderArrivesKeeps == ASSUME HistoryInv, OlderArrives PROVE HistoryInv'
<1> DEFINE items == PageBefore(older.before)
           w == [window EXCEPT !.count = @ + Cardinality(items),
                               !.hasMore = (Cardinality(items) = Increment),
                               !.restore = @ /\ items # {}]
<1>1. /\ older.stage = "asked" /\ older' = NoLoad
      /\ browserStore' = browserStore \cup items /\ olderLoaded' = olderLoaded \cup items
      /\ Shown(AllMessages \cup items, w)
      /\ UNCHANGED <<listed, whole, pageCursor>>
      /\ UNCHANGED <<room, state, seen, cursor, bootstrapped, poll, got, floor, twice, connects>>
  BY DEF OlderArrives, ditVars
<1>2. /\ room \in Nat /\ AllMessages \subseteq 0 .. room /\ window \in Windows /\ window.count \in Nat
      /\ InitialVisible \in Nat \ {0} /\ Increment \in Nat \ {0} /\ browserStore \subseteq 1 .. room
  BY BrowserTypesFields, HistoryAssumption
<1>3. /\ window.open /\ older \in [stage : {"asked"}, before : Nat]
      /\ AllMessages = browserStore /\ window.count >= InitialVisible
  <2>1. older # NoLoad BY <1>1 DEF NoLoad
  <2> QED BY <2>1, <1>2 DEF HistoryInv, BrowserTypes, PageInv, Windows
<1>4. older.before \in Nat BY <1>3
<1>5. items \subseteq 1 .. room /\ \A i \in items : i < older.before BY DEF PageBefore
<1>6. IsFiniteSet(items) /\ Cardinality(items) \in Nat
  <2>1. IsFiniteSet(1 .. room) BY <1>2, FS_Interval
  <2> HIDE DEF items
  <2> QED BY <2>1, <1>5, FS_Subset, FS_CardinalityType
<1>7. PICK n \in Nat : n = window.count + Cardinality(items) /\ n >= InitialVisible BY <1>2, <1>3, <1>6
<1>8. w \in Windows /\ w.open = window.open /\ w.count = n /\ (w.restore => window.restore /\ items # {})
  <2>1. PICK more \in BOOLEAN : more = (Cardinality(items) = Increment) OBVIOUS
  <2>2. PICK back \in BOOLEAN : back = (window.restore /\ items # {}) OBVIOUS
  <2>3. w = [window EXCEPT !.count = n, !.hasMore = more, !.restore = back] BY <1>7, <2>1, <2>2
  <2> HIDE DEF w, items
  <2>4. w \in Windows /\ w.open = window.open /\ w.count = n /\ w.restore = back BY <2>3, <1>2 DEF Windows
  <2> QED BY <2>2, <2>4
<1> HIDE DEF w
<1>9. /\ window' \in Windows /\ window'.open = w.open /\ window'.count = w.count
      /\ window'.restore => /\ w.restore
                            /\ Cardinality(VisibleOf(AllMessages \cup items, w.count)) = Cardinality(WindowMessages)
  <2>1. PICK all : all = AllMessages \cup items OBVIOUS
  <2>2. PICK v \in Windows : v = w BY <1>8
  <2>3. Shown(all, v) BY <2>1, <2>2, <1>1
  <2> QED BY <2>1, <2>2, <2>3, ShownWindow
<1>10. AllMessages' = AllMessages \cup items BY <1>1 DEF AllMessages
<1> HIDE DEF items
<1>11. ~window'.restore
  <2> SUFFICES ASSUME window'.restore PROVE FALSE OBVIOUS
  <2>1. PICK before : before = AllMessages OBVIOUS
  <2>2. PICK all : all = AllMessages \cup items OBVIOUS
  <2>3. all \subseteq 0 .. room /\ before \subseteq all
    <3>1. 1 .. room \subseteq 0 .. room OBVIOUS
    <3> QED BY <3>1, <2>1, <2>2, <1>2, <1>5
  <2>4. PICK shown : shown = VisibleOf(before, window.count) OBVIOUS
  <2>5. PICK shows : shows = VisibleOf(all, n) OBVIOUS
  <2>6. /\ Cardinality(before) \in Nat /\ Cardinality(shown) \in Nat
        /\ \/ shown = before /\ Cardinality(before) <= window.count
           \/ shown # before /\ Cardinality(shown) = window.count /\ Cardinality(before) > window.count
    BY <1>2, <1>3, <2>1, <2>4, VisibleSize
  <2>7. /\ Cardinality(all) \in Nat /\ Cardinality(shows) \in Nat
        /\ \/ shows = all /\ Cardinality(all) <= n
           \/ shows # all /\ Cardinality(shows) = n /\ Cardinality(all) > n
    BY <1>2, <1>7, <2>3, <2>5, VisibleSize
  <2>8. Cardinality(before) <= Cardinality(all) /\ (Cardinality(before) = Cardinality(all) => before = all)
    BY <1>2, <2>3, MoreMessages
  <2>9. Cardinality(shows) = Cardinality(shown)
    <3>1. WindowMessages = shown BY <2>1, <2>4 DEF WindowMessages
    <3> QED BY <3>1, <1>8, <1>9, <2>2, <2>5
  <2>10. window.restore /\ items # {} BY <1>8, <1>9
  <2>11. Cardinality(items) # 0 BY <2>10, <1>6, FS_EmptySet
  <2>12. n > window.count BY <2>11, <1>2, <1>6, <1>7
  <2>13. shown = before \/ FALSE BY <2>6, <2>7, <2>8, <2>9, <2>12, <1>2, <1>7
  <2>14. WindowMessages = AllMessages BY <2>1, <2>4, <2>13 DEF WindowMessages
  <2>15. \A i \in AllMessages : older.before <= i BY <2>10, <2>14 DEF HistoryInv, RestoreInv
  <2>16. PICK i \in items : TRUE BY <2>10
  <2>17. i \notin before
    <3>1. i < older.before /\ i \in Nat BY <1>2, <1>5
    <3> QED BY <3>1, <2>1, <2>15, <1>4
  <2>18. before # all BY <2>2, <2>16, <2>17
  <2> QED BY <2>6, <2>7, <2>8, <2>9, <2>12, <2>13, <2>18, <1>2, <1>7
<1>12. ServerInv' BY <1>1, PageLeavesServer DEF HistoryInv
<1>13. BrowserTypes'
  <2>1. browserStore' \subseteq 1 .. room /\ olderLoaded' \subseteq 1 .. room
    BY <1>1, <1>5 DEF HistoryInv, BrowserTypes
  <2> QED BY <2>1, <1>1, <1>9 DEF HistoryInv, BrowserTypes, Windows
<1>14. PageInv' BY <1>1, <1>3, <1>7, <1>8, <1>9, <1>10 DEF PageInv
<1>15. RestoreInv' BY <1>11 DEF RestoreInv
<1>16. WholeInv'
  <2> SUFFICES ASSUME whole PROVE WholeInv' BY <1>1 DEF WholeInv
  <2>1. /\ \A i \in browserStore, j \in browserStore : i .. j \subseteq browserStore
        /\ browserStore # {} => \E i \in browserStore \cap got : \A j \in got : i <= j
        /\ \A i \in browserStore : \E j \in got : i <= j
        /\ older.before \in browserStore /\ \A i \in browserStore : older.before <= i
        /\ connects > 0 /\ pageCursor <= Cardinality(got)
        /\ \A i \in got : Cardinality({j \in got : j <= i}) <= pageCursor => i \in browserStore
    BY <1>1 DEF HistoryInv, WholeInv
  <2>2. PICK b \in 1 .. room : b = older.before BY <2>1, <1>2
  <2>3. \A k : k \in items <=> k \in 1 .. room /\ k < b /\ k >= b - Increment BY <2>2 DEF items, PageBefore
  <2>4. browserStore' = browserStore \cup items BY <1>1
  <2>5. ASSUME NEW i \in browserStore', NEW j \in browserStore', NEW k \in i .. j PROVE k \in browserStore'
    <3>1. i \in 1 .. room /\ j \in 1 .. room /\ k \in 1 .. room BY <2>4, <1>2, <1>5
    <3>2. i <= k /\ k <= j BY <3>1
    <3>3. CASE k < b
      <4>1. i \in items BY <3>1, <3>2, <3>3, <2>1, <2>2, <2>4
      <4>2. k >= b - Increment BY <4>1, <3>1, <3>2, <2>3, <1>2
      <4> QED BY <4>2, <3>1, <3>3, <2>3, <2>4
    <3>4. CASE k >= b
      <4>1. j \in browserStore BY <3>1, <3>2, <3>4, <2>3, <2>4
      <4>2. k \in b .. j BY <3>1, <3>2, <3>4
      <4> QED BY <4>1, <4>2, <2>1, <2>2, <2>4
    <3> QED BY <3>1, <3>3, <3>4
  <2>6. \A i \in browserStore' : \E j \in got : i <= j
    <3>1. PICK g \in got : b <= g BY <2>1, <2>2
    <3>2. g \in Nat BY BrowserTypesFields, <1>2
    <3>3. \A i \in items : i <= g BY <3>1, <3>2, <2>3, <1>2
    <3> QED BY <3>1, <3>3, <2>1, <2>4
  <2>7. older'.stage # "asked" BY <1>1 DEF NoLoad
  <2>8. \E i \in browserStore' \cap got : \A j \in got : i <= j BY <2>1, <2>4
  <2> QED BY <2>1, <2>4, <2>5, <2>6, <2>7, <2>8, <1>1 DEF WholeInv
<1> QED BY <1>12, <1>13, <1>14, <1>15, <1>16 DEF HistoryInv

-------------------------------------------------------------------------------

\* The invariant holds before the first connection.
LEMMA HistoryInitially == HistoryInit => HistoryInv
<1> SUFFICES ASSUME HistoryInit PROVE HistoryInv OBVIOUS
<1>1. DitInv BY DitInitially DEF HistoryInit
<1>2. /\ got = {} /\ cursor = 0 /\ poll.stage = "none" /\ connects = 0
      /\ browserStore = {} /\ listed = {} /\ olderLoaded = {} /\ window = Closed
      /\ pageCursor = 0 /\ older = NoLoad /\ whole = FALSE
  BY DEF HistoryInit, DitInit, NoPoll
<1>3. ServerInv BY <1>1, <1>2 DEF ServerInv
<1>4. window \in Windows /\ window.open = FALSE /\ window.restore = FALSE BY <1>2 DEF Closed, Windows
<1>5. BrowserTypes BY <1>2, <1>4 DEF BrowserTypes, Windows
<1>6. PageInv /\ WholeInv /\ RestoreInv BY <1>2, <1>4 DEF PageInv, WholeInv, RestoreInv
<1> QED BY <1>3, <1>5, <1>6 DEF HistoryInv

\* Every step keeps the invariant.
LEMMA HistoryStep == HistoryInv /\ [HistoryNext]_historyVars => HistoryInv'
<1> SUFFICES ASSUME HistoryInv, [HistoryNext]_historyVars PROVE HistoryInv' OBVIOUS
<1>1. CASE UNCHANGED historyVars
  <2>1. ServerInv' BY <1>1, PageLeavesServer DEF historyVars, ditVars, HistoryInv
  <2>2. BrowserTypes' BY <1>1 DEF historyVars, ditVars, browserVars, HistoryInv, BrowserTypes, NoLoad
  <2>3. PageInv' /\ RestoreInv'
    BY <1>1 DEF historyVars, browserVars, HistoryInv, PageInv, RestoreInv, AllMessages, WindowMessages, VisibleOf,
                Newest, NoLoad
  <2>4. WholeInv' BY <1>1 DEF historyVars, ditVars, browserVars, HistoryInv, WholeInv
  <2> QED BY <2>1, <2>2, <2>3, <2>4 DEF HistoryInv
<1> QED BY <1>1, ServerStartsKeeps, ServerRunsKeepsHistory, OpenPageKeeps, ClosePageKeeps, PagePollsKeeps,
           PageReloadsListKeeps, ShowMoreKeeps, LoadOlderKeeps, OlderArrivesKeeps, OlderFailsKeeps, Zenon
        DEF HistoryNext

\* The invariant says more than the property.
LEMMA HistoryIsWholeFromInv == HistoryInv => HistoryIsWhole
<1> SUFFICES ASSUME HistoryInv PROVE HistoryIsWhole OBVIOUS
<1>1. room \in Nat /\ AllMessages \subseteq 0 .. room /\ window.count \in Nat /\ InitialVisible \in Nat
  BY BrowserTypesFields, HistoryAssumption
<1>2. ASSUME whole PROVE NoHole
  <2>1. \A i \in AllMessages, j \in AllMessages : i .. j \subseteq AllMessages
    <3>1. CASE window.open BY <3>1, <1>2 DEF HistoryInv, PageInv, WholeInv
    <3>2. CASE ~window.open BY <3>2 DEF HistoryInv, PageInv, AllMessages
    <3> QED BY <3>1, <3>2
  <2>2. PICK n \in Nat : n = IF window.count > InitialVisible THEN window.count ELSE InitialVisible BY <1>1
  <2>3. PICK all : all = AllMessages OBVIOUS
  <2>4. WindowMessages = Newest(all, n) BY <2>2, <2>3 DEF WindowMessages, VisibleOf
  <2>5. \A i \in Newest(all, n), j \in Newest(all, n) : i .. j \subseteq Newest(all, n)
    BY <2>1, <2>3, <1>1, NewestHasNoHole
  <2> QED BY <2>4, <2>5 DEF NoHole
<1>3. ASSUME window.restore PROVE older # NoLoad
  <2>1. older.stage = "asked" BY <1>3 DEF HistoryInv, RestoreInv
  <2> QED BY <2>1 DEF NoLoad
<1> QED BY <1>2, <1>3 DEF HistoryIsWhole, NoHoleIfWhole, ScrollIsNotStuck

\* ChatSurface.tsx and page.tsx of the DIT demo: for a browser that had nothing stored when it met
\* the server process the history shown has no hole that scrolling up cannot fill, and scrolling is
\* not stuck, over polls, reloads, restarts and failures; for any room, page size and window.
THEOREM HistoryHasNoHole == HistorySpec => []HistoryIsWhole
<1>1. HistorySpec => []HistoryInv BY HistoryInitially, HistoryStep, PTL DEF HistorySpec
<1> QED BY <1>1, HistoryIsWholeFromInv, PTL


-------------------------------------------------------------------------------
(* DemoApi *)

\* The types of the variables the other invariants speak of; only a local demo has asks.
ApiTypes ==
    /\ apiDemo \in Demos
    /\ contexts \in [Visitors -> [id : Nat, age : Nat, rooms : SUBSET Nat]]
    /\ builds \in Nat
    /\ pages \in [Visitors -> [room : Nat, silent : Nat]]
    /\ asks # {} => apiDemo \in LocalDemos
    /\ asks \subseteq [by : Visitors, room : Nat, prompt : Prompts[apiDemo], context : Nat,
                       excused : BOOLEAN]

\* The DIT engine is built only from a configured environment.
EngineConfigured == ditEngine # "none" => ditConfigured

\* A page that is not silent for too long has kept its session younger than its silence.
SessionsKept ==
    \A v \in Visitors : pages[v].room # 0 /\ pages[v].silent < SessionTtl =>
        /\ contexts[v].id # 0 /\ contexts[v].age <= pages[v].silent
        /\ pages[v].room \in contexts[v].rooms

\* A message that came in time was sent in the session its page still has, and no time passed.
AsksKept ==
    \A ask \in asks : ~ask.excused =>
        /\ contexts[ask.by].id # 0 /\ contexts[ask.by].age = 0
        /\ contexts[ask.by].id = ask.context /\ ask.room \in contexts[ask.by].rooms

Replied == replied.names # "none" => replied.reply = replied.names

ApiInv == ApiTypes /\ EngineConfigured /\ SessionsKept /\ AsksKept /\ Replied /\ OnlyFlawedRefused

\* The first of the words that a prompt holds is the only one, or precedes the other.
LEMMA FirstIsLeast ==
    ASSUME NEW S \in SUBSET Nat, NEW n \in S, \A k \in S : n <= k
    PROVE  (CHOOSE k \in S : IsFirst(k, S)) = n
<1>1. IsFirst(n, S)
  BY DEF IsFirst
<1>2. \A k \in S : IsFirst(k, S) => k = n
  BY DEF IsFirst
<1> QED
  BY <1>1, <1>2

\* Every prompt of a local demo whose sender names a reply is resolved to that reply.
LEMMA PromptsResolve ==
    ASSUME NEW demo \in LocalDemos, NEW prompt \in Prompts[demo], prompt.names # "none"
    PROVE  Resolve(demo, prompt) = prompt.names
<1>1. prompt \in Buttons[demo]
  BY DEF Prompts, TypedPrompts, Untagged
<1>2. CASE demo = "media"
  <2>1. PICK w \in WordsOf("media") : prompt = Button(w, {w})
    BY <1>1, <1>2 DEF Buttons
  <2>2. w # "none"
    BY DEF WordsOf, Keywords, LocalDemos, Demos
  <2> QED
    BY <2>1, <2>2 DEF Button, Resolve
<1>3. CASE demo = "streaming"
  BY <1>1, <1>3 DEF Buttons, Button, Resolve
<1>4. CASE demo = "next-backend"
  BY <1>1, <1>4 DEF Buttons, Button, Resolve
<1>5. CASE demo = "persistence"
  BY <1>1, <1>5 DEF Buttons
<1>6. CASE demo = "websocket"
  <2> DEFINE words == prompt.words
             found == {n \in DOMAIN Keywords[demo] : Keywords[demo][n] \in words}
             first == CHOOSE n \in found : IsFirst(n, found)
  <2>1. Keywords[demo] = <<"reconnect", "typing", "transport">>
    BY <1>6 DEF Keywords
  <2>2. Resolve(demo, prompt) = FromPrompt(demo, words) /\ prompt \in {Untagged("transport", {"transport"}), Untagged("reconnect", {"reconnect", "transport"})}
    BY <1>1, <1>6 DEF Buttons, Untagged, Resolve
  <2>3. DOMAIN Keywords[demo] = {1, 2, 3}
    BY <2>1
  <2>4. CASE prompt = Untagged("transport", {"transport"})
    <3>1. found = {3}
      BY <2>1, <2>3, <2>4 DEF Untagged
    <3>2. first = 3
      BY <3>1, FirstIsLeast
    <3>3. FromPrompt(demo, words) = IF found = {} THEN Otherwise[demo] ELSE Keywords[demo][first]
      BY DEF FromPrompt
    <3>4. FromPrompt(demo, words) = "transport"
      <4> HIDE DEF found, first, words
      <4> QED
        BY <3>1, <3>2, <3>3, <2>1
    <3> QED
      BY <3>4, <2>2, <2>4 DEF Untagged
  <2>5. CASE prompt = Untagged("reconnect", {"reconnect", "transport"})
    <3>1. found = {1, 3}
      BY <2>1, <2>3, <2>5 DEF Untagged
    <3>2. first = 1
      BY <3>1, FirstIsLeast
    <3>3. FromPrompt(demo, words) = IF found = {} THEN Otherwise[demo] ELSE Keywords[demo][first]
      BY DEF FromPrompt
    <3>4. FromPrompt(demo, words) = "reconnect"
      <4> HIDE DEF found, first, words
      <4> QED
        BY <3>1, <3>2, <3>3, <2>1
    <3> QED
      BY <3>4, <2>2, <2>5 DEF Untagged
  <2> QED
    BY <2>2, <2>4, <2>5
<1> QED
  BY <1>2, <1>3, <1>4, <1>5, <1>6 DEF LocalDemos, Demos

\* A request finds its session young: the one it had if that has not expired, else a new one.
\* Of the others' it drops the expired ones.
LEMMA SessionReached ==
    ASSUME ApiTypes, NEW v \in Visitors, NEW seeds \in BOOLEAN, Reaches(v, seeds)
    PROVE  /\ contexts' \in [Visitors -> [id : Nat, age : Nat, rooms : SUBSET Nat]]
           /\ builds' \in Nat
           /\ contexts'[v].id # 0 /\ contexts'[v].age = 0
           /\ contexts[v].id # 0 /\ contexts[v].age < SessionTtl =>
                /\ contexts'[v].id = contexts[v].id
                /\ contexts[v].rooms # {} => contexts'[v].rooms = contexts[v].rooms
           /\ \A w \in Visitors \ {v} : contexts[w].age < SessionTtl => contexts'[w] = contexts[w]
<1> DEFINE C == [id : Nat, age : Nat, rooms : SUBSET Nat]
<1>0. SessionTtl \in Nat \ {0}
  BY ApiAssumption
<1>1. /\ Cleaned(contexts) \in [Visitors -> C]
      /\ \A w \in Visitors : contexts[w].age < SessionTtl => Cleaned(contexts)[w] = contexts[w]
  BY <1>0 DEF Cleaned, NoContext, ApiTypes
<1>2. /\ Accessed(v) \in [Visitors -> C]
      /\ Accessed(v)[v].id # 0 /\ Accessed(v)[v].age = 0
      /\ contexts[v].id # 0 /\ contexts[v].age < SessionTtl =>
           /\ Accessed(v)[v].id = contexts[v].id /\ Accessed(v)[v].rooms = contexts[v].rooms
      /\ \A w \in Visitors \ {v} : Accessed(v)[w] = Cleaned(contexts)[w]
  <2> HIDE DEF C
  <2>1. /\ [NoContext EXCEPT !.id = builds + 1] \in C
        /\ [NoContext EXCEPT !.id = builds + 1].id # 0 /\ [NoContext EXCEPT !.id = builds + 1].age = 0
    BY DEF NoContext, ApiTypes, C
  <2>2. \A c \in C : /\ [c EXCEPT !.age = 0] \in C
                     /\ [c EXCEPT !.age = 0].id = c.id /\ [c EXCEPT !.age = 0].age = 0
                     /\ [c EXCEPT !.age = 0].rooms = c.rooms
    BY DEF C
  <2>3. Cleaned(contexts)[v] \in C
    BY <1>1
  <2> QED
    BY <1>1, <2>1, <2>2, <2>3 DEF Accessed
<1>3. RoomsOf(Accessed(v)[v]) \subseteq Nat
  BY <1>2 DEF RoomsOf
<1>4. /\ Seeded(Accessed(v), v) \in [Visitors -> C]
      /\ Seeded(Accessed(v), v)[v].id = Accessed(v)[v].id
      /\ Seeded(Accessed(v), v)[v].age = Accessed(v)[v].age
      /\ Accessed(v)[v].rooms # {} => Seeded(Accessed(v), v)[v].rooms = Accessed(v)[v].rooms
      /\ \A w \in Visitors \ {v} : Seeded(Accessed(v), v)[w] = Accessed(v)[w]
  BY <1>2, <1>3 DEF Seeded
<1>5. contexts' = Seeded(Accessed(v), v) \/ contexts' = Accessed(v)
  BY DEF Reaches
<1>6. builds' \in Nat
  BY DEF Reaches, ApiTypes
<1> HIDE DEF C
<1>7. contexts' \in [Visitors -> C]
  BY <1>2, <1>4, <1>5
<1>8. contexts'[v].id # 0 /\ contexts'[v].age = 0
  BY <1>2, <1>4, <1>5
<1> QED
  BY <1>1, <1>2, <1>4, <1>5, <1>6, <1>7, <1>8 DEF C

\* What a request leaves of the other invariants when it reaches v's session and v's page hears
\* from it, or shows a conversation of it.
LEMMA RequestKeeps ==
    ASSUME ApiTypes, SessionsKept, AsksKept, NEW v \in Visitors, NEW seeds \in BOOLEAN,
           Reaches(v, seeds), UNCHANGED apiDemo, apiDemo \in LocalDemos,
           \/ pages' = HeardFrom(v)
           \/ \E r \in contexts'[v].rooms : pages' = [pages EXCEPT ![v] = [room |-> r, silent |-> 0]]
    PROVE  /\ contexts' \in [Visitors -> [id : Nat, age : Nat, rooms : SUBSET Nat]]
           /\ builds' \in Nat
           /\ pages' \in [Visitors -> [room : Nat, silent : Nat]]
           /\ SessionsKept'
           /\ \A ask \in asks : ~ask.excused =>
                /\ contexts'[ask.by].id # 0 /\ contexts'[ask.by].age = 0
                /\ contexts'[ask.by].id = ask.context /\ ask.room \in contexts'[ask.by].rooms
<1>0. SessionTtl \in Nat \ {0}
  BY ApiAssumption
<1>1. /\ contexts' \in [Visitors -> [id : Nat, age : Nat, rooms : SUBSET Nat]]
      /\ builds' \in Nat
      /\ contexts'[v].id # 0 /\ contexts'[v].age = 0
      /\ contexts[v].id # 0 /\ contexts[v].age < SessionTtl =>
           /\ contexts'[v].id = contexts[v].id
           /\ contexts[v].rooms # {} => contexts'[v].rooms = contexts[v].rooms
      /\ \A w \in Visitors \ {v} : contexts[w].age < SessionTtl => contexts'[w] = contexts[w]
  BY SessionReached
<1>2. pages' \in [Visitors -> [room : Nat, silent : Nat]]
  <2>1. CASE pages' = HeardFrom(v)
    BY <2>1 DEF HeardFrom, ApiTypes
  <2>2. CASE \E r \in contexts'[v].rooms : pages' = [pages EXCEPT ![v] = [room |-> r, silent |-> 0]]
    <3>1. PICK r \in contexts'[v].rooms : pages' = [pages EXCEPT ![v] = [room |-> r, silent |-> 0]]
      BY <2>2
    <3>2. r \in Nat
      BY <1>1
    <3> QED
      BY <3>1, <3>2 DEF ApiTypes
  <2> QED
    BY <2>1, <2>2
<1>3. \A w \in Visitors \ {v} : pages'[w] = pages[w]
  BY DEF HeardFrom, ApiTypes
<1>4. SessionsKept'
  <2> SUFFICES ASSUME NEW w \in Visitors, pages'[w].room # 0, pages'[w].silent < SessionTtl
               PROVE  /\ contexts'[w].id # 0 /\ contexts'[w].age <= pages'[w].silent
                      /\ pages'[w].room \in contexts'[w].rooms
    BY DEF SessionsKept
  <2>1. CASE w # v
    <3>1. pages'[w] = pages[w] /\ w \in Visitors \ {v}
      BY <1>3, <2>1
    <3>2. contexts[w].id # 0 /\ contexts[w].age <= pages[w].silent /\ pages[w].room \in contexts[w].rooms
      BY <3>1 DEF SessionsKept
    <3>3. contexts[w].age < SessionTtl
      BY <1>0, <3>1, <3>2 DEF ApiTypes
    <3> QED
      BY <1>1, <3>1, <3>2, <3>3
  <2>2. CASE w = v /\ pages' = HeardFrom(v)
    <3>1. pages'[v].room = pages[v].room /\ pages[v].silent < SessionTtl /\ pages'[v].silent = 0
      BY <1>0, <2>2 DEF HeardFrom, ApiTypes
    <3>2. contexts[v].id # 0 /\ contexts[v].age <= pages[v].silent /\ pages[v].room \in contexts[v].rooms
      BY <2>2, <3>1 DEF SessionsKept
    <3>3. contexts[v].age < SessionTtl
      BY <1>0, <3>1, <3>2 DEF ApiTypes
    <3> QED
      BY <1>1, <2>2, <3>1, <3>2, <3>3
  <2>3. CASE w = v /\ \E r \in contexts'[v].rooms : pages' = [pages EXCEPT ![v] = [room |-> r, silent |-> 0]]
    BY <1>1, <2>3 DEF ApiTypes
  <2> QED
    BY <2>1, <2>2, <2>3
<1>5. ASSUME NEW ask \in asks, ~ask.excused
      PROVE  /\ contexts'[ask.by].id # 0 /\ contexts'[ask.by].age = 0
             /\ contexts'[ask.by].id = ask.context /\ ask.room \in contexts'[ask.by].rooms
  <2>1. /\ contexts[ask.by].id # 0 /\ contexts[ask.by].age = 0 /\ ask.by \in Visitors
        /\ contexts[ask.by].id = ask.context /\ ask.room \in contexts[ask.by].rooms
    BY <1>5 DEF AsksKept, ApiTypes
  <2>2. contexts[ask.by].age < SessionTtl
    BY <1>0, <2>1
  <2>3. CASE ask.by = v
    BY <1>1, <2>1, <2>2, <2>3
  <2>4. CASE ask.by # v
    BY <1>1, <2>1, <2>2, <2>4
  <2> QED
    BY <2>3, <2>4
<1> QED
  BY <1>1, <1>2, <1>4, <1>5

\* Serving a request of a local demo keeps the sessions and the asks.
LEMMA ServingKeeps ==
    ASSUME ApiTypes, SessionsKept, AsksKept, NEW v \in Visitors, NEW route, ServeLocal(v, route),
           UNCHANGED apiDemo, apiDemo \in LocalDemos
    PROVE  ApiTypes' /\ SessionsKept' /\ AsksKept'
<1>0. SessionTtl \in Nat \ {0}
  BY ApiAssumption
<1>1. ASSUME NEW seeds \in BOOLEAN, Reaches(v, seeds), UNCHANGED asks,
             \/ pages' = HeardFrom(v)
             \/ \E r \in contexts'[v].rooms : pages' = [pages EXCEPT ![v] = [room |-> r, silent |-> 0]]
      PROVE  ApiTypes' /\ SessionsKept' /\ AsksKept'
  BY <1>1, RequestKeeps DEF ApiTypes, AsksKept
<1>2. CASE Bootstrap(v)
  BY <1>1, <1>2 DEF Bootstrap
<1>3. CASE ListConversations(v)
  BY <1>1, <1>3 DEF ListConversations
<1>4. ASSUME NEW seeds \in BOOLEAN, ReadsRoom(v, seeds) PROVE ApiTypes' /\ SessionsKept' /\ AsksKept'
  BY <1>1, <1>4 DEF ReadsRoom
<1>5. CASE AcceptMessage(v)
  <2> USE <1>5 DEF AcceptMessage
  <2>1. /\ contexts' \in [Visitors -> [id : Nat, age : Nat, rooms : SUBSET Nat]]
        /\ builds' \in Nat
        /\ pages' \in [Visitors -> [room : Nat, silent : Nat]]
        /\ SessionsKept'
        /\ \A ask \in asks : ~ask.excused =>
             /\ contexts'[ask.by].id # 0 /\ contexts'[ask.by].age = 0
             /\ contexts'[ask.by].id = ask.context /\ ask.room \in contexts'[ask.by].rooms
    BY RequestKeeps
  <2>2. PICK prompt \in Prompts[apiDemo] :
          asks' = asks \cup {[by |-> v, room |-> pages[v].room, prompt |-> prompt,
                              context |-> contexts'[v].id, excused |-> pages[v].silent >= SessionTtl]}
    OBVIOUS
  <2> DEFINE new == [by |-> v, room |-> pages[v].room, prompt |-> prompt,
                     context |-> contexts'[v].id, excused |-> pages[v].silent >= SessionTtl]
  <2>3. new \in [by : Visitors, room : Nat, prompt : Prompts[apiDemo], context : Nat, excused : BOOLEAN]
    BY <2>1 DEF ApiTypes
  <2>4. ApiTypes'
    <3> HIDE DEF new
    <3> QED
      BY <2>1, <2>2, <2>3 DEF ApiTypes, new
  <2>5. ~new.excused => /\ contexts'[new.by].id # 0 /\ contexts'[new.by].age = 0
                        /\ contexts'[new.by].id = new.context /\ new.room \in contexts'[new.by].rooms
    <3> SUFFICES ASSUME ~new.excused
                 PROVE  /\ contexts'[v].id # 0 /\ contexts'[v].age = 0 /\ pages[v].room \in contexts'[v].rooms
      OBVIOUS
    <3>0. ~(pages[v].silent >= SessionTtl)
      <4>1. new.excused = (pages[v].silent >= SessionTtl)
        OBVIOUS
      <4> QED
        BY <4>1, Zenon
    <3>1. pages[v].silent < SessionTtl /\ pages[v].room # 0
      <4>1. pages[v].silent \in Nat
        BY DEF ApiTypes
      <4> QED
        BY <1>0, <3>0, <4>1
    <3>2. contexts[v].id # 0 /\ contexts[v].age <= pages[v].silent /\ pages[v].room \in contexts[v].rooms
      BY <3>1 DEF SessionsKept
    <3>3. contexts[v].age < SessionTtl
      BY <1>0, <3>1, <3>2 DEF ApiTypes
    <3> QED
      BY <3>2, <3>3, SessionReached
  <2>6. AsksKept'
    <3> HIDE DEF new
    <3> QED
      BY <2>1, <2>2, <2>5 DEF AsksKept, new
  <2> QED
    BY <2>1, <2>4, <2>6
<1>6. CASE UNCHANGED apiLocal
  BY <1>6 DEF apiLocal, ApiTypes, SessionsKept, AsksKept
<1> QED
  BY <1>2, <1>3, <1>4, <1>5, <1>6 DEF ServeLocal

\* The status of a request: a check refuses it, the demo serves it, or the DIT service fails.
LEMMA StatusIsFair ==
    ASSUME ApiTypes, EngineConfigured, EngineConfigured',
           NEW v \in Visitors, NEW api, NEW route, NEW checks,
           \/ api = "demos" /\ route \in DOMAIN Checks /\ checks = Checks[route]
           \/ api = "chat" /\ route \in DOMAIN ChatChecks /\ checks = ChatChecks[route],
           Request(v, api, route, checks)
    PROVE  OnlyFlawedRefused'
<1> SUFFICES ASSUME ~answer'.flawed
             PROVE  /\ answer'.status \in {0, 200, 500, 503}
                    /\ answer'.status = 503 => apiDemo = "dit-modive" /\ ~ditConfigured
                    /\ answer'.status = 500 => apiDemo = "dit-modive" /\ ditConfigured
  BY DEF OnlyFlawedRefused, Request
<1>1. PICK flaws \in Flaws(checks) :
        \/ \E first \in Failures(checks, flaws) :
             answer' = [status |-> Refusal[checks[first]], flawed |-> flaws # {}]
        \/ /\ Failures(checks, flaws) = {} /\ apiDemo \in LocalDemos
           /\ answer' = [status |-> 200, flawed |-> flaws # {}]
        \/ /\ Failures(checks, flaws) = {} /\ apiDemo = "dit-modive"
           /\ \E status \in DitStatus(api, route) : answer' = [status |-> status, flawed |-> flaws # {}]
  BY DEF Request
<1>2. flaws = {}
  <2>1. answer'.flawed = (flaws # {})
    BY <1>1
  <2> QED
    BY <2>1
<1>3. Failures(checks, {}) = {n \in DOMAIN checks : checks[n] = "env" /\ Unavailable}
  BY DEF Failures
<1>4. CASE \E first \in Failures(checks, flaws) :
             answer' = [status |-> Refusal[checks[first]], flawed |-> flaws # {}]
  <2>1. PICK first \in Failures(checks, flaws) :
             answer' = [status |-> Refusal[checks[first]], flawed |-> flaws # {}]
    BY <1>4
  <2>2. checks[first] = "env" /\ Unavailable
    BY <1>2, <1>3
  <2> QED
    BY <2>1, <2>2 DEF Refusal, Unavailable
<1>5. CASE answer' = [status |-> 200, flawed |-> flaws # {}]
  BY <1>5
<1>6. CASE /\ Failures(checks, flaws) = {} /\ apiDemo = "dit-modive"
           /\ \E status \in DitStatus(api, route) : answer' = [status |-> status, flawed |-> flaws # {}]
  <2>1. PICK status \in DitStatus(api, route) : answer' = [status |-> status, flawed |-> flaws # {}]
    BY <1>6
  <2>2. answer'.status \in {200, 500}
    BY <2>1 DEF DitStatus
  <2>3. ASSUME answer'.status = 500 PROVE ditConfigured
    <3>1. route \in {"page", "send"} \/ ditEngine' = "failed"
      BY <2>1, <2>3 DEF DitStatus
    <3>2. CASE ditEngine' = "failed"
      BY <3>2 DEF EngineConfigured, Request
    <3>3. CASE route \in {"page", "send"}
      <4>1. \E n \in DOMAIN checks : checks[n] = "env"
        <5>1. checks \in {PageChecks, SendChecks, ChatSendChecks}
          BY <3>3 DEF Checks, ChatChecks
        <5> QED
          BY <5>1 DEF PageChecks, SendChecks, ChatSendChecks
      <4> QED
        BY <1>2, <1>3, <1>6, <4>1 DEF Unavailable
    <3> QED
      BY <3>1, <3>2, <3>3
  <2> QED
    BY <1>6, <2>2, <2>3
<1> QED
  BY <1>1, <1>4, <1>5, <1>6

\* A request keeps the invariant.
LEMMA RequestInv ==
    ASSUME ApiInv, NEW v \in Visitors, NEW api, NEW route, NEW checks,
           \/ api = "demos" /\ route \in DOMAIN Checks /\ checks = Checks[route]
           \/ api = "chat" /\ route \in DOMAIN ChatChecks /\ checks = ChatChecks[route],
           Request(v, api, route, checks)
    PROVE  ApiInv'
<1> USE DEF ApiInv
<1>1. UNCHANGED <<apiDemo, ditConfigured>> /\ replied' = NoReply
  BY DEF Request
<1>2. \/ UNCHANGED <<ditEngine, apiLocal>>
      \/ apiDemo \in LocalDemos /\ ServeLocal(v, route) /\ UNCHANGED ditEngine
      \/ ServeDit(route) /\ UNCHANGED apiLocal
  BY DEF Request
<1>3. EngineConfigured'
  BY <1>1, <1>2 DEF EngineConfigured, ServeDit, BuildDit
<1>4. OnlyFlawedRefused'
  BY <1>3, StatusIsFair
<1>5. ApiTypes' /\ SessionsKept' /\ AsksKept'
  <2>1. CASE UNCHANGED apiLocal
    BY <1>1, <2>1 DEF apiLocal, ApiTypes, SessionsKept, AsksKept
  <2>2. CASE apiDemo \in LocalDemos /\ ServeLocal(v, route)
    BY <1>1, <2>2, ServingKeeps
  <2> QED
    BY <1>2, <2>1, <2>2
<1>6. Replied'
  BY <1>1 DEF Replied, NoReply
<1> QED
  BY <1>3, <1>4, <1>5, <1>6

\* The invariant holds initially.
LEMMA ApiInitInv ==
    ASSUME ApiInit
    PROVE  ApiInv
  BY DEF ApiInit, ApiInv, ApiTypes, EngineConfigured, SessionsKept, AsksKept, Replied, OnlyFlawedRefused,
         NoContext, NoPage, NoReply, NoAnswer

\* Every step keeps the invariant.
LEMMA ApiStepInv ==
    ASSUME ApiInv, [ApiNext]_apiVars
    PROVE  ApiInv'
<1>0. SessionTtl \in Nat \ {0}
  BY ApiAssumption
<1>1. CASE \E v \in Visitors, route \in DOMAIN Checks : Request(v, "demos", route, Checks[route])
  BY <1>1, RequestInv
<1>2. CASE \E v \in Visitors, route \in DOMAIN ChatChecks : Request(v, "chat", route, ChatChecks[route])
  BY <1>2, RequestInv
<1>3. CASE InheritedName
  BY <1>3 DEF InheritedName, ApiInv, ApiTypes, EngineConfigured, SessionsKept, AsksKept, Replied, NoReply,
             OnlyFlawedRefused, apiLocal
<1>4. CASE Reply
  <2>1. PICK ask \in asks : Replies(ask)
    BY <1>4 DEF Reply
  <2>2. ApiTypes' /\ SessionsKept' /\ AsksKept'
    BY <1>4, <2>1 DEF Reply, Replies, ApiInv, ApiTypes, SessionsKept, AsksKept
  <2>3. apiDemo \in LocalDemos /\ ask.prompt \in Prompts[apiDemo]
    BY DEF ApiInv, ApiTypes
  <2>4. Replied'
    BY <2>1, <2>3, PromptsResolve DEF Replies, Replied
  <2>5. EngineConfigured' /\ OnlyFlawedRefused'
    BY <1>4 DEF Reply, NoAnswer, ApiInv, EngineConfigured, OnlyFlawedRefused
  <2> QED
    BY <2>2, <2>4, <2>5 DEF ApiInv
<1>5. CASE ApiTick
  <2> USE <1>5 DEF ApiTick
  <2>1. contexts' \in [Visitors -> [id : Nat, age : Nat, rooms : SUBSET Nat]]
    <3>1. \A c \in [id : Nat, age : Nat, rooms : SUBSET Nat], n \in Nat :
            [c EXCEPT !.age = n] \in [id : Nat, age : Nat, rooms : SUBSET Nat]
      OBVIOUS
    <3>2. ASSUME NEW v \in Visitors
          PROVE  [contexts[v] EXCEPT
                    !.age = IF contexts[v].id # 0 /\ @ < SessionTtl THEN @ + 1 ELSE @]
                    \in [id : Nat, age : Nat, rooms : SUBSET Nat]
      <4>1. contexts[v] \in [id : Nat, age : Nat, rooms : SUBSET Nat]
        BY DEF ApiInv, ApiTypes
      <4>2. (IF contexts[v].id # 0 /\ contexts[v].age < SessionTtl
             THEN contexts[v].age + 1 ELSE contexts[v].age) \in Nat
        BY <4>1
      <4> QED
        BY <3>1, <4>1, <4>2
    <3> QED
      BY <3>2
  <2>2. pages' \in [Visitors -> [room : Nat, silent : Nat]]
    BY DEF ApiInv, ApiTypes
  <2>3. ApiTypes'
    BY <2>1, <2>2 DEF ApiInv, ApiTypes
  <2>4. SessionsKept'
    <3> SUFFICES ASSUME NEW v \in Visitors, pages'[v].room # 0, pages'[v].silent < SessionTtl
                 PROVE  /\ contexts'[v].id # 0 /\ contexts'[v].age <= pages'[v].silent
                        /\ pages'[v].room \in contexts'[v].rooms
      BY DEF SessionsKept
    <3>1. pages[v] \in [room : Nat, silent : Nat] /\ contexts[v] \in [id : Nat, age : Nat, rooms : SUBSET Nat]
      BY DEF ApiInv, ApiTypes
    <3>2. /\ pages'[v].room = pages[v].room
          /\ pages'[v].silent = IF pages[v].room # 0 /\ pages[v].silent < SessionTtl
                                THEN pages[v].silent + 1 ELSE pages[v].silent
      BY <3>1 DEF ApiInv, ApiTypes
    <3>3. /\ contexts'[v].id = contexts[v].id /\ contexts'[v].rooms = contexts[v].rooms
          /\ contexts'[v].age = IF contexts[v].id # 0 /\ contexts[v].age < SessionTtl
                                THEN contexts[v].age + 1 ELSE contexts[v].age
      BY <3>1 DEF ApiInv, ApiTypes
    <3>4. pages[v].room # 0 /\ pages[v].silent < SessionTtl /\ pages'[v].silent = pages[v].silent + 1
      BY <1>0, <3>1, <3>2
    <3>5. contexts[v].id # 0 /\ contexts[v].age <= pages[v].silent /\ pages[v].room \in contexts[v].rooms
      BY <3>4 DEF ApiInv, SessionsKept
    <3> QED
      BY <1>0, <3>1, <3>2, <3>3, <3>4, <3>5
  <2> QED
    BY <2>3, <2>4 DEF ApiInv, AsksKept, Replied, NoReply, OnlyFlawedRefused, NoAnswer, EngineConfigured
<1>6. CASE UNCHANGED apiVars
  BY <1>6 DEF apiVars, ApiInv, ApiTypes, EngineConfigured, SessionsKept, AsksKept, Replied, OnlyFlawedRefused
<1> QED
  BY <1>1, <1>2, <1>3, <1>4, <1>5, <1>6 DEF ApiNext

\* For any visitors and any expiry: a page that asks in time keeps its session whoever else's
\* requests expire others, a button gets the reply it names in the session its page has, and a
\* request without a flaw is refused only for want of configuration.
THEOREM RoutesServeThePages == ApiInit /\ [][ApiNext]_apiVars => []PagesAreServed
<1>1. ApiInv => PagesAreServed
  BY DEF ApiInv, ApiTypes, SessionsKept, AsksKept, Replied, PagesAreServed, ActiveSessionKept, ButtonsGetTheirReply
<1> QED
  BY <1>1, ApiInitInv, ApiStepInv, PTL

===============================================================================
