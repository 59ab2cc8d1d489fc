------------------------ MODULE WebSocketTransportProofs ------------------------
(***************************************************************************)
(* Theorems about WebSocketTransport, for any number of attempts and       *)
(* generations, with and without reconnection, and whichever notifications *)
(* a subscriber calls disconnect() from.                                   *)
(***************************************************************************)
EXTENDS WebSocketTransport, FiniteSetTheorems, TLAPS

\* An attempt of the current generation that has not been settled yet.
Trying(a) == attempt[a].phase \in {"connecting", "rejecting"} /\ IsCurrent(attempt[a].gen)

\* Which attempt has the transport's socket, and what that says of the state.
AttemptInv ==
    /\ \A a \in Attempts :
        /\ attempt[a].phase # "free" => attempt[a].gen \in 1 .. generation
        /\ attempt[a].phase = "connecting" /\ IsCurrent(attempt[a].gen) => socket = a
        /\ attempt[a].phase = "open" => a \in {socket, closing}
    /\ socket # None => attempt[socket].phase \in {"connecting", "open"}
    /\ socket # None /\ attempt[socket].phase = "open" => IsCurrent(attempt[socket].gen)
    /\ closing # None => Closing
    /\ Closing => socket = None
    /\ state = "connected" <=> socket # None /\ attempt[socket].phase = "open"

\* The state in which each kind of code runs, unless a subscriber disconnects.
StateOf(kind) ==
    [connecting |-> "connecting", schedule |-> "reconnecting", batch |-> "connected"][kind]

\* What will take the transport out of 'connecting' or 'reconnecting': the code on the
\* stack, the armed timer or one attempt.
RecoveryInv ==
    /\ reconnectTimer # None =>
         state = "reconnecting" /\ reconnectTimer = generation /\ job.kind = "none"
    /\ state \in {"connecting", "connected", "reconnecting"} => ~manualDisconnect
    /\ job.kind # "none" => \/ job.gen = generation /\ state = StateOf(job.kind)
                            \/ state \in {"disconnecting", "disconnected"} /\ job.gen # generation
    /\ job.kind # "none" => job.gen \in 1 .. generation
    /\ \A a \in Attempts : Trying(a) =>
         /\ job.kind = "none" /\ reconnectTimer = None
         /\ attempt[a].by = "connect" => state = "connecting"
         /\ attempt[a].by = "reconnect" => state = "reconnecting"
    /\ \A a \in Attempts, b \in Attempts : Trying(a) /\ Trying(b) => a = b
    /\ state = "connecting" /\ job.kind = "none" => \E a \in Attempts : Trying(a)
    /\ state = "reconnecting" /\ job.kind = "none" =>
         reconnectTimer # None \/ \E a \in Attempts : Trying(a)

SocketInv == TypeOK /\ AttemptInv /\ RecoveryInv

-------------------------------------------------------------------------------
(* Lemmas about tables and jobs. *)

\* One attempt is changed to r.
LEMMA OneAttempt ==
    ASSUME TypeOK, NEW a \in Attempts, NEW r \in Records, attempt' = [attempt EXCEPT ![a] = r]
    PROVE  /\ attempt' \in [Attempts -> Records]
           /\ attempt'[a] = r
           /\ \A b \in Attempts \ {a} : attempt'[b] = attempt[b]
  BY DEF TypeOK

\* The records that OpenSocket(), Reject() and the others write.
LEMMA RecordFacts ==
    /\ Free \in Records /\ Free.phase = "free"
    /\ \A r \in Records :
        /\ r.gen \in 0..MaxGeneration /\ r.by \in {"connect", "reconnect"}
        /\ r.phase \in {"free", "connecting", "open", "rejecting"}
        /\ \A p \in {"free", "connecting", "open", "rejecting"} :
             LET q == [r EXCEPT !.phase = p]
             IN  q \in Records /\ q.phase = p /\ q.gen = r.gen /\ q.by = r.by
  BY WebSocketAssumption DEF Free, Records

\* A job has the fields of its kind.
LEMMA JobFacts ==
    /\ NoJob \in Jobs /\ NoJob.kind = "none"
    /\ \A k \in {"connecting", "schedule", "batch"}, g \in 0..MaxGeneration, n \in Nat :
         Job(k, g, n) \in Jobs /\ Job(k, g, n).kind = k /\ Job(k, g, n).gen = g /\ Job(k, g, n).left = n
  BY WebSocketAssumption DEF NoJob, Jobs, Job

\* The state that a job leaves.
LEMMA StatesOf ==
    /\ StateOf("connecting") = "connecting" /\ StateOf("schedule") = "reconnecting"
    /\ StateOf("batch") = "connected"
  BY DEF StateOf

\* The transport's numbers and names, as SMT wants them.
LEMMA Ranges ==
    ASSUME TypeOK
    PROVE  /\ MaxGeneration \in Nat /\ generation \in Nat /\ generation <= MaxGeneration
           /\ None \notin Attempts /\ None \notin Nat /\ generation # None
           /\ socket \in Attempts \cup {None} /\ closing \in Attempts \cup {None}
           /\ attempt \in [Attempts -> Records] /\ job \in Jobs
           /\ \A a \in Attempts : attempt[a] \in Records
           /\ job.kind \in {"none", "connecting", "schedule", "batch"}
           /\ job.gen \in 0..MaxGeneration
           /\ (job = NoJob <=> job.kind = "none")
<1>1. generation \in 0..MaxGeneration /\ MaxGeneration \in Nat /\ None \notin Nat
  BY WebSocketAssumption DEF TypeOK
<1>2. job.kind \in {"none", "connecting", "schedule", "batch"} /\ job.gen \in 0..MaxGeneration
  BY DEF TypeOK, Jobs
<1>3. job = NoJob <=> job.kind = "none"
  BY JobFacts DEF TypeOK
<1> QED
  BY <1>1, <1>2, <1>3, WebSocketAssumption DEF TypeOK

-------------------------------------------------------------------------------
(* connect() and disconnect() *)

\* The invariant holds at the start.
LEMMA Initially == Init => SocketInv
<1> SUFFICES ASSUME Init PROVE SocketInv
  OBVIOUS
<1>1. /\ state = "disconnected" /\ generation = 0 /\ socket = None /\ reconnectTimer = None
      /\ closing = None /\ job = NoJob /\ attempt = [a \in Attempts |-> Free] /\ delivered = 0
  BY DEF Init
<1>2. TypeOK
  <2>1. state \in Contract!States /\ generation \in 0..MaxGeneration /\ delivered \in Nat
    BY <1>1, WebSocketAssumption DEF Contract!States
  <2>2. attempt \in [Attempts -> Records] /\ job \in Jobs
    BY <1>1, RecordFacts, JobFacts
  <2>3. calls \in [Generations -> {"none", "pending", "resolved", "rejected"}]
    BY DEF Init
  <2>4. manualDisconnect \in BOOLEAN
    BY DEF Init
  <2> QED
    BY <1>1, <2>1, <2>2, <2>3, <2>4 DEF TypeOK
<1>3. AttemptInv
  BY <1>1, RecordFacts DEF AttemptInv, Closing
<1>4. RecoveryInv
  BY <1>1, RecordFacts, JobFacts DEF RecoveryInv, Trying
<1> QED
  BY <1>2, <1>3, <1>4 DEF SocketInv

\* connect().
LEMMA StepConnect == ASSUME SocketInv, Connect PROVE SocketInv'
<1>1. /\ job = NoJob /\ ~Closing /\ state = "disconnected" /\ generation < MaxGeneration
      /\ reconnectTimer' = None /\ generation' = generation + 1 /\ state' = "connecting"
      /\ ~manualDisconnect' /\ job' = Job("connecting", generation + 1, 0)
      /\ UNCHANGED <<socket, attempt, closing, delivered>>
  BY DEF Connect, Quiet
<1>2. TypeOK /\ AttemptInv /\ RecoveryInv
  BY DEF SocketInv
<1>3. generation + 1 \in 1..MaxGeneration /\ generation + 1 \in 0..MaxGeneration
      /\ generation \in Nat /\ generation # generation + 1
  BY <1>1, <1>2, Ranges
<1>4. /\ job' \in Jobs /\ job'.kind = "connecting" /\ job'.gen = generation + 1
  BY <1>1, <1>3, JobFacts, 0 \in Nat
<1>5. TypeOK'
  <2>1. calls' \in [Generations -> {"none", "pending", "resolved", "rejected"}]
    BY <1>2 DEF Connect, TypeOK
  <2>2. manualDisconnect' \in BOOLEAN
    BY DEF Connect
  <2>3. state' \in Contract!States
    BY <1>1 DEF Contract!States
  <2> QED
    BY <1>1, <1>2, <1>3, <1>4, <2>1, <2>2, <2>3 DEF TypeOK
<1>6. \A a \in Attempts : attempt[a].phase # "free" => attempt[a].gen \in 1..generation
  BY <1>2 DEF AttemptInv
<1>7. \A a \in Attempts : ~Trying(a)'
  BY <1>1, <1>3, <1>6 DEF Trying, IsCurrent
<1>8. socket = None \/ attempt[socket].phase = "connecting"
  BY <1>1, <1>2 DEF AttemptInv
<1>9. AttemptInv'
  BY <1>1, <1>2, <1>3, <1>6, <1>8 DEF AttemptInv, IsCurrent, Closing
<1>10. RecoveryInv'
  BY <1>1, <1>3, <1>4, <1>7, StatesOf DEF RecoveryInv
<1> QED
  BY <1>5, <1>9, <1>10 DEF SocketInv

\* disconnect().
LEMMA StepDisconnect == ASSUME SocketInv, Disconnect PROVE SocketInv'
<1>1. /\ ~Closing /\ generation < MaxGeneration /\ state \notin {"disconnected", "disconnecting"}
      /\ reconnectTimer' = None /\ generation' = generation + 1 /\ state' = "disconnecting"
      /\ manualDisconnect' /\ socket' = None /\ closing' = socket
      /\ UNCHANGED <<attempt, job, calls, delivered>>
  BY DEF Disconnect
<1>2. TypeOK /\ AttemptInv /\ RecoveryInv
  BY DEF SocketInv
<1>3. generation + 1 \in 0..MaxGeneration /\ generation \in Nat /\ generation # generation + 1
  BY <1>1, <1>2, Ranges
<1>4. TypeOK'
  <2>1. manualDisconnect' \in BOOLEAN
    BY DEF Disconnect
  <2>2. state' \in Contract!States
    BY <1>1 DEF Contract!States
  <2> QED
    BY <1>1, <1>2, <1>3, <2>1, <2>2 DEF TypeOK
<1>5. /\ \A a \in Attempts : attempt[a].phase # "free" => attempt[a].gen \in 1..generation
      /\ \A a \in Attempts : attempt[a].phase = "open" => a \in {socket, closing}
      /\ closing = None
  BY <1>1, <1>2 DEF AttemptInv
<1>6. \A a \in Attempts : ~Trying(a)'
  BY <1>1, <1>3, <1>5 DEF Trying, IsCurrent
<1>7. AttemptInv'
  BY <1>1, <1>2, <1>3, <1>5, Ranges DEF AttemptInv, IsCurrent, Closing
<1>8. job.kind # "none" => job.gen = generation /\ generation \in 1 .. generation + 1
  BY <1>1, <1>2, <1>3 DEF RecoveryInv
<1>9. RecoveryInv'
  BY <1>1, <1>3, <1>6, <1>8 DEF RecoveryInv
<1> QED
  BY <1>4, <1>7, <1>9 DEF SocketInv

\* disconnect() goes on after its first notification.
LEMMA StepDisconnected == ASSUME SocketInv, Disconnected PROVE SocketInv'
<1>1. /\ Closing /\ closing' = None /\ state' = "disconnected"
      /\ attempt' = IF closing = None THEN attempt ELSE [attempt EXCEPT ![closing] = Free]
      /\ UNCHANGED <<generation, manualDisconnect, socket, reconnectTimer, job, calls, delivered>>
  BY DEF Disconnected
<1>2. TypeOK /\ AttemptInv /\ RecoveryInv
  BY DEF SocketInv
<1>3. /\ attempt' \in [Attempts -> Records]
      /\ \A a \in Attempts : attempt'[a] = IF a = closing THEN Free ELSE attempt[a]
  BY <1>1, <1>2, RecordFacts, OneAttempt, Ranges
<1>4. TypeOK'
  <2>1. state' \in Contract!States
    BY <1>1 DEF Contract!States
  <2> QED
    BY <1>1, <1>2, <1>3, <2>1 DEF TypeOK
<1>5. socket = None /\ state = "disconnecting"
  BY <1>1, <1>2 DEF AttemptInv, Closing
<1>6. AttemptInv'
  BY <1>1, <1>2, <1>3, <1>5, RecordFacts DEF AttemptInv, IsCurrent, Closing
<1>7. \A a \in Attempts : ~Trying(a)
  <2>1. \A a \in Attempts : attempt[a].by \in {"connect", "reconnect"}
    BY <1>2, Ranges, RecordFacts
  <2> QED
    BY <1>2, <1>5, <2>1 DEF RecoveryInv
<1>8. \A a \in Attempts : ~Trying(a)'
  BY <1>1, <1>3, <1>7, RecordFacts DEF Trying, IsCurrent
<1>9. /\ reconnectTimer = None
      /\ job.kind # "none" => job.gen # generation /\ job.gen \in 1 .. generation
  BY <1>2, <1>5, Ranges, StatesOf DEF RecoveryInv
<1>10. RecoveryInv'
  BY <1>1, <1>8, <1>9 DEF RecoveryInv
<1> QED
  BY <1>4, <1>6, <1>10 DEF SocketInv

-------------------------------------------------------------------------------
(* Attempts and socket events *)

\* openSocket() for the current generation: from then on this attempt is the one that will
\* take the transport further.
LEMMA Opening ==
    ASSUME SocketInv, NEW g \in 1..MaxGeneration, NEW by \in {"connect", "reconnect"},
           OpenSocket(g, by), state \in {"connecting", "reconnecting", "disconnected"},
           g = generation => /\ state = (IF by = "connect" THEN "connecting" ELSE "reconnecting")
                             /\ \A a \in Attempts : ~Trying(a),
           g # generation => state = "disconnected",
           g <= generation,
           job' = NoJob, reconnectTimer' = None,
           UNCHANGED <<state, generation, manualDisconnect, closing, calls, delivered>>
    PROVE  SocketInv'
<1>1. TypeOK /\ AttemptInv /\ RecoveryInv
  BY DEF SocketInv
<1>2. PICK a \in Attempts, p \in {"connecting", "rejecting"} :
        /\ attempt[a] = Free
        /\ attempt' = [attempt EXCEPT ![a] = [phase |-> p, gen |-> g, by |-> by]]
        /\ p = "connecting" => socket' = a
        /\ p = "rejecting" => socket' = socket
  BY DEF OpenSocket
<1> DEFINE r == [phase |-> p, gen |-> g, by |-> by]
<1>3. r \in Records /\ r.phase = p /\ r.gen = g /\ r.by = by
  BY WebSocketAssumption DEF Records
<1>4. /\ attempt' \in [Attempts -> Records] /\ attempt'[a] = r
      /\ \A b \in Attempts \ {a} : attempt'[b] = attempt[b]
  BY <1>1, <1>2, <1>3, OneAttempt
<1>5. socket' \in Attempts \cup {None}
  BY <1>1, <1>2, Ranges
<1>6. TypeOK'
  BY <1>1, <1>4, <1>5, JobFacts DEF TypeOK
<1> HIDE DEF r
<1>7. generation \in Nat /\ g \in 1..generation /\ None \notin Attempts
  BY <1>1, Ranges
<1>8. state # "connected" /\ ~Closing /\ closing = None
  BY <1>1 DEF AttemptInv, Closing
<1>9. /\ socket # None => attempt[socket].phase = "connecting"
      /\ socket # a
      /\ \A b \in Attempts : attempt[b].phase # "open"
  BY <1>1, <1>2, <1>8, RecordFacts, Ranges DEF AttemptInv
<1>10. \A b \in Attempts : attempt[b].phase = "connecting" /\ IsCurrent(attempt[b].gen)
                             => socket = b /\ Trying(b)
  BY <1>1 DEF AttemptInv, Trying
<1>11. ASSUME NEW b \in Attempts
       PROVE  /\ attempt'[b].phase # "free" => attempt'[b].gen \in 1 .. generation
              /\ attempt'[b].phase = "connecting" /\ attempt'[b].gen = generation => socket' = b
              /\ attempt'[b].phase # "open"
  <2>1. CASE b = a
    BY <1>2, <1>3, <1>4, <1>7, <2>1
  <2>2. CASE b # a
    <3>1. attempt'[b] = attempt[b]
      BY <1>4, <2>2
    <3>2. /\ attempt[b].phase # "free" => attempt[b].gen \in 1 .. generation
          /\ attempt[b].phase # "open"
      BY <1>1, <1>9 DEF AttemptInv
    <3>3. ASSUME attempt[b].phase = "connecting", attempt[b].gen = generation PROVE socket' = b
      <4>1. socket = b /\ Trying(b) /\ state \in {"connecting", "reconnecting"}
        <5>1. attempt[b].by \in {"connect", "reconnect"}
          BY <1>1, Ranges, RecordFacts
        <5> QED
          BY <1>1, <1>10, <3>3, <5>1 DEF IsCurrent, RecoveryInv
      <4>2. g = generation
        BY <4>1
      <4> QED
        BY <4>1, <4>2
    <3> QED
      BY <3>1, <3>2, <3>3
  <2> QED
    BY <2>1, <2>2
<1>12. socket' # None => attempt'[socket'].phase = "connecting"
  BY <1>2, <1>3, <1>4, <1>5, <1>9
<1>13. AttemptInv'
  BY <1>7, <1>8, <1>11, <1>12 DEF AttemptInv, IsCurrent, Closing
<1>14. /\ \A b \in Attempts : Trying(b)' => (b = a /\ g = generation) \/ (b # a /\ Trying(b))
       /\ g = generation => Trying(a)'
  BY <1>2, <1>3, <1>4 DEF Trying, IsCurrent
<1>15. job'.kind = "none" /\ reconnectTimer' = None /\ state' = state /\ generation' = generation
       /\ (manualDisconnect' <=> manualDisconnect)
  BY JobFacts
<1>16. ASSUME g = generation PROVE RecoveryInv'
  <2>1. /\ state = (IF by = "connect" THEN "connecting" ELSE "reconnecting")
        /\ \A b \in Attempts : Trying(b)' => b = a
        /\ Trying(a)' /\ attempt'[a].by = by
    BY <1>3, <1>4, <1>14, <1>16
  <2>2. ~manualDisconnect'
    BY <1>1, <1>15, <2>1 DEF RecoveryInv
  <2> QED
    BY <1>15, <2>1, <2>2 DEF RecoveryInv
<1>17. ASSUME g # generation PROVE RecoveryInv'
  <2>1. \A b \in Attempts : ~Trying(b)
    <3>1. \A b \in Attempts : attempt[b].by \in {"connect", "reconnect"}
      BY <1>1, Ranges, RecordFacts
    <3> QED
      BY <1>1, <1>17, <3>1 DEF RecoveryInv
  <2>2. \A b \in Attempts : ~Trying(b)'
    BY <1>14, <1>17, <2>1
  <2>3. state' = "disconnected"
    BY <1>15, <1>17
  <2> QED
    BY <1>15, <2>2, <2>3 DEF RecoveryInv
<1> QED
  BY <1>1, <1>6, <1>13, <1>16, <1>17 DEF SocketInv

\* connect() opens its socket.
LEMMA StepFirstAttempt == ASSUME SocketInv, FirstAttempt PROVE SocketInv'
<1>1. TypeOK /\ AttemptInv /\ RecoveryInv
  BY DEF SocketInv
<1>2. /\ job.kind = "connecting" /\ ~Closing /\ OpenSocket(job.gen, "connect") /\ job' = NoJob
      /\ UNCHANGED <<state, generation, manualDisconnect, reconnectTimer, closing, calls, delivered>>
  BY DEF FirstAttempt
<1>3. /\ job.gen = generation => state = "connecting"
      /\ job.gen # generation => state = "disconnected"
      /\ reconnectTimer = None /\ \A a \in Attempts : ~Trying(a)
  BY <1>1, <1>2, StatesOf DEF RecoveryInv, Closing
<1>4. job.gen \in 1..MaxGeneration /\ job.gen <= generation
  BY <1>1, <1>2, Ranges DEF RecoveryInv
<1> QED
  BY <1>2, <1>3, <1>4, Opening

\* The reconnect timer fires.
LEMMA StepTimerFires == ASSUME SocketInv, TimerFires PROVE SocketInv'
<1>1. TypeOK /\ AttemptInv /\ RecoveryInv
  BY DEF SocketInv
<1>2. /\ reconnectTimer # None /\ reconnectTimer' = None /\ job = NoJob
      /\ UNCHANGED <<state, generation, manualDisconnect, closing, job, calls, delivered>>
  BY DEF TimerFires, TaskStarts, Quiet
<1>3. state = "reconnecting" /\ reconnectTimer = generation /\ ~manualDisconnect
  BY <1>1, <1>2 DEF RecoveryInv
<1>4. OpenSocket(generation, "reconnect")
  BY <1>3 DEF TimerFires, IsCurrent
<1>5. \A a \in Attempts : ~Trying(a)
  BY <1>1, <1>2 DEF RecoveryInv
<1>6. generation \in 1..MaxGeneration /\ generation <= generation
  BY <1>1, <1>2, <1>3, Ranges DEF TypeOK, Generations
<1> QED
  BY <1>2, <1>3, <1>4, <1>5, <1>6, Opening

\* One attempt changes its phase, and nothing else but the socket, the state and the job.
LEMMA PhaseChange ==
    ASSUME TypeOK, NEW a \in Attempts, NEW p \in {"free", "connecting", "open", "rejecting"},
           attempt' = [attempt EXCEPT ![a].phase = p]
    PROVE  /\ attempt' \in [Attempts -> Records]
           /\ attempt'[a].phase = p /\ attempt'[a].gen = attempt[a].gen /\ attempt'[a].by = attempt[a].by
           /\ \A b \in Attempts \ {a} : attempt'[b] = attempt[b]
<1> DEFINE r == [attempt[a] EXCEPT !.phase = p]
<1>1. attempt[a] \in Records
  BY Ranges
<1>2. r \in Records /\ r.phase = p /\ r.gen = attempt[a].gen /\ r.by = attempt[a].by
  BY <1>1 DEF Records
<1>3. attempt' = [attempt EXCEPT ![a] = r]
  OBVIOUS
<1> HIDE DEF r
<1> QED
  BY <1>2, <1>3, OneAttempt

\* An attempt that is not the transport's any more, or fails, is rejected.
LEMMA Rejected ==
    ASSUME SocketInv, NEW a \in Attempts, attempt[a].phase = "connecting", Reject(a), job = NoJob,
           UNCHANGED <<state, generation, manualDisconnect, reconnectTimer, closing, job, calls, delivered>>
    PROVE  SocketInv'
<1>1. TypeOK /\ AttemptInv /\ RecoveryInv
  BY DEF SocketInv
<1>2. /\ attempt' \in [Attempts -> Records]
      /\ attempt'[a].phase = "rejecting" /\ attempt'[a].gen = attempt[a].gen
      /\ attempt'[a].by = attempt[a].by
      /\ \A b \in Attempts \ {a} : attempt'[b] = attempt[b]
  BY <1>1, PhaseChange DEF Reject
<1>3. socket' = IF socket = a THEN None ELSE socket
  BY DEF Reject
<1>4. /\ None \notin Attempts /\ socket \in Attempts \cup {None}
      /\ socket' \in Attempts \cup {None}
  BY <1>1, <1>3, Ranges
<1>5. TypeOK'
  BY <1>1, <1>2, <1>4 DEF TypeOK
<1>6. \A b \in Attempts : Trying(b)' <=> Trying(b)
  BY <1>2 DEF Trying, IsCurrent
<1>7. AttemptInv'
  BY <1>1, <1>2, <1>3, <1>4 DEF AttemptInv, IsCurrent, Closing
<1>8. \A b \in Attempts : attempt'[b].by = attempt[b].by
  BY <1>2
<1>9. RecoveryInv'
  BY <1>1, <1>6, <1>8 DEF RecoveryInv
<1> QED
  BY <1>5, <1>7, <1>9 DEF SocketInv

\* A socket opens.
LEMMA StepSocketOpens == ASSUME SocketInv, NEW a \in Attempts, SocketOpens(a) PROVE SocketInv'
<1>1. TypeOK /\ AttemptInv /\ RecoveryInv
  BY DEF SocketInv
<1>2. /\ attempt[a].phase = "connecting" /\ job = NoJob /\ ~Closing
      /\ UNCHANGED <<generation, manualDisconnect, reconnectTimer, closing, job, delivered>>
  BY DEF SocketOpens, TaskStarts, Quiet
<1>3. CASE ~IsCurrent(attempt[a].gen)
  BY <1>2, <1>3, Rejected DEF SocketOpens
<1>4. CASE IsCurrent(attempt[a].gen)
  <2>1. socket = a /\ Trying(a) /\ IsCurrentSocket(a)
    BY <1>1, <1>2, <1>4 DEF AttemptInv, Trying, IsCurrentSocket
  <2>2. /\ attempt' = [attempt EXCEPT ![a].phase = "open"]
        /\ state' = "connected" /\ socket' = socket
    BY <1>4, <2>1 DEF SocketOpens
  <2>3. /\ attempt' \in [Attempts -> Records]
        /\ attempt'[a].phase = "open" /\ attempt'[a].gen = attempt[a].gen
        /\ attempt'[a].by = attempt[a].by
        /\ \A b \in Attempts \ {a} : attempt'[b] = attempt[b]
    BY <1>1, <2>2, PhaseChange
  <2>4. calls' \in [Generations -> {"none", "pending", "resolved", "rejected"}]
    BY <1>1 DEF SocketOpens, Reject, TypeOK
  <2>5. TypeOK'
    BY <1>1, <1>2, <2>2, <2>3, <2>4 DEF TypeOK, Contract!States
  <2>6. \A b \in Attempts : ~Trying(b)'
    BY <1>1, <1>2, <2>1, <2>3 DEF RecoveryInv, Trying, IsCurrent
  <2>7. None \notin Attempts
    BY <1>1, Ranges
  <2>8. AttemptInv'
    BY <1>1, <1>2, <1>4, <2>1, <2>2, <2>3, <2>7 DEF AttemptInv, IsCurrent, Closing
  <2>9. job.kind = "none" /\ reconnectTimer = None /\ ~manualDisconnect
    <3>1. attempt[a].by \in {"connect", "reconnect"}
      BY <1>1, Ranges, RecordFacts
    <3> QED
      BY <1>1, <1>2, <2>1, <3>1, JobFacts DEF RecoveryInv
  <2>10. RecoveryInv'
    BY <1>2, <2>2, <2>6, <2>9 DEF RecoveryInv
  <2> QED
    BY <2>5, <2>8, <2>10 DEF SocketInv
<1> QED
  BY <1>3, <1>4

\* A socket is refused.
LEMMA StepSocketRefused == ASSUME SocketInv, NEW a \in Attempts, SocketRefused(a) PROVE SocketInv'
  BY Rejected DEF SocketRefused, TaskStarts, Quiet

\* A socket closes.
LEMMA StepSocketCloses == ASSUME SocketInv, NEW a \in Attempts, SocketCloses(a) PROVE SocketInv'
<1>1. TypeOK /\ AttemptInv /\ RecoveryInv
  BY DEF SocketInv
<1>2. /\ attempt[a].phase = "open" /\ job = NoJob /\ job.kind = "none" /\ ~Closing
      /\ attempt' = [attempt EXCEPT ![a] = Free]
      /\ UNCHANGED <<generation, manualDisconnect, reconnectTimer, closing, calls, delivered>>
  BY JobFacts DEF SocketCloses, TaskStarts, Quiet
<1>3. /\ attempt' \in [Attempts -> Records] /\ attempt'[a] = Free
      /\ \A b \in Attempts \ {a} : attempt'[b] = attempt[b]
  <2>1. Free \in Records
    BY RecordFacts
  <2> QED
    BY <1>1, <1>2, <2>1, OneAttempt
<1>4. /\ closing = None /\ None \notin Attempts /\ a # None
      /\ generation \in Nat /\ generation <= MaxGeneration /\ MaxGeneration \in Nat
  BY <1>1, <1>2, Ranges DEF AttemptInv
<1>5. socket = a /\ state = "connected" /\ attempt[a].gen = generation /\ generation \in 1..generation
  BY <1>1, <1>2, <1>4 DEF AttemptInv, IsCurrent
<1>6. ~manualDisconnect /\ reconnectTimer = None /\ \A b \in Attempts : ~Trying(b)
  <2>1. \A b \in Attempts : attempt[b].by \in {"connect", "reconnect"}
    BY <1>1, Ranges, RecordFacts
  <2> QED
    BY <1>1, <1>5, <2>1 DEF RecoveryInv
<1>7. /\ socket' = None
      /\ Reconnect => state' = "reconnecting" /\ job' = Job("schedule", generation, 0)
      /\ ~Reconnect => state' = "disconnected" /\ job' = NoJob
  BY <1>2, <1>5, <1>6 DEF SocketCloses, IsCurrentSocket, IsCurrent
<1>8. /\ job' \in Jobs /\ (job'.kind = "none" => job' = NoJob)
      /\ Reconnect => job'.kind = "schedule" /\ job'.gen = generation
      /\ ~Reconnect => job'.kind = "none"
  BY <1>4, <1>7, JobFacts, 0 \in Nat
<1>9. state' \in {"reconnecting", "disconnected"}
  BY <1>7
<1>10. TypeOK'
  BY <1>1, <1>2, <1>3, <1>7, <1>8, <1>9 DEF TypeOK, Contract!States
<1>11. \A b \in Attempts : ~Trying(b)'
  BY <1>2, <1>3, <1>6, RecordFacts DEF Trying, IsCurrent
<1>12. AttemptInv'
  BY <1>1, <1>2, <1>3, <1>4, <1>5, <1>7, <1>9, RecordFacts DEF AttemptInv, IsCurrent, Closing
<1>13. RecoveryInv'
  BY <1>2, <1>5, <1>6, <1>7, <1>8, <1>9, <1>11, StatesOf DEF RecoveryInv
<1> QED
  BY <1>10, <1>12, <1>13 DEF SocketInv

\* A socket receives a frame.
LEMMA StepSocketReceives ==
    ASSUME SocketInv, NEW a \in Attempts, NEW n \in 0..BatchMax, SocketReceives(a, n)
    PROVE  SocketInv'
<1>1. TypeOK /\ AttemptInv /\ RecoveryInv
  BY DEF SocketInv
<1>2. /\ attempt[a].phase = "open" /\ a = socket /\ attempt[a].gen = generation
      /\ job = NoJob /\ job' = Job("batch", generation, n)
      /\ UNCHANGED <<state, generation, manualDisconnect, socket, reconnectTimer, attempt, closing,
                     calls, delivered>>
  BY DEF SocketReceives, TaskStarts, Quiet, IsCurrentSocket, IsCurrent
<1>3. /\ generation \in 0..MaxGeneration /\ n \in Nat /\ a # None
  BY <1>1, Ranges, WebSocketAssumption
<1>4. job' \in Jobs /\ job'.kind = "batch" /\ job'.gen = generation
  BY <1>2, <1>3, JobFacts
<1>5. TypeOK'
  BY <1>1, <1>2, <1>4 DEF TypeOK
<1>6. AttemptInv'
  BY <1>1, <1>2 DEF AttemptInv, IsCurrent, Closing
<1>7. state = "connected" /\ generation \in 1..generation
  BY <1>1, <1>2, <1>3 DEF AttemptInv
<1>8. \A b \in Attempts : ~Trying(b)
  <2>1. \A b \in Attempts : attempt[b].by \in {"connect", "reconnect"}
    BY <1>1, Ranges, RecordFacts
  <2> QED
    BY <1>1, <1>7, <2>1 DEF RecoveryInv
<1>9. \A b \in Attempts : ~Trying(b)'
  BY <1>2, <1>8 DEF Trying, IsCurrent
<1>10. ~manualDisconnect /\ reconnectTimer = None
  BY <1>1, <1>7 DEF RecoveryInv
<1>11. RecoveryInv'
  BY <1>2, <1>4, <1>7, <1>9, <1>10, StatesOf DEF RecoveryInv
<1> QED
  BY <1>5, <1>6, <1>11 DEF SocketInv

\* A message of a frame is handed over.
LEMMA StepEmitMessage == ASSUME SocketInv, EmitMessage PROVE SocketInv'
<1>1. TypeOK /\ AttemptInv /\ RecoveryInv
  BY DEF SocketInv
<1>2. /\ job.kind = "batch"
      /\ UNCHANGED <<state, generation, manualDisconnect, socket, reconnectTimer, attempt, closing, calls>>
  BY DEF EmitMessage
<1>3. \/ delivered' = delivered + 1 /\ job' = [job EXCEPT !.left = @ - 1] /\ job.left > 0
      \/ delivered' = delivered /\ job' = NoJob
  BY DEF EmitMessage
<1>4. job' \in Jobs /\ job'.kind \in {"batch", "none"} /\ (job'.kind = "batch" => job'.gen = job.gen)
      /\ (job'.kind = "none" => job' = NoJob)
  <2>1. job \in Jobs
    BY <1>1, Ranges
  <2>2. ASSUME job' = NoJob PROVE <1>4!1
    BY <2>2, JobFacts
  <2>3. ASSUME job' = [job EXCEPT !.left = @ - 1], job.left > 0
        PROVE  job' \in Jobs /\ job'.kind = "batch" /\ job'.gen = job.gen
    <3>1. job.left - 1 \in Nat
      BY <2>1, <2>3 DEF Jobs
    <3> QED
      BY <1>2, <2>1, <2>3, <3>1 DEF Jobs
  <2> QED
    BY <1>3, <2>3, JobFacts
<1>5. delivered' \in Nat
  BY <1>1, <1>3 DEF TypeOK
<1>6. TypeOK'
  BY <1>1, <1>2, <1>4, <1>5 DEF TypeOK
<1>7. AttemptInv'
  BY <1>1, <1>2 DEF AttemptInv, IsCurrent, Closing
<1>8. /\ reconnectTimer = None /\ state \in {"connected", "disconnecting", "disconnected"}
      /\ \A b \in Attempts : ~Trying(b)
  BY <1>1, <1>2, StatesOf DEF RecoveryInv
<1>9. \A b \in Attempts : ~Trying(b)'
  BY <1>2, <1>8 DEF Trying, IsCurrent
<1>10. RecoveryInv'
  BY <1>1, <1>2, <1>4, <1>8, <1>9 DEF RecoveryInv
<1> QED
  BY <1>6, <1>7, <1>10 DEF SocketInv

-------------------------------------------------------------------------------
(* Reconnection *)

\* The promise of an attempt rejects.
LEMMA StepAttemptFailed == ASSUME SocketInv, NEW a \in Attempts, AttemptFailed(a) PROVE SocketInv'
<1>1. TypeOK /\ AttemptInv /\ RecoveryInv
  BY DEF SocketInv
<1>2. /\ attempt[a].phase = "rejecting" /\ job = NoJob /\ job.kind = "none" /\ ~Closing
      /\ attempt' = [attempt EXCEPT ![a] = Free]
      /\ UNCHANGED <<generation, manualDisconnect, socket, reconnectTimer, closing, delivered>>
  BY JobFacts DEF AttemptFailed, Quiet
<1>3. /\ attempt' \in [Attempts -> Records] /\ attempt'[a] = Free
      /\ \A b \in Attempts \ {a} : attempt'[b] = attempt[b]
  <2>1. Free \in Records
    BY RecordFacts
  <2> QED
    BY <1>1, <1>2, <2>1, OneAttempt
<1>4. /\ None \notin Attempts /\ socket \in Attempts \cup {None} /\ generation \in Nat
      /\ generation <= MaxGeneration /\ MaxGeneration \in Nat
      /\ attempt[a].gen \in 1..generation /\ attempt[a].by \in {"connect", "reconnect"}
  <2>1. attempt[a] \in Records /\ attempt[a].by \in {"connect", "reconnect"}
    BY <1>1, Ranges, RecordFacts
  <2>2. attempt[a].gen \in 1..generation
    BY <1>1, <1>2 DEF AttemptInv
  <2> QED
    BY <1>1, <2>1, <2>2, Ranges
<1>5. socket # a
  BY <1>1, <1>2, <1>4 DEF AttemptInv
<1>6. Trying(a) <=> attempt[a].gen = generation
  BY <1>2 DEF Trying, IsCurrent
<1>7. \A b \in Attempts : Trying(b)' <=> (b # a /\ Trying(b))
  BY <1>2, <1>3, RecordFacts DEF Trying, IsCurrent
<1>8. calls' \in [Generations -> {"none", "pending", "resolved", "rejected"}]
  BY <1>1 DEF AttemptFailed, TypeOK
<1>9. CASE attempt[a].gen = generation
  <2>1. Trying(a) /\ reconnectTimer = None
    BY <1>1, <1>6, <1>9 DEF RecoveryInv
  <2>2. \A b \in Attempts : ~Trying(b)'
    BY <1>1, <1>7, <2>1 DEF RecoveryInv
  <2>3. /\ attempt[a].by = "connect" => state = "connecting"
        /\ attempt[a].by = "reconnect" => state = "reconnecting"
    BY <1>1, <2>1 DEF RecoveryInv
  <2>4. ~manualDisconnect
    BY <1>1, <1>4, <2>3 DEF RecoveryInv
  <2>5. \/ state' = "disconnected" /\ job' = NoJob
        \/ state' = "reconnecting" /\ job' = Job("schedule", generation, 0)
    BY <1>2, <1>9, <2>4 DEF AttemptFailed, IsCurrent
  <2>6. /\ job' \in Jobs /\ (job'.kind = "none" => job' = NoJob)
        /\ \/ state' = "disconnected" /\ job'.kind = "none"
           \/ state' = "reconnecting" /\ job'.kind = "schedule" /\ job'.gen = generation
    <3>1. generation \in 0..MaxGeneration /\ 0 \in Nat
      BY <1>4
    <3> QED
      BY <2>5, <3>1, JobFacts
  <2>7. TypeOK'
    <3>1. state' \in Contract!States
      BY <2>6 DEF Contract!States
    <3> QED
      BY <1>1, <1>2, <1>3, <1>8, <2>6, <3>1 DEF TypeOK
  <2>8. state # "connected" /\ closing = None
    <3>1. closing = None
      BY <1>1, <1>2 DEF AttemptInv, Closing
    <3> QED
      BY <1>4, <2>3, <3>1
  <2>9. AttemptInv'
    BY <1>1, <1>2, <1>3, <1>4, <1>5, <2>6, <2>8, RecordFacts DEF AttemptInv, IsCurrent, Closing
  <2>10. generation \in 1 .. generation
    BY <1>4, <1>9
  <2>11. RecoveryInv'
    BY <1>2, <2>1, <2>2, <2>4, <2>6, <2>10, StatesOf DEF RecoveryInv
  <2> QED
    BY <2>7, <2>9, <2>11 DEF SocketInv
<1>10. CASE attempt[a].gen # generation
  <2>1. state' = state /\ job' = job
    BY <1>10 DEF AttemptFailed, IsCurrent
  <2>2. TypeOK'
    BY <1>1, <1>2, <1>3, <1>8, <2>1 DEF TypeOK
  <2>3. AttemptInv'
    BY <1>1, <1>2, <1>3, <1>4, <1>5, <2>1, RecordFacts DEF AttemptInv, IsCurrent, Closing
  <2>4. \A b \in Attempts : Trying(b)' <=> Trying(b)
    BY <1>6, <1>7, <1>10
  <2>5. \A b \in Attempts : Trying(b) => attempt'[b].by = attempt[b].by
    BY <1>3, <1>6, <1>10
  <2>6. RecoveryInv'
    BY <1>1, <1>2, <2>1, <2>4, <2>5 DEF RecoveryInv
  <2> QED
    BY <2>2, <2>3, <2>6 DEF SocketInv
<1> QED
  BY <1>9, <1>10

\* The next attempt is scheduled.
LEMMA StepScheduleReconnect == ASSUME SocketInv, ScheduleReconnect PROVE SocketInv'
<1>1. TypeOK /\ AttemptInv /\ RecoveryInv
  BY DEF SocketInv
<1>2. /\ job.kind = "schedule" /\ ~Closing /\ job' = NoJob /\ job'.kind = "none"
      /\ UNCHANGED <<state, generation, manualDisconnect, socket, attempt, closing, calls, delivered>>
  BY JobFacts DEF ScheduleReconnect
<1>3. /\ reconnectTimer = None /\ \A b \in Attempts : ~Trying(b)
      /\ job.gen \in 1..generation
      /\ \/ state = "reconnecting" /\ job.gen = generation /\ ~manualDisconnect
         \/ state = "disconnected" /\ job.gen # generation
  BY <1>1, <1>2, StatesOf DEF RecoveryInv, Closing
<1>4. /\ job.gen = generation => reconnectTimer' = generation
      /\ job.gen # generation => reconnectTimer' = None
  BY <1>3 DEF ScheduleReconnect, IsCurrent
<1>5. generation \in Nat /\ generation <= MaxGeneration /\ MaxGeneration \in Nat
  BY <1>1, Ranges
<1>6. TypeOK'
  <2>1. reconnectTimer' \in Generations \cup {None}
    BY <1>3, <1>4, <1>5 DEF Generations
  <2> QED
    BY <1>1, <1>2, <2>1, JobFacts DEF TypeOK
<1>7. AttemptInv'
  BY <1>1, <1>2 DEF AttemptInv, IsCurrent, Closing
<1>8. \A b \in Attempts : ~Trying(b)'
  BY <1>2, <1>3 DEF Trying, IsCurrent
<1>9. /\ state = "reconnecting" => reconnectTimer' = generation
      /\ state # "reconnecting" => reconnectTimer' = None
      /\ generation # None
  BY <1>1, <1>3, <1>4, Ranges
<1>10. RecoveryInv'
  BY <1>1, <1>2, <1>3, <1>8, <1>9 DEF RecoveryInv
<1> QED
  BY <1>6, <1>7, <1>10 DEF SocketInv

-------------------------------------------------------------------------------
(* The theorems *)

\* A step that changes nothing.
LEMMA Stuttering == ASSUME SocketInv, UNCHANGED vars PROVE SocketInv'
<1>1. TypeOK /\ AttemptInv /\ RecoveryInv
  BY DEF SocketInv
<1>2. UNCHANGED vars
  OBVIOUS
<1>3. TypeOK'
  BY <1>1, <1>2 DEF TypeOK, vars
<1>4. AttemptInv'
  BY <1>1, <1>2 DEF AttemptInv, IsCurrent, Closing, vars
<1>5. RecoveryInv'
  BY <1>1, <1>2 DEF RecoveryInv, Trying, IsCurrent, vars
<1> QED
  BY <1>3, <1>4, <1>5 DEF SocketInv

\* Every step keeps the invariant.
LEMMA Step == ASSUME SocketInv, [Next]_vars PROVE SocketInv'
<1>1. CASE UNCHANGED vars
  BY <1>1, Stuttering
<1>2. CASE Connect
  BY <1>2, StepConnect
<1>3. CASE FirstAttempt
  BY <1>3, StepFirstAttempt
<1>4. CASE Disconnect
  BY <1>4, StepDisconnect
<1>5. CASE Disconnected
  BY <1>5, StepDisconnected
<1>6. CASE EmitMessage
  BY <1>6, StepEmitMessage
<1>7. CASE ScheduleReconnect
  BY <1>7, StepScheduleReconnect
<1>8. CASE TimerFires
  BY <1>8, StepTimerFires
<1>9. ASSUME NEW a \in Attempts,
             SocketOpens(a) \/ SocketRefused(a) \/ SocketCloses(a) \/ AttemptFailed(a)
      PROVE  SocketInv'
  BY <1>9, StepSocketOpens, StepSocketRefused, StepSocketCloses, StepAttemptFailed
<1>10. ASSUME NEW a \in Attempts, NEW n \in 0..BatchMax, SocketReceives(a, n) PROVE SocketInv'
  BY <1>10, StepSocketReceives
<1> QED
  BY <1>1, <1>2, <1>3, <1>4, <1>5, <1>6, <1>7, <1>8, <1>9, <1>10 DEF Next

\* Every variable of a WebSocketTransport keeps its type.
THEOREM TypeCorrect == Spec => []TypeOK
<1>1. SocketInv => TypeOK
  BY DEF SocketInv
<1> QED
  BY Initially, Step, <1>1, PTL DEF Spec

\* What RecoveryInv says of the attempts, as a number.
LEMMA CountTries ==
    ASSUME SocketInv
    PROVE  /\ Cardinality(Tries) <= 1
           /\ Cardinality(Tries) = 1 <=> \E a \in Attempts : Trying(a)
           /\ Tries = {} <=> \A a \in Attempts : ~Trying(a)
<1>1. Tries = {a \in Attempts : Trying(a)}
  BY DEF Tries, Trying
<1>2. \A a \in Attempts, b \in Attempts : Trying(a) /\ Trying(b) => a = b
  BY DEF SocketInv, RecoveryInv
<1>3. CASE \A a \in Attempts : ~Trying(a)
  <2>1. Tries = {}
    BY <1>1, <1>3
  <2>2. Cardinality(Tries) = 0
    BY <2>1, FS_EmptySet
  <2> QED
    BY <1>3, <2>1, <2>2
<1>4. CASE \E a \in Attempts : Trying(a)
  <2>1. PICK a \in Attempts : Trying(a)
    BY <1>4
  <2>2. Tries = {a}
    BY <1>1, <1>2, <2>1
  <2>3. Cardinality(Tries) = 1
    BY <2>2, FS_Singleton
  <2> QED
    BY <2>1, <2>2, <2>3
<1> QED
  BY <1>3, <1>4

\* WebSocketTransport never loses a socket or the way back to one: what is open is the
\* transport's own, exactly while it reports 'connected'; and while it is connecting or
\* reconnecting, exactly one attempt or one armed timer will take it further.
THEOREM SocketsAreInHand == Spec => []SocketsInHand
<1>1. ASSUME SocketInv PROVE SocketsInHand
  <2>1. TypeOK /\ AttemptInv /\ RecoveryInv
    BY <1>1 DEF SocketInv
  <2>2. NoLeakedSocket
    BY <2>1 DEF AttemptInv, NoLeakedSocket
  <2>3. /\ Cardinality(Tries) <= 1
        /\ Cardinality(Tries) = 1 <=> \E a \in Attempts : Trying(a)
        /\ Tries = {} <=> \A a \in Attempts : ~Trying(a)
    BY <1>1, CountTries
  <2>4. job = NoJob <=> job.kind = "none"
    BY <2>1, Ranges
  <2>5. \A a \in Attempts : attempt[a].by \in {"connect", "reconnect"}
    BY <2>1, Ranges, RecordFacts
  <2>6. Quiet /\ state = "connecting" => Cardinality(Tries) = 1 /\ reconnectTimer = None
    BY <2>1, <2>3, <2>4 DEF RecoveryInv, Quiet
  <2>7. Quiet /\ state = "reconnecting" => (Cardinality(Tries) = 1) # (reconnectTimer # None)
    <3>1. ASSUME Quiet, state = "reconnecting"
          PROVE  Cardinality(Tries) = 1 <=> ~(reconnectTimer # None)
      BY <2>1, <2>3, <2>4, <3>1 DEF RecoveryInv, Quiet
    <3> QED
      BY <3>1, Zenon
  <2>8. reconnectTimer # None => state = "reconnecting" /\ IsCurrent(reconnectTimer)
    BY <2>1 DEF RecoveryInv, IsCurrent
  <2>9. state \in {"connected", "disconnected"} => Tries = {}
    BY <2>1, <2>3, <2>5 DEF RecoveryInv
  <2> QED
    BY <2>2, <2>3, <2>6, <2>7, <2>8, <2>9 DEF SocketsInHand, OneRecoveryPath
<1> QED
  BY Initially, Step, <1>1, PTL DEF Spec

\* Every step of the WebSocket transport is a step of the ITransport contract, or none, whichever
\* notification or batch a subscriber calls disconnect() from.
THEOREM KeepsTheContract == Spec => ImplementsContract
<1>1. Init => Contract!Init
  BY DEF Init, Contract!Init, Coming, NoJob
<1>2. SocketInv /\ [Next]_vars => [Contract!Next]_(Contract!vars)
  <2> SUFFICES ASSUME SocketInv, [Next]_vars, ~UNCHANGED Contract!vars PROVE Contract!Next
    OBVIOUS
  <2> USE DEF Contract!vars, Contract!StateMoves
  <2>0. /\ \A g \in 0..MaxGeneration, k \in {"connecting", "schedule"}, n \in Nat : Job(k, g, n).kind # "batch"
        /\ job = NoJob => Coming = 0
        /\ job' = NoJob => Coming' = 0
        /\ job'.kind # "batch" => Coming' = 0
        /\ UNCHANGED job => UNCHANGED Coming
    BY JobFacts DEF Coming
  <2>1. CASE Connect
    <3>1. generation + 1 \in 0..MaxGeneration /\ 0 \in Nat /\ job = NoJob
      BY <2>1, Ranges DEF SocketInv, Connect, Quiet
    <3>2. job'.kind # "batch"
      BY <2>1, <2>0, <3>1 DEF Connect
    <3> QED
      BY <2>0, <2>1, <3>1, <3>2 DEF Connect, Contract!Next, Contract!Connect
  <2>2. CASE Disconnect
    BY <2>0, <2>2 DEF Disconnect, SocketInv, TypeOK, Contract!States, Contract!Next, Contract!Disconnect
  <2>3. CASE Disconnected
    BY <2>0, <2>3 DEF Disconnected, Closing, Contract!Next, Contract!Close
  <2>4. CASE EmitMessage
    <3>1. CASE job.left > 0
      <4>1. job \in Jobs /\ job.kind = "batch" /\ job' = [job EXCEPT !.left = @ - 1] /\ delivered' = delivered + 1
        BY <2>4, <3>1, Ranges DEF EmitMessage, SocketInv
      <4>2. Coming = job.left /\ Coming' = job.left - 1
        BY <4>1 DEF Coming, Jobs
      <4> QED
        BY <2>4, <3>1, <4>1, <4>2 DEF EmitMessage, Contract!Next, Contract!Deliver
    <3>2. CASE ~(job.left > 0)
      <4>1. Coming = 0 /\ Coming' = 0
        <5>1. job.left \in Nat
          BY Ranges DEF SocketInv, Jobs
        <5> QED
          BY <2>0, <2>4, <3>2, <5>1 DEF EmitMessage, Coming
      <4> QED
        BY <2>4, <3>2, <4>1 DEF EmitMessage
    <3> QED
      BY <3>1, <3>2
  <2>5. ASSUME NEW a \in Attempts, SocketOpens(a) PROVE Contract!Next
    <3>1. IsCurrent(attempt[a].gen) /\ state' = "connected" /\ UNCHANGED <<Coming, delivered>>
      BY <2>0, <2>5 DEF SocketOpens
    <3>2. Trying(a) /\ attempt[a].by \in {"connect", "reconnect"}
      BY <2>5, <3>1, Ranges, RecordFacts DEF SocketOpens, Trying, SocketInv
    <3>3. state \in {"connecting", "reconnecting"}
      BY <3>2 DEF SocketInv, RecoveryInv
    <3> QED
      BY <3>1, <3>3 DEF Contract!Next, Contract!Open
  <2>6. ASSUME NEW a \in Attempts, SocketCloses(a) PROVE Contract!Next
    <3>0. UNCHANGED Coming
      <4>1. attempt[a].gen \in 0..MaxGeneration /\ 0 \in Nat /\ job = NoJob
        BY <2>6, Ranges, RecordFacts DEF SocketInv, SocketCloses, TaskStarts, Quiet
      <4>2. job' = NoJob \/ job'.kind # "batch"
        BY <2>0, <2>6, <4>1 DEF SocketCloses
      <4> QED
        BY <2>0, <4>1, <4>2
    <3>1. /\ attempt[a].phase = "open" /\ socket = a /\ delivered' = delivered
          /\ state' \in {"reconnecting", "disconnected"}
      BY <2>6, <3>0 DEF SocketCloses, IsCurrentSocket
    <3>2. state = "connected"
      BY <3>1, Ranges DEF SocketInv, AttemptInv
    <3> QED
      BY <3>0, <3>1, <3>2 DEF Contract!Next, Contract!Lose
  <2>7. ASSUME NEW a \in Attempts, AttemptFailed(a) PROVE Contract!Next
    <3>0. UNCHANGED Coming
      <4>1. attempt[a].gen \in 0..MaxGeneration /\ 0 \in Nat /\ job = NoJob
        BY <2>7, Ranges, RecordFacts DEF SocketInv, AttemptFailed, Quiet
      <4>2. job' = NoJob \/ job'.kind # "batch"
        BY <2>0, <2>7, <4>1 DEF AttemptFailed
      <4> QED
        BY <2>0, <4>1, <4>2
    <3>1. IsCurrent(attempt[a].gen) /\ delivered' = delivered /\ state' # state
      BY <2>7, <3>0 DEF AttemptFailed
    <3>2. Trying(a)
      BY <2>7, <3>1 DEF AttemptFailed, Trying
    <3>3. /\ attempt[a].by = "connect" => state = "connecting"
          /\ attempt[a].by = "reconnect" => state = "reconnecting"
      BY <3>2 DEF SocketInv, RecoveryInv
    <3>4. state = "connecting" /\ state' = "disconnected"
      BY <2>7, <3>1, <3>3 DEF AttemptFailed
    <3> QED
      BY <3>0, <3>1, <3>4 DEF Contract!Next, Contract!Refuse
  <2>8. CASE FirstAttempt \/ ScheduleReconnect \/ TimerFires \/ UNCHANGED vars
    <3>1. UNCHANGED Coming
      BY <2>0, <2>8 DEF FirstAttempt, ScheduleReconnect, TimerFires, Coming, vars
    <3> QED
      BY <2>8, <3>1 DEF FirstAttempt, ScheduleReconnect, TimerFires, vars
  <2>9. ASSUME NEW a \in Attempts, NEW n \in 0..BatchMax, SocketReceives(a, n) PROVE Contract!Next
    <3>1. /\ job = NoJob /\ job' = Job("batch", attempt[a].gen, n) /\ UNCHANGED <<state, delivered>>
          /\ attempt[a].phase = "open" /\ socket = a
      BY <2>9 DEF SocketReceives, TaskStarts, Quiet, IsCurrentSocket
    <3>2. n \in Nat /\ attempt[a].gen \in 0..MaxGeneration
      <4>1. n \in Nat
        BY WebSocketAssumption
      <4>2. attempt[a] \in Records
        BY Ranges DEF SocketInv
      <4> QED
        BY <4>1, <4>2, RecordFacts
    <3>3. Coming = 0 /\ Coming' = n
      BY <2>0, <3>1, <3>2, JobFacts DEF Coming
    <3>4. state = "connected"
      BY <3>1, Ranges DEF SocketInv, AttemptInv
    <3> QED
      BY <3>1, <3>2, <3>3, <3>4 DEF Contract!Next, Contract!Receive
  <2>10. ASSUME NEW a \in Attempts, SocketRefused(a) PROVE Contract!Next
    BY <2>0, <2>10 DEF SocketRefused
  <2> QED
    BY <2>1, <2>2, <2>3, <2>4, <2>5, <2>6, <2>7, <2>8, <2>9, <2>10 DEF Next
<1> QED
  BY <1>1, <1>2, Initially, Step, PTL DEF Spec, ImplementsContract, Contract!Spec
===============================================================================
