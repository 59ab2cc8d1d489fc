------------------------ MODULE PollingTransportProofs ------------------------
(* Proofs for every value of the constants: what the PollingTransport does, and *)
(* (WireFormat) what becomes of a message's fields on every transport's way.    *)
EXTENDS PollingTransport, WireFormat, TLAPS

\* At most one poll is out, the flag says whether it is, and a poll of an
\* earlier generation is out only while disconnect() waits for it.
PollInv ==
    /\ \A g \in Generations : polls[g] \in {0, 1}
    /\ \A g, h \in Generations : polls[g] = 1 /\ polls[h] = 1 => g = h
    /\ isPolling <=> \E g \in Generations : polls[g] = 1
    /\ \A g \in Generations : polls[g] = 1 => (g = generation /\ CanPoll) \/ state = "disconnecting"
    /\ job.kind = "batch" => polls[job.gen] = 1
    /\ job.kind \in {"connecting", "connected"} => ~isPolling
    /\ state # "disconnected" => generation \in Generations
    /\ job # NoJob => generation \in Generations

\* Types and invariant hold at the start.
LEMMA InvInit == Init => TypeOK /\ PollInv
<1> USE PollingAssumption
<1>1. Init => FlagsOK
  BY DEF Init, FlagsOK
<1>2. Init => RangesOK
  BY DEF Init, RangesOK, Jobs, Generations, Contract!States
<1>3. Init => PollInv
  BY DEF Init, PollInv, NoJob, Generations, CanPoll
<1> QED BY <1>1, <1>2, <1>3 DEF TypeOK

\* What safePollOnce does is decided by its guard: it starts the only poll, or nothing.
LEMMA SafePollOnceEffect ==
    ASSUME TypeOK, PollInv, NEW g \in Generations, SafePollOnce(g)
    PROVE  /\ polls' \in [Generations -> Nat]
           /\ \/ /\ IsCurrent(g) /\ CanPoll /\ ~isPolling
                 /\ isPolling' = TRUE /\ followUp' = FALSE
                 /\ \A h \in Generations : polls'[h] = IF h = g THEN 1 ELSE 0
              \/ UNCHANGED <<isPolling, polls, followUp>>
<1>0. polls \in [Generations -> Nat]
  BY DEF TypeOK, RangesOK
<1>1. CASE IsCurrent(g) /\ CanPoll /\ ~isPolling
  <2>1. \A h \in Generations : polls[h] = 0
    BY <1>1 DEF PollInv
  <2>2. polls' = [polls EXCEPT ![g] = 1] /\ isPolling' = TRUE /\ followUp' = FALSE
    BY <1>1, <2>1 DEF SafePollOnce
  <2> QED BY <1>0, <1>1, <2>1, <2>2
<1>2. CASE ~(IsCurrent(g) /\ CanPoll /\ ~isPolling)
  BY <1>0, <1>2 DEF SafePollOnce
<1> QED BY <1>1, <1>2

\* Every job is one of the type's.
LEMMA JobType ==
    ASSUME NEW k \in {"connecting", "connected", "batch"}, NEW g \in Generations,
           NEW n \in 0..BatchMax
    PROVE  /\ Job(k, g, n) \in Jobs
           /\ Job(k, g, n).kind = k /\ Job(k, g, n).gen = g /\ Job(k, g, n).left = n
BY DEF Job, Jobs

\* A job has the fields of its kind.
LEMMA JobFields ==
    ASSUME TypeOK, job # NoJob \/ job.kind # "none"
    PROVE  job.gen \in Generations /\ job.left \in 0..BatchMax /\ job = Job(job.kind, job.gen, job.left)
BY DEF TypeOK, RangesOK, Jobs, Job, NoJob

\* Every step keeps types and invariant.
LEMMA InvNext == TypeOK /\ PollInv /\ [Next]_vars => TypeOK' /\ PollInv'
<1> SUFFICES ASSUME TypeOK, PollInv, [Next]_vars PROVE FlagsOK' /\ RangesOK' /\ PollInv'
  BY DEF TypeOK
<1> USE PollingAssumption DEF TypeOK, timers
<1>1. CASE Connect
  <2>1. FlagsOK'
    BY <1>1 DEF FlagsOK, Connect
  <2>2. RangesOK'
    BY <1>1 DEF RangesOK, Jobs, Generations, Contract!States, Connect, Quiet, Job, Closing
  <2>3. PollInv'
    <3>1. \A g \in Generations : polls[g] = 0
      BY <1>1 DEF PollInv, Connect, CanPoll
    <3>2. ~isPolling /\ isPolling' = isPolling /\ polls' = polls
      BY <1>1, <3>1 DEF PollInv, Connect
    <3>3. generation' \in Generations
      BY <1>1 DEF Connect, RangesOK, Generations
    <3>4. job'.kind = "connecting"
      BY <1>1 DEF Connect, Job
    <3> QED BY <3>1, <3>2, <3>3, <3>4 DEF PollInv
  <2> QED BY <2>1, <2>2, <2>3
<1>2. CASE Connected
  <2>1. FlagsOK'
    BY <1>2 DEF FlagsOK, Connected
  <2>2. RangesOK'
    <3>1. job.gen \in Generations /\ 0 \in 0..BatchMax
      BY <1>2, JobFields DEF Connected
    <3>2. job' \in Jobs
      BY <1>2, <3>1, JobType DEF Connected
    <3> QED BY <1>2, <3>2 DEF RangesOK, Connected, Contract!States
  <2>3. PollInv'
    BY <1>2 DEF PollInv, RangesOK, Jobs, CanPoll, Connected, Job, NoJob, Closing
  <2> QED BY <2>1, <2>2, <2>3
<1>3. CASE StartLoop
  <2>1. FlagsOK'
    BY <1>3 DEF FlagsOK, StartLoop, SafePollOnce
  <2>2. RangesOK'
    <3>1. job.gen \in Generations /\ (SafePollOnce(job.gen) \/ UNCHANGED polls)
      BY <1>3, JobFields DEF StartLoop
    <3>2. polls' \in [Generations -> Nat]
      BY <3>1, SafePollOnceEffect DEF RangesOK
    <3>3. job.gen \in Generations
      BY <1>3, JobFields DEF StartLoop
    <3>4. pollTimer' \in Generations \cup {None}
      BY <1>3, <3>3 DEF StartLoop, ScheduleNextPoll, RangesOK
    <3> QED BY <1>3, <3>2, <3>4 DEF StartLoop, RangesOK, Jobs
  <2>3. PollInv'
    <3>1. job.gen \in Generations /\ job' = NoJob /\ job.kind = "connected"
      BY <1>3, JobFields DEF StartLoop
    <3>2. UNCHANGED <<state, generation>>
      BY <1>3 DEF StartLoop
    <3>3. CASE UNCHANGED <<isPolling, polls>>
      BY <3>1, <3>2, <3>3 DEF PollInv, NoJob, CanPoll
    <3>4. CASE SafePollOnce(job.gen) /\ ~UNCHANGED <<isPolling, polls>>
      <4>1. /\ IsCurrent(job.gen) /\ CanPoll /\ isPolling'
            /\ \A h \in Generations : polls'[h] = IF h = job.gen THEN 1 ELSE 0
        BY <3>1, <3>4, SafePollOnceEffect
      <4> QED BY <3>1, <3>2, <4>1 DEF PollInv, NoJob, CanPoll, IsCurrent
    <3> QED BY <1>3, <3>3, <3>4 DEF StartLoop
  <2> QED BY <2>1, <2>2, <2>3
<1>4. CASE Disconnect
  <2>1. FlagsOK'
    BY <1>4 DEF FlagsOK, Disconnect
  <2>2. RangesOK'
    BY <1>4 DEF RangesOK, Jobs, Generations, Contract!States, Disconnect, Quiet
  <2>3. PollInv'
    <3>1. UNCHANGED <<isPolling, polls, job>> /\ state' = "disconnecting" /\ generation' \in Generations
      BY <1>4 DEF Disconnect, RangesOK, Generations
    <3> QED BY <3>1 DEF PollInv, CanPoll
  <2> QED BY <2>1, <2>2, <2>3
<1>5. CASE Disconnected
  <2>1. FlagsOK'
    BY <1>5 DEF FlagsOK, Disconnected
  <2>2. RangesOK'
    BY <1>5 DEF RangesOK, Jobs, Generations, Contract!States, Disconnected, Closing
  <2>3. PollInv'
    BY <1>5 DEF PollInv, RangesOK, Jobs, CanPoll, Disconnected, Closing
  <2> QED BY <2>1, <2>2, <2>3
<1>6. CASE EmitMessage
  <2>1. FlagsOK'
    BY <1>6 DEF FlagsOK, EmitMessage
  <2>2. RangesOK'
    <3>1. job' = Job(job.kind, job.gen, job.left - 1) /\ job.left - 1 \in 0..BatchMax
      BY <1>6, JobFields DEF EmitMessage, Job
    <3>2. job' \in Jobs
      BY <1>6, <3>1, JobType, JobFields DEF EmitMessage
    <3>3. delivered' \in Nat
      BY <1>6 DEF EmitMessage, RangesOK
    <3> QED BY <1>6, <3>2, <3>3 DEF RangesOK, EmitMessage
  <2>3. PollInv'
    BY <1>6 DEF PollInv, RangesOK, Jobs, CanPoll, EmitMessage, NoJob
  <2> QED BY <2>1, <2>2, <2>3
<1>7. CASE PollEnds
  <2>1. FlagsOK'
    BY <1>7 DEF FlagsOK, PollEnds, PollIsOver
  <2>2. RangesOK'
    <3>1. job.gen \in Generations /\ polls[job.gen] = 1
      BY <1>7, JobFields DEF PollEnds, PollInv
    <3>2. polls' \in [Generations -> Nat]
      BY <1>7, <3>1 DEF PollEnds, PollIsOver, RangesOK
    <3>3. pollTimer' \in Generations \cup {None}
      BY <1>7, <3>1 DEF PollEnds, ScheduleNextPoll, RangesOK
    <3> QED BY <1>7, <3>2, <3>3 DEF PollEnds, RangesOK, Jobs
  <2>3. PollInv'
    BY <1>7 DEF PollInv, RangesOK, Jobs, PollEnds, PollIsOver, IsCurrent, CanPoll, NoJob
  <2> QED BY <2>1, <2>2, <2>3
<1>8. CASE TimerFires
  <2>1. FlagsOK'
    BY <1>8 DEF FlagsOK, TimerFires, SafePollOnce
  <2>2. RangesOK'
    <3>1. pollTimer \in Generations
      BY <1>8 DEF TimerFires, RangesOK
    <3>2. polls' \in [Generations -> Nat]
      BY <1>8, <3>1, SafePollOnceEffect DEF TimerFires
    <3> QED BY <1>8, <3>2 DEF TimerFires, RangesOK
  <2>3. PollInv'
    <3>1. pollTimer \in Generations /\ job' = NoJob /\ SafePollOnce(pollTimer)
      BY <1>8 DEF TimerFires, RangesOK, Quiet
    <3>2. UNCHANGED <<state, generation>>
      BY <1>8 DEF TimerFires
    <3>3. CASE UNCHANGED <<isPolling, polls>>
      BY <3>1, <3>2, <3>3 DEF PollInv, NoJob, CanPoll
    <3>4. CASE ~UNCHANGED <<isPolling, polls>>
      <4>1. /\ IsCurrent(pollTimer) /\ CanPoll /\ isPolling'
            /\ \A h \in Generations : polls'[h] = IF h = pollTimer THEN 1 ELSE 0
        BY <3>1, <3>4, SafePollOnceEffect
      <4> QED BY <3>1, <3>2, <4>1 DEF PollInv, NoJob, CanPoll, IsCurrent
    <3> QED BY <3>3, <3>4
  <2> QED BY <2>1, <2>2, <2>3
<1>9. ASSUME NEW g \in Generations, PollFails(g) PROVE FlagsOK' /\ RangesOK' /\ PollInv'
  <2>1. FlagsOK'
    BY <1>9 DEF FlagsOK, PollFails
  <2>2. RangesOK'
    BY <1>9 DEF RangesOK, Jobs, Generations, Contract!States, PollFails, Job
  <2>3. PollInv'
    BY <1>9 DEF PollInv, RangesOK, Jobs, PollFails, Quiet, NoJob, Job, IsCurrent, CanPoll
  <2> QED BY <2>1, <2>2, <2>3
<1>10. ASSUME NEW g \in Generations, NEW n \in 0..BatchMax, PollAnswers(g, n) PROVE FlagsOK' /\ RangesOK' /\ PollInv'
  <2>1. FlagsOK'
    BY <1>10 DEF FlagsOK, PollAnswers
  <2>2. RangesOK'
    BY <1>10 DEF RangesOK, Jobs, Generations, Contract!States, PollAnswers, Job
  <2>3. PollInv'
    BY <1>10 DEF PollInv, RangesOK, Jobs, PollAnswers, Quiet, NoJob, Job, IsCurrent, CanPoll
  <2> QED BY <2>1, <2>2, <2>3
<1>11. ASSUME NEW s \in Senders, Send(s) \/ SendFails(s) PROVE FlagsOK' /\ RangesOK' /\ PollInv'
  <2>1. FlagsOK'
    BY <1>11 DEF FlagsOK, Send, SendFails
  <2>2. RangesOK'
    BY <1>11 DEF RangesOK, Jobs, Generations, Contract!States, Send, SendFails
  <2>3. PollInv'
    BY <1>11 DEF PollInv, RangesOK, Jobs, CanPoll, Send, SendFails
  <2> QED BY <2>1, <2>2, <2>3
<1>12. ASSUME NEW s \in Senders, SendDone(s) PROVE FlagsOK' /\ RangesOK' /\ PollInv'
  <2>1. FlagsOK'
    BY <1>12 DEF FlagsOK, SendDone, SafePollOnce
  <2>2. RangesOK'
    <3>1. CASE UNCHANGED timers
      BY <1>12, <3>1 DEF SendDone, RangesOK
    <3>2. CASE pollTimer' = None /\ SafePollOnce(generation) /\ CanPoll
      <4>1. generation \in Generations
        BY <3>2 DEF CanPoll, PollInv
      <4>2. polls' \in [Generations -> Nat]
        BY <3>2, <4>1, SafePollOnceEffect
      <4> QED BY <1>12, <3>2, <4>2 DEF SendDone, RangesOK
    <3>3. CASE UNCHANGED <<pollTimer, polls>>
      BY <1>12, <3>3 DEF SendDone, RangesOK
    <3> QED BY <1>12, <3>1, <3>2, <3>3 DEF SendDone
  <2>3. PollInv'
    <3>1. CASE UNCHANGED <<isPolling, polls>>
      BY <1>12, <3>1 DEF PollInv, SendDone, NoJob, CanPoll
    <3>2. CASE SafePollOnce(generation) /\ CanPoll /\ ~UNCHANGED <<isPolling, polls>>
      <4>1. generation \in Generations
        BY <3>2 DEF CanPoll, PollInv
      <4> QED BY <1>12, <3>2, <4>1, SafePollOnceEffect
          DEF PollInv, SendDone, Quiet, NoJob, CanPoll, IsCurrent
    <3> QED BY <1>12, <3>1, <3>2 DEF SendDone
  <2> QED BY <2>1, <2>2, <2>3
<1>13. CASE UNCHANGED vars
  <2>1. FlagsOK'
    BY <1>13 DEF FlagsOK, vars
  <2>2. RangesOK'
    BY <1>13 DEF RangesOK, Jobs, Generations, Contract!States, vars
  <2>3. PollInv'
    BY <1>13 DEF PollInv, RangesOK, Jobs, CanPoll, vars
  <2> QED BY <2>1, <2>2, <2>3
<1> QED
  BY <1>1, <1>2, <1>3, <1>4, <1>5, <1>6, <1>7, <1>8, <1>9, <1>10, <1>11, <1>12, <1>13 DEF Next

\* Type correctness, together with the invariant it needs.
THEOREM TypeCorrect == Spec => [](TypeOK /\ PollInv)
BY InvInit, InvNext, PTL DEF Spec

\* config.poll() is never called while an earlier call is out, not even across generations,
\* whether or not subscribers call back into the transport.
THEOREM PollsDoNotOverlap == Spec => []PollsNeverOverlap
<1>1. TypeOK /\ PollInv => PollsNeverOverlap
  BY DEF PollInv, PollsNeverOverlap
<1> QED BY <1>1, TypeCorrect, PTL

-------------------------------------------------------------------------------
(* Unless a subscriber calls disconnect() from the notification of 'connecting', which undoes it, *)
(* the loop is single and the contract is kept.                                                   *)

CallsBackSafely == "connecting" \notin Reentrant

LoopInv ==
    /\ job.kind = "connecting" => job.gen = generation /\ state = "connecting" /\ pollTimer = None
    /\ job.kind = "connected" =>
           \/ job.gen = generation /\ state = "connected" /\ pollTimer = None
           \/ job.gen # generation /\ state \in {"disconnecting", "disconnected"}
    /\ pollTimer # None => CanPoll /\ pollTimer = generation
    /\ CanPoll /\ job.kind # "connected" => (pollTimer = None <=> polls[generation] = 1)
    /\ followUp => CanPoll /\ pendingImmediatePoll /\ pollTimer = None /\ polls[generation] = 1

\* A poll that is out while polling is allowed is one of the current generation.
LEMMA PollIsCurrent ==
    ASSUME PollInv, CanPoll
    PROVE  generation \in Generations /\ (isPolling <=> polls[generation] = 1)
BY DEF PollInv, CanPoll

\* No loop runs at the start.
LEMMA LoopInvInit == Init => LoopInv
BY DEF Init, LoopInv, NoJob, CanPoll

\* Every step keeps the one loop.
LEMMA LoopInvNext ==
    ASSUME CallsBackSafely, TypeOK, PollInv, LoopInv, [Next]_vars
    PROVE  LoopInv'
<1> USE PollingAssumption DEF timers
<1> \A g \in Generations : g # None
  BY DEF Generations
<1>1. CASE Connect
  BY <1>1 DEF Connect, LoopInv, Job, CanPoll, Quiet, NoJob
<1>2. CASE Connected
  BY <1>2 DEF Connected, LoopInv, Job, CanPoll
<1>3. CASE StartLoop
  <2>1. /\ job.kind = "connected" /\ job' = NoJob /\ job'.kind = "none"
        /\ UNCHANGED <<state, generation, pendingImmediatePoll>>
    BY <1>3 DEF StartLoop, NoJob
  <2>2. CASE job.gen = generation
    <3>1. generation \in Generations /\ CanPoll /\ pollTimer = None
      BY <2>1, <2>2, PollIsCurrent DEF LoopInv, CanPoll
    <3>2. ~isPolling /\ polls[generation] # 1 /\ ~followUp
      BY <2>1, <2>2, <3>1, PollIsCurrent DEF PollInv, LoopInv
    <3>3. CASE PollImmediately
      <4>1. pollTimer' = None /\ SafePollOnce(generation)
        BY <1>3, <2>2, <3>1, <3>3 DEF StartLoop
      <4>2. ~followUp' /\ polls'[generation] = 1
        BY <3>1, <3>2, <4>1 DEF SafePollOnce, IsCurrent, PollInv, TypeOK, RangesOK
      <4> QED BY <2>1, <3>1, <4>1, <4>2 DEF LoopInv, CanPoll, NoJob
    <3>4. CASE ~PollImmediately
      <4>1. pollTimer' = generation /\ UNCHANGED <<polls, followUp>>
        BY <1>3, <2>2, <3>1, <3>4 DEF StartLoop, ScheduleNextPoll, IsCurrent
      <4> QED BY <2>1, <3>1, <3>2, <4>1 DEF LoopInv, CanPoll, NoJob
    <3> QED BY <3>3, <3>4
  <2>3. CASE job.gen # generation
    <3>1. ~CanPoll /\ ~IsCurrent(job.gen)
      BY <2>1, <2>3 DEF LoopInv, CanPoll, IsCurrent
    <3>2. UNCHANGED <<pollTimer, polls, followUp>>
      BY <1>3, <3>1 DEF StartLoop, SafePollOnce, ScheduleNextPoll
    <3> QED BY <2>1, <3>1, <3>2 DEF LoopInv, CanPoll, NoJob
  <2> QED BY <2>2, <2>3
<1>4. CASE Disconnect
  <2>0. UNCHANGED job /\ (job = NoJob \/ job.kind \in Reentrant)
    BY <1>4 DEF Disconnect, Quiet
  <2>1. UNCHANGED job /\ job.kind \in {"none", "connected", "batch"}
    <3>1. job.kind \in Reentrant => job.kind \in {"connected", "batch"}
      BY CallsBackSafely DEF CallsBackSafely, PollingAssumption
    <3> QED BY <2>0, <3>1 DEF NoJob
  <2>2. /\ generation' # generation /\ state' = "disconnecting" /\ state \notin {"disconnected", "disconnecting"}
        /\ pollTimer' = None /\ ~followUp'
    BY <1>4 DEF Disconnect, TypeOK, RangesOK
  <2> QED BY <2>1, <2>2 DEF LoopInv, CanPoll
<1>5. CASE Disconnected
  BY <1>5 DEF Disconnected, LoopInv, CanPoll, Closing
<1>6. CASE EmitMessage
  <2>1. job'.kind = "batch" /\ UNCHANGED <<state, generation, timers, followUp>> /\ job.kind = "batch"
    BY <1>6, JobFields DEF EmitMessage, Job
  <2>2. job.left > 0
    BY <1>6 DEF EmitMessage
  <2> QED BY <2>1, <2>2 DEF LoopInv, CanPoll
<1>7. CASE PollEnds
  <2>1. /\ job.gen \in Generations /\ polls[job.gen] = 1 /\ job.kind = "batch"
        /\ job' = NoJob /\ job'.kind = "none" /\ UNCHANGED <<state, generation>>
    BY <1>7, JobFields DEF PollEnds, PollInv, NoJob
  <2>2. CanPoll => IsCurrent(job.gen) /\ pollTimer = None
    BY <2>1 DEF PollInv, LoopInv, CanPoll, IsCurrent
  <2>3. CASE pendingImmediatePoll /\ IsCurrent(job.gen) /\ CanPoll
    <3>1. pollTimer' = None /\ ~followUp' /\ UNCHANGED polls
      BY <1>7, <2>3 DEF PollEnds
    <3> QED BY <2>1, <2>3, <3>1 DEF LoopInv, CanPoll, NoJob, IsCurrent
  <2>4. CASE ~(pendingImmediatePoll /\ IsCurrent(job.gen) /\ CanPoll)
    <3>1. PollIsOver(job.gen) /\ ScheduleNextPoll(job.gen) /\ UNCHANGED followUp
      BY <1>7, <2>4 DEF PollEnds
    <3>2. ~followUp
      BY <2>2, <2>4 DEF LoopInv
    <3>3. polls'[job.gen] = 0
      BY <2>1, <3>1 DEF PollIsOver, TypeOK, RangesOK
    <3>4. CASE CanPoll
      <4>1. pollTimer' = generation /\ polls'[generation] = 0 /\ generation \in Generations
        BY <2>1, <2>2, <3>1, <3>3, <3>4 DEF ScheduleNextPoll, IsCurrent
      <4> QED BY <2>1, <3>1, <3>2, <3>4, <4>1 DEF LoopInv, CanPoll, NoJob
    <3>5. CASE ~CanPoll
      <4>1. pollTimer' = pollTimer
        BY <3>1, <3>5 DEF ScheduleNextPoll
      <4> QED BY <2>1, <3>1, <3>2, <3>5, <4>1 DEF LoopInv, CanPoll, NoJob
    <3> QED BY <3>4, <3>5
  <2> QED BY <2>3, <2>4
<1>8. CASE TimerFires
  <2>1. /\ pollTimer # None /\ pollTimer' = None /\ SafePollOnce(pollTimer)
        /\ UNCHANGED <<state, generation, job, pendingImmediatePoll>> /\ job.kind = "none"
    BY <1>8 DEF TimerFires, Quiet, NoJob
  <2>2. pollTimer = generation /\ CanPoll /\ generation \in Generations /\ ~isPolling
    BY <2>1, PollIsCurrent DEF LoopInv
  <2>3. ~followUp' /\ polls'[generation] = 1
    BY <2>1, <2>2 DEF SafePollOnce, IsCurrent, PollInv, TypeOK, RangesOK
  <2> QED BY <2>1, <2>2, <2>3 DEF LoopInv, CanPoll
<1>9. ASSUME NEW g \in Generations, PollFails(g) PROVE LoopInv'
  <2>1. /\ job.kind = "none" /\ job'.kind = "batch" /\ job'.left = 0
        /\ UNCHANGED <<generation, timers, followUp>> /\ polls[g] = 1
    BY <1>9 DEF PollFails, Quiet, NoJob, Job, PollInv
  <2>2. CanPoll' <=> CanPoll
    BY <1>9 DEF PollFails, CanPoll
  <2> QED BY <2>1, <2>2 DEF LoopInv
<1>10. ASSUME NEW g \in Generations, NEW n \in 0..BatchMax, PollAnswers(g, n) PROVE LoopInv'
  <2>1. /\ job.kind = "none" /\ job'.kind = "batch"
        /\ UNCHANGED <<generation, timers, followUp>>
    BY <1>10 DEF PollAnswers, Quiet, NoJob, Job
  <2>2. CanPoll' <=> CanPoll
    BY <1>10 DEF PollAnswers, CanPoll
  <2> QED BY <2>1, <2>2 DEF LoopInv
<1>11. ASSUME NEW s \in Senders, Send(s) \/ SendFails(s) PROVE LoopInv'
  BY <1>11 DEF Send, SendFails, LoopInv, CanPoll
<1>12. ASSUME NEW s \in Senders, SendDone(s) PROVE LoopInv'
  <2>1. UNCHANGED <<state, generation, job>> /\ job.kind = "none"
    BY <1>12 DEF SendDone, Quiet, NoJob
  <2>2. CASE PollAfterSend /\ CanPoll /\ isPolling
    <3>1. pendingImmediatePoll' /\ UNCHANGED <<pollTimer, polls>>
      BY <1>12, <2>2 DEF SendDone
    <3>2. polls[generation] = 1 /\ pollTimer = None
      BY <2>1, <2>2, PollIsCurrent DEF LoopInv
    <3> QED BY <2>1, <2>2, <3>1, <3>2 DEF LoopInv, CanPoll
  <2>3. CASE PollAfterSend /\ CanPoll /\ ~isPolling
    <3>1. pollTimer' = None /\ SafePollOnce(generation) /\ generation \in Generations
      BY <1>12, <2>3, PollIsCurrent DEF SendDone
    <3>2. ~followUp' /\ polls'[generation] = 1
      BY <2>3, <3>1 DEF SafePollOnce, IsCurrent, PollInv, TypeOK, RangesOK
    <3> QED BY <2>1, <2>3, <3>1, <3>2 DEF LoopInv, CanPoll
  <2>4. CASE ~(PollAfterSend /\ CanPoll)
    BY <1>12, <2>1, <2>4 DEF SendDone, LoopInv, CanPoll
  <2> QED BY <2>2, <2>3, <2>4
<1>13. CASE UNCHANGED vars
  BY <1>13 DEF vars, LoopInv, CanPoll
<1> QED
  BY <1>1, <1>2, <1>3, <1>4, <1>5, <1>6, <1>7, <1>8, <1>9, <1>10, <1>11, <1>12, <1>13 DEF Next

\* The invariants hold in every behaviour.
LEMMA LoopCorrect == ASSUME CallsBackSafely PROVE Spec => [](TypeOK /\ PollInv /\ LoopInv)
<1>1. TypeOK /\ PollInv /\ LoopInv /\ [Next]_vars => LoopInv'
  BY LoopInvNext
<1> QED BY <1>1, LoopInvInit, TypeCorrect, PTL DEF Spec

\* A connected transport always has exactly one source of its next poll.
THEOREM LoopIsSingle == ASSUME CallsBackSafely PROVE Spec => []OneLoop
<1>1. TypeOK /\ PollInv /\ LoopInv => OneLoop
  <2> SUFFICES ASSUME TypeOK, PollInv, LoopInv PROVE OneLoop
    OBVIOUS
  <2>1. CASE pollTimer = None
    <3>1. job = NoJob /\ CanPoll => generation # None /\ polls[generation] = 1
      BY <2>1, PollIsCurrent, PollingAssumption DEF LoopInv, NoJob, Generations
    <3> QED BY <2>1, <3>1 DEF OneLoop
  <2>2. CASE pollTimer # None
    <3>1. pollTimer = generation /\ CanPoll
      BY <2>2 DEF LoopInv
    <3>2. job = NoJob => polls[generation] # 1
      BY <2>2, <3>1 DEF LoopInv, NoJob
    <3> QED BY <3>1, <3>2 DEF OneLoop, IsCurrent
  <2> QED BY <2>1, <2>2
<1> QED BY <1>1, LoopCorrect, PTL

\* A send that succeeds during a poll is followed by a poll of its own.
THEOREM SendsArePolledSoon == ASSUME CallsBackSafely PROVE Spec => []SendIsPolledSoon
<1>1. LoopInv => SendIsPolledSoon
  BY DEF LoopInv, SendIsPolledSoon
<1> QED BY <1>1, LoopCorrect, PTL

\* A batch is handed out by a poll, and disconnect() waits for that.
LEMMA NothingComing == TypeOK /\ PollInv /\ state = "disconnected" => Coming = 0
<1>1. TypeOK /\ PollInv /\ job.kind = "batch" => polls[job.gen] = 1 /\ job.gen \in Generations
  <2> SUFFICES ASSUME TypeOK, PollInv, job.kind = "batch" PROVE job.gen \in Generations
    BY DEF PollInv
  <2> QED BY JobFields
<1> QED BY <1>1 DEF PollInv, Coming, CanPoll

\* Every step of the polling transport is a step of the ITransport contract, or none, also when
\* subscribers disconnect within a batch; nothing is left of one when disconnect() has settled.
THEOREM KeepsTheContract == ASSUME CallsBackSafely PROVE Spec => ImplementsContract
<1>1. Init => Contract!Init
  BY DEF Init, Contract!Init, Coming, NoJob
<1>2. TypeOK /\ PollInv /\ LoopInv /\ [Next]_vars => [Contract!Next]_(Contract!vars)
  <2> SUFFICES ASSUME TypeOK, PollInv, LoopInv, [Next]_vars, ~UNCHANGED Contract!vars PROVE Contract!Next
    OBVIOUS
  <2> USE DEF Contract!vars, Coming, Contract!StateMoves
  <2>1. CASE Connect
    BY <2>1 DEF Connect, Quiet, NoJob, Job, Contract!Next, Contract!Connect
  <2>2. CASE Connected
    BY <2>2 DEF Connected, Job, LoopInv, Contract!Next, Contract!Open
  <2>3. CASE Disconnect
    BY <2>3 DEF Disconnect, TypeOK, RangesOK, Contract!States, Contract!Next, Contract!Disconnect
  <2>4. CASE Disconnected
    BY <2>4 DEF Disconnected, Closing, Contract!Next, Contract!Close
  <2>5. CASE EmitMessage
    <3>1. job.kind = "batch" /\ job' = Job("batch", job.gen, job.left - 1)
      BY <2>5, JobFields DEF EmitMessage, Job
    <3> QED BY <2>5, <3>1 DEF EmitMessage, Job, Contract!Next, Contract!Deliver
  <2>6. ASSUME NEW g \in Generations, PollFails(g) PROVE Contract!Next
    BY <2>6 DEF PollFails, Quiet, NoJob, Job, CanPoll, Contract!Next, Contract!Lose
  <2>7. ASSUME NEW g \in Generations, NEW n \in 0..BatchMax, PollAnswers(g, n) PROVE Contract!Next
    BY <2>7, PollingAssumption DEF PollAnswers, Quiet, NoJob, Job, CanPoll, Contract!Next, Contract!Receive
  <2>8. CASE StartLoop \/ PollEnds \/ TimerFires \/ UNCHANGED vars
    BY <2>8 DEF StartLoop, PollEnds, TimerFires, NoJob, vars
  <2>9. ASSUME NEW s \in Senders, Send(s) \/ SendDone(s) \/ SendFails(s) PROVE Contract!Next
    BY <2>9 DEF Send, SendDone, SendFails
  <2> QED BY <2>1, <2>2, <2>3, <2>4, <2>5, <2>6, <2>7, <2>8, <2>9 DEF Next
<1>3. TypeOK /\ PollInv => (state = "disconnected" => Coming = 0)
  BY NothingComing
<1> QED BY <1>1, <1>2, <1>3, LoopCorrect, PTL DEF Spec, ImplementsContract, Contract!Spec

-------------------------------------------------------------------------------
(* WireFormat *)

FieldChecks == {"string", "optString", "number", "latitude", "longitude", "optSize", "literal",
                "optNumbers", "optRecord", "any"}

\* How each field of each type is checked, as far as the proof distinguishes them.
LEMMA FieldShapes ==
    ASSUME NEW type \in Types, NEW f \in DOMAIN Fields[type]
    PROVE  /\ Fields[type][f] \in FieldChecks
           /\ Fields[type][f] = "number" => f = "size" /\ type = "file"
           /\ Fields[type][f] = "optSize" => type \in {"audio", "video"} /\ f \in {"durationSeconds", "size"}
           /\ Fields[type][f] = "latitude" => type = "location" /\ f = "latitude"
           /\ Fields[type][f] = "longitude" => type = "location" /\ f = "longitude"
           /\ Fields[type][f] = "optNumbers" => f \in {"dimensions", "aiMetadata"}
           /\ f = "alt" => Fields[type][f] = "optString"
           /\ f = "content" => Fields[type][f] = "string"
           /\ f = "metadata" => Fields[type][f] = "optRecord"
           /\ f = "payload" => Fields[type][f] = "any"
           /\ f = "size" /\ type # "file" => Fields[type][f] = "optSize"
           /\ f = "dimensions" => Fields[type][f] = "optNumbers"
           /\ type = "text" => f \in {"content", "metadata"}
           /\ type = "ai" => f \in {"content", "metadata", "aiMetadata"}
           /\ f = "aiMetadata" => Fields[type][f] = "optNumbers"
<1> USE DEF FieldChecks
<1>1. type \in {"text", "image", "audio", "video", "file", "location", "system", "ai", "custom"}
  BY DEF Types, Fields
<1>2. CASE type = "text"
  BY <1>2 DEF Fields
<1>3. CASE type = "image"
  BY <1>3 DEF Fields
<1>4. CASE type = "audio"
  BY <1>4 DEF Fields
<1>5. CASE type = "video"
  BY <1>5 DEF Fields
<1>6. CASE type = "file"
  BY <1>6 DEF Fields
<1>7. CASE type = "location"
  BY <1>7 DEF Fields
<1>8. CASE type = "system"
  BY <1>8 DEF Fields
<1>9. CASE type = "ai"
  BY <1>9 DEF Fields
<1>10. CASE type = "custom"
  BY <1>10 DEF Fields
<1> QED
  BY <1>1, <1>2, <1>3, <1>4, <1>5, <1>6, <1>7, <1>8, <1>9, <1>10

-------------------------------------------------------------------------------
(* Values and messages. *)

\* JSON changes nothing but numbers that are not finite, and nothing twice.
LEMMA JsonKeeps ==
    ASSUME NEW v \in Values
    PROVE  Json(v) \in Values /\ Json(Json(v)) = Json(v) /\ (v \notin Stray => Json(v) = v)
  BY DEF Json, Values, Strings, Numbers, Finite, Stray

\* A value that the compiler and the engine let through parses, unless nothing looks at it.
LEMMA ValuesParse ==
    ASSUME NEW type \in Types, NEW f \in DOMAIN Fields[type], NEW v \in Typed(Fields[type][f]),
           type \in {"audio", "video"} /\ f \in {"durationSeconds", "size"} => v \in Sizes,
           type = "location" /\ f = "latitude" => v \in Latitudes,
           type = "location" /\ f = "longitude" => v \in Longitudes
    PROVE  v \in Values /\ ((f \in Unguarded /\ v \in Stray) \/ Parses(Fields[type][f], Json(v)))
<1> DEFINE c == Fields[type][f]
<1>1. /\ c \in FieldChecks
      /\ c = "number" => f = "size"
      /\ c = "optSize" => v \in Sizes
      /\ c = "latitude" => v \in Latitudes
      /\ c = "longitude" => v \in Longitudes
      /\ c = "optNumbers" => f \in {"dimensions", "aiMetadata"}
      /\ v \in Typed(c)
  BY FieldShapes
<1> SUFFICES v \in Values /\ ((f \in Unguarded /\ v \in Stray) \/ Parses(c, Json(v)))
  OBVIOUS
<1> HIDE DEF c
<1> USE DEF Values, Strings, Numbers, Finite, Stray, Json, Typed
<1>2. CASE c \in {"string", "optString"}
  BY <1>1, <1>2 DEF Parses, ParsesValue
<1>3. CASE c = "number"
  BY <1>1, <1>3 DEF Parses, ParsesValue, Unguarded
<1>4. CASE c = "optSize"
  BY <1>1, <1>4 DEF Parses, ParsesValue, Sizes
<1>5. CASE c = "latitude"
  BY <1>1, <1>5 DEF Parses, ParsesValue, Latitudes
<1>6. CASE c = "longitude"
  BY <1>1, <1>6 DEF Parses, ParsesValue, Longitudes
<1>7. CASE c \in {"literal", "any"}
  BY <1>1, <1>7 DEF Parses, ParsesValue
<1>8. CASE c = "optNumbers"
  BY <1>1, <1>8 DEF Parses, ParsesRecord, Unguarded
<1>9. CASE c = "optRecord"
  BY <1>1, <1>9 DEF Parses, ParsesRecord
<1> QED
  BY <1>1, <1>2, <1>3, <1>4, <1>5, <1>6, <1>7, <1>8, <1>9 DEF FieldChecks

\* What storage and events may have of a field whose value the callers or the server meant.
FieldKept(f, g, v) == v = g \/ g \in Stray \/ (f = "alt" /\ g = "empty" /\ v = "undefined")
FieldLegible(check, f, g, v) == (f \in Unguarded /\ g \in Stray) \/ Parses(check, Json(v))

Meant(g) ==
    /\ g.type \in Types /\ g \in Messages(g.type)
    /\ \A f \in DOMAIN Fields[g.type] : g.fields[f] \in Typed(Fields[g.type][f])
Carries(g, m) ==
    /\ m \in Messages(g.type)
    /\ \A f \in DOMAIN Fields[g.type] : FieldKept(f, g.fields[f], m.fields[f])
Legible(g, m) ==
    \A f \in DOMAIN Fields[g.type] :
        FieldLegible(Fields[g.type][f], f, g.fields[f], m.fields[f])
Plain(m) == \A f \in DOMAIN m.fields : Json(m.fields[f]) = m.fields[f]

\* A message of a type has that type's fields.
LEMMA MessageShape ==
    ASSUME NEW type, NEW m \in Messages(type)
    PROVE  /\ m.type = type /\ DOMAIN m.fields = DOMAIN Fields[type]
           /\ \A f \in DOMAIN Fields[type] : m.fields[f] \in Values
  BY DEF Messages

\* JSON keeps what a message carries, and leaves it plain.
LEMMA WireKeeps ==
    ASSUME NEW g, Meant(g), NEW m, Carries(g, m)
    PROVE  /\ Carries(g, OnWire(m)) /\ Plain(OnWire(m)) /\ OnWire(m).status = m.status
           /\ OnWire(m) \in Messages(g.type)
           /\ \A f \in DOMAIN Fields[g.type] : OnWire(m).fields[f] = Json(m.fields[f])
           /\ Legible(g, m) => Legible(g, OnWire(m))
<1> DEFINE D == DOMAIN Fields[g.type]
<1>1. /\ m \in Messages(g.type) /\ DOMAIN m.fields = D
      /\ \A f \in D : m.fields[f] \in Values
  BY MessageShape DEF Carries
<1>2. OnWire(m) = [m EXCEPT !.fields = [f \in D |-> Json(m.fields[f])]]
  BY <1>1 DEF OnWire
<1>3. [f \in D |-> Json(m.fields[f])] \in [D -> Values]
  BY <1>1, JsonKeeps
<1>4. OnWire(m) \in Messages(g.type) /\ OnWire(m).status = m.status
      /\ OnWire(m).fields = [f \in D |-> Json(m.fields[f])]
  BY <1>1, <1>2, <1>3 DEF Messages
<1>5. \A f \in D : OnWire(m).fields[f] = Json(m.fields[f])
  BY <1>4
<1>6. ASSUME NEW f \in D PROVE FieldKept(f, g.fields[f], OnWire(m).fields[f])
  <2>1. FieldKept(f, g.fields[f], m.fields[f])
    BY DEF Carries
  <2>2. g.fields[f] \in Values
    BY MessageShape DEF Meant
  <2>3. Json("undefined") = "undefined"
    BY DEF Json
  <2> QED
    BY <1>5, <2>1, <2>2, <2>3, JsonKeeps DEF FieldKept
<1>7. Plain(OnWire(m))
  BY <1>1, <1>4, <1>5, JsonKeeps DEF Plain
<1>8. Legible(g, m) => Legible(g, OnWire(m))
  <2> SUFFICES ASSUME Legible(g, m), NEW f \in D
               PROVE  FieldLegible(Fields[g.type][f], f, g.fields[f], OnWire(m).fields[f])
    BY DEF Legible
  <2>1. FieldLegible(Fields[g.type][f], f, g.fields[f], m.fields[f])
    BY DEF Legible
  <2>2. Json(OnWire(m).fields[f]) = Json(m.fields[f])
    BY <1>1, <1>5, JsonKeeps
  <2> QED
    BY <2>1, <2>2 DEF FieldLegible
<1> QED
  BY <1>4, <1>5, <1>6, <1>7, <1>8 DEF Carries

\* A message can be parsed from the wire if every stray value is one the engine looks at.
LEMMA LegibleParses ==
    ASSUME NEW g, Meant(g), NEW m, Carries(g, m), Legible(g, m),
           ~ \E f \in DOMAIN Fields[g.type] \cap Unguarded : g.fields[f] \in Stray
    PROVE  Parsed(OnWire(m)) /\ (Plain(m) => Parsed(m))
<1>1. OnWire(m).type = g.type /\ DOMAIN OnWire(m).fields = DOMAIN Fields[g.type]
      /\ m.type = g.type /\ DOMAIN m.fields = DOMAIN Fields[g.type]
      /\ \A f \in DOMAIN Fields[g.type] : OnWire(m).fields[f] = Json(m.fields[f])
  BY WireKeeps, MessageShape DEF Carries
<1>2. \A f \in DOMAIN Fields[g.type] : Parses(Fields[g.type][f], Json(m.fields[f]))
  BY DEF Legible, FieldLegible
<1> QED
  BY <1>1, <1>2 DEF Parsed, Plain

-------------------------------------------------------------------------------
(* The server's messages. *)

\* A value that is meant and parses.
Good(check, v) == v \in Typed(check) /\ v \in Values /\ v \notin Stray /\ Parses(check, v) /\ Json(v) = v

\* What the demos put into a field.
LEMMA GoodValues ==
    ASSUME NEW check \in FieldChecks
    PROVE  /\ Good(check, Usual(check))
           /\ check \in Optional => Good(check, "undefined")
           /\ check = "any" => Good(check, "record")
           /\ check = "optRecord" => Good(check, "record")
           /\ check = "string" => \A v \in Strings : Good(check, v)
<1> USE DEF Good, Typed, Values, Strings, Numbers, Finite, Stray, Json, Usual, Optional, Parses, ParsesValue,
            ParsesRecord, Sizes, Latitudes, Longitudes
<1>1. CASE check \in {"string", "optString", "literal"}
  BY <1>1
<1>2. CASE check \in {"number", "optSize", "latitude", "longitude"}
  BY <1>2
<1>3. CASE check \in {"optNumbers", "optRecord", "any"}
  BY <1>3
<1> QED
  BY <1>1, <1>2, <1>3 DEF FieldChecks

\* A message whose fields are good is meant, arrives, and carries itself.
GoodMessage(m) ==
    /\ m.type \in Types /\ m \in Messages(m.type)
    /\ \A f \in DOMAIN Fields[m.type] : Good(Fields[m.type][f], m.fields[f])

LEMMA GoodArrives ==
    ASSUME NEW m, GoodMessage(m)
    PROVE  Meant(m) /\ Parsed(OnWire(m)) /\ Carries(m, m) /\ Legible(m, m)
<1>1. Meant(m)
  BY DEF GoodMessage, Meant, Good
<1>2. Carries(m, m)
  BY DEF GoodMessage, Carries, FieldKept
<1>3. Legible(m, m)
  BY DEF GoodMessage, Legible, FieldLegible, Good
<1>4. ~ \E f \in DOMAIN Fields[m.type] \cap Unguarded : m.fields[f] \in Stray
  BY DEF GoodMessage, Good
<1> QED
  BY <1>1, <1>2, <1>3, <1>4, LegibleParses

\* The messages the demos build.
LEMMA DemoContentGood ==
    ASSUME NEW type \in Types
    PROVE  /\ DemoContent(type) \in [DOMAIN Fields[type] -> Values]
           /\ \A f \in DOMAIN Fields[type] : Good(Fields[type][f], DemoContent(type)[f])
<1>1. ASSUME NEW f \in DOMAIN Fields[type] PROVE Good(Fields[type][f], DemoContent(type)[f])
  <2> DEFINE c == Fields[type][f]
  <2>1. /\ c \in FieldChecks
        /\ f = "metadata" => c = "optRecord"
        /\ f = "payload" => c = "any"
        /\ f = "size" /\ type # "file" => c = "optSize"
        /\ f = "dimensions" => c = "optNumbers"
    BY FieldShapes
  <2>2. DemoContent(type)[f] \in {"undefined", "record", Usual(c)}
        /\ (DemoContent(type)[f] = "undefined" => c \in Optional \/ Usual(c) = "undefined")
        /\ (DemoContent(type)[f] = "record" => c = "any" \/ Usual(c) = "record")
    BY <2>1 DEF DemoContent, Optional
  <2> HIDE DEF c
  <2>3. Good(c, DemoContent(type)[f])
    BY <2>1, <2>2, GoodValues
  <2> QED
    BY <2>3 DEF c
<1>2. DemoContent(type) = [f \in DOMAIN Fields[type] |-> DemoContent(type)[f]]
  BY DEF DemoContent
<1>3. \A f \in DOMAIN Fields[type] : DemoContent(type)[f] \in Values
  BY <1>1 DEF Good
<1> QED
  BY <1>1, <1>2, <1>3

LEMMA ServerMessages ==
    ASSUME NEW m \in DemoMessages \cup DitMessages \cup {StreamedMessage}
    PROVE  GoodMessage(m)
<1>1. CASE m \in DemoMessages
  <2>1. PICK type \in Types \ {"ai"} : m = Built(type, DemoContent(type))
    BY <1>1 DEF DemoMessages
  <2> DEFINE content == DemoContent(type)
             names == {f \in DOMAIN content : Fields[type][f] \in Optional \ {"any"}}
             D == DOMAIN Fields[type]
  <2>2. content \in [D -> Values] /\ \A f \in D : Good(Fields[type][f], content[f])
    BY DemoContentGood
  <2>3. Without(content, names) = [f \in D |-> IF f \in names /\ content[f] \in Falsy THEN "undefined" ELSE content[f]]
    BY <2>2 DEF Without
  <2>4. \A f \in D : Good(Fields[type][f], Without(content, names)[f])
    <3> SUFFICES ASSUME NEW f \in D PROVE Good(Fields[type][f], Without(content, names)[f])
      OBVIOUS
    <3>1. Fields[type][f] \in FieldChecks
      BY FieldShapes
    <3>2. f \in names => Fields[type][f] \in Optional
      OBVIOUS
    <3> HIDE DEF content, names
    <3> QED
      BY <2>2, <2>3, <3>1, <3>2, GoodValues
  <2>5. Without(content, names) \in [D -> Values]
    <3> HIDE DEF content, names
    <3> QED
      BY <2>3, <2>4 DEF Good
  <2>6. m = [type |-> type, status |-> "sent", fields |-> Without(content, names)]
    BY <2>1 DEF Built, Message
  <2> HIDE DEF content, names
  <2> QED
    BY <2>4, <2>5, <2>6 DEF GoodMessage, Messages
<1>2. CASE m \in DitMessages
  <2>1. PICK raw \in DitRecords : DitParses(raw) /\ m = FromDit(raw)
    BY <1>2 DEF DitMessages
  <2>2. PICK type \in {"text", "ai"} :
          m = [type |-> type, status |-> "sent",
               fields |-> [f \in DOMAIN Fields[type] |->
                             CASE f = "content" -> raw.text
                               [] f = "metadata" -> raw.metadata
                               [] OTHER -> "undefined"]]
    BY <2>1 DEF FromDit, Message
  <2>3. raw.text \in Strings /\ raw.metadata \in {"record", "undefined"}
    BY <2>1 DEF DitRecords, DitParses
  <2>4. type \in Types
    BY DEF Types, Fields
  <2>5. ASSUME NEW f \in DOMAIN Fields[type] PROVE Good(Fields[type][f], m.fields[f])
    <3>1. /\ Fields[type][f] \in FieldChecks
          /\ f = "content" => Fields[type][f] = "string"
          /\ f = "metadata" => Fields[type][f] = "optRecord"
          /\ f = "aiMetadata" => Fields[type][f] = "optNumbers"
          /\ f \in {"content", "metadata", "aiMetadata"}
      BY <2>4, FieldShapes
    <3>2. /\ f = "content" => m.fields[f] = raw.text
          /\ f = "metadata" => m.fields[f] = raw.metadata
          /\ f = "aiMetadata" => m.fields[f] = "undefined"
      BY <2>2
    <3> QED
      BY <2>3, <3>1, <3>2, GoodValues DEF Optional
  <2>6. m.type = type /\ m.status = "sent" /\ m.fields \in [DOMAIN Fields[type] -> Values]
    BY <2>2, <2>5 DEF Good
  <2> QED
    BY <2>2, <2>4, <2>5, <2>6 DEF GoodMessage, Messages
<1>3. CASE m = StreamedMessage
  <2>1. m = [type |-> "ai", status |-> "sent", fields |-> DemoContent("ai")]
    BY <1>3 DEF StreamedMessage, Message
  <2>2. "ai" \in Types
    BY DEF Types, Fields
  <2> QED
    BY <2>1, <2>2, DemoContentGood DEF GoodMessage, Messages
<1> QED
  BY <1>1, <1>2, <1>3

-------------------------------------------------------------------------------
(* The invariant. *)

Stages == {"free", "saved", "taken", "refused", "sent", "late", "edited", "received"}

\* Where the text of a message is that left the page.
Reached ==
    \/ server = ServerText(Text(given)) /\ server # "empty"
    \/ setup.transport # "polling" /\ ~RouteTakes(Text(given))

\* What is held and announced carries what was meant; IndexedDB holds it plain.
HeldInv ==
    /\ Meant(given) /\ Carries(given, held) /\ Legible(given, held)
    /\ announced # NoMessage => Carries(given, announced)
    /\ setup.storage = "indexeddb" => Plain(held)
    /\ stage = "late" => HasStray
    /\ stage \in {"taken", "sent"} => Reached

WireInv ==
    /\ stage \in Stages
    /\ stage = "free" => given = NoMessage /\ held = NoMessage /\ announced = NoMessage
    /\ stage # "free" => HeldInv

\* A message is not the absence of one.
LEMMA MessagesAreMessages ==
    ASSUME NEW type \in Types, NEW m \in Messages(type)
    PROVE  m # NoMessage
  BY WireAssumption

\* The engine's check, field by field.
LEMMA ValidFields ==
    ASSUME NEW m, m.type \in Types, Valid(m), NEW f
    PROVE  /\ m.type \in {"audio", "video"} /\ f \in {"durationSeconds", "size"} => m.fields[f] \in Sizes
           /\ m.type = "location" /\ f = "latitude" => m.fields[f] \in Latitudes
           /\ m.type = "location" /\ f = "longitude" => m.fields[f] \in Longitudes
  BY DEF Valid

\* What the invariant says is what WireAgrees says.
LEMMA WireInvImplies ==
    ASSUME WireInv
    PROVE  WireAgrees
<1>1. StaysReadable
  <2> SUFFICES ASSUME held # NoMessage, ~Reads(held) \/ stage = "late"
               PROVE  HasStray
    BY DEF StaysReadable, WireInv, Stages
  <2>1. HeldInv
    BY DEF WireInv
  <2>2. DOMAIN given.fields = DOMAIN Fields[given.type]
    BY <2>1, MessageShape DEF HeldInv, Meant
  <2>3. CASE ~Reads(held)
    BY <2>1, <2>2, <2>3, LegibleParses DEF HeldInv, Reads, HasStray
  <2> QED
    BY <2>1, <2>3 DEF HeldInv
<1>2. FieldsSurvive
  <2> SUFFICES ASSUME stage \in {"sent", "edited", "received"},
                      NEW m \in {held, announced} \ {NoMessage}, NEW f \in DOMAIN given.fields
               PROVE  \/ m.fields[f] = given.fields[f] \/ given.fields[f] \in Stray
                      \/ f = "alt" /\ given.fields[f] = "empty" /\ m.fields[f] = "undefined"
    BY DEF FieldsSurvive
  <2>1. HeldInv
    BY DEF WireInv
  <2>2. DOMAIN given.fields = DOMAIN Fields[given.type]
    BY <2>1, MessageShape DEF HeldInv, Meant
  <2> QED
    BY <2>1, <2>2 DEF HeldInv, Carries, FieldKept
<1>3. SentReachedServer
  BY DEF SentReachedServer, WireInv, HeldInv, Reached
<1> QED
  BY <1>1, <1>2, <1>3 DEF WireAgrees

\* A carried message has the same text.
LEMMA TextCarries ==
    ASSUME NEW g, Meant(g), NEW m, Carries(g, m)
    PROVE  Text(m) = Text(g) /\ m.type = g.type
<1>1. m.type = g.type
  BY MessageShape DEF Carries
<1>2. CASE g.type \in {"text", "ai", "system"}
  <2>1. "content" \in DOMAIN Fields[g.type]
    BY <1>2 DEF Fields
  <2>2. Fields[g.type]["content"] = "string"
    BY <2>1, FieldShapes DEF Meant
  <2>3. g.fields["content"] \in Strings
    BY <2>1, <2>2 DEF Meant, Typed
  <2>4. m.fields["content"] = g.fields["content"]
    BY <2>1, <2>3 DEF Carries, FieldKept, Strings, Stray
  <2> QED
    BY <1>1, <2>4 DEF Text
<1>3. CASE g.type \notin {"text", "ai", "system"}
  BY <1>1, <1>3 DEF Text
<1> QED
  BY <1>1, <1>2, <1>3

\* The message as it is created carries what the caller meant.
LEMMA CreatedCarries ==
    ASSUME NEW g, Meant(g)
    PROVE  /\ Carries(g, Created(g.type, g.fields))
           /\ Carries(g, [Created(g.type, g.fields) EXCEPT !.status = "sent"])
           /\ \A f \in DOMAIN Fields[g.type] : f # "alt" => Created(g.type, g.fields).fields[f] = g.fields[f]
           /\ \A f \in DOMAIN Fields[g.type] : Created(g.type, g.fields).fields[f] \in Typed(Fields[g.type][f])
<1> DEFINE D == DOMAIN Fields[g.type]
           w == [f \in D |-> IF f \in (IF g.type = "image" THEN {"alt"} ELSE {}) /\ g.fields[f] \in Falsy
                             THEN "undefined" ELSE g.fields[f]]
<1>1. g.type \in Types /\ DOMAIN g.fields = D /\ \A f \in D : g.fields[f] \in Values
  BY MessageShape DEF Meant
<1>2. Created(g.type, g.fields) = [type |-> g.type, status |-> "pending", fields |-> w]
  BY <1>1 DEF Created, Without, Message
<1>3. ASSUME NEW f \in D
      PROVE  /\ w[f] \in Values /\ FieldKept(f, g.fields[f], w[f]) /\ (f # "alt" => w[f] = g.fields[f])
             /\ w[f] \in Typed(Fields[g.type][f])
  <2>1. g.fields[f] \in Typed(Fields[g.type][f])
    BY DEF Meant
  <2>2. CASE w[f] = g.fields[f]
    BY <1>1, <2>1, <2>2 DEF FieldKept
  <2>3. CASE f = "alt" /\ g.fields[f] \in Falsy /\ w[f] = "undefined"
    <3>1. Fields[g.type][f] = "optString"
      BY <1>1, <2>3, FieldShapes
    <3> HIDE DEF w
    <3> QED
      BY <2>1, <2>3, <3>1 DEF Typed, Strings, Falsy, FieldKept, Values
  <2> QED
    BY <2>2, <2>3
<1>4. w \in [D -> Values]
  BY <1>3
<1> HIDE DEF w
<1>5. Created(g.type, g.fields) \in Messages(g.type)
      /\ [Created(g.type, g.fields) EXCEPT !.status = "sent"] \in Messages(g.type)
      /\ Created(g.type, g.fields).fields = w
      /\ [Created(g.type, g.fields) EXCEPT !.status = "sent"].fields = w
  BY <1>2, <1>4 DEF Messages
<1> QED
  BY <1>3, <1>5 DEF Carries

\* What a storage keeps of a message that carries what was meant.
LEMMA SavedCarries ==
    ASSUME NEW g, Meant(g), NEW m, Carries(g, m), Legible(g, m)
    PROVE  /\ Carries(g, Saved(m)) /\ Legible(g, Saved(m))
           /\ setup.storage = "indexeddb" => Plain(Saved(m))
  BY WireKeeps DEF Saved

\* A caller's content is of the fields' types.
LEMMA ContentsAreMeant ==
    ASSUME NEW type \in Types, NEW content \in Contents(type)
    PROVE  Meant(Message(type, content))
<1> DEFINE D == DOMAIN Fields[type]
           usual == [f \in D |-> Usual(Fields[type][f])]
<1>1. PICK f \in D : \E v \in Typed(Fields[type][f]) : content = [usual EXCEPT ![f] = v]
  BY DEF Contents
<1>2. PICK v \in Typed(Fields[type][f]) : content = [usual EXCEPT ![f] = v]
  BY <1>1
<1>3. \A x \in D : Usual(Fields[type][x]) \in Typed(Fields[type][x])
  BY FieldShapes, GoodValues DEF Good
<1>4. \A x \in D : content[x] \in Typed(Fields[type][x])
  BY <1>2, <1>3
<1>5. \A x \in D : Typed(Fields[type][x]) \subseteq Values
  <2> SUFFICES ASSUME NEW x \in D PROVE Typed(Fields[type][x]) \subseteq Values
    OBVIOUS
  <2> DEFINE c == Fields[type][x]
  <2>1. c \in FieldChecks
    BY FieldShapes
  <2> HIDE DEF c
  <2>2. Typed(c) \subseteq Values
    BY <2>1 DEF FieldChecks, Typed, Values, Strings, Numbers, Finite
  <2> QED
    BY <2>2 DEF c
<1>6. content \in [D -> Values]
  <2>1. content = [x \in D |-> content[x]]
    BY <1>2
  <2> QED
    BY <1>4, <1>5, <2>1
<1> QED
  BY <1>4, <1>6 DEF Meant, Message, Messages

-------------------------------------------------------------------------------
(* The steps. *)

\* A caller's message is saved.
LEMMA ComposeInv ==
    ASSUME WireInv, Compose
    PROVE  WireInv'
<1>0. PICK type \in Types : \E content \in Contents(type) :
        /\ Valid(Created(type, content)) /\ given' = Message(type, content)
        /\ held' = Saved(Created(type, content))
  BY DEF Compose
<1>1. PICK content \in Contents(type) :
        /\ Valid(Created(type, content)) /\ given' = Message(type, content)
        /\ held' = Saved(Created(type, content))
  BY <1>0
<1> DEFINE g == Message(type, content)
           m == Created(type, content)
<1>2. Meant(g) /\ g.type = type /\ g.fields = content
  BY ContentsAreMeant DEF Message
<1>3. /\ Carries(g, m)
      /\ \A f \in DOMAIN Fields[type] : f # "alt" => m.fields[f] = g.fields[f]
      /\ \A f \in DOMAIN Fields[type] : m.fields[f] \in Typed(Fields[type][f])
  <2>1. m = Created(g.type, g.fields)
    BY <1>2
  <2> HIDE DEF g
  <2> QED
    BY <1>2, <2>1, CreatedCarries
<1>4. Legible(g, m)
  <2> SUFFICES ASSUME NEW f \in DOMAIN Fields[type]
               PROVE  FieldLegible(Fields[type][f], f, g.fields[f], m.fields[f])
    BY <1>2 DEF Legible
  <2>1. m.type = type
    BY DEF Created, Message
  <2> HIDE DEF g, m
  <2>2. Valid(m)
    BY <1>1 DEF m
  <2>3. \/ f \in Unguarded /\ m.fields[f] \in Stray
        \/ Parses(Fields[type][f], Json(m.fields[f]))
    BY <1>3, <2>1, <2>2, ValidFields, ValuesParse
  <2>4. f \in Unguarded => f # "alt"
    BY DEF Unguarded
  <2> QED
    BY <1>3, <2>3, <2>4 DEF FieldLegible
<1> HIDE DEF g, m
<1>5. /\ given' = g /\ held' = Saved(m) /\ announced' = NoMessage /\ stage' = "saved" /\ UNCHANGED setup
  BY <1>1 DEF Compose, WireInv, g, m
<1>6. Carries(g, held') /\ Legible(g, held') /\ (setup.storage = "indexeddb" => Plain(held'))
  BY <1>2, <1>3, <1>4, <1>5, SavedCarries
<1>7. HeldInv'
  BY <1>2, <1>5, <1>6 DEF HeldInv
<1> QED
  BY <1>5, <1>7 DEF WireInv, Stages

\* A message leaves the page.
LEMMA LeaveInv ==
    ASSUME WireInv, SendByPolling \/ SendByWebSocket \/ SendByDit
    PROVE  WireInv'
<1>1. /\ stage = "saved" /\ stage' \in {"taken", "refused"}
      /\ UNCHANGED <<setup, given, held, announced>>
  BY DEF SendByPolling, SendByWebSocket, SendByDit
<1>2. HeldInv
  BY <1>1 DEF WireInv
<1>3. Text(held) = Text(given) /\ held.type = given.type
  BY <1>2, TextCarries DEF HeldInv
<1>4. stage' = "taken" => Reached'
  <2> SUFFICES ASSUME stage' = "taken"
               PROVE  \/ server' = ServerText(Text(given)) /\ server' # "empty"
                      \/ setup.transport # "polling" /\ ~RouteTakes(Text(given))
    BY <1>1 DEF Reached, ServerText
  <2>1. CASE SendByPolling
    BY <1>3, <2>1 DEF SendByPolling, RouteTakes, ServerText
  <2>2. CASE SendByWebSocket
    <3>1. BridgeTakes(held) <=> RouteTakes(Text(held))
      BY DEF BridgeTakes, Text, RouteTakes, Trimmed
    <3>2. RouteTakes(Text(held)) <=> Trimmed(Text(held)) # "empty"
      BY DEF RouteTakes
    <3> QED
      BY <1>3, <2>2, <3>1, <3>2 DEF SendByWebSocket, ServerText
  <2>3. CASE SendByDit
    BY <1>3, <2>3 DEF SendByDit, RouteTakes, Trimmed, ServerText
  <2> QED
    BY <2>1, <2>2, <2>3
<1>5. HeldInv'
  BY <1>1, <1>2, <1>4 DEF HeldInv
<1> QED
  BY <1>1, <1>5 DEF WireInv, Stages

\* The message is marked as sent, or that write fails since a stray value nobody looks at was
\* given.
LEMMA MarkInv ==
    ASSUME WireInv, MarkSent
    PROVE  WireInv'
<1>1. stage = "taken" /\ UNCHANGED <<setup, given, server>>
  BY DEF MarkSent
<1>2. HeldInv
  BY <1>1 DEF WireInv
<1>3. Meant(given) /\ Carries(given, held) /\ Legible(given, held) /\ Reached
  BY <1>1, <1>2 DEF HeldInv
<1>4. CASE /\ StorageUpdates([held EXCEPT !.status = "sent"])
           /\ announced' = [Created(given.type, given.fields) EXCEPT !.status = "sent"] /\ stage' = "sent"
  <2> DEFINE m == [held EXCEPT !.status = "sent"]
  <2>1. m \in Messages(given.type) /\ m.fields = held.fields
    BY <1>3 DEF Carries, Messages
  <2>2. Carries(given, m) /\ Legible(given, m)
    BY <1>3, <2>1 DEF Carries, Legible
  <2>3. Carries(given, announced')
    BY <1>3, <1>4, CreatedCarries
  <2>4. (held' = m /\ setup.storage = "none") \/ held' = OnWire(m)
    BY <1>4 DEF StorageUpdates
  <2> HIDE DEF m
  <2>5. Carries(given, held') /\ Legible(given, held') /\ (setup.storage = "indexeddb" => Plain(held'))
    BY <1>3, <2>2, <2>4, WireKeeps
  <2>6. Reached'
    BY <1>1, <1>3 DEF Reached, ServerText
  <2>7. HeldInv'
    BY <1>1, <1>3, <1>4, <2>3, <2>5, <2>6 DEF HeldInv
  <2> QED
    BY <1>4, <2>7 DEF WireInv, Stages
<1>5. CASE ~CanUpdate(held) /\ stage' = "late" /\ UNCHANGED <<held, announced>>
  <2>1. HasStray
    <3>1. DOMAIN given.fields = DOMAIN Fields[given.type]
      BY <1>3, MessageShape DEF Meant
    <3>2. ~Parsed(OnWire(held)) \/ (setup.storage = "indexeddb" /\ ~Parsed(held))
      BY <1>5 DEF CanUpdate, Reads
    <3> QED
      BY <1>2, <1>3, <3>1, <3>2, LegibleParses DEF HasStray, HeldInv
  <2>2. HasStray'
    BY <1>1, <2>1 DEF HasStray
  <2>3. HeldInv'
    BY <1>1, <1>2, <1>5, <2>2 DEF HeldInv
  <2> QED
    BY <1>5, <2>3 DEF WireInv, Stages
<1> QED
  BY <1>4, <1>5 DEF MarkSent

\* An edit of one field replaces what was meant and what is held of it.
LEMMA EditInv ==
    ASSUME WireInv, EditField
    PROVE  WireInv'
<1>0. PICK f0 \in DOMAIN given.fields : \E v \in Typed(Fields[given.type][f0]) \cup {"undefined"} :
        LET patch == [x \in {f0} |-> v]
        IN  /\ Valid(Updated(held, patch))
            /\ StorageUpdates(Updated(held, patch))
            /\ announced' = Updated(held, patch)
            /\ given' = IF v = "undefined" /\ Fields[given.type][f0] \notin Optional THEN given
                        ELSE [given EXCEPT !.fields[f0] = v]
  BY DEF EditField
<1>1. PICK v \in Typed(Fields[given.type][f0]) \cup {"undefined"} :
        LET patch == [x \in {f0} |-> v]
        IN  /\ Valid(Updated(held, patch))
            /\ StorageUpdates(Updated(held, patch))
            /\ announced' = Updated(held, patch)
            /\ given' = IF v = "undefined" /\ Fields[given.type][f0] \notin Optional THEN given
                        ELSE [given EXCEPT !.fields[f0] = v]
  BY <1>0
<1> DEFINE t == given.type
           D == DOMAIN Fields[t]
           applied == Fields[t][f0] \in Optional \/ v # "undefined"
           u == Updated(held, [x \in {f0} |-> v])
           g == IF applied THEN [given EXCEPT !.fields[f0] = v] ELSE given
<1>2. HeldInv /\ stage' = "edited" /\ UNCHANGED setup
  BY DEF EditField, WireInv
<1>3. Meant(given) /\ Carries(given, held) /\ Legible(given, held)
  BY <1>2 DEF HeldInv
<1>4. /\ t \in Types /\ DOMAIN given.fields = D /\ given \in Messages(t)
      /\ \A f \in D : given.fields[f] \in Typed(Fields[t][f])
  BY <1>3, MessageShape DEF Meant
<1>5. /\ held \in Messages(t) /\ held.type = t /\ DOMAIN held.fields = D
      /\ \A f \in D : held.fields[f] \in Values
      /\ \A f \in D : FieldKept(f, given.fields[f], held.fields[f])
      /\ \A f \in D : FieldLegible(Fields[t][f], f, given.fields[f], held.fields[f])
  BY <1>3, MessageShape DEF Carries, Legible
<1>6. /\ f0 \in D
      /\ applied => v \in Typed(Fields[t][f0]) /\ v \in Values
  <2>1. f0 \in D
    BY <1>4
  <2>2. Fields[t][f0] \in FieldChecks
    BY <1>4, <2>1, FieldShapes
  <2>3. ASSUME NEW c \in FieldChecks, NEW w \in Typed(c) \cup {"undefined"}, c \in Optional \/ w # "undefined"
        PROVE  w \in Typed(c) /\ w \in Values
    BY <2>3 DEF FieldChecks, Optional, Typed, Values, Strings, Numbers, Finite
  <2> QED
    BY <2>1, <2>2, <2>3
<1>7. u = [held EXCEPT !.fields = [f \in D |-> IF f = f0 /\ applied THEN v ELSE held.fields[f]]]
  <2>1. \A f \in D : (IF f \in {f0} /\ (Fields[t][f] \in Optional \/ [x \in {f0} |-> v][f] # "undefined")
                      THEN [x \in {f0} |-> v][f] ELSE held.fields[f])
                     = IF f = f0 /\ applied THEN v ELSE held.fields[f]
    OBVIOUS
  <2> QED
    BY <1>5, <2>1 DEF Updated
<1>8. /\ u \in Messages(t) /\ u.type = t
      /\ \A f \in D : u.fields[f] = IF f = f0 /\ applied THEN v ELSE held.fields[f]
  <2> DEFINE w == [f \in D |-> IF f = f0 /\ applied THEN v ELSE held.fields[f]]
  <2>1. w \in [D -> Values]
    BY <1>5, <1>6
  <2>2. u = [held EXCEPT !.fields = w]
    BY <1>7
  <2>3. \A f \in D : w[f] = IF f = f0 /\ applied THEN v ELSE held.fields[f]
    OBVIOUS
  <2> HIDE DEF w, u
  <2>4. u \in Messages(t) /\ u.type = t /\ u.fields = w
    BY <1>5, <2>1, <2>2 DEF Messages
  <2> QED
    BY <2>3, <2>4
<1>9. /\ g.type = t /\ g \in Messages(t)
      /\ \A f \in D : g.fields[f] = IF f = f0 /\ applied THEN v ELSE given.fields[f]
  <2>1. CASE applied
    <3>1. g = [given EXCEPT !.fields[f0] = v]
      BY <2>1
    <3> HIDE DEF applied, g
    <3> QED
      BY <1>4, <1>6, <2>1, <3>1 DEF Messages
  <2>2. CASE ~applied
    BY <1>4, <2>2
  <2> QED
    BY <2>1, <2>2
<1>10. Valid(u) /\ StorageUpdates(u) /\ announced' = u /\ given' = g
  BY <1>1
<1> HIDE DEF u, g, applied, t
<1>11. Meant(g)
  BY <1>4, <1>6, <1>9 DEF Meant
<1>12. Carries(g, u)
  BY <1>5, <1>8, <1>9 DEF Carries, FieldKept
<1>13. Legible(g, u)
  <2> SUFFICES ASSUME NEW f \in D PROVE FieldLegible(Fields[t][f], f, g.fields[f], u.fields[f])
    BY <1>9 DEF Legible
  <2>1. CASE f = f0 /\ applied
    <3>1. u.fields[f] = v /\ g.fields[f] = v /\ v \in Typed(Fields[t][f])
      BY <1>6, <1>8, <1>9, <2>1
    <3>2. /\ t \in {"audio", "video"} /\ f \in {"durationSeconds", "size"} => v \in Sizes
          /\ t = "location" /\ f = "latitude" => v \in Latitudes
          /\ t = "location" /\ f = "longitude" => v \in Longitudes
      BY <1>4, <1>8, <1>10, <3>1, ValidFields
    <3> QED
      BY <1>4, <3>1, <3>2, ValuesParse DEF FieldLegible
  <2>2. CASE ~(f = f0 /\ applied)
    BY <1>5, <1>8, <1>9, <2>2
  <2> QED
    BY <2>1, <2>2
<1>14. (held' = u /\ setup.storage = "none") \/ held' = OnWire(u)
  BY <1>10 DEF StorageUpdates
<1>15. Carries(g, held') /\ Legible(g, held') /\ (setup.storage = "indexeddb" => Plain(held'))
  BY <1>11, <1>12, <1>13, <1>14, WireKeeps
<1>16. HeldInv'
  BY <1>2, <1>10, <1>11, <1>12, <1>15 DEF HeldInv
<1> QED
  BY <1>2, <1>16 DEF WireInv, Stages

\* A message of the server's is taken as it was meant.
LEMMA BringInv ==
    ASSUME WireInv, DitBrings \/ PollBrings \/ FrameBrings \/ PageBrings \/ StreamBrings
    PROVE  WireInv'
<1>1. stage = "free" /\ announced = NoMessage /\ UNCHANGED setup
  BY DEF WireInv, DitBrings, PollBrings, FrameBrings, PageBrings, StreamBrings
<1>2. ASSUME NEW m, GoodMessage(m), given' = m, held' = Saved(m) \/ held' = Saved(OnWire(m)),
             announced' \in {NoMessage, m, OnWire(m)}, stage' = "received"
      PROVE  WireInv'
  <2>1. Meant(m) /\ Carries(m, m) /\ Legible(m, m)
    BY <1>2, GoodArrives
  <2>2. Carries(m, OnWire(m)) /\ Legible(m, OnWire(m))
    BY <2>1, WireKeeps
  <2>3. Carries(m, held') /\ Legible(m, held') /\ (setup.storage = "indexeddb" => Plain(held'))
    BY <1>2, <2>1, <2>2, SavedCarries
  <2>4. announced' # NoMessage => Carries(m, announced')
    BY <1>2, <2>1, <2>2
  <2>5. HeldInv'
    BY <1>1, <1>2, <2>1, <2>3, <2>4 DEF HeldInv
  <2> QED
    BY <1>2, <2>5 DEF WireInv, Stages
<1>3. ASSUME NEW m \in DemoMessages \cup DitMessages \cup {StreamedMessage},
             NEW neighbour \in DemoMessages \cup DitMessages \cup {StreamedMessage},
             Arrives(m, neighbour),
             announced' = (IF stage' = "stuck" THEN announced ELSE OnWire(m)) \/ announced' = announced
      PROVE  WireInv'
  <2>1. GoodMessage(m) /\ GoodMessage(neighbour)
    BY ServerMessages
  <2>2. Parsed(OnWire(m)) /\ Parsed(OnWire(neighbour))
    BY <2>1, GoodArrives
  <2>3. stage' = "received" /\ given' = m /\ held' = Saved(OnWire(m))
    BY <1>3, <2>2 DEF Arrives
  <2> QED
    BY <1>1, <1>2, <1>3, <2>1, <2>3
<1>4. CASE DitBrings
  <2>1. PICK raw \in DitRecords : /\ DitParses(raw) /\ given' = FromDit(raw) /\ held' = Saved(FromDit(raw))
                                  /\ announced' = FromDit(raw) /\ stage' = "received"
    BY <1>4 DEF DitBrings
  <2>2. FromDit(raw) \in DitMessages
    BY <2>1 DEF DitMessages
  <2> QED
    BY <1>2, <2>1, <2>2, ServerMessages
<1>5. CASE PollBrings
  BY <1>3, <1>5 DEF PollBrings
<1>6. CASE FrameBrings
  BY <1>3, <1>6 DEF FrameBrings
<1>7. CASE PageBrings
  BY <1>3, <1>7 DEF PageBrings
<1>8. CASE StreamBrings
  BY <1>3, <1>8 DEF StreamBrings
<1> QED
  BY <1>4, <1>5, <1>6, <1>7, <1>8

\* Every step keeps the invariant.
LEMMA WireStepInv ==
    ASSUME WireInv, [WireNext]_wireVars
    PROVE  WireInv'
<1>1. CASE UNCHANGED wireVars
  <2>1. HeldInv' <=> HeldInv
    BY <1>1 DEF wireVars, HeldInv, HasStray, Reached, ServerText
  <2> QED
    BY <1>1, <2>1 DEF wireVars, WireInv
<1> QED
  BY <1>1, ComposeInv, LeaveInv, MarkInv, EditInv, BringInv DEF WireNext

\* For any number of edits: whatever the engine took can be read again, a settled message has
\* every field as it was meant, and one that says it was sent is on the server, but for the
\* values and the transports the parts of WireAgrees name.
THEOREM HopsAgree == WireSpec => []WireAgrees
<1>1. WireInit => WireInv
  BY DEF WireInit, WireInv, Stages
<1> QED
  BY <1>1, WireStepInv, WireInvImplies, PTL DEF WireSpec
===============================================================================
