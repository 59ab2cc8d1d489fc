--------------------------- MODULE PollingTransport ---------------------------
(***************************************************************************)
(* PollingTransport (packages/chat-transport-polling/src/                  *)
(* polling-transport.ts): an ITransport made of a self-rescheduling poll.  *)
(*                                                                         *)
(* A step is the code between two awaits, cut further where subscribers    *)
(* are called: `job` is the synchronous code that is then on the stack,    *)
(* and nothing but a call made by a subscriber may run before it goes on.  *)
(***************************************************************************)
EXTENDS Integers, FiniteSets

CONSTANTS
    PollImmediately,  \* config.pollImmediately ?? true
    PollAfterSend,    \* config.pollAfterSend
    Senders,          \* slots for send() calls in progress
    Reentrant,        \* the kinds of synchronous code whose subscribers may call disconnect()
    BatchMax,         \* events in one poll answer at most
    MaxGeneration, MaxDelivered, MaxErrors,   \* bounds of the exploration
    None

ASSUME PollingAssumption ==
    /\ {PollImmediately, PollAfterSend} \subseteq BOOLEAN
    /\ Reentrant \subseteq {"connecting", "connected", "batch"}
    /\ {BatchMax, MaxGeneration, MaxDelivered} \subseteq Nat
    /\ MaxErrors \in Nat \ {0}
    /\ None \notin Nat

VARIABLES
    state, generation,      \* state, connectionGeneration
    pollTimer,              \* the generation the armed timer will poll for, or None
    isPolling,              \* isPolling; activePollPromise is set and cleared together with it
    pendingImmediatePoll,
    consecutiveErrors,      \* up to MaxErrors, where the delay no longer grows
    polls,                  \* polls[g]: calls of config.poll() of generation g without an answer
    sending,                \* senders whose config.send() has no answer
    job,                    \* the synchronous code on the stack
    delivered,              \* events handed to the onMessage subscribers
    followUp                \* history: a send() succeeded and no poll has started since

timers == <<pollTimer, isPolling, pendingImmediatePoll, polls>>
vars   == <<state, generation, timers, consecutiveErrors, sending, job, delivered, followUp>>

Generations == 1..MaxGeneration
NoJob       == [kind |-> "none", gen |-> 0, left |-> 0]
Job(k, g, n) == [kind |-> k, gen |-> g, left |-> n]

CanPoll       == state \in {"connected", "reconnecting"}
IsCurrent(g)  == g = generation

\* Mutant: disconnect() does not wait for the poll in flight.
Closing_WaitsForNothing == state = "disconnecting"

\* A disconnect() with no poll to wait for runs to its end before anything else does.
Closing == state = "disconnecting" /\ ~isPolling

Init ==
    /\ state = "disconnected" /\ generation = 0
    /\ pollTimer = None /\ isPolling = FALSE
    /\ pendingImmediatePoll = FALSE /\ consecutiveErrors = 0
    /\ polls = [g \in Generations |-> 0]
    /\ sending = {} /\ job = NoJob /\ delivered = 0 /\ followUp = FALSE

\* No transport code is on the stack: a callback of the event loop or a call may run.
Quiet == job = NoJob /\ ~Closing

\* safePollOnce(g), up to its await.
SafePollOnce(g) ==
    IF IsCurrent(g) /\ CanPoll /\ ~isPolling
    THEN /\ isPolling' = TRUE
         /\ polls' = [polls EXCEPT ![g] = @ + 1]
         /\ followUp' = FALSE
    ELSE UNCHANGED <<isPolling, polls, followUp>>

\* The end of safePollOnce(g): the flag and the promise are cleared.
PollIsOver(g) == isPolling' = FALSE /\ polls' = [polls EXCEPT ![g] = @ - 1]

\* Mutant: the timer is not armed again after a failure.
ScheduleNextPoll_StopsOnError(g) ==
    pollTimer' = IF IsCurrent(g) /\ state = "connected" THEN g ELSE pollTimer

\* scheduleNextPoll(g): an armed timer is replaced.
ScheduleNextPoll(g) == pollTimer' = IF IsCurrent(g) /\ CanPoll THEN g ELSE pollTimer

-------------------------------------------------------------------------------
(* connect and disconnect *)

Connect ==
    /\ Quiet
    /\ state = "disconnected" /\ generation < MaxGeneration
    /\ generation' = generation + 1
    /\ consecutiveErrors' = 0 /\ pendingImmediatePoll' = FALSE
    /\ state' = "connecting"
    /\ job' = Job("connecting", generation', 0)
    /\ UNCHANGED <<pollTimer, isPolling, polls, sending, delivered, followUp>>

\* The subscribers of 'connecting' have returned; those of 'connected' are called.
Connected ==
    /\ job.kind = "connecting" /\ ~Closing
    /\ state' = "connected"
    /\ job' = Job("connected", job.gen, 0)
    /\ UNCHANGED <<generation, timers, consecutiveErrors, sending, delivered, followUp>>

\* connect() starts the loop, with a poll or with a timer.
StartLoop ==
    /\ job.kind = "connected" /\ ~Closing
    /\ job' = NoJob
    /\ IF PollImmediately
       THEN SafePollOnce(job.gen) /\ UNCHANGED pollTimer
       ELSE /\ ScheduleNextPoll(job.gen)
            /\ UNCHANGED <<isPolling, polls, followUp>>
    /\ UNCHANGED <<state, generation, pendingImmediatePoll, consecutiveErrors, sending, delivered>>

\* Mutant: disconnect() resets the polling flags although a poll is in flight.
Disconnect_ResetsFlags ==
    /\ ~Closing /\ (Quiet \/ job.kind \in Reentrant)
    /\ state \notin {"disconnected", "disconnecting"} /\ generation < MaxGeneration
    /\ generation' = generation + 1
    /\ state' = "disconnecting"
    /\ pollTimer' = None /\ pendingImmediatePoll' = FALSE /\ followUp' = FALSE
    /\ isPolling' = FALSE
    /\ UNCHANGED <<polls, consecutiveErrors, sending, job, delivered>>

\* Called from outside, or by a subscriber of the notification under way.
Disconnect ==
    /\ ~Closing /\ (Quiet \/ job.kind \in Reentrant)
    /\ state \notin {"disconnected", "disconnecting"} /\ generation < MaxGeneration
    /\ generation' = generation + 1
    /\ state' = "disconnecting"
    /\ pollTimer' = None /\ pendingImmediatePoll' = FALSE
    /\ followUp' = FALSE
    /\ UNCHANGED <<isPolling, polls, consecutiveErrors, sending, job, delivered>>

\* `await this.activePollPromise` is over, or there was nothing to wait for.
Disconnected ==
    /\ Closing
    /\ consecutiveErrors' = 0
    /\ state' = "disconnected"
    /\ UNCHANGED <<generation, timers, sending, job, delivered, followUp>>

-------------------------------------------------------------------------------
(* The poll loop *)

\* Mutant: a stale answer is taken for a current one.
PollAnswers_NoStaleCheck(g, n) ==
    /\ Quiet /\ polls[g] > 0 /\ delivered + n <= MaxDelivered
    /\ consecutiveErrors' = 0
    /\ state' = "connected"
    /\ job' = Job("batch", g, n)
    /\ UNCHANGED <<generation, timers, sending, delivered, followUp>>

\* config.poll() resolves with n events.  A stale answer is dropped.
PollAnswers(g, n) ==
    /\ Quiet /\ polls[g] > 0 /\ delivered + n <= MaxDelivered
    /\ IF IsCurrent(g) /\ CanPoll
       THEN /\ consecutiveErrors' = 0
            /\ state' = "connected"
            /\ job' = Job("batch", g, n)
       ELSE /\ job' = Job("batch", g, 0)
            /\ UNCHANGED <<state, consecutiveErrors>>
    /\ UNCHANGED <<generation, timers, sending, delivered, followUp>>

\* Mutant: the subscribers are awaited, and one of them awaits the disconnect() it called.
EmitMessage_AwaitsSubscribers ==
    /\ job.kind = "batch" /\ job.left > 0 /\ ~Closing
    /\ IsCurrent(job.gen)
    /\ delivered' = delivered + 1
    /\ job' = [job EXCEPT !.left = @ - 1]
    /\ UNCHANGED <<state, generation, timers, consecutiveErrors, sending, followUp>>

\* One event of the answer goes to the subscribers, which nobody awaits: the rest of the answer
\* follows although one of them has called disconnect().
EmitMessage ==
    /\ job.kind = "batch" /\ job.left > 0 /\ ~Closing
    /\ delivered' = delivered + 1
    /\ job' = [job EXCEPT !.left = @ - 1]
    /\ UNCHANGED <<state, generation, timers, consecutiveErrors, sending, followUp>>

\* config.poll() rejects.
PollFails(g) ==
    /\ Quiet /\ polls[g] > 0
    /\ IF IsCurrent(g) /\ CanPoll
       THEN /\ consecutiveErrors' = IF consecutiveErrors < MaxErrors THEN consecutiveErrors + 1
                                                                     ELSE MaxErrors
            /\ state' = "reconnecting"
       ELSE UNCHANGED <<state, consecutiveErrors>>
    /\ job' = Job("batch", g, 0)
    /\ UNCHANGED <<generation, timers, sending, delivered, followUp>>

\* The finally block: a poll asked for meanwhile takes the place of the one that ends, else the
\* timer is armed.
PollEnds ==
    LET again == pendingImmediatePoll /\ IsCurrent(job.gen) /\ CanPoll IN
    /\ job.kind = "batch" /\ job.left = 0 /\ ~Closing
    /\ job' = NoJob
    /\ \/ /\ again
          /\ pendingImmediatePoll' = FALSE /\ pollTimer' = None /\ followUp' = FALSE
          /\ UNCHANGED <<isPolling, polls>>
       \/ /\ ~again
          /\ PollIsOver(job.gen)
          /\ ScheduleNextPoll(job.gen)
          /\ UNCHANGED <<pendingImmediatePoll, followUp>>
    /\ UNCHANGED <<state, generation, consecutiveErrors, sending, delivered>>

TimerFires ==
    /\ Quiet /\ pollTimer # None
    /\ pollTimer' = None
    /\ SafePollOnce(pollTimer)
    /\ UNCHANGED <<state, generation, pendingImmediatePoll, consecutiveErrors, sending, job, delivered>>

-------------------------------------------------------------------------------
(* send *)

\* A send() in another state throws before it calls config.send().
Send(s) ==
    /\ Quiet
    /\ s \notin sending /\ CanPoll
    /\ sending' = sending \cup {s}
    /\ UNCHANGED <<state, generation, timers, consecutiveErrors, job, delivered, followUp>>

\* Mutant: a poll in flight is taken for the poll that was asked for.
SendDone_PollInFlightWillDo(s) ==
    /\ Quiet /\ s \in sending
    /\ sending' = sending \ {s}
    /\ IF PollAfterSend /\ CanPoll
       THEN IF isPolling
            THEN followUp' = TRUE /\ UNCHANGED timers
            ELSE SafePollOnce(generation) /\ pollTimer' = None /\ UNCHANGED pendingImmediatePoll
       ELSE UNCHANGED <<timers, followUp>>
    /\ UNCHANGED <<state, generation, consecutiveErrors, job, delivered>>

\* config.send() resolves: requestImmediatePoll for the generation of now.
SendDone(s) ==
    /\ Quiet /\ s \in sending
    /\ sending' = sending \ {s}
    /\ IF PollAfterSend /\ CanPoll
       THEN IF isPolling
            THEN /\ pendingImmediatePoll' = TRUE /\ followUp' = TRUE
                 /\ UNCHANGED <<pollTimer, isPolling, polls>>
            ELSE /\ pendingImmediatePoll' = FALSE /\ pollTimer' = None
                 /\ SafePollOnce(generation)
       ELSE UNCHANGED <<timers, followUp>>
    /\ UNCHANGED <<state, generation, consecutiveErrors, job, delivered>>

SendFails(s) ==
    /\ Quiet /\ s \in sending
    /\ sending' = sending \ {s}
    /\ UNCHANGED <<state, generation, timers, consecutiveErrors, job, delivered, followUp>>

Next ==
    \/ Connect \/ Connected \/ StartLoop \/ Disconnect \/ Disconnected
    \/ EmitMessage \/ PollEnds \/ TimerFires
    \/ \E g \in Generations : PollFails(g) \/ \E n \in 0..BatchMax : PollAnswers(g, n)
    \/ \E s \in Senders : Send(s) \/ SendDone(s) \/ SendFails(s)

Spec == Init /\ [][Next]_vars

\* Synchronous code runs to its end, an armed timer fires and config.poll() settles.  Calls of
\* connect, disconnect and send, and the outcome of config.send(), are left to the callers.
Fairness ==
    /\ WF_vars(Connected \/ StartLoop \/ Disconnected \/ EmitMessage \/ PollEnds)
    /\ WF_vars(TimerFires)
    /\ \A g \in Generations : WF_vars(PollFails(g) \/ \E n \in 0..BatchMax : PollAnswers(g, n))

FairSpec == Spec /\ Fairness

-------------------------------------------------------------------------------
(* Properties *)

\* The events of the answer that are not handed out yet.
Coming == IF job.kind = "batch" THEN job.left ELSE 0

Contract == INSTANCE TransportContract WITH coming <- Coming

FlagsOK == isPolling \in BOOLEAN /\ pendingImmediatePoll \in BOOLEAN /\ followUp \in BOOLEAN

Jobs == {NoJob} \cup [kind : {"connecting", "connected", "batch"}, gen : Generations, left : 0..BatchMax]

RangesOK ==
    /\ state \in Contract!States /\ generation \in 0..MaxGeneration
    /\ pollTimer \in Generations \cup {None}
    /\ consecutiveErrors \in 0..MaxErrors
    /\ polls \in [Generations -> Nat]
    /\ sending \subseteq Senders
    /\ job \in Jobs
    /\ delivered \in Nat

\* Type invariant: timers, jobs and polls belong to generations that exist.
TypeOK == FlagsOK /\ RangesOK

\* Whatever the order of connects, disconnects, sends, answers and timers, config.poll() is
\* never called again before the last call has settled, across generations too.
PollsNeverOverlap ==
    \A g, h \in Generations : polls[g] > 0 /\ polls[h] > 0 => g = h /\ polls[g] = 1

\* A connected transport has exactly one source of its next poll, the armed timer or the
\* poll in flight, of the current generation: the loop neither dies nor doubles.  No timer
\* is left armed by a disconnect.
OneLoop ==
    /\ job = NoJob /\ CanPoll => (pollTimer = generation) # (polls[generation] = 1)
    /\ pollTimer # None => CanPoll /\ IsCurrent(pollTimer)

\* A send that succeeds while a poll is in flight is followed by a poll of its own, started
\* when that one ends and not an interval later.
SendIsPolledSoon ==
    followUp => pendingImmediatePoll /\ pollTimer = None /\ polls[generation] = 1

\* What subscribers see of the transport is what the ITransport contract allows, also when one
\* disconnects within a batch.  Its disconnect() awaits the poll that hands the batch out, so
\* that nothing more arrives once the transport reports 'disconnected'.
ImplementsContract == Contract!Spec /\ [](state = "disconnected" => Coming = 0)

\* If config.poll() settles, a connected transport keeps polling, through failures too, and
\* disconnect() settles, also the one that a subscriber calls within a batch and that waits
\* for the very poll that called it.
PollsForever == []<>(isPolling \/ ~CanPoll)
AlwaysProceeds == PollsForever /\ Contract!CloseSettles
===============================================================================
