--------------------------------- MODULE Typing ---------------------------------
(***************************************************************************)
(* Typing indicators: a typist's ChatEngine, the connection to a viewer's, *)
(* and the useTypingState() hook that shows the viewer who is typing in a  *)
(* conversation.  Time is a clock; a timer fires in the tick it is due.    *)
(***************************************************************************)
EXTENDS Integers, Sequences

CONSTANTS
    EmitThrottle, IdleTimeout, RemoteTtl,  \* TypingConfig
    MaxDelay,                              \* of an event on its way, at most
    Never,
    Horizon, MaxWire, MaxTrouble           \* bounds: time, events on their way, troubles

ASSUME TypingAssumption ==
    /\ {EmitThrottle, IdleTimeout, RemoteTtl} \subseteq Nat \ {0}
    /\ {MaxDelay, Horizon, MaxWire, MaxTrouble} \subseteq Nat /\ Never \notin Nat

VARIABLES
    now,
    isTyping,   \* the typist's own entry in its TypingStateStore
    idleAt,     \* when its local idle timer fires
    emittedAt,  \* typingEmitTimestamps
    leaving,    \* is sendMessage() between its stop of the typing and the transport?
    wire,       \* events on their way, and when they left
    entry,      \* the viewer's store: when the typist's entry expires
    keeping,    \* is the viewer's engine storing a message of the typist's?
    hook,       \* the hook: is this its conversation, and its snapshot, if of it
    heard,      \* history: a start of this episode has arrived and nothing undid it
    missed,     \* history: the entry changed and the hook did not hear it
    startedAt,  \* history: when the last start left
    trouble

typistVars == <<isTyping, idleAt, emittedAt, leaving>>
viewerVars == <<entry, keeping, hook, missed>>
typingVars == <<now, typistVars, wire, viewerVars, heard, startedAt, trouble>>

TypingInit ==
    /\ now = 0 /\ wire = <<>> /\ heard = FALSE /\ startedAt = Never /\ trouble = 0
    /\ isTyping = FALSE /\ idleAt = Never /\ emittedAt = Never /\ leaving = FALSE
    /\ entry = Never /\ keeping = FALSE /\ missed = FALSE
    /\ hook = [here |-> TRUE, snapshot |-> FALSE, scoped |-> TRUE]

-------------------------------------------------------------------------------
(* The typist. *)

\* sendTransportTypingEvent() and the message event of sendMessage().
Sent(kind) == Append(wire, [kind |-> kind, at |-> now])

CanSend == Len(wire) < MaxWire

\* Mutant: a start is only sent when the typing starts.
IsThrottled_UntilStopped == emittedAt # Never

IsThrottled == emittedAt # Never /\ now - emittedAt < EmitThrottle

\* A key is pressed.
NotifyTyping ==
    /\ CanSend
    /\ isTyping' = TRUE /\ idleAt' = now + IdleTimeout
    /\ \/ IsThrottled /\ UNCHANGED <<emittedAt, wire, startedAt>>
       \/ ~IsThrottled /\ emittedAt' = now /\ wire' = Sent("start") /\ startedAt' = now
    /\ UNCHANGED <<now, leaving, viewerVars, heard, trouble>>

\* stopTypingByParticipant() and clearLocalTypingRuntime() for the own participant; only
\* an explicit stop is sent.
StopLocal ==
    /\ isTyping' = FALSE /\ idleAt' = Never /\ emittedAt' = Never /\ heard' = FALSE

StopTyping ==
    /\ CanSend /\ isTyping /\ StopLocal /\ wire' = Sent("stop")
    /\ UNCHANGED <<now, leaving, viewerVars, startedAt, trouble>>

IdleTimerFires ==
    /\ CanSend /\ idleAt = now /\ StopLocal
    /\ wire' = IF isTyping THEN Sent("stop") ELSE wire
    /\ UNCHANGED <<now, leaving, viewerVars, startedAt, trouble>>

\* sendMessage() stops the typing with reason 'message', then stores the message.
SendMessage ==
    /\ ~leaving /\ leaving' = TRUE
    /\ StopLocal
    /\ UNCHANGED <<now, wire, viewerVars, startedAt, trouble>>

MessageLeaves ==
    /\ CanSend /\ leaving /\ leaving' = FALSE
    /\ wire' = Sent("message")
    /\ UNCHANGED <<now, isTyping, idleAt, emittedAt, viewerVars, heard, startedAt, trouble>>

\* The typist's disconnect(): clearTypingRuntime().
TypistDisconnects ==
    /\ trouble < MaxTrouble /\ trouble' = trouble + 1
    /\ StopLocal /\ leaving' = FALSE
    /\ UNCHANGED <<now, wire, viewerVars, startedAt>>

-------------------------------------------------------------------------------
(* The viewer. *)

\* The typing:start or typing:stop that follows a change of the entry.
AnnounceTyping(new) ==
    /\ entry' = new
    /\ \/ hook.here /\ missed' = FALSE
          /\ hook' = [hook EXCEPT !.snapshot = (new # Never), !.scoped = TRUE]
       \/ ~hook.here /\ missed' = TRUE /\ UNCHANGED hook

\* stopTypingByParticipant() for a remote one.
StopRemote == IF entry = Never THEN UNCHANGED <<entry, hook, missed>> ELSE AnnounceTyping(Never)

\* upsertRemoteState(): only a new entry is announced.
Upsert ==
    IF entry = Never THEN AnnounceTyping(now + RemoteTtl)
    ELSE entry' = now + RemoteTtl /\ UNCHANGED <<hook, missed>>

\* handleIncomingTransportTyping().
TypingArrives ==
    /\ wire # <<>> /\ Head(wire).kind \in {"start", "stop"}
    /\ wire' = Tail(wire)
    /\ \/ /\ Head(wire).kind = "start" /\ Upsert
          /\ heard' = (isTyping /\ \A i \in 2 .. Len(wire) : wire[i].kind = "start")
       \/ Head(wire).kind = "stop" /\ StopRemote /\ UNCHANGED heard
    /\ UNCHANGED <<now, typistVars, keeping, startedAt, trouble>>

\* handleIncomingTransportMessage() up to the await of the storage.
MessageArrives ==
    /\ wire # <<>> /\ Head(wire).kind = "message" /\ ~keeping
    /\ wire' = Tail(wire) /\ keeping' = TRUE
    /\ UNCHANGED <<now, typistVars, entry, hook, missed, heard, startedAt, trouble>>

\* The message is stored: its sender types no more, whatever has arrived meanwhile.
MessageIsKept ==
    /\ keeping /\ keeping' = FALSE
    /\ StopRemote /\ heard' = FALSE
    /\ UNCHANGED <<now, typistVars, wire, startedAt, trouble>>

\* Mutant: the entry of an expired typist is left in the store.
EntryExpires_Stays ==
    /\ entry = now /\ entry' = now + 1
    /\ UNCHANGED <<now, typistVars, wire, keeping, hook, missed, heard, startedAt, trouble>>

\* The store's own timer.
EntryExpires ==
    /\ entry = now /\ StopRemote
    /\ UNCHANGED <<now, typistVars, wire, keeping, heard, startedAt, trouble>>

\* The viewer's disconnect(): clearTypingRuntime() announces nothing, and what was on
\* its way is lost.
ViewerDisconnects ==
    /\ trouble < MaxTrouble /\ trouble' = trouble + 1
    /\ entry' = Never /\ missed' = (missed \/ entry # Never)
    /\ wire' = <<>> /\ heard' = FALSE
    /\ UNCHANGED <<now, typistVars, keeping, hook, startedAt>>

\* Another conversation is shown, with or without an event of its own to keep, and
\* this one again.
Leave ==
    /\ hook.here /\ trouble < MaxTrouble /\ trouble' = trouble + 1
    /\ \E scoped \in {hook.scoped, FALSE} :
        hook' = [hook EXCEPT !.here = FALSE, !.scoped = scoped]
    /\ UNCHANGED <<now, typistVars, wire, entry, keeping, missed, heard, startedAt>>

ComeBack ==
    /\ ~hook.here /\ hook' = [hook EXCEPT !.here = TRUE]
    /\ UNCHANGED <<now, typistVars, wire, entry, keeping, missed, heard, startedAt, trouble>>

-------------------------------------------------------------------------------
\* An event is lost: send() rejects, or the connection breaks.
Lose ==
    /\ wire # <<>> /\ trouble < MaxTrouble /\ trouble' = trouble + 1
    /\ wire' = Tail(wire) /\ heard' = FALSE
    /\ UNCHANGED <<now, typistVars, viewerVars, startedAt>>

\* Time passes, but no timer and no event may be overdue.
Tick ==
    /\ now < Horizon /\ now' = now + 1
    /\ idleAt # now /\ entry # now
    /\ ~leaving /\ ~keeping /\ \A i \in DOMAIN wire : now < wire[i].at + MaxDelay
    /\ UNCHANGED <<typistVars, wire, viewerVars, heard, startedAt, trouble>>

TypingNext ==
    \/ NotifyTyping \/ StopTyping \/ IdleTimerFires \/ SendMessage \/ MessageLeaves
    \/ TypistDisconnects \/ TypingArrives \/ MessageArrives \/ MessageIsKept
    \/ EntryExpires \/ ViewerDisconnects \/ Leave \/ ComeBack \/ Lose \/ Tick

TypingSpec == TypingInit /\ [][TypingNext]_typingVars

-------------------------------------------------------------------------------
(* Properties. *)

\* What the hook returns: its snapshot if it is of this conversation, else the store.
Shows == IF hook.scoped THEN hook.snapshot ELSE entry # Never

\* Whoever types without a pause of IdleTimeout is shown all the while, though most
\* starts are throttled and each expires: unless an event was lost, a message of theirs
\* was stored or the hook missed a change.
TypistStaysShown == heard /\ hook.here /\ ~missed => Shows

\* Nobody is shown for longer than the last start can explain, whatever was lost,
\* unless the hook missed the change.
NoGhostTypist ==
    hook.here /\ ~missed /\ Shows =>
        startedAt # Never /\ now <= startedAt + MaxDelay + RemoteTtl

\* The viewer sees the typist while, and only while, there is reason to.
TypistIsShown == TypistStaysShown /\ NoGhostTypist

===============================================================================
