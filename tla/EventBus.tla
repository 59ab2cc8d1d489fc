-------------------------------- MODULE EventBus --------------------------------
(***************************************************************************)
(* The engine's EventBus.  emit() calls a copy of the event's handlers one *)
(* after the other, then those of 'custom:*' if it is a custom event; a    *)
(* handler may subscribe, unsubscribe and emit while it runs.  The Set of  *)
(* an event is thrown away when it is empty, and made anew when needed: a  *)
(* dispatch under way goes on with the old one.                            *)
(***************************************************************************)
EXTENDS Integers, Sequences, SequencesExt

CONSTANTS
    Handlers,
    Topics, Customs, Wildcard,  \* events, the custom ones and 'custom:*'
    MaxDepth, MaxEmits, MaxOps  \* bounds: nested emits, emits, other calls

ASSUME BusAssumption ==
    /\ Customs \subseteq Topics /\ Wildcard \in Topics \ Customs
    /\ {MaxDepth, MaxEmits, MaxOps} \subseteq Nat

VARIABLES
    sets,          \* every Set of handlers made so far, in insertion order
    handlers,      \* the Set of each event, 0 if it has none
    onceHandlers,  \* a WeakSet of handlers, whatever they are subscribed to
    dispatches,    \* emits under way, outermost first
    asked,         \* history: how each handler is subscribed to each event
    mixed,         \* history: handlers used with once() and otherwise
    wiped,         \* history: events that lost their Set to a dispatch of an older one
    skipped,       \* history: was a handler left out?
    emits, ops

busVars == <<sets, handlers, onceHandlers, dispatches, asked, mixed, wiped, skipped, emits, ops>>

BusInit ==
    /\ sets = <<>> /\ handlers = [t \in Topics |-> 0] /\ onceHandlers = {} /\ dispatches = <<>>
    /\ asked = [t \in Topics |-> [h \in Handlers |-> "no"]]
    /\ mixed = {} /\ wiped = {} /\ skipped = FALSE /\ emits = 0 /\ ops = 0

Top == dispatches[Len(dispatches)]
Below == SubSeq(dispatches, 1, Len(dispatches) - 1)

\* Callers: code outside of any dispatch, or the handler that runs.
CanCall == dispatches # <<>> => Top.running

Operation == CanCall /\ ops < MaxOps /\ ops' = ops + 1 /\ UNCHANGED <<wiped, skipped, emits>>

\* on() and the Set it adds the handler to.
AddHandler(t, h) ==
    IF handlers[t] = 0
    THEN /\ sets' = Append(sets, <<h>>) /\ handlers' = [handlers EXCEPT ![t] = Len(sets')]
    ELSE /\ sets' = [sets EXCEPT ![handlers[t]] = IF h \in ToSet(@) THEN @ ELSE Append(@, h)]
         /\ UNCHANGED handlers

\* Set.delete(), and the event loses its Set if the one at hand is empty.
DropHandler(t, set, h) ==
    LET rest == RemoveFirst(sets[set], h)
    IN  /\ sets' = [sets EXCEPT ![set] = rest]
        /\ handlers' = IF rest = <<>> THEN [handlers EXCEPT ![t] = 0] ELSE handlers

\* How h is subscribed from here on.  A handler used both ways, with once() for two
\* events, or taken off after once() is mixed: the flag does not tell its uses apart.
Asks(t, h, how) ==
    /\ asked' = [asked EXCEPT ![t][h] = how]
    /\ mixed' = IF \/ how # "once" /\ h \in onceHandlers
                   \/ how = "once" /\ \E u \in Topics : asked[u][h] # "no"
                THEN mixed \cup {h} ELSE mixed

On(t, h) ==
    /\ Operation /\ AddHandler(t, h) /\ Asks(t, h, "on")
    /\ UNCHANGED <<onceHandlers, dispatches>>

Once(t, h) ==
    /\ Operation /\ AddHandler(t, h) /\ Asks(t, h, "once")
    /\ onceHandlers' = onceHandlers \cup {h}
    /\ UNCHANGED dispatches

\* off(), or the function on() and once() return.
Off(t, h) ==
    /\ Operation /\ Asks(t, h, "no")
    /\ IF handlers[t] = 0 THEN UNCHANGED <<sets, handlers>> ELSE DropHandler(t, handlers[t], h)
    /\ dispatches' = [i \in DOMAIN dispatches |->
           IF dispatches[i].topic = t THEN [dispatches[i] EXCEPT !.owed = @ \ {h}] ELSE dispatches[i]]
    /\ UNCHANGED onceHandlers

Clear ==
    /\ Operation
    /\ handlers' = [t \in Topics |-> 0] /\ asked' = [t \in Topics |-> [h \in Handlers |-> "no"]]
    /\ mixed' = mixed \cup onceHandlers
    /\ dispatches' = [i \in DOMAIN dispatches |-> [dispatches[i] EXCEPT !.owed = {}]]
    /\ UNCHANGED <<sets, onceHandlers>>

\* deliverTo(): a copy of the handlers, which are to be called.
Delivery(t, wild) ==
    [topic |-> t, set |-> handlers[t], wild |-> wild, running |-> FALSE,
     rest |-> IF handlers[t] = 0 THEN <<>> ELSE sets[handlers[t]],
     owed |-> IF t \in wiped THEN {} ELSE {h \in Handlers : asked[t][h] = "on" /\ h \notin mixed}]

Emit(t) ==
    /\ CanCall /\ Len(dispatches) < MaxDepth /\ emits < MaxEmits /\ emits' = emits + 1
    /\ dispatches' = Append(dispatches, Delivery(t, t \in Customs))
    /\ UNCHANGED <<sets, handlers, onceHandlers, asked, mixed, wiped, skipped, ops>>

\* Mutant: a handler that throws ends the dispatch.
Remaining_Throws(rest) == {Tail(rest), <<>>}

\* What a handler throws is swallowed: the others are called.
Remaining(rest) == {Tail(rest)}

\* The next handler of the copy is called, even if it was taken off meanwhile.  A once
\* handler is taken off first: off the Set the copy was made of.
Call ==
    /\ dispatches # <<>> /\ Top.rest # <<>>
    /\ LET h == Head(Top.rest)
       IN  /\ IF h \in onceHandlers THEN DropHandler(Top.topic, Top.set, h)
              ELSE UNCHANGED <<sets, handlers>>
           /\ wiped' = IF handlers'[Top.topic] = 0 /\ handlers[Top.topic] \notin {0, Top.set}
                       THEN wiped \cup {Top.topic} ELSE wiped
           /\ onceHandlers' = onceHandlers \ {h}
           /\ \E rest \in Remaining(Top.rest) :
                dispatches' = Append(Below, [Top EXCEPT !.rest = rest, !.running = TRUE, !.owed = @ \ {h}])
    /\ UNCHANGED <<asked, mixed, skipped, emits, ops>>

\* The copy is used up: 'custom:*' is next, or the emit returns.
Delivered ==
    /\ dispatches # <<>> /\ Top.rest = <<>>
    /\ dispatches' = IF Top.wild THEN Append(Below, Delivery(Wildcard, FALSE)) ELSE Below
    /\ skipped' = (skipped \/ Top.owed # {})
    /\ UNCHANGED <<sets, handlers, onceHandlers, asked, mixed, wiped, emits, ops>>

BusNext ==
    \/ \E t \in Topics, h \in Handlers : On(t, h) \/ Once(t, h) \/ Off(t, h)
    \/ \E t \in Topics : Emit(t)
    \/ Clear \/ Call \/ Delivered

BusSpec == BusInit /\ [][BusNext]_busVars

-------------------------------------------------------------------------------
(* Properties. *)

\* An emit reaches every handler that stays subscribed with on() until it returns,
\* whatever the handlers before it subscribe, take off, emit or throw; unless a
\* dispatch of an older Set has thrown away the event's own.
ReachesSubscribers == ~skipped
===============================================================================
