------------------------------- MODULE DemoFeed -------------------------------
(***************************************************************************)
(* How the demos' events reach a browser: a session of a LocalDemoRuntime  *)
(* publishes the events of its ChatEngine to the event broker, a browser   *)
(* polls them with one cursor per conversation, and stream events also     *)
(* travel over server-sent events.  Every await is a point where others    *)
(* run; what happens between two awaits is one action.                     *)
(***************************************************************************)
EXTENDS Integers, FiniteSets, Sequences

CONSTANTS
    SeedOrder,    \* the seeded conversations of a session, in order
    None,
    HistoryMax,   \* EVENT_HISTORY_MAX
    SnapshotMax,  \* the limit of getMessages()
    MaxEvents, MaxSessions, MaxFaults  \* bounds of the exploration

ASSUME FeedAssumption ==
    /\ SeedOrder # <<>> /\ SeedOrder \in Seq({SeedOrder[i] : i \in DOMAIN SeedOrder})
    /\ None \notin Nat \cup {SeedOrder[i] : i \in DOMAIN SeedOrder}
    /\ {HistoryMax, SnapshotMax, MaxEvents, MaxSessions, MaxFaults} \subseteq Nat

VARIABLES
    server,   \* the runtime's session, its namespace in the broker, its engine's memory
    replies,  \* handleAssistantResponse() calls in progress
    page,     \* the browser runtime: ids it knows, active conversation, cursors
    poll,     \* the poll that is out, if any
    view,     \* messages in the browser's engine and storage
    excused,  \* history: messages the cursor passed in one of the ways named below
    faults    \* history: failed polls and reloads so far

vars == <<server, replies, page, poll, view, excused, faults>>

Names == {SeedOrder[i] : i \in DOMAIN SeedOrder}

\* Conversation ids are made anew by every session.
Conversation(session, name) == [session |-> session, name |-> name]

\* The index of an event in server.log is its sequence number.
Event(conv, kind, id) == [conv |-> conv, kind |-> kind, id |-> id]

NoPoll == [stage |-> "none"]

-------------------------------------------------------------------------------
(* The server.  Each operator maps a server state to the next one. *)

\* publishChatEvent().
Publish(s, conv, kind, id) == [s EXCEPT !.log = Append(@, Event(conv, kind, id))]

\* A message in the engine's memory that no forwarded event announces.
Keep(s, conv, id) == [s EXCEPT !.stored = Append(@, [conv |-> conv, id |-> id]), !.made = id]

\* emitRemoteMessage(): the engine keeps the message and emits message:received.
Remote(s, conv) == Publish(Keep(s, conv, s.made + 1), conv, "message", s.made + 1)

\* emitStreamEnd() puts the final message into the index, so the inbound copy that
\* emitInboundFinalMessage() delivers next is dropped as a duplicate.
StreamEnd(s, conv) == Publish(Keep(s, conv, s.made + 1), conv, "end", s.made + 1)

\* getContext(): a session that is gone is built again, empty.
Context(s) ==
    IF s.live THEN s
    ELSE [s EXCEPT !.live = TRUE, !.session = @ + 1, !.seeded = FALSE, !.stored = <<>>]

\* ensureSeeded(): one message per conversation, then the flag.
Seed(s) ==
    LET conv(i) == Conversation(s.session, SeedOrder[i])
        n == Len(SeedOrder)
    IN  IF s.seeded THEN s
        ELSE [s EXCEPT
                !.log = @ \o [i \in 1 .. n |-> Event(conv(i), "message", s.made + i)],
                !.stored = @ \o [i \in 1 .. n |-> [conv |-> conv(i), id |-> s.made + i]],
                !.made = @ + n, !.seeded = TRUE]

CanBuild == server.live \/ server.session < MaxSessions
Room(n) == Len(server.log) + n <= MaxEvents

\* The history a namespace still holds: the last HistoryMax events.
Trimmed(s) == {i \in DOMAIN s.log : i <= Len(s.log) - HistoryMax}

\* getLatestChatEventSequence() ?? 0.
Latest(s) == Len(s.log)

\* Mutant: off by one.
EventsAfter_SkipsFirst(s, cursor, conv) ==
    {i \in DOMAIN s.log \ Trimmed(s) : i > cursor + 1 /\ s.log[i].conv = conv}

\* getChatEventsAfterSequence().
EventsAfter(s, cursor, conv) ==
    {i \in DOMAIN s.log \ Trimmed(s) : i > cursor /\ s.log[i].conv = conv}

\* toDemoTransportEvent(): of these, only message:received carries a message.
Messages(s, indices) == {s.log[i].id : i \in {j \in indices : s.log[j].kind = "message"}}

\* The conversation's messages in the engine's memory, and the first SnapshotMax of them.
Kept(s, conv) == {i \in DOMAIN s.stored : s.stored[i].conv = conv}
KeptIds(s, indices) == {s.stored[i].id : i \in indices}

\* engine.getMessages().
Snapshot(s, conv) ==
    {i \in Kept(s, conv) : Cardinality({j \in Kept(s, conv) : j < i}) < SnapshotMax}

\* What the conversation's events among the first n announced.
Announced(s, conv, n) ==
    {s.log[i].id : i \in {j \in DOMAIN s.log : j <= n /\ s.log[j].conv = conv}}

-------------------------------------------------------------------------------
(* Init. *)

FreshPage ==
    [boot |-> 0, active |-> None, cursor |-> [n \in Names |-> None],
     connected |-> FALSE, sse |-> None]

Init ==
    /\ server = [live |-> FALSE, session |-> 0, seeded |-> FALSE, log |-> <<>>,
                 stored |-> <<>>, made |-> 0]
    /\ replies = {}
    /\ page = FreshPage /\ poll = NoPoll
    /\ view = {} /\ excused = {} /\ faults = 0

Mine(name) == Conversation(page.boot, name)

-------------------------------------------------------------------------------
(* The server's own steps. *)

\* Stream events reach the page that listens to the conversation at once.
SseHears(conv) == page.sse # None /\ Mine(page.sse) = conv

\* A demo that answers with one message, with or without typing events before.
ReplyDirect ==
    \E r \in replies :
        /\ r.stage = "start" /\ Room(1)
        /\ server' = Remote(server, r.conv)
        /\ replies' = replies \ {r}
        /\ UNCHANGED <<page, poll, view, excused, faults>>

\* emitStreamedAssistantMessage(): typing, stream:start and the chunks are one event.
ReplyStreams ==
    \E r \in replies :
        /\ r.stage = "start" /\ Room(2)
        /\ server' = Publish(server, r.conv, "chunk", 0)
        /\ replies' = (replies \ {r}) \cup {[r EXCEPT !.stage = "streaming"]}
        /\ UNCHANGED <<page, poll, view, excused, faults>>

\* The stream ends: the page gets the message from its SSE stream if it has one.
ReplyEnds ==
    \E r \in replies :
        /\ r.stage = "streaming" /\ Room(1)
        /\ server' = StreamEnd(server, r.conv)
        /\ view' = IF SseHears(r.conv) THEN view \cup {server'.made} ELSE view
        /\ replies' = replies \ {r}
        /\ UNCHANGED <<page, poll, excused, faults>>

\* The stream fails: stream:error and a message that says so, which may pass the bound by one.
ReplyFails ==
    \E r \in replies :
        /\ r.stage = "streaming" /\ Room(1)
        /\ server' = Remote(Publish(server, r.conv, "chunk", 0), r.conv)
        /\ replies' = replies \ {r}
        /\ UNCHANGED <<page, poll, view, excused, faults>>

\* cleanupStaleContexts() of a session nobody used for half an hour.  Its engine's
\* disconnect() still publishes two connection states, into the new namespace; an
\* SSE stream stays with the old one and hears nothing any more.
Expire ==
    /\ server.live /\ replies = {} /\ poll.stage # "snapshot" /\ MaxEvents >= 2
    /\ server' = LET reset == [server EXCEPT !.live = FALSE, !.log = <<>>]
                     bye(s) == Publish(s, None, "connection", 0)
                 IN  bye(bye(reset))
    /\ page' = [page EXCEPT !.sse = None]
    /\ UNCHANGED <<replies, poll, view, excused, faults>>

-------------------------------------------------------------------------------
(* The page. *)

\* bootstrapConversation() or listConversations(), and the first setActiveConversationId().
Bootstrap ==
    /\ page.boot = 0 /\ CanBuild
    /\ LET s == Context(server)
       IN  /\ s.seeded \/ Len(s.log) + Len(SeedOrder) <= MaxEvents
           /\ server' = Seed(s)
    /\ page' = [page EXCEPT !.boot = server'.session, !.active = SeedOrder[1]]
    /\ UNCHANGED <<replies, poll, view, excused, faults>>

\* setActiveConversationId().
Switch(name) ==
    /\ page.boot # 0 /\ name # page.active
    /\ page' = [page EXCEPT !.active = name, !.sse = None]
    /\ UNCHANGED <<server, replies, poll, view, excused, faults>>

\* StreamEventBridge opens the SSE stream of the active conversation.
OpenSse ==
    /\ page.active # None /\ page.sse = None
    /\ page' = [page EXCEPT !.sse = page.active]
    /\ UNCHANGED <<server, replies, poll, view, excused, faults>>

\* The POST of a message: the engine keeps it and announces it to nobody.
Send ==
    /\ page.connected /\ page.active # None /\ replies = {} /\ CanBuild
    /\ LET s == Context(server)
           conv == Mine(page.active)
       IN  /\ Len(s.log) + Len(SeedOrder) <= MaxEvents
           /\ server' = Keep(Seed(s), conv, Seed(s).made + 1)
           /\ replies' = {[conv |-> conv, stage |-> "start"]}
    /\ view' = view \cup {server'.made}
    /\ UNCHANGED <<page, poll, excused, faults>>

Connect ==
    /\ ~page.connected /\ poll = NoPoll
    /\ page' = [page EXCEPT !.connected = TRUE]
    /\ UNCHANGED <<server, replies, poll, view, excused, faults>>

\* The transport's generation moves on: what the poll brings will be dropped.
Disconnect ==
    /\ page.connected
    /\ page' = [page EXCEPT !.connected = FALSE]
    /\ poll' = IF poll = NoPoll THEN poll ELSE [poll EXCEPT !.stale = TRUE]
    /\ UNCHANGED <<server, replies, view, excused, faults>>

\* pollEvents() up to its fetch.
PollStarts ==
    /\ page.connected /\ poll = NoPoll /\ page.active # None
    /\ poll' = [stage |-> "asked", name |-> page.active, stale |-> FALSE,
                cursor |-> page.cursor[page.active], next |-> 0, data |-> {}, missed |-> {}]
    /\ UNCHANGED <<server, replies, page, view, excused, faults>>

\* getDemoPollingResponse() up to its last await: with a cursor the events after it, else
\* the latest sequence number.  A message trimmed from the history before it was read
\* is lost to this client.
PollIsRead ==
    /\ poll.stage = "asked" /\ CanBuild
    /\ LET s == Context(server)
           conv == Mine(poll.name)
           after == EventsAfter(s, poll.cursor, conv)
       IN  /\ server' = s
           /\ \/ /\ poll.cursor = None
                 /\ poll' = [poll EXCEPT !.stage = "snapshot", !.next = Latest(s)]
              \/ /\ poll.cursor # None
                 /\ poll' = [poll EXCEPT
                        !.stage = "answered", !.data = Messages(s, after),
                        !.next = IF after = {} THEN poll.cursor
                                 ELSE CHOOSE i \in after : \A j \in after : j <= i,
                        !.missed = {s.log[i].id : i \in {j \in Trimmed(s) : s.log[j].conv = conv}}]
    /\ UNCHANGED <<replies, page, view, excused, faults>>

\* Mutant: the latest sequence number is read in a step of its own after the messages.
PollIsSnapshot_LateCursor ==
    /\ poll.stage = "snapshot"
    /\ LET all == Kept(server, Mine(poll.name))
           first == Snapshot(server, Mine(poll.name))
       IN  poll' = IF poll.next >= 0
                   THEN [poll EXCEPT !.data = KeptIds(server, first),
                                     !.missed = KeptIds(server, all \ first), !.next = -1]
                   ELSE [poll EXCEPT !.stage = "answered", !.next = Latest(server)]
    /\ UNCHANGED <<server, replies, page, view, excused, faults>>

\* The first poll's messages.  Those beyond the limit are lost to this client.
PollIsSnapshot ==
    /\ poll.stage = "snapshot"
    /\ LET all == Kept(server, Mine(poll.name))
           first == Snapshot(server, Mine(poll.name))
       IN  poll' = [poll EXCEPT !.stage = "answered", !.data = KeptIds(server, first),
                                !.missed = KeptIds(server, all \ first)]
    /\ UNCHANGED <<server, replies, page, view, excused, faults>>

\* The answer arrives.  Its cursor is stored under the conversation that is active now,
\* which need not be the one the poll was about; a stale poll's messages are dropped.
PollAnswers ==
    /\ poll.stage = "answered"
    /\ page' = [page EXCEPT !.cursor[page.active] = poll.next]
    /\ view' = IF poll.stale THEN view ELSE view \cup poll.data
    /\ excused' = (excused \cup poll.missed
                   \cup (IF poll.stale THEN poll.data ELSE {})
                   \cup (IF page.active = poll.name THEN {}
                         ELSE Announced(server, Mine(page.active), poll.next))) \ (view' \cup {0})
    /\ poll' = NoPoll
    /\ UNCHANGED <<server, replies, faults>>

\* The request or the answer is lost, or the answer is an error.
PollFails ==
    /\ poll.stage # "none" /\ faults < MaxFaults
    /\ poll' = NoPoll /\ faults' = faults + 1
    /\ UNCHANGED <<server, replies, page, view, excused>>

\* A page reload keeps what the browser stored; clearPersistedMessages() does not.
Reload ==
    /\ page.boot # 0 /\ faults < MaxFaults
    /\ page' = FreshPage /\ poll' = NoPoll
    /\ view' \in {view, {}} /\ excused' = {} /\ faults' = faults + 1
    /\ UNCHANGED <<server, replies>>

-------------------------------------------------------------------------------
ServerNext == ReplyDirect \/ ReplyStreams \/ ReplyEnds \/ ReplyFails \/ Expire
PollNext == PollStarts \/ PollIsRead \/ PollIsSnapshot \/ PollAnswers
PageNext == \/ Bootstrap \/ (\E n \in Names : Switch(n)) \/ OpenSse \/ Send
            \/ Connect \/ Disconnect \/ PollFails \/ Reload
Next == ServerNext \/ PollNext \/ PageNext

Spec == Init /\ [][Next]_vars

\* The polling loop goes on and the network answers, if not every time.
FairSpec == Spec /\ WF_vars(PollStarts) /\ WF_vars(PollIsRead)
                 /\ WF_vars(PollIsSnapshot) /\ WF_vars(PollAnswers)
-------------------------------------------------------------------------------
(* Properties. *)

\* The events of the page's conversation `name` that its cursor has passed, while the
\* session the page knows lasts.
Passed(name) ==
    IF page.boot = server.session /\ page.cursor[name] # None
    THEN {i \in DOMAIN server.log : i <= page.cursor[name] /\ server.log[i].conv = Mine(name)}
    ELSE {}

\* A cursor passes no message the page has not got, except those of a batch that a
\* disconnect() dropped, those trimmed from the history or beyond the snapshot's limit,
\* and those another conversation's cursor jumped over.
NothingSkipped == \A name \in Names : Messages(server, Passed(name)) \subseteq view \cup excused

\* The final message of a stream reaches a polling page like any other message.
FinalArrivesByPolling ==
    \A name \in Names : \A i \in Passed(name) :
        server.log[i].kind = "end" => server.log[i].id \in view \cup excused

\* A message that the connected page's active conversation still lacks.
Owed(id) ==
    /\ page.connected /\ page.boot = server.session /\ id \notin view \cup excused
    /\ \E i \in DOMAIN server.log : server.log[i] = Event(Mine(page.active), "message", id)

\* While the page stays connected to its session and conversation, messages arrive.
MessagesArrive == \A id \in 1 .. MaxEvents : Owed(id) ~> ~Owed(id)
===============================================================================
