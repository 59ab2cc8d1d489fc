----------------------------- MODULE StreamBridge -----------------------------
(***************************************************************************)
(* The server-sent events of the streaming demos: the server's engine      *)
(* publishes the events of a stream to the broker, createDemoSseResponse   *)
(* writes those of one conversation to its connection, and the page's      *)
(* StreamEventBridge repeats them on the page's engine.  An EventSource    *)
(* whose connection breaks opens another; nothing asks for what was        *)
(* published between.                                                      *)
(***************************************************************************)
EXTENDS Integers, Sequences

CONSTANTS
    BridgeStreams,  \* the streams the server makes
    BridgeRooms,    \* conversations
    MaxChunks,      \* bound: chunks of a stream
    MaxBreaks,      \* bound: connections that break, saves that fail
    MaxViews        \* bound: conversations the page shows, one after the other

VARIABLES
    roomOf,    \* the conversation of each stream
    emitted,   \* [BridgeStreams -> kinds the server's engine emitted]
    source,    \* the page's EventSource: its conversation, whether it is open, what is on its way
    repeated,  \* [BridgeStreams -> kinds the page's engine emitted]
    storing,   \* streams whose end waits for the page's storage
    attended,  \* history: streams the source has listened to from the start without a break
    breaks, views

bridgeVars == <<roomOf, emitted, source, repeated, storing, attended, breaks, views>>

ClosedSource(room) == [room |-> room, open |-> FALSE, pipe |-> <<>>]
Sse(kind, s) == [kind |-> kind, of |-> s]

BridgeInit ==
    /\ roomOf \in [BridgeStreams -> BridgeRooms]
    /\ emitted = [s \in BridgeStreams |-> <<>>] /\ repeated = [s \in BridgeStreams |-> <<>>]
    /\ \E room \in BridgeRooms : source = ClosedSource(room)
    /\ storing = {} /\ attended = {} /\ breaks = 0 /\ views = 1

-------------------------------------------------------------------------------
(* The server. *)

\* Which fields of a stream's event name its conversation: the end has a message, a chunk
\* has neither.
Named(kind) == CASE kind \in {"start", "error"} -> {"conversationId"}
                 [] kind = "end" -> {"message"}
                 [] OTHER -> {}

\* Mutant: only the event's own field is looked at.
ConversationOf_Field(event) ==
    IF "conversationId" \in Named(event.kind) THEN {roomOf[event.of]} ELSE {}

\* getEventConversationId(): none or one.
ConversationOf(event) == IF Named(event.kind) # {} THEN {roomOf[event.of]} ELSE {}

Written(event) ==
    IF source.open /\ source.room \in ConversationOf(event)
    THEN [source EXCEPT !.pipe = Append(@, event)] ELSE source

EmitStream(s, kind) ==
    /\ emitted' = [emitted EXCEPT ![s] = Append(@, kind)]
    /\ source' = Written(Sse(kind, s))
    /\ UNCHANGED <<repeated, storing, breaks, views>>

Streaming(s) == emitted[s] # <<>> /\ emitted[s][Len(emitted[s])] \in {"start", "chunk"}

ReplyStarts(s) ==
    /\ emitted[s] = <<>> /\ EmitStream(s, "start")
    /\ attended' = IF source.open /\ source.room = roomOf[s] THEN attended \cup {s} ELSE attended
ReplyGoesOn(s) ==
    /\ Streaming(s) /\ Len(emitted[s]) <= MaxChunks /\ EmitStream(s, "chunk")
    /\ UNCHANGED attended
ReplyStops(s) ==
    /\ Streaming(s) /\ \E kind \in {"end", "error"} : EmitStream(s, kind)
    /\ UNCHANGED attended

-------------------------------------------------------------------------------
(* The page. *)

\* The first request of an EventSource, and every later one after a break.
SourceOpens ==
    /\ ~source.open /\ source' = [source EXCEPT !.open = TRUE]
    /\ UNCHANGED <<emitted, repeated, storing, attended, breaks, views>>

\* What was on its way is lost, and what is published until the source is open again.
SourceBreaks ==
    /\ source.open /\ breaks < MaxBreaks
    /\ source' = ClosedSource(source.room) /\ attended' = {} /\ breaks' = breaks + 1
    /\ UNCHANGED <<emitted, repeated, storing, views>>

\* The effect's cleanup closes the source; the next one listens to what the page shows then.
ShowsOther(room) ==
    /\ views < MaxViews /\ room # source.room
    /\ source' = ClosedSource(room) /\ attended' = {} /\ views' = views + 1
    /\ UNCHANGED <<emitted, repeated, storing, breaks>>

\* A listener repeats the event; the engine stores the message of an end before it emits.
SourceDelivers ==
    /\ source.pipe # <<>>
    /\ LET event == Head(source.pipe)
       IN  IF event.kind = "end"
           THEN storing' = storing \cup {event.of} /\ UNCHANGED repeated
           ELSE repeated' = [repeated EXCEPT ![event.of] = Append(@, event.kind)] /\ UNCHANGED storing
    /\ source' = [source EXCEPT !.pipe = Tail(@)]
    /\ UNCHANGED <<emitted, attended, breaks, views>>

EndIsStored(s) ==
    /\ s \in storing /\ storing' = storing \ {s}
    /\ repeated' = [repeated EXCEPT ![s] = Append(@, "end")]
    /\ UNCHANGED <<emitted, source, attended, breaks, views>>

\* Nobody catches the rejection, and the page's preview is not told the end.
EndIsNotStored(s) ==
    /\ s \in storing /\ breaks < MaxBreaks
    /\ storing' = storing \ {s} /\ attended' = attended \ {s} /\ breaks' = breaks + 1
    /\ UNCHANGED <<emitted, source, repeated, views>>

BridgeNext ==
    /\ UNCHANGED roomOf
    /\ \/ \E s \in BridgeStreams : \/ ReplyStarts(s) \/ ReplyGoesOn(s) \/ ReplyStops(s)
                                  \/ EndIsStored(s) \/ EndIsNotStored(s)
       \/ SourceOpens \/ SourceBreaks \/ SourceDelivers
       \/ \E room \in BridgeRooms : ShowsOther(room)

BridgeSpec == BridgeInit /\ [][BridgeNext]_bridgeVars

-------------------------------------------------------------------------------
\* When the page's engine is told kind of s: before now, now, or after what else is on its way.
Moments(s, kind) ==
    {n - Len(repeated[s]) - 1 : n \in {i \in DOMAIN repeated[s] : repeated[s][i] = kind}}
    \cup (IF kind = "end" /\ s \in storing THEN {0} ELSE {})
    \cup {n \in DOMAIN source.pipe : source.pipe[n].kind = kind /\ source.pipe[n].of = s}
Emitted(s, kind) == \E n \in DOMAIN emitted[s] : emitted[s][n] = kind

\* A source that stays open tells the page's engine the start and the end of every stream of its
\* conversation, also when streams overlap, the end waits for the storage and the page showed
\* another conversation before; no source tells anything twice, an end before its start, or of
\* another conversation's streams.
BridgeRepeats ==
    \A s \in BridgeStreams :
        /\ \A kind \in {"start", "end", "error"} :
              /\ s \in attended /\ Emitted(s, kind) => Moments(s, kind) # {}
              /\ Moments(s, kind) # {} => Emitted(s, kind)
              /\ \A m, n \in Moments(s, kind) : m = n
        /\ \A kind \in {"end", "error"} : \A m \in Moments(s, "start"), n \in Moments(s, kind) : m < n
        /\ \A n \in DOMAIN source.pipe : roomOf[source.pipe[n].of] = source.room

\* "SSE listener receives stream:chunk events, updates UI": a source that stays open is told every
\* chunk too.
ChunksReachPage ==
    \A s \in attended : Emitted(s, "chunk") => Moments(s, "chunk") # {}
=============================================================================
