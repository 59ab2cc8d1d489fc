-------------------------------- MODULE DevTools --------------------------------
(***************************************************************************)
(* The developer tools' hook, useChatDevTools(): for the engine that is    *)
(* inspected it loads the conversations and their messages once and        *)
(* follows the engine's events.  Each piece of its state carries the       *)
(* engine it belongs to; another engine may be inspected at any time.      *)
(***************************************************************************)
EXTENDS Integers, Sequences

CONSTANTS
    Engines, DevConversations, DevMessages,
    DevConversationOf,                 \* the conversation of each message
    MaxSteps, MaxSwaps              \* bounds: what the engines do, changes of engine

ASSUME DevToolsAssumption ==
    /\ DevConversationOf \in [DevMessages -> DevConversations]
    /\ DevMessages \cap DevConversations = {} /\ "none" \notin DevMessages
    /\ {MaxSteps, MaxSwaps} \subseteq Nat

VARIABLES
    store,      \* each engine's conversations and the version of each message, 0 if none
    events,     \* events each engine has yet to emit, its storage having answered
    streaming,  \* the message each engine is streaming, if any
    inspected,  \* the engine of the current render, and its subscriptions
    list,       \* the messages state: an engine and the version of each message
    convs,      \* the conversations state: an engine and its conversations
    streams,    \* the streams state: an engine and the status of each stream
    load,       \* the load() of the current effect
    late,       \* history: messages heard of since the load read them, or would have
    undone,    \* history: messages, and conversations, of which the load undid an event
    unheard,    \* history: streams of which an event went unheard
    steps, swaps

devVars == <<store, events, streaming, inspected, list, convs, streams, load, late, undone,
             unheard, steps, swaps>>

NoStream == "none"
NoDevMessages == [m \in DevMessages |-> 0]
NoStreams == [m \in DevMessages |-> "none"]

\* load() up to its first await: nothing is read yet, of no conversation.
FreshLoad == [stage |-> "asked", convs |-> {}, read |-> {}, got |-> NoDevMessages]

DevToolsInit ==
    /\ store = [e \in Engines |-> [convs |-> {}, version |-> NoDevMessages]]
    /\ events = [e \in Engines |-> <<>>] /\ streaming = [e \in Engines |-> NoStream]
    /\ inspected \in Engines
    /\ list = [engine |-> inspected, value |-> NoDevMessages]
    /\ convs = [engine |-> inspected, value |-> {}]
    /\ streams = [engine |-> inspected, value |-> NoStreams]
    /\ load = FreshLoad /\ late = {} /\ undone = {} /\ unheard = {}
    /\ steps = 0 /\ swaps = 0

\* scopedValue(): the value if it is of the engine inspected, else the fallback.
Scoped(scoped, fallback) == IF scoped.engine = inspected THEN scoped.value ELSE fallback
Scope(value) == [engine |-> inspected, value |-> value]

-------------------------------------------------------------------------------
(* The engines: the storage answers, then the event is emitted. *)

CreateConversation(e, c) ==
    /\ c \notin store[e].convs /\ steps < MaxSteps /\ steps' = steps + 1
    /\ store' = [store EXCEPT ![e].convs = @ \cup {c}]
    /\ events' = [events EXCEPT ![e] = Append(@, [kind |-> "conversation", id |-> c, version |-> 0])]
    /\ UNCHANGED <<streaming, inspected, list, convs, streams, load, late, undone, unheard,
                   swaps>>

\* A message is sent, received or updated, or deleted (version 0).
WriteMessage(e, m) ==
    /\ DevConversationOf[m] \in store[e].convs /\ steps < MaxSteps /\ steps' = steps + 1
    /\ \E version \in {steps', 0} :
        /\ version = 0 => store[e].version[m] # 0
        /\ store' = [store EXCEPT ![e].version[m] = version]
        /\ events' = [events EXCEPT ![e] = Append(@, [kind |-> "message", id |-> m, version |-> version])]
    /\ UNCHANGED <<streaming, inspected, list, convs, streams, load, late, undone, unheard,
                   swaps>>

-------------------------------------------------------------------------------
(* The hook. *)

\* The streams state after an event of the engine e, which is unheard if e is not inspected.
StreamEvent(e, value) ==
    IF e = inspected THEN streams' = Scope(value) ELSE UNCHANGED streams

\* Of a stream that is not shown the end is ignored.
InspectedStreamIsOver(e, m, status) ==
    StreamEvent(e, [Scoped(streams, NoStreams) EXCEPT ![m] = IF @ = "none" THEN @ ELSE status])

\* upsertMessage() and removeMessage(), upsertConversation(), and the end of a stream.
EventHeard(e) ==
    /\ events[e] # <<>> /\ events' = [events EXCEPT ![e] = Tail(@)]
    /\ LET event == Head(events[e])
       IN  /\ \/ e # inspected /\ UNCHANGED <<list, convs, late, undone>>
              \/ /\ e = inspected /\ event.kind \in {"message", "ended"}
                 /\ list' = Scope([Scoped(list, NoDevMessages) EXCEPT ![event.id] = event.version])
                 /\ late' = IF load.stage = "done" \/ event.id \in late THEN late ELSE late \cup {event.id}
                 /\ undone' = undone \ {event.id}
                 /\ UNCHANGED convs
              \/ /\ e = inspected /\ event.kind = "conversation"
                 /\ convs' = Scope(Scoped(convs, {}) \cup {event.id})
                 /\ late' = IF load.stage = "answered" THEN late \cup {event.id} ELSE late
                 /\ UNCHANGED <<list, undone>>
           /\ IF event.kind = "ended"
              THEN streaming' = [streaming EXCEPT ![e] = NoStream] /\ InspectedStreamIsOver(e, event.id, "ended")
              ELSE UNCHANGED <<streaming, streams>>
    /\ UNCHANGED <<store, inspected, load, unheard, steps, swaps>>

\* getConversations() reads its page.
ConversationsAreRead ==
    /\ load.stage = "asked"
    /\ load' = [load EXCEPT !.stage = "answered", !.convs = store[inspected].convs]
    /\ UNCHANGED <<store, events, streaming, inspected, list, convs, streams, late, undone,
                   unheard, steps, swaps>>

\* setConversations(), and a getMessages() for each of them.
ConversationsArrive ==
    /\ load.stage = "answered" /\ load' = [load EXCEPT !.stage = "reading"]
    /\ convs' = Scope(load.convs)
    /\ undone' = undone \cup ((late \cap DevConversations) \ load.convs)
    /\ UNCHANGED <<store, events, streaming, inspected, list, streams, late, unheard, steps,
                   swaps>>

\* One of the getMessages() reads.
MessagesAreRead(c) ==
    /\ load.stage = "reading" /\ c \in load.convs \ load.read
    /\ LET here == {m \in DevMessages : DevConversationOf[m] = c}
       IN  /\ load' = [load EXCEPT !.read = @ \cup {c},
                                   !.got = [m \in DevMessages |-> IF m \in here THEN store[inspected].version[m]
                                                              ELSE @[m]]]
           /\ late' = late \ here
    /\ UNCHANGED <<store, events, streaming, inspected, list, convs, streams, undone, unheard,
                   steps, swaps>>

\* setMessages(): what was heard of meanwhile is overwritten.
MessagesArrive ==
    /\ load.stage = "reading" /\ load.read = load.convs
    /\ load' = [load EXCEPT !.stage = "done"]
    /\ list' = Scope(load.got) /\ undone' = undone \cup (late \cap DevMessages)
    /\ UNCHANGED <<store, events, streaming, inspected, convs, streams, late, unheard, steps,
                   swaps>>

\* Mutant: the new engine's effect goes on with the load of the old one.
Inspect_KeepsLoad(e) ==
    /\ e # inspected /\ swaps < MaxSwaps /\ swaps' = swaps + 1
    /\ inspected' = e
    /\ load' = IF load.stage = "done" THEN FreshLoad ELSE load
    /\ late' = {} /\ undone' = {}
    /\ unheard' = unheard \cup {s \in Engines \X DevMessages : streaming[s[1]] = s[2]}
    /\ UNCHANGED <<store, events, streaming, list, convs, streams, steps>>

\* Another engine is inspected: the old effects are undone (isMounted), the new ones run.
Inspect(e) ==
    /\ e # inspected /\ swaps < MaxSwaps /\ swaps' = swaps + 1
    /\ inspected' = e
    /\ load' = FreshLoad
    /\ late' = {} /\ undone' = {}
    /\ unheard' = unheard \cup {s \in Engines \X DevMessages : streaming[s[1]] = s[2]}
    /\ UNCHANGED <<store, events, streaming, list, convs, streams, steps>>

-------------------------------------------------------------------------------
(* Streams, as the caller of the engine emits them: start, chunks, then end or error.  The  *)
(* final message is stored first, and upserted with the end.                                *)

StreamStart(e, m) ==
    /\ DevConversationOf[m] \in store[e].convs
    /\ streaming[e] = NoStream /\ steps < MaxSteps /\ steps' = steps + 1
    /\ streaming' = [streaming EXCEPT ![e] = m]
    /\ StreamEvent(e, [Scoped(streams, NoStreams) EXCEPT ![m] = "streaming"])
    /\ unheard' = IF e = inspected THEN unheard \ {<<e, m>>} ELSE unheard \cup {<<e, m>>}
    /\ UNCHANGED <<store, events, inspected, list, convs, load, late, undone, swaps>>

\* A chunk of a stream that is not shown is ignored.
StreamChunk(e, m) ==
    /\ streaming[e] = m /\ steps < MaxSteps /\ steps' = steps + 1
    /\ IF Scoped(streams, NoStreams)[m] = "none" THEN UNCHANGED streams
       ELSE StreamEvent(e, [Scoped(streams, NoStreams) EXCEPT ![m] = "streaming"])
    /\ UNCHANGED <<store, events, streaming, inspected, list, convs, load, late, undone,
                   unheard, swaps>>

\* emitStreamEnd() up to its event.
StreamIsStored(e, m) ==
    /\ streaming[e] = m /\ steps < MaxSteps /\ steps' = steps + 1
    /\ \A i \in DOMAIN events[e] : events[e][i].kind # "ended"
    /\ store' = [store EXCEPT ![e].version[m] = steps']
    /\ events' = [events EXCEPT ![e] = Append(@, [kind |-> "ended", id |-> m, version |-> steps'])]
    /\ UNCHANGED <<streaming, inspected, list, convs, streams, load, late, undone, unheard, swaps>>

\* message:stream:error.
StreamFails(e, m) ==
    /\ streaming[e] = m /\ streaming' = [streaming EXCEPT ![e] = NoStream]
    /\ \A i \in DOMAIN events[e] : events[e][i].kind # "ended"
    /\ InspectedStreamIsOver(e, m, "error")
    /\ UNCHANGED <<store, events, inspected, list, convs, load, late, undone, unheard, steps,
                   swaps>>

DevToolsNext ==
    \/ \E e \in Engines :
        \/ \E c \in DevConversations : CreateConversation(e, c)
        \/ \E m \in DevMessages : WriteMessage(e, m) \/ StreamStart(e, m) \/ StreamChunk(e, m)
                                  \/ StreamIsStored(e, m) \/ StreamFails(e, m)
        \/ EventHeard(e) \/ Inspect(e)
    \/ ConversationsAreRead \/ ConversationsArrive \/ MessagesArrive
    \/ \E c \in DevConversations : MessagesAreRead(c)

DevToolsSpec == DevToolsInit /\ [][DevToolsNext]_devVars

-------------------------------------------------------------------------------
(* Properties. *)

ListsFollow ==
    load.stage = "done" /\ events[inspected] = <<>> =>
        /\ \A m \in DevMessages \ undone : Scoped(list, NoDevMessages)[m] = store[inspected].version[m]
        /\ store[inspected].convs \ undone \subseteq Scoped(convs, {})

StreamsFollow ==
    \A m \in DevMessages : Scoped(streams, NoStreams)[m] = "streaming" /\ <<inspected, m>> \notin unheard =>
        streaming[inspected] = m

\* Once loaded, and with no event on its way, the messages and the conversations shown
\* are those of the engine inspected, whichever engine was inspected before and whatever
\* its load answered late: but for what changed while they were loaded.  A stream shown
\* as streaming has not ended, unless another engine was inspected meanwhile.
InspectorFollows == ListsFollow /\ StreamsFollow
===============================================================================
