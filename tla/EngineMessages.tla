---------------------------- MODULE EngineMessages ----------------------------
(***************************************************************************)
(* The message path of ChatEngine (packages/chat-core/src/engine/          *)
(* chat-engine.ts): sendMessage, the inbound handler with its three        *)
(* defences against duplicates (client nonces, id index, storage lookup),  *)
(* updateMessage, deleteMessage and emitStreamEnd, over one conversation.  *)
(*                                                                         *)
(* JavaScript runs each callback to completion, so a step is the code      *)
(* between two awaits.  A storage call takes effect and resumes its caller *)
(* in one step; everything else may happen while the call is outstanding.  *)
(* Restart is a page reload: the engine's fields are lost, storage is not. *)
(***************************************************************************)
EXTENDS Integers, Sequences, FiniteSets, Functions

CONSTANTS
    Own,          \* ids of the messages this engine sends; each carries its id as clientNonce
    Remote,       \* ids minted by the server
    EchoOf,       \* EchoOf[e] \in Own if e is the server's copy of an own message, else None
    Contents,     \* message bodies
    Original,     \* the body every message is born with
    Storage,      \* "none" | "memory" | "indexeddb": the configured IStorage
    Handlers,     \* slots for inbound deliveries and emitStreamEnd calls in progress
    Editors,      \* slots for updateMessage / deleteMessage calls in progress
    EditPending,  \* TRUE iff the caller may edit a message whose sendMessage has not settled
    IndexMax,     \* MESSAGE_INDEX_MAX
    NonceMax,     \* SENT_NONCE_MAX
    PageMax,      \* the limit of the hydration query
    MaxRestarts, MaxFaults, MaxEdits, MaxSeen,   \* bounds of the exploration
    None

Ids    == Own \cup Remote
Record == [content : Contents, status : {"pending", "sent"}]

ASSUME ConstantsAssumption ==
    /\ IsFiniteSet(Own) /\ IsFiniteSet(Remote) /\ Own \cap Remote = {}
    /\ None \notin Ids /\ None \notin Record
    /\ EchoOf \in [Remote -> Own \cup {None}]
    /\ Original \in Contents
    /\ Storage \in {"none", "memory", "indexeddb"}
    /\ EditPending \in BOOLEAN
    /\ {IndexMax, NonceMax, PageMax, MaxSeen} \subseteq Nat \ {0}
    /\ {MaxRestarts, MaxFaults, MaxEdits} \subseteq Nat

VARIABLES
    index,      \* messageIndex: a Set in insertion order
    pendingIn,  \* pendingInboundMessageIds
    nonces,     \* sentClientNonces: a Set in insertion order
    hydrated,   \* the conversation is in hydratedClientNonceConversations
    hydrating,  \* ... has a promise in nonceHydrationByConversation
    send,       \* send[m]: where sendMessage for m stands
    handler,    \* handler[h]: an inbound delivery, or an emitStreamEnd, in progress
    editor,     \* editor[o]: an updateMessage or deleteMessage in progress
    store,      \* the IStorage, or inMemoryMessages when there is none
    onWire,     \* own messages the server has accepted
    bounds      \* [restarts, faults, edits] used so far

\* History, read by the properties only.
VARIABLES
    received,   \* how often message:received was emitted for an id (up to MaxSeen)
    shown,      \* the body carried by the last event about an id
    evicted,    \* ids dropped from a full index in this session
    deleted,    \* ids removed through deleteMessage
    announced,  \* ids for which message:received was emitted in this session
    unchecked,  \* ids accepted although the duplicate lookup failed
    dropped,    \* inbound ids whose save failed
    forgotten   \* own messages whose nonce fell out of a full set or a truncated page

session == <<index, pendingIn, nonces, hydrated, hydrating>>
calls   == <<send, handler, editor>>
past    == <<received, shown, evicted, deleted, announced, unchecked, dropped, forgotten>>
vars    == <<session, calls, store, onWire, bounds, past>>

\* The clientNonce in a message's metadata, None when it has none.
NonceOf(e) == IF e \in Own THEN e ELSE EchoOf[e]

\* A JavaScript Set kept below a cap by deleting its oldest entries.
KeepLast(s, cap) == IF Len(s) > cap THEN SubSeq(s, Len(s) - cap + 1, Len(s)) ELSE s
AddCapped(s, x, cap) == IF x \in Range(s) THEN s ELSE KeepLast(Append(s, x), cap)

\* Mutant: a full index takes in no further id.
AddToMessageIndex_StopsWhenFull(e) ==
    /\ index' = IF Len(index) < IndexMax THEN AddCapped(index, e, IndexMax) ELSE index
    /\ UNCHANGED evicted

\* addToMessageIndex
AddToMessageIndex(e) ==
    /\ index' = AddCapped(index, e, IndexMax)
    /\ evicted' = evicted \cup (Range(index) \ Range(index'))

\* sentClientNonces.add with its eviction
AddNonce(m) ==
    /\ nonces' = AddCapped(nonces, m, NonceMax)
    /\ forgotten' = forgotten \cup (Range(nonces) \ Range(nonces'))

Idle   == [pc |-> "idle", msg |-> None]
NoEdit == [pc |-> "idle", msg |-> None, content |-> Original, copy |-> None]
NoSend == [pc |-> "idle", copy |-> None]

Settled(id) == id \in Own => send[id].pc \in {"idle", "done", "failed", "lost"}

Fault == bounds.faults < MaxFaults /\ bounds' = [bounds EXCEPT !.faults = @ + 1]

Init ==
    /\ index = <<>> /\ pendingIn = {} /\ nonces = <<>>
    /\ hydrated = FALSE /\ hydrating = FALSE
    /\ send = [m \in Own |-> NoSend]
    /\ handler = [h \in Handlers |-> Idle]
    /\ editor = [o \in Editors |-> NoEdit]
    /\ store = [id \in Ids |-> None]
    /\ onWire = {}
    /\ bounds = [restarts |-> 0, faults |-> 0, edits |-> 0]
    /\ received = [id \in Ids |-> 0]
    /\ shown = [id \in Ids |-> Original]
    /\ evicted = {} /\ deleted = {} /\ announced = {} /\ unchecked = {} /\ dropped = {} /\ forgotten = {}

-------------------------------------------------------------------------------
(* sendMessage *)

\* Up to `await this.pipeline.run(...)`.
SendMessage(m) ==
    /\ send[m].pc = "idle"
    /\ send' = [send EXCEPT ![m].pc = "pipeline"]
    /\ UNCHANGED <<session, handler, editor, store, onWire, bounds, past>>

\* A middleware throws, drops the event's type or yields an invalid payload.
PipelineRejects(m) ==
    /\ send[m].pc = "pipeline"
    /\ Fault
    /\ send' = [send EXCEPT ![m].pc = "failed"]
    /\ UNCHANGED <<session, handler, editor, store, onWire, past>>

\* The pipeline resolves: the id is indexed and the message stored as pending.
PipelineDone(m) ==
    /\ send[m].pc = "pipeline"
    /\ AddToMessageIndex(m)
    /\ IF Storage = "none"
       THEN /\ store' = [store EXCEPT ![m] = [content |-> Original, status |-> "pending"]]
            /\ AddNonce(m)
            /\ send' = [send EXCEPT ![m].pc = "sending"]
       ELSE /\ send' = [send EXCEPT ![m].pc = "saving"]
            /\ UNCHANGED <<store, nonces, forgotten>>
    /\ UNCHANGED <<pendingIn, hydrated, hydrating, handler, editor, onWire, bounds,
                   received, shown, deleted, announced, unchecked, dropped>>

\* saveMessage resolves; the nonce is recorded before transport.send is called.
SaveDone(m) ==
    /\ send[m].pc = "saving"
    /\ store' = [store EXCEPT ![m] = [content |-> Original, status |-> "pending"]]
    /\ AddNonce(m)
    /\ send' = [send EXCEPT ![m].pc = "sending"]
    /\ UNCHANGED <<index, pendingIn, hydrated, hydrating, handler, editor, onWire, bounds,
                   received, shown, evicted, deleted, announced, unchecked, dropped>>

SaveFails(m) ==
    /\ send[m].pc = "saving"
    /\ Fault
    /\ send' = [send EXCEPT ![m].pc = "failed"]
    /\ UNCHANGED <<session, handler, editor, store, onWire, past>>

\* The server accepts the message, whether or not transport.send will report it.
WireAccepts(m) ==
    /\ send[m].pc = "sending" /\ m \notin onWire
    /\ onWire' = onWire \cup {m}
    /\ UNCHANGED <<session, calls, store, bounds, past>>

\* transport.send resolves.  Without storage the copy taken before the await is put back.
SendAcked(m) ==
    /\ send[m].pc = "sending" /\ m \in onWire
    /\ IF Storage = "none"
       THEN /\ store' = [store EXCEPT ![m] = [content |-> Original, status |-> "sent"]]
            /\ send' = [send EXCEPT ![m].pc = "done"]
            /\ shown' = [shown EXCEPT ![m] = Original]
       ELSE /\ send' = [send EXCEPT ![m].pc = "marking"]
            /\ UNCHANGED <<store, shown>>
    /\ UNCHANGED <<session, handler, editor, onWire, bounds,
                   received, evicted, deleted, announced, unchecked, dropped, forgotten>>

\* transport.send rejects; the server may have the message all the same.
SendRejected(m) ==
    /\ send[m].pc = "sending"
    /\ Fault
    /\ send' = [send EXCEPT ![m].pc = "failed"]
    /\ UNCHANGED <<session, handler, editor, store, onWire, past>>

\* storage.updateMessage(id, {status: 'sent'}): MemoryStorage merges at once, IndexedDB
\* reads the record in one transaction and writes the merged record in another.
\* A missing record is left missing.  message:sent carries the copy made before sending.
MarkSent(m) ==
    /\ send[m].pc = "marking"
    /\ IF Storage = "indexeddb" /\ store[m] # None
       THEN /\ send' = [send EXCEPT ![m] = [pc |-> "putting", copy |-> store[m]]]
            /\ UNCHANGED <<store, shown>>
       ELSE /\ store' = [store EXCEPT ![m] = IF @ = None THEN @ ELSE [@ EXCEPT !.status = "sent"]]
            /\ send' = [send EXCEPT ![m].pc = "done"]
            /\ shown' = [shown EXCEPT ![m] = Original]
    /\ UNCHANGED <<session, handler, editor, onWire, bounds,
                   received, evicted, deleted, announced, unchecked, dropped, forgotten>>

PutSent(m) ==
    /\ send[m].pc = "putting"
    /\ store' = [store EXCEPT ![m] = [send[m].copy EXCEPT !.status = "sent"]]
    /\ send' = [send EXCEPT ![m] = [pc |-> "done", copy |-> None]]
    /\ shown' = [shown EXCEPT ![m] = Original]
    /\ UNCHANGED <<session, handler, editor, onWire, bounds,
                   received, evicted, deleted, announced, unchecked, dropped, forgotten>>

MarkFails(m) ==
    /\ send[m].pc \in {"marking", "putting"}
    /\ Fault
    /\ send' = [send EXCEPT ![m] = [pc |-> "failed", copy |-> None]]
    /\ UNCHANGED <<session, handler, editor, store, onWire, past>>

-------------------------------------------------------------------------------
(* handleIncomingTransportMessage *)

\* The server redelivers at will, and echoes an own message once it has accepted it.
Deliverable(e) == NonceOf(e) = None \/ NonceOf(e) \in onWire

\* Mutant: reservations are not consulted.
IsReserved_IndexOnly(e) == e \in Range(index)

IsOwnEchoWithKnownNonce(e) == NonceOf(e) # None /\ NonceOf(e) \in Range(nonces)
IsReserved(e)              == e \in Range(index) \/ e \in pendingIn

\* From the echo test to the first await of reserveInboundMessageId.
Classify(h, e) ==
    \/ /\ IsOwnEchoWithKnownNonce(e)
       /\ AddToMessageIndex(e)
       /\ handler' = [handler EXCEPT ![h] = Idle]
       /\ UNCHANGED pendingIn
    \/ /\ ~IsOwnEchoWithKnownNonce(e) /\ IsReserved(e)
       /\ handler' = [handler EXCEPT ![h] = Idle]
       /\ UNCHANGED <<index, evicted, pendingIn>>
    \/ /\ ~IsOwnEchoWithKnownNonce(e) /\ ~IsReserved(e)
       /\ pendingIn' = pendingIn \cup {e}
       /\ handler' = [handler EXCEPT ![h] = [pc |-> "lookup", msg |-> e]]
       /\ UNCHANGED <<index, evicted>>

\* With storage, the handler first waits for the nonces of earlier sessions, sharing the
\* promise of a hydration already under way.
Deliver(h, e) ==
    /\ handler[h].pc = "idle" /\ Deliverable(e)
    /\ IF Storage = "none"
       THEN Classify(h, e) /\ UNCHANGED hydrating
       ELSE /\ handler' = [handler EXCEPT ![h] = [pc |-> "hydrate", msg |-> e]]
            /\ hydrating' = ~hydrated
            /\ UNCHANGED <<index, evicted, pendingIn>>
    /\ UNCHANGED <<nonces, hydrated, send, editor, store, onWire, bounds,
                   received, shown, deleted, announced, unchecked, dropped, forgotten>>

Resume(h) ==
    /\ handler[h].pc = "hydrate" /\ hydrated
    /\ Classify(h, handler[h].msg)
    /\ UNCHANGED <<nonces, hydrated, hydrating, send, editor, store, onWire, bounds,
                   received, shown, deleted, announced, unchecked, dropped, forgotten>>

Stored == {id \in Ids : store[id] # None}
Enumerations(S) == {q \in [1..Cardinality(S) -> S] : Range(q) = S}

\* The page holds the newest stored messages: all of them, or PageMax.
HydrationPage(page) ==
    IF Cardinality(Stored) <= PageMax THEN page = Stored ELSE Cardinality(page) = PageMax

\* Mutant: a message that was never confirmed is not read.
PageNonces_SentOnly(page) == {NonceOf(id) : id \in {m \in page : store[m].status = "sent"}} \ {None}

\* The nonces of the messages on the page.
PageNonces(page) == {NonceOf(id) : id \in page} \ {None}

HydrationDone ==
    /\ hydrating
    /\ \E page \in SUBSET Stored :
         /\ HydrationPage(page)
         /\ \E fresh \in Enumerations(PageNonces(page) \ Range(nonces)) :
              LET all == nonces \o fresh IN
              /\ nonces' = KeepLast(all, NonceMax)
              /\ forgotten' = forgotten \cup (Range(all) \ Range(nonces'))
                                       \cup (((Stored \ page) \cap Own) \ Range(nonces'))
    /\ hydrated' = TRUE /\ hydrating' = FALSE
    /\ UNCHANGED <<index, pendingIn, calls, store, onWire, bounds,
                   received, shown, evicted, deleted, announced, unchecked, dropped>>

\* Mutant: the promise is dropped from the map without being settled.
HydrationFails_WakesNobody ==
    /\ hydrating
    /\ Fault
    /\ hydrating' = FALSE
    /\ UNCHANGED <<index, pendingIn, nonces, hydrated, calls, store, onWire, past>>

\* The page query rejects: so do all the handlers that wait for it.
HydrationFails ==
    /\ hydrating
    /\ Fault
    /\ hydrating' = FALSE
    /\ handler' = [h \in Handlers |-> IF handler[h].pc = "hydrate" THEN Idle ELSE handler[h]]
    /\ UNCHANGED <<index, pendingIn, nonces, hydrated, send, editor, store, onWire, past>>

\* Mutant: the id is not put into the index.
LookupDone_NoIndex(h) ==
    LET e == handler[h].msg IN
    /\ handler[h].pc = "lookup" /\ Storage # "none"
    /\ IF store[e] # None
       THEN pendingIn' = pendingIn \ {e} /\ handler' = [handler EXCEPT ![h] = Idle]
       ELSE handler' = [handler EXCEPT ![h].pc = "save"] /\ UNCHANGED pendingIn
    /\ UNCHANGED <<index, nonces, hydrated, hydrating, send, editor, store, onWire, bounds,
                   received, shown, evicted, deleted, announced, unchecked, dropped, forgotten>>

\* storage.getMessage answers inside reserveInboundMessageId; on a miss the handler goes on
\* to index the id and to call saveMessage.
LookupDone(h) ==
    LET e == handler[h].msg IN
    /\ handler[h].pc = "lookup" /\ Storage # "none"
    /\ AddToMessageIndex(e)
    /\ IF store[e] # None
       THEN pendingIn' = pendingIn \ {e} /\ handler' = [handler EXCEPT ![h] = Idle]
       ELSE handler' = [handler EXCEPT ![h].pc = "save"] /\ UNCHANGED pendingIn
    /\ UNCHANGED <<nonces, hydrated, hydrating, send, editor, store, onWire, bounds,
                   received, shown, deleted, announced, unchecked, dropped, forgotten>>

\* Mutant: a failed lookup ends the handler after the id was indexed.
LookupFails_GivesUp(h) ==
    /\ handler[h].pc = "lookup" /\ Storage # "none"
    /\ Fault
    /\ AddToMessageIndex(handler[h].msg)
    /\ pendingIn' = pendingIn \ {handler[h].msg}
    /\ handler' = [handler EXCEPT ![h] = Idle]
    /\ UNCHANGED <<nonces, hydrated, hydrating, send, editor, store, onWire,
                   received, shown, deleted, announced, unchecked, dropped, forgotten>>

\* The lookup rejects: the message is taken for new.
LookupFails(h) ==
    /\ handler[h].pc = "lookup" /\ Storage # "none"
    /\ Fault
    /\ AddToMessageIndex(handler[h].msg)
    /\ handler' = [handler EXCEPT ![h].pc = "save"]
    /\ unchecked' = unchecked \cup {handler[h].msg}
    /\ UNCHANGED <<pendingIn, nonces, hydrated, hydrating, send, editor, store, onWire,
                   received, shown, deleted, announced, dropped, forgotten>>

\* The message is stored, message:received is emitted and the reservation released.
Accept(h, e) ==
    /\ store' = [store EXCEPT ![e] = [content |-> Original, status |-> "sent"]]
    /\ received' = [received EXCEPT ![e] = IF @ < MaxSeen THEN @ + 1 ELSE @]
    /\ announced' = announced \cup {e}
    /\ shown' = [shown EXCEPT ![e] = Original]
    /\ pendingIn' = pendingIn \ {e}
    /\ handler' = [handler EXCEPT ![h] = Idle]

InMemoryAccept(h) ==
    /\ handler[h].pc = "lookup" /\ Storage = "none"
    /\ AddToMessageIndex(handler[h].msg)
    /\ Accept(h, handler[h].msg)
    /\ UNCHANGED <<nonces, hydrated, hydrating, send, editor, onWire, bounds,
                   deleted, unchecked, dropped, forgotten>>

InboundSaved(h) ==
    /\ handler[h].pc = "save"
    /\ Accept(h, handler[h].msg)
    /\ UNCHANGED <<index, nonces, hydrated, hydrating, send, editor, onWire, bounds,
                   evicted, deleted, unchecked, dropped, forgotten>>

\* saveMessage rejects: an error event, no message:received, and the id stays indexed.
InboundSaveFails(h) ==
    /\ handler[h].pc = "save"
    /\ Fault
    /\ pendingIn' = pendingIn \ {handler[h].msg}
    /\ handler' = [handler EXCEPT ![h] = Idle]
    /\ dropped' = dropped \cup {handler[h].msg}
    /\ UNCHANGED <<index, nonces, hydrated, hydrating, send, editor, store, onWire,
                   received, shown, evicted, deleted, announced, unchecked, forgotten>>

-------------------------------------------------------------------------------
(* emitStreamEnd: the application hands over the final text of a streamed answer *)

EmitStreamEnd(h, e) ==
    /\ handler[h].pc = "idle" /\ NonceOf(e) = None
    /\ AddToMessageIndex(e)
    /\ IF Storage = "none"
       THEN /\ store' = [store EXCEPT ![e] = [content |-> Original, status |-> "sent"]]
            /\ shown' = [shown EXCEPT ![e] = Original]
            /\ UNCHANGED handler
       ELSE /\ handler' = [handler EXCEPT ![h] = [pc |-> "stream", msg |-> e]]
            /\ UNCHANGED <<store, shown>>
    /\ UNCHANGED <<pendingIn, nonces, hydrated, hydrating, send, editor, onWire, bounds,
                   received, deleted, announced, unchecked, dropped, forgotten>>

StreamSaved(h) ==
    LET e == handler[h].msg IN
    /\ handler[h].pc = "stream"
    /\ store' = [store EXCEPT ![e] = [content |-> Original, status |-> "sent"]]
    /\ shown' = [shown EXCEPT ![e] = Original]
    /\ handler' = [handler EXCEPT ![h] = Idle]
    /\ UNCHANGED <<session, send, editor, onWire, bounds,
                   received, evicted, deleted, announced, unchecked, dropped, forgotten>>

StreamSaveFails(h) ==
    /\ handler[h].pc = "stream"
    /\ Fault
    /\ handler' = [handler EXCEPT ![h] = Idle]
    /\ dropped' = dropped \cup {handler[h].msg}
    /\ UNCHANGED <<session, send, editor, store, onWire,
                   received, shown, evicted, deleted, announced, unchecked, forgotten>>

-------------------------------------------------------------------------------
(* updateMessage and deleteMessage *)

BeginEdit(o) ==
    /\ editor[o].pc = "idle"
    /\ bounds.edits < MaxEdits
    /\ bounds' = [bounds EXCEPT !.edits = @ + 1]

\* With no storage the whole call is one step on inMemoryMessages.
UpdateMessage(o, id, c) ==
    /\ BeginEdit(o)
    /\ ~EditPending => Settled(id)
    /\ store[id] # None
    /\ IF Storage = "none"
       THEN /\ store' = [store EXCEPT ![id].content = c]
            /\ shown' = [shown EXCEPT ![id] = c]
            /\ UNCHANGED editor
       ELSE /\ editor' = [editor EXCEPT ![o] = [pc |-> "reading", msg |-> id, content |-> c, copy |-> None]]
            /\ UNCHANGED <<store, shown>>
    /\ UNCHANGED <<session, send, handler, onWire,
                   received, evicted, deleted, announced, unchecked, dropped, forgotten>>

\* storage.getMessage(id): a missing message makes updateMessage throw.
UpdateRead(o) ==
    LET id == editor[o].msg IN
    /\ editor[o].pc = "reading"
    /\ editor' = [editor EXCEPT ![o] = IF store[id] = None THEN NoEdit
                                       ELSE [@ EXCEPT !.pc = "updating", !.copy = store[id]]]
    /\ UNCHANGED <<session, send, handler, store, onWire, bounds, past>>

\* storage.updateMessage(id, updated) is given the whole record that was read, so the merge
\* replaces every field.  It does nothing when the record has gone meanwhile.
UpdateMerge(o) ==
    LET id == editor[o].msg IN
    /\ editor[o].pc = "updating"
    /\ IF Storage = "indexeddb" /\ store[id] # None
       THEN /\ editor' = [editor EXCEPT ![o].pc = "putting"]
            /\ UNCHANGED <<store, shown>>
       ELSE /\ store' = [store EXCEPT ![id] = IF @ = None THEN @
                                ELSE [editor[o].copy EXCEPT !.content = editor[o].content]]
            /\ shown' = [shown EXCEPT ![id] = editor[o].content]
            /\ editor' = [editor EXCEPT ![o] = NoEdit]
    /\ UNCHANGED <<session, send, handler, onWire, bounds,
                   received, evicted, deleted, announced, unchecked, dropped, forgotten>>

\* Mutant: message:updated carries the record that was read, not the one written.
UpdatePut_EmitsOld(o) ==
    LET id == editor[o].msg IN
    /\ editor[o].pc = "putting"
    /\ store' = [store EXCEPT ![id] = [editor[o].copy EXCEPT !.content = editor[o].content]]
    /\ shown' = [shown EXCEPT ![id] = editor[o].copy.content]
    /\ editor' = [editor EXCEPT ![o] = NoEdit]
    /\ UNCHANGED <<session, send, handler, onWire, bounds,
                   received, evicted, deleted, announced, unchecked, dropped, forgotten>>

UpdatePut(o) ==
    LET id == editor[o].msg IN
    /\ editor[o].pc = "putting"
    /\ store' = [store EXCEPT ![id] = [editor[o].copy EXCEPT !.content = editor[o].content]]
    /\ shown' = [shown EXCEPT ![id] = editor[o].content]
    /\ editor' = [editor EXCEPT ![o] = NoEdit]
    /\ UNCHANGED <<session, send, handler, onWire, bounds,
                   received, evicted, deleted, announced, unchecked, dropped, forgotten>>

DeleteMessage(o, id) ==
    /\ BeginEdit(o)
    /\ ~EditPending => Settled(id)
    /\ store[id] # None
    /\ IF Storage = "none"
       THEN /\ store' = [store EXCEPT ![id] = None]
            /\ deleted' = deleted \cup {id}
            /\ UNCHANGED editor
       ELSE /\ editor' = [editor EXCEPT ![o] = [NoEdit EXCEPT !.pc = "finding", !.msg = id]]
            /\ UNCHANGED <<store, deleted>>
    /\ UNCHANGED <<session, send, handler, onWire,
                   received, shown, evicted, announced, unchecked, dropped, forgotten>>

DeleteRead(o) ==
    /\ editor[o].pc = "finding"
    /\ editor' = [editor EXCEPT ![o] = IF store[editor[o].msg] = None THEN NoEdit
                                       ELSE [@ EXCEPT !.pc = "deleting"]]
    /\ UNCHANGED <<session, send, handler, store, onWire, bounds, past>>

DeleteDone(o) ==
    LET id == editor[o].msg IN
    /\ editor[o].pc = "deleting"
    /\ store' = [store EXCEPT ![id] = None]
    /\ deleted' = deleted \cup {id}
    /\ editor' = [editor EXCEPT ![o] = NoEdit]
    /\ UNCHANGED <<session, send, handler, onWire, bounds,
                   received, shown, evicted, announced, unchecked, dropped, forgotten>>

\* Any storage call of an editor rejects.
EditFails(o) ==
    /\ editor[o].pc # "idle"
    /\ Fault
    /\ editor' = [editor EXCEPT ![o] = NoEdit]
    /\ UNCHANGED <<session, send, handler, store, onWire, past>>

-------------------------------------------------------------------------------
(* Page reload *)

Restart ==
    /\ bounds.restarts < MaxRestarts
    /\ bounds' = [bounds EXCEPT !.restarts = @ + 1]
    /\ index' = <<>> /\ pendingIn' = {} /\ nonces' = <<>>
    /\ hydrated' = FALSE /\ hydrating' = FALSE
    /\ send' = [m \in Own |-> IF Settled(m) THEN send[m] ELSE [pc |-> "lost", copy |-> None]]
    /\ handler' = [h \in Handlers |-> Idle]
    /\ editor' = [o \in Editors |-> NoEdit]
    /\ evicted' = {} /\ announced' = {} /\ dropped' = {}
    /\ IF Storage = "none"
       THEN /\ store' = [id \in Ids |-> None]
            /\ received' = [id \in Ids |-> 0]
            /\ deleted' = {}
            /\ forgotten' = Own
            /\ UNCHANGED shown
       ELSE /\ shown' = [id \in Ids |-> IF store[id] = None THEN shown[id] ELSE store[id].content]
            /\ UNCHANGED <<store, received, deleted, forgotten>>
    /\ UNCHANGED <<onWire, unchecked>>

Next ==
    \/ \E m \in Own :
         \/ SendMessage(m) \/ PipelineRejects(m) \/ PipelineDone(m)
         \/ SaveDone(m) \/ SaveFails(m) \/ WireAccepts(m) \/ SendAcked(m) \/ SendRejected(m)
         \/ MarkSent(m) \/ PutSent(m) \/ MarkFails(m)
    \/ \E h \in Handlers :
         \/ \E e \in Ids : Deliver(h, e) \/ EmitStreamEnd(h, e)
         \/ Resume(h) \/ LookupDone(h) \/ LookupFails(h)
         \/ InMemoryAccept(h) \/ InboundSaved(h) \/ InboundSaveFails(h)
         \/ StreamSaved(h) \/ StreamSaveFails(h)
    \/ HydrationDone \/ HydrationFails
    \/ \E o \in Editors :
         \/ \E id \in Ids : DeleteMessage(o, id) \/ \E c \in Contents : UpdateMessage(o, id, c)
         \/ UpdateRead(o) \/ UpdateMerge(o) \/ UpdatePut(o)
         \/ DeleteRead(o) \/ DeleteDone(o) \/ EditFails(o)
    \/ Restart

Spec == Init /\ [][Next]_vars

\* The callers, the network and the user may stop; what the code has started is resumed.
Fairness ==
    /\ \A m \in Own :
         WF_vars(PipelineDone(m) \/ SaveDone(m) \/ WireAccepts(m) \/ SendAcked(m)
                 \/ MarkSent(m) \/ PutSent(m))
    /\ \A h \in Handlers :
         WF_vars(Resume(h) \/ LookupDone(h) \/ InMemoryAccept(h) \/ InboundSaved(h) \/ StreamSaved(h))
    /\ WF_vars(HydrationDone)
    /\ \A o \in Editors :
         WF_vars(UpdateRead(o) \/ UpdateMerge(o) \/ UpdatePut(o) \/ DeleteRead(o) \/ DeleteDone(o))

FairSpec == Spec /\ Fairness

-------------------------------------------------------------------------------
(* Properties *)

Bounds == [restarts : 0..MaxRestarts, faults : 0..MaxFaults, edits : 0..MaxEdits]

SendStates    == {"idle", "pipeline", "saving", "sending", "marking", "putting", "done", "failed", "lost"}
HandlerStates == {"hydrate", "lookup", "save", "stream"}
EditorStates  == {"reading", "updating", "putting", "finding", "deleting"}

SessionOK ==
    /\ index \in Seq(Ids) /\ pendingIn \subseteq Ids /\ nonces \in Seq(Own)
    /\ hydrated \in BOOLEAN /\ hydrating \in BOOLEAN

SendCalls    == [pc : SendStates \ {"putting"}, copy : {None}] \cup [pc : {"putting"}, copy : Record]
HandlerCalls == {Idle} \cup [pc : HandlerStates, msg : Ids]
EditorCalls  ==
    {NoEdit}
    \cup [pc : {"reading", "finding", "deleting"}, msg : Ids, content : Contents, copy : {None}]
    \cup [pc : {"updating", "putting"}, msg : Ids, content : Contents, copy : Record]

CallsOK ==
    /\ send \in [Own -> SendCalls]
    /\ handler \in [Handlers -> HandlerCalls]
    /\ editor \in [Editors -> EditorCalls]

StoreOK == store \in [Ids -> Record \cup {None}] /\ onWire \subseteq Own /\ bounds \in Bounds

HistoryOK ==
    /\ received \in [Ids -> 0..MaxSeen] /\ shown \in [Ids -> Contents]
    /\ evicted \subseteq Ids /\ deleted \subseteq Ids /\ announced \subseteq Ids
    /\ unchecked \subseteq Ids /\ dropped \subseteq Ids /\ forgotten \subseteq Own

\* Type invariant: every call in progress names a message, every copy is a record.
TypeOK == SessionOK /\ CallsOK /\ StoreOK /\ HistoryOK

Accepting(h) == handler[h].pc \in {"lookup", "save"}

\* A reservation in pendingInboundMessageIds belongs to exactly one handler that is between
\* reserveInboundMessageId and the finally block: none leaks, and two concurrent deliveries
\* of an id never both go on to store and announce it.
ReservationExclusive ==
    /\ \A h \in Handlers : Accepting(h) => handler[h].msg \in pendingIn
    /\ \A e \in pendingIn : \E h \in Handlers : Accepting(h) /\ handler[h].msg = e
    /\ \A g, h \in Handlers :
         Accepting(g) /\ Accepting(h) /\ handler[g].msg = handler[h].msg => g = h

\* message:received is emitted once per id, over redeliveries, concurrent deliveries and
\* reloads, unless the message was deleted in between, the duplicate lookup failed, or
\* (without storage) the id fell out of the capped index.
ReceivedAtMostOnce ==
    \A e \in Ids :
        received[e] <= 1 \/ e \in deleted \/ e \in unchecked
                        \/ (Storage = "none" /\ e \in evicted)

\* The server's copy of an own message is never announced as a received message: its nonce
\* is known before the message can reach the server and is found again after a reload.  The
\* exceptions: the message was deleted, or its nonce fell to SENT_NONCE_MAX or the page limit.
EchoSuppressed ==
    \A e \in Ids :
        NonceOf(e) # None /\ received[e] > 0 =>
            NonceOf(e) \in deleted \cup forgotten

\* The dedup index swallows no message it never took in: a peer's message whose id is
\* indexed has been announced or stored, is being stored, or met a failing save.
NoInboundSwallowed ==
    \A e \in Range(index) :
        NonceOf(e) = None =>
            \/ received[e] > 0 \/ store[e] # None \/ e \in deleted \cup dropped
            \/ \E h \in Handlers : handler[h].pc \in {"save", "stream"} /\ handler[h].msg = e

\* After message:sent, the stored copy is marked sent (or the message was deleted).
SentStatusDurable ==
    \A m \in Own : send[m].pc = "done" /\ store[m] # None => store[m].status = "sent"

\* When no call on a message is in progress, the stored body is the one the last event about
\* it carried: what the user was shown is what a reload will show.
EventsMatchStore ==
    \A id \in Ids :
        /\ store[id] # None
        /\ Settled(id)
        /\ \A o \in Editors : editor[o].msg # id
        /\ \A h \in Handlers : handler[h].msg # id
        => store[id].content = shown[id]

\* What subscribers were told of a message is what the store keeps of it.
StoreKeepsWhatWasSaid == SentStatusDurable /\ EventsMatchStore

\* Within a session a message is announced once even if it is deleted meanwhile and the
\* server redelivers it: only an id that fell out of the capped index can come back.
OncePerSession ==
    [][\A e \in announced : received'[e] > received[e] => e \in evicted]_vars

\* An inbound message waiting for nonce hydration is handled in the end: the shared promise
\* always settles, and settling it wakes every handler that joined it.  sendMessage settles:
\* every await in it is answered.
CallsSettle ==
    /\ \A h \in Handlers : handler[h].pc # "idle" ~> handler[h].pc = "idle"
    /\ \A m \in Own : send[m].pc = "pipeline" ~> Settled(m)
===============================================================================
