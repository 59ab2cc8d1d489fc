# Verification of kaira-chat

TLA+ specifications of the kaira-chat runtime, model-checked with TLC and proved with TLAPS.
Paths are relative to the repository's root; `chat-engine.ts` is
`packages/chat-core/src/engine/chat-engine.ts`, `runtime-registry.ts` is
`apps/web/lib/demo/server/runtime-registry.ts`.

To check everything: `tlc -config <run>.cfg <module>` for each run of `PROJECT.json`, and
`tlapm <module>` for each `*Proofs.tla`.

## 1. The system

A chat client is a `ChatEngine` over pluggable parts. React code subscribes to its events; a
transport carries messages to and from a server; a storage keeps them over reloads. The demo
application runs engines on the server too and carries their events to the browser by polling,
server-sent events or WebSockets.

```
 browser                                                         server
 ChatSurface, hooks, DevTools                                    runtime-registry (per demo)
      ▲ events     │ send, load                                    LocalDemoRuntime, DIT runtime
      │            ▼                                                 │            │
 ChatProvider ─▶ ChatEngine ──▶ ITransport ──── HTTP routes ──▶ ChatEngine ─▶ DitTransport ─▶ DIT
                   │ │ │      (polling, websocket)                  │
          EventBus─┘ │ └─ IStorage (memory, IndexedDB)         event broker ─▶ polls, SSE,
            MiddlewarePipeline, plugins                                        WebSocket bridge
```

Everything runs on JavaScript's event loop: code between two `await`s is atomic, except that the
subscribers it notifies may call back into it. All the concurrency is that of promises, timers,
sockets, reloads and callbacks.

| Component | State | Operations | What makes it correct |
|---|---|---|---|
| ChatEngine, messages | `messageIndex`, `pendingInboundMessageIds`, `sentClientNonces`, hydration promises, `inMemoryMessages` | sendMessage, inbound delivery, updateMessage, deleteMessage, emitStreamEnd | a message is received once, an own message's echo never; nothing is swallowed; what events say is what is stored |
| ChatEngine, lifecycle | `connectionState`, `transportUnsubs`, `installedPlugins` | connect, disconnect, use | follows the transport; listens once; disconnect leaves nothing behind |
| ChatEngine, typing; TypingStateStore | throttle times, idle timers, remote entries with expiry | notifyTyping, stopTyping, remote events, disconnect | who types is shown while typing and not much longer |
| EventBus | a Set of handlers per event | on, once, off, clear, emit | a subscriber hears every event |
| MiddlewarePipeline | the stack, an index per run | use, remove, clear, run | each middleware once, in order |
| ConnectionStateMachine | the state | transition | no invalid transition |
| PollingTransport | state, generation, timer, `isPolling`, `pendingImmediatePoll` | connect, disconnect, send, the poll loop | one loop, no overlap, silent after disconnect |
| WebSocketTransport | state, generation, socket, reconnect timer | connect, disconnect, four socket callbacks, reconnect | no leaked socket, one recovery path |
| DitTransport | cursor, seen ids, `hasBootstrappedHistory` | connect, disconnect, paged bootstrap, polls | no gap, no repeat |
| Storage (memory, IndexedDB) | records, database handle, fallback | saves, updates, deletes, queries, pages | what was saved is read; both answer alike |
| Serializer and the message switches | none | build, edit, check, serialize | no hop refuses or loses what the last let through |
| ChatProvider | `isActive`, attempt number, `disconnectPromiseRef` | the effect and its cleanup | survives remounts |
| Hooks, ChatSurface | lists, previews, optimistic entries, history window | loads, events, switches, scrolling | the lists follow the store |
| DevTools hook | lists and streams per engine | loads, events, change of engine | shows the inspected engine |
| Event broker, demo runtimes, HTTP routes | sessions, capped history, sequence numbers | requests, replies, expiry | pages are served what is theirs, nothing is skipped |
| Demo client, SSE bridge, WebSocket demo server | cursors, EventSource, sockets and bridges | polls, switches, reloads, reconnects | each event once, nothing left behind |

Interactions that are hard: calls that overlap at an `await` (two deliveries of one message, an edit
of a message that is being sent, connect() and disconnect() in the middle of each other, a remount,
a load that answers after an event); callbacks into running code; late answers of an earlier
connection, conversation or engine; failure of one step of several; a page reload, which keeps the
storage and loses the engine's memory, a server restart and an expiring session, which do the
opposite; capped sets and histories. `PROJECT.json` lists the hazards one by one, each at its line,
with the properties that cover it.

## 2. The modules

### 2.1 The engine and its transports

| Module | Models | Actions correspond to |
|---|---|---|
| `EngineMessages` | the message half of ChatEngine over an IStorage | one action per stretch between two awaits of sendMessage, handleIncomingTransportMessage, updateMessage, deleteMessage and emitStreamEnd, one per failing call, `Restart` for a reload |
| `EngineLifecycle` | connect, disconnect, use, listener wiring, plugins, the ConnectionStateMachine | `Connect` and `Disconnect` run to their first await, `ConnectOpened`, `PluginInstalled`, `Disconnected`... are the continuations; `Transport*` is any ITransport |
| `ChatProvider` | the autoConnect effect; EXTENDS `EngineLifecycle` | `Mount`, `Unmount`, and the continuations of their promises |
| `Typing` | a typist's engine, a lossy delayed wire, a viewer's engine and its hook | typing calls, a clock that fires due timers, deliveries, losses, disconnects, re-renders |
| `EventBus` | on, once, off, clear and nested emits | a handler's turn is a step; it may make any call while it runs |
| `MiddlewarePipeline` | use, remove, clear, run | each next(), return or throw of a middleware |
| `TransportContract` | abstract specification of an ITransport | the state changes and deliveries the engine relies on |
| `PollingTransport` | the polling transport | calls, answers of config.poll() and config.send(), the timer |
| `WebSocketTransport` | the WebSocket transport | calls, socket events, the reconnect timer |

* **EngineMessages.** `index`, `pendingIn` and `nonces` are `messageIndex`,
  `pendingInboundMessageIds` and `sentClientNonces`; the capped JavaScript Sets are sequences in
  insertion order. `send[m]`, `handler[h]` and `editor[o]` are calls in progress with a program
  counter and the copy of the record they hold over an await. A record keeps two fields: a body and
  a status. An echo is the server's copy of an own message under another id (`EchoOf`). IndexedDB's
  updateMessage takes two steps (get, put), MemoryStorage's one. `received`, `shown`, `announced`
  and so on are history variables of the properties.
* **Transports.** `job` is the synchronous code that waits for its subscribers to return: nothing
  but a call made by a subscriber may run before it goes on. `Reentrant` says from which of these
  notifications a subscriber may call disconnect(); "batch" stands for a subscriber of messages that
  calls it, or of the state change before them. Delays are not modelled: an armed timer may
  fire at any later time, which covers every back-off. The contract's `coming`, the events taken in and
  not yet handed out, is no variable of the transports but read off their `job` (`Coming`).
* **EngineLifecycle.** `call[c]` is the c-th connect() or disconnect() and the await it stands at;
  `wired` holds the calls whose listeners are on the transport. A transport notifies synchronously,
  so an engine that listens moves in the same step (`Notify`). `Transitions` is VALID_TRANSITIONS,
  `Paths` is getConnectionTransitionActions(). `Overlap` says whether the application waits for its
  calls; the engine below `ChatProvider` has `Overlap = TRUE`, for there the effect's timing decides.
* **Typing** is the one module with a clock: what it is about are three timeouts and a delay.

`PollingTransport` and `WebSocketTransport` INSTANCE `TransportContract` with a refinement mapping
and are shown to implement it (`ImplementsContract`), by TLC and by proof.

### 2.2 Storage and the way of a message

| Module | Models | Actions correspond to |
|---|---|---|
| `MessageStorage` | IndexedDBStorage's lazy open, termination and fallback to memory, with writers and a reader that pages | opens, their failure, each operation's start and end |
| `StorageQueries` | the queries of IndexedDB, MemoryStorage and the engine's own maps | the writes, made to all three; the queries are operators over their contents |
| `WireFormat` | the five switches over message types: building (twice), editing, the engine's check, the serializer's | one message from its caller to server and storage, and back from it |

`StorageQueries` and `WireFormat` compare definitions that the code keeps in several places: each of
them is an operator of its own, translated from its own file. Ties are part of it: an index orders ids
by their code units, the fallback by `localeCompare()` (`MemoryStorage.ts:104-118`), so the numbers of
the ids stand for the one order and the constant `LocaleRank` for the other.

### 2.3 Browser

| Module | Models | Actions correspond to |
|---|---|---|
| `ConversationView` | useMessages, useOptimisticMessages, useStreamingMessage under a ChatSurface | loads, events, sends, streams, switches of conversation |
| `DevTools` | useChatDevTools | what the inspected engines do, the hook's loads, a change of engine |
| `StreamBridge` | the SSE response of the server and the page's StreamEventBridge | publications, the connection and its breaks, what the page's engine is told |

### 2.4 Server and the feed to the browser

| Module | Models | Actions correspond to |
|---|---|---|
| `DemoApi` | every HTTP route, sessions and their expiry | a request is a step, a reply that takes seconds another |
| `DemoFeed` | sessions, broker, cursors: from LocalDemoRuntime to the polling page | replies direct, streamed and failing; the two reads of a snapshot; polls, switches, reloads |
| `DemoSocketBridge` | the WebSocket demo's server | each fetch, timer and socket event of each bridge |
| `DitTransport` | the paged bootstrap and the cursor over a chatroom | connects, polls by page, posts by others, failures |
| `DitHistory` | EXTENDS `DitTransport`: with the server process, a browser's storage and its window | polls, history pages, reloads of the page, restarts of the server |

`MCParts` and `MCLive` check several of these side by side: a behaviour is one of a single part
(`part`) and leaves the others as they are, so the state spaces add up and no interaction is claimed
that the code does not have. `MCEngineMessages`, `MCEngineLifecycle` and `MCDemoFeed` give values to
constants that are sequences or functions. `*Proofs` hold theorems.

## 3. What is checked

### 3.1 Runs

| Run | Distinct states | What it shows |
|---|---|---|
| `EngineMessages_idb` | 758 k | IndexedDB, hydration page of one, an own message, its echo, a peer's message, two deliveries at a time, an editor, a reload, a failing call |
| `EngineMessages_limits` | 610 k | no storage: two own messages and two remote ones against a nonce set of one and an index of two |
| `EngineMessages_liveness` | 37 k | MemoryStorage: every handler and every sendMessage settles |
| `PollingTransport_safety` | 2 k | the loop, the contract, progress, with subscribers that disconnect when told `connected` or within a batch |
| `WebSocketTransport_safety` | 40 k | sockets, recovery, the contract, progress, with subscribers that disconnect from any notification or batch |
| `EngineLifecycle_sequential` | 1.5 k | an application that awaits its calls |
| `DemoFeed_cursors` | 785 k | two conversations, two sessions, one browser page |
| `Parts_safety` | 1.80 M | twelve parts side by side (below) |
| `Live_parts` | 193 k | ChatProvider, DitTransport, the WebSocket bridge, with their liveness |
| `EngineMessages_editrace`, `DemoFeed_final`, `StreamBridge_chunks` | | violations, see section 4 |

`Parts_safety` by part: ConversationView 51 k for its messages and 1.5 k for its streams, which share
only the conversation that is shown (together they are 1.44 M, checked once), DitHistory 76 k, Typing
420 k, MessageStorage 426 k, DevTools 441 k, EventBus 167 k, WireFormat 14 k, StorageQueries 22 k,
DemoApi 52 k, StreamBridge 42 k, MiddlewarePipeline 84 k.

### 3.2 Properties

* **EngineMessages.** `ReservationExclusive`: two deliveries of an id are never both past the
  duplicate check. `EchoSuppressed`: an own message's echo is never announced as received,
  reloads included. `NoInboundSwallowed`: the index holds no id whose message was lost.
  `OncePerSession`, `ReceivedAtMostOnce`: announced once per session, and over reloads.
  `StoreKeepsWhatWasSaid`: status and body that the events announced are those stored.
  `CallsSettle`: calls settle. The exceptions each of them names are the code's: deletion, a failing
  storage call, a set that overflowed.
* **Transports.** `PollsNeverOverlap`, `OneLoop`, `SendIsPolledSoon`, `SocketsInHand` (no socket is
  open or under way that the transport does not know, and recovery has one source),
  `ImplementsContract`, `AlwaysProceeds` (polling and recovery go on, disconnect() settles).
* **EngineLifecycle, ChatProvider.** `EngineMirrorsTransport`, `StoppedIsClosed`,
  `StoppedIsUninstalled`, `CallsSettle`; `ConnectedAsMounted`: the engine comes to rest in the state
  the last mount or unmount asked for, unless an unmount came before it had settled (section 4.2).
* **Browser.** `ListFollowsStore`, `OwnMessageStays`, `PreviewRuns`: the lists and previews follow
  the store over late loads, reconciliation and switches. `HistoryIsWhole`: scrolling reaches every
  message. `InspectorFollows`: DevTools shows the inspected engine. `TypistIsShown`: both ways, with
  loss, delay and disconnects. `ReachesSubscribers`: nested dispatches lose no handler. `OncePerRun`:
  the pipeline. `BridgeRepeats`: what SSE repeats of the streams.
* **Storage and wire.** `ReadsWhatWasSaved`: over the fallback, a terminated database and paging.
  `StoresAgree`: three stores, one answer, but for the order of ids of one time where the index and
  `localeCompare()` differ; and pages add up to the whole list. `WireAgrees`: what one hop lets through the next accepts
  and keeps.
* **Server.** `NothingSkipped`, `MessagesArrive`: cursors. `PagesAreServed`: routes and sessions.
  `NoGapNoRepeat`, `NewMessagesArrive`: the DIT transport. `ReceivesAPrefix`, `ClosedIsQuiet`,
  `EventsReachSockets`: the WebSocket demo.

Each property of a passing run has in `PROJECT.json` a mutant: a plausible bug in one definition
under which TLC finds the property violated.

### 3.3 Bounds

| Part | Bounds and why |
|---|---|
| EngineMessages | two handlers, as the races are between two deliveries of one id; limits one below what the messages need, so that each overflows; one reload and one failure, which combine |
| PollingTransport, WebSocketTransport | 8 and 6 generations are four and three connections with their disconnects: an answer of one connection can come in a later one, and again in the next; three reconnect attempts; batches of up to two messages |
| EngineLifecycle | four awaited calls are connect, disconnect, connect, disconnect; two plugins configured and one used later, so that one can fail between others; two losses |
| ChatProvider | three mounts: the Strict Mode remount and a later one |
| DemoFeed | a history of two events and a snapshot of one message are exceeded by four events; two sessions give an expiry or a restart; one failing reply |
| DitTransport, DitHistory | pages of two, at most two of them, against a room of six or seven: the bootstrap may stop before the beginning, and the history's window opens twice |
| Typing | throttle 2, idle 2, TTL 6, delay up to 2, horizon 9: the TTL is just what the other three need, and a session outlives it |
| ConversationView, DevTools | two conversations or engines, an own and a remote message, two streams, two loads, three server effects, two switches back and forth |
| MessageStorage | pages of one over three messages, two opens, one rejection |
| StorageQueries | three messages over two times, so that ties occur, two conversations; `LocaleRank` swaps the first two ids, so that ties of the two orders and ties of one both occur |
| EventBus | two handlers, two topics and the wildcard, dispatches nested twice |
| MiddlewarePipeline | three middlewares, two next() calls each, one run with registrations and removals meanwhile |
| StreamBridge, DemoSocketBridge | two streams, two conversations, one break; two sockets and two breaks |
| DemoApi | two visitors, a TTL of two ticks |

`SYMMETRY` is used for the handlers of EngineMessages in `EngineMessages_idb` alone, which has no
liveness property. `CHECK_DEADLOCK FALSE` stands in every configuration: a client that nobody calls
may stop, and the bounds end every behaviour.

### 3.4 Fairness

Only weak fairness, and only for what the program itself has under way: an answer of the storage or
of the network that a call waits for (`EngineMessages.Fairness`), a continuation of connect() and
disconnect() and the transport's answer to them (`EngineLifecycle`), an armed timer, a notification
that is under way, a config.poll() that settles, an open that succeeds or fails, the poll loop of
DitTransport, the page's polls in DemoFeed and the fetches and timers of each socket's bridge.
Calls by the application, messages by peers, losses, failures, redeliveries and reloads are never
fair. A transport whose call never settles falls outside these assumptions; two cases of the code
in which it does not are in section 4.

## 4. Where code and documents disagree, and what else was seen

### 4.1 Findings, each with a violation run

1. `EngineMessages_editrace`. `updateMessage()` writes back the whole record it read
   (`chat-engine.ts:763`), so an edit that overlaps a send turns `sent` back into `pending`
   (`docs/system-architecture.md:34` says "Message marked `sent`").
2. `DemoFeed_final`. `emitStreamEnd()` puts the final message's id into the index, so the inbound
   copy that `runtime-registry.ts:381` emits next is dropped as a duplicate: the final message of a
   stream never arrives by polling (`docs/system-architecture.md:366`, `apps/web/README.md:93`).
3. `StreamBridge_chunks`. The SSE response drops `message:stream:chunk`, whose event names no
   conversation (`runtime-registry.ts:1222-1227`, `chat-engine.ts:819-827`): the page is told of a
   stream's start and end only (`docs/system-architecture.md:353,364`, `apps/web/README.md:91`).

### 4.2 Excluded by an assumption of a property

These are behaviours of the code that the properties name as exceptions or that a constant excludes.

* A subscriber that calls `disconnect()` in the middle of a batch is still handed the rest of it, by
  either transport; the contract says so (`Deliver` from any state, `Connect` only when nothing is
  left). `PollingTransport` waits for that poll before it reports `disconnected`, so that nothing
  arrives later; `WebSocketTransport` reports it first. The subscriber's disconnect() waits for the
  poll that called it and settles, since `emitMessage()` awaits no subscriber (`AlwaysProceeds`).
  That a subscriber calls `connect()` too before its batch is over is not modelled.
* A subscriber that calls `disconnect()` when told of `connecting` leaves a polling transport
  `connected` without a loop, although disconnect() "Stops polling and closes transport"
  (`polling-transport.ts:105`): `connect()` goes on with `setState('connected')` (line 88). With
  "connecting" in `Reentrant`, TLC finds `ImplementsContract` violated; the run and the theorems
  exclude it.
* A WebSocket `connect()` that `disconnect()` interrupts in its first attempt may never settle
  (`websocket-transport.ts:204,288`): disconnect() takes the socket's callbacks off, and they alone
  would settle it.
* With overlapping calls the engine may end connected after disconnect(), or with plugins left
  installed; a second `disconnect()` returns at once while the first still runs
  (`chat-engine.ts:550`). Hence `Overlap = FALSE` for `StoppedIsClosed`, `StoppedIsUninstalled` and
  `EngineMirrorsTransport`. `ConnectedAsMounted` is about remounts at any moment, as the effect
  waits for its last disconnect; it holds until the first unmount that comes before engine and
  effect have settled (`hasty`).
* `messageIndex` without storage forgets what it evicted; a redelivery is then announced again.
* A deletion between a load's answer and its merge brings the message back to the list
  (`useMessages.ts:93-95`). `useStreamingMessage` keeps a preview after switching away and back.
  Optimistic entries are not scoped to a conversation (`docs/system-architecture.md:206`).
* A page whose history starts behind the newest eight messages after a server restart keeps a hole
  between what its IndexedDB holds and what the server bootstraps (`page.tsx:72`); a cursor of a
  deleted message starts paging over.
* An SSE reconnect loses the events of the gap: an end that is lost leaves the preview standing.
* A disconnect or a switch of conversation leaves the last typist shown until the TTL
  (`docs/design-guidelines.md:300`); the TTL is 6 s where `docs/system-architecture.md:74` says 3 s.
* Returning DevTools to an engine inspected before shows that engine's old lists until they have
  been loaded, and `message:status` is not applied.
* EventBus: a once() handler runs again when an emit is nested in its own dispatch
  (`event-bus.ts:78`, `:31`); the dispatch of a Set that was replaced meanwhile deletes the new one
  (`event-bus.ts:83-84`); the once flag belongs to the handler, not to the subscription.
* MiddlewarePipeline: a second next() goes on at the shared index, so what it passes on bypasses
  later middlewares; removing a middleware behind a running index skips one.
* WebSocket demo: frames sent before the bridge listens are lost, and a socket that closes during
  the bootstrap leaves its bridge behind until its first send.

### 4.3 Differences between copies of one rule

* NaN and infinite numbers in `file.size`, dimensions and `aiMetadata` pass
  `validateBuiltInMessagePayload`, become null in JSON, and every later `getMessages` page that holds
  the record rejects. An inbound message of an unknown type is accepted by the engine
  (`chat-engine.ts:1035`) and makes IndexedDB's read reject the page.
* Over WebSocket (the server closes with 1008) and DIT (`extractMessageText` is null) a message
  without text is marked `sent` and never reaches the server. POST trims the text and DIT's transport
  does not, so what was sent and its echo may differ in white space. A body that is no JSON is
  answered with 500 by the messages, typing and chat routes, and with 400 by the control route alone.
* `getMessages({after, before})` with `after >= before` rejects in IndexedDB and is empty in memory.
  The engine's own map takes 0 for no bound (`chat-engine.ts:735-736`) and keeps the order of
  insertion for equal times; without storage getConversations ignores its query (584-590).
* IndexedDB orders ids of one time by code units, its fallback by `localeCompare()`, so
  ties may be listed, and paged, in another order by the one than by the other.
* IndexedDB full: `docs/system-architecture.md:175` promises the fallback, a `put` just rejects.
* `server-chat-engine.ts:73-76` keeps a rejected promise for good. `isDemoId` uses `in`, so
  `toString` passes and isAvailable() throws: 500 where 404 is meant. The legacy events route
  answers 200 with an empty list on any error.
* The expiry of a session orphans an SSE listener that is open on it.

### 4.4 Seen, not modelled

* `DemoRuntimeProvider.tsx:190,208`: leaving a demo page and coming back gives a new instance with an
  empty `disconnectPromiseRef`; `engine.connect()` returns at once while the old disconnect runs, the
  page says ready and the engine ends disconnected.
* `ChatSurface.tsx:267,292`: the thinking timer of a second send is not restarted.
* `void sendTransportTypingEvent(...)` has no catch.

## 5. What is proved

Each module of proofs extends the modules it is about. TLAPS proves for every value of the constants,
under the modules' named ASSUMEs, what the runs show for small ones. The bounds of the exploration are
constants like any other, so no theorem depends on them.

| Module | Theorems | The argument |
|---|---|---|
| `EngineMessagesProofs` | `TypeCorrect`, `ReservationsAreExclusive`, `EchoesAreSuppressed` | a reservation is held by exactly the handler whose program counter says so; `EchoInv`: an own message on the wire is remembered, by its nonce in the set or (before hydration) in the store, or is one of those an exception covers; a handler past hydration that accepts an echo accepts one of these |
| | `AnnouncedOncePerSession`, `MessagesAreReceivedOnce`, `IndexSwallowsNothing`, `SettledEditsAreKept` | `OnceInv`: what was announced is in the index or was evicted, and whoever holds the reservation of an announced id took it after the eviction; `ReceivedInv`: what was announced is stored or deleted, and a save follows a lookup that missed; `Accounted`: every indexed id has a cause; `KeepInv`: store, events and every copy held over an await agree, if `~EditPending` |
| `EngineLifecycleProofs` | `TypeCorrect`, `ListensOnce`, `ListensToWhatItReports`, `EngineIsTruthful`, `DisconnectCloses`, `DisconnectUninstalls` | `ListenInv` holds for any overlap; `SeqInv` and `PlugInv` describe, for one call at a time (`~Overlap`), each place a call may stand at, with the plugins before it installed and those after it not |
| | `ProviderConnects` | until the first hasty unmount the effect makes one call at a time, so `SeqInv` carries over to the engine below it, although `Overlap = TRUE`; `EffectInv` and `ConnectInv` tie the effect's refs to the stage of the last call |
| `PollingTransportProofs` | `TypeCorrect`, `PollsDoNotOverlap`, `LoopIsSingle`, `SendsArePolledSoon`, `KeepsTheContract` | `PollInv` ties isPolling to the one poll in flight; `LoopInv`: timer or poll, never both, of the current generation. The last three assume `CallsBackSafely` (`"connecting" \notin Reentrant`, section 4.2); of a batch nothing is left in `disconnected` since isPolling is set until its end |
| | `HopsAgree` | (`WireFormat`) `WireInv`: what is held and announced has every field as it was meant, but for the named values; what a caller or the server can give parses on the way back, checked field by field (`FieldShapes`, `ValuesParse`, `ServerMessages`), and an edit replaces one field in what was meant and in what is held |
| `WebSocketTransportProofs` | `TypeCorrect`, `SocketsAreInHand`, `KeepsTheContract` | `SocketInv`: exactly one attempt or timer is the recovery, every other socket is closed; the refinement holds for every `Reentrant`: a batch keeps the code on the stack, so nothing connects before it is handed out |
| `EnginePartsProofs` | `StorageServesWhatWasSaved` | `StorageInv`: whoever may write holds the open in use, and nobody the memory before the fallback; `PagingInv`: what was there all the time lies behind the reader's cursor or has been read |
| | `BusReachesSubscribers` | `BusInv`: a handler subscribed with on() is in the event's Set, a Set belongs to one event, and the handlers a dispatch owes a call are among those it has left to call |
| | `AnyStoreAnswersAlike`, `PagesAddUp` | (`StorageQueries`) `QueryInv`: the records are those of the Maps, key fields included, and the engine's own maps hold the same until a storage is changed behind its back. A sort returns a list of its set in the order of the keys (`SortedLists`), there is only one (`ListIsOne`), filtering before or after sorting makes no difference (`FilteredLists`), and two lists by the same times have the same time at every place, since otherwise n ids would have to stand at n - 1 places (`NotEarlier`, by the pigeonhole). Pages: the first page after which too little was read does not exist |
| | `MiddlewaresRunOnce` | `PipelineInv`: what a run has called lies before its index; in a run that was not bent each call was handed what the one before passed on |
| `BrowserProofs` | `ListsFollowTheStore`, `OwnMessagesStay`, `PreviewsRun` | `FollowInv`: each answered load that may still be merged gives every followed message its stored version, or leaves it as the list has it; `OwnInv`: an entry is given up only when the list and those answers have the message |
| | `TypistsAreShown` | `TypingInv`: a start in flight or an entry that has not expired covers the typist until the next start is due. Assumes `EmitThrottle + IdleTimeout + MaxDelay <= RemoteTtl`: 2000 + 1500 + delay against 6000 ms, so delays of up to 2.5 s |
| | `InspectorShowsTheEngine` | `DevInv`: the last event on its way about a message has what is stored; a message of the list, or of what a load has read, that no event is about is as stored or is among those a late answer undid |
| | `StreamsAreRepeated` | (`StreamBridge`) `OnePlaceInv`: a start or a stop that was emitted is told, waits for the storage or is on its way, and only one of these; `StartFirstInv` orders the places; `AttendedInv`: a stream whose start an open source has taken is in one of them, and of the source's conversation |
| `DemoFeedProofs` | `CursorsSkipNothing` | `FeedInv`: the property, and the same of the cursor that a poll in flight will bring together with what its answer brings; a snapshot takes the sequence number first and reads the messages later, so what arrives between comes twice and is not passed over |
| `ServerProofs` | `ClientsReceiveAPrefix`, `ClosedBridgesAreQuiet` | `ReceivedInv`: a client has received exactly the events up to its bridge's cursor; `TrackedInv`: a bridge is in the registry from the moment it listens until its socket closes |
| | `DitHasNoGap` | `DitInv`: what the bootstrap has collected is an interval that ends at the newest message of its first page; what was handed over is one that ends at the cursor, and the newest of it are in `seenMessageIds` |
| | `HistoryHasNoHole` | `HistoryInv`: the server has got an interval; the database of a page that is `whole` is one too, reaches back to the server's oldest message or further, and has everything up to the page's cursor; a page of the history is asked for from its oldest message backwards |
| | `RoutesServeThePages` | (`DemoApi`) `SessionsKept`: a page's session was accessed no earlier than the page asked, so whoever's request expires sessions leaves it; `AsksKept`: a reply under way is in that session; `PromptsResolve`: each prompt of a button names its reply to every switch that may resolve it |

The invariants are far from the properties they imply. `EchoSuppressed` alone is not inductive: the
echo can come from a server that got the message in an earlier page's life, so the invariant speaks
of nonces in storage as well. `StoreKeepsWhatWasSaid` is about the store at rest; the invariant has
to say what each pending call will write. `InspectorFollows` is about events that were heard; its
invariant has to order those that were not. Each invariant was an INVARIANT of a run before it was
proved.

The assumptions about constants are those of the modules. Most say that sets are disjoint and numbers
are numbers. `DitAssumption` says `SeenMax >= Limit * MaxPages`: the code's 2000 seen ids against pages
of 100, of which a bootstrap reads at most 20 by default (the demo's server reads one of eight); a
configuration with more could forget in a bootstrap what it has just handed over. `DevToolsAssumption` says
that an id names a message or a conversation, not both. `ApiAssumption` says that sessions live for some
time, and `WireAssumption` that `NoMessage` is none.

The prover has no induction over data; where the argument needs the least or the greatest element of
a set of numbers, `LeastElement` takes it from the well-foundedness of the naturals: the first place
where two lists differ, the first page that went wrong, the first depth to which the recursive function
of `AllPages` could not be built. `InOrder` of `DitTransport` and `Sorted` of `StorageQueries` say by
counting what sorting does, for the same reason: the n-th has n - 1 before it.

`QueryAssumption` says that ids and times are numbers and that `LocaleRank` gives no two ids one place:
two ids that `localeCompare()` takes for equal would keep the order of insertion in the fallback.

Every safety property and action property of a passing run is stated by a theorem. Only model-checked
is all liveness (`CallsSettle`, `AlwaysProceeds`, `MessagesArrive`, `NewMessagesArrive`,
`EventsReachSockets`), which is out of the prover's reach, as is ENABLED. No module with proofs reaches a
RECURSIVE operator.

## 6. Not modelled, and what comes next

* Rendering, styles, message texts, icons, logging, the docs site and the build scripts.
* `ConversationStateMachine` (nothing reads the states it keeps), `MessageRegistry` (only its set of
  nine names matters), `ConnectionStateMachine.onChange()` and `reset()` (no callers outside tests).
* The arithmetic of back-offs: a timer may fire at any time.
* A 'blocked' open of IndexedDB, metadata entries, request rate limits.
* DemoRuntimeProvider's life over page changes, ChatSurface's thinking timer, the event log of
  DevTools (section 4.4).
* An ITransport whose disconnect() rejects; an engine without a transport.

Next, in this order: the life of DemoRuntimeProvider over page changes; the thinking timer.
