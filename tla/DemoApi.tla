---------------------------- MODULE DemoApi -----------------------------
(***************************************************************************)
(* The HTTP routes of the demos and what they serve: app/api/demos/*,      *)
(* the older app/api/chat/* of the DIT demo, and the runtimes behind them  *)
(* (lib/demo/server/runtime-registry.ts).  A local demo keeps a context    *)
(* per visitor, an engine with its conversations, and drops the contexts   *)
(* nobody asked for during SessionTtl whenever any visitor asks for one.   *)
(* The DIT demo has one engine for all, if its environment is configured.  *)
(*                                                                         *)
(* A request runs in one step: the awaits of a handler behind the body are *)
(* of engines without storage and resolve at once.  A reply takes seconds  *)
(* and comes in a step of its own; a session lasts thirty minutes, so no   *)
(* time passes while one is being written.  What the events and the pages  *)
(* of history hold is DemoFeed's and DitHistory's.                         *)
(***************************************************************************)
EXTENDS Naturals, FiniteSets, Sequences

CONSTANTS
    Visitors,       \* browsers, each with the session id it keeps in localStorage
    SessionTtl,     \* LOCAL_DEMO_SESSION_TTL_MS, in ticks
    MaxBuilds,      \* bound: contexts built
    MaxAsks         \* bound: replies being written at a time

ASSUME ApiAssumption == SessionTtl \in Nat \ {0}

Demos == {"dit-modive", "next-backend", "streaming", "media", "persistence", "websocket"}
LocalDemos == Demos \ {"dit-modive"}

VARIABLES
    apiDemo,        \* the demo this behaviour is about
    ditConfigured,  \* the environment names the DIT service
    ditEngine,      \* the promise of the server's DIT engine: "none", "up" or "failed"
    contexts,       \* contextsBySessionId: none (id 0), or when it was asked for and its rooms
    builds,         \* contexts built so far; the last one's number
    pages,          \* the conversation a visitor's page shows, and for how long it was silent
    asks,           \* the accepted messages a reply is being written to
    replied,        \* what this step replied, to which button (history)
    answer          \* the status this step answered with, and whether the request had a flaw

apiVars == <<apiDemo, ditConfigured, ditEngine, contexts, builds, pages, asks, replied,
             answer>>
apiLocal == <<contexts, builds, pages, asks>>

NoContext == [id |-> 0, age |-> 0, rooms |-> {}]
NoPage == [room |-> 0, silent |-> 0]
NoReply == [names |-> "none", reply |-> "none"]
NoAnswer == [status |-> 0, flawed |-> FALSE]

ApiInit ==
    /\ apiDemo \in Demos
    /\ ditConfigured \in BOOLEAN
    /\ apiDemo # "dit-modive" => ~ditConfigured
    /\ ditEngine = "none"
    /\ contexts = [v \in Visitors |-> NoContext]
    /\ builds = 0
    /\ pages = [v \in Visitors |-> NoPage]
    /\ asks = {}
    /\ replied = NoReply
    /\ answer = NoAnswer

-----------------------------------------------------------------------------
(* What a handler checks, in the order it does; the first failed check      *)
(* decides the status.  A body that is no JSON at all makes request.json()  *)
(* throw, which the control route alone answers like a body of another      *)
(* shape.                                                                   *)
ConversationChecks == <<"demo", "session", "env">>
ConversationsChecks == <<"demo", "session", "env">>
PageChecks == <<"demo", "session", "conversation", "query", "env">>
HistoryChecks == <<"demo", "session", "conversation", "env">>
SendChecks == <<"demo", "session", "json", "body", "text", "env">>
EventsChecks == <<"demo", "session", "env", "conversation">>
TypingChecks == <<"demo", "session", "json", "body", "env">>
ControlChecks == <<"session", "body">>

Checks ==
    [conversation |-> ConversationChecks, conversations |-> ConversationsChecks,
     page |-> PageChecks, history |-> HistoryChecks, send |-> SendChecks,
     poll |-> EventsChecks, stream |-> EventsChecks, typing |-> TypingChecks,
     control |-> ControlChecks]

\* The older routes name no demo and have no sessions.
ChatConversationChecks == <<"env">>
ChatHistoryChecks == <<"conversation", "env">>
ChatSendChecks == <<"json", "body", "text", "env">>
ChatEventsChecks == <<"conversation">>
ChatTypingChecks == <<"json", "body", "env">>

ChatChecks ==
    [conversation |-> ChatConversationChecks, history |-> ChatHistoryChecks,
     send |-> ChatSendChecks, poll |-> ChatEventsChecks, stream |-> ChatEventsChecks,
     typing |-> ChatTypingChecks]

Refusal == [demo |-> 404, session |-> 400, json |-> 500, body |-> 400, text |-> 400,
            conversation |-> 400, query |-> 400, env |-> 503]

Unavailable == apiDemo = "dit-modive" /\ ~ditConfigured
NeedsSession == apiDemo \in LocalDemos

\* Where the checks fail that do.
Failures(checks, flaws) ==
    LET fails(check) == \/ check = "env" /\ Unavailable
                        \/ check = "session" /\ check \in flaws /\ NeedsSession
                        \/ check \notin {"env", "session"} /\ check \in flaws
    IN  {n \in DOMAIN checks : fails(checks[n])}
IsFirst(n, positions) == n \in positions /\ \A k \in positions : n <= k

-----------------------------------------------------------------------------
(* Sessions of a local demo.                                                *)
Cleaned(cs) == [v \in Visitors |-> IF cs[v].age >= SessionTtl THEN NoContext ELSE cs[v]]

\* Mutant: an answer does not keep the session alive.
Accessed_KeepsAge(v) ==
    LET kept == Cleaned(contexts)
    IN  [kept EXCEPT ![v] = IF @.id = 0 THEN [NoContext EXCEPT !.id = builds + 1] ELSE @]

\* getContext: drop what expired, then find the visitor's or build it.
Accessed(v) ==
    LET kept == Cleaned(contexts)
    IN  [kept EXCEPT ![v] = IF @.id = 0 THEN [NoContext EXCEPT !.id = builds + 1]
                            ELSE [@ EXCEPT !.age = 0]]

RoomsOf(context) ==
    {3 * context.id + n : n \in IF apiDemo = "persistence" THEN 0 .. 2 ELSE {0}}
Seeded(cs, v) == [cs EXCEPT ![v].rooms = IF @ = {} THEN RoomsOf(cs[v]) ELSE @]

\* A page that asked in time is not silent; one that came too late stays excused until it
\* asks for a conversation again.
HeardFrom(v) == [pages EXCEPT ![v].silent = IF @ >= SessionTtl THEN @ ELSE 0]

\* A request of v that reaches its context.
Reaches(v, seeds) ==
    /\ contexts' = IF seeds THEN Seeded(Accessed(v), v) ELSE Accessed(v)
    /\ builds' = IF Cleaned(contexts)[v].id = 0 THEN builds + 1 ELSE builds
    /\ builds' <= MaxBuilds

-----------------------------------------------------------------------------
(* What a local demo answers to a prompt: the words of a demo in the order  *)
(* it looks for them, and what it says when it finds none.                  *)
Keywords ==
    [demo \in LocalDemos |->
        CASE demo = "media" -> <<"image", "audio", "video", "file", "location", "fallback">>
          [] demo = "streaming" -> <<"error", "long">>
          [] demo = "websocket" -> <<"reconnect", "typing", "transport">>
          [] demo = "next-backend" -> <<"persistence", "checklist">>
          [] demo = "persistence" -> <<>>]
Otherwise ==
    [demo \in LocalDemos |->
        CASE demo = "media" -> "hint"
          [] demo = "streaming" -> "normal"
          [] demo = "persistence" -> "acknowledged"
          [] OTHER -> "received"]

WordsOf(demo) == {Keywords[demo][n] : n \in DOMAIN Keywords[demo]}

\* A button sends a prompt with some of the words and, in three demos, its action as metadata.
Button(action, words) == [names |-> action, tag |-> action, words |-> words]
Untagged(action, words) == [names |-> action, tag |-> "none", words |-> words]
Buttons ==
    [demo \in LocalDemos |->
        CASE demo = "media" -> {Button(w, {w}) : w \in WordsOf("media")}
          [] demo = "streaming" ->
                {Button("normal", {}), Button("long", {"long"}), Button("error", {"error"})}
          [] demo = "websocket" ->
                {Untagged("transport", {"transport"}),
                 Untagged("reconnect", {"reconnect", "transport"})}
          [] demo = "next-backend" ->
                {Button("transport", {}), Button("persistence", {"persistence"}),
                 Button("checklist", {"checklist"})}
          [] demo = "persistence" -> {}]
TypedPrompts(demo) == {Untagged("none", words) : words \in
                           {w \in SUBSET WordsOf(demo) : Cardinality(w) <= 2}}
Prompts == [demo \in LocalDemos |-> Buttons[demo] \cup TypedPrompts(demo)]

FromPrompt(demo, words) ==
    LET found == {n \in DOMAIN Keywords[demo] : Keywords[demo][n] \in words}
    IN  IF found = {} THEN Otherwise[demo]
        ELSE Keywords[demo][CHOOSE n \in found : IsFirst(n, found)]

Resolve(demo, prompt) == IF prompt.tag # "none" THEN prompt.tag ELSE FromPrompt(demo, prompt.words)

-----------------------------------------------------------------------------
(* Serving a request that passed the checks.                                *)
Bootstrap(v) ==
    /\ Reaches(v, TRUE)
    /\ \E r \in contexts'[v].rooms :
          IsFirst(r, contexts'[v].rooms) /\ pages' = [pages EXCEPT ![v] = [room |-> r, silent |-> 0]]
    /\ UNCHANGED asks

\* The persistence demo shows any of the listed conversations.
ListConversations(v) ==
    /\ Reaches(v, TRUE)
    /\ \E r \in contexts'[v].rooms : pages' = [pages EXCEPT ![v] = [room |-> r, silent |-> 0]]
    /\ UNCHANGED asks

\* Events, history and typing of the conversation the page shows.
ReadsRoom(v, seeds) ==
    /\ pages[v].room # 0
    /\ Reaches(v, seeds) /\ pages' = HeardFrom(v)
    /\ UNCHANGED asks

AcceptMessage(v) ==
    /\ pages[v].room # 0
    /\ Cardinality(asks) < MaxAsks
    /\ Reaches(v, TRUE) /\ pages' = HeardFrom(v)
    /\ \E prompt \in Prompts[apiDemo] :
          asks' = asks \cup {[by |-> v, room |-> pages[v].room, prompt |-> prompt,
                              context |-> contexts'[v].id,
                              excused |-> pages[v].silent >= SessionTtl]}

\* handleAssistantResponse, in the context the message was sent in.
Replies(ask) ==
    /\ asks' = asks \ {ask}
    /\ replied' = [names |-> ask.prompt.names, reply |-> Resolve(apiDemo, ask.prompt)]
    /\ UNCHANGED <<contexts, builds, pages>>

ServeLocal(v, route) ==
    CASE route = "conversation" -> Bootstrap(v)
      [] route = "conversations" -> ListConversations(v)
      [] route = "send" -> AcceptMessage(v)
      [] route = "typing" -> ReadsRoom(v, TRUE)
      [] route \in {"page", "history", "poll"} -> ReadsRoom(v, FALSE)
      [] OTHER -> UNCHANGED apiLocal      \* the event stream and the control of the sockets

\* The DIT engine is built once; a build that fails is remembered like one that works.
BuildDit ==
    IF ~ditConfigured THEN UNCHANGED ditEngine
    ELSE ditEngine' \in IF ditEngine = "none" THEN {"up", "failed"} ELSE {ditEngine}

\* The routes that need the engine fail with it, those that need the service with either; the
\* older events route answers an empty list instead.
DitStatus(api, route) ==
    IF route = "stream" \/ (api = "chat" /\ route = "poll") THEN {200}
    ELSE IF route = "page" THEN {200, 500}
    ELSE IF ditEngine' = "failed" THEN {500}
    ELSE IF route = "send" THEN {200, 500}
    ELSE {200}

ServeDit(route) == IF route \in {"stream", "page"} THEN UNCHANGED ditEngine ELSE BuildDit

-----------------------------------------------------------------------------
\* A request is well-formed or fails one of the checks the caller answers for.
Flaws(checks) == ({{}} \cup {{checks[n]} : n \in DOMAIN checks}) \ {{"env"}}

Request(v, api, route, checks) ==
    /\ api = "chat" => apiDemo = "dit-modive"
    /\ route = "control" => apiDemo = "websocket"
    /\ UNCHANGED <<apiDemo, ditConfigured>> /\ replied' = NoReply
    /\ \E flaws \in Flaws(checks) :
        LET failed == Failures(checks, flaws)
            Answers(status) == answer' = [status |-> status, flawed |-> flaws # {}]
        IN  \/ /\ \E first \in failed : IsFirst(first, failed) /\ Answers(Refusal[checks[first]])
               /\ UNCHANGED <<ditEngine, apiLocal>>
            \/ /\ failed = {} /\ apiDemo \in LocalDemos
               /\ Answers(200)
               /\ ServeLocal(v, route) /\ UNCHANGED ditEngine
            \/ /\ failed = {} /\ apiDemo = "dit-modive"
               /\ ServeDit(route)
               /\ \E status \in DitStatus(api, route) : Answers(status)
               /\ UNCHANGED apiLocal

\* A name every object inherits passes isDemoId; the runtime it names cannot be asked.
InheritedName ==
    /\ answer' = [status |-> 500, flawed |-> TRUE] /\ replied' = NoReply
    /\ UNCHANGED <<apiDemo, ditConfigured, ditEngine, apiLocal>>

Reply == /\ \E ask \in asks : Replies(ask)
         /\ answer' = NoAnswer
         /\ UNCHANGED <<apiDemo, ditConfigured, ditEngine>>

ApiTick ==
    /\ asks = {}
    /\ apiDemo \in LocalDemos
    /\ contexts' = [v \in Visitors |-> [contexts[v] EXCEPT
                       !.age = IF contexts[v].id # 0 /\ @ < SessionTtl THEN @ + 1 ELSE @]]
    /\ pages' = [v \in Visitors |-> [pages[v] EXCEPT
                       !.silent = IF pages[v].room # 0 /\ @ < SessionTtl THEN @ + 1 ELSE @]]
    /\ replied' = NoReply /\ answer' = NoAnswer
    /\ UNCHANGED <<apiDemo, ditConfigured, ditEngine, builds, asks>>

ApiNext ==
    \/ \E v \in Visitors, route \in DOMAIN Checks : Request(v, "demos", route, Checks[route])
    \/ \E v \in Visitors, route \in DOMAIN ChatChecks : Request(v, "chat", route, ChatChecks[route])
    \/ InheritedName
    \/ Reply
    \/ ApiTick

-----------------------------------------------------------------------------
\* A page that asked for something within the last SessionTtl still has the conversation it
\* shows, whoever else's requests removed expired sessions meanwhile.
ActiveSessionKept ==
    \A v \in Visitors :
        pages[v].room # 0 /\ pages[v].silent < SessionTtl => pages[v].room \in contexts[v].rooms

\* The reply to a button is the one the button names, although prompts hold several of the
\* words and only three demos send the action along; it goes to the engine the page listens to.
ButtonsGetTheirReply ==
    /\ replied.names # "none" => replied.reply = replied.names
    /\ \A ask \in asks : ~ask.excused => /\ ask.context = contexts[ask.by].id
                                        /\ ask.room \in contexts[ask.by].rooms

\* A request without a flaw is refused only by a DIT demo that is not configured, and fails
\* only if the DIT service does.
OnlyFlawedRefused ==
    ~answer.flawed =>
        /\ answer.status \in {0, 200, 500, 503}
        /\ answer.status = 503 => apiDemo = "dit-modive" /\ ~ditConfigured
        /\ answer.status = 500 => apiDemo = "dit-modive" /\ ditConfigured

\* What the routes promise the pages: an active page keeps its session, a button gets the reply
\* it names in the conversation the page shows, and nobody is refused without a reason.
PagesAreServed == ActiveSessionKept /\ ButtonsGetTheirReply /\ OnlyFlawedRefused
=============================================================================
