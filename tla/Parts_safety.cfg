SPECIFICATION PartsSpec
CONSTANTS
    a = a  b = b  m1 = m1  r1 = r1  s1 = s1  s2 = s2
    Conversations = {a, b}
    Own = {m1}
    Remote = {r1}
    Streams = {s1, s2}
    ConvOf <- MCConvOf
    Mounted = a
    None = None
    MaxEffects = 3
    MaxLoads = 2
    EmitThrottle = 2
    IdleTimeout = 2
    RemoteTtl = 6
    MaxDelay = 2
    Never = Never
    Horizon = 9
    MaxTrouble = 2
    MaxWire = 2
    Writers = {w1}
    Reader = r
    MaxMessages = 3
    PageLimit = 1
    MaxOpens = 2
    MaxRejections = 1
    MaxReads = 4
    Engines = {e1, e2}
    DevConversations = {c1, c2}
    DevMessages = {m1}
    DevConversationOf <- MCDevConversationOf
    MaxSteps = 4
    MaxSwaps = 2
    h1 = h1  h2 = h2  cust = cust  star = star
    Handlers = {h1, h2}
    Topics = {cust, star}
    Customs = {cust}
    Wildcard = star
    MaxDepth = 2
    MaxEmits = 2
    MaxOps = 4
    Limit = 2
    MaxPages = 2
    SeenMax = 4
    MaxRoom = 6
    MaxFaults = 1
    MaxConnects = 2
    InitialVisible = 2
    Increment = 2
    MaxOpened = 2
    NoMessage = NoMessage
    MaxEdits = 1
    MessageIds = {1, 2, 3}
    ConversationIds = {1, 2}
    LastTime = 1
    LocaleRank <- MCLocaleRank
    Visitors = {v1, v2}
    SessionTtl = 2
    MaxBuilds = 3
    MaxAsks = 1
    BridgeStreams = {s1, s2}
    BridgeRooms = {a, b}
    MaxChunks = 1
    MaxBreaks = 1
    MaxViews = 2
    Middlewares = {p1, p2, p3}
    Runs = {x}
    MaxNexts = 2
INVARIANTS
    ListFollowsStore
    OwnMessageStays
    PreviewRuns
    HistoryIsWhole
    TypistIsShown
    ReadsWhatWasSaved
    InspectorFollows
    ReachesSubscribers
    WireAgrees
    StoresAgree
    PagesAreServed
    BridgeRepeats
    OncePerRun
CHECK_DEADLOCK FALSE
