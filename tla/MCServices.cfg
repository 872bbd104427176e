SPECIFICATION ServicesSpec
CONSTANTS
    Focuses = {"chat", "sdk", "action", "run", "box", "rate", "look", "mcp", "request", "text", "call", "tools", "host"}
    ChatReqs = {"c1", "c2", "c3", "c4"}
    ChatIds = {"k1"}
    ChatIdOf <- IdsOfChats
    ChatOwnerOf <- OwnersOfChats
    ChatHistory = {"c1"}
    ChatWorkers = {"w1"}
    RedisUrl = FALSE
    RedisFails = FALSE
    SessionTtl = 0
    SessionMax = 1
    MaxNow = 1
    NoChat = NoChat
    SdkMessages = {"m1", "m2", "m3"}
    NoMessage = NoMessage
    Proposals = {"a1", "a2"}
    Clicks = {"b1", "b2", "b3", "b4"}
    ClickOn <- ActionOfClick
    Overriding = {"b1"}
    KnownTools = {"a1"}
    NoOverride = NoOverride
    Autos = {"u1", "u2"}
    EventAutos = {"u1", "u2"}
    Secured = {"u2"}
    Ticks = {"t1"}
    TickOf <- FirstAuto
    Triggers = {"e1", "e2"}
    Trusted = {"e1"}
    RunWorkers = {"w1"}
    RunWorkerOf <- SameWorker
    MaxVersion = 1
    NoAuto = NoAuto
    FileCalls = {"f1", "f2", "f3", "f4", "f5", "f6", "f7", "f8", "h1", "h2"}
    FilePlans <- FourFilePlans
    CallKind <- KindOfFileCall
    BoxUsers = {"v1"}
    BoxUserOf <- UserOfFileCall
    HostCalls = {"h1", "h2"}
    MaxExpiries = 1
    RateReqs = {"q1", "q2", "q3", "q4"}
    RateFrom <- SentBy
    Proxies = {"p"}
    RateLimit = 2
    RateWindow = 2
    RateWorkers = {"w1"}
    RateRedis = TRUE
    MaxRateNow = 3
    Nobody = Nobody
    Lookups = {"l1", "l2", "l3"}
    LookKeys = {"k1", "k2"}
    KeyOf <- KeyOfLookup
    CacheOf <- CacheOfKey
    CacheTtl <- OneTick
    CacheMax = 1
    MaxLookNow = 2
    MaxContent = 1
    NoLookup = NoLookup
    McpItems = {"x", "y", "z"}
    Wellformed = {"x", "y"}
    McpToolsOf <- ToolsOfServer
    MaxMcpItems = 3
    SummarizeAfter = 5
    KeepRecent = 3
    MaxMessages = 6
    SummaryTurns = 2
    LongCalls <- EarlyCalls
    MaxTalk = 7
    Texts <- PairsOfParts
    MaxChunk = 2
    CallSlots = {0, 1}
    MaxCallAttempts = 2
    MaxServed = 4
    ToolTurns = {"t1", "t2"}
    Setups <- FourSetups
    AgentTools <- FieldsOfAgents
    Toolkits = {"g", "c"}
    PriorityRows <- SentRows
    ListedRows <- AllRows
    ToolsLimit = 2
    CapFloor = 2
    CapCeiling = 3
    LoadFailures = {TRUE, FALSE}
    LocalRuns = {"m", "s", "o"}
    LocalCalls <- HostCallsMade
    MadeBy <- MakerOf
    Does <- Requests
    LocalPlans <- ThreePlans
    Spawns <- Nested
    Boxed = {"o"}
    Confined = TRUE
    FileAtFirst <- ThreeLines
    PageLimit = 2
    GlobMax = 1
    GrepMax = 2
    NoRun = NoRun
INVARIANTS
    OwnMessagesOnly
    MemoryKeepsChat
    
    RepeatsExplained
    ResultsCoverMatches
    StaleOnlyAfterWaiting
    EditsLostOnlyTogether
    McpStraysExplained
    WindowHolds
    OlderAnswersExplained
    
    QuestionSurvives
    
    
    StaleToolsExplained
    StrayShellsExplained
    TodosStayHome
    PagesCover
CHECK_DEADLOCK FALSE
