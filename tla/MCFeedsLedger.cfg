SPECIFICATION LedgerSpec
CONSTANTS
    r1 = r1
    r2 = r2
    Relays = {r1, r2}
    Defaults = {r1}
    Now = 4
    Span = 1
    MaxSteps = 3
    Surfaces = {"home", "global", "notifications", "thread", "profile", "search", "author", "custom", "followees", "timeline"}
    Tabs = {"home", "global", "notifications", "thread", "profile", "search", "author", "custom", "followees", "timeline"}
    Tables <- MCTables
    Events <- MCEvents
    Rows = {1, 2}
    MaxMounts = 2
    MaxOlder = 2
    Healths = {"available", "timeout"}
    Resources <- MCResources
    Bytes <- MCBytes
    Rank <- MCRank
    TargetBytes = 1
    UnknownBytes = 0
    CandidateLimit = 1
    MaxWrites = 2
    ChatEvents <- MCChat
    HeldBy <- MCHeldBy
    Me = 10
    Selected <- MCSelected
    Disabled = {"off"}
    MaxHints = 1
    MaxTabSteps = 4
    Posts <- MCPosts
    Query <- MCQuery
    PageSize = 1
    RowFactor = 2
    RowCap = 3
    MaxQueryTokens = 2
    MaxEventTokens = 2
    MaxChanges = 2
    MaxCommands = 3
    MaxSaves = 1
    MaxPages = 2
    Startup <- MCStartup
    Options = {"search", "custom-request"}
    Keys = {"k1"}
    PaneNames = {"p1"}
    WarmCap = 1
INVARIANTS EveryRowAccounted
