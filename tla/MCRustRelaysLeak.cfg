SPECIFICATION LeaseSpec
CONSTANTS
    MaxGens = 2
    MaxFrames = 2
    MaxQueue = 1
    Subs = {1}
    MaxRecords = 1
    Runtimes = {r1, r2}
    Views <- LeakViews
    MaxNow = 1
    Contexts <- MCContexts
    Histories <- MCHistories
    LastSecond = 4
    Limit = 2
    MinSpan = 1
    MaxSpan = 5
    NeutralSpan = 3
    ChangeFactor = 2
    MaxSegments = 2
    MaxScans = 2
    FirstRows <- MCRows
    NewRow = "n"
    MaxHeight = 2
    Viewport = 1
    MaxScrolls = 3
    MaxLayouts = 4
    Owners = {o1, o2}
    Intents <- MCIntents
    RoutePool <- MCRoutes
    Blockable <- MCBlockable
    RelayMax <- MCRelayMax
    Observations <- MCObservations
    MaxRouteRelays = 1
    MaxTargets = 1
    MaxAuthors = 2
    MaxChanges = 2
    MaxSamples = 1
    MaxClock = 2
INVARIANT WireOnlyForVisible
