SPECIFICATION MCSpec
CONSTANTS
    Keys = {"k1", "k2"}
    Targets = {"t1"}
    Relays = {"r1"}
    PageKeys = {"k1"}
    Boots <- MCBoots
    MaxCommands = 2
    MaxFaults = 1
    Ops <- MCAllOps
    Tabs = {"relays", "settings", "upload", "tweet"}
    Urls = {"u1"}
    Texts = {"v1", "v2"}
    MaxPanelCommands = 2
    MaxPanelFaults = 1
    MaxHops = 2
    Tasks = {t1, t2, t3}
    MaxCloses = 1
    MaxCooldowns = 1
    Clients = {c1, c2}
    Requests = {r1}
INVARIANTS
    LoneCommandRepairs QuietShowsStored NoLateCancel LockFollowsWorker
PROPERTIES ButtonFreed
\* The commands are counted: the last one done, nothing is left to do.
CHECK_DEADLOCK FALSE
