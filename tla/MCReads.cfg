\* A read that ended stops.
CHECK_DEADLOCK FALSE
CONSTANTS
    Relays = {r1, r2}
    Kinds = {"home", "global", "notifications", "thread", "search", "profile", "author", "custom", "follow"}
    WindowMax = 3
    PageSize = 2
    MaxPublishes = 3
    Selected = {r1, r2}
    Surfaces = {"followees", "timeline", "header"}
    HeaderLimit = 2
    MaxTasks = 2
SPECIFICATION MCSpec
INVARIANTS AwaitedCanAnswer ClaimsAreProved LoadingIsWorkedOn
PROPERTIES ImplementsContract EveryReadEnds
