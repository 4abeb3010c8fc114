SPECIFICATION MCSpec
CONSTANTS
    Graph <- OneTopic
    ExpectedPeriod = 1
    AllowedLatency = 2
    StaleTime = 1
    StatsPeriod = 1
    WindowSize = 2
    ShowDisplay = TRUE
    LosesGoodbye = FALSE
    EndAfter = 3
    MaxStarts = 2
    MaxInFlight = 2
    MaxExpected = 6
    MaxAge = 9
    MaxLag = 1
    UserTransitions = {"configure", "activate", "deactivate", "cleanup", "active_shutdown"}
    MaxUser = 2
    MaxCount = 3
    Runs <- AllRuns
    Period = 2
    MaxTicks = 20
INVARIANTS
    RatesAreRight
    PoliciesTell
PROPERTIES
    TalkerFollowsItsState
CHECK_DEADLOCK FALSE
