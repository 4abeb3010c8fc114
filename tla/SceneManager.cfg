CONSTANTS
    TimerPeriod = 2
    StartupDelay = 3
    ProbeDuration = 4
    ProbePublishPeriod = 2
    FinalPublishPeriod = 5
    AgeCap = 24
    MinScoreMargin = 25
    MaxScore = 50
    SceneOverride = "auto"
    DefaultSceneMode = "garage"
    ProbeQueries <- MCProbeQueries
    Queries <- MCQueries
    NeutralQuery <- MCNeutralQuery
    Messages <- MCMessages
SPECIFICATION Spec
INVARIANTS
    IInv
    VerdictNeedsEvidence
    VerdictOnSchedule
    QueryStaysFresh
PROPERTIES
    LockIsFinal
