CONSTANTS
    TimerPeriod = 1
    StartupDelay = 1
    ProbeDuration = 1
    ProbePublishPeriod = 1
    FinalPublishPeriod = 1
    AgeCap = 10
    MinScoreMargin = 25
    MaxScore = 30
    SceneOverride = "auto"
    DefaultSceneMode = "indoor"
    ProbeQueries <- MCProbeQueries
    Queries <- MCQueries
    NeutralQuery <- MCNeutralQuery
    InitialQuery <- MCInitialQuery
    ImageBoxes = {1}
    Scores = {30}
    MaxDetections = 1
    Depth = 2
    ReplyDepth = 1
SPECIFICATION Spec
PROPERTIES
    OnlyOwnAnswersCount
    NeverAsksBackwards
    NanoOwlAsksForVerdict
    ReachesAgreement
