SPECIFICATION MCSpec
CONSTANTS
    QueryStrings <- MCQueryStrings
    InitialQuery <- MCInitialQuery
    QueryDepth = 2
    ImageBoxes = {1}
    Scores = {30}
    MaxDetections = 2
    PublishLegacyOutputs = TRUE
    ThresholdsSet = TRUE
    ObjectTypes = {"book", "cup"}
    Fovs = {69}
    FrameSizes <- MCFrameSizes
    Entries <- MCEntries
    MaxEntries = 3
INVARIANTS
    LabelsNameWhatWasFound
    NewestQueryWins
    PlacedAsSeen
PROPERTIES
    EveryImageAnswered
CHECK_DEADLOCK FALSE
