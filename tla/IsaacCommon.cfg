SPECIFICATION MCSpec
CONSTANTS
    Streams = {1, 2, 3}
    Threshold = 1
    BufferSize = 2
    MinNumbers = {2, 3}
    MaxTime = 2
    MaxMessages = 5
    Pieces = {"a", "b", "c"}
    Outputs <- SmallOutputs
    Modes = {"all", "tail", "none"}
    TailLength = 2
    AllowFailure = FALSE
    MaxBlank = 2
INVARIANTS
    MatchesBelongTogether
    CopiesAreRight
PROPERTIES
    OnceAndInOrder
    CommandEnds
CHECK_DEADLOCK FALSE
