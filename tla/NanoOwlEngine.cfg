SPECIFICATION MCSpec
CONSTANTS
    Parts = {"predictor"}
    Chars = {" ", "a"}
    MaxPrompt = 7
    OwlMeshGrid = FALSE
    Clients = {"c1", "c2"}
    Prompts = {"faces", "rooms", "owls"}
    Failing = {}
INVARIANT
    NeverRaises
CHECK_DEADLOCK FALSE
