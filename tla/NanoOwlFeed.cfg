SPECIFICATION MCSpec
CONSTANTS
    Parts = {"demo"}
    Chars = {" ", "a"}
    MaxPrompt = 7
    OwlMeshGrid = TRUE
    Clients = {"c1", "c2"}
    Prompts = {"faces", "rooms", "owls"}
    Failing = {}
INVARIANT
    FeedStaysAlive
CHECK_DEADLOCK FALSE
