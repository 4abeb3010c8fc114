SPECIFICATION MCLiveSpec
CONSTANTS
    Parts = {"prompt", "predictor", "owl", "demo"}
    Chars = {" ", "a"}
    MaxPrompt = 7
    OwlMeshGrid = TRUE
    Clients = {"c1", "c2"}
    Prompts = {"faces", "rooms", "owls"}
    Failing = {"faces"}
INVARIANTS
    PromptUnderstood
    PredictionsExplained
    RegionsComeBack
    DemoConsistent
PROPERTY
    NewestPromptIsUsed
CHECK_DEADLOCK FALSE
