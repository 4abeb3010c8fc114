SPECIFICATION MCSpec
CONSTANTS
    Modules = {"net", "backbone", "head"}
    Root = "net"
    DeviceTypes <- MCDeviceTypes
    DefaultDevice = "GPU"
    Registered = {"linear", "unknown"}
    Real = {"linear"}
    Unregistered = {"composed"}
    MaxDepth = 4
    MaxLayers = 2
    Sizes <- MCSizes
    TraceSize = 3
    Static = 4
    Literals = {1, 2}
    MaxValues = 3
    Bound = 25
    Inputs <- MCInputs
    MaxItems = 4
    NameBase = 3
    MaxBatchSizes = {0, 1, 2}
    DefaultDevices = {"GPU", "DLA"}
    None = None
    Blocks = {b1, b2, b3}
INVARIANTS
    ShapesFollowTheInput
    InputsAreCovered
    EngineAnswersAlike
PROPERTIES
    TracedAsCalled
    RecordingKeepsItems
CHECK_DEADLOCK FALSE
