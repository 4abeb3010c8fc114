CONSTANTS
    QueryStrings <- MCQueryStrings
    InitialQuery <- MCInitialQuery
    Scores = {50}
    MaxDetections = 1
    ControlPeriod = 1
    DetectionTimeout = 1
    ControlAgeCap = 4
    CruiseSpeed = 3
    SlowSpeed = 2
    BypassSpeed = 1
    StopDistance = 1
    SlowDistance = 3
    BypassDistance = 2
    SteeringGain = 1
    MaxSteering = 3
    Deadband = 2
    DefaultLeft = TRUE
    StopQuery <- MCStopQuery
    SlowQuery <- MCAvoidQuery
    BypassQuery <- MCAvoidQuery
    Slope <- MCSlope
    Frames <- MCFrames
    Depth = 1
SPECIFICATION Spec
PROPERTIES
    DetectorDeathStopsCar
    PersonStopsCar
