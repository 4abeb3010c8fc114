CONSTANTS
    ControlPeriod = 2
    DetectionTimeout = 3
    ControlAgeCap = 8
    CruiseSpeed = 3
    SlowSpeed = 2
    BypassSpeed = 1
    StopDistance = 1
    SlowDistance = 3
    BypassDistance = 2
    SteeringGain = 1
    MaxSteering = 3
    Deadband = 2
    DefaultLeft = TRUE
    StopQuery <- MCStopQuery
    SlowQuery <- MCAvoidQuery
    BypassQuery <- MCAvoidQuery
    Slope <- MCSlope
    Frames <- MCFrames
    SceneModes = {"outdoor"}
    Detections <- MCDetections
SPECIFICATION Spec
INVARIANTS
    DeadMansSwitch
    StopsForHazard
    SlowsForObstacle
PROPERTIES
    NeverSteersInto
