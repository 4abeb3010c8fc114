--------------------------- MODULE ReactiveController ---------------------------
(***************************************************************************)
(* reactive_behavior_controller.py: the node that turns detections and     *)
(* depth images into drive commands.  A timer runs control_loop, which     *)
(* stops for people and stop signs, drives around or slows down for        *)
(* obstacles, cruises otherwise, and commands zero speed when it hears     *)
(* nothing from the detector.                                              *)
(*                                                                         *)
(* An entry of a detection message names a label, a box and a confidence.  *)
(* A depth frame gives each box the depth lookup_depth finds at its        *)
(* centre, 0 where the patch is out of the image or has no valid pixel.    *)
(* Lengths, speeds and angles are integers; steering angles are kept       *)
(* doubled, because the slow behaviour halves them.  Time as in            *)
(* SceneManager.  The state string and the target pose the node also       *)
(* publishes are reports of the branch taken, read by no node of the car,  *)
(* and are left out.                                                       *)
(***************************************************************************)
EXTENDS Topics

CONSTANTS
    ControlPeriod,      \* control_period_sec
    DetectionTimeout,   \* detection_timeout_sec
    ControlAgeCap,      \* where ages saturate
    CruiseSpeed, SlowSpeed, BypassSpeed,
    StopDistance, SlowDistance, BypassDistance,
    SteeringGain, MaxSteering, Deadband,
    DefaultLeft,        \* default_bypass_direction is 'left'
    StopQuery, SlowQuery, BypassQuery,  \* stop_labels, slow_labels, bypass_labels
    Slope,              \* per box, the tangent of its bearing (left positive)
    Frames,             \* the depth frames the camera may send
    SceneModes,         \* the scene modes that may arrive
    Detections          \* the detection messages that may arrive

VARIABLES
    motionEnabled,     \* self.motion_enabled, read once
    depthImage,        \* self.depth_image, NoFrame for None
    latestCandidates,  \* self.latest_candidates
    detectionAge,      \* time since self.last_detection_at, Never for None
    sceneMode,         \* self.scene_mode
    untilControl,      \* time until the control timer expires next
    controlDue,        \* the timer has expired and control_loop has not run
    driveCmd,          \* the command published last on /purepursuit_cmd
    lastCmd,           \* history: the command published last on any topic
    hazardAge,         \* history: how long a stop candidate has been near
    obstacleAge        \* history: how long any candidate has called for care

controlVars == <<motionEnabled, depthImage, latestCandidates, detectionAge, sceneMode,
                 untilControl, controlDue, driveCmd, lastCmd, hazardAge, obstacleAge>>

NoFrame == <<>>
NoDetection == -1
NoCommand == [topic |-> "none", speed |-> 0, steering |-> 0]
EmergencyStop == [topic |-> "emergency", speed |-> 0, steering |-> 0]

StopLabels == ParseLabelSet(StopQuery)
SlowLabels == ParseLabelSet(SlowQuery)
BypassLabels == ParseLabelSet(BypassQuery)

ASSUME ControlAssumption ==
    /\ ControlPeriod \in Nat \ {0}
    /\ DetectionTimeout \in Nat
    /\ ControlAgeCap \in Nat /\ ControlAgeCap > DetectionTimeout + 2 * ControlPeriod
    /\ CruiseSpeed \in Nat /\ SlowSpeed \in Nat /\ BypassSpeed \in Nat
    /\ MaxSteering \in Nat /\ SteeringGain \in Nat
    /\ DefaultLeft \in BOOLEAN
    /\ Deadband \in Nat

(* Every frame gives every box of an entry a depth.                        *)
ASSUME SensorAssumption ==
    /\ Slope \in [DOMAIN Slope -> Int]
    /\ Frames \subseteq [DOMAIN Slope -> Nat]
    /\ \A msg \in Detections :
           /\ msg \in Seq({msg[i] : i \in DOMAIN msg})
           /\ \A i \in DOMAIN msg : /\ msg[i].confidence \in Nat \cup {Unparsable}
                                   /\ msg[i].box \in DOMAIN Slope \cup {Unparsable}

-------------------------------------------------------------------------------
(* parse_detection, lookup_depth and calculate_position: the entries that  *)
(* parse and whose depth is known, with their position.  A candidate keeps *)
(* its place in the message.                                               *)
Located(e) == e.box # Unparsable /\ e.confidence # Unparsable /\ depthImage[e.box] > 0

Candidate(e) ==
    [label |-> NormalizeLabel(e.label), confidence |-> e.confidence,
     depth |-> depthImage[e.box], y |-> depthImage[e.box] * Slope[e.box]]

Candidates(msg) == [i \in {k \in DOMAIN msg : Located(msg[k])} |-> Candidate(msg[i])]

(* select_candidate: the nearest of the candidates with a valid label and  *)
(* within the distance, the more confident one of two equally near, the    *)
(* first in the message of two that tie.                                   *)
Near(candidates, labels, distance) ==
    {i \in DOMAIN candidates : candidates[i].label \in labels /\ candidates[i].depth <= distance}

Before(candidates, i, j) ==
    LET c == candidates[i]
        d == candidates[j]
    IN  \/ c.depth < d.depth
        \/ c.depth = d.depth /\ c.confidence > d.confidence
        \/ c.depth = d.depth /\ c.confidence = d.confidence /\ i <= j

SelectCandidate(labels, distance) ==
    LET near == Near(latestCandidates, labels, distance)
    IN  latestCandidates[CHOOSE i \in near : \A j \in near : Before(latestCandidates, i, j)]

IsNear(labels, distance) == Near(latestCandidates, labels, distance) # {}

(* What the histories record: a reason to stop, a reason to take care.     *)
HazardNear == IsNear(StopLabels, StopDistance)
ObstacleNear == IsNear(SlowLabels, SlowDistance) \/ IsNear(BypassLabels, BypassDistance)

Clamp(value, minimum, maximum) ==
    IF value < minimum THEN minimum ELSE IF value > maximum THEN maximum ELSE value

(* Mutant: the steering follows the obstacle.                              *)
AvoidanceSteering_Towards(y) ==
    IF -Deadband < y /\ y < Deadband
    THEN IF DefaultLeft THEN MaxSteering ELSE -MaxSteering
    ELSE Clamp(SteeringGain * y, -MaxSteering, MaxSteering)

(* compute_avoidance_steering.                                             *)
AvoidanceSteering(y) ==
    IF -Deadband < y /\ y < Deadband
    THEN IF DefaultLeft THEN MaxSteering ELSE -MaxSteering
    ELSE Clamp(-SteeringGain * y, -MaxSteering, MaxSteering)

Enabled(speed) == IF motionEnabled THEN speed ELSE 0

-------------------------------------------------------------------------------
Aged(age) == IF age = NoDetection \/ age = ControlAgeCap THEN age ELSE age + 1

(* History: how long a condition has held.                                 *)
Since(age, holds) == IF ~holds THEN NoDetection ELSE IF age = NoDetection THEN 0 ELSE age

Init ==
    /\ motionEnabled \in BOOLEAN
    /\ depthImage = NoFrame
    /\ latestCandidates = <<>>
    /\ detectionAge = NoDetection
    /\ sceneMode = "unknown"
    /\ untilControl = ControlPeriod
    /\ controlDue = FALSE
    /\ driveCmd = NoCommand /\ lastCmd = NoCommand
    /\ hazardAge = NoDetection /\ obstacleAge = NoDetection

(* Time passes; a due control_loop runs before its timer expires again.    *)
ControlTick ==
    /\ ~(controlDue /\ untilControl = 1)
    /\ untilControl' = IF untilControl = 1 THEN ControlPeriod ELSE untilControl - 1
    /\ controlDue' = (controlDue \/ untilControl = 1)
    /\ detectionAge' = Aged(detectionAge)
    /\ hazardAge' = Aged(hazardAge)
    /\ obstacleAge' = Aged(obstacleAge)
    /\ UNCHANGED <<motionEnabled, depthImage, latestCandidates, sceneMode, driveCmd, lastCmd>>

(* depth_callback.  A message that does not convert is logged and leaves   *)
(* the previous frame in place.                                            *)
DepthCallback(frame) ==
    /\ depthImage' = frame
    /\ UNCHANGED <<motionEnabled, latestCandidates, detectionAge, sceneMode, untilControl,
                   controlDue, driveCmd, lastCmd, hazardAge, obstacleAge>>

SceneModeCallback(mode) ==
    /\ sceneMode' = mode
    /\ UNCHANGED <<motionEnabled, depthImage, latestCandidates, detectionAge, untilControl,
                   controlDue, driveCmd, lastCmd, hazardAge, obstacleAge>>

(* detections_callback.  Without a depth frame the message only shows that *)
(* the detector is alive.                                                  *)
DetectionsCallback(msg) ==
    /\ detectionAge' = 0
    /\ latestCandidates' = IF depthImage = NoFrame THEN <<>> ELSE Candidates(msg)
    /\ hazardAge' = Since(hazardAge, HazardNear')
    /\ obstacleAge' = Since(obstacleAge, ObstacleNear')
    /\ UNCHANGED <<motionEnabled, depthImage, sceneMode, untilControl, controlDue,
                   driveCmd, lastCmd>>

-------------------------------------------------------------------------------
(* publish_drive_command and publish_emergency_stop.  An emergency stop    *)
(* does not touch the command standing on /purepursuit_cmd.                *)
PublishDriveCommand(speed, steering) ==
    /\ driveCmd' = [topic |-> "drive", speed |-> speed, steering |-> steering]
    /\ lastCmd' = driveCmd'

PublishEmergencyStop ==
    /\ lastCmd' = EmergencyStop
    /\ UNCHANGED driveCmd

Bypass ==
    LET c == SelectCandidate(BypassLabels, BypassDistance)
    IN  PublishDriveCommand(Enabled(BypassSpeed), 2 * AvoidanceSteering(c.y))

Slow ==
    LET c == SelectCandidate(SlowLabels, SlowDistance)
    IN  PublishDriveCommand(Enabled(SlowSpeed), AvoidanceSteering(c.y))

(* Mutant: only a detector that never answered counts as silent.           *)
Silent_NeverHeard == detectionAge = NoDetection

Silent == detectionAge = NoDetection \/ detectionAge > DetectionTimeout

(* Mutant: an obstacle to drive around hides a person.                     *)
MustStop_UnlessBypass ==
    IsNear(StopLabels, StopDistance) /\ ~IsNear(BypassLabels, BypassDistance)

MustStop == IsNear(StopLabels, StopDistance)

(* Mutant: the slow behaviour compares with the bypass distance.           *)
MustSlow_BypassDistance == IsNear(SlowLabels, BypassDistance)

MustSlow == IsNear(SlowLabels, SlowDistance)

React ==
    IF Silent THEN PublishDriveCommand(0, 0)
    ELSE IF MustStop THEN PublishEmergencyStop
    ELSE IF IsNear(BypassLabels, BypassDistance) THEN Bypass
    ELSE IF MustSlow THEN Slow
    ELSE PublishDriveCommand(Enabled(CruiseSpeed), 0)

ControlLoop ==
    /\ controlDue
    /\ React
    /\ controlDue' = FALSE
    /\ UNCHANGED <<motionEnabled, depthImage, latestCandidates, detectionAge, sceneMode,
                   untilControl, hazardAge, obstacleAge>>

Next ==
    \/ ControlTick
    \/ ControlLoop
    \/ \E frame \in Frames : DepthCallback(frame)
    \/ \E mode \in SceneModes : SceneModeCallback(mode)
    \/ \E msg \in Detections : DetectionsCallback(msg)

Spec == Init /\ [][Next]_controlVars /\ WF_controlVars(ControlTick) /\ WF_controlVars(ControlLoop)
-------------------------------------------------------------------------------
(* Dead man's switch: a command to move does not outlive the detector.     *)
(* Once nothing has been heard for the timeout and two control periods,    *)
(* the command standing on /purepursuit_cmd has speed zero, also if the    *)
(* last thing heard led to an emergency stop, which leaves that command    *)
(* alone (control_loop, publish_emergency_stop).                           *)
DeadMansSwitch ==
    driveCmd.speed > 0 =>
        detectionAge # NoDetection /\ detectionAge < DetectionTimeout + 2 * ControlPeriod

(* A person or a stop sign that has stayed within the stop distance for    *)
(* two control periods has led to a command of speed zero, whatever other  *)
(* obstacles, frames and messages came in between (control_loop tests for  *)
(* stop candidates before the others).                                     *)
StopsForHazard == hazardAge >= 2 * ControlPeriod => lastCmd.speed = 0

(* An obstacle within its distance for two control periods has slowed the  *)
(* car down.                                                               *)
SlowsForObstacle ==
    obstacleAge >= 2 * ControlPeriod =>
        lastCmd.speed <= SlowSpeed \/ lastCmd.speed <= BypassSpeed

(* With motion_enabled false no behaviour commands a speed (the default of *)
(* the demo launch file).                                                  *)
DisabledNeverMoves == ~motionEnabled => driveCmd.speed = 0 /\ lastCmd.speed = 0

(* The obstacles the current behaviour drives around.                      *)
Avoided ==
    IF IsNear(BypassLabels, BypassDistance)
    THEN Near(latestCandidates, BypassLabels, BypassDistance)
    ELSE Near(latestCandidates, SlowLabels, SlowDistance)

(* Steering is never towards the obstacle: whenever control_loop steers,   *)
(* one of the nearest avoided obstacles is ahead within the deadband or on *)
(* the other side (calculate_position and compute_avoidance_steering share *)
(* one sign convention).                                                   *)
NeverSteersInto ==
    [][controlDue /\ ~controlDue' /\ lastCmd'.steering # 0 =>
        \E i \in Avoided :
            /\ \A j \in Avoided : latestCandidates[i].depth <= latestCandidates[j].depth
            /\ \/ latestCandidates[i].y \in (1 - Deadband)..(Deadband - 1)
               \/ latestCandidates[i].y > 0 /\ lastCmd'.steering < 0
               \/ latestCandidates[i].y < 0 /\ lastCmd'.steering > 0]_controlVars
-------------------------------------------------------------------------------
(* The inductive invariant behind the safety properties.  ControlLag is    *)
(* the time that may have passed since the last expiry that control_loop   *)
(* has served: a condition that has held for longer has been acted upon.   *)
ControlLag == (ControlPeriod - untilControl) + IF controlDue THEN ControlPeriod ELSE 0

ControlAges == 0..ControlAgeCap \cup {NoDetection}

CommandInv ==
    /\ motionEnabled \in BOOLEAN /\ controlDue \in BOOLEAN
    /\ untilControl \in 1..ControlPeriod
    /\ detectionAge \in ControlAges /\ hazardAge \in ControlAges /\ obstacleAge \in ControlAges
    /\ driveCmd.speed \in Nat /\ lastCmd.speed \in Nat

SilenceInv ==
    driveCmd.speed > 0 =>
        detectionAge # NoDetection /\ detectionAge <= DetectionTimeout + ControlLag

HazardInv ==
    /\ hazardAge # NoDetection <=> HazardNear
    /\ hazardAge > ControlLag => lastCmd.speed = 0

ObstacleInv ==
    /\ obstacleAge # NoDetection <=> ObstacleNear
    /\ obstacleAge > ControlLag => lastCmd.speed <= SlowSpeed \/ lastCmd.speed <= BypassSpeed

(* The candidates come from a message and from one of the depth frames.    *)
AreCandidates(candidates) ==
    \A i \in DOMAIN candidates :
        candidates[i].depth \in Nat /\ candidates[i].confidence \in Nat /\ candidates[i].y \in Int

CandidatesInv ==
    /\ depthImage \in Frames \cup {NoFrame}
    /\ AreCandidates(latestCandidates)
    /\ \E n \in Nat : DOMAIN latestCandidates \subseteq 1..n

(* The parts together with the flag: what every step of the controller     *)
(* preserves.                                                              *)
ControlInv == CommandInv /\ SilenceInv /\ HazardInv /\ ObstacleInv /\ DisabledNeverMoves
===============================================================================
