----------------------- MODULE ReactiveController_proofs -----------------------
(***************************************************************************)
(* Proofs about ReactiveController, for every value of its constants that  *)
(* meets ControlAssumption: all periods, timeouts, speeds and distances,   *)
(* all label lists, all depth frames and all detection messages.           *)
(***************************************************************************)
EXTENDS ReactiveController, SequenceFacts

USE DEF NoDetection, ControlAges

(* Fewer than two control periods pass without a served expiry.            *)
LEMMA LagBound == CommandInv => ControlLag \in 0 .. (2 * ControlPeriod - 1)
BY ControlAssumption DEF CommandInv, ControlLag

(* The histories depend on nothing but the candidates.                     *)
LEMMA SameCandidates ==
    ASSUME UNCHANGED latestCandidates
    PROVE  (HazardNear' <=> HazardNear) /\ (ObstacleNear' <=> ObstacleNear)
BY DEF HazardNear, ObstacleNear, IsNear, Near

(* The constructor establishes the invariant.                              *)
LEMMA InitInv == Init => ControlInv
<1> SUFFICES ASSUME Init PROVE ControlInv
    OBVIOUS
<1> USE ControlAssumption
<1>1. CommandInv
    <2>1. motionEnabled \in BOOLEAN /\ controlDue \in BOOLEAN
        BY DEF Init
    <2>2. /\ untilControl \in 1..ControlPeriod
          /\ detectionAge \in ControlAges /\ hazardAge \in ControlAges /\ obstacleAge \in ControlAges
        BY DEF Init
    <2>3. driveCmd.speed \in Nat /\ lastCmd.speed \in Nat
        BY DEF Init, NoCommand
    <2> QED BY <2>1, <2>2, <2>3 DEF CommandInv
<1>2. ~HazardNear /\ ~ObstacleNear
    BY DEF Init, HazardNear, ObstacleNear, IsNear, Near
<1>3. driveCmd.speed = 0 /\ lastCmd.speed = 0 /\ hazardAge = -1 /\ obstacleAge = -1
    BY DEF Init, NoCommand
<1>4. ControlLag = 0
    BY DEF Init, ControlLag
<1> QED BY <1>1, <1>2, <1>3, <1>4
        DEF ControlInv, SilenceInv, HazardInv, ObstacleInv, DisabledNeverMoves

-------------------------------------------------------------------------------
(* Time passes: every age and the lag grow together.                       *)
LEMMA TickInv == ControlInv /\ ControlTick => ControlInv'
<1> SUFFICES ASSUME ControlInv, ControlTick PROVE ControlInv'
    OBVIOUS
<1> USE ControlAssumption
<1>0. CommandInv
    BY DEF ControlInv
<1>1. CommandInv'
    BY <1>0 DEF CommandInv, ControlTick, Aged
<1>2. ControlLag \in 0 .. (2 * ControlPeriod - 1)
    BY <1>0, LagBound
<1>3. ControlLag' = ControlLag + 1
    <2>1. CASE untilControl = 1
        <3>1. ~controlDue /\ controlDue' /\ untilControl' = ControlPeriod
            BY <2>1 DEF ControlTick
        <3> QED BY <2>1, <3>1 DEF ControlLag
    <2>2. CASE untilControl # 1
        <3>1. controlDue' = controlDue /\ untilControl' = untilControl - 1
            BY <1>0, <2>2 DEF ControlTick, CommandInv
        <3>2. untilControl \in 1..ControlPeriod
            BY <1>0 DEF CommandInv
        <3>3. CASE controlDue
            BY <3>1, <3>2, <3>3 DEF ControlLag
        <3>4. CASE ~controlDue
            BY <3>1, <3>2, <3>4 DEF ControlLag
        <3> QED BY <3>3, <3>4
    <2> QED BY <2>1, <2>2
<1>4. /\ detectionAge \in ControlAges /\ hazardAge \in ControlAges /\ obstacleAge \in ControlAges
      /\ detectionAge' = Aged(detectionAge) /\ hazardAge' = Aged(hazardAge)
      /\ obstacleAge' = Aged(obstacleAge) /\ driveCmd' = driveCmd /\ lastCmd' = lastCmd
    BY <1>0 DEF CommandInv, ControlTick
<1>5. (HazardNear' <=> HazardNear) /\ (ObstacleNear' <=> ObstacleNear)
    BY SameCandidates DEF ControlTick
<1>6. SilenceInv'
    <2>1. SilenceInv
        BY DEF ControlInv
    <2> QED BY <1>2, <1>3, <1>4, <2>1 DEF SilenceInv, Aged
<1>7. HazardInv'
    <2>1. HazardInv
        BY DEF ControlInv
    <2>2. hazardAge' # -1 <=> HazardNear'
        BY <1>4, <1>5, <2>1 DEF HazardInv, Aged
    <2>3. hazardAge' > ControlLag' => lastCmd'.speed = 0
        BY <1>2, <1>3, <1>4, <2>1 DEF HazardInv, Aged
    <2> QED BY <2>2, <2>3 DEF HazardInv
<1>8. ObstacleInv'
    <2>1. ObstacleInv
        BY DEF ControlInv
    <2>2. obstacleAge' # -1 <=> ObstacleNear'
        BY <1>4, <1>5, <2>1 DEF ObstacleInv, Aged
    <2>3. obstacleAge' > ControlLag' => lastCmd'.speed <= SlowSpeed \/ lastCmd'.speed <= BypassSpeed
        BY <1>2, <1>3, <1>4, <2>1 DEF ObstacleInv, Aged
    <2> QED BY <2>2, <2>3 DEF ObstacleInv
<1>9. DisabledNeverMoves'
    BY DEF ControlInv, DisabledNeverMoves, ControlTick
<1> QED BY <1>1, <1>6, <1>7, <1>8, <1>9 DEF ControlInv

(* A depth frame or a scene mode arrives: nothing the invariant speaks of  *)
(* changes.                                                                *)
LEMMA QuietInv ==
    ASSUME ControlInv,
           UNCHANGED <<motionEnabled, latestCandidates, detectionAge, untilControl, controlDue,
                       driveCmd, lastCmd, hazardAge, obstacleAge>>
    PROVE  ControlInv'
<1>1. (HazardNear' <=> HazardNear) /\ (ObstacleNear' <=> ObstacleNear)
    BY SameCandidates
<1>2. CommandInv' /\ SilenceInv' /\ DisabledNeverMoves'
    BY DEF ControlInv, CommandInv, SilenceInv, DisabledNeverMoves, ControlLag
<1>3. HazardInv' /\ ObstacleInv'
    BY <1>1 DEF ControlInv, HazardInv, ObstacleInv, ControlLag
<1> QED BY <1>2, <1>3 DEF ControlInv

(* A detection message arrives: a condition that starts to hold starts at  *)
(* age zero, one that goes on keeps its age.                               *)
LEMMA DetectionsInv ==
    ASSUME ControlInv, NEW msg, DetectionsCallback(msg)
    PROVE  ControlInv'
<1> USE ControlAssumption
<1>0. CommandInv
    BY DEF ControlInv
<1>1. /\ detectionAge' = 0
      /\ hazardAge' = Since(hazardAge, HazardNear')
      /\ obstacleAge' = Since(obstacleAge, ObstacleNear')
      /\ UNCHANGED <<motionEnabled, untilControl, controlDue, driveCmd, lastCmd>>
    BY DEF DetectionsCallback
<1>2. ControlLag' = ControlLag
    BY <1>1 DEF ControlLag
<1>3. ControlLag \in 0 .. (2 * ControlPeriod - 1)
    BY <1>0, LagBound
<1>4. CommandInv'
    BY <1>0, <1>1 DEF CommandInv, Since
<1>5. SilenceInv'
    BY <1>1, <1>2, <1>3 DEF SilenceInv
<1>6. HazardInv'
    <2>1. HazardInv /\ hazardAge \in ControlAges
        BY <1>0 DEF ControlInv, CommandInv
    <2>2. hazardAge' # -1 <=> HazardNear'
        BY <1>1, <2>1 DEF Since
    <2>3. hazardAge' > ControlLag' => lastCmd'.speed = 0
        BY <1>1, <1>2, <1>3, <2>1 DEF HazardInv, Since
    <2> QED BY <2>2, <2>3 DEF HazardInv
<1>7. ObstacleInv'
    <2>1. ObstacleInv /\ obstacleAge \in ControlAges
        BY <1>0 DEF ControlInv, CommandInv
    <2>2. obstacleAge' # -1 <=> ObstacleNear'
        BY <1>1, <2>1 DEF Since
    <2>3. obstacleAge' > ControlLag' => lastCmd'.speed <= SlowSpeed \/ lastCmd'.speed <= BypassSpeed
        BY <1>1, <1>2, <1>3, <2>1 DEF ObstacleInv, Since
    <2> QED BY <2>2, <2>3 DEF ObstacleInv
<1>8. DisabledNeverMoves'
    BY <1>1 DEF ControlInv, DisabledNeverMoves
<1> QED BY <1>4, <1>5, <1>6, <1>7, <1>8 DEF ControlInv
-------------------------------------------------------------------------------
(* What a drive command of a behaviour leaves behind.                      *)
LEMMA DriveCommand ==
    ASSUME NEW speed \in Nat, NEW steering, PublishDriveCommand(speed, steering)
    PROVE  driveCmd'.speed = speed /\ lastCmd'.speed = speed
BY DEF PublishDriveCommand

(* The branches of control_loop: silence commands zero, a hazard leaves    *)
(* the standing command and stops the car, anything else commands the      *)
(* speed of a behaviour, which depends on the flag and on the obstacles.   *)
LEMMA ReactBranches ==
    ASSUME CommandInv, React
    PROVE  \/ driveCmd'.speed = 0 /\ lastCmd'.speed = 0
           \/ ~Silent /\ driveCmd' = driveCmd /\ lastCmd'.speed = 0
           \/ /\ ~Silent /\ ~HazardNear /\ motionEnabled
              /\ driveCmd'.speed \in Nat /\ lastCmd'.speed = driveCmd'.speed
              /\ ObstacleNear => driveCmd'.speed <= SlowSpeed \/ driveCmd'.speed <= BypassSpeed
<1> USE ControlAssumption
<1>1. CASE Silent
    <2>1. PublishDriveCommand(0, 0)
        BY <1>1 DEF React
    <2> QED BY <2>1, DriveCommand
<1>2. CASE ~Silent /\ MustStop
    <2>1. PublishEmergencyStop
        BY <1>2 DEF React
    <2> QED BY <1>2, <2>1 DEF PublishEmergencyStop, EmergencyStop
<1>3. CASE ~Silent /\ ~MustStop
    <2>1. ~HazardNear
        BY <1>3 DEF MustStop, HazardNear
    <2>2. \A speed \in Nat : Enabled(speed) \in {0, speed} /\ (~motionEnabled => Enabled(speed) = 0)
        BY DEF Enabled
    <2>3. CASE IsNear(BypassLabels, BypassDistance)
        <3>1. PICK steering : PublishDriveCommand(Enabled(BypassSpeed), steering)
            BY <1>3, <2>3 DEF React, Bypass
        <3>2. driveCmd'.speed = Enabled(BypassSpeed) /\ lastCmd'.speed = Enabled(BypassSpeed)
            BY <2>2, <3>1, DriveCommand
        <3> QED BY <1>3, <2>1, <2>2, <3>2
    <2>4. CASE ~IsNear(BypassLabels, BypassDistance) /\ MustSlow
        <3>1. PICK steering : PublishDriveCommand(Enabled(SlowSpeed), steering)
            BY <1>3, <2>4 DEF React, Slow
        <3>2. driveCmd'.speed = Enabled(SlowSpeed) /\ lastCmd'.speed = Enabled(SlowSpeed)
            BY <2>2, <3>1, DriveCommand
        <3> QED BY <1>3, <2>1, <2>2, <3>2
    <2>5. CASE ~IsNear(BypassLabels, BypassDistance) /\ ~MustSlow
        <3>1. PublishDriveCommand(Enabled(CruiseSpeed), 0)
            BY <1>3, <2>5 DEF React
        <3>2. driveCmd'.speed = Enabled(CruiseSpeed) /\ lastCmd'.speed = Enabled(CruiseSpeed)
            BY <2>2, <3>1, DriveCommand
        <3>3. ~ObstacleNear
            BY <2>5 DEF MustSlow, ObstacleNear
        <3> QED BY <1>3, <2>1, <2>2, <3>2, <3>3
    <2> QED BY <2>3, <2>4, <2>5
<1> QED BY <1>1, <1>2, <1>3

(* control_loop: the lag falls, and the command answers to what holds now. *)
LEMMA LoopInv == ControlInv /\ ControlLoop => ControlInv'
<1> SUFFICES ASSUME ControlInv, ControlLoop PROVE ControlInv'
    OBVIOUS
<1> USE ControlAssumption
<1>0. CommandInv /\ SilenceInv /\ HazardInv /\ ObstacleInv /\ DisabledNeverMoves
    BY DEF ControlInv
<1>1. /\ controlDue /\ ~controlDue' /\ React
      /\ UNCHANGED <<motionEnabled, detectionAge, untilControl, hazardAge, obstacleAge>>
    BY DEF ControlLoop
<1>2. (HazardNear' <=> HazardNear) /\ (ObstacleNear' <=> ObstacleNear)
    BY SameCandidates DEF ControlLoop
<1>3. ControlLag' \in Nat
    BY <1>0, <1>1 DEF CommandInv, ControlLag
<1>4. ~Silent => detectionAge # -1 /\ detectionAge <= DetectionTimeout
    BY <1>0 DEF CommandInv, Silent
<1>5. \/ driveCmd'.speed = 0 /\ lastCmd'.speed = 0
      \/ ~Silent /\ driveCmd' = driveCmd /\ lastCmd'.speed = 0
      \/ /\ ~Silent /\ ~HazardNear /\ motionEnabled
         /\ driveCmd'.speed \in Nat /\ lastCmd'.speed = driveCmd'.speed
         /\ ObstacleNear => driveCmd'.speed <= SlowSpeed \/ driveCmd'.speed <= BypassSpeed
    BY <1>0, <1>1, ReactBranches
<1>6. driveCmd'.speed \in Nat /\ lastCmd'.speed \in Nat
    BY <1>0, <1>5 DEF CommandInv
<1>7. CommandInv'
    <2>1. controlDue' \in BOOLEAN /\ motionEnabled' \in BOOLEAN
        BY <1>0 DEF ControlLoop, CommandInv
    <2>2. /\ untilControl' \in 1..ControlPeriod /\ detectionAge' \in ControlAges
          /\ hazardAge' \in ControlAges /\ obstacleAge' \in ControlAges
        BY <1>0, <1>1 DEF CommandInv
    <2> QED BY <1>6, <2>1, <2>2 DEF CommandInv
<1>8. SilenceInv'
    <2> SUFFICES ASSUME driveCmd'.speed > 0
                 PROVE  detectionAge' # -1 /\ detectionAge' <= DetectionTimeout + ControlLag'
        BY DEF SilenceInv
    <2>1. ~Silent
        BY <1>5
    <2>2. detectionAge' = detectionAge /\ detectionAge \in ControlAges
        BY <1>0, <1>1 DEF CommandInv
    <2>3. detectionAge # -1 /\ \A lag \in Nat : detectionAge <= DetectionTimeout + lag
        BY <1>4, <2>1, <2>2
    <2> QED BY <1>3, <2>2, <2>3
<1>9. HazardInv'
    <2>1. HazardNear => lastCmd'.speed = 0
        BY <1>5
    <2>2. hazardAge \in ControlAges /\ hazardAge' = hazardAge /\ (hazardAge # -1 <=> HazardNear)
        BY <1>0, <1>1 DEF CommandInv, HazardInv
    <2> QED BY <1>2, <1>3, <2>1, <2>2 DEF HazardInv
<1>10. ObstacleInv'
    <2>1. ObstacleNear => lastCmd'.speed <= SlowSpeed \/ lastCmd'.speed <= BypassSpeed
        BY <1>5
    <2>2. /\ obstacleAge \in ControlAges /\ obstacleAge' = obstacleAge
          /\ obstacleAge # -1 <=> ObstacleNear
        BY <1>0, <1>1 DEF CommandInv, ObstacleInv
    <2> QED BY <1>2, <1>3, <2>1, <2>2 DEF ObstacleInv
<1>11. DisabledNeverMoves'
    BY <1>0, <1>1, <1>5 DEF DisabledNeverMoves
<1> QED BY <1>7, <1>8, <1>9, <1>10, <1>11 DEF ControlInv

-------------------------------------------------------------------------------
(* Every step of the controller preserves the invariant.                   *)
LEMMA NextInv == ControlInv /\ [Next]_controlVars => ControlInv'
<1> SUFFICES ASSUME ControlInv, [Next]_controlVars PROVE ControlInv'
    OBVIOUS
<1>1. CASE ControlTick
    BY <1>1, TickInv
<1>2. CASE ControlLoop
    BY <1>2, LoopInv
<1>3. CASE \E frame \in Frames : DepthCallback(frame)
    BY <1>3, QuietInv DEF DepthCallback
<1>4. CASE \E mode \in SceneModes : SceneModeCallback(mode)
    BY <1>4, QuietInv DEF SceneModeCallback
<1>5. CASE \E msg \in Detections : DetectionsCallback(msg)
    BY <1>5, DetectionsInv
<1>6. CASE UNCHANGED controlVars
    BY <1>6, QuietInv DEF controlVars
<1> QED BY <1>1, <1>2, <1>3, <1>4, <1>5, <1>6 DEF Next

(* The safety part of the specification.                                   *)
Safety == Init /\ [][Next]_controlVars

(* The invariant holds in every reachable state.                           *)
LEMMA ControlAlways == Safety => []ControlInv
<1>1. Init => ControlInv
    BY InitInv
<1>2. ControlInv /\ [Next]_controlVars => ControlInv'
    BY NextInv
<1> QED BY <1>1, <1>2, PTL DEF Safety

(* The invariant of the lags holds in every reachable state, for all       *)
(* timings, labels, frames and messages (control_loop and the callbacks).  *)
THEOREM ControlInvariance == Spec => []ControlInv
BY ControlAlways, PTL DEF Spec, Safety

(* What the invariant says of a state.                                     *)
LEMMA SafeStates ==
    ControlInv => DeadMansSwitch /\ StopsForHazard /\ SlowsForObstacle /\ DisabledNeverMoves
<1> SUFFICES ASSUME ControlInv
             PROVE  DeadMansSwitch /\ StopsForHazard /\ SlowsForObstacle /\ DisabledNeverMoves
    OBVIOUS
<1>1. CommandInv /\ SilenceInv /\ HazardInv /\ ObstacleInv /\ DisabledNeverMoves
    BY DEF ControlInv
<1>2. ControlLag \in 0 .. (2 * ControlPeriod - 1)
    BY <1>1, LagBound
<1>3. DeadMansSwitch
    BY <1>1, <1>2, ControlAssumption DEF CommandInv, SilenceInv, DeadMansSwitch
<1>4. StopsForHazard
    BY <1>1, <1>2, ControlAssumption DEF CommandInv, HazardInv, StopsForHazard
<1>5. SlowsForObstacle
    BY <1>1, <1>2, ControlAssumption DEF CommandInv, ObstacleInv, SlowsForObstacle
<1> QED BY <1>1, <1>3, <1>4, <1>5

(* A command to move does not outlive the detector: once nothing has been  *)
(* heard for the timeout and two control periods, the command standing on  *)
(* /purepursuit_cmd has speed zero (control_loop's first two branches).    *)
THEOREM DeadMan == Spec => []DeadMansSwitch
BY SafeStates, ControlInvariance, PTL

(* A person or a stop sign near for two control periods has stopped the    *)
(* car, whatever other obstacles are near (the order of control_loop).     *)
THEOREM HazardStops == Spec => []StopsForHazard
BY SafeStates, ControlInvariance, PTL

(* An obstacle near for two control periods has slowed the car down (the   *)
(* bypass and slow branches of control_loop).                              *)
THEOREM ObstacleSlows == Spec => []SlowsForObstacle
BY SafeStates, ControlInvariance, PTL

(* Without motion_enabled no behaviour commands a speed.                   *)
THEOREM MotionFlag == Spec => []DisabledNeverMoves
BY SafeStates, ControlInvariance, PTL
-------------------------------------------------------------------------------
(* A candidate of a set that comes before all candidates of the set.       *)
IsFirst(c, T, i) == i \in T /\ \A j \in T : Before(c, i, j)

(* Before is a total preorder on candidates.                               *)
LEMMA BeforeIsTotal ==
    ASSUME NEW c, AreCandidates(c), DOMAIN c \subseteq Int, NEW i \in DOMAIN c, NEW j \in DOMAIN c
    PROVE  Before(c, i, j) \/ Before(c, j, i)
BY DEF Before, AreCandidates

LEMMA BeforeIsTransitive ==
    ASSUME NEW c, AreCandidates(c), DOMAIN c \subseteq Int,
           NEW i \in DOMAIN c, NEW j \in DOMAIN c, NEW k \in DOMAIN c,
           Before(c, i, j), Before(c, j, k)
    PROVE  Before(c, i, k)
BY DEF Before, AreCandidates

(* One more candidate: it comes first, or the first of the others does.    *)
LEMMA FirstOfMore ==
    ASSUME NEW c, AreCandidates(c), DOMAIN c \subseteq Int,
           NEW T \in SUBSET DOMAIN c, NEW k \in T,
           T # {k} => \E i : IsFirst(c, T \ {k}, i)
    PROVE  \E i : IsFirst(c, T, i)
<1>1. Before(c, k, k)
    BY BeforeIsTotal
<1>2. CASE T = {k}
    <2>1. IsFirst(c, T, k)
        BY <1>1, <1>2 DEF IsFirst
    <2> QED BY <2>1
<1>3. CASE T # {k}
    <2>1. PICK i : IsFirst(c, T \ {k}, i)
        BY <1>3
    <2>2. i \in T /\ i \in DOMAIN c /\ \A j \in T \ {k} : Before(c, i, j)
        BY <2>1 DEF IsFirst
    <2>3. CASE Before(c, i, k)
        <3>1. IsFirst(c, T, i)
            BY <2>2, <2>3 DEF IsFirst
        <3> QED BY <3>1
    <2>4. CASE Before(c, k, i)
        <3>1. \A j \in T \ {k} : Before(c, k, j)
            BY <2>2, <2>4, BeforeIsTransitive
        <3>2. IsFirst(c, T, k)
            BY <1>1, <3>1 DEF IsFirst
        <3> QED BY <3>2
    <2> QED BY <2>2, <2>3, <2>4, BeforeIsTotal
<1> QED BY <1>2, <1>3

(* A nonempty set of candidates has a first one, so that the choice of     *)
(* select_candidate is one of them.                                        *)
LEMMA FirstExists ==
    ASSUME NEW c, AreCandidates(c), NEW n \in Nat, DOMAIN c \subseteq 1..n,
           NEW near \in SUBSET DOMAIN c, near # {}
    PROVE  \E i : IsFirst(c, near, i)
<1> DEFINE S == {m \in Nat : \A T \in SUBSET DOMAIN c :
                                 T # {} /\ T \subseteq 1..m => \E i : IsFirst(c, T, i)}
<1>1. 0 \in S
    OBVIOUS
<1>2. ASSUME NEW m \in Nat, m \in S PROVE m + 1 \in S
    <2> SUFFICES ASSUME NEW T \in SUBSET DOMAIN c, T # {}, T \subseteq 1..m + 1
                 PROVE  \E i : IsFirst(c, T, i)
        OBVIOUS
    <2>1. CASE T \subseteq 1..m
        BY <1>2, <2>1
    <2>2. CASE ~ (T \subseteq 1..m)
        <3>1. m + 1 \in T /\ T \ {m + 1} \subseteq 1..m
            BY <2>2
        <3>2. T # {m + 1} => \E i : IsFirst(c, T \ {m + 1}, i)
            BY <1>2, <3>1
        <3> QED BY <3>1, <3>2, FirstOfMore
    <2> QED BY <2>1, <2>2
<1>3. Nat \subseteq S
    <2> HIDE DEF S
    <2> QED BY <1>1, <1>2, NatSet
<1> QED BY <1>3

(* select_candidate gives one of the nearest candidates it is asked for.   *)
LEMMA SelectionIsNearest ==
    ASSUME CandidatesInv, NEW labels, NEW distance, IsNear(labels, distance)
    PROVE  \E i \in Near(latestCandidates, labels, distance) :
               /\ SelectCandidate(labels, distance) = latestCandidates[i]
               /\ \A j \in Near(latestCandidates, labels, distance) :
                      latestCandidates[i].depth <= latestCandidates[j].depth
<1> DEFINE c == latestCandidates
           near == Near(latestCandidates, labels, distance)
           first == CHOOSE i \in near : \A j \in near : Before(c, i, j)
<1>1. near # {} /\ near \subseteq DOMAIN c
    BY DEF IsNear, Near
<1>2. PICK i : IsFirst(c, near, i)
    <2> HIDE DEF near
    <2> QED BY <1>1, FirstExists DEF CandidatesInv
<1>3. first \in near /\ \A j \in near : Before(c, first, j)
    <2> HIDE DEF near
    <2> QED BY <1>2 DEF IsFirst
<1>4. SelectCandidate(labels, distance) = c[first]
    BY DEF SelectCandidate
<1> HIDE DEF first, near
<1>5. \A j \in near : c[first].depth <= c[j].depth
    BY <1>1, <1>3 DEF Before, CandidatesInv, AreCandidates
<1> QED BY <1>3, <1>4, <1>5 DEF near

(* The steering of an obstacle outside of the deadband points away from    *)
(* it, whatever the gain and the limit are.                                *)
LEMMA SteersAway ==
    ASSUME NEW y \in Int
    PROVE  /\ AvoidanceSteering(y) \in Int
           /\ \/ y \in (1 - Deadband)..(Deadband - 1)
              \/ AvoidanceSteering(y) = 0
              \/ y > 0 /\ AvoidanceSteering(y) < 0
              \/ y < 0 /\ AvoidanceSteering(y) > 0
<1> USE ControlAssumption
<1> DEFINE turn == -SteeringGain * y
<1>1. turn \in Int /\ (y > 0 => turn <= 0) /\ (y < 0 => turn >= 0) /\ (y = 0 => turn = 0)
    OBVIOUS
<1>2. CASE -Deadband < y /\ y < Deadband
    BY <1>2 DEF AvoidanceSteering
<1>3. CASE ~ (-Deadband < y /\ y < Deadband)
    <2>1. AvoidanceSteering(y) = Clamp(turn, -MaxSteering, MaxSteering)
        BY <1>3 DEF AvoidanceSteering
    <2> HIDE DEF turn
    <2>2. /\ Clamp(turn, -MaxSteering, MaxSteering) \in Int
          /\ turn <= 0 => Clamp(turn, -MaxSteering, MaxSteering) <= 0
          /\ turn >= 0 => Clamp(turn, -MaxSteering, MaxSteering) >= 0
          /\ turn = 0 => Clamp(turn, -MaxSteering, MaxSteering) = 0
        BY <1>1 DEF Clamp
    <2> QED BY <1>1, <2>1, <2>2
<1> QED BY <1>2, <1>3

-------------------------------------------------------------------------------
(* The candidates of a message are typed, and their places are places of   *)
(* the message.                                                            *)
LEMMA CandidatesType ==
    ASSUME NEW msg \in Detections, depthImage \in Frames
    PROVE  /\ AreCandidates(Candidates(msg))
           /\ \E n \in Nat : DOMAIN Candidates(msg) \subseteq 1..n
<1>1. Len(msg) \in Nat /\ DOMAIN msg = 1..Len(msg)
    BY SensorAssumption
<1>2. DOMAIN Candidates(msg) \subseteq 1..Len(msg)
    BY <1>1 DEF Candidates
<1>3. ASSUME NEW i \in DOMAIN Candidates(msg)
      PROVE  /\ Candidates(msg)[i].depth \in Nat /\ Candidates(msg)[i].confidence \in Nat
             /\ Candidates(msg)[i].y \in Int
    <2>1. i \in DOMAIN msg /\ Located(msg[i]) /\ Candidates(msg)[i] = Candidate(msg[i])
        BY <1>3 DEF Candidates
    <2>2. msg[i].box \in DOMAIN Slope /\ msg[i].confidence \in Nat
        BY <2>1, SensorAssumption DEF Located
    <2>3. depthImage[msg[i].box] \in Nat /\ Slope[msg[i].box] \in Int
        BY <2>2, SensorAssumption
    <2>4. depthImage[msg[i].box] * Slope[msg[i].box] \in Int
        BY <2>3
    <2> QED BY <2>1, <2>2, <2>3, <2>4 DEF Candidate
<1> QED BY <1>1, <1>2, <1>3 DEF AreCandidates

(* The candidates are typed in every reachable state.                      *)
LEMMA CandidatesAlways == Safety => []CandidatesInv
<1>1. Init => CandidatesInv
    BY DEF Init, CandidatesInv, AreCandidates
<1>2. CandidatesInv /\ [Next]_controlVars => CandidatesInv'
    <2> SUFFICES ASSUME CandidatesInv, [Next]_controlVars PROVE CandidatesInv'
        OBVIOUS
    <2>1. CASE UNCHANGED <<depthImage, latestCandidates>>
        BY <2>1 DEF CandidatesInv, AreCandidates
    <2>2. CASE \E frame \in Frames : DepthCallback(frame)
        BY <2>2 DEF DepthCallback, CandidatesInv, AreCandidates
    <2>3. ASSUME NEW msg \in Detections, DetectionsCallback(msg) PROVE CandidatesInv'
        <3>1. /\ depthImage' = depthImage
              /\ latestCandidates' = IF depthImage = NoFrame THEN <<>> ELSE Candidates(msg)
            BY <2>3 DEF DetectionsCallback
        <3>2. CASE depthImage = NoFrame
            <4>1. AreCandidates(<<>>) /\ DOMAIN (<<>>) \subseteq 1..0
                BY DEF AreCandidates
            <4> QED BY <3>1, <3>2, <4>1 DEF CandidatesInv, AreCandidates
        <3>3. CASE depthImage # NoFrame
            <4>1. depthImage \in Frames
                BY <3>3 DEF CandidatesInv
            <4>2. /\ AreCandidates(Candidates(msg))
                  /\ \E n \in Nat : DOMAIN Candidates(msg) \subseteq 1..n
                BY <4>1, CandidatesType
            <4>3. latestCandidates' = Candidates(msg)
                BY <3>1, <3>3
            <4> QED BY <3>1, <4>1, <4>2, <4>3 DEF CandidatesInv, AreCandidates
        <3> QED BY <3>2, <3>3
    <2> QED BY <2>1, <2>2, <2>3
            DEF Next, ControlTick, ControlLoop, SceneModeCallback, controlVars
<1> QED BY <1>1, <1>2, PTL DEF Safety

(* A command that steers is one of the bypass or the slow behaviour, for   *)
(* the candidate that behaviour has selected.                              *)
LEMMA SteeringBranches ==
    ASSUME React, lastCmd'.steering # 0
    PROVE  \E labels, distance :
               /\ IsNear(labels, distance) /\ Avoided = Near(latestCandidates, labels, distance)
               /\ lastCmd'.steering \in {AvoidanceSteering(SelectCandidate(labels, distance).y),
                                          2 * AvoidanceSteering(SelectCandidate(labels, distance).y)}
<1>1. ~Silent /\ ~MustStop
    BY DEF React, PublishDriveCommand, PublishEmergencyStop, EmergencyStop
<1>2. CASE IsNear(BypassLabels, BypassDistance)
    <2>1. Bypass
        BY <1>1, <1>2 DEF React
    <2> QED BY <1>2, <2>1 DEF Bypass, PublishDriveCommand, Avoided
<1>3. CASE ~IsNear(BypassLabels, BypassDistance)
    <2>1. MustSlow /\ Slow
        BY <1>1, <1>3 DEF React, PublishDriveCommand
    <2> QED BY <1>3, <2>1 DEF MustSlow, Slow, PublishDriveCommand, Avoided
<1> QED BY <1>2, <1>3

(* A step that steers.                                                     *)
LEMMA SteersAlways == Safety => NeverSteersInto
<1> DEFINE Away == controlDue /\ ~controlDue' /\ lastCmd'.steering # 0 =>
        \E i \in Avoided :
            /\ \A j \in Avoided : latestCandidates[i].depth <= latestCandidates[j].depth
            /\ \/ latestCandidates[i].y \in (1 - Deadband)..(Deadband - 1)
               \/ latestCandidates[i].y > 0 /\ lastCmd'.steering < 0
               \/ latestCandidates[i].y < 0 /\ lastCmd'.steering > 0
<1>1. CandidatesInv /\ [Next]_controlVars => [Away]_controlVars
    <2> SUFFICES ASSUME CandidatesInv, Next, controlDue, ~controlDue', lastCmd'.steering # 0
                 PROVE  Away
        OBVIOUS
    <2>1. React
        BY DEF Next, ControlTick, ControlLoop, DepthCallback, SceneModeCallback, DetectionsCallback
    <2>2. PICK labels, distance :
              /\ IsNear(labels, distance) /\ Avoided = Near(latestCandidates, labels, distance)
              /\ lastCmd'.steering \in {AvoidanceSteering(SelectCandidate(labels, distance).y),
                                         2 * AvoidanceSteering(SelectCandidate(labels, distance).y)}
        BY <2>1, SteeringBranches
    <2>3. PICK i \in Avoided :
              /\ SelectCandidate(labels, distance) = latestCandidates[i]
              /\ \A j \in Avoided : latestCandidates[i].depth <= latestCandidates[j].depth
        BY <2>2, SelectionIsNearest
    <2>4. latestCandidates[i].y \in Int
        BY <2>3 DEF Avoided, Near, CandidatesInv, AreCandidates
    <2>5. lastCmd'.steering \in {AvoidanceSteering(latestCandidates[i].y),
                                 2 * AvoidanceSteering(latestCandidates[i].y)}
        BY <2>2, <2>3
    <2>6. \/ latestCandidates[i].y \in (1 - Deadband)..(Deadband - 1)
          \/ latestCandidates[i].y > 0 /\ lastCmd'.steering < 0
          \/ latestCandidates[i].y < 0 /\ lastCmd'.steering > 0
        BY <2>4, <2>5, SteersAway
    <2> QED BY <2>3, <2>6
<1> QED BY <1>1, CandidatesAlways, PTL DEF Safety, NeverSteersInto

(* Whenever control_loop steers, one of the nearest obstacles it avoids is *)
(* ahead within the deadband or on the other side, for every gain, limit,  *)
(* set of labels, frame and message (calculate_position and                *)
(* compute_avoidance_steering share one sign convention).                  *)
THEOREM SteeringIsAway == Spec => NeverSteersInto
BY SteersAlways, PTL DEF Spec, Safety

-------------------------------------------------------------------------------
(* The whole loop: NanoOWL, the topic and the controller.                  *)
CONSTANTS QueryStrings, InitialQuery, Scores, MaxDetections, Depth

VARIABLES owl, queryQueue, imagePending, query, queryText, textEncodings, processingImage,
          usedEncodings, legacyOut, found, lastReceived, answerQueue

Loop == INSTANCE DrivePipeline

(* What NanoOWL can answer: entries named for a text of one of the queries *)
(* or for an index, as listener_callback writes them.                      *)
AnswerLabels ==
    {<<"index">>} \cup
    UNION {{text[i] : i \in DOMAIN text} :
               text \in {Loop!NanoOwl!QueryTexts(q) : q \in QueryStrings \cup {InitialQuery}}}
AnswerEntries == [label : AnswerLabels, box : DOMAIN Slope, confidence : Scores]
Answers == BoundedSeq(AnswerEntries, MaxDetections)

(* The controller is specified for these messages at least.                *)
AnswersAreDetections ==
    Answers \subseteq Detections /\ Depth \in Nat \ {0} /\ MaxDetections \in Nat

(* NanoOWL works with the texts of a query it was sent, and the buffer of  *)
(* the controller holds answers.                                           *)
AnswersInv ==
    /\ queryQueue \in Seq(QueryStrings)
    /\ \A i \in DOMAIN queryText : queryText[i] \in AnswerLabels
    /\ legacyOut \in Seq(Answers)
    /\ answerQueue \in Seq(Answers)

(* The operators of Topics are the same in the nodes and in the loop.      *)
LEMMA SameOperators ==
    /\ \A queue, sent, hears, depth :
           /\ Loop!Deliver(queue, sent, hears, depth) = Deliver(queue, sent, hears, depth)
           /\ Loop!NanoOwl!Deliver(queue, sent, hears, depth) = Deliver(queue, sent, hears, depth)
    /\ \A S, n : Loop!NanoOwl!BoundedSeq(S, n) = BoundedSeq(S, n)
<1>1. \A queue, sent, hears, depth :
          Loop!Deliver(queue, sent, hears, depth) = Deliver(queue, sent, hears, depth)
    BY DEF Deliver, KeepLast, Loop!Deliver, Loop!KeepLast
<1>2. \A queue, sent, hears, depth :
          Loop!NanoOwl!Deliver(queue, sent, hears, depth) = Deliver(queue, sent, hears, depth)
    BY DEF Deliver, KeepLast, Loop!NanoOwl!Deliver, Loop!NanoOwl!KeepLast
<1>3. \A S, n : Loop!NanoOwl!BoundedSeq(S, n) = BoundedSeq(S, n)
    BY DEF BoundedSeq, SeqOf, Loop!NanoOwl!BoundedSeq, Loop!NanoOwl!SeqOf
<1> QED BY <1>1, <1>2, <1>3

(* The nodes start in the loop as they start on their own.                 *)
LEMMA LoopInit == Loop!Init => Init /\ AnswersInv
<1> SUFFICES ASSUME Loop!Init PROVE Init /\ AnswersInv
    OBVIOUS
<1>1. Init
    BY DEF Loop!Init, Loop!Controller!Init, Init, Loop!Controller!NoFrame, NoFrame,
           Loop!Controller!NoDetection, Loop!Controller!NoCommand, NoCommand
<1>2. queryQueue = <<>> /\ queryText = <<>> /\ legacyOut = <<>> /\ answerQueue = <<>>
    BY DEF Loop!Init, Loop!NanoOwl!Init
<1>3. AnswersInv
    BY <1>2 DEF AnswersInv
<1> QED BY <1>1, <1>3

(* The texts NanoOWL works with are those of a query.                      *)
LEMMA CacheFollows ==
    ASSUME NEW q \in QueryStrings \cup {InitialQuery}, Loop!NanoOwl!UpdateQueryCache(q)
    PROVE  \A i \in DOMAIN queryText' : queryText'[i] \in AnswerLabels
<1>1. queryText' = Loop!NanoOwl!QueryTexts(q)
    BY DEF Loop!NanoOwl!UpdateQueryCache
<1> QED BY <1>1 DEF AnswerLabels

(* What listener_callback publishes is an answer.                          *)
LEMMA AnswersWritten ==
    ASSUME AnswersAreDetections, AnswersInv, Loop!NanoOwl!ListenerFinish
    PROVE  legacyOut' \in Seq(Answers)
<1>1. PICK labels \in BoundedSeq(DOMAIN usedEncodings, MaxDetections) :
          \E boxes \in [DOMAIN labels -> DOMAIN Slope], score \in Scores :
             legacyOut' = Loop!NanoOwl!LegacyMessages(labels, [i \in DOMAIN labels |->
                 [label |-> Loop!NanoOwl!ClassName(labels[i]), box |-> boxes[i],
                  confidence |-> score]])
    BY SameOperators DEF Loop!NanoOwl!ListenerFinish
<1>2. PICK boxes \in [DOMAIN labels -> DOMAIN Slope], score \in Scores :
          legacyOut' = Loop!NanoOwl!LegacyMessages(labels, [i \in DOMAIN labels |->
              [label |-> Loop!NanoOwl!ClassName(labels[i]), box |-> boxes[i], confidence |-> score]])
    BY <1>1
<1> DEFINE entries == [i \in DOMAIN labels |->
               [label |-> Loop!NanoOwl!ClassName(labels[i]), box |-> boxes[i], confidence |-> score]]
<1>3. legacyOut' = <<entries>>
    BY <1>2 DEF Loop!NanoOwl!LegacyMessages
<1>4. labels \in Seq(DOMAIN usedEncodings) /\ Len(labels) <= MaxDetections
    BY BoundedSeqFacts DEF AnswersAreDetections
<1>5. \A i \in DOMAIN labels : Loop!NanoOwl!ClassName(labels[i]) \in AnswerLabels
    BY DEF Loop!NanoOwl!ClassName, AnswersInv, AnswerLabels
<1>6. \A i \in DOMAIN labels : entries[i] \in AnswerEntries
    BY <1>5 DEF AnswerEntries
<1>7. DOMAIN labels = 1..Len(labels) /\ Len(labels) \in Nat
    BY <1>4
<1>8. entries \in [1..Len(labels) -> AnswerEntries]
    BY <1>6, <1>7
<1>9. entries \in Seq(AnswerEntries) /\ Len(entries) <= MaxDetections
    <2> HIDE DEF entries
    <2> QED BY <1>4, <1>7, <1>8, FunctionIsSeq
<1>10. entries \in Answers
    <2> HIDE DEF entries
    <2> QED BY <1>9, BoundedSeqFacts DEF Answers, AnswersAreDetections
<1> HIDE DEF entries
<1> QED BY <1>3, <1>10

(* What NanoOWL's steps do to the fields of the invariant.                 *)
LEMMA NanoOwlFollows ==
    ASSUME AnswersAreDetections, AnswersInv, Loop!NanoOwlSteps
    PROVE  AnswersInv'
<1> USE DEF AnswersInv
<1>1. /\ queryQueue' \in Seq(QueryStrings)
      /\ \A i \in DOMAIN queryText' : queryText'[i] \in AnswerLabels
      /\ legacyOut' \in Seq(Answers)
    <2>1. CASE Loop!NanoOwl!Load
        <3>1. \A i \in DOMAIN queryText' : queryText'[i] \in AnswerLabels
            BY <2>1, CacheFollows DEF Loop!NanoOwl!Load
        <3> QED BY <2>1, <3>1 DEF Loop!NanoOwl!Load
    <2>2. CASE Loop!NanoOwl!QueryListenerCallback
        <3>1. queryQueue # <<>> /\ queryQueue' = Tail(queryQueue) /\ legacyOut' = <<>>
            BY <2>2 DEF Loop!NanoOwl!QueryListenerCallback
        <3>2. queryQueue' \in Seq(QueryStrings) /\ Head(queryQueue) \in QueryStrings
            BY <3>1
        <3>3. CASE Loop!NanoOwl!UpdateQueryCache(Head(queryQueue))
            BY <3>1, <3>2, <3>3, CacheFollows
        <3>4. CASE queryText' = queryText
            BY <3>1, <3>2, <3>4
        <3> QED BY <2>2, <3>3, <3>4 DEF Loop!NanoOwl!QueryListenerCallback, Loop!NanoOwl!cache
    <2>3. CASE Loop!NanoOwl!ListenerStart
        BY <2>3 DEF Loop!NanoOwl!ListenerStart, Loop!NanoOwl!cache
    <2>4. CASE Loop!NanoOwl!ListenerFinish
        <3>1. legacyOut' \in Seq(Answers)
            BY <2>4, AnswersWritten
        <3>2. UNCHANGED <<queryQueue, queryText>>
            BY <2>4 DEF Loop!NanoOwl!ListenerFinish, Loop!NanoOwl!cache
        <3> QED BY <3>1, <3>2
    <2>5. CASE Loop!NanoOwl!Fail
        BY <2>5 DEF Loop!NanoOwl!Fail, Loop!NanoOwl!cache
    <2>6. CASE Loop!NanoOwl!ReceiveImage
        BY <2>6 DEF Loop!NanoOwl!ReceiveImage, Loop!NanoOwl!cache
    <2>7. ASSUME NEW q \in QueryStrings, Loop!NanoOwl!ReceiveQueries(<<q>>, TRUE), legacyOut' = <<>>
          PROVE  /\ queryQueue' \in Seq(QueryStrings)
                 /\ \A i \in DOMAIN queryText' : queryText'[i] \in AnswerLabels
                 /\ legacyOut' \in Seq(Answers)
        <3>1. /\ queryQueue' = Deliver(queryQueue, <<q>>, TRUE, Depth) /\ queryText' = queryText
            BY <2>7, SameOperators DEF Loop!NanoOwl!ReceiveQueries, Loop!NanoOwl!cache
        <3>2. <<q>> \in Seq(QueryStrings)
            OBVIOUS
        <3>3. queryQueue' \in Seq(QueryStrings)
            BY <3>1, <3>2, DeliverType DEF AnswersAreDetections
        <3>4. legacyOut' \in Seq(Answers)
            BY <2>7
        <3>5. \A i \in DOMAIN queryText' : queryText'[i] \in AnswerLabels
            BY <3>1
        <3> QED BY <3>3, <3>4, <3>5
    <2> QED BY <2>1, <2>2, <2>3, <2>4, <2>5, <2>6, <2>7 DEF Loop!NanoOwlSteps
<1>2. answerQueue' \in Seq(Answers)
    <2>1. answerQueue' = Deliver(answerQueue, legacyOut', TRUE, Depth)
        BY SameOperators DEF Loop!NanoOwlSteps
    <2> QED BY <1>1, <2>1, DeliverType DEF AnswersAreDetections
<1> QED BY <1>1, <1>2

(* The controller's operators are those of the controller on its own: they *)
(* use none of the constants the loop gives other values.                  *)
LEMMA SameLabels ==
    /\ Loop!Controller!StopLabels = StopLabels /\ Loop!Controller!SlowLabels = SlowLabels
    /\ Loop!Controller!BypassLabels = BypassLabels
    /\ \A label : Loop!Controller!NormalizeLabel(label) = NormalizeLabel(label)
<1>1. \A label : Loop!Controller!NormalizeLabel(label) = NormalizeLabel(label)
    BY DEF NormalizeLabel, Articles, Loop!Controller!NormalizeLabel, Loop!Controller!Articles
<1>2. \A q : Loop!Controller!ParseLabelSet(q) = ParseLabelSet(q)
    BY <1>1 DEF ParseLabelSet, Loop!Controller!ParseLabelSet
<1> QED BY <1>1, <1>2
        DEF StopLabels, SlowLabels, BypassLabels, Loop!Controller!StopLabels,
            Loop!Controller!SlowLabels, Loop!Controller!BypassLabels

LEMMA SameSelection ==
    /\ \A c, labels, distance : Loop!Controller!Near(c, labels, distance) = Near(c, labels, distance)
    /\ \A labels, distance : /\ Loop!Controller!IsNear(labels, distance) = IsNear(labels, distance)
                             /\ Loop!Controller!SelectCandidate(labels, distance)
                                = SelectCandidate(labels, distance)
<1>1. \A c, labels, distance : Loop!Controller!Near(c, labels, distance) = Near(c, labels, distance)
    BY DEF Near, Loop!Controller!Near
<1>2. \A c, i, j : Loop!Controller!Before(c, i, j) = Before(c, i, j)
    BY DEF Before, Loop!Controller!Before
<1>3. \A labels, distance : Loop!Controller!IsNear(labels, distance) = IsNear(labels, distance)
    BY <1>1 DEF IsNear, Loop!Controller!IsNear
<1>4. \A labels, distance : Loop!Controller!SelectCandidate(labels, distance)
                            = SelectCandidate(labels, distance)
    BY <1>1, <1>2 DEF SelectCandidate, Loop!Controller!SelectCandidate
<1> QED BY <1>1, <1>3, <1>4

LEMMA SameCandidateSet == \A msg : Loop!Controller!Candidates(msg) = Candidates(msg)
<1>1. \A e : Loop!Controller!Candidate(e) = Candidate(e)
    BY SameLabels DEF Candidate, Loop!Controller!Candidate
<1>2. \A e : Loop!Controller!Located(e) = Located(e)
    BY DEF Located, Loop!Controller!Located, Unparsable, Loop!Controller!Unparsable
<1> QED BY <1>1, <1>2 DEF Candidates, Loop!Controller!Candidates

(* The steps of the controller in the loop are steps of the controller.    *)
LEMMA SameTick == Loop!Controller!ControlTick => ControlTick
BY DEF Loop!Controller!ControlTick, ControlTick, Loop!Controller!Aged, Aged,
       Loop!Controller!NoDetection

LEMMA SameDepth == \A frame : Loop!Controller!DepthCallback(frame) => DepthCallback(frame)
BY DEF Loop!Controller!DepthCallback, DepthCallback

LEMMA SameDetections ==
    \A msg : Loop!Controller!DetectionsCallback(msg) => DetectionsCallback(msg)
<1> SUFFICES ASSUME NEW msg, Loop!Controller!DetectionsCallback(msg)
             PROVE  DetectionsCallback(msg)
    OBVIOUS
<1>1. (Loop!Controller!HazardNear)' = HazardNear' /\ (Loop!Controller!ObstacleNear)' = ObstacleNear'
    BY SameLabels DEF HazardNear, ObstacleNear, IsNear, Near, Loop!Controller!HazardNear,
       Loop!Controller!ObstacleNear, Loop!Controller!IsNear, Loop!Controller!Near
<1>2. latestCandidates' = IF depthImage = NoFrame THEN <<>> ELSE Candidates(msg)
    BY SameCandidateSet DEF Loop!Controller!DetectionsCallback, Loop!Controller!NoFrame, NoFrame
<1>3. /\ hazardAge' = Since(hazardAge, HazardNear')
      /\ obstacleAge' = Since(obstacleAge, ObstacleNear')
    BY <1>1 DEF Loop!Controller!DetectionsCallback, Loop!Controller!Since, Since,
       Loop!Controller!NoDetection
<1> QED BY <1>2, <1>3 DEF Loop!Controller!DetectionsCallback, DetectionsCallback

LEMMA SameLoop == Loop!Controller!ControlLoop => ControlLoop
<1> SUFFICES ASSUME Loop!Controller!ControlLoop PROVE ControlLoop
    OBVIOUS
<1>1. \A y : Loop!Controller!AvoidanceSteering(y) = AvoidanceSteering(y)
    BY DEF AvoidanceSteering, Clamp, Loop!Controller!AvoidanceSteering, Loop!Controller!Clamp
<1>2. \A speed, steering :
          Loop!Controller!PublishDriveCommand(speed, steering) => PublishDriveCommand(speed, steering)
    BY DEF PublishDriveCommand, Loop!Controller!PublishDriveCommand
<1>3. Loop!Controller!PublishEmergencyStop => PublishEmergencyStop
    BY DEF PublishEmergencyStop, EmergencyStop, Loop!Controller!PublishEmergencyStop,
           Loop!Controller!EmergencyStop
<1>4. Loop!Controller!Bypass => Bypass
    BY <1>1, <1>2, SameSelection, SameLabels
       DEF Bypass, Enabled, Loop!Controller!Bypass, Loop!Controller!Enabled
<1>5. Loop!Controller!Slow => Slow
    BY <1>1, <1>2, SameSelection, SameLabels
       DEF Slow, Enabled, Loop!Controller!Slow, Loop!Controller!Enabled
<1>6. /\ Loop!Controller!Silent = Silent /\ Loop!Controller!MustStop = MustStop
      /\ Loop!Controller!MustSlow = MustSlow
      /\ Loop!Controller!IsNear(Loop!Controller!BypassLabels, BypassDistance)
         = IsNear(BypassLabels, BypassDistance)
    BY SameSelection, SameLabels
       DEF Silent, MustStop, MustSlow, Loop!Controller!Silent, Loop!Controller!MustStop,
           Loop!Controller!MustSlow, Loop!Controller!NoDetection
<1>7. Loop!Controller!React
    BY DEF Loop!Controller!ControlLoop
<1>8. Loop!Controller!Enabled(CruiseSpeed) = Enabled(CruiseSpeed)
    BY DEF Enabled, Loop!Controller!Enabled
<1>9. React
    <2>1. CASE Silent
        <3>1. Loop!Controller!PublishDriveCommand(0, 0)
            BY <1>6, <1>7, <2>1 DEF Loop!Controller!React
        <3> QED BY <1>2, <2>1, <3>1 DEF React
    <2>2. CASE ~Silent /\ MustStop
        <3>1. Loop!Controller!PublishEmergencyStop
            BY <1>6, <1>7, <2>2 DEF Loop!Controller!React
        <3> QED BY <1>3, <2>2, <3>1 DEF React
    <2>3. CASE ~Silent /\ ~MustStop /\ IsNear(BypassLabels, BypassDistance)
        <3>1. Loop!Controller!Bypass
            BY <1>6, <1>7, <2>3 DEF Loop!Controller!React
        <3> QED BY <1>4, <2>3, <3>1 DEF React
    <2>4. CASE ~Silent /\ ~MustStop /\ ~IsNear(BypassLabels, BypassDistance) /\ MustSlow
        <3>1. Loop!Controller!Slow
            BY <1>6, <1>7, <2>4 DEF Loop!Controller!React
        <3> QED BY <1>5, <2>4, <3>1 DEF React
    <2>5. CASE ~Silent /\ ~MustStop /\ ~IsNear(BypassLabels, BypassDistance) /\ ~MustSlow
        <3>1. Loop!Controller!PublishDriveCommand(Loop!Controller!Enabled(CruiseSpeed), 0)
            BY <1>6, <1>7, <2>5 DEF Loop!Controller!React
        <3> QED BY <1>2, <1>8, <2>5, <3>1 DEF React
    <2> QED BY <2>1, <2>2, <2>3, <2>4, <2>5
<1> QED BY <1>9 DEF Loop!Controller!ControlLoop, ControlLoop

(* Every step of the loop is a step of the controller, or none of its      *)
(* business.                                                               *)
LEMMA LoopStep ==
    ASSUME AnswersAreDetections, AnswersInv, [Loop!Next]_(Loop!vars)
    PROVE  [Next]_controlVars /\ AnswersInv'
<1>1. CASE Loop!Tick
    <2>1. ControlTick
        BY <1>1, SameTick DEF Loop!Tick
    <2>2. UNCHANGED <<queryQueue, queryText, legacyOut, answerQueue>>
        BY <1>1 DEF Loop!Tick, Loop!nanoOwlVars
    <2> QED BY <2>1, <2>2 DEF Next, AnswersInv
<1>2. CASE Loop!NanoOwlSteps
    <2>1. UNCHANGED controlVars
        BY <1>2 DEF Loop!NanoOwlSteps, Loop!controllerVars, controlVars
    <2> QED BY <1>2, <2>1, NanoOwlFollows
<1>3. CASE Loop!ControllerHears
    <2>1. /\ answerQueue # <<>> /\ answerQueue' = Tail(answerQueue)
          /\ Loop!Controller!DetectionsCallback(Head(answerQueue))
          /\ UNCHANGED <<queryQueue, queryText, legacyOut>>
        BY <1>3 DEF Loop!ControllerHears, Loop!nanoOwlVars
    <2>2. Head(answerQueue) \in Answers /\ answerQueue' \in Seq(Answers)
        BY <2>1 DEF AnswersInv
    <2>3. \E msg \in Detections : DetectionsCallback(msg)
        BY <2>1, <2>2, SameDetections DEF AnswersAreDetections
    <2> QED BY <2>1, <2>2, <2>3 DEF Next, AnswersInv
<1>4. CASE Loop!ControllerSteps
    <2>1. ControlLoop \/ \E frame \in Frames : DepthCallback(frame)
        BY <1>4, SameLoop, SameDepth DEF Loop!ControllerSteps
    <2>2. UNCHANGED <<queryQueue, queryText, legacyOut, answerQueue>>
        BY <1>4 DEF Loop!ControllerSteps, Loop!nanoOwlVars
    <2> QED BY <2>1, <2>2 DEF Next, AnswersInv
<1>5. CASE UNCHANGED Loop!vars
    <2>1. UNCHANGED controlVars /\ UNCHANGED <<queryQueue, queryText, legacyOut, answerQueue>>
        BY <1>5 DEF Loop!vars, Loop!nanoOwlVars, Loop!controllerVars, controlVars
    <2> QED BY <2>1 DEF AnswersInv
<1> QED BY <1>1, <1>2, <1>3, <1>4, <1>5 DEF Loop!Next

(* The loop implements the controller: whatever queries NanoOWL gets,      *)
(* whatever it finds, and however its answers wait in the buffer, are      *)
(* dropped or stop coming, the controller's part of a behaviour is one of  *)
(* the controller on its own, for messages that NanoOWL can write (the     *)
(* entries of listener_callback, detections_callback).                     *)
THEOREM LoopIsController ==
    ASSUME AnswersAreDetections PROVE Loop!Spec => Safety
<1>1. Loop!Init => Init /\ AnswersInv
    BY LoopInit
<1>2. AnswersInv /\ [Loop!Next]_(Loop!vars) => [Next]_controlVars /\ AnswersInv'
    BY LoopStep
<1> QED BY <1>1, <1>2, PTL DEF Loop!Spec, Safety

(* So what is proved of the controller holds of the loop that drives the   *)
(* car: a command to move does not outlive the detector, a near person or  *)
(* stop sign stops the car and an obstacle slows it, steering is never     *)
(* towards it (control_loop, fed by listener_callback of nano_owl_py.py).  *)
THEOREM LoopDrivesSafely ==
    ASSUME AnswersAreDetections
    PROVE  Loop!Spec => /\ []DeadMansSwitch /\ []StopsForHazard /\ []SlowsForObstacle
                        /\ []DisabledNeverMoves /\ NeverSteersInto
BY LoopIsController, ControlAlways, SafeStates, SteersAlways, PTL
===============================================================================
