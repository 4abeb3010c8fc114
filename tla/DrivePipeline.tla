----------------------------- MODULE DrivePipeline -----------------------------
(***************************************************************************)
(* The loop that drives the car: NanoOWL answers images on                 *)
(* /yolo/detections, and the reactive controller turns its answers and the *)
(* depth frames into commands.  NanoOWL is slow, may be busy with a query, *)
(* and may fail at any moment with answers still in the controller's       *)
(* buffer, each of which renews last_detection_at when it is taken.        *)
(***************************************************************************)
EXTENDS Topics, SequencesExt

CONSTANTS
    QueryStrings, InitialQuery, Scores, MaxDetections,
    ControlPeriod, DetectionTimeout, ControlAgeCap,
    CruiseSpeed, SlowSpeed, BypassSpeed, StopDistance, SlowDistance, BypassDistance,
    SteeringGain, MaxSteering, Deadband, DefaultLeft, StopQuery, SlowQuery, BypassQuery,
    Slope, Frames,
    Depth               \* depth of the subscriptions

VARIABLES
    \* NanoOWL
    owl, queryQueue, imagePending, query, queryText, textEncodings, processingImage,
    usedEncodings, legacyOut, found, lastReceived,
    \* the controller
    motionEnabled, depthImage, latestCandidates, detectionAge, sceneMode, untilControl,
    controlDue, driveCmd, lastCmd, hazardAge, obstacleAge,
    \* the topic between them
    answerQueue         \* the controller's buffer of /yolo/detections

NanoOwl == INSTANCE NanoOwlNode WITH QueryDepth <- Depth, ImageBoxes <- DOMAIN Slope,
                                     PublishLegacyOutputs <- TRUE, ThresholdsSet <- TRUE
Controller == INSTANCE ReactiveController WITH SceneModes <- {}, Detections <- {}

nanoOwlVars == <<owl, queryQueue, imagePending, query, queryText, textEncodings,
                 processingImage, usedEncodings, legacyOut, found, lastReceived>>
controllerVars == <<motionEnabled, depthImage, latestCandidates, detectionAge, sceneMode,
                    untilControl, controlDue, driveCmd, lastCmd, hazardAge, obstacleAge>>
vars == <<nanoOwlVars, controllerVars, answerQueue>>

-------------------------------------------------------------------------------
Init ==
    /\ NanoOwl!Init
    /\ Controller!Init
    /\ answerQueue = <<>>

Tick ==
    /\ Controller!ControlTick
    /\ UNCHANGED <<nanoOwlVars, answerQueue>>

NanoOwlSteps ==
    /\ \/ NanoOwl!Load \/ NanoOwl!QueryListenerCallback \/ NanoOwl!ListenerStart
       \/ NanoOwl!ListenerFinish \/ NanoOwl!Fail
       \/ ~imagePending /\ NanoOwl!ReceiveImage
       \/ /\ \E q \in QueryStrings : NanoOwl!ReceiveQueries(<<q>>, TRUE)
          /\ legacyOut' = <<>>
    /\ answerQueue' = Deliver(answerQueue, legacyOut', TRUE, Depth)
    /\ UNCHANGED controllerVars

ControllerHears ==
    /\ answerQueue # <<>>
    /\ Controller!DetectionsCallback(Head(answerQueue))
    /\ answerQueue' = Tail(answerQueue)
    /\ UNCHANGED nanoOwlVars

ControllerSteps ==
    /\ Controller!ControlLoop \/ \E frame \in Frames : Controller!DepthCallback(frame)
    /\ UNCHANGED <<nanoOwlVars, answerQueue>>

Next == Tick \/ NanoOwlSteps \/ ControllerHears \/ ControllerSteps

(* The controller's executor serves its timer and its buffer, and time     *)
(* passes; NanoOWL owes nothing.                                           *)
Fairness ==
    /\ WF_vars(Tick) /\ WF_vars(ControllerHears)
    /\ WF_vars(Controller!ControlLoop /\ UNCHANGED <<nanoOwlVars, answerQueue>>)

Spec == Init /\ [][Next]_vars /\ Fairness

-------------------------------------------------------------------------------
(* The death of the detector stops the car for good, although answers of   *)
(* its last moments may still be buffered and each renews                  *)
(* last_detection_at (main of nano_owl_py.py, control_loop's timeout).     *)
DetectorDeathStopsCar == [](owl = "dead" => <>[](driveCmd.speed = 0))

(* An entry as NanoOWL writes it, with the words of the query, of a person *)
(* or a stop sign that every depth frame shows within the stop distance.   *)
NearHazard(e) ==
    /\ e.label \in {<<article>> \o label : article \in Articles, label \in Controller!StopLabels}
                   \cup Controller!StopLabels
    /\ \A frame \in Frames : frame[e.box] \in 1..StopDistance

NamesHazard(msg) == \E i \in DOMAIN msg : NearHazard(msg[i])

(* From the image to the brake: if NanoOWL keeps answering and, from some  *)
(* moment on, every answer names a near person or stop sign, then the car  *)
(* is stopped for good, whatever else the answers name, whatever queries   *)
(* arrive and however many older answers are still buffered (the entry     *)
(* format of listener_callback, normalize_label, select_candidate and the  *)
(* order of control_loop).  Before the first depth frame the controller    *)
(* cannot place anything (detections_callback's early return).             *)
PersonStopsCar ==
    /\ <>[](\A k \in DOMAIN legacyOut : NamesHazard(legacyOut[k]))
    /\ []<>(legacyOut # <<>>)
    /\ <>(depthImage # Controller!NoFrame)
    => <>[](lastCmd.speed = 0)
===============================================================================
