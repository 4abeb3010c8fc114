---------------------------- MODULE ObjectPosition ----------------------------
(***************************************************************************)
(* CARKit object_position.py: the node that turns the best detection of    *)
(* one type of object into a position.  It reads the depth at the centre   *)
(* of the detection from the newest depth frame, takes the bearing from    *)
(* the abscissa of the centre, and publishes both as a pose.               *)
(*                                                                         *)
(* Callbacks run one at a time.  Centres are kept in half pixels (the sum  *)
(* of two edges); a bearing is the fraction offset / (2 width) of the      *)
(* field of view.                                                          *)
(***************************************************************************)
EXTENDS Integers, Sequences

CONSTANTS
    ObjectTypes,    \* values of target_object_type
    Fovs,           \* values of horizontal_fov
    FrameSizes,     \* <<width, height>> of the depth frames
    Entries,        \* the entries of a detection message
    MaxEntries      \* bound on the entries of a message

VARIABLES
    node,          \* "running" or "dead" (an exception left spin)
    targetObject,  \* target_object_type
    fov,           \* horizontal_fov
    imageWidth,    \* image_width, or 0 for None
    depthImage,    \* the newest frame [w, h], or <<>>
    pose,          \* <<the pose published by the last step>>, or <<>>
    message,       \* history: the last detection message handled
    cause          \* history: what the node died of

positionVars == <<node, targetObject, fov, imageWidth, depthImage, pose, message, cause>>

(* An entry "type [x0, y0, x1, y1] (confidence)": whether its brackets and *)
(* its confidence can be read, the object, the confidence in hundredths,   *)
(* whether its box holds four numbers, and the centre of the box.          *)
EntryType == [read: BOOLEAN, object: ObjectTypes, confidence: Nat, boxOk: BOOLEAN, cx2: Int, cy2: Int]

-------------------------------------------------------------------------------
PositionInit ==
    /\ node = "running"
    /\ targetObject \in ObjectTypes
    /\ fov \in Fovs
    /\ imageWidth = 0
    /\ depthImage = <<>>
    /\ pose = <<>>
    /\ message = <<>>
    /\ cause = "none"

(* parameter_callback changes the attributes and returns True, where rclpy *)
(* reads .successful of the result: the AttributeError leaves spin.        *)
ParameterCallback(object, angle) ==
    /\ node = "running"
    /\ targetObject' = object
    /\ fov' = angle
    /\ node' = "dead" /\ cause' = "parameter update"
    /\ pose' = <<>>
    /\ UNCHANGED <<imageWidth, depthImage, message>>

(* depth_callback.  The frame replaces the old one; the size of the image  *)
(* is taken from the first frame only.  A frame that cannot be converted   *)
(* is logged and changes nothing.                                          *)
DepthCallback(size, converts) ==
    /\ node = "running"
    /\ depthImage' = IF converts THEN [w |-> size[1], h |-> size[2]] ELSE depthImage
    /\ imageWidth' = IF imageWidth = 0 /\ converts THEN size[1] ELSE imageWidth
    /\ pose' = <<>>
    /\ UNCHANGED <<node, targetObject, fov, message, cause>>

(* int() of a number of half pixels rounds towards zero.                   *)
Truncate(half) == IF half >= 0 THEN half \div 2 ELSE -((-half) \div 2)

(* target_detections: the readable entries for the target.                 *)
TargetDetections(msg) == {n \in DOMAIN msg : msg[n].read /\ msg[n].object = targetObject}

(* Mutant: the first matching entry is taken.                              *)
BestDetection_First(msg) ==
    LET found == TargetDetections(msg) IN msg[CHOOSE n \in found : \A m \in found : n <= m]

(* max(target_detections, key=confidence): the first of the best.          *)
BestDetection(msg) ==
    LET found == TargetDetections(msg)
    IN  msg[CHOOSE n \in found :
              \A m \in found : /\ msg[m].confidence <= msg[n].confidence
                               /\ m < n => msg[m].confidence < msg[n].confidence]

InFrame(d) == Truncate(d.cx2) \in 0 .. depthImage.w - 1 /\ Truncate(d.cy2) \in 0 .. depthImage.h - 1

(* calculate_position and create_pose_msg.                                 *)
PoseOf(d, depth) ==
    [forward |-> depth, offset |-> imageWidth - d.cx2, width |-> imageWidth, fov |-> fov, from |-> d]

(* yolo_callback.  Nothing protects the conversion of the box.             *)
YoloCallback(msg, depth) ==
    /\ node = "running"
    /\ message' = msg
    /\ LET best == BestDetection(msg)
           used == depthImage # <<>> /\ TargetDetections(msg) # {} /\ best.confidence >= 20
       IN  /\ node' = IF used /\ ~best.boxOk THEN "dead" ELSE node
           /\ cause' = IF used /\ ~best.boxOk THEN "malformed box" ELSE cause
           /\ pose' = IF used /\ best.boxOk /\ InFrame(best) /\ depth > 0
                      THEN <<PoseOf(best, depth)>> ELSE <<>>
    /\ UNCHANGED <<targetObject, fov, imageWidth, depthImage>>

Messages == UNION {[1 .. n -> Entries] : n \in 0 .. MaxEntries}

PositionNext ==
    \/ \E object \in ObjectTypes, angle \in Fovs : ParameterCallback(object, angle)
    \/ \E size \in FrameSizes, converts \in BOOLEAN : DepthCallback(size, converts)
    \/ \E msg \in Messages, depth \in 0 .. 1 : YoloCallback(msg, depth)

PositionSpec == PositionInit /\ [][PositionNext]_positionVars

-------------------------------------------------------------------------------
TypeOK ==
    /\ node \in {"running", "dead"}
    /\ targetObject \in ObjectTypes /\ fov \in Fovs
    /\ imageWidth \in {0} \cup {size[1] : size \in FrameSizes}
    /\ \A n \in DOMAIN message : message[n] \in EntryType
    /\ cause \in {"none", "parameter update", "malformed box"}

(* A frame is there exactly if the width is known, so that                 *)
(* calculate_position never returns None to a caller that unpacks three    *)
(* values.                                                                 *)
WidthKnownWithDepth == depthImage # <<>> <=> imageWidth # 0

(* A pose is that of the best detection of the target: no readable entry   *)
(* of the message for the same object is more confident, and none that     *)
(* comes first is as confident; a weaker one never stands in for it.       *)
OnlyTheBestIsPlaced ==
    pose # <<>> =>
        LET d == pose[1].from
            Same(e) == e.read /\ e.object = targetObject
        IN  \E n \in DOMAIN message :
               /\ message[n] = d /\ Same(d) /\ d.confidence >= 20
               /\ \A m \in DOMAIN message : Same(message[m]) => message[m].confidence <= d.confidence
               /\ \A m \in 1 .. n - 1 : Same(message[m]) => message[m].confidence < d.confidence

(* The depth of a pose was read inside the frame it belongs to: at most    *)
(* one half pixel of the centre lies outside the frame, where int() rounds *)
(* up to the first column.                                                 *)
PlacedInsideItsFrame ==
    pose # <<>> => /\ pose[1].from.cx2 \in -1 .. 2 * depthImage.w - 1
                   /\ pose[1].from.cy2 \in -1 .. 2 * depthImage.h - 1

(* What object_position promises of a pose, together with the types.       *)
PlacedAsSeen == TypeOK /\ WidthKnownWithDepth /\ OnlyTheBestIsPlaced /\ PlacedInsideItsFrame

(* The inductive invariant behind it: the frame, if there is one, has a    *)
(* size.                                                                   *)
PositionInv == PlacedAsSeen /\ (depthImage # <<>> => depthImage \in [w : Nat, h : Nat])
===============================================================================
