------------------------------- MODULE TreeDemo -------------------------------
(***************************************************************************)
(* nanoowl/examples/tree_demo/tree_demo.py: a web server that shows camera *)
(* frames with the detections for a prompt the clients edit.               *)
(*                                                                         *)
(* Two threads share prompt_data: the event loop, which runs the websocket *)
(* handlers and the coroutine detection_loop, and the executor's thread,   *)
(* which reads the camera and predicts.  On the event loop a step ends at  *)
(* an await.  A prompt stands for its tree and its encodings, whose steps  *)
(* are those of PromptTree and TreePredictor.                              *)
(***************************************************************************)
EXTENDS Integers, FiniteSets

CONSTANTS
    Clients,   \* the browsers
    Prompts,   \* the prompts that can be parsed
    Failing    \* those whose prediction raises: with an engine and no mesh
               \* grid, the ones with a detect node (see TreePredictor)

VARIABLES
    conn,        \* client -> "none", "open" or "closing" (its transport is)
    websockets,  \* app['websockets']
    promptData,  \* prompt_data: NoPrompt, or the prompt of each of its parts
    thread,      \* executor: "idle", "frame", "checked", "taken", "predicted",
                 \* "done", "failed" (no frame) or "raised"
    local,       \* prompt_data_local
    detected,    \* the tree the last detections are for
    drawn,       \* the tree they were drawn with
    loop,        \* detection_loop: "executor", "sending", "awaiting", "ended",
                 \* "crashed" or "cancelled"
    toSend,      \* the sockets the iteration has not reached
    sizeAtStart, \* the size of the set when the iteration began
    camera,      \* "open" or "released"
    server       \* "up" or "shutdown"

demoVars == <<conn, websockets, promptData, thread, local, detected, drawn, loop, toSend,
              sizeAtStart, camera, server>>
executorVars == <<thread, local, detected, drawn>>
sendVars == <<loop, toSend, sizeAtStart, camera>>

NoPrompt == [tree |-> "none", clip |-> "none", owl |-> "none"]
DataOf(p) == [tree |-> p, clip |-> p, owl |-> p]

-------------------------------------------------------------------------------
DemoInit ==
    /\ conn = [c \in Clients |-> "none"]
    /\ websockets = {}
    /\ promptData = NoPrompt
    /\ thread = "idle" /\ local = NoPrompt /\ detected = "none" /\ drawn = "none"
    /\ loop = "executor" /\ toSend = {} /\ sizeAtStart = 0
    /\ camera = "open"
    /\ server = "up"

(* websocket_handler.                                                      *)
Connect(c) ==
    /\ server = "up" /\ conn[c] = "none"
    /\ conn' = [conn EXCEPT ![c] = "open"]
    /\ websockets' = websockets \cup {c}
    /\ UNCHANGED <<promptData, executorVars, sendVars, server>>

(* Mutant: prompt_data is filled in while it is in use, the tree first.    *)
Published_TreeFirst(p) == [promptData EXCEPT !.tree = p]

(* prompt_data = {...}: one assignment of a complete dictionary.           *)
Published(p) == DataOf(p)

(* A message with a prompt that can be parsed and encoded.                 *)
ReceivePrompt(c, p) ==
    /\ conn[c] = "open"
    /\ promptData' = Published(p)
    /\ UNCHANGED <<conn, websockets, executorVars, sendVars, server>>

(* A prompt that raises while it is parsed or encoded is reported and      *)
(* changes nothing.                                                        *)
ReceiveBadPrompt(c) ==
    /\ conn[c] = "open"
    /\ UNCHANGED demoVars

(* finally: websockets.discard(ws).                                        *)
AfterDiscard(c) == websockets \ {c}

(* A message with no or several ":" raises outside the try of the prompt:  *)
(* the handler ends.                                                       *)
ReceiveUnsplittable(c) ==
    /\ conn[c] = "open"
    /\ conn' = [conn EXCEPT ![c] = "none"]
    /\ websockets' = AfterDiscard(c)
    /\ UNCHANGED <<promptData, executorVars, sendVars, server>>

(* The client goes away; later its handler notices.                        *)
Disconnect(c) ==
    /\ conn[c] = "open"
    /\ conn' = [conn EXCEPT ![c] = "closing"]
    /\ UNCHANGED <<websockets, promptData, executorVars, sendVars, server>>

HandlerEnds(c) ==
    /\ conn[c] = "closing"
    /\ conn' = [conn EXCEPT ![c] = "none"]
    /\ websockets' = AfterDiscard(c)
    /\ UNCHANGED <<promptData, executorVars, sendVars, server>>

-------------------------------------------------------------------------------
(* The executor: _read_and_encode_image.                                   *)

ReadCamera(ok) ==
    /\ loop = "executor" /\ thread = "idle"
    /\ thread' = IF ok THEN "frame" ELSE "failed"
    /\ UNCHANGED <<conn, websockets, promptData, local, detected, drawn, sendVars, server>>

(* prompt_data is not None; it is read again for prompt_data_local.        *)
CheckPrompt ==
    /\ thread = "frame" /\ promptData # NoPrompt
    /\ thread' = "checked"
    /\ UNCHANGED <<conn, websockets, promptData, local, detected, drawn, sendVars, server>>

(* Mutant: the first prompt is kept.                                       *)
PromptToTake_Once == IF local = NoPrompt THEN promptData ELSE local

PromptToTake == promptData

TakePrompt ==
    /\ thread = "checked"
    /\ thread' = "taken"
    /\ local' = PromptToTake
    /\ UNCHANGED <<conn, websockets, promptData, detected, drawn, sendVars, server>>

(* Without a prompt the frame is sent as it is.                            *)
FrameWithoutPrompt ==
    /\ thread = "frame" /\ promptData = NoPrompt
    /\ thread' = "done"
    /\ UNCHANGED <<conn, websockets, promptData, local, detected, drawn, sendVars, server>>

Predict ==
    /\ thread = "taken"
    /\ thread' = IF local.tree \in Failing THEN "raised" ELSE "predicted"
    /\ detected' = IF local.tree \in Failing THEN detected
                   ELSE IF local = DataOf(local.tree) THEN local.tree ELSE "mixed"
    /\ UNCHANGED <<conn, websockets, promptData, local, drawn, sendVars, server>>

DrawTreeOutput ==
    /\ thread = "predicted"
    /\ thread' = "done"
    /\ drawn' = local.tree
    /\ UNCHANGED <<conn, websockets, promptData, local, detected, sendVars, server>>

-------------------------------------------------------------------------------
(* detection_loop.                                                         *)

(* The executor returned a frame: the iteration over the sockets begins.   *)
FrameReady ==
    /\ loop = "executor" /\ thread = "done"
    /\ thread' = "idle"
    /\ loop' = "sending"
    /\ toSend' = websockets
    /\ sizeAtStart' = Cardinality(websockets)
    /\ UNCHANGED <<conn, websockets, promptData, local, detected, drawn, camera, server>>

(* The camera gave nothing: the loop is left and the camera released.      *)
CameraFailed ==
    /\ loop = "executor" /\ thread = "failed"
    /\ thread' = "idle"
    /\ loop' = "ended"
    /\ camera' = "released"
    /\ UNCHANGED <<conn, websockets, promptData, local, detected, drawn, toSend, sizeAtStart, server>>

(* The exception of a prediction is raised by the await of its result.     *)
PredictionRaised ==
    /\ loop = "executor" /\ thread = "raised"
    /\ thread' = "idle"
    /\ loop' = "crashed"
    /\ UNCHANGED <<conn, websockets, promptData, local, detected, drawn, toSend, sizeAtStart, camera, server>>

(* The next step of the iteration.  It raises if the set has another size  *)
(* than at the start, and sending raises on a transport that is closing.   *)
NextSocket ==
    /\ loop = "sending"
    /\ IF Cardinality(websockets) # sizeAtStart
       THEN loop' = "crashed" /\ UNCHANGED toSend
       ELSE \/ \E c \in toSend \cap websockets :
                  /\ toSend' = toSend \ {c}
                  /\ loop' = IF conn[c] = "open" THEN "awaiting" ELSE "crashed"
            \/ /\ toSend \cap websockets = {}
               /\ loop' = "executor" /\ toSend' = {}
    /\ UNCHANGED <<conn, websockets, promptData, executorVars, sizeAtStart, camera, server>>

(* The socket took the frame.                                              *)
SendDone ==
    /\ loop = "awaiting"
    /\ loop' = "sending"
    /\ UNCHANGED <<conn, websockets, promptData, executorVars, toSend, sizeAtStart, camera, server>>

(* on_shutdown closes every socket that was open when it was called.       *)
Shutdown ==
    /\ server = "up"
    /\ server' = "shutdown"
    /\ conn' = [c \in Clients |-> IF conn[c] = "open" THEN "closing" ELSE conn[c]]
    /\ UNCHANGED <<websockets, promptData, executorVars, sendVars>>

(* run_detection_loop cancels the task at its await; the executor's thread *)
(* is not stopped and the camera is not released.                          *)
CancelLoop ==
    /\ server = "shutdown"
    /\ loop \in {"executor", "sending", "awaiting"}
    /\ loop' = "cancelled"
    /\ UNCHANGED <<conn, websockets, promptData, executorVars, toSend, sizeAtStart, camera, server>>

Executor == CheckPrompt \/ TakePrompt \/ FrameWithoutPrompt \/ Predict \/ DrawTreeOutput
LoopStep == FrameReady \/ CameraFailed \/ PredictionRaised \/ NextSocket

DemoNext ==
    \/ \E c \in Clients : \/ Connect(c) \/ Disconnect(c) \/ HandlerEnds(c)
                          \/ ReceiveUnsplittable(c) \/ ReceiveBadPrompt(c)
                          \/ \E p \in Prompts : ReceivePrompt(c, p)
    \/ \E ok \in BOOLEAN : ReadCamera(ok)
    \/ Executor \/ LoopStep \/ SendDone \/ Shutdown \/ CancelLoop

DemoSpec == DemoInit /\ [][DemoNext]_demoVars

(* The two threads run and the camera answers, one way or the other; the   *)
(* event loop gets to every ready task; a client that is connected takes   *)
(* its frames.                                                             *)
Fairness ==
    /\ WF_demoVars(\E ok \in BOOLEAN : ReadCamera(ok))
    /\ WF_demoVars(Executor)
    /\ WF_demoVars(LoopStep)
    /\ WF_demoVars(SendDone)

-------------------------------------------------------------------------------
TypeOK ==
    /\ conn \in [Clients -> {"none", "open", "closing"}]
    /\ websockets \subseteq Clients
    /\ thread \in {"idle", "frame", "checked", "taken", "predicted", "done", "failed", "raised"}
    /\ loop \in {"executor", "sending", "awaiting", "ended", "crashed", "cancelled"}
    /\ toSend \subseteq Clients
    /\ loop = "executor" => toSend = {}

(* A prediction uses a tree with its own encodings, and its detections are *)
(* drawn with the tree they were found for, whatever the handlers do to    *)
(* prompt_data meanwhile.                                                  *)
DetectedAndDrawnWithOnePrompt ==
    /\ detected # "mixed"
    /\ thread = "done" /\ local # NoPrompt => drawn = detected

(* The server's set holds exactly the sockets whose handlers run: the loop *)
(* never sends to a socket nobody listens on any more.                     *)
SocketsAreServed == websockets = {c \in Clients : conn[c] # "none"}

(* The camera is never released while the executor's thread uses it.       *)
CameraReleasedUnused == camera = "released" => thread = "idle"

(* What the threads share stays consistent, with the types.                *)
DemoConsistent ==
    TypeOK /\ DetectedAndDrawnWithOnePrompt /\ SocketsAreServed /\ CameraReleasedUnused

(* README: the demo runs "on a live camera feed": the loop ends only with  *)
(* the camera or the server.                                               *)
FeedStaysAlive == loop # "crashed"

(* A prompt that stays the newest is used for a frame, as long as the loop *)
(* runs.                                                                   *)
NewestPromptIsUsed ==
    \A p \in Prompts :
        promptData = DataOf(p) ~> \/ detected = p
                                  \/ promptData # DataOf(p)
                                  \/ loop \in {"ended", "crashed", "cancelled"}

-------------------------------------------------------------------------------
(* The inductive invariant behind DemoConsistent.  What a thread takes is  *)
(* a complete prompt, and stays one.                                       *)
Complete(data) == data = NoPrompt \/ \E p \in Prompts : data = DataOf(p)

PromptInv ==
    /\ Complete(promptData) /\ Complete(local)
    /\ thread \in {"checked", "taken", "predicted"} \/ local # NoPrompt => promptData # NoPrompt
    /\ thread \in {"taken", "predicted"} => local # NoPrompt
    /\ thread = "predicted" => detected = local.tree
    /\ detected # "mixed"
    /\ thread = "done" /\ local # NoPrompt => drawn = detected

(* The camera is released by the loop, between two of the thread's frames. *)
CameraInv == camera = "released" => loop = "ended" /\ thread = "idle"

DemoInv == TypeOK /\ PromptInv /\ SocketsAreServed /\ CameraInv
===============================================================================
