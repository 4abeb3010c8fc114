# A verification project for NanoOWL on ADAONE

The repository puts an open-vocabulary detector (NanoOWL) on a small autonomous
car. ROS 2 nodes written for it decide what the detector looks for and how the car
reacts; below them are the nanoowl package, torch2trt, which turns its networks into
TensorRT engines, and packages of ROS demos and of Isaac ROS. This directory holds
TLA+ models of these parts and of the loops they form, TLC configurations that check
the models on small instances, and TLAPS proofs of safety properties for all values
of the parameters.

`PROJECT.json` maps every definition to the lines it models. Files are named without
their directories below; the map has the paths.

## 1. Inventory

### The car

| Part | State | Operations | Interacts through |
|---|---|---|---|
| scene_aware_query_manager | phase, locked scene, scores, start of the phase, time of the last query | constructor (with override), detections_callback, timer_callback with start_probe, select_scene_mode, lock_scene_mode | publishes /input_query, /scene_mode; hears /yolo/detections |
| nano_owl_subscriber | query, its texts, their encodings, busy flag | load, query_listener_callback, listener_callback | hears /input_query and images; publishes /yolo/detections |
| reactive_behavior_controller | depth image, candidates, time of the last message, scene mode, motion flag | detections_callback, depth_callback, scene_mode_callback, control_loop | hears /yolo/detections, depth, /scene_mode; publishes /purepursuit_cmd and the emergency command |
| object_position_node | depth image, latched width, target type | yolo_callback, depth_callback, parameter_callback | hears /yolo/detections, depth; publishes /object_position |

### The packages below

| Part | State | Operations |
|---|---|---|
| nanoowl prompt trees | stacks of the parser, nodes, labels | from_prompt, to_json, from_json, lookups |
| nanoowl tree predictor | work lists of detections and label buffers | predict |
| nanoowl OWL predictor | engine or model, mesh grid | construction, extract_rois, encode, decode |
| nanoowl tree demo | shared prompt, set of websockets, camera | websocket_handler, detection_loop, on_shutdown, cleanup; asyncio tasks and one executor thread |
| torch2trt conversion context | hooks, lock, stack of device types, network | enter, exit, wrapped methods and their converters |
| torch2trt shape tracking | wrapped ints, stack of wrapping | arithmetic on sizes |
| torch2trt build and datasets | recorded items, profile, calibration | record, insert, min/max shapes, torch2trt() |
| torch2trt module and flattener | bindings, flatteners, memory | forward, save, load |
| torch2trt converters | none: graphs of layers | one converter per method |
| topic_monitor | expected and received values, two timers per topic, rates, display | callbacks, processing loop; two threads and a lock |
| lifecycle demos | state, timers, publisher | transitions, publish; the client's script with timeouts |
| quality of service demos | timers, history of the publisher | publish, pause, kill, start listening |
| isaac_common messaging | a buffer per stream, remembered timestamps | AddMessage with its loop, clearing |
| isaac_common_py | pipe, log file, lines, screen | run_command in three modes |

### What is hard

* *Time and order between the nodes of the car.* Topics are volatile, buffers drop
  their oldest sample, NanoOWL loads for minutes and answers late, timers run late,
  phases are measured from the last callback, and no launch file restarts a node.
* *Shared state across awaits and threads.* The tree demo's handlers, loop and
  executor share the prompt and the sockets; the topic monitor's threads share
  values, timers and flags; run_command reads a pipe and a text buffer at once.
* *Nesting.* Prompts, traced calls that raise, arguments and their flattening.
* *Edges of numbers.* Windows, negative positions, broadcasting, thresholds,
  batches, padding beyond the border, the profile's shapes.
* *Failing half way.* A mode that is not validated, a lock that an exception leaves
  set, an attribute that is stored under one name and read under another.

`PROJECT.json` lists these as hazards with their lines and the properties that would
catch them.

### What makes each part correct

* *Scene manager*: reaches one verdict, on time, whatever it hears; only objects
  specific to a scene, seen in that scene's own probe, decide; the verdict is final;
  the query on the wire belongs to the current phase and stays fresh.
* *NanoOWL*: an entry names what was matched; the newest query wins; an image is
  answered, or the process has ended.
* *Controller*: stops without a detector and for people; slows for obstacles; steers
  away from them; never moves without permission.
* *Object position*: the best detection of the target is placed, inside its frame.
* *Loops*: answers to another query decide nothing; everybody ends up with the
  verdict; the death of NanoOWL, and a person it sees, stop the car.
* *nanoowl*: prompts are understood as nested; detections lead to their parents;
  regions come back where they were; a frame is detected and drawn with one prompt.
* *torch2trt*: every traced call is converted once, on its device; the engine's sizes
  follow its input; examples fit the profile; the engine answers as the model does;
  a converter's layers compute what PyTorch computes.
* *Demos and Isaac*: rates and statuses tell the truth; a talker sends only when it
  is active; what a policy shows is its cause; matched messages belong together and
  come once; a log is the command's output.

## 2. Modules

| Module | Models | Uses |
|---|---|---|
| `Topics` | normalize_label, parse_label_set, sums of votes; buffers of subscriptions (external: rclpy, DDS) | |
| `SceneManager` | scene_aware_query_manager.py | Topics |
| `NanoOwlNode` | nano_owl_py.py | Topics |
| `ReactiveController` | reactive_behavior_controller.py | Topics |
| `ObjectPosition` | object_position.py | |
| `SceneAgreement` | what the scene decision loop promises | |
| `ScenePipeline` | the loop that decides the scene; implements SceneAgreement | SceneManager, NanoOwlNode, Topics |
| `DrivePipeline` | the loop that drives the car | NanoOwlNode, ReactiveController, Topics |
| `Tree` | nodes, labels and their depths (tree.py) | |
| `PromptTree` | the parser of prompts and the JSON form (tree.py) | Tree |
| `TreePredictor` | tree_predictor.py | Tree |
| `OwlPredictor` | owl_predictor.py | |
| `TreeDemo` | tree_demo.py | |
| `ConversionContext`, `ShapeWrapper` | torch2trt.py: hooks, and sizes | |
| `EngineBuild` | dataset.py; torch2trt(), dataset_calibrator.py | |
| `Flattener`, `TrtModule` | flattener.py; trt_module.py | TrtModule extends Flattener |
| `TrtLayers` | TensorRT's layers on small tensors (external) | |
| `ConvertIndexing`, `ConvertArithmetic`, `ConvertNorms`, `ConvertWindows` | native_converters.py | TrtLayers |
| `TopicMonitor`, `Lifecycle`, `QosDemos` | the ROS demos of that name | |
| `MessageSynchronizer`, `LogProcess` | isaac_common messaging; subprocess_utils.py | |
| `SceneManager_proofs` | proofs | SceneManager; instantiates ScenePipeline |
| `ReactiveController_proofs` | proofs | ReactiveController; instantiates DrivePipeline |
| `ScenePipeline_proofs` | proofs | ScenePipeline |
| `Perception_proofs` | proofs | NanoOwlNode, ObjectPosition |
| `Torch2Trt_proofs` | proofs | ConversionContext, ShapeWrapper, EngineBuild |
| `Demos_proofs` | proofs | TreeDemo, Lifecycle, QosDemos, TopicMonitor |
| `IsaacCommon_proofs` | proofs | MessageSynchronizer, LogProcess |
| `SequenceFacts` | lemmas about the operators of Topics and about sequences | |

The `MC` modules give the constants their small values. An operator named
`Name_Something` under a comment `Mutant` is a wrong version of the definition that
follows it; a property has to fail when it takes that definition's place.

### Runs over several parts

`MCPerception`, `MCNanoOwl`, `MCTorch2Trt`, `MCConverters`, `MCRosDemos` and
`MCIsaacCommon` each explore several specifications that share no variable. A variable
`part` (`family`), chosen at the start, says which one a behaviour belongs to; the others
stay in one initial state. The behaviours of such a run are those of the
parts, and a property about one part is checked on all of them. Where a part calls
another (the tree predictor the OWL predictor, the tree demo both), the caller's module
takes the result as arbitrary.

### The car: data and time

A label is the sequence of its words, because normalize_label removes one leading
article and the labels NanoOWL writes still have theirs. A query is the sequence of
its items, a message the sequence of its entries, with `Unparsable` where a number
does not parse. Confidences are hundredths (the wire format has two digits), and sums
of them are exact. Boxes are opaque; a depth frame gives each box one depth, which
stands for the median of the patch around its centre, 0 for none. Lengths and angles
are integers, and steering angles are doubled because one behaviour halves them.

Time advances in units by `Tick`. A timer expires on a fixed grid; its callback then
runs at any moment before the next expiry, because the callbacks of these nodes only
add numbers and publish. Everything between two expiries interleaves freely.
Timestamps are ages that saturate at a cap (`AgeCap`, `ControlAgeCap`) above every
value they are compared with: the assumptions `TimingAssumption` and
`ControlAssumption` say how far above, so saturation hides no comparison.

### The car: the nodes

*SceneManager.* `phase`, `lockedSceneMode`, `probeScores` are the fields of that name;
`phaseAge` and `queryAge` stand for phase_started_at and last_query_publish_at.
`queryOut` and `modeOut` hold what the last callback published, in order, because the
callback that ends a probe publishes two queries. `up` becomes false when
lock_scene_mode raises KeyError. `uptime`, `lastQuery` and `evidence` are histories for
the properties; `evidence` is defined without probe_labels, so that a mistake there
would show. `MaxScore` bounds the sums: a message that would exceed it does not arrive.

*NanoOwlNode.* `owl` is the stage of the process. `Load` ends the constructor; before
it, queries already enter `queryQueue`. An inference is two steps, `ListenerStart` and
`ListenerFinish`, between which messages arrive but are not taken (single-threaded
executor). Its result is any list of at most `MaxDetections` indices of the encodings
it was given. `Fail` ends the process at any moment.

*ReactiveController.* `React` is control_loop in the order of its returns. `driveCmd` is
the command standing on /purepursuit_cmd; an emergency stop goes to another topic and
leaves it alone, so `lastCmd` records the last command on either. `hazardAge` and
`obstacleAge` are histories: how long the candidates have given a reason to stop or to
take care. The state string and the target pose, which no node reads, are left out.

*ObjectPosition.* Centres are in half pixels, a bearing is a fraction of the field of
view, and the conversions that may raise end the node.

*The loops.* `ScenePipeline` adds a buffer per topic and the set `linked` of discovered
topics; each answer in the buffer remembers the texts it was computed from, for the
property only. The controller takes part with scene_mode_callback. `DrivePipeline`
connects NanoOWL's answers to the controller and starts with the topic discovered. Both
keep at most one image waiting, which is the depth of that subscription.

### nanoowl

*PromptTree* is from_prompt as a machine that reads one character per step, with its
two stacks; the prompt read so far is a history, against which nesting is defined
independently of the parser. *TreePredictor* is predict's loop: one step takes a label,
one runs a node; results of the models are arbitrary. *OwlPredictor* has one step per
stage of a call. *TreeDemo* interleaves the event loop, whose steps end at an await,
with the executor's thread, which reads prompt_data part by part.

### torch2trt

*ConversionContext*: a stack of frames stands for the calls of an arbitrary model, each
of which may raise; the lock, the stack of device types, the arguments stored for a
converter and the layers are the code's. *ShapeWrapper*: a number carries what it is in
the trace, what its node computes for every size of the input, and what the program
means by it. *EngineBuild* follows torch2trt() from the dataset to the profile, the
network's inputs and the calibration. *TrtModule* has the caching allocator's blocks, so
that a temporary copy may be overwritten. *Convert…*: a behaviour is the trace of a
short program; `torch` is what PyTorch returns (a reference definition, external), `trt`
what the layers of the converter compute, and `supported` whether every call so far is one
the converter handles (section 5 lists the others).

### The demos and Isaac

*TopicMonitor* has the publisher, the network, both timers of a topic and the main
loop's passes as separate steps. *Lifecycle* has the C++ and the Python talker
(`python`), the client's script with its waits, and a user. *QosDemos* runs four
programs on one executor, timers due at the same tick in any order. *MessageSynchronizer*
takes one round of PopBuffersAndTriggerCallback per step. *LogProcess* lets the command
write, close and exit between any two steps of the copying loop.

## 3. Runs

| Run | Distinct states | What it shows |
|---|---|---|
| `scene_manager` | 13 361 | the manager with a default scene that has no queries: `VerdictNeedsEvidence`, `VerdictOnSchedule`, `QueryStaysFresh`, `LockIsFinal`, and the inductive invariant `IInv` of the proofs, with `TypeOK`, `VerdictFollowsScores`, `LastQueryFitsPhase` and `NoBogusLockSurvives` in it |
| `perception` | 14 759 | NanoOWL: `LabelsNameWhatWasFound`, `NewestQueryWins`, `EveryImageAnswered`; object position: `PlacedAsSeen` |
| `controller` | 233 898 | `DeadMansSwitch`, `StopsForHazard`, `SlowsForObstacle`, `NeverSteersInto` |
| `scene_pipeline` | 281 162 | `OnlyOwnAnswersCount`, `NeverAsksBackwards`, `NanoOwlAsksForVerdict`, and the refinement `ReachesAgreement` |
| `drive_pipeline` | 135 364 | `DetectorDeathStopsCar`, `PersonStopsCar` |
| `nanoowl` | 679 410 | `PromptUnderstood`, `PredictionsExplained`, `RegionsComeBack`, `DemoConsistent`, `NewestPromptIsUsed` |
| `torch2trt` | 1 409 450 | `TracedAsCalled`, `ShapesFollowTheInput`, `InputsAreCovered`, `RecordingKeepsItems`, `EngineAnswersAlike` |
| `converters` | 18 079 | `IndexingAsTorch`, `ArithmeticAsTorch`, `NormsAsTorch`, `WindowsAsTorch` |
| `ros_demos` | 1 132 369 | `RatesAreRight`, `TalkerFollowsItsState`, `PoliciesTell` |
| `isaac_common` | 872 844 | `MatchesBelongTogether`, `OnceAndInOrder`, `CopiesAreRight`, `CommandEnds` |
| `tree_demo_feed` | violation | `FeedStaysAlive`: a client that comes or goes while a frame is sent ends the feed |
| `tree_predictor_engine` | violation | `NeverRaises`: the README's prediction with an engine raises |

Properties that hold for several reasons at once are conjunctions of named parts, each
with its own comment in its module.

### The refinement

`SceneAgreement` says what the car needs: one verdict, never changed, which the
controller comes to know, and never another. `ReachesAgreement` is its specification,
fairness included, with lockedSceneMode for the verdict and the controller's scene_mode
for what is known. `ScenePipeline` implements it although messages are lost before
discovery and dropped from full buffers, and NanoOWL may fail. What makes it true is the
repetition in timer_callback's first branch.

### Bounds, and why they are enough

* `scene_manager`: timer period 2, so that a callback can be late by a unit; a
  probe lasts a multiple of the publish period, so that one callback both repeats a
  query and ends its probe; confidences below, at and above the margin
  of 25, alone and in pairs; a neutral label with and without an article, a shared
  label, an unreadable entry. `MaxScore` 50 is twice the margin. The default scene is
  "garage", so both verdicts and the KeyError occur. The override starts in the locked
  phase, which this run reaches as well; the proofs cover it.
* `perception`: three queries and a buffer of two, so that the buffer overflows while
  the model loads; one query is blank (the fallback) and two have different lengths.
  Depth frames of two sizes, and entries on both sides of every edge of both.
* `controller`: control period 2 and timeout 3, so that the timeout falls between two
  expiries; depths on both sides of every distance, an invalid depth, two boxes on
  either side of the deadband, messages in which a person and an obstacle are near
  at once.
* `scene_pipeline`: all timings 1, which lets queries and answers of three phases
  coexist. Two queries fit a buffer and one verdict or answer, the worst case for loss.
  With two of each (916 300 states) the properties hold as well.
* `drive_pipeline`: period and timeout 1, one box near enough to stop for and one to
  drive around. A person and an obstacle in the same message are in `controller`.
* `nanoowl`: every prompt of up to seven characters, which reaches brackets nested three
  deep, crossed and unbalanced ones; four trees with both kinds of node under both; three
  regions of two forms in batches of one and two; two browsers and three prompts,
  of which one makes the prediction raise.
* `torch2trt`: four frames on the stack and two layers, over modules with and without a
  device of their own; all expressions of three numbers over three sizes; four example
  items that differ in batch, in another axis or in rank, with file numbers of two
  digits; nested arguments of two tensors, one not contiguous, in three blocks.
* `converters`: shapes of one to five axes with sizes up to 4, arguments over all
  positions, negative ones included, one or two calls.
* `ros_demos`: two starts of a publisher of three messages, a main loop late by one tick;
  two requests of a user beside the script; options on both sides of the
  periods they are compared with.
* `isaac_common`: three streams, buffers of two, five messages with three timestamps;
  outputs with empty lines and with and without a last newline.

### Fairness

* Time passes (`Tick`), and an executor that has a due timer serves it: weak fairness
  on the timer callbacks. spin serves timers before subscriptions.
* NanoOWL's executor serves a buffered query and a buffered image in turn. Each is
  disabled while the other's callback runs, hence strong fairness; it stands for the
  round of the wait set in which every ready entity is served.
* The constructor and the model's call return (weak fairness on `Load` and
  `ListenerFinish`); that they raise instead is `Fail`, which is always possible and
  never owed.
* Every topic is discovered in the end. No camera is owed in the loop that decides the
  scene: the verdict is reached without images.
* Tree demo: the camera answers, the executor's thread and the coroutine go on, and a
  send ends. No client is owed anything.
* run_command: the copying loop goes on. The command need not: it may write no more and
  never exit.

CHECK_DEADLOCK is off where programs end: a prompt is read, a call has returned, a server
is closed, a command has exited, or a bound on messages, ticks or calls is reached, and
where NanoOWL may die. The scene manager, the controller and both loops never stop.

## 4. Proofs

The theorems hold for every value of the constants that meets the named assumptions.
Each follows from an inductive invariant, which is defined at the end of the model's
module or, where it needs definitions of its own, in the module of the proof. 25 of the
40 properties of the passing runs are theorems, as is the safety half of the
refinement; the runs `scene_manager`, `perception`, `controller`, `scene_pipeline`,
`nanoowl`, `torch2trt`, `ros_demos` and `isaac_common` show them on a small instance.
Two more refinements are proved only: each loop implements its deciding node.

### The car

`SceneManager_proofs`: `Spec => []IInv` (*Invariance*) and from it *TypeCorrect*,
*VerdictIsTheScores*, *VerdictTiming*, *LastQuery*, *QueryRefresh*, *NoBogusLock*,
*VerdictEvidence* and the action property *LockFinality*, for all timings, queries, labels
and messages, and for the override. It uses `TimingAssumption` (positive period, caps above
the thresholds), `ScoreAssumption` (a message is a sequence of entries whose
confidences are natural numbers or missing) and `ModeAssumption` (both scenes have queries;
no mode is called "none").

`ReactiveController_proofs`: `Spec => []ControlInv` (*ControlInvariance*) and from it
*DeadMan*, *HazardStops*, *ObstacleSlows*, *MotionFlag* and *SteeringIsAway*, for all speeds
and distances, from `ControlAssumption` and `SensorAssumption` (a frame gives every box a
depth; entries have a readable or an unreadable box and confidence).

The idea of both invariants is the same. A bound like "the query is younger than its
period and two timer periods" is not inductive: nothing in it says how far the timer
has got. `Lag` (`ControlLag`) is the time since the last *served* expiry on the timer's
grid. It grows by one with every `Tick`, together with the ages, and falls when the
callback runs; it is always below two periods. "Age is at most threshold plus lag" is
inductive: the callback runs with the age at or above the threshold and resets it, or
below it. For the controller the same lag bounds how long a condition may have held
without having been acted upon. `UptimeInv` chains the lags of the three phases into
the schedule, and `LockInv` ties the phase to the lock. *VerdictEvidence* adds that a
score without evidence is zero, for which a positive sum has to have a positive term;
*SteeringIsAway* needs that among the near candidates there is a nearest.

`Perception_proofs`: for NanoOWL `Spec => []OwlInv` (*OwlInvariance*), *LabelsAreRight* and
*NewestQuery*, for all queries, buffers and detections (`BoundsAssumption`: a buffer has room
for one query). What is in the buffer and what the node works with have to be related:
the query received last is the last of the buffer, or the buffer is empty and it is
the node's own (`BufferInv`); texts and encodings are those of the query (`CacheInv`), and
during an inference still those it was started with (`InferenceInv`), although
listener_callback reads them again after it. For the position node
*PositionIsThatOfTheBest*, under `PositionInputs`: entries have the fields the callback
parses, and a frame has a pixel.

`ScenePipeline_proofs`: `Spec => []PipeInv` (*PipeInvariance*) and from it *StagesInOrder*,
*OwnAnswers* and *ImplementsAgreement*, the safety half of the refinement
(`Spec => Agreement!Safety`): the initial states map to initial states and every step to a
step or a stutter. Every query has a stage (the first or second probe, the verdict), and
`PipeInv` says that the stages never decrease along the way: from NanoOWL's own query
through the buffer to the manager's phase, and from the answers in the buffer to
the phase. The mode on its way to the controller is the verdict. This is what excludes a late
answer from counting, and what no node could tell on its own.
`LaunchAssumption` says what the launch file sets (no override, depths of at least one);
`DistinctQueries` that each probe's query differs from every other one, and no query of a
verdict is blank or NanoOWL's initial one; `UnaskedAssumption` that queries are lists
of words and NanoOWL's initial query, or "a person" for a blank one, asks for nothing specific to
a scene. All three hold for the values in the code.

A node alone gets arbitrary messages at arbitrary moments; in a loop they come from
NanoOWL through a buffer. *LoopIsManager* and *LoopIsController* prove that nothing is lost
by looking at a node alone: `ScenePipeline` implements `SceneManager` and `DrivePipeline`
implements `ReactiveController` (`Loop!Spec => Safety`), for every query, discovery and
depth of the buffers, and for a detector that dies. Every step of the loop is a
step of the node or leaves its variables alone (`LoopStep`), because what waits for the node
is an answer NanoOWL wrote: an entry for a text of a query it was sent, with the article
removed (`AnswersInv`). The only hypothesis is that the messages the node is given on its own
contain these answers and that a buffer has room (`AnswersAreMessages`,
`AnswersAreDetections`). *LoopDecidesRightly* and *LoopDrivesSafely* are then
what was proved of the nodes, for the loops: the runs `scene_pipeline` and
`drive_pipeline` check only what takes both nodes to say.

### torch2trt

`Torch2Trt_proofs`: for the conversion context `Spec => []ContextInv` (*ContextInvariance*) and
*NetworkIsTraced*, for all modules, methods, device types and depths of the
stack (`ContextAssumption`: device types are given for modules of the network, converters
that are real are registered). The invariant relates the context's stacks to the frames of
the calls: the frames that contribute to a stack have places in it, in their order, and no
place is left over unless an exception was caught (`Placements`, `Filled`; `lost` names
what such an exception leaves behind). For sizes *SizesAreTraced*, for all sizes,
literals and computations, if the size of the example is one of the sizes.

For datasets *ItemsAreKept*, from `BuildAssumption` (the examples are calls of one module, of
as many tensors each, with a batch; file names have room for `MaxItems`): while files are
fewer than indices one index is free, so that nothing is overwritten; and torch.cat only adds
rows behind those there are. For the build `Spec => []BuildInv` (*BuildInvariance*) and
*InputsCovered*, for all examples, kinds of dataset and recordings. The inputs the
network is traced with are one of the items as long as no profile is made of them; after
that they are among the items the profile was made from (`ProfileSpans`), whose sizes on every axis
lie between its ends, and the ends are sizes of items. Recording while the conversion runs the
module may put a new file before that item, as a folder is listed by name and not by
number, but never takes the item away (`FirstItemStays`).
The network is open just on the axes on which the ends differ (`NetworkFits`).

### The demos and Isaac

`Demos_proofs`: *DemoSharesSafely* for the tree demo, for all clients and prompts
other than the two marks of the model (`PromptsAreNoMarks`), from `DemoInv`: the thread's local
copy of the prompt is complete or none, and the camera is released by a loop that has
ended. *TalkerIsManaged* for the lifecycle talkers, for all transitions a user may ask
for, from `LifecycleInv`: during a transition the resources are already those of the state
it leads to, and a step of the script determines the states the talker can be in.

*PoliciesAreShown* for the quality of service programs, for all options and periods
(`QosAssumption`), from `QosInv`: silence and the timer that ends it together never exceed
the period, or in a pause the period and the pause; the deadline has at least as much left as
the timer of the next message; history and what was heard are numbered up to the message
published last; the lease is renewed before it runs out until the talker is killed.

*MonitorTellsRightly* for the topic monitor, for all graphs of topics, windows, latencies and
lags (`MonitorAssumption`; that `MaxExpected` reaches beyond the end of counting is a matter
of the model's bound), from `MonitorInv`. What is in flight ascends within a run up to what the
publisher sends next, and what the monitor has received or expects lies before it
(`Counted`); a running timer and the age of the data together make up the latency allowed
(`Timed`), so that silence becomes stale in time; in the first run of a topic a value seen
`n` periods before the expected one is that old, so that the rate falls to zero; a run
without losses has no gap, so that its rate is full. `sinceCycle`, the lag of the main loop,
bounds how long an old status or rate may be shown. The hypothesis `~LosesGoodbye` is needed:
after a lost goodbye the code divides by zero (section 5, topic_monitor.py:110).

`IsaacCommon_proofs`: for the synchronizer `Spec => []SyncInv` (*SyncInvariance*) and from it
*NextTimestamp*, *LoopLeavesNothing*, *MatchesAreClose* and *DeliveredOnceInOrder*, for any
number of streams, threshold, buffer size and minimum, from `SyncAssumption` (there is a
stream, and a buffer has room for one message). The code matches by remembered
timestamps, not by the messages, so that a match is right only if the two agree:
`NextIsFront` says they do, through pushes on a full buffer, pops and clearing, and that
buffers hold messages in the order of arrival. `Fresh` adds that what is buffered
is younger than what was delivered. `MatchesBelongTogether` follows for the step that
calls back, and is kept by every other step.

*CommandIsCopied* for run_command, for all outputs, modes and lengths of the tail
(`LogAssumption`), from `LogInv`: log, text buffer and pipe behind each other are what the
command has written so far, or everything is in the log and what follows are the
newlines of empty reads; the loop ends only when the command has exited and nothing is left to
read; the log consists of whole lines and the list of lines is what it splits into. The last
needs that splitting two texts one after the other gives the lines of both, if the first ends a
line.

### Recursion

A sum of votes and the non-blank items of a query are recursive functions. The library's
induction rule takes a predicate, which the provers do not instantiate; `SequenceFacts`
states induction for *sets* of naturals (`NatSet`, from their well-foundedness) and proves
with it that such functions exist and what they return. The same least element
(`LeastNat`) gives the first free file of a dataset, and the greatest of
finitely many (`Greatest`) the ends of a profile. What lists a set in its order (the files by
name, the starts of lines) is defined by ranks; `EnumerationExists`, `EnumeratedRank` and
`EnumeratedUnique` prove that the list exists, and that each element stands in it
where its rank says.

### Only model-checked

* Liveness and the refinement's fairness (`EveryImageAnswered`, `NanoOwlAsksForVerdict`,
  `ReachesAgreement` beyond its safety half, `DetectorDeathStopsCar`, `PersonStopsCar`,
  `NewestPromptIsUsed`, `CommandEnds`), which the prover does not do.
* What a program computes, compared with a reference definition: prompts, predictions and
  regions in nanoowl (`PromptUnderstood`, `PredictionsExplained`, `RegionsComeBack`), the
  converters' four properties, and the flatteners of `EngineAnswersAlike`. They are defined by
  recursion over trees, shapes or tensors, which is induction over data.

## 5. Differences seen while modelling

Two are runs that end in a violation (above). The others were found in the same way, by
stating what a comment, document or test says and letting TLC look for a counterexample;
the models contain the behaviour, and the properties of the passing runs say
where it begins (`supported`, `live`, and the preconditions in their comments).

* *object_position.py:186*: bearings use the width of the first frame, so that after a
  change of resolution the position leaves the "-0.5 to 0.5" of line 80. *:73*:
  parameter_callback returns a bool where rclpy reads `successful`; the update is applied
  and then ends the node.
* *tree.py:69*: from_dict keeps the operation as a string; a tree read back from JSON
  differs from the one written and has neither detect nor classify nodes.
* *trt_module.py:140*: the address of a contiguous copy is taken and the copy released,
  so that its memory may be reused before the engine reads it. *:85*: flatteners are
  stored with the module's prefix and looked up without, so that a nested module loses
  them.
* *native_converters.py*: narrow with a negative start (1512), pad of one or three axes
  (1571), squeeze without dim or of a longer axis (1814), sum and prod without dim (1882),
  0 // b, whose sign is 0 / 0 (619), log_softmax along another axis than the layer's
  default (1180), instance_norm with running statistics and a weight (933), affine
  instance_norm of inputs that are not 4-D (902), dilated transposed convolution (478).
* *topic_monitor.py*: values received before a publisher's restart still count (109); when
  a goodbye is lost and the publisher starts again, the range of expected values is empty
  and the rate divides by zero (110), which is why `LosesGoodbye` is FALSE in `ros_demos`;
  a topic without a rate yet makes the display draw lines of different lengths (281).
* *subprocess_utils.py:100*: in mode none, what is still in the pipe when the command
  ends goes to the file but not to the lines that run_command returns.
* *lifecycle_py talker.py*: every cleanup leaks the timer, which is kept under another
  name (114); shutting an active talker down destroys its publisher and leaves the timer,
  whose next callback raises (134).
* *QoS deadline demo, deadline.py:66*: the timer of publish_for runs on during a pause,
  so that later spells of publishing are shorter than documented.
* *message_stream_synchronizer.hpp:177*: when too few fronts match, all of them are removed,
  also one that matches a message already waiting behind another.

Hazards without a property, and therefore not in the list: the margin of the verdict is
compared in floating point (scene_aware_query_manager.py:203), where sums here are exact;
the thresholds parameter of nano_owl_py.py (116) has no default and is read outside of the
try; before the first depth frame a person is no candidate for the controller (127), a
depth frame never expires (120), and an emergency stop leaves the command on
/purepursuit_cmd standing, so that a multiplexer outside the repository decides (276);
trtexec is called and its result not looked at (owl_predictor.py:496); a client that
does not read delays the loop for the others (tree_demo.py:168); and the converter of
torch.add ignores the argument alpha.

## 6. Not modelled

* The networks, their preprocessing and export, drawing, and TensorRT's builder: numerical
  or external. Transcendental functions of the converters are left out or symbolic; the
  attention, embedding, roll and plugin converters are not modelled.
* nanoowl's tools and scripts, launch files, torch2trt's plugins, contrib and examples:
  configuration or straight-line I/O.
* isaac_ros_launch_utils builds descriptions that the launch system evaluates;
  isaac_ros_rosbag_utils converts files offline; isaac_ros_test holds fixtures. They keep
  no state that one step could break for another.
* The other ROS demos (composition, intra-process pipelines, image tools, logging, actions
  and so on): a publisher with a subscriber, or a client with a server, that show a feature
  of ROS and have little logic of their own.
* Rounding of float sums at the margin, NaN boxes and the pixel patch of lookup_depth. The
  multiplexer that combines /purepursuit_cmd and the emergency command is not in the
  repository. Nodes restarted by hand are new behaviours from that node's initial state.
* ClearUpto, GetUpto and ClearAndGetUpto of MessageBuffer, which only their tests call.

## 7. Plan

Done: the car's nodes and loops, nanoowl, torch2trt, the demos with state, Isaac's
synchronizer and run_command; proofs for every node of the car, its scene loop and both
refinements of nodes by loops, the conversion context, sizes, datasets and profiles, all
four demos and both parts of Isaac. Left, in this order:

1. `TrtModule`'s memory, once the flatteners are a recursive function.
2. Prompts and predictions of nanoowl, whose reference definitions are recursive: lemmas for
   one level of a tree would be within reach.
3. A hazard no property covers: parameter_callback of object_position.py:73.
