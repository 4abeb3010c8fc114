----------------------------- MODULE ScenePipeline -----------------------------
(***************************************************************************)
(* The loop that decides the scene: the scene manager asks NanoOWL one     *)
(* query after the other on /input_query, NanoOWL answers on               *)
(* /yolo/detections at its own pace, and the verdict reaches NanoOWL as    *)
(* the final query and the reactive controller on /scene_mode.             *)
(*                                                                         *)
(* The three topics are discovered at arbitrary moments after the nodes    *)
(* start, and what is published before is lost.  NanoOWL may take          *)
(* arbitrarily long to load and to answer, and may fail for good.          *)
(***************************************************************************)
EXTENDS Topics, SequencesExt

CONSTANTS
    TimerPeriod, StartupDelay, ProbeDuration, ProbePublishPeriod, FinalPublishPeriod,
    AgeCap, MinScoreMargin, MaxScore, SceneOverride, DefaultSceneMode,
    ProbeQueries, Queries, NeutralQuery, InitialQuery, ImageBoxes, Scores, MaxDetections,
    Depth,              \* depth of NanoOWL's buffer of queries
    ReplyDepth          \* depth of the buffers of /yolo/detections and /scene_mode

VARIABLES
    \* the scene manager
    up, phase, lockedSceneMode, probeScores, phaseAge, queryAge, untilTimer, timerDue,
    queryOut, modeOut, uptime, lastQuery, evidence,
    \* NanoOWL
    owl, queryQueue, imagePending, query, queryText, textEncodings, processingImage,
    usedEncodings, legacyOut, found, lastReceived,
    \* the topics between them and to the controller
    answerQueue,        \* the manager's buffer of /yolo/detections, with the
                        \* encodings each answer was computed from
    modeQueue,          \* the controller's buffer of /scene_mode
    sceneMode,          \* the controller's self.scene_mode
    linked              \* the topics that have been discovered

Manager == INSTANCE SceneManager WITH Messages <- {}
NanoOwl == INSTANCE NanoOwlNode WITH QueryStrings <- Manager!AllQueries, QueryDepth <- Depth,
                                     PublishLegacyOutputs <- TRUE, ThresholdsSet <- TRUE

managerVars == <<up, phase, lockedSceneMode, probeScores, phaseAge, queryAge, untilTimer,
                 timerDue, queryOut, modeOut, uptime, lastQuery, evidence>>
nanoOwlVars == <<owl, queryQueue, imagePending, query, queryText, textEncodings,
                 processingImage, usedEncodings, legacyOut, found, lastReceived>>
topicVars == <<answerQueue, modeQueue, sceneMode, linked>>
vars == <<managerVars, nanoOwlVars, topicVars>>

TopicNames == {"input_query", "detections", "scene_mode"}

(* As the demo is launched: no scene is imposed, the default is a scene.   *)
ASSUME LaunchAssumption ==
    /\ SceneOverride \notin Manager!Modes /\ DefaultSceneMode \in Manager!Modes
    /\ DOMAIN Queries = Manager!Modes /\ DOMAIN ProbeQueries = Manager!Modes
    /\ Depth \in Nat \ {0} /\ ReplyDepth \in Nat \ {0}
    /\ MaxDetections \in Nat /\ Scores \subseteq Nat

(* Each of the two probe queries is told from every other query.           *)
ASSUME DistinctQueries ==
    /\ \A mode \in Manager!Modes :
           ProbeQueries[mode] \notin {Queries[m] : m \in Manager!Modes} \cup {InitialQuery, <<>>}
    /\ ProbeQueries["indoor"] # ProbeQueries["outdoor"]
    /\ \A mode \in Manager!Modes : Queries[mode] \notin {InitialQuery, <<>>}

(* What NanoOWL looks for on its own, before it is asked (the constructor) *)
(* or when a query is blank, is specific to no scene.                      *)
ASSUME UnaskedAssumption ==
    /\ \A q \in Manager!AllQueries \cup {InitialQuery} : q \in Seq(Seq(STRING))
    /\ \A mode \in Manager!Modes :
           (ParseLabelSet(InitialQuery) \cup {<<"person">>}) \cap Manager!ProbeLabels(mode) = {}

-------------------------------------------------------------------------------
Init ==
    /\ Manager!Init
    /\ NanoOwl!Init
    /\ answerQueue = <<>> /\ modeQueue = <<>>
    /\ sceneMode = "unknown"
    /\ linked = {}

Discover(topic) ==
    /\ topic \notin linked
    /\ linked' = linked \cup {topic}
    /\ UNCHANGED <<managerVars, nanoOwlVars, answerQueue, modeQueue, sceneMode>>

Tick == Manager!Tick /\ UNCHANGED <<nanoOwlVars, topicVars>>

(* What the manager publishes arrives in the buffers of NanoOWL and of the *)
(* controller.                                                             *)
ManagerTimer ==
    /\ Manager!TimerCallback
    /\ NanoOwl!ReceiveQueries(queryOut', "input_query" \in linked)
    /\ modeQueue' = Deliver(modeQueue, modeOut', "scene_mode" \in linked, ReplyDepth)
    /\ UNCHANGED <<legacyOut, answerQueue, sceneMode, linked>>

ManagerHears ==
    /\ answerQueue # <<>>
    /\ Manager!DetectionsCallback(Head(answerQueue).entries)
    /\ answerQueue' = Tail(answerQueue)
    /\ UNCHANGED <<nanoOwlVars, modeQueue, sceneMode, linked>>

(* What NanoOWL publishes arrives in the buffer of the manager.            *)
Answers(out) == [k \in DOMAIN out |-> [entries |-> out[k], asked |-> usedEncodings]]

NanoOwlSteps ==
    /\ \/ NanoOwl!Load \/ NanoOwl!QueryListenerCallback \/ NanoOwl!ListenerStart
       \/ NanoOwl!ListenerFinish \/ NanoOwl!Fail
       \/ ~imagePending /\ NanoOwl!ReceiveImage
    /\ answerQueue' = Deliver(answerQueue, Answers(legacyOut'), "detections" \in linked, ReplyDepth)
    /\ UNCHANGED <<managerVars, modeQueue, sceneMode, linked>>

(* The controller's scene_mode_callback.                                   *)
ControllerHears ==
    /\ modeQueue # <<>>
    /\ sceneMode' = Head(modeQueue)
    /\ modeQueue' = Tail(modeQueue)
    /\ UNCHANGED <<managerVars, nanoOwlVars, answerQueue, linked>>

Next ==
    \/ Tick \/ ManagerTimer \/ ManagerHears \/ NanoOwlSteps \/ ControllerHears
    \/ \E topic \in TopicNames : Discover(topic)

(* Every executor serves its timer and its buffers, every topic is         *)
(* discovered in the end, and NanoOWL's constructor and model calls        *)
(* return; a camera need not be there.                                     *)
Fairness ==
    /\ WF_vars(Tick) /\ WF_vars(ManagerTimer) /\ WF_vars(ControllerHears)
    /\ \A topic \in TopicNames : WF_vars(Discover(topic))
    /\ WF_vars(NanoOwlSteps /\ owl' = "idle" /\ owl # "idle")
    /\ SF_vars(NanoOwlSteps /\ queryQueue' # queryQueue)

Spec == Init /\ [][Next]_vars /\ Fairness

-------------------------------------------------------------------------------
(* A probe is only decided by answers to its own query: answers that were  *)
(* computed for the query before and arrive after the phase has changed    *)
(* add nothing to the score (probe_labels without shared and neutral       *)
(* labels, detections_callback).                                           *)
OnlyOwnAnswersCount ==
    [][\A mode \in DOMAIN probeScores :
          probeScores'[mode] > probeScores[mode] =>
              Head(answerQueue).asked = NanoOwl!QueryTexts(ProbeQueries[mode])]_vars

(* The stages a query belongs to, in the order in which they are asked.    *)
Stage(q) == CASE q = ProbeQueries["indoor"] -> 1
              [] q = ProbeQueries["outdoor"] -> 2
              [] q \in {Queries[m] : m \in DOMAIN Queries} -> 3
              [] OTHER -> 0

(* NanoOWL never goes back to the query of an earlier stage, whatever was  *)
(* lost, repeated or buffered in between (start_probe, lock_scene_mode,    *)
(* query_listener_callback).                                               *)
NeverAsksBackwards == [][Stage(query') >= Stage(query)]_vars

(* NanoOWL ends up asking the query of the verdict for good, however much  *)
(* of the start was lost, unless it fails (the repetition in               *)
(* timer_callback's first branch, query_listener_callback).                *)
NanoOwlAsksForVerdict ==
    <>(owl = "dead") \/ <>[](\E mode \in DOMAIN Queries : mode = lockedSceneMode /\ query = Queries[mode])

Agreement == INSTANCE SceneAgreement WITH
    Scenes <- {"indoor", "outdoor"}, Undecided <- "none", Unknown <- "unknown",
    verdict <- lockedSceneMode, known <- sceneMode

(* The loop implements agreement on the scene: whatever is lost before     *)
(* discovery, dropped from a buffer or overtaken, and even if NanoOWL      *)
(* fails, one verdict is reached and the controller learns it and nothing  *)
(* else (lock_scene_mode, timer_callback, scene_mode_callback).            *)
ReachesAgreement == Agreement!Spec

-------------------------------------------------------------------------------
(* The inductive invariant behind the safety properties: how far the       *)
(* manager is, what is on its way to the controller and to NanoOWL, and    *)
(* what the answers on their way back were computed from.                  *)
PhaseStage == [startup |-> 0, probe_indoor |-> 1, probe_outdoor |-> 2, locked |-> 3][phase]

PhaseInv ==
    /\ phase \in Manager!Phases
    /\ lockedSceneMode \in Manager!Modes \cup {Manager!NoMode}
    /\ phase = "locked" <=> lockedSceneMode # Manager!NoMode
    /\ probeScores \in [Manager!Modes -> Nat]

ModeInv ==
    /\ modeQueue \in BoundedSeq(Manager!Modes, ReplyDepth)
    /\ \A i \in DOMAIN modeQueue : modeQueue[i] = lockedSceneMode
    /\ sceneMode # "unknown" => sceneMode = lockedSceneMode /\ lockedSceneMode \in Manager!Modes

(* The queries of a sequence come in the order of their stages.            *)
Ordered(s, lo, hi) ==
    /\ s \in Seq(Manager!AllQueries)
    /\ \A i \in DOMAIN s : lo <= Stage(s[i]) /\ Stage(s[i]) <= hi
    /\ \A i, j \in DOMAIN s : i <= j => Stage(s[i]) <= Stage(s[j])

(* The queries that NanoOWL has and will get come in the order of their    *)
(* stages, none of which is later than the stage of the manager.           *)
QueryInv ==
    /\ owl \in {"loading", "idle", "inferring", "dead"}
    /\ queryQueue \in BoundedSeq(Manager!AllQueries, Depth)
    /\ owl = "loading" => query = <<>>
    /\ query \in Manager!AllQueries \cup {InitialQuery, <<>>}
    /\ Stage(query) <= PhaseStage
    /\ Ordered(queryQueue, Stage(query), PhaseStage)

EncodingInv ==
    /\ NanoOwl!Running => /\ query \in Manager!AllQueries \cup {InitialQuery}
                          /\ queryText = NanoOwl!QueryTexts(query) /\ textEncodings = queryText
    /\ owl = "inferring" => usedEncodings = textEncodings

(* An answer to the query q: a message whose entries name texts of q.      *)
IsAnswerTo(answer, q) ==
    /\ answer.asked = NanoOwl!QueryTexts(q)
    /\ answer.entries \in Seq({answer.entries[i] : i \in DOMAIN answer.entries})
    /\ \A i \in DOMAIN answer.entries :
          /\ answer.entries[i].confidence \in Nat
          /\ \E j \in DOMAIN answer.asked : answer.entries[i].label = answer.asked[j]

AnswerInv ==
    /\ answerQueue \in Seq({answerQueue[k] : k \in DOMAIN answerQueue})
    /\ \A k \in DOMAIN answerQueue :
          \E q \in Manager!AllQueries \cup {InitialQuery} :
              Stage(q) <= PhaseStage /\ IsAnswerTo(answerQueue[k], q)

PipeInv == PhaseInv /\ ModeInv /\ QueryInv /\ EncodingInv /\ AnswerInv
===============================================================================
