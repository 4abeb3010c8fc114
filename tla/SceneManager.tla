----------------------------- MODULE SceneManager -----------------------------
(***************************************************************************)
(* scene_aware_query_manager.py: the node that decides, once, whether the  *)
(* car is indoors or outdoors, and keeps NanoOWL asking the right query.   *)
(*                                                                         *)
(* It waits for startup_delay_sec, probes "indoor" and then "outdoor" for  *)
(* probe_duration_sec each, sums the confidences of the detections that    *)
(* are specific to the scene being probed, locks the scene with the higher *)
(* sum (the default one if the sums are close) and from then on only       *)
(* republishes the query and the mode of the locked scene.                 *)
(*                                                                         *)
(* Time is discrete.  The node runs on rclpy's single-threaded executor:   *)
(* its timer expires every TimerPeriod units on a fixed grid, and the      *)
(* callback runs at any moment before the next expiry, with detection      *)
(* callbacks before or after it.  Timestamps are kept as ages, which       *)
(* saturate at AgeCap, beyond every value they are compared with.          *)
(***************************************************************************)
EXTENDS Topics, SequencesExt

CONSTANTS
    TimerPeriod,         \* period of the timer that runs timer_callback
    StartupDelay,        \* startup_delay_sec
    ProbeDuration,       \* probe_duration_sec
    ProbePublishPeriod,  \* probe_publish_period_sec
    FinalPublishPeriod,  \* final_query_publish_period_sec
    AgeCap,              \* where ages saturate
    MinScoreMargin,      \* min_score_margin, in hundredths
    MaxScore,            \* bound on the sums of confidences
    SceneOverride,       \* scene_override, normalised
    DefaultSceneMode,    \* default_scene_mode, normalised
    ProbeQueries,        \* indoor_probe_query and outdoor_probe_query
    Queries,             \* indoor_query and outdoor_query
    NeutralQuery,        \* scene_neutral_labels
    Messages             \* the detection messages that may arrive

VARIABLES
    up,               \* the process runs
    phase,            \* self.phase
    lockedSceneMode,  \* self.locked_scene_mode, NoMode for None
    probeScores,      \* self.probe_scores, in hundredths
    phaseAge,         \* time since self.phase_started_at
    queryAge,         \* time since self.last_query_publish_at, Never for None
    untilTimer,       \* time until the timer expires next
    timerDue,         \* the timer has expired and its callback has not run
    queryOut,         \* the queries published by the last step, in order
    modeOut,          \* the scene modes published by the last step
    uptime,           \* history: time since the node started
    lastQuery,        \* history: the query published last
    evidence          \* history: the scenes whose probe met a specific label

vars == <<up, phase, lockedSceneMode, probeScores, phaseAge, queryAge,
          untilTimer, timerDue, queryOut, modeOut, uptime, lastQuery, evidence>>

Modes == {"indoor", "outdoor"}
Other(mode) == CHOOSE m \in Modes : m # mode
NoMode == "none"
Never == -1
NoQuery == <<>>
Phases == {"startup", "probe_indoor", "probe_outdoor", "locked"}
Autonomous == SceneOverride \notin Modes
AllQueries == {ProbeQueries[m] : m \in Modes} \cup {Queries[m] : m \in Modes}

-------------------------------------------------------------------------------
(* The labels that count in the probe of a scene: those of its probe query *)
(* that the other probe query does not share and that are not neutral.     *)
SharedProbeLabels ==
    ParseLabelSet(ProbeQueries["indoor"]) \cap ParseLabelSet(ProbeQueries["outdoor"])

(* Mutant: the labels of both probe queries are not ignored.               *)
IgnoredProbeLabels_NeutralOnly == ParseLabelSet(NeutralQuery)

IgnoredProbeLabels == SharedProbeLabels \cup ParseLabelSet(NeutralQuery)

ProbeLabels(mode) == ParseLabelSet(ProbeQueries[mode]) \ IgnoredProbeLabels

(* What an entry adds to the score of the scene being probed: nothing if   *)
(* it does not parse (parse_detection_entries).                            *)
Vote(entry, mode) ==
    IF entry.confidence # Unparsable /\ NormalizeLabel(entry.label) \in ProbeLabels(mode)
    THEN entry.confidence ELSE 0

(* What a message adds to it.                                              *)
Votes(msg, mode) == SumOf([i \in DOMAIN msg |-> Vote(msg[i], mode)])

ASSUME TimingAssumption ==
    /\ TimerPeriod \in Nat \ {0}
    /\ StartupDelay \in Nat /\ ProbeDuration \in Nat
    /\ ProbePublishPeriod \in Nat /\ FinalPublishPeriod \in Nat
    /\ AgeCap \in Nat
    /\ AgeCap > StartupDelay + 2 * ProbeDuration + 6 * TimerPeriod
    /\ AgeCap > ProbePublishPeriod + 2 * TimerPeriod
    /\ AgeCap > FinalPublishPeriod + 2 * TimerPeriod

(* A message is a sequence of entries with a confidence or without one.    *)
IsMessage(msg) ==
    /\ msg \in Seq({msg[i] : i \in DOMAIN msg})
    /\ \A i \in DOMAIN msg : msg[i].confidence \in Nat \cup {Unparsable}

ASSUME ScoreAssumption ==
    /\ MinScoreMargin \in Nat
    /\ MaxScore \in Nat
    /\ \A msg \in Messages : IsMessage(msg)

ASSUME ModeAssumption ==
    /\ NoMode \notin {SceneOverride, DefaultSceneMode}
    /\ DOMAIN Queries = Modes /\ DOMAIN ProbeQueries = Modes

-------------------------------------------------------------------------------
Older(age) == IF age = Never \/ age = AgeCap THEN age ELSE age + 1

(* History: the query published last, after a step that publishes `sent`.  *)
Announce(sent) == lastQuery' = IF sent = <<>> THEN lastQuery ELSE Last(sent)

(* publish_query, called with each of the queries of `sent` in turn.       *)
PublishQueries(sent) ==
    /\ queryOut' = sent
    /\ queryAge' = IF sent = <<>> THEN queryAge ELSE 0
    /\ Announce(sent)

(* Mutant: a query is published once and never repeated.                   *)
ShouldPublishQuery_Once(period) == queryAge = Never

ShouldPublishQuery(period) == queryAge = Never \/ queryAge >= period

(* The constructor.  With a scene override it ends in lock_scene_mode.     *)
Init ==
    /\ up = TRUE
    /\ probeScores = [m \in Modes |-> 0]
    /\ phaseAge = 0
    /\ untilTimer = TimerPeriod
    /\ timerDue = FALSE
    /\ uptime = 0
    /\ evidence = {}
    /\ IF Autonomous
       THEN /\ phase = "startup" /\ lockedSceneMode = NoMode /\ queryAge = Never
            /\ queryOut = <<>> /\ modeOut = <<>> /\ lastQuery = NoQuery
       ELSE /\ phase = "locked" /\ lockedSceneMode = SceneOverride /\ queryAge = 0
            /\ queryOut = <<Queries[SceneOverride]>> /\ modeOut = <<SceneOverride>>
            /\ lastQuery = Queries[SceneOverride]

(* One unit of time passes.  A due timer is served before it expires again *)
(* (the callbacks of this node only add numbers and publish strings).      *)
Tick ==
    /\ up => ~(timerDue /\ untilTimer = 1)
    /\ untilTimer' = IF untilTimer = 1 THEN TimerPeriod ELSE untilTimer - 1
    /\ timerDue' = (timerDue \/ untilTimer = 1)
    /\ phaseAge' = Older(phaseAge)
    /\ queryAge' = Older(queryAge)
    /\ uptime' = Older(uptime)
    /\ queryOut' = <<>> /\ modeOut' = <<>>
    /\ UNCHANGED <<up, phase, lockedSceneMode, probeScores, lastQuery, evidence>>

(* The scene whose probe is running, in the two probe phases.              *)
ProbedMode == IF phase = "probe_indoor" THEN "indoor" ELSE "outdoor"
Probing == phase \in {"probe_indoor", "probe_outdoor"}

(* History: a message gives evidence for a scene if one of its readable    *)
(* entries names an object of that scene's probe query which neither is    *)
(* neutral nor belongs to the other scene's probe query as well.           *)
SpecificTo(label, mode) ==
    /\ label \in ParseLabelSet(ProbeQueries[mode])
    /\ label \notin ParseLabelSet(ProbeQueries[Other(mode)])
    /\ label \notin ParseLabelSet(NeutralQuery)

GivesEvidence(msg, mode) ==
    \E i \in DOMAIN msg : /\ msg[i].confidence # Unparsable
                          /\ SpecificTo(NormalizeLabel(msg[i].label), mode)

(* detections_callback: only the two probe phases listen.                  *)
DetectionsCallback(msg) ==
    /\ up
    /\ IF Probing
       THEN /\ probeScores[ProbedMode] + Votes(msg, ProbedMode) <= MaxScore
            /\ probeScores' = [probeScores EXCEPT ![ProbedMode] = @ + Votes(msg, ProbedMode)]
            /\ evidence' = evidence \cup
                   (IF GivesEvidence(msg, ProbedMode) THEN {ProbedMode} ELSE {})
       ELSE UNCHANGED <<probeScores, evidence>>
    /\ queryOut' = <<>> /\ modeOut' = <<>>
    /\ UNCHANGED <<up, phase, lockedSceneMode, phaseAge, queryAge, untilTimer,
                   timerDue, uptime, lastQuery>>

-------------------------------------------------------------------------------
(* timer_callback and what it calls.  `sent` are the queries the same      *)
(* callback has already published.                                         *)

ProbePhase(mode) == IF mode = "indoor" THEN "probe_indoor" ELSE "probe_outdoor"

(* Mutant: phase_started_at is only set by the constructor.                *)
RestartPhaseClock_Forgotten == UNCHANGED phaseAge

RestartPhaseClock == phaseAge' = 0

(* Mutant: the new query is published before the old one is repeated.      *)
ThenPublish_Before(sent, q) == PublishQueries(<<q>> \o sent)

ThenPublish(sent, q) == PublishQueries(Append(sent, q))

StartProbe(mode, sent) ==
    /\ phase' = ProbePhase(mode)
    /\ RestartPhaseClock
    /\ ThenPublish(sent, ProbeQueries[mode])
    /\ modeOut' = <<>>
    /\ UNCHANGED <<up, lockedSceneMode>>

(* Mutant: a mode without a query is no error.                             *)
LookupSucceeds_Always(mode) == TRUE

LookupSucceeds(mode) == mode \in DOMAIN Queries

(* lock_scene_mode announces the mode before it looks the query up: a      *)
(* default_scene_mode that is not a key of self.queries raises KeyError    *)
(* there, which nothing catches, and the process ends.                     *)
LockSceneMode(mode, sent) ==
    /\ lockedSceneMode' = mode
    /\ phase' = "locked"
    /\ RestartPhaseClock
    /\ modeOut' = <<mode>>
    /\ up' = LookupSucceeds(mode)
    /\ IF mode \in DOMAIN Queries
       THEN ThenPublish(sent, Queries[mode])
       ELSE queryOut' = sent /\ queryAge' = Never /\ Announce(sent)

Abs(n) == IF n < 0 THEN -n ELSE n

SelectedMode(scores) ==
    LET margin == scores["indoor"] - scores["outdoor"]
    IN  IF Abs(margin) < MinScoreMargin THEN DefaultSceneMode
        ELSE IF margin > 0 THEN "indoor" ELSE "outdoor"

SelectSceneMode(sent) == LockSceneMode(SelectedMode(probeScores), sent)

(* Mutant: the probe query of the locked scene is repeated.                *)
LockedQuery_Probe == ProbeQueries[lockedSceneMode]

LockedQuery == Queries[lockedSceneMode]

LockedStep ==
    /\ lockedSceneMode # NoMode
    /\ IF ShouldPublishQuery(FinalPublishPeriod)
       THEN PublishQueries(<<LockedQuery>>) /\ modeOut' = <<lockedSceneMode>>
       ELSE PublishQueries(<<>>) /\ modeOut' = <<>>
    /\ UNCHANGED <<up, phase, lockedSceneMode, phaseAge>>

StartupStep ==
    /\ lockedSceneMode = NoMode /\ phase = "startup"
    /\ IF phaseAge >= StartupDelay
       THEN StartProbe("indoor", <<>>)
       ELSE /\ PublishQueries(<<>>) /\ modeOut' = <<>>
            /\ UNCHANGED <<up, phase, lockedSceneMode, phaseAge>>

(* The probe query is repeated first, even by the callback that ends the   *)
(* probe.                                                                  *)
Repeated == IF ShouldPublishQuery(ProbePublishPeriod)
            THEN <<ProbeQueries[ProbedMode]>> ELSE <<>>

ProbeOver == phaseAge >= ProbeDuration

ProbeStep ==
    /\ lockedSceneMode = NoMode /\ Probing
    /\ \/ /\ ~ProbeOver
          /\ PublishQueries(Repeated) /\ modeOut' = <<>>
          /\ UNCHANGED <<up, phase, lockedSceneMode, phaseAge>>
       \/ /\ ProbeOver /\ phase = "probe_indoor"
          /\ StartProbe("outdoor", Repeated)
       \/ /\ ProbeOver /\ phase = "probe_outdoor"
          /\ SelectSceneMode(Repeated)

TimerCallback ==
    /\ up /\ timerDue
    /\ LockedStep \/ StartupStep \/ ProbeStep
    /\ timerDue' = FALSE
    /\ UNCHANGED <<probeScores, untilTimer, uptime, evidence>>

Next == Tick \/ TimerCallback \/ (\E msg \in Messages : DetectionsCallback(msg))

(* The executor keeps serving the timer, and time keeps passing.           *)
Spec == Init /\ [][Next]_vars /\ WF_vars(Tick) /\ WF_vars(TimerCallback)

-------------------------------------------------------------------------------
(* The types of the fields, and how much one callback publishes: at most   *)
(* two queries and one mode (timer_callback).                              *)
TypeOK ==
    /\ up \in BOOLEAN /\ timerDue \in BOOLEAN
    /\ phase \in Phases
    /\ lockedSceneMode \in Modes \cup {NoMode, DefaultSceneMode}
    /\ probeScores \in [Modes -> 0..MaxScore]
    /\ phaseAge \in 0..AgeCap /\ uptime \in 0..AgeCap
    /\ queryAge \in 0..AgeCap \cup {Never}
    /\ untilTimer \in 1..TimerPeriod
    /\ evidence \subseteq Modes
    /\ queryOut \in Seq(AllQueries) /\ Len(queryOut) <= 2
    /\ modeOut \in Seq(Modes \cup {DefaultSceneMode}) /\ Len(modeOut) <= 1

(* The locked scene is, at every later moment, the one the scores call     *)
(* for: detections that arrive after the verdict (NanoOWL still answers    *)
(* the outdoor probe query) change neither (detections_callback's early    *)
(* return, select_scene_mode).                                             *)
VerdictFollowsScores ==
    Autonomous /\ lockedSceneMode # NoMode => lockedSceneMode = SelectedMode(probeScores)

(* A scene other than the default is only locked if its own probe met an   *)
(* object specific to it: people, other neutral labels, labels of both     *)
(* probe queries, unreadable entries and answers to the other probe never  *)
(* decide (ignored_probe_labels, detections_callback).                     *)
VerdictNeedsEvidence ==
    Autonomous /\ MinScoreMargin > 0 /\ lockedSceneMode \in Modes
         /\ lockedSceneMode # DefaultSceneMode
        => lockedSceneMode \in evidence

(* The verdict comes after the startup delay and two full probes, and not  *)
(* later than two timer periods per phase after that, however the executor *)
(* delays the callbacks (timer_callback, start_probe's reset of            *)
(* phase_started_at).                                                      *)
VerdictOnSchedule ==
    Autonomous => IF lockedSceneMode = NoMode
            THEN uptime < StartupDelay + 2 * ProbeDuration + 6 * TimerPeriod
            ELSE uptime >= StartupDelay + 2 * ProbeDuration

(* The query published last is the one of the current phase: NanoOWL is    *)
(* never left with the query of the phase before (start_probe and          *)
(* lock_scene_mode publish last, after the repetition of the old query).   *)
LastQueryFitsPhase ==
    up => /\ phase = "startup" => lastQuery = NoQuery
          /\ Probing => lastQuery = ProbeQueries[ProbedMode]
          /\ phase = "locked" => lastQuery = Queries[lockedSceneMode]

(* A subscriber that joins late, or lost a message, waits less than the    *)
(* publish period of the phase and two timer periods for the query         *)
(* (should_publish_query).                                                 *)
QueryStaysFresh ==
    up /\ phase # "startup" =>
        /\ queryAge # Never
        /\ queryAge < 2 * TimerPeriod + IF phase = "locked" THEN FinalPublishPeriod
                                                            ELSE ProbePublishPeriod

(* A lock on something that is not a scene (a default_scene_mode with a    *)
(* typing error) never survives: no running manager holds one, so none     *)
(* keeps repeating it to the controller (KeyError in lock_scene_mode).     *)
NoBogusLockSurvives == up => lockedSceneMode \in Modes \cup {NoMode}

(* Once locked, the manager stays locked on that scene and publishes       *)
(* nothing that belongs to another scene or to a probe (timer_callback's   *)
(* first branch returns before the probe code).                            *)
LockIsFinal ==
    [][lockedSceneMode # NoMode =>
        /\ lockedSceneMode' = lockedSceneMode
        /\ \A i \in DOMAIN queryOut' : queryOut'[i] = Queries[lockedSceneMode]
        /\ \A i \in DOMAIN modeOut' : modeOut'[i] = lockedSceneMode]_vars

-------------------------------------------------------------------------------
(* The inductive invariant behind the safety properties.  Lag is the time  *)
(* that may have passed since the last served timer expiry: an age that    *)
(* was below its threshold when the timer was last served exceeds it by at *)
(* most Lag.                                                               *)
Lag == (TimerPeriod - untilTimer) + IF timerDue THEN TimerPeriod ELSE 0

LockInv ==
    /\ phase = "locked" <=> lockedSceneMode # NoMode
    /\ ~up => phase = "locked"
    /\ up => lockedSceneMode \in Modes \cup {NoMode}
    /\ ~Autonomous => phase = "locked"

AgeInv ==
    up => /\ phase = "startup" => phaseAge <= StartupDelay + Lag
          /\ Probing => /\ phaseAge <= ProbeDuration + Lag
                        /\ queryAge # Never
                        /\ queryAge <= ProbePublishPeriod + Lag
          /\ phase = "locked" => /\ queryAge # Never
                                 /\ queryAge <= FinalPublishPeriod + Lag

UptimeInv ==
    /\ phase = "startup" => uptime = phaseAge
    /\ phase = "probe_indoor" =>
           /\ phaseAge + StartupDelay <= uptime
           /\ uptime < phaseAge + StartupDelay + 2 * TimerPeriod
    /\ phase = "probe_outdoor" =>
           /\ phaseAge + StartupDelay + ProbeDuration <= uptime
           /\ uptime < phaseAge + StartupDelay + ProbeDuration + 4 * TimerPeriod
    /\ Autonomous /\ phase = "locked" => StartupDelay + 2 * ProbeDuration <= uptime

(* A score above zero comes from a label specific to its scene.            *)
EvidenceInv == \A mode \in Modes : probeScores[mode] > 0 => mode \in evidence

(* What every callback of the node and every passing of time preserves.    *)
IInv ==
    /\ TypeOK /\ LockInv /\ AgeInv /\ UptimeInv
    /\ LastQueryFitsPhase /\ VerdictFollowsScores /\ EvidenceInv
===============================================================================
