-------------------------- MODULE SceneManager_proofs --------------------------
(***************************************************************************)
(* Proofs about SceneManager, for every value of its constants that meets  *)
(* the assumptions of that module: all timings, all queries, all sets of   *)
(* detection messages, any default mode and any override.                  *)
(***************************************************************************)
EXTENDS SceneManager, SequenceFacts

USE DEF Modes, NoMode, Never, Phases

(* What a locked step, a probe step or a lock may publish.                 *)
LEMMA QueryTypes ==
    \A m \in Modes : ProbeQueries[m] \in AllQueries /\ Queries[m] \in AllQueries
BY DEF AllQueries

(* select_scene_mode gives a scene or the default.                         *)
LEMMA SelectedModeType ==
    \A scores \in [Modes -> 0..MaxScore] : SelectedMode(scores) \in Modes \cup {DefaultSceneMode}
BY DEF SelectedMode

(* The votes of a message are a natural number, and a message that adds to *)
(* a score has an entry that votes (detections_callback's sum).            *)
LEMMA VotesFacts ==
    ASSUME NEW msg, IsMessage(msg), NEW mode
    PROVE  /\ Votes(msg, mode) \in Nat
           /\ Votes(msg, mode) > 0 => \E i \in DOMAIN msg : Vote(msg[i], mode) # 0
<1> DEFINE votes == [i \in DOMAIN msg |-> Vote(msg[i], mode)]
<1>1. votes \in Seq(Nat)
    <2>1. \A i \in DOMAIN msg : Vote(msg[i], mode) \in Nat
        BY DEF IsMessage, Vote
    <2>2. Len(msg) \in Nat /\ DOMAIN msg = 1..Len(msg)
        BY DEF IsMessage
    <2> QED BY <2>1, <2>2
<1> QED BY <1>1, SumOfFacts DEF Votes

(* An entry that votes names an object specific to the scene: the labels   *)
(* of both probes and the neutral ones are ignored (ignored_probe_labels). *)
LEMMA VotesAreEvidence ==
    ASSUME NEW msg, IsMessage(msg), NEW mode \in Modes, Votes(msg, mode) > 0
    PROVE  GivesEvidence(msg, mode)
<1>1. PICK i \in DOMAIN msg : Vote(msg[i], mode) # 0
    BY VotesFacts
<1>2. msg[i].confidence # Unparsable /\ NormalizeLabel(msg[i].label) \in ProbeLabels(mode)
    BY <1>1 DEF Vote
<1>3. Other("indoor") = "outdoor" /\ Other("outdoor") = "indoor"
    BY DEF Other
<1>4. \A label \in ProbeLabels(mode) : SpecificTo(label, mode)
    BY <1>3 DEF ProbeLabels, IgnoredProbeLabels, SharedProbeLabels, SpecificTo
<1> QED BY <1>1, <1>2, <1>4 DEF GivesEvidence

(* The lag of the timer stays below two periods.                           *)
LEMMA LagBound == TypeOK => Lag \in 0 .. (2 * TimerPeriod - 1)
BY TimingAssumption DEF TypeOK, Lag

(* The constructor establishes the invariant.                              *)
LEMMA InitInv == Init => IInv
<1> SUFFICES ASSUME Init PROVE IInv
    OBVIOUS
<1> USE TimingAssumption, ScoreAssumption, ModeAssumption
<1>1. TypeOK
    <2>1. probeScores \in [Modes -> 0..MaxScore]
        BY DEF Init
    <2>2. /\ queryOut \in Seq(AllQueries) /\ Len(queryOut) <= 2
          /\ modeOut \in Seq(Modes \cup {DefaultSceneMode}) /\ Len(modeOut) <= 1
        <3>1. CASE Autonomous
            BY <3>1 DEF Init
        <3>2. CASE ~Autonomous
            <4>1. Queries[SceneOverride] \in AllQueries /\ SceneOverride \in Modes
                BY <3>2, QueryTypes DEF Autonomous
            <4>2. queryOut = <<Queries[SceneOverride]>> /\ modeOut = <<SceneOverride>>
                BY <3>2 DEF Init
            <4> QED BY <4>1, <4>2
        <3> QED BY <3>1, <3>2
    <2>3. lockedSceneMode \in Modes \cup {NoMode, DefaultSceneMode}
        BY DEF Init, Autonomous
    <2>4. phase \in Phases /\ queryAge \in 0..AgeCap \cup {Never}
        BY DEF Init
    <2>5. up \in BOOLEAN /\ timerDue \in BOOLEAN /\ evidence \subseteq Modes
        BY DEF Init
    <2>6. phaseAge \in 0..AgeCap /\ uptime \in 0..AgeCap /\ untilTimer \in 1..TimerPeriod
        BY DEF Init
    <2> QED BY <2>1, <2>2, <2>3, <2>4, <2>5, <2>6 DEF TypeOK
<1>2. LockInv
    BY DEF Init, LockInv, Autonomous
<1>3. AgeInv
    BY DEF Init, AgeInv, Autonomous, Lag, Probing
<1>4. UptimeInv
    BY DEF Init, UptimeInv, Autonomous
<1>5. LastQueryFitsPhase
    BY DEF Init, LastQueryFitsPhase, Autonomous, Probing
<1>6. VerdictFollowsScores
    BY DEF Init, VerdictFollowsScores, Autonomous
<1>7. EvidenceInv
    BY DEF Init, EvidenceInv
<1> QED BY <1>1, <1>2, <1>3, <1>4, <1>5, <1>6, <1>7 DEF IInv

-------------------------------------------------------------------------------
(* Time passes.                                                            *)
LEMMA TickInv == IInv /\ Tick => IInv'
<1> SUFFICES ASSUME IInv, Tick PROVE IInv'
    OBVIOUS
<1> USE TimingAssumption, ModeAssumption
<1>1. TypeOK'
    BY DEF IInv, TypeOK, Tick, Older
<1>2. LockInv'
    BY DEF IInv, LockInv, Tick, Autonomous
<1>3. up => Lag' = Lag + 1
    <2> SUFFICES ASSUME up PROVE Lag' = Lag + 1
        OBVIOUS
    <2>1. untilTimer \in 1..TimerPeriod
        BY DEF IInv, TypeOK
    <2>2. CASE untilTimer = 1
        <3>1. ~timerDue /\ timerDue' /\ untilTimer' = TimerPeriod
            BY <2>2 DEF Tick
        <3> QED BY <2>2, <3>1 DEF Lag
    <2>3. CASE untilTimer # 1
        <3>1. timerDue' = timerDue /\ untilTimer' = untilTimer - 1
            BY <2>3 DEF Tick, IInv, TypeOK
        <3>2. CASE timerDue
            BY <2>1, <3>1, <3>2 DEF Lag
        <3>3. CASE ~timerDue
            BY <2>1, <3>1, <3>3 DEF Lag
        <3> QED BY <3>2, <3>3
    <2> QED BY <2>2, <2>3
<1>4. Lag \in 0 .. (2 * TimerPeriod - 1)
    BY LagBound DEF IInv
<1>5. /\ phaseAge' <= phaseAge + 1
      /\ queryAge # Never => queryAge' # Never /\ queryAge' <= queryAge + 1
    BY DEF IInv, TypeOK, Tick, Older
<1>6. AgeInv'
    <2> SUFFICES ASSUME up' PROVE AgeInv'
        BY DEF AgeInv
    <2>1. up /\ phase' = phase /\ Lag' = Lag + 1 /\ AgeInv
        BY <1>3 DEF Tick, IInv
    <2> QED BY <1>1, <1>4, <1>5, <2>1 DEF IInv, TypeOK, AgeInv, Probing
<1>7. UptimeInv'
    <2>1. phase # "locked" => phaseAge < AgeCap /\ uptime < AgeCap
        BY <1>4 DEF IInv, TypeOK, LockInv, AgeInv, UptimeInv, Probing
    <2>2. phase # "locked" => phaseAge' = phaseAge + 1 /\ uptime' = uptime + 1
        BY <2>1 DEF IInv, TypeOK, Tick, Older
    <2>3. uptime' >= uptime /\ phase' = phase
        BY DEF IInv, TypeOK, Tick, Older
    <2>4. UptimeInv /\ phaseAge \in Nat /\ uptime \in Nat /\ uptime' \in Nat
        BY <1>1 DEF IInv, TypeOK
    <2>5. CASE phase = "locked"
        BY <2>3, <2>4, <2>5 DEF UptimeInv, Autonomous
    <2>6. CASE phase # "locked"
        BY <2>2, <2>3, <2>4, <2>6 DEF UptimeInv, Autonomous
    <2> QED BY <2>5, <2>6
<1>8. LastQueryFitsPhase'
    BY DEF IInv, LastQueryFitsPhase, Tick, Probing, ProbedMode
<1>9. VerdictFollowsScores'
    BY DEF IInv, VerdictFollowsScores, Tick, Autonomous, SelectedMode
<1>10. EvidenceInv'
    BY DEF IInv, EvidenceInv, Tick
<1> QED BY <1>1, <1>2, <1>6, <1>7, <1>8, <1>9, <1>10 DEF IInv

(* A detection message arrives, in whatever phase.                         *)
LEMMA DetectionsInv ==
    ASSUME NEW msg \in Messages, IInv, DetectionsCallback(msg) PROVE IInv'
<1> USE TimingAssumption, ScoreAssumption, ModeAssumption
<1>1. TypeOK'
    <2>1. ProbedMode \in Modes
        BY DEF ProbedMode
    <2>2. probeScores' \in [Modes -> 0..MaxScore]
        BY <2>1, VotesFacts DEF IInv, TypeOK, DetectionsCallback
    <2>3. evidence' \subseteq Modes
        BY <2>1 DEF IInv, TypeOK, DetectionsCallback
    <2> QED BY <2>2, <2>3 DEF IInv, TypeOK, DetectionsCallback
<1>2. LockInv' /\ AgeInv' /\ UptimeInv'
    BY DEF IInv, LockInv, AgeInv, UptimeInv, DetectionsCallback, Autonomous, Lag, Probing
<1>3. LastQueryFitsPhase'
    BY DEF IInv, LastQueryFitsPhase, DetectionsCallback, Probing, ProbedMode
<1>4. VerdictFollowsScores'
    BY DEF IInv, LockInv, VerdictFollowsScores, DetectionsCallback, Probing, Autonomous
<1>5. EvidenceInv'
    <2>1. CASE ~Probing
        BY <2>1 DEF IInv, EvidenceInv, DetectionsCallback
    <2>2. CASE Probing
        <3>1. ProbedMode \in Modes /\ probeScores \in [Modes -> 0..MaxScore]
            BY DEF ProbedMode, IInv, TypeOK
        <3>2. Votes(msg, ProbedMode) \in Nat
            BY VotesFacts
        <3>3. /\ probeScores' = [probeScores EXCEPT ![ProbedMode] = @ + Votes(msg, ProbedMode)]
              /\ evidence \subseteq evidence'
              /\ GivesEvidence(msg, ProbedMode) => ProbedMode \in evidence'
            BY <2>2 DEF DetectionsCallback
        <3>4. Votes(msg, ProbedMode) > 0 => ProbedMode \in evidence'
            BY <3>1, <3>3, VotesAreEvidence
        <3> QED BY <3>1, <3>2, <3>3, <3>4 DEF IInv, EvidenceInv
    <2> QED BY <2>1, <2>2
<1> QED BY <1>1, <1>2, <1>3, <1>4, <1>5 DEF IInv
-------------------------------------------------------------------------------
(* The timer callback: the query it repeats first is at most one.          *)
LEMMA RepeatedType == Repeated \in Seq(AllQueries) /\ Len(Repeated) <= 1
<1>1. ProbeQueries[ProbedMode] \in AllQueries
    BY QueryTypes DEF ProbedMode
<1> QED BY <1>1 DEF Repeated

(* Publishing one more query after at most one keeps the list typed.       *)
LEMMA AppendQuery ==
    ASSUME NEW sent \in Seq(AllQueries), Len(sent) <= 1, NEW q \in AllQueries
    PROVE  /\ Append(sent, q) \in Seq(AllQueries) /\ Len(Append(sent, q)) <= 2
           /\ Append(sent, q) # <<>> /\ Last(Append(sent, q)) = q
BY DEF Last

(* What publish_query does to the state when something is published last.  *)
LEMMA PublishLast ==
    ASSUME NEW sent \in Seq(AllQueries), Len(sent) <= 1, NEW q \in AllQueries,
           PublishQueries(Append(sent, q))
    PROVE  /\ queryOut' \in Seq(AllQueries) /\ Len(queryOut') <= 2
           /\ queryAge' = 0 /\ lastQuery' = q
BY AppendQuery DEF PublishQueries, Announce

(* start_probe, called at the end of the startup or of the first probe.    *)
LEMMA StartProbeInv ==
    ASSUME IInv, NEW mode \in Modes, NEW sent \in Seq(AllQueries), Len(sent) <= 1,
           up, lockedSceneMode = NoMode,
           StartProbe(mode, sent), timerDue' = FALSE,
           UNCHANGED <<probeScores, untilTimer, uptime, evidence>>,
           /\ mode = "indoor" => /\ StartupDelay <= uptime
                                 /\ uptime < StartupDelay + 2 * TimerPeriod
           /\ mode = "outdoor" =>
                  /\ StartupDelay + ProbeDuration <= uptime
                  /\ uptime < StartupDelay + ProbeDuration + 4 * TimerPeriod
    PROVE  IInv'
<1> USE TimingAssumption, ModeAssumption
<1>1. /\ queryOut' \in Seq(AllQueries) /\ Len(queryOut') <= 2
      /\ queryAge' = 0 /\ lastQuery' = ProbeQueries[mode]
    BY QueryTypes, PublishLast DEF StartProbe, ThenPublish
<1>2. /\ phase' = IF mode = "indoor" THEN "probe_indoor" ELSE "probe_outdoor"
      /\ phaseAge' = 0 /\ modeOut' = <<>> /\ up' /\ lockedSceneMode' = NoMode
    BY DEF StartProbe, ProbePhase, RestartPhaseClock
<1>3. TypeOK'
    <2>1. modeOut' \in Seq(Modes \cup {DefaultSceneMode}) /\ Len(modeOut') <= 1
        BY <1>2
    <2>2. phase' \in Phases /\ timerDue' \in BOOLEAN /\ up' \in BOOLEAN
        BY <1>2
    <2> QED BY <1>1, <1>2, <2>1, <2>2 DEF IInv, TypeOK
<1>4. LockInv'
    BY <1>2 DEF IInv, LockInv, Autonomous
<1>5. AgeInv'
    <2>1. Lag' = TimerPeriod - untilTimer /\ untilTimer \in 1..TimerPeriod
        BY DEF IInv, TypeOK, Lag
    <2>2. /\ phaseAge' <= ProbeDuration + Lag'
          /\ queryAge' # Never /\ queryAge' <= ProbePublishPeriod + Lag'
        BY <1>1, <1>2, <2>1
    <2>3. phase' \in {"probe_indoor", "probe_outdoor"}
        BY <1>2
    <2> QED BY <2>2, <2>3 DEF AgeInv, Probing
<1>6. UptimeInv'
    BY <1>2 DEF IInv, TypeOK, UptimeInv, Autonomous
<1>7. LastQueryFitsPhase'
    BY <1>1, <1>2 DEF LastQueryFitsPhase, Probing, ProbedMode
<1>8. VerdictFollowsScores'
    BY <1>2 DEF VerdictFollowsScores
<1>9. EvidenceInv'
    BY DEF IInv, EvidenceInv
<1> QED BY <1>3, <1>4, <1>5, <1>6, <1>7, <1>8, <1>9 DEF IInv

(* A timer callback that publishes at most one query and moves no phase.   *)
LEMMA StayInv ==
    ASSUME IInv, up, NEW sent \in Seq(AllQueries), Len(sent) <= 1,
           PublishQueries(sent), timerDue' = FALSE, timerDue,
           UNCHANGED <<up, phase, lockedSceneMode, phaseAge, probeScores, untilTimer,
                       uptime, evidence>>,
           modeOut' \in Seq(Modes \cup {DefaultSceneMode}), Len(modeOut') <= 1,
           phase = "startup" => sent = <<>> /\ phaseAge < StartupDelay,
           Probing => /\ phaseAge < ProbeDuration
                      /\ sent = <<>> => queryAge < ProbePublishPeriod
                      /\ sent # <<>> => sent = <<ProbeQueries[ProbedMode]>>,
           phase = "locked" => /\ sent = <<>> => queryAge < FinalPublishPeriod
                               /\ sent # <<>> => sent = <<Queries[lockedSceneMode]>>
    PROVE  IInv'
<1> USE TimingAssumption, ModeAssumption
<1>1. TypeOK'
    <2>1. queryAge' \in 0..AgeCap \cup {Never}
        BY DEF IInv, TypeOK, PublishQueries
    <2>2. queryOut' \in Seq(AllQueries) /\ Len(queryOut') <= 2
        BY DEF PublishQueries
    <2> QED BY <2>1, <2>2 DEF IInv, TypeOK
<1>2. LockInv' /\ UptimeInv' /\ VerdictFollowsScores'
    BY DEF IInv, LockInv, UptimeInv, VerdictFollowsScores, Autonomous, SelectedMode
<1>3. AgeInv'
    <2>1. Lag' = TimerPeriod - untilTimer /\ untilTimer \in 1..TimerPeriod
        BY DEF IInv, TypeOK, Lag
    <2>2. phase # "startup" => queryAge # Never
        BY DEF IInv, TypeOK, AgeInv, Probing
    <2>3. queryAge' = IF sent = <<>> THEN queryAge ELSE 0
        BY DEF PublishQueries
    <2>4. /\ phaseAge \in Nat /\ phaseAge' = phaseAge /\ phase' = phase
          /\ queryAge \in Nat \cup {Never}
        BY DEF IInv, TypeOK
    <2>5. phase = "startup" => phaseAge' <= StartupDelay + Lag'
        BY <2>1, <2>4
    <2>6. Probing => /\ phaseAge' <= ProbeDuration + Lag'
                     /\ queryAge' # Never
                     /\ queryAge' <= ProbePublishPeriod + Lag'
        BY <2>1, <2>2, <2>3, <2>4 DEF Probing
    <2>7. phase = "locked" => /\ queryAge' # Never
                              /\ queryAge' <= FinalPublishPeriod + Lag'
        BY <2>1, <2>2, <2>3, <2>4
    <2> QED BY <2>4, <2>5, <2>6, <2>7 DEF AgeInv, Probing
<1>4. LastQueryFitsPhase'
    <2>1. CASE sent = <<>>
        BY <2>1 DEF IInv, LastQueryFitsPhase, PublishQueries, Announce, Probing, ProbedMode
    <2>2. CASE sent # <<>>
        <3>1. lastQuery' = Last(sent)
            BY <2>2 DEF PublishQueries, Announce
        <3> QED BY <2>2, <3>1 DEF IInv, LastQueryFitsPhase, Last, Probing, ProbedMode
    <2> QED BY <2>1, <2>2
<1>5. EvidenceInv'
    BY DEF IInv, EvidenceInv
<1> QED BY <1>1, <1>2, <1>3, <1>4, <1>5 DEF IInv

(* The verdict, whether or not the mode has a query.                       *)
LEMMA SelectInv ==
    ASSUME IInv, up, NEW sent \in Seq(AllQueries), Len(sent) <= 1, Autonomous,
           SelectSceneMode(sent), timerDue' = FALSE,
           UNCHANGED <<probeScores, untilTimer, uptime, evidence>>,
           StartupDelay + 2 * ProbeDuration <= uptime
    PROVE  IInv'
<1> USE TimingAssumption, ModeAssumption
<1> DEFINE mode == SelectedMode(probeScores)
<1>1. mode \in Modes \cup {DefaultSceneMode} /\ mode # NoMode
    BY SelectedModeType DEF IInv, TypeOK
<1>2. /\ lockedSceneMode' = mode /\ phase' = "locked" /\ phaseAge' = 0
      /\ modeOut' = <<mode>>
    BY DEF SelectSceneMode, LockSceneMode, RestartPhaseClock
<1>5. /\ up' \in BOOLEAN
      /\ queryOut' \in Seq(AllQueries) /\ Len(queryOut') <= 2
      /\ queryAge' \in {0, Never}
      /\ up' => mode \in Modes /\ queryAge' = 0 /\ lastQuery' = Queries[mode]
    <2>1. CASE mode \in Modes
        <3>1. up' = TRUE /\ PublishQueries(Append(sent, Queries[mode]))
            BY <2>1 DEF SelectSceneMode, LockSceneMode, LookupSucceeds, ThenPublish
        <3>2. /\ queryOut' \in Seq(AllQueries) /\ Len(queryOut') <= 2
              /\ queryAge' = 0 /\ lastQuery' = Queries[mode]
            BY <2>1, <3>1, QueryTypes, PublishLast
        <3> QED BY <2>1, <3>1, <3>2 DEF IInv, TypeOK
    <2>2. CASE mode \notin Modes
        <3>1. mode \notin DOMAIN Queries
            BY <2>2
        <3>2. queryOut' = sent /\ queryAge' = Never
            BY <3>1 DEF SelectSceneMode, LockSceneMode
        <3>3. up' = (mode \in DOMAIN Queries)
            BY DEF SelectSceneMode, LockSceneMode, LookupSucceeds
        <3>4. ~up' /\ up' \in BOOLEAN
            <4>1. (mode \in DOMAIN Queries) = FALSE
                BY <3>1
            <4>2. up' = FALSE
                BY <3>3, <4>1, Zenon
            <4> QED BY <4>2
        <3>5. Len(queryOut') <= 2
            BY <3>2
        <3> QED BY <3>2, <3>4, <3>5
    <2> QED BY <2>1, <2>2
<1>6. TypeOK'
    <2>1. modeOut' \in Seq(Modes \cup {DefaultSceneMode}) /\ Len(modeOut') <= 1
        BY <1>1, <1>2
    <2>2. queryAge' \in 0..AgeCap \cup {Never} /\ phaseAge' \in 0..AgeCap
        BY <1>2, <1>5
    <2> QED BY <1>1, <1>2, <1>5, <2>1, <2>2 DEF IInv, TypeOK
<1>7. LockInv'
    BY <1>1, <1>2, <1>5 DEF LockInv
<1>8. AgeInv'
    <2>1. Lag' = TimerPeriod - untilTimer /\ untilTimer \in 1..TimerPeriod
        BY DEF IInv, TypeOK, Lag
    <2>2. up' => queryAge' # Never /\ queryAge' <= FinalPublishPeriod + Lag'
        BY <1>5, <2>1
    <2> QED BY <1>2, <2>2 DEF AgeInv, Probing
<1>9. UptimeInv'
    BY <1>2 DEF UptimeInv
<1>10. LastQueryFitsPhase'
    BY <1>2, <1>5 DEF LastQueryFitsPhase, Probing
<1>11. VerdictFollowsScores'
    <2>1. lockedSceneMode' = SelectedMode(probeScores')
        BY <1>2
    <2> QED BY <2>1 DEF VerdictFollowsScores, SelectedMode
<1>12. EvidenceInv'
    BY DEF IInv, EvidenceInv
<1> QED BY <1>6, <1>7, <1>8, <1>9, <1>10, <1>11, <1>12 DEF IInv

(* Every branch of timer_callback.                                         *)
LEMMA TimerInv == IInv /\ TimerCallback => IInv'
<1> SUFFICES ASSUME IInv, TimerCallback PROVE IInv'
    OBVIOUS
<1> USE TimingAssumption, ModeAssumption
<1>1. /\ up /\ timerDue /\ timerDue' = FALSE
      /\ UNCHANGED <<probeScores, untilTimer, uptime, evidence>>
    BY DEF TimerCallback
<1>2. Lag \in 0 .. (2 * TimerPeriod - 1)
    BY LagBound DEF IInv
<1>3. /\ phaseAge \in Nat /\ uptime \in Nat /\ queryAge \in Nat \cup {Never}
      /\ lockedSceneMode # NoMode => phase = "locked" /\ lockedSceneMode \in Modes
      /\ lockedSceneMode = NoMode => Autonomous /\ phase # "locked"
    BY <1>1 DEF IInv, TypeOK, LockInv
<1>4. CASE LockedStep
    <2>1. lockedSceneMode \in Modes /\ phase = "locked"
        BY <1>3, <1>4 DEF LockedStep
    <2>2. UNCHANGED <<up, phase, lockedSceneMode, phaseAge>>
        BY <1>4 DEF LockedStep
    <2>3. CASE ShouldPublishQuery(FinalPublishPeriod)
        <3> DEFINE sent == <<Queries[lockedSceneMode]>>
        <3>1. PublishQueries(sent) /\ modeOut' = <<lockedSceneMode>>
            BY <1>4, <2>3 DEF LockedStep, LockedQuery
        <3>2. sent \in Seq(AllQueries) /\ Len(sent) <= 1 /\ sent # <<>>
            BY <2>1, QueryTypes
        <3>3. modeOut' \in Seq(Modes \cup {DefaultSceneMode}) /\ Len(modeOut') <= 1
            BY <2>1, <3>1
        <3> QED BY <1>1, <2>1, <2>2, <3>1, <3>2, <3>3, StayInv DEF Probing
    <2>4. CASE ~ShouldPublishQuery(FinalPublishPeriod)
        <3>1. PublishQueries(<<>>) /\ modeOut' = <<>>
            BY <1>4, <2>4 DEF LockedStep
        <3>2. queryAge < FinalPublishPeriod
            BY <1>3, <2>4 DEF ShouldPublishQuery
        <3>3. <<>> \in Seq(AllQueries) /\ Len(<<>>) <= 1
            OBVIOUS
        <3>4. modeOut' \in Seq(Modes \cup {DefaultSceneMode}) /\ Len(modeOut') <= 1
            BY <3>1
        <3> QED BY <1>1, <2>1, <2>2, <3>1, <3>2, <3>3, <3>4, StayInv DEF Probing
    <2> QED BY <2>3, <2>4
<1>5. CASE StartupStep
    <2>1. lockedSceneMode = NoMode /\ phase = "startup"
        BY <1>5 DEF StartupStep
    <2>2. <<>> \in Seq(AllQueries) /\ Len(<<>>) <= 1
        OBVIOUS
    <2>3. CASE phaseAge >= StartupDelay
        <3>1. StartProbe("indoor", <<>>)
            BY <1>5, <2>3 DEF StartupStep
        <3>2. StartupDelay <= uptime /\ uptime < StartupDelay + 2 * TimerPeriod
            BY <1>1, <1>2, <1>3, <2>1, <2>3 DEF IInv, AgeInv, UptimeInv
        <3> QED BY <1>1, <2>1, <2>2, <3>1, <3>2, StartProbeInv
    <2>4. CASE ~(phaseAge >= StartupDelay)
        <3>1. /\ PublishQueries(<<>>) /\ modeOut' = <<>>
              /\ UNCHANGED <<up, phase, lockedSceneMode, phaseAge>>
            BY <1>5, <2>4 DEF StartupStep
        <3>2. phaseAge < StartupDelay
            BY <1>3, <2>4
        <3>3. modeOut' \in Seq(Modes \cup {DefaultSceneMode}) /\ Len(modeOut') <= 1
            BY <3>1
        <3> QED BY <1>1, <2>1, <2>2, <3>1, <3>2, <3>3, StayInv DEF Probing
    <2> QED BY <2>3, <2>4
<1>6. CASE ProbeStep
    <2>1. lockedSceneMode = NoMode /\ Probing
        BY <1>6 DEF ProbeStep
    <2>2. phaseAge <= ProbeDuration + 2 * TimerPeriod - 1
        BY <1>1, <1>2, <1>3, <2>1 DEF IInv, AgeInv
    <2>3. CASE /\ phaseAge < ProbeDuration
               /\ PublishQueries(Repeated) /\ modeOut' = <<>>
               /\ UNCHANGED <<up, phase, lockedSceneMode, phaseAge>>
        <3>1. Repeated = <<>> => queryAge < ProbePublishPeriod
            BY <1>3 DEF Repeated, ShouldPublishQuery
        <3>2. Repeated # <<>> => Repeated = <<ProbeQueries[ProbedMode]>>
            BY DEF Repeated
        <3>3. modeOut' \in Seq(Modes \cup {DefaultSceneMode}) /\ Len(modeOut') <= 1
            BY <2>3
        <3>4. phase # "startup" /\ phase # "locked"
            BY <2>1 DEF Probing
        <3> QED BY <1>1, <2>1, <2>3, <3>1, <3>2, <3>3, <3>4, RepeatedType, StayInv
    <2>4. CASE /\ phaseAge >= ProbeDuration /\ phase = "probe_indoor"
               /\ StartProbe("outdoor", Repeated)
        <3>1. /\ StartupDelay + ProbeDuration <= uptime
              /\ uptime < StartupDelay + ProbeDuration + 4 * TimerPeriod
            BY <1>3, <2>2, <2>4 DEF IInv, UptimeInv
        <3> QED BY <1>1, <2>1, <2>4, <3>1, RepeatedType, StartProbeInv
    <2>5. CASE /\ phaseAge >= ProbeDuration /\ phase = "probe_outdoor"
               /\ SelectSceneMode(Repeated)
        <3>1. StartupDelay + 2 * ProbeDuration <= uptime
            BY <1>3, <2>5 DEF IInv, UptimeInv
        <3> QED BY <1>1, <1>3, <2>1, <2>5, <3>1, RepeatedType, SelectInv
    <2>6. phaseAge \in Nat => (~ProbeOver <=> phaseAge < ProbeDuration)
        BY DEF ProbeOver
    <2> QED BY <1>3, <1>6, <2>3, <2>4, <2>5, <2>6 DEF ProbeStep, ProbeOver
<1> QED BY <1>4, <1>5, <1>6 DEF TimerCallback

-------------------------------------------------------------------------------
(* Every step preserves the invariant.                                     *)
LEMMA NextInv == IInv /\ [Next]_vars => IInv'
<1> SUFFICES ASSUME IInv, [Next]_vars PROVE IInv'
    OBVIOUS
<1>1. CASE UNCHANGED vars
    BY <1>1 DEF vars, IInv, TypeOK, LockInv, AgeInv, UptimeInv, LastQueryFitsPhase,
       VerdictFollowsScores, EvidenceInv, Lag, Probing, ProbedMode, Autonomous, SelectedMode
<1>2. CASE Next
    BY <1>2, TickInv, TimerInv, DetectionsInv DEF Next
<1> QED BY <1>1, <1>2

(* The safety part of the specification.                                   *)
Safety == Init /\ [][Next]_vars

LEMMA Always == Safety => []IInv
BY InitInv, NextInv, PTL DEF Safety

(* The invariant holds in every reachable state, for all timings, queries  *)
(* and messages, and for the override (timer_callback,                     *)
(* detections_callback).                                                   *)
THEOREM Invariance == Spec => []IInv
BY Always, PTL DEF Spec, Safety

(* What the invariant says of a state.                                     *)
LEMMA SafeStates ==
    IInv => /\ TypeOK /\ VerdictFollowsScores /\ VerdictNeedsEvidence /\ VerdictOnSchedule
            /\ LastQueryFitsPhase /\ QueryStaysFresh /\ NoBogusLockSurvives
<1>1. IInv => VerdictNeedsEvidence
    <2> SUFFICES ASSUME IInv, Autonomous, MinScoreMargin > 0, lockedSceneMode \in Modes,
                        lockedSceneMode # DefaultSceneMode
                 PROVE  lockedSceneMode \in evidence
        BY DEF VerdictNeedsEvidence
    <2>1. lockedSceneMode = SelectedMode(probeScores)
        BY DEF IInv, VerdictFollowsScores
    <2>2. probeScores["indoor"] \in Nat /\ probeScores["outdoor"] \in Nat
        BY DEF IInv, TypeOK
    <2>3. probeScores[lockedSceneMode] > 0
        BY <2>1, <2>2, ScoreAssumption DEF SelectedMode, Abs
    <2> QED BY <2>3 DEF IInv, EvidenceInv
<1>2. IInv => VerdictOnSchedule
    <2> SUFFICES ASSUME IInv, Autonomous PROVE VerdictOnSchedule
        BY DEF VerdictOnSchedule
    <2>1. Lag \in 0 .. (2 * TimerPeriod - 1)
        BY LagBound DEF IInv
    <2>2. CASE lockedSceneMode = NoMode
        <3>1. up /\ phase \in {"startup", "probe_indoor", "probe_outdoor"}
            BY <2>2 DEF IInv, TypeOK, LockInv
        <3>2. phaseAge \in Nat /\ uptime \in Nat
            BY DEF IInv, TypeOK
        <3> QED BY <2>1, <2>2, <3>1, <3>2, TimingAssumption
                DEF IInv, AgeInv, UptimeInv, VerdictOnSchedule, Probing
    <2>3. CASE lockedSceneMode # NoMode
        BY <2>3 DEF IInv, TypeOK, LockInv, UptimeInv, VerdictOnSchedule
    <2> QED BY <2>2, <2>3
<1>3. IInv => QueryStaysFresh
    <2> SUFFICES ASSUME IInv, up, phase # "startup" PROVE QueryStaysFresh
        BY DEF QueryStaysFresh
    <2>1. Lag \in 0 .. (2 * TimerPeriod - 1)
        BY LagBound DEF IInv
    <2>2. queryAge \in Nat \cup {Never} /\ phase \in Phases
        BY DEF IInv, TypeOK
    <2> QED BY <2>1, <2>2, TimingAssumption DEF IInv, AgeInv, Probing, QueryStaysFresh
<1>4. IInv => NoBogusLockSurvives
    BY DEF IInv, LockInv, NoBogusLockSurvives
<1> QED BY <1>1, <1>2, <1>3, <1>4 DEF IInv
(* Every variable keeps its type: the scores, the ages and the outputs of  *)
(* every callback stay in their ranges.                                    *)
THEOREM TypeCorrect == Spec => []TypeOK
BY SafeStates, Invariance, PTL

(* Whatever arrives after the verdict, the locked scene is the one the     *)
(* scores call for.                                                        *)
THEOREM VerdictIsTheScores == Spec => []VerdictFollowsScores
BY SafeStates, Invariance, PTL

(* A scene other than the default is only locked after its own probe has   *)
(* met an object specific to it: people, neutral labels, labels both       *)
(* probes ask for and unreadable entries never decide.                     *)
THEOREM VerdictEvidence == Spec => []VerdictNeedsEvidence
BY SafeStates, Invariance, PTL

(* The verdict falls after the startup delay and two full probes, and less *)
(* than six timer periods later, for every choice of the timings and every *)
(* delay of the executor below one period.                                 *)
THEOREM VerdictTiming == Spec => []VerdictOnSchedule
BY SafeStates, Invariance, PTL

(* NanoOWL is never left with the query of an earlier phase.               *)
THEOREM LastQuery == Spec => []LastQueryFitsPhase
BY SafeStates, Invariance, PTL

(* The query of the phase is repeated within its period and two timer      *)
(* periods.                                                                *)
THEOREM QueryRefresh == Spec => []QueryStaysFresh
BY SafeStates, Invariance, PTL

(* No running manager holds a lock on a mode that has no query.            *)
THEOREM NoBogusLock == Spec => []NoBogusLockSurvives
BY SafeStates, Invariance, PTL

(* No step undoes a lock.                                                  *)
LEMMA LockAlways == Safety => LockIsFinal
<1> DEFINE Final == lockedSceneMode # NoMode =>
        /\ lockedSceneMode' = lockedSceneMode
        /\ \A i \in DOMAIN queryOut' : queryOut'[i] = Queries[lockedSceneMode]
        /\ \A i \in DOMAIN modeOut' : modeOut'[i] = lockedSceneMode
<1>1. IInv /\ [Next]_vars => [Final]_vars
    <2> SUFFICES ASSUME IInv, Next, lockedSceneMode # NoMode PROVE Final
        OBVIOUS
    <2>1. CASE Tick
        BY <2>1 DEF Tick
    <2>2. CASE \E msg \in Messages : DetectionsCallback(msg)
        BY <2>2 DEF DetectionsCallback
    <2>3. CASE TimerCallback
        <3>1. LockedStep
            BY <2>3 DEF TimerCallback, StartupStep, ProbeStep
        <3> QED BY <3>1 DEF LockedStep, LockedQuery, PublishQueries
    <2> QED BY <2>1, <2>2, <2>3 DEF Next
<1> QED BY <1>1, Always, PTL DEF Safety, LockIsFinal

(* The verdict is final: no step of a locked manager changes the scene, or *)
(* publishes a query or a mode of another one.                             *)
THEOREM LockFinality == Spec => LockIsFinal
BY LockAlways, PTL DEF Spec, Safety

-------------------------------------------------------------------------------
(* The whole loop: the manager, the topics and NanoOWL.                    *)
CONSTANTS InitialQuery, ImageBoxes, Scores, MaxDetections, Depth, ReplyDepth

VARIABLES owl, queryQueue, imagePending, query, queryText, textEncodings, processingImage,
          usedEncodings, legacyOut, found, lastReceived, answerQueue, modeQueue, sceneMode, linked

Loop == INSTANCE ScenePipeline

(* What NanoOWL can answer: entries named for a text of one of the queries *)
(* or for an index, as listener_callback writes them.                      *)
Texts == {<<>>} \cup {Loop!NanoOwl!QueryTexts(q) : q \in AllQueries \cup {InitialQuery}}
AnswerLabels == {<<"index">>} \cup UNION {{text[i] : i \in DOMAIN text} : text \in Texts}
AnswerEntries == [label : AnswerLabels, box : ImageBoxes, confidence : Scores]
Answers == BoundedSeq(AnswerEntries, MaxDetections)

(* The manager is specified for these messages at least.                   *)
AnswersAreMessages ==
    /\ Answers \subseteq Messages /\ MaxDetections \in Nat
    /\ Depth \in Nat \ {0} /\ ReplyDepth \in Nat \ {0}

(* NanoOWL works with the texts of a query it was sent, and the buffer of  *)
(* the manager holds answers.                                              *)
AnswersInv ==
    /\ queryQueue \in Seq(AllQueries)
    /\ queryText \in Texts /\ textEncodings \in Texts /\ usedEncodings \in Texts
    /\ legacyOut \in Seq(Answers)
    /\ answerQueue \in Seq([entries : Answers, asked : Texts])

(* The operators are the same in the nodes and in the loop.                *)
LEMMA SameTopics ==
    /\ \A queue, sent, hears, depth :
           /\ Loop!Deliver(queue, sent, hears, depth) = Deliver(queue, sent, hears, depth)
           /\ Loop!NanoOwl!Deliver(queue, sent, hears, depth) = Deliver(queue, sent, hears, depth)
    /\ \A S, n : Loop!NanoOwl!BoundedSeq(S, n) = BoundedSeq(S, n)
    /\ Loop!Manager!AllQueries = AllQueries
<1>1. \A queue, sent, hears, depth :
          Loop!Deliver(queue, sent, hears, depth) = Deliver(queue, sent, hears, depth)
    BY DEF Deliver, KeepLast, Loop!Deliver, Loop!KeepLast
<1>2. \A queue, sent, hears, depth :
          Loop!NanoOwl!Deliver(queue, sent, hears, depth) = Deliver(queue, sent, hears, depth)
    BY DEF Deliver, KeepLast, Loop!NanoOwl!Deliver, Loop!NanoOwl!KeepLast
<1>3. \A S, n : Loop!NanoOwl!BoundedSeq(S, n) = BoundedSeq(S, n)
    BY DEF BoundedSeq, SeqOf, Loop!NanoOwl!BoundedSeq, Loop!NanoOwl!SeqOf
<1>4. Loop!Manager!AllQueries = AllQueries
    BY DEF AllQueries, Loop!Manager!AllQueries, Loop!Manager!Modes
<1> QED BY <1>1, <1>2, <1>3, <1>4

LEMMA SameLabels ==
    /\ \A label : Loop!Manager!NormalizeLabel(label) = NormalizeLabel(label)
    /\ \A q : Loop!Manager!ParseLabelSet(q) = ParseLabelSet(q)
    /\ \A mode : Loop!Manager!ProbeLabels(mode) = ProbeLabels(mode)
<1>1. \A label : Loop!Manager!NormalizeLabel(label) = NormalizeLabel(label)
    BY DEF NormalizeLabel, Articles, Loop!Manager!NormalizeLabel, Loop!Manager!Articles
<1>2. \A q : Loop!Manager!ParseLabelSet(q) = ParseLabelSet(q)
    BY <1>1 DEF ParseLabelSet, Loop!Manager!ParseLabelSet
<1>3. \A mode : Loop!Manager!ProbeLabels(mode) = ProbeLabels(mode)
    BY <1>2 DEF ProbeLabels, IgnoredProbeLabels, SharedProbeLabels, Loop!Manager!ProbeLabels,
       Loop!Manager!IgnoredProbeLabels, Loop!Manager!SharedProbeLabels
<1> QED BY <1>1, <1>2, <1>3

LEMMA SameVotes ==
    ASSUME NEW msg, NEW mode
    PROVE  /\ Loop!Manager!Votes(msg, mode) = Votes(msg, mode)
           /\ Loop!Manager!GivesEvidence(msg, mode) = GivesEvidence(msg, mode)
<1>1. \A entry : Loop!Manager!Vote(entry, mode) = Vote(entry, mode)
    BY SameLabels DEF Vote, Unparsable, Loop!Manager!Vote, Loop!Manager!Unparsable
<1>2. \A values : Loop!Manager!SumOf(values) = SumOf(values)
    BY DEF SumOf, Loop!Manager!SumOf
<1>3. Loop!Manager!Votes(msg, mode) = Votes(msg, mode)
    BY <1>1, <1>2 DEF Votes, Loop!Manager!Votes
<1>4. Loop!Manager!Other(mode) = Other(mode)
    BY DEF Other, Loop!Manager!Other, Loop!Manager!Modes
<1>5. \A label : Loop!Manager!SpecificTo(label, mode) = SpecificTo(label, mode)
    BY <1>4, SameLabels DEF SpecificTo, Loop!Manager!SpecificTo
<1>6. Loop!Manager!GivesEvidence(msg, mode) = GivesEvidence(msg, mode)
    BY <1>5, SameLabels DEF GivesEvidence, Unparsable, Loop!Manager!GivesEvidence,
       Loop!Manager!Unparsable
<1> QED BY <1>3, <1>6

(* The callbacks of the manager in the loop are those of the manager.      *)
LEMMA SameInit == Loop!Manager!Init => Init
BY DEF Init, Autonomous, NoQuery, Loop!Manager!Init, Loop!Manager!Autonomous, Loop!Manager!Modes,
       Loop!Manager!NoMode, Loop!Manager!Never, Loop!Manager!NoQuery

LEMMA SameTick == Loop!Manager!Tick => Tick
BY DEF Tick, Older, Loop!Manager!Tick, Loop!Manager!Older, Loop!Manager!Never

LEMMA SameDetections == \A msg : Loop!Manager!DetectionsCallback(msg) => DetectionsCallback(msg)
<1> SUFFICES ASSUME NEW msg, Loop!Manager!DetectionsCallback(msg) PROVE DetectionsCallback(msg)
    OBVIOUS
<1>1. Loop!Manager!Probing = Probing /\ Loop!Manager!ProbedMode = ProbedMode
    BY DEF Probing, ProbedMode, Loop!Manager!Probing, Loop!Manager!ProbedMode
<1>2. /\ Loop!Manager!Votes(msg, ProbedMode) = Votes(msg, ProbedMode)
      /\ Loop!Manager!GivesEvidence(msg, ProbedMode) = GivesEvidence(msg, ProbedMode)
    BY SameVotes
<1> QED BY <1>1, <1>2 DEF DetectionsCallback, Loop!Manager!DetectionsCallback

LEMMA SameTimer == Loop!Manager!TimerCallback => TimerCallback
<1> SUFFICES ASSUME Loop!Manager!TimerCallback PROVE TimerCallback
    OBVIOUS
<1>0. \A sent : Loop!Manager!Last(sent) = Last(sent)
    BY DEF Last, Loop!Manager!Last
<1>1. \A sent : Loop!Manager!PublishQueries(sent) => PublishQueries(sent)
    BY <1>0 DEF PublishQueries, Announce, Loop!Manager!PublishQueries, Loop!Manager!Announce
<1>2. \A period : Loop!Manager!ShouldPublishQuery(period) = ShouldPublishQuery(period)
    BY DEF ShouldPublishQuery, Loop!Manager!ShouldPublishQuery, Loop!Manager!Never
<1>3. /\ Loop!Manager!Probing = Probing /\ Loop!Manager!ProbeOver = ProbeOver
      /\ Loop!Manager!Repeated = Repeated
    BY <1>2 DEF Probing, ProbeOver, Repeated, ProbedMode, Loop!Manager!Probing,
       Loop!Manager!ProbeOver, Loop!Manager!Repeated, Loop!Manager!ProbedMode
<1>4. \A mode, sent : Loop!Manager!StartProbe(mode, sent) => StartProbe(mode, sent)
    BY <1>1 DEF StartProbe, ProbePhase, RestartPhaseClock, ThenPublish, Loop!Manager!StartProbe,
       Loop!Manager!ProbePhase, Loop!Manager!RestartPhaseClock, Loop!Manager!ThenPublish
<1>5. \A mode, sent : Loop!Manager!LockSceneMode(mode, sent) => LockSceneMode(mode, sent)
    <2> SUFFICES ASSUME NEW mode, NEW sent, Loop!Manager!LockSceneMode(mode, sent)
                 PROVE  LockSceneMode(mode, sent)
        OBVIOUS
    <2>1. /\ lockedSceneMode' = mode /\ phase' = "locked" /\ RestartPhaseClock /\ modeOut' = <<mode>>
          /\ up' = LookupSucceeds(mode)
        BY Zenon DEF LookupSucceeds, RestartPhaseClock, Loop!Manager!LockSceneMode,
           Loop!Manager!LookupSucceeds, Loop!Manager!RestartPhaseClock
    <2>2. CASE mode \in DOMAIN Queries
        <3>1. ThenPublish(sent, Queries[mode])
            BY <1>1, <2>2 DEF ThenPublish, Loop!Manager!LockSceneMode, Loop!Manager!ThenPublish
        <3> QED BY <2>1, <2>2, <3>1, Zenon DEF LockSceneMode
    <2>3. CASE mode \notin DOMAIN Queries
        <3>1. queryOut' = sent /\ queryAge' = Never /\ Announce(sent)
            BY <1>0, <2>3 DEF Announce, Loop!Manager!LockSceneMode, Loop!Manager!Announce,
               Loop!Manager!Never
        <3> QED BY <2>1, <2>3, <3>1, Zenon DEF LockSceneMode
    <2> QED BY <2>2, <2>3
<1>6. Loop!Manager!SelectedMode(probeScores) = SelectedMode(probeScores)
    BY DEF SelectedMode, Abs, Loop!Manager!SelectedMode, Loop!Manager!Abs
<1>7. \A sent : Loop!Manager!SelectSceneMode(sent) => SelectSceneMode(sent)
    BY <1>5, <1>6 DEF SelectSceneMode, Loop!Manager!SelectSceneMode
<1>8. Loop!Manager!LockedStep => LockedStep
    BY <1>1, <1>2 DEF LockedStep, LockedQuery, Loop!Manager!LockedStep, Loop!Manager!LockedQuery,
       Loop!Manager!NoMode
<1>9. Loop!Manager!StartupStep => StartupStep
    BY <1>1, <1>4 DEF StartupStep, Loop!Manager!StartupStep, Loop!Manager!NoMode
<1>10. Loop!Manager!ProbeStep => ProbeStep
    BY <1>1, <1>3, <1>4, <1>7 DEF ProbeStep, Loop!Manager!ProbeStep, Loop!Manager!NoMode
<1> QED BY <1>8, <1>9, <1>10 DEF TimerCallback, Loop!Manager!TimerCallback

-------------------------------------------------------------------------------
(* What listener_callback publishes is an answer.                          *)
LEMMA AnswersWritten ==
    ASSUME AnswersAreMessages, AnswersInv, Loop!NanoOwl!ListenerFinish
    PROVE  legacyOut' \in Seq(Answers)
<1>1. PICK labels \in BoundedSeq(DOMAIN usedEncodings, MaxDetections) :
          \E boxes \in [DOMAIN labels -> ImageBoxes], score \in Scores :
             legacyOut' = Loop!NanoOwl!LegacyMessages(labels, [i \in DOMAIN labels |->
                 [label |-> Loop!NanoOwl!ClassName(labels[i]), box |-> boxes[i],
                  confidence |-> score]])
    BY SameTopics DEF Loop!NanoOwl!ListenerFinish
<1>2. PICK boxes \in [DOMAIN labels -> ImageBoxes], score \in Scores :
          legacyOut' = Loop!NanoOwl!LegacyMessages(labels, [i \in DOMAIN labels |->
              [label |-> Loop!NanoOwl!ClassName(labels[i]), box |-> boxes[i], confidence |-> score]])
    BY <1>1
<1> DEFINE answer == [i \in DOMAIN labels |->
               [label |-> Loop!NanoOwl!ClassName(labels[i]), box |-> boxes[i], confidence |-> score]]
<1>3. legacyOut' = <<answer>>
    BY <1>2 DEF Loop!NanoOwl!LegacyMessages
<1>4. labels \in Seq(DOMAIN usedEncodings) /\ Len(labels) <= MaxDetections
    BY BoundedSeqFacts DEF AnswersAreMessages
<1>5. \A i \in DOMAIN labels : Loop!NanoOwl!ClassName(labels[i]) \in AnswerLabels
    BY DEF Loop!NanoOwl!ClassName, AnswersInv, AnswerLabels
<1>6. \A i \in DOMAIN labels : answer[i] \in AnswerEntries
    BY <1>5 DEF AnswerEntries
<1>7. DOMAIN labels = 1..Len(labels) /\ Len(labels) \in Nat
    BY <1>4
<1>8. answer \in [1..Len(labels) -> AnswerEntries]
    BY <1>6, <1>7
<1>9. answer \in Seq(AnswerEntries) /\ Len(answer) <= MaxDetections
    <2> HIDE DEF answer
    <2> QED BY <1>4, <1>7, <1>8, FunctionIsSeq, SMTT(30)
<1>10. answer \in Answers
    <2> HIDE DEF answer
    <2> QED BY <1>9, BoundedSeqFacts DEF Answers, AnswersAreMessages
<1> HIDE DEF answer
<1> QED BY <1>3, <1>10

(* What NanoOWL's steps do to the fields of the invariant.                 *)
LEMMA NanoOwlFollows ==
    ASSUME AnswersAreMessages, AnswersInv, Loop!NanoOwlSteps
    PROVE  AnswersInv'
<1> USE DEF AnswersInv
<1>0. \A q \in AllQueries \cup {InitialQuery} :
          Loop!NanoOwl!UpdateQueryCache(q) => queryText' \in Texts /\ textEncodings' \in Texts
    BY DEF Loop!NanoOwl!UpdateQueryCache, Texts
<1>1. /\ queryQueue' \in Seq(AllQueries)
      /\ queryText' \in Texts /\ textEncodings' \in Texts /\ usedEncodings' \in Texts
      /\ legacyOut' \in Seq(Answers)
    <2>1. CASE Loop!NanoOwl!Load
        <3>1. queryText' \in Texts /\ textEncodings' \in Texts
            BY <1>0, <2>1 DEF Loop!NanoOwl!Load
        <3> QED BY <2>1, <3>1 DEF Loop!NanoOwl!Load
    <2>2. CASE Loop!NanoOwl!QueryListenerCallback
        <3>1. /\ queryQueue # <<>> /\ queryQueue' = Tail(queryQueue) /\ legacyOut' = <<>>
              /\ usedEncodings' = usedEncodings
            BY <2>2 DEF Loop!NanoOwl!QueryListenerCallback
        <3>2. queryQueue' \in Seq(AllQueries) /\ Head(queryQueue) \in AllQueries
            BY <3>1
        <3>3. CASE Loop!NanoOwl!UpdateQueryCache(Head(queryQueue))
            BY <1>0, <3>1, <3>2, <3>3
        <3>4. CASE UNCHANGED <<queryText, textEncodings>>
            BY <3>1, <3>2, <3>4
        <3> QED BY <2>2, <3>3, <3>4 DEF Loop!NanoOwl!QueryListenerCallback, Loop!NanoOwl!cache
    <2>3. CASE Loop!NanoOwl!ListenerStart
        <3>1. usedEncodings' \in Texts
            BY <2>3 DEF Loop!NanoOwl!ListenerStart
        <3> QED BY <2>3, <3>1 DEF Loop!NanoOwl!ListenerStart, Loop!NanoOwl!cache
    <2>4. CASE Loop!NanoOwl!ListenerFinish
        <3>1. legacyOut' \in Seq(Answers)
            BY <2>4, AnswersWritten
        <3>2. UNCHANGED <<queryQueue, queryText, textEncodings, usedEncodings>>
            BY <2>4 DEF Loop!NanoOwl!ListenerFinish, Loop!NanoOwl!cache
        <3> QED BY <3>1, <3>2
    <2>5. CASE Loop!NanoOwl!Fail
        BY <2>5 DEF Loop!NanoOwl!Fail, Loop!NanoOwl!cache
    <2>6. CASE Loop!NanoOwl!ReceiveImage
        BY <2>6 DEF Loop!NanoOwl!ReceiveImage, Loop!NanoOwl!cache
    <2> QED BY <2>1, <2>2, <2>3, <2>4, <2>5, <2>6 DEF Loop!NanoOwlSteps
<1>2. answerQueue' \in Seq([entries : Answers, asked : Texts])
    <2> DEFINE sent == [k \in DOMAIN legacyOut' |-> [entries |-> legacyOut'[k], asked |-> usedEncodings']]
               records == [entries : Answers, asked : Texts]
               hears == "detections" \in linked
    <2>1. Loop!Answers(legacyOut') \in Seq(records)
        <3>1. \A k \in DOMAIN legacyOut' : [entries |-> legacyOut'[k], asked |-> usedEncodings] \in records
            BY <1>1
        <3>2. DOMAIN legacyOut' = 1..Len(legacyOut') /\ Len(legacyOut') \in Nat
            BY <1>1
        <3>3. Loop!Answers(legacyOut') \in [1..Len(legacyOut') -> records]
            BY <3>1, <3>2 DEF Loop!Answers
        <3> QED BY <3>2, <3>3, FunctionIsSeq
    <2>2. answerQueue' = Deliver(answerQueue, Loop!Answers(legacyOut'), hears, ReplyDepth)
        BY SameTopics DEF Loop!NanoOwlSteps
    <2>3. hears \in BOOLEAN /\ answerQueue \in Seq(records)
        OBVIOUS
    <2> HIDE DEF records, hears
    <2>4. answerQueue' \in Seq(records)
        BY <2>1, <2>2, <2>3, DeliverType DEF AnswersAreMessages
    <2> QED BY <2>4 DEF records
<1> QED BY <1>1, <1>2

(* Every step of the loop is a step of the manager, or none of its         *)
(* business.                                                               *)
LEMMA LoopStep ==
    ASSUME AnswersAreMessages, IInv, AnswersInv, [Loop!Next]_(Loop!vars)
    PROVE  [Next]_vars /\ AnswersInv'
<1>1. CASE Loop!Tick
    <2>1. Tick
        BY <1>1, SameTick DEF Loop!Tick
    <2>2. AnswersInv'
        BY <1>1 DEF Loop!Tick, Loop!nanoOwlVars, Loop!topicVars, AnswersInv
    <2> QED BY <2>1, <2>2 DEF Next
<1>2. CASE Loop!ManagerTimer
    <2>1. TimerCallback
        BY <1>2, SameTimer DEF Loop!ManagerTimer
    <2>2. queryOut' \in Seq(AllQueries)
        BY <2>1, TimerInv DEF IInv, TypeOK
    <2>3. queryQueue' = Deliver(queryQueue, queryOut', "input_query" \in linked, Depth)
        BY <1>2, SameTopics DEF Loop!ManagerTimer, Loop!NanoOwl!ReceiveQueries
    <2>4. queryQueue' \in Seq(AllQueries)
        <3>1. ("input_query" \in linked) \in BOOLEAN
            OBVIOUS
        <3> QED BY <2>2, <2>3, <3>1, DeliverType DEF AnswersAreMessages, AnswersInv
    <2>5. UNCHANGED <<queryText, textEncodings, usedEncodings, legacyOut, answerQueue>>
        BY <1>2 DEF Loop!ManagerTimer, Loop!NanoOwl!ReceiveQueries, Loop!NanoOwl!cache
    <2>6. AnswersInv'
        BY <2>4, <2>5 DEF AnswersInv
    <2> QED BY <2>1, <2>6 DEF Next
<1>3. CASE Loop!ManagerHears
    <2>1. /\ answerQueue # <<>> /\ answerQueue' = Tail(answerQueue)
          /\ Loop!Manager!DetectionsCallback(Head(answerQueue).entries)
          /\ UNCHANGED <<queryQueue, queryText, textEncodings, usedEncodings, legacyOut>>
        BY <1>3 DEF Loop!ManagerHears, Loop!nanoOwlVars
    <2>2. /\ Head(answerQueue) \in [entries : Answers, asked : Texts]
          /\ answerQueue' \in Seq([entries : Answers, asked : Texts])
        <3> DEFINE records == [entries : Answers, asked : Texts]
        <3>1. answerQueue \in Seq(records)
            BY DEF AnswersInv
        <3> HIDE DEF records
        <3>2. Head(answerQueue) \in records /\ answerQueue' \in Seq(records)
            BY <2>1, <3>1
        <3> QED BY <3>2 DEF records
    <2>3. \E msg \in Messages : DetectionsCallback(msg)
        BY <2>1, <2>2, SameDetections DEF AnswersAreMessages
    <2>4. AnswersInv'
        BY <2>1, <2>2 DEF AnswersInv
    <2> QED BY <2>3, <2>4 DEF Next
<1>4. CASE Loop!NanoOwlSteps
    <2>1. UNCHANGED vars
        BY <1>4 DEF Loop!NanoOwlSteps, Loop!managerVars, vars
    <2> QED BY <1>4, <2>1, NanoOwlFollows
<1>5. CASE \/ Loop!ControllerHears \/ \E topic \in Loop!TopicNames : Loop!Discover(topic)
           \/ UNCHANGED Loop!vars
    <2>1. UNCHANGED vars
        BY <1>5 DEF Loop!ControllerHears, Loop!Discover, Loop!vars, Loop!managerVars, vars
    <2>2. UNCHANGED <<queryQueue, queryText, textEncodings, usedEncodings, legacyOut, answerQueue>>
        BY <1>5 DEF Loop!ControllerHears, Loop!Discover, Loop!vars, Loop!nanoOwlVars, Loop!topicVars
    <2>3. AnswersInv'
        BY <2>2 DEF AnswersInv
    <2> QED BY <2>1, <2>3
<1> QED BY <1>1, <1>2, <1>3, <1>4, <1>5 DEF Loop!Next

(* The loop implements the manager: whatever NanoOWL answers, whenever the *)
(* topics are discovered, and whatever is dropped from the buffers, the    *)
(* manager's part of a behaviour is one of the manager on its own, for     *)
(* messages that NanoOWL can write (the entries of listener_callback,      *)
(* detections_callback).                                                   *)
THEOREM LoopIsManager ==
    ASSUME AnswersAreMessages PROVE Loop!Spec => Safety
<1>1. Loop!Init => Init /\ IInv /\ AnswersInv
    <2> SUFFICES ASSUME Loop!Init PROVE Init /\ IInv /\ AnswersInv
        OBVIOUS
    <2>1. Init /\ IInv
        BY SameInit, InitInv DEF Loop!Init
    <2>2. /\ queryQueue = <<>> /\ queryText = <<>> /\ textEncodings = <<>> /\ usedEncodings = <<>>
          /\ legacyOut = <<>> /\ answerQueue = <<>>
        BY DEF Loop!Init, Loop!NanoOwl!Init, Loop!NanoOwl!NoEncodings
    <2>3. AnswersInv
        BY <2>2 DEF AnswersInv, Texts
    <2> QED BY <2>1, <2>3
<1>2. IInv /\ AnswersInv /\ [Loop!Next]_(Loop!vars) => [Next]_vars /\ IInv' /\ AnswersInv'
    BY LoopStep, NextInv
<1> QED BY <1>1, <1>2, PTL DEF Loop!Spec, Safety

(* So what is proved of the manager holds of the loop that decides the     *)
(* scene: the verdict falls in time and needs evidence, it follows the     *)
(* scores and is final, and the query of the phase stays fresh             *)
(* (timer_callback, fed by listener_callback of nano_owl_py.py).           *)
THEOREM LoopDecidesRightly ==
    ASSUME AnswersAreMessages
    PROVE  Loop!Spec => /\ []VerdictNeedsEvidence /\ []VerdictOnSchedule /\ []VerdictFollowsScores
                        /\ []QueryStaysFresh /\ []LastQueryFitsPhase /\ LockIsFinal
BY LoopIsManager, Always, SafeStates, LockAlways, PTL
===============================================================================
