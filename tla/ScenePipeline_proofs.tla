-------------------------- MODULE ScenePipeline_proofs --------------------------
(***************************************************************************)
(* Proofs about ScenePipeline, for all timings, queries, scores and depths *)
(* of the buffers that meet the assumptions of that module, and whatever   *)
(* is lost, delayed or dropped on the way.                                 *)
(***************************************************************************)
EXTENDS ScenePipeline, SequenceFacts

Modes == Manager!Modes
NoMode == Manager!NoMode
AllQueries == Manager!AllQueries

USE DEF Modes, NoMode, AllQueries, Manager!Modes, Manager!NoMode

-------------------------------------------------------------------------------
(* The operators of Topics are the same in the two nodes and in the loop.  *)
LEMMA SameOperators ==
    /\ \A queue, sent, hears, depth :
           NanoOwl!Deliver(queue, sent, hears, depth) = Deliver(queue, sent, hears, depth)
    /\ \A q : NanoOwl!NonBlank(q) = NonBlank(q)
    /\ \A q : Manager!NormalizeLabel(q) = NormalizeLabel(q)
    /\ \A q : Manager!ParseLabelSet(q) = ParseLabelSet(q)
    /\ \A values : Manager!SumOf(values) = SumOf(values)
    /\ \A S, n : NanoOwl!BoundedSeq(S, n) = BoundedSeq(S, n)
<1>1. \A queue, sent, hears, depth :
          NanoOwl!Deliver(queue, sent, hears, depth) = Deliver(queue, sent, hears, depth)
    BY DEF Deliver, KeepLast, NanoOwl!Deliver, NanoOwl!KeepLast
<1>2. \A q : NanoOwl!NonBlank(q) = NonBlank(q)
    BY DEF NonBlank, NanoOwl!NonBlank
<1>3. \A q : Manager!NormalizeLabel(q) = NormalizeLabel(q)
    BY DEF NormalizeLabel, Articles, Manager!NormalizeLabel, Manager!Articles
<1>4. \A q : Manager!ParseLabelSet(q) = ParseLabelSet(q)
    BY <1>3 DEF ParseLabelSet, Manager!ParseLabelSet
<1>5. \A values : Manager!SumOf(values) = SumOf(values)
    BY DEF SumOf, Manager!SumOf
<1>6. \A S, n : NanoOwl!BoundedSeq(S, n) = BoundedSeq(S, n)
    BY DEF BoundedSeq, SeqOf, NanoOwl!BoundedSeq, NanoOwl!SeqOf
<1> QED BY <1>1, <1>2, <1>3, <1>4, <1>5, <1>6

(* The stages of the queries, and of the phases.                           *)
LEMMA StageFacts ==
    /\ Stage(ProbeQueries["indoor"]) = 1 /\ Stage(ProbeQueries["outdoor"]) = 2
    /\ \A m \in Modes : Stage(Queries[m]) = 3
    /\ Stage(InitialQuery) = 0 /\ Stage(<<>>) = 0
    /\ \A q : Stage(q) \in 0..3
BY LaunchAssumption, DistinctQueries DEF Stage

LEMMA QueryFacts ==
    /\ \A m \in Modes : ProbeQueries[m] \in AllQueries /\ Queries[m] \in AllQueries
    /\ \A q \in AllQueries : \E m \in Modes : q \in {ProbeQueries[m], Queries[m]}
    /\ <<>> \notin AllQueries /\ InitialQuery \notin AllQueries
BY DistinctQueries DEF Manager!AllQueries

LEMMA PhaseStageFacts ==
    /\ phase = "startup" => PhaseStage = 0
    /\ phase = "probe_indoor" => PhaseStage = 1
    /\ phase = "probe_outdoor" => PhaseStage = 2
    /\ phase = "locked" => PhaseStage = 3
BY DEF PhaseStage

(* The outputs of a timer callback.                                        *)
LEMMA OrderedOutputs ==
    ASSUME NEW lo \in Nat, NEW hi \in Nat, lo <= hi
    PROVE  /\ Ordered(<<>>, lo, hi)
           /\ \A q \in AllQueries : lo <= Stage(q) /\ Stage(q) <= hi => Ordered(<<q>>, lo, hi)
           /\ \A q, r \in AllQueries :
                  lo <= Stage(q) /\ Stage(q) <= Stage(r) /\ Stage(r) <= hi => Ordered(<<q, r>>, lo, hi)
<1>1. Ordered(<<>>, lo, hi)
    BY DEF Ordered
<1>2. ASSUME NEW q \in AllQueries, lo <= Stage(q), Stage(q) <= hi PROVE Ordered(<<q>>, lo, hi)
    BY <1>2, StageFacts DEF Ordered
<1>3. ASSUME NEW q \in AllQueries, NEW r \in AllQueries,
             lo <= Stage(q), Stage(q) <= Stage(r), Stage(r) <= hi
      PROVE  Ordered(<<q, r>>, lo, hi)
    <2> DEFINE s == <<q, r>>
    <2>1. s \in Seq(AllQueries) /\ DOMAIN s = {1, 2} /\ s[1] = q /\ s[2] = r
        OBVIOUS
    <2>2. Stage(q) \in Nat /\ Stage(r) \in Nat
        BY StageFacts
    <2> HIDE DEF s
    <2>3. Ordered(s, lo, hi)
        BY <1>3, <2>1, <2>2 DEF Ordered
    <2> QED BY <2>3 DEF s
<1> QED BY <1>1, <1>2, <1>3

-------------------------------------------------------------------------------
(* The repetition of the probe query, and the verdict.                     *)
LEMMA RepeatedFacts ==
    ASSUME phase \in {"probe_indoor", "probe_outdoor"}
    PROVE  /\ Manager!ProbedMode \in Modes /\ Stage(ProbeQueries[Manager!ProbedMode]) = PhaseStage
           /\ Manager!Repeated \in {<<>>, <<ProbeQueries[Manager!ProbedMode]>>}
BY StageFacts, PhaseStageFacts DEF Manager!ProbedMode, Manager!Repeated

LEMMA SelectedIsScene == \A scores : Manager!SelectedMode(scores) \in Modes
BY LaunchAssumption DEF Manager!SelectedMode

(* timer_callback, as the rest of the loop sees it: the manager never goes *)
(* back, and what it publishes belongs to where it is or gets.             *)
TimerEffect ==
    /\ lockedSceneMode # NoMode => lockedSceneMode' = lockedSceneMode
    /\ modeOut' # <<>> => lockedSceneMode' \in Modes /\ modeOut' = <<lockedSceneMode'>>
    /\ PhaseStage \in 0..3 /\ PhaseStage' \in 0..3 /\ PhaseStage <= PhaseStage'
    /\ Ordered(queryOut', PhaseStage, PhaseStage')

LEMMA PhaseStageType == PhaseInv => PhaseStage \in 0..3
BY PhaseStageFacts DEF PhaseInv, Manager!Phases

LEMMA PhaseStageNext == 
    /\ phase' = "startup" => PhaseStage' = 0
    /\ phase' = "probe_indoor" => PhaseStage' = 1
    /\ phase' = "probe_outdoor" => PhaseStage' = 2
    /\ phase' = "locked" => PhaseStage' = 3
BY DEF PhaseStage

(* A callback that stays in its phase.                                     *)
LEMMA StayEffect ==
    ASSUME PhaseInv, UNCHANGED <<phase, lockedSceneMode, probeScores>>,
           \/ queryOut' = <<>>
           \/ \E q \in AllQueries : Stage(q) = PhaseStage /\ queryOut' = <<q>>,
           modeOut' # <<>> => lockedSceneMode # NoMode /\ modeOut' = <<lockedSceneMode>>
    PROVE  PhaseInv' /\ TimerEffect
<1>1. PhaseStage \in 0..3 /\ PhaseStage' = PhaseStage
    BY PhaseStageType DEF PhaseStage
<1>2. Ordered(queryOut', PhaseStage, PhaseStage')
    BY <1>1, OrderedOutputs
<1> QED BY <1>1, <1>2 DEF PhaseInv, TimerEffect

(* A callback that moves to the next phase, and publishes its query last.  *)
LEMMA MoveEffect ==
    ASSUME PhaseInv, lockedSceneMode = NoMode, UNCHANGED probeScores,
           NEW q \in AllQueries, PhaseStage < Stage(q), PhaseStage' = Stage(q),
           \/ queryOut' = <<q>>
           \/ \E r \in AllQueries : Stage(r) = PhaseStage /\ queryOut' = <<r, q>>
    PROVE  Ordered(queryOut', PhaseStage, PhaseStage') /\ PhaseStage \in 0..3 /\ PhaseStage' \in 0..3
<1>1. PhaseStage \in 0..3 /\ PhaseStage' \in 0..3
    BY PhaseStageType, StageFacts
<1>2. CASE queryOut' = <<q>>
    BY <1>1, <1>2, OrderedOutputs
<1>3. ASSUME NEW r \in AllQueries, Stage(r) = PhaseStage, queryOut' = <<r, q>>
      PROVE  Ordered(queryOut', PhaseStage, PhaseStage')
    BY <1>1, <1>3, OrderedOutputs
<1> QED BY <1>1, <1>2, <1>3

(* timer_callback, branch by branch.                                       *)
LEMMA TimerFacts == PhaseInv /\ Manager!TimerCallback => PhaseInv' /\ TimerEffect
<1> SUFFICES ASSUME PhaseInv, Manager!TimerCallback PROVE PhaseInv' /\ TimerEffect
    OBVIOUS
<1>0. UNCHANGED probeScores
    BY DEF Manager!TimerCallback
<1>1. CASE Manager!LockedStep
    <2>1. lockedSceneMode \in Modes /\ phase = "locked"
        BY <1>1 DEF Manager!LockedStep, PhaseInv
    <2>2. Queries[lockedSceneMode] \in AllQueries /\ Stage(Queries[lockedSceneMode]) = PhaseStage
        BY <2>1, QueryFacts, StageFacts, PhaseStageFacts
    <2>3. /\ UNCHANGED <<phase, lockedSceneMode>>
          /\ queryOut' = <<>> \/ queryOut' = <<Queries[lockedSceneMode]>>
          /\ modeOut' # <<>> => modeOut' = <<lockedSceneMode>>
        BY <1>1 DEF Manager!LockedStep, Manager!PublishQueries, Manager!LockedQuery
    <2> QED BY <1>0, <2>1, <2>2, <2>3, StayEffect
<1>2. CASE Manager!StartupStep
    <2>1. lockedSceneMode = NoMode /\ phase = "startup" /\ PhaseStage = 0
        BY <1>2, PhaseStageFacts DEF Manager!StartupStep
    <2>2. CASE phaseAge >= StartupDelay
        <3>1. Manager!StartProbe("indoor", <<>>)
            BY <1>2, <2>2 DEF Manager!StartupStep
        <3>2. /\ phase' = "probe_indoor" /\ lockedSceneMode' = NoMode /\ modeOut' = <<>>
              /\ queryOut' = <<ProbeQueries["indoor"]>>
            BY <2>1, <3>1 DEF Manager!StartProbe, Manager!ProbePhase, Manager!ThenPublish,
                              Manager!PublishQueries
        <3>3. PhaseInv'
            BY <1>0, <3>2 DEF PhaseInv, Manager!Phases
        <3>4. /\ ProbeQueries["indoor"] \in AllQueries /\ Stage(ProbeQueries["indoor"]) = 1
              /\ PhaseStage' = 1
            BY <3>2, QueryFacts, StageFacts, PhaseStageNext
        <3>5. Ordered(queryOut', PhaseStage, PhaseStage')
            BY <1>0, <2>1, <3>2, <3>4, MoveEffect
        <3> QED BY <2>1, <3>2, <3>3, <3>4, <3>5 DEF TimerEffect
    <2>3. CASE ~ (phaseAge >= StartupDelay)
        <3>1. UNCHANGED <<phase, lockedSceneMode>> /\ queryOut' = <<>> /\ modeOut' = <<>>
            BY <1>2, <2>3 DEF Manager!StartupStep, Manager!PublishQueries
        <3> QED BY <1>0, <3>1, StayEffect
    <2> QED BY <2>2, <2>3
<1>3. CASE Manager!ProbeStep
    <2> DEFINE r == ProbeQueries[Manager!ProbedMode]
    <2>1. lockedSceneMode = NoMode /\ phase \in {"probe_indoor", "probe_outdoor"}
        BY <1>3 DEF Manager!ProbeStep, Manager!Probing
    <2>2. r \in AllQueries /\ Stage(r) = PhaseStage /\ Manager!Repeated \in {<<>>, <<r>>}
        BY <2>1, RepeatedFacts, QueryFacts
    <2> HIDE DEF r
    <2>3. CASE /\ ~Manager!ProbeOver
               /\ Manager!PublishQueries(Manager!Repeated) /\ modeOut' = <<>>
               /\ UNCHANGED <<up, phase, lockedSceneMode, phaseAge>>
        <3>1. queryOut' = Manager!Repeated
            BY <2>3 DEF Manager!PublishQueries
        <3> QED BY <1>0, <2>2, <2>3, <3>1, StayEffect
    <2>4. CASE phase = "probe_indoor" /\ Manager!StartProbe("outdoor", Manager!Repeated)
        <3>1. /\ phase' = "probe_outdoor" /\ lockedSceneMode' = NoMode /\ modeOut' = <<>>
              /\ queryOut' = Append(Manager!Repeated, ProbeQueries["outdoor"])
            BY <2>1, <2>4 DEF Manager!StartProbe, Manager!ProbePhase, Manager!ThenPublish,
                              Manager!PublishQueries
        <3>2. \/ queryOut' = <<ProbeQueries["outdoor"]>>
              \/ queryOut' = <<r, ProbeQueries["outdoor"]>>
            BY <2>2, <3>1, AppendFacts
        <3>3. PhaseInv'
            BY <1>0, <3>1 DEF PhaseInv, Manager!Phases
        <3>4. /\ ProbeQueries["outdoor"] \in AllQueries /\ Stage(ProbeQueries["outdoor"]) = 2
              /\ PhaseStage' = 2 /\ PhaseStage = 1
            BY <2>4, <3>1, QueryFacts, StageFacts, PhaseStageFacts, PhaseStageNext
        <3>5. Ordered(queryOut', PhaseStage, PhaseStage')
            BY <1>0, <2>1, <2>2, <3>2, <3>4, MoveEffect
        <3> QED BY <2>1, <3>1, <3>3, <3>4, <3>5 DEF TimerEffect
    <2>5. CASE phase = "probe_outdoor" /\ Manager!SelectSceneMode(Manager!Repeated)
        <3> DEFINE mode == Manager!SelectedMode(probeScores)
        <3>1. mode \in Modes /\ mode \in DOMAIN Queries
            BY SelectedIsScene, LaunchAssumption
        <3>2. /\ phase' = "locked" /\ lockedSceneMode' = mode /\ modeOut' = <<mode>>
              /\ queryOut' = Append(Manager!Repeated, Queries[mode])
            BY <2>5, <3>1 DEF Manager!SelectSceneMode, Manager!LockSceneMode, Manager!ThenPublish,
                              Manager!PublishQueries
        <3> HIDE DEF mode
        <3>3. queryOut' = <<Queries[mode]>> \/ queryOut' = <<r, Queries[mode]>>
            BY <2>2, <3>2, AppendFacts
        <3>4. PhaseInv'
            BY <1>0, <3>1, <3>2 DEF PhaseInv, Manager!Phases
        <3>5. /\ Queries[mode] \in AllQueries /\ Stage(Queries[mode]) = 3
              /\ PhaseStage' = 3 /\ PhaseStage = 2
            BY <2>5, <3>1, <3>2, QueryFacts, StageFacts, PhaseStageFacts, PhaseStageNext
        <3>6. Ordered(queryOut', PhaseStage, PhaseStage')
            BY <1>0, <2>1, <2>2, <3>3, <3>5, MoveEffect
        <3> QED BY <2>1, <3>1, <3>2, <3>4, <3>5, <3>6 DEF TimerEffect
    <2> QED BY <1>3, <2>3, <2>4, <2>5 DEF Manager!ProbeStep
<1> QED BY <1>1, <1>2, <1>3 DEF Manager!TimerCallback

-------------------------------------------------------------------------------
(* NanoOWL's buffer keeps the order when later queries come in, whatever   *)
(* is lost or dropped.                                                     *)
LEMMA OrderedDeliver ==
    ASSUME NEW lo \in Nat, NEW mid \in Nat, NEW hi \in Nat, lo <= mid, mid <= hi,
           NEW queue, Ordered(queue, lo, mid), NEW sent, Ordered(sent, mid, hi),
           NEW hears \in BOOLEAN, NEW depth \in Nat \ {0}
    PROVE  Ordered(Deliver(queue, sent, hears, depth), lo, hi)
<1> DEFINE samples == queue \o sent
           D == Deliver(queue, sent, hears, depth)
<1>1. queue \in Seq(AllQueries) /\ sent \in Seq(AllQueries)
    BY DEF Ordered
<1>2. samples \in Seq(AllQueries)
    BY <1>1
<1>3. ASSUME NEW i \in DOMAIN samples
      PROVE  IF i <= Len(queue) THEN i \in DOMAIN queue /\ samples[i] = queue[i]
             ELSE i - Len(queue) \in DOMAIN sent /\ samples[i] = sent[i - Len(queue)]
    BY <1>1
<1>4. DOMAIN samples \subseteq Nat
    BY <1>2
<1>5. Len(queue) \in Nat
    BY <1>1
<1>6. \A q \in AllQueries : Stage(q) \in Nat
    BY StageFacts
<1> HIDE DEF samples
<1>7. ASSUME NEW i \in DOMAIN samples PROVE lo <= Stage(samples[i]) /\ Stage(samples[i]) <= hi
    <2>1. CASE i <= Len(queue)
        BY <1>1, <1>3, <1>6, <2>1 DEF Ordered
    <2>2. CASE ~(i <= Len(queue))
        BY <1>1, <1>3, <1>6, <2>2 DEF Ordered
    <2> QED BY <2>1, <2>2
<1>8. ASSUME NEW i \in DOMAIN samples, NEW j \in DOMAIN samples, i <= j
      PROVE  Stage(samples[i]) <= Stage(samples[j])
    <2>0. Stage(samples[i]) \in Nat /\ Stage(samples[j]) \in Nat /\ i \in Nat /\ j \in Nat
        BY <1>2, <1>4, <1>6
    <2>1. CASE j <= Len(queue)
        <3>1. i <= Len(queue)
            BY <1>5, <1>8, <2>0, <2>1
        <3> QED BY <1>3, <1>8, <2>1, <3>1 DEF Ordered
    <2>2. CASE ~(j <= Len(queue)) /\ i <= Len(queue)
        <3>1. Stage(samples[i]) <= mid
            BY <1>3, <2>2 DEF Ordered
        <3>2. mid <= Stage(samples[j])
            BY <1>3, <2>2 DEF Ordered
        <3> QED BY <2>0, <3>1, <3>2
    <2>3. CASE ~(j <= Len(queue)) /\ ~(i <= Len(queue))
        <3>1. i - Len(queue) <= j - Len(queue)
            BY <1>5, <1>8, <2>0
        <3> QED BY <1>3, <2>3, <3>1 DEF Ordered
    <2> QED BY <2>1, <2>2, <2>3
<1>9. D \in Seq(AllQueries) /\ RunOf(D, samples)
    BY <1>1, DeliverSuffix DEF samples
<1> HIDE DEF D
<1>10. Ordered(D, lo, hi)
    <2>1. PICK d \in Nat : \A i \in DOMAIN D : i + d \in DOMAIN samples /\ D[i] = samples[i + d]
        BY <1>9 DEF RunOf
    <2>2. DOMAIN D \subseteq Nat
        BY <1>9
    <2>3. \A i \in DOMAIN D : lo <= Stage(D[i]) /\ Stage(D[i]) <= hi
        BY <1>7, <2>1
    <2>4. ASSUME NEW i \in DOMAIN D, NEW j \in DOMAIN D, i <= j PROVE Stage(D[i]) <= Stage(D[j])
        <3>1. i + d <= j + d /\ i + d \in DOMAIN samples /\ j + d \in DOMAIN samples
            BY <2>1, <2>2, <2>4
        <3> QED BY <1>8, <2>1, <3>1
    <2> QED BY <1>9, <2>3, <2>4 DEF Ordered
<1> QED BY <1>10 DEF D

(* What is ordered within some stages is so within more.                   *)
LEMMA OrderedWiden ==
    ASSUME NEW lo \in Nat, NEW hi \in Nat, NEW hi2 \in Nat, hi <= hi2, NEW s, Ordered(s, lo, hi)
    PROVE  Ordered(s, lo, hi2)
BY StageFacts DEF Ordered

(* The head of the buffer comes before the rest.                           *)
LEMMA OrderedTail ==
    ASSUME NEW lo \in Nat, NEW hi \in Nat, NEW s, Ordered(s, lo, hi), s # <<>>
    PROVE  /\ Head(s) \in AllQueries /\ lo <= Stage(Head(s)) /\ Stage(Head(s)) <= hi
           /\ Ordered(Tail(s), Stage(Head(s)), hi)
<1>1. s \in Seq(AllQueries)
    BY DEF Ordered
<1>2. Head(s) = s[1] /\ 1 \in DOMAIN s /\ Head(s) \in AllQueries
    BY <1>1
<1>3. Tail(s) \in Seq(AllQueries)
    BY <1>1
<1>4. \A i \in DOMAIN Tail(s) : i \in Nat /\ i + 1 \in DOMAIN s /\ Tail(s)[i] = s[i + 1] /\ 1 <= i + 1
    BY <1>1
<1> DEFINE t == Tail(s)
<1>5. \A i \in DOMAIN t : i \in Nat /\ i + 1 \in DOMAIN s /\ t[i] = s[i + 1] /\ 1 <= i + 1
    BY <1>4
<1>6. t \in Seq(AllQueries)
    BY <1>3
<1> HIDE DEF t
<1>7. ASSUME NEW i \in DOMAIN t PROVE Stage(Head(s)) <= Stage(t[i]) /\ Stage(t[i]) <= hi
    BY <1>2, <1>5 DEF Ordered
<1>8. ASSUME NEW i \in DOMAIN t, NEW j \in DOMAIN t, i <= j PROVE Stage(t[i]) <= Stage(t[j])
    <2>1. i + 1 <= j + 1
        BY <1>5, <1>8
    <2> QED BY <1>5, <2>1 DEF Ordered
<1>9. Ordered(t, Stage(Head(s)), hi)
    BY <1>6, <1>7, <1>8 DEF Ordered
<1>10. lo <= Stage(Head(s)) /\ Stage(Head(s)) <= hi
    BY <1>2 DEF Ordered
<1> QED BY <1>2, <1>9, <1>10 DEF t

-------------------------------------------------------------------------------
(* The loop starts with an undecided manager and a loading detector.       *)
LEMMA InitPipe == Init => PipeInv
<1> SUFFICES ASSUME Init PROVE PipeInv
    OBVIOUS
<1>1. /\ phase = "startup" /\ lockedSceneMode = NoMode /\ probeScores = [m \in Modes |-> 0]
      /\ owl = "loading" /\ queryQueue = <<>> /\ query = <<>>
      /\ answerQueue = <<>> /\ modeQueue = <<>> /\ sceneMode = "unknown"
    BY LaunchAssumption DEF Init, Manager!Init, NanoOwl!Init, Manager!Autonomous
<1>2. PhaseInv /\ PhaseStage = 0
    BY <1>1, PhaseStageFacts DEF PhaseInv, Manager!Phases
<1>3. ModeInv
    <2>1. <<>> \in Seq(Modes) /\ Len(<<>>) <= ReplyDepth
        BY LaunchAssumption
    <2>2. <<>> \in BoundedSeq(Modes, ReplyDepth)
        BY <2>1, LaunchAssumption, BoundedSeqFacts
    <2> QED BY <1>1, <2>2 DEF ModeInv
<1>4. QueryInv
    <2>1. <<>> \in Seq(AllQueries) /\ Len(<<>>) <= Depth
        BY LaunchAssumption
    <2>2. <<>> \in BoundedSeq(AllQueries, Depth)
        BY <2>1, LaunchAssumption, BoundedSeqFacts
    <2>3. Ordered(<<>>, 0, 0)
        BY OrderedOutputs
    <2>4. Stage(query) = 0
        BY <1>1, StageFacts
    <2> QED BY <1>1, <1>2, <2>2, <2>3, <2>4 DEF QueryInv
<1>5. EncodingInv
    BY <1>1 DEF EncodingInv, NanoOwl!Running
<1>6. AnswerInv
    BY <1>1 DEF AnswerInv
<1> QED BY <1>2, <1>3, <1>4, <1>5, <1>6 DEF PipeInv

(* A step that leaves alone what the invariant is about.                   *)
LEMMA FrameInv ==
    PipeInv /\ UNCHANGED <<phase, lockedSceneMode, probeScores, modeQueue, sceneMode, owl,
                           queryQueue, query, queryText, textEncodings, usedEncodings, answerQueue>>
        => PipeInv'
BY DEF PipeInv, PhaseInv, ModeInv, QueryInv, EncodingInv, AnswerInv, PhaseStage, Manager!Phases,
       NanoOwl!Running

(* Answers stay valid as the manager moves on.                             *)
LEMMA AnswersStay ==
    ASSUME AnswerInv, UNCHANGED answerQueue, PhaseStage \in Nat, PhaseStage' \in Nat,
           PhaseStage <= PhaseStage'
    PROVE  AnswerInv'
<1>1. ASSUME NEW k \in DOMAIN answerQueue
      PROVE  \E q \in AllQueries \cup {InitialQuery} :
                 Stage(q) <= PhaseStage' /\ IsAnswerTo(answerQueue[k], q)
    <2>1. PICK q \in AllQueries \cup {InitialQuery} : Stage(q) <= PhaseStage /\ IsAnswerTo(answerQueue[k], q)
        BY DEF AnswerInv
    <2>2. Stage(q) <= PhaseStage'
        BY <2>1, StageFacts
    <2> QED BY <2>1, <2>2
<1> QED BY <1>1 DEF AnswerInv

(* Modes on their way to the controller: all of them are the verdict.      *)
LEMMA ModesArrive ==
    ASSUME ModeInv, UNCHANGED sceneMode, NEW hears \in BOOLEAN,
           lockedSceneMode # NoMode => lockedSceneMode' = lockedSceneMode,
           modeOut' # <<>> => lockedSceneMode' \in Modes /\ modeOut' = <<lockedSceneMode'>>,
           modeQueue' = Deliver(modeQueue, modeOut', hears, ReplyDepth)
    PROVE  ModeInv'
<1>1. modeOut' \in Seq(Modes) /\ \A j \in DOMAIN modeOut' : modeOut'[j] = lockedSceneMode'
    <2>1. CASE modeOut' = <<>>
        BY <2>1
    <2>2. CASE modeOut' # <<>>
        <3>1. ASSUME NEW m \in Modes PROVE <<m>> \in Seq(Modes) /\ \A j \in DOMAIN <<m>> : <<m>>[j] = m
            OBVIOUS
        <3> QED BY <2>2, <3>1
    <2> QED BY <2>1, <2>2
<1>2. modeQueue \in BoundedSeq(Modes, ReplyDepth) /\ modeQueue \in Seq(Modes)
    BY BoundedSeqFacts, LaunchAssumption DEF ModeInv
<1>3. modeQueue' \in BoundedSeq(Modes, ReplyDepth)
    BY <1>1, <1>2, LaunchAssumption, DeliverFacts
<1>4. \A j \in DOMAIN modeQueue : modeQueue[j] = lockedSceneMode'
    BY <1>2 DEF ModeInv
<1>5. \A i \in DOMAIN modeQueue' : \/ \E j \in DOMAIN modeQueue : modeQueue'[i] = modeQueue[j]
                                  \/ \E j \in DOMAIN modeOut' : modeQueue'[i] = modeOut'[j]
    BY <1>1, <1>2, LaunchAssumption, DeliverElements
<1>6. \A i \in DOMAIN modeQueue' : modeQueue'[i] = lockedSceneMode'
    BY <1>1, <1>4, <1>5
<1> QED BY <1>3, <1>6 DEF ModeInv

(* timer_callback with everything it reaches.                              *)
LEMMA ManagerTimerInv == PipeInv /\ ManagerTimer => PipeInv'
<1> SUFFICES ASSUME PipeInv, ManagerTimer PROVE PipeInv'
    OBVIOUS
<1>1. PhaseInv' /\ TimerEffect
    BY TimerFacts DEF PipeInv, ManagerTimer
<1>2. ModeInv'
    <2>1. /\ UNCHANGED sceneMode /\ ("scene_mode" \in linked) \in BOOLEAN
          /\ modeQueue' = Deliver(modeQueue, modeOut', "scene_mode" \in linked, ReplyDepth)
        BY DEF ManagerTimer, topicVars
    <2> QED BY <1>1, <2>1, ModesArrive DEF PipeInv, TimerEffect
<1>3. QueryInv'
    <2>1. /\ UNCHANGED <<owl, query>> /\ ("input_query" \in linked) \in BOOLEAN
          /\ queryQueue' = Deliver(queryQueue, queryOut', "input_query" \in linked, Depth)
        BY SameOperators DEF ManagerTimer, NanoOwl!ReceiveQueries, NanoOwl!cache
    <2>2. /\ Ordered(queryQueue, Stage(query), PhaseStage)
          /\ Ordered(queryOut', PhaseStage, PhaseStage')
          /\ Stage(query) \in Nat /\ PhaseStage \in Nat /\ PhaseStage' \in Nat
          /\ Stage(query) <= PhaseStage /\ PhaseStage <= PhaseStage'
        BY <1>1, StageFacts DEF PipeInv, QueryInv, TimerEffect
    <2>3. Ordered(queryQueue', Stage(query), PhaseStage')
        BY <2>1, <2>2, OrderedDeliver, LaunchAssumption
    <2>4. queryQueue' \in BoundedSeq(AllQueries, Depth)
        <3>1. queryOut' \in Seq(AllQueries)
            BY <2>2 DEF Ordered
        <3>2. queryQueue \in BoundedSeq(AllQueries, Depth)
            BY DEF PipeInv, QueryInv
        <3> QED BY <2>1, <3>1, <3>2, DeliverFacts, LaunchAssumption
    <2>5. Stage(query) <= PhaseStage'
        BY <2>2
    <2> QED BY <2>1, <2>3, <2>4, <2>5 DEF PipeInv, QueryInv
<1>4. EncodingInv'
    BY DEF PipeInv, EncodingInv, ManagerTimer, NanoOwl!ReceiveQueries, NanoOwl!cache, NanoOwl!Running
<1>5. AnswerInv'
    BY <1>1, AnswersStay DEF PipeInv, TimerEffect, ManagerTimer
<1> QED BY <1>1, <1>2, <1>3, <1>4, <1>5 DEF PipeInv

-------------------------------------------------------------------------------
(* The texts of a query, normalised, are its labels, or "person".          *)
LEMMA TextFacts ==
    ASSUME NEW q \in Seq(Seq(STRING))
    PROVE  \A j \in DOMAIN NanoOwl!QueryTexts(q) :
               NormalizeLabel(NanoOwl!QueryTexts(q)[j]) \in ParseLabelSet(q) \cup {<<"person">>}
<1>1. CASE NonBlank(q) = <<>>
    <2>1. NanoOwl!QueryTexts(q) = << <<"a", "person">> >>
        BY <1>1, SameOperators DEF NanoOwl!QueryTexts
    <2>2. NormalizeLabel(<<"a", "person">>) = <<"person">>
        BY DEF NormalizeLabel, Articles
    <2> QED BY <2>1, <2>2
<1>2. CASE NonBlank(q) # <<>>
    <2> DEFINE N == NonBlank(q)
               T == {q[i] : i \in DOMAIN q} \ {<<>>}
    <2>1. NanoOwl!QueryTexts(q) = N
        BY <1>2, SameOperators DEF NanoOwl!QueryTexts
    <2>2. N \in Seq(T)
        BY NonBlankFacts
    <2> HIDE DEF N
    <2>3. ASSUME NEW j \in DOMAIN N PROVE NormalizeLabel(N[j]) \in ParseLabelSet(q)
        <3>1. N[j] \in T
            <4> HIDE DEF T
            <4> QED BY <2>2
        <3>2. PICK i \in DOMAIN q : N[j] = q[i]
            BY <3>1
        <3>3. q[i] \in Seq(STRING) /\ q[i] # <<>>
            BY <3>1, <3>2
        <3>4. NormalizeLabel(q[i]) # <<>>
            BY <3>3, NormalizeFacts
        <3> QED BY <3>2, <3>4 DEF ParseLabelSet
    <2> QED BY <2>1, <2>3
<1> QED BY <1>1, <1>2

(* What an answer adds to a score, and that it only does so if one of its  *)
(* labels counts for the scene.                                            *)
LEMMA VotesFacts ==
    ASSUME NEW answer, NEW q, IsAnswerTo(answer, q), NEW mode
    PROVE  /\ Manager!Votes(answer.entries, mode) \in Nat
           /\ Manager!Votes(answer.entries, mode) > 0 =>
                  \E i \in DOMAIN answer.entries :
                      NormalizeLabel(answer.entries[i].label) \in Manager!ProbeLabels(mode)
<1> DEFINE msg == answer.entries
           votes == [i \in DOMAIN msg |-> Manager!Vote(msg[i], mode)]
<1>1. \A i \in DOMAIN msg : /\ Manager!Vote(msg[i], mode) \in Nat
                            /\ Manager!Vote(msg[i], mode) # 0 =>
                                   NormalizeLabel(msg[i].label) \in Manager!ProbeLabels(mode)
    BY SameOperators DEF IsAnswerTo, Manager!Vote
<1>2. \E n \in Nat : DOMAIN msg = 1..n
    BY DEF IsAnswerTo
<1> HIDE DEF msg
<1>3. votes \in Seq(Nat)
    BY <1>1, <1>2
<1>4. \A i \in DOMAIN votes : i \in DOMAIN msg /\ votes[i] = Manager!Vote(msg[i], mode)
    OBVIOUS
<1>5. Manager!Votes(msg, mode) = SumOf(votes)
    BY SameOperators DEF Manager!Votes
<1> HIDE DEF votes
<1>6. SumOf(votes) \in Nat /\ (SumOf(votes) > 0 => \E i \in DOMAIN votes : votes[i] # 0)
    BY <1>3, SumOfFacts
<1> QED BY <1>1, <1>4, <1>5, <1>6 DEF msg

(* detections_callback: an answer is taken from the buffer and counted.    *)
LEMMA ManagerHearsInv == PipeInv /\ ManagerHears => PipeInv'
<1> SUFFICES ASSUME PipeInv, ManagerHears PROVE PipeInv'
    OBVIOUS
<1>1. /\ answerQueue # <<>> /\ answerQueue' = Tail(answerQueue)
      /\ Manager!DetectionsCallback(Head(answerQueue).entries)
      /\ UNCHANGED <<phase, lockedSceneMode, modeQueue, sceneMode, owl, queryQueue, query,
                     queryText, textEncodings, usedEncodings>>
    BY DEF ManagerHears, Manager!DetectionsCallback, nanoOwlVars
<1>2. answerQueue \in Seq({answerQueue[k] : k \in DOMAIN answerQueue}) /\ 1 \in DOMAIN answerQueue
      /\ Head(answerQueue) = answerQueue[1]
    BY <1>1 DEF PipeInv, AnswerInv
<1>3. PICK q : IsAnswerTo(Head(answerQueue), q)
    BY <1>2 DEF PipeInv, AnswerInv
<1>4. probeScores' \in [Modes -> Nat]
    <2> DEFINE votes == Manager!Votes(Head(answerQueue).entries, Manager!ProbedMode)
    <2>1. votes \in Nat
        BY <1>3, VotesFacts
    <2>2. probeScores \in [Modes -> Nat]
        BY DEF PipeInv, PhaseInv
    <2>3. \/ probeScores' = [probeScores EXCEPT ![Manager!ProbedMode] = @ + votes]
          \/ probeScores' = probeScores
        BY <1>1 DEF Manager!DetectionsCallback
    <2> HIDE DEF votes
    <2> QED BY <2>1, <2>2, <2>3
<1>5. PhaseInv' /\ PhaseStage' = PhaseStage
    BY <1>1, <1>4 DEF PipeInv, PhaseInv, PhaseStage
<1>6. AnswerInv'
    <2> DEFINE t == Tail(answerQueue)
               E == {answerQueue[k] : k \in DOMAIN answerQueue}
    <2>1. \A k \in DOMAIN t : k + 1 \in DOMAIN answerQueue /\ t[k] = answerQueue[k + 1]
        <3> HIDE DEF E
        <3> QED BY <1>1, <1>2 DEF E
    <2>2. t \in Seq(E)
        <3> HIDE DEF E
        <3> QED BY <1>1, <1>2 DEF E
    <2> HIDE DEF t, E
    <2>3. t \in Seq({t[k] : k \in DOMAIN t})
        BY <2>2, SeqOfElements
    <2>4. answerQueue' = t
        BY <1>1 DEF t
    <2>5. \A k \in DOMAIN t : \E r \in AllQueries \cup {InitialQuery} :
              Stage(r) <= PhaseStage /\ IsAnswerTo(t[k], r)
        BY <2>1 DEF PipeInv, AnswerInv
    <2> QED BY <1>5, <2>3, <2>4, <2>5 DEF AnswerInv
<1>7. ModeInv' /\ QueryInv' /\ EncodingInv'
    BY <1>1, <1>5 DEF PipeInv, ModeInv, QueryInv, EncodingInv, NanoOwl!Running
<1> QED BY <1>5, <1>6, <1>7 DEF PipeInv

(* scene_mode_callback of the controller.                                  *)
LEMMA ControllerHearsInv == PipeInv /\ ControllerHears => PipeInv'
<1> SUFFICES ASSUME PipeInv, ControllerHears PROVE PipeInv'
    OBVIOUS
<1>1. /\ modeQueue # <<>> /\ sceneMode' = Head(modeQueue) /\ modeQueue' = Tail(modeQueue)
      /\ UNCHANGED <<phase, lockedSceneMode, probeScores, owl, queryQueue, query,
                     queryText, textEncodings, usedEncodings, answerQueue>>
    BY DEF ControllerHears, managerVars, nanoOwlVars
<1>2. modeQueue \in Seq(Modes) /\ Len(modeQueue) <= ReplyDepth
      /\ \A i \in DOMAIN modeQueue : modeQueue[i] = lockedSceneMode
    BY BoundedSeqFacts, LaunchAssumption DEF PipeInv, ModeInv
<1>3. 1 \in DOMAIN modeQueue /\ Head(modeQueue) = modeQueue[1] /\ Head(modeQueue) \in Modes
    BY <1>1, <1>2
<1>4. modeQueue' \in Seq(Modes) /\ Len(modeQueue') <= ReplyDepth
    BY <1>1, <1>2, LaunchAssumption
<1>5. \A i \in DOMAIN modeQueue' : i + 1 \in DOMAIN modeQueue /\ modeQueue'[i] = modeQueue[i + 1]
    BY <1>1, <1>2
<1>6. modeQueue' \in BoundedSeq(Modes, ReplyDepth)
    BY <1>4, BoundedSeqFacts, LaunchAssumption
<1>7. ModeInv'
    BY <1>1, <1>2, <1>3, <1>5, <1>6 DEF ModeInv
<1>8. PhaseInv' /\ QueryInv' /\ EncodingInv' /\ AnswerInv'
    BY <1>1 DEF PipeInv, PhaseInv, QueryInv, EncodingInv, AnswerInv, PhaseStage, NanoOwl!Running
<1> QED BY <1>7, <1>8 DEF PipeInv

-------------------------------------------------------------------------------
(* Answers arrive in the manager's buffer.                                 *)
LEMMA AnswersArrive ==
    ASSUME AnswerInv, PhaseStage' = PhaseStage, NEW hears \in BOOLEAN, NEW sent,
           sent \in Seq({sent[k] : k \in DOMAIN sent}),
           \A k \in DOMAIN sent : \E q \in AllQueries \cup {InitialQuery} :
               Stage(q) <= PhaseStage /\ IsAnswerTo(sent[k], q),
           answerQueue' = Deliver(answerQueue, sent, hears, ReplyDepth)
    PROVE  AnswerInv'
<1> DEFINE A == {answerQueue[k] : k \in DOMAIN answerQueue}
           B == {sent[k] : k \in DOMAIN sent}
           S == A \cup B
           Fine(answer) == \E q \in AllQueries \cup {InitialQuery} :
                               Stage(q) <= PhaseStage /\ IsAnswerTo(answer, q)
<1>1. answerQueue \in Seq(A) /\ sent \in Seq(B)
    BY DEF AnswerInv
<1>2. \A k \in DOMAIN answerQueue : Fine(answerQueue[k])
    BY DEF AnswerInv
<1>3. \A k \in DOMAIN sent : Fine(sent[k])
    OBVIOUS
<1> HIDE DEF A, B, Fine
<1>4. answerQueue \in Seq(S) /\ sent \in Seq(S)
    BY <1>1
<1> HIDE DEF S
<1>5. answerQueue' \in Seq(S)
    BY <1>4, DeliverSuffix, LaunchAssumption
<1>6. \A k \in DOMAIN answerQueue' : \/ \E j \in DOMAIN answerQueue : answerQueue'[k] = answerQueue[j]
                                    \/ \E j \in DOMAIN sent : answerQueue'[k] = sent[j]
    BY <1>4, DeliverElements, LaunchAssumption
<1>7. \A k \in DOMAIN answerQueue' : Fine(answerQueue'[k])
    BY <1>2, <1>3, <1>6
<1>8. answerQueue' \in Seq({answerQueue'[k] : k \in DOMAIN answerQueue'})
    BY <1>5, SeqOfElements
<1> QED BY <1>7, <1>8 DEF AnswerInv, Fine

(* A step of NanoOWL that publishes no message.                            *)
LEMMA NothingAnswered ==
    ASSUME AnswerInv, PhaseStage' = PhaseStage, NEW hears \in BOOLEAN, legacyOut' = <<>>,
           answerQueue' = Deliver(answerQueue, Answers(legacyOut'), hears, ReplyDepth)
    PROVE  AnswerInv'
<1> DEFINE sent == Answers(legacyOut')
<1>1. DOMAIN sent = {}
    BY DEF Answers
<1>2. sent \in Seq({sent[k] : k \in DOMAIN sent})
    <2>1. sent \in [1..0 -> {sent[k] : k \in DOMAIN sent}]
        BY DEF Answers
    <2> QED BY <2>1
<1>3. answerQueue' = Deliver(answerQueue, sent, hears, ReplyDepth)
    OBVIOUS
<1> HIDE DEF sent
<1> QED BY <1>1, <1>2, <1>3, AnswersArrive

(* A query is taken from the buffer: it belongs to the stage of the        *)
(* current one or a later one.                                             *)
LEMMA QueryTaken ==
    ASSUME QueryInv, PhaseStage \in Nat, PhaseStage' = PhaseStage, UNCHANGED owl, NanoOwl!QueryListenerCallback
    PROVE  QueryInv' /\ query' \in AllQueries /\ Stage(query) <= Stage(query')
<1>1. /\ owl = "idle" /\ queryQueue # <<>> /\ queryQueue' = Tail(queryQueue)
      /\ query' = Head(queryQueue)
    BY DEF NanoOwl!QueryListenerCallback, NanoOwl!MayTakeQuery, NanoOwl!IsNewQuery,
           NanoOwl!UpdateQueryCache, NanoOwl!cache
<1>2. Stage(query) \in Nat /\ Ordered(queryQueue, Stage(query), PhaseStage)
    BY StageFacts DEF QueryInv
<1>3. /\ query' \in AllQueries /\ Stage(query) <= Stage(query') /\ Stage(query') <= PhaseStage
      /\ Ordered(queryQueue', Stage(query'), PhaseStage)
    BY <1>1, <1>2, OrderedTail
<1>4. queryQueue \in Seq(AllQueries) /\ Len(queryQueue) <= Depth
    BY BoundedSeqFacts, LaunchAssumption DEF QueryInv
<1>5. queryQueue' \in Seq(AllQueries) /\ Len(queryQueue') <= Depth
    BY <1>1, <1>4, LaunchAssumption
<1>6. queryQueue' \in BoundedSeq(AllQueries, Depth)
    BY <1>5, BoundedSeqFacts, LaunchAssumption
<1> QED BY <1>1, <1>3, <1>6 DEF QueryInv

(* listener_callback answers the query whose encodings it used.            *)
LEMMA AnswerPublished ==
    ASSUME PhaseInv, QueryInv, EncodingInv, AnswerInv, PhaseStage' = PhaseStage,
           NEW hears \in BOOLEAN, NanoOwl!ListenerFinish,
           answerQueue' = Deliver(answerQueue, Answers(legacyOut'), hears, ReplyDepth)
    PROVE  AnswerInv'
<1> DEFINE Entries(labels, boxes, score) ==
               [i \in DOMAIN labels |->
                   [label |-> NanoOwl!ClassName(labels[i]), box |-> boxes[i], confidence |-> score]]
<1>1. PICK labels \in NanoOwl!BoundedSeq(DOMAIN usedEncodings, MaxDetections) :
      \E boxes \in [DOMAIN labels -> ImageBoxes], score \in Scores :
          legacyOut' = <<Entries(labels, boxes, score)>>
    BY DEF NanoOwl!ListenerFinish, NanoOwl!LegacyMessages
<1>2. PICK boxes \in [DOMAIN labels -> ImageBoxes], score \in Scores :
          legacyOut' = <<Entries(labels, boxes, score)>>
    BY <1>1
<1> DEFINE entries == Entries(labels, boxes, score)
           answer == [entries |-> entries, asked |-> usedEncodings]
<1>3. /\ query \in AllQueries \cup {InitialQuery} /\ Stage(query) <= PhaseStage
      /\ usedEncodings = NanoOwl!QueryTexts(query) /\ queryText = usedEncodings
    BY DEF NanoOwl!ListenerFinish, EncodingInv, QueryInv, NanoOwl!Running
<1>4. labels \in Seq(DOMAIN usedEncodings)
    <2>1. labels \in BoundedSeq(DOMAIN usedEncodings, MaxDetections)
        BY SameOperators
    <2> QED BY <2>1, BoundedSeqFacts, LaunchAssumption
<1>5. \A i \in DOMAIN entries : /\ entries[i].confidence \in Nat
                                /\ \E j \in DOMAIN usedEncodings : entries[i].label = usedEncodings[j]
    BY <1>3, <1>4, LaunchAssumption DEF NanoOwl!ClassName
<1>6. entries \in Seq({entries[i] : i \in DOMAIN entries})
    <2>1. DOMAIN entries = 1..Len(labels) /\ Len(labels) \in Nat
        BY <1>4
    <2>2. entries \in [DOMAIN entries -> {entries[i] : i \in DOMAIN entries}]
        OBVIOUS
    <2> HIDE DEF entries
    <2> QED BY <2>1, <2>2
<1>7. legacyOut' = <<entries>>
    BY <1>2
<1> HIDE DEF entries
<1>8. IsAnswerTo(answer, query)
    BY <1>3, <1>5, <1>6 DEF IsAnswerTo
<1> DEFINE sent == Answers(legacyOut')
<1>9. DOMAIN sent = {1} /\ sent[1] = answer
    BY <1>7 DEF Answers
<1>10. sent \in Seq({sent[k] : k \in DOMAIN sent})
    <2> DEFINE X == {sent[k] : k \in DOMAIN sent}
    <2>1. sent \in [1..1 -> X]
        BY <1>7 DEF Answers
    <2> HIDE DEF sent, X
    <2>2. sent \in Seq(X)
        BY <2>1, FunctionIsSeq
    <2> QED BY <2>2 DEF X
<1>11. answerQueue' = Deliver(answerQueue, sent, hears, ReplyDepth)
    OBVIOUS
<1> HIDE DEF sent, answer
<1>12. \A k \in DOMAIN sent : \E q \in AllQueries \cup {InitialQuery} :
           Stage(q) <= PhaseStage /\ IsAnswerTo(sent[k], q)
    BY <1>3, <1>8, <1>9
<1> QED BY <1>10, <1>11, <1>12, AnswersArrive

(* Each step of NanoOWL.                                                   *)
LEMMA NanoOwlInv == PipeInv /\ NanoOwlSteps => PipeInv'
<1> SUFFICES ASSUME PipeInv, NanoOwlSteps PROVE PipeInv'
    OBVIOUS
<1>1. /\ UNCHANGED <<phase, lockedSceneMode, probeScores, modeQueue, sceneMode>>
      /\ ("detections" \in linked) \in BOOLEAN
      /\ answerQueue' = Deliver(answerQueue, Answers(legacyOut'), "detections" \in linked, ReplyDepth)
    BY DEF NanoOwlSteps, managerVars
<1>2. PhaseInv' /\ ModeInv' /\ PhaseStage' = PhaseStage /\ PhaseStage \in Nat
    BY <1>1, PhaseStageType DEF PipeInv, PhaseInv, ModeInv, PhaseStage
<1>3. PhaseInv /\ QueryInv /\ EncodingInv /\ AnswerInv
    BY DEF PipeInv
<1>4. CASE NanoOwl!Load
    <2>1. /\ owl = "loading" /\ owl' = "idle" /\ query' = InitialQuery /\ legacyOut' = <<>>
          /\ queryText' = NanoOwl!QueryTexts(InitialQuery) /\ textEncodings' = queryText'
          /\ UNCHANGED <<queryQueue, usedEncodings>>
        BY <1>4 DEF NanoOwl!Load, NanoOwl!UpdateQueryCache
    <2>2. Stage(query) = 0 /\ Stage(query') = 0
        BY <1>3, <2>1, StageFacts DEF QueryInv
    <2>3. QueryInv'
        BY <1>2, <1>3, <2>1, <2>2 DEF QueryInv
    <2>4. EncodingInv'
        BY <2>1 DEF EncodingInv
    <2>5. AnswerInv'
        BY <1>1, <1>2, <1>3, <2>1, NothingAnswered
    <2> QED BY <1>2, <2>3, <2>4, <2>5 DEF PipeInv
<1>5. CASE NanoOwl!QueryListenerCallback
    <2>1. UNCHANGED owl /\ owl = "idle" /\ legacyOut' = <<>>
        BY <1>5 DEF NanoOwl!QueryListenerCallback, NanoOwl!MayTakeQuery
    <2>2. QueryInv' /\ query' \in AllQueries
        BY <1>2, <1>3, <1>5, <2>1, QueryTaken
    <2>3. EncodingInv'
        BY <1>3, <1>5, <2>1, <2>2 DEF EncodingInv, NanoOwl!QueryListenerCallback,
              NanoOwl!UpdateQueryCache, NanoOwl!cache, NanoOwl!Running
    <2>4. AnswerInv'
        BY <1>1, <1>2, <1>3, <2>1, NothingAnswered
    <2> QED BY <1>2, <2>2, <2>3, <2>4 DEF PipeInv
<1>6. CASE NanoOwl!ListenerStart
    <2>1. /\ owl = "idle" /\ owl' \in {"idle", "inferring", "dead"} /\ legacyOut' = <<>>
          /\ owl' = "inferring" => usedEncodings' = textEncodings
          /\ UNCHANGED <<queryQueue, query, queryText, textEncodings>>
        BY <1>6 DEF NanoOwl!ListenerStart, NanoOwl!cache
    <2>2. QueryInv'
        BY <1>2, <1>3, <2>1 DEF QueryInv
    <2>3. EncodingInv'
        BY <1>3, <2>1 DEF EncodingInv, NanoOwl!Running
    <2>4. AnswerInv'
        BY <1>1, <1>2, <1>3, <2>1, NothingAnswered
    <2> QED BY <1>2, <2>2, <2>3, <2>4 DEF PipeInv
<1>7. CASE NanoOwl!ListenerFinish
    <2>1. /\ owl = "inferring" /\ owl' = "idle"
          /\ UNCHANGED <<queryQueue, query, queryText, textEncodings, usedEncodings>>
        BY <1>7 DEF NanoOwl!ListenerFinish, NanoOwl!cache
    <2>2. QueryInv'
        BY <1>2, <1>3, <2>1 DEF QueryInv
    <2>3. EncodingInv'
        BY <1>3, <2>1 DEF EncodingInv, NanoOwl!Running
    <2>4. AnswerInv'
        BY <1>1, <1>2, <1>3, <1>7, AnswerPublished
    <2> QED BY <1>2, <2>2, <2>3, <2>4 DEF PipeInv
<1>8. CASE NanoOwl!Fail
    <2>1. /\ owl' = "dead" /\ legacyOut' = <<>>
          /\ UNCHANGED <<queryQueue, query, queryText, textEncodings, usedEncodings>>
        BY <1>8 DEF NanoOwl!Fail, NanoOwl!cache
    <2>2. QueryInv'
        BY <1>2, <1>3, <2>1 DEF QueryInv
    <2>3. EncodingInv'
        BY <2>1 DEF EncodingInv, NanoOwl!Running
    <2>4. AnswerInv'
        BY <1>1, <1>2, <1>3, <2>1, NothingAnswered
    <2> QED BY <1>2, <2>2, <2>3, <2>4 DEF PipeInv
<1>9. CASE NanoOwl!ReceiveImage
    <2>1. /\ legacyOut' = <<>>
          /\ UNCHANGED <<owl, queryQueue, query, queryText, textEncodings, usedEncodings>>
        BY <1>9 DEF NanoOwl!ReceiveImage, NanoOwl!cache
    <2>2. QueryInv' /\ EncodingInv'
        BY <1>2, <1>3, <2>1 DEF QueryInv, EncodingInv, NanoOwl!Running
    <2>3. AnswerInv'
        BY <1>1, <1>2, <1>3, <2>1, NothingAnswered
    <2> QED BY <1>2, <2>2, <2>3 DEF PipeInv
<1> QED BY <1>4, <1>5, <1>6, <1>7, <1>8, <1>9 DEF NanoOwlSteps

-------------------------------------------------------------------------------
(* The invariant of the loop: the manager only moves forward, all that is  *)
(* on its way to the controller is the verdict, the queries NanoOWL has    *)
(* and will get come in the order of the phases, and every answer on its   *)
(* way back was computed from a query that has been asked.                 *)
THEOREM PipeInvariance == Spec => []PipeInv
<1>1. PipeInv /\ [Next]_vars => PipeInv'
    <2> SUFFICES ASSUME PipeInv, [Next]_vars PROVE PipeInv'
        OBVIOUS
    <2>1. CASE Tick
        BY <2>1, FrameInv DEF Tick, Manager!Tick, nanoOwlVars, topicVars
    <2>2. CASE ManagerTimer
        BY <2>2, ManagerTimerInv
    <2>3. CASE ManagerHears
        BY <2>3, ManagerHearsInv
    <2>4. CASE NanoOwlSteps
        BY <2>4, NanoOwlInv
    <2>5. CASE ControllerHears
        BY <2>5, ControllerHearsInv
    <2>6. ASSUME NEW topic \in TopicNames, Discover(topic) PROVE PipeInv'
        BY <2>6, FrameInv DEF Discover, managerVars, nanoOwlVars
    <2>7. CASE UNCHANGED vars
        BY <2>7, FrameInv DEF vars, managerVars, nanoOwlVars, topicVars
    <2> QED BY <2>1, <2>2, <2>3, <2>4, <2>5, <2>6, <2>7 DEF Next
<1> QED BY <1>1, InitPipe, PTL DEF Spec

(* NanoOWL never goes back to the query of an earlier stage, whatever is   *)
(* lost, repeated, buffered or dropped (start_probe, lock_scene_mode,      *)
(* query_listener_callback).                                               *)
THEOREM StagesInOrder == Spec => NeverAsksBackwards
<1>1. PipeInv /\ [Next]_vars => [Stage(query') >= Stage(query)]_vars
    <2> SUFFICES ASSUME PipeInv, [Next]_vars, query' # query PROVE Stage(query') >= Stage(query)
        BY StageFacts
    <2>1. NanoOwlSteps
        BY DEF Next, Tick, ManagerTimer, ManagerHears, ControllerHears, Discover, NanoOwl!ReceiveQueries,
               NanoOwl!cache, nanoOwlVars, vars
    <2>2. CASE NanoOwl!Load
        BY <2>2, StageFacts DEF PipeInv, QueryInv, NanoOwl!Load
    <2>3. CASE NanoOwl!QueryListenerCallback
        <3>1. QueryInv /\ PhaseStage \in Nat /\ PhaseStage' = PhaseStage /\ UNCHANGED owl
            BY <2>1, <2>3, PhaseStageType
               DEF PipeInv, NanoOwlSteps, managerVars, PhaseStage, NanoOwl!QueryListenerCallback
        <3> QED BY <2>3, <3>1, QueryTaken, StageFacts
    <2>4. QED
        BY <2>1, <2>2, <2>3 DEF NanoOwlSteps, NanoOwl!ListenerStart, NanoOwl!ListenerFinish,
           NanoOwl!Fail, NanoOwl!ReceiveImage, NanoOwl!cache
<1> QED BY <1>1, PipeInvariance, PTL DEF Spec, NeverAsksBackwards

(* An answer counts for no scene unless it was computed for its probe:     *)
(* earlier answers that arrive late name nothing specific to the scene.    *)
LEMMA LateAnswersAreSilent ==
    ASSUME PhaseInv, Manager!Probing, NEW q \in AllQueries \cup {InitialQuery},
           Stage(q) <= PhaseStage, NEW answer, IsAnswerTo(answer, q),
           Manager!Votes(answer.entries, Manager!ProbedMode) > 0
    PROVE  q = ProbeQueries[Manager!ProbedMode]
<1> DEFINE mode == Manager!ProbedMode
<1>1. mode \in Modes /\ Stage(ProbeQueries[mode]) = PhaseStage /\ PhaseStage \in {1, 2}
    BY RepeatedFacts, PhaseStageFacts DEF Manager!Probing
<1>2. PICK i \in DOMAIN answer.entries :
          NormalizeLabel(answer.entries[i].label) \in Manager!ProbeLabels(mode)
    BY VotesFacts
<1>3. PICK j \in DOMAIN NanoOwl!QueryTexts(q) : answer.entries[i].label = NanoOwl!QueryTexts(q)[j]
    BY DEF IsAnswerTo
<1>4. q \in Seq(Seq(STRING))
    BY UnaskedAssumption
<1> DEFINE label == NormalizeLabel(answer.entries[i].label)
<1>5. label \in ParseLabelSet(q) \cup {<<"person">>}
    BY <1>3, <1>4, TextFacts
<1>6. label \notin ParseLabelSet(InitialQuery) \cup {<<"person">>}
    BY <1>1, <1>2, UnaskedAssumption
<1> HIDE DEF label, mode
<1>7. label \in ParseLabelSet(q) /\ label \in Manager!ProbeLabels(mode) /\ q # InitialQuery
    BY <1>2, <1>5, <1>6 DEF label
<1>8. PICK m \in Modes : q = ProbeQueries[m]
    BY <1>1, <1>7, QueryFacts, StageFacts
<1>9. CASE m # mode
    <2>1. mode \in {"indoor", "outdoor"} /\ m \in {"indoor", "outdoor"}
        BY <1>1, <1>8
    <2>2. label \in ParseLabelSet(ProbeQueries["indoor"]) /\ label \in ParseLabelSet(ProbeQueries["outdoor"])
        BY <1>7, <1>8, <1>9, <2>1, SameOperators DEF Manager!ProbeLabels
    <2>3. label \in Manager!IgnoredProbeLabels
        BY <2>2, SameOperators DEF Manager!IgnoredProbeLabels, Manager!SharedProbeLabels
    <2> QED BY <1>7, <2>3 DEF Manager!ProbeLabels
<1> QED BY <1>8, <1>9 DEF mode

(* A probe is only decided by answers to its own query: answers computed   *)
(* for an earlier query that arrive after the phase has changed add        *)
(* nothing (probe_labels without shared and neutral labels,                *)
(* detections_callback).                                                   *)
THEOREM OwnAnswers == Spec => OnlyOwnAnswersCount
<1> DEFINE Own == \A mode \in DOMAIN probeScores :
                      probeScores'[mode] > probeScores[mode] =>
                          Head(answerQueue).asked = NanoOwl!QueryTexts(ProbeQueries[mode])
<1>1. PipeInv /\ [Next]_vars => [Own]_vars
    <2> SUFFICES ASSUME PipeInv, [Next]_vars, NEW mode \in DOMAIN probeScores,
                        probeScores'[mode] > probeScores[mode]
                 PROVE  Head(answerQueue).asked = NanoOwl!QueryTexts(ProbeQueries[mode])
        OBVIOUS
    <2>1. probeScores \in [Modes -> Nat] /\ mode \in Modes /\ probeScores[mode] \in Nat
        BY DEF PipeInv, PhaseInv
    <2>2. probeScores' # probeScores
        BY <2>1
    <2>3. ManagerHears
        BY <2>2 DEF Next, Tick, Manager!Tick, ManagerTimer, Manager!TimerCallback, NanoOwlSteps,
                    ControllerHears, Discover, managerVars, vars
    <2> DEFINE answer == Head(answerQueue)
               votes == Manager!Votes(answer.entries, Manager!ProbedMode)
    <2>4. /\ answerQueue # <<>> /\ Manager!Probing
          /\ probeScores' = [probeScores EXCEPT ![Manager!ProbedMode] = @ + votes]
        BY <2>2, <2>3 DEF ManagerHears, Manager!DetectionsCallback
    <2>5. PICK q \in AllQueries \cup {InitialQuery} : Stage(q) <= PhaseStage /\ IsAnswerTo(answer, q)
        <3>1. 1 \in DOMAIN answerQueue /\ answer = answerQueue[1]
            BY <2>4 DEF PipeInv, AnswerInv
        <3> QED BY <3>1 DEF PipeInv, AnswerInv
    <2>6. votes \in Nat
        BY <2>5, VotesFacts
    <2> HIDE DEF votes
    <2>7. mode = Manager!ProbedMode /\ votes > 0
        BY <2>1, <2>4, <2>6
    <2>8. q = ProbeQueries[mode]
        BY <2>4, <2>5, <2>7, LateAnswersAreSilent DEF PipeInv, votes
    <2>9. answer.asked = NanoOwl!QueryTexts(q)
        BY <2>5 DEF IsAnswerTo
    <2> QED BY <2>8, <2>9
<1> QED BY <1>1, PipeInvariance, PTL DEF Spec, OnlyOwnAnswersCount

(* The safety half of the refinement: every step of the loop decides the   *)
(* scene, lets the controller learn it, or does not concern either, so     *)
(* that there is one verdict, never another, and the controller knows it   *)
(* or nothing (lock_scene_mode, timer_callback, scene_mode_callback).      *)
THEOREM ImplementsAgreement == Spec => Agreement!Safety
<1>1. Init => Agreement!Init
    BY LaunchAssumption DEF Init, Manager!Init, Manager!Autonomous, Agreement!Init
<1>2. PipeInv /\ [Next]_vars => [Agreement!Decide \/ Agreement!Learn]_(Agreement!agreement)
    <2> SUFFICES ASSUME PipeInv, [Next]_vars
                 PROVE  Agreement!Decide \/ Agreement!Learn \/ UNCHANGED <<lockedSceneMode, sceneMode>>
        BY DEF Agreement!agreement
    <2>1. CASE Tick
        BY <2>1 DEF Tick, Manager!Tick, topicVars
    <2>2. CASE ManagerTimer
        <3>1. PhaseInv' /\ TimerEffect /\ PhaseInv
            BY <2>2, TimerFacts DEF PipeInv, ManagerTimer
        <3>2. UNCHANGED sceneMode
            BY <2>2 DEF ManagerTimer
        <3> QED BY <3>1, <3>2 DEF PhaseInv, TimerEffect, Agreement!Decide
    <2>3. CASE ManagerHears
        BY <2>3 DEF ManagerHears, Manager!DetectionsCallback
    <2>4. CASE NanoOwlSteps
        BY <2>4 DEF NanoOwlSteps, managerVars
    <2>5. CASE ControllerHears
        <3>1. UNCHANGED lockedSceneMode /\ sceneMode' = Head(modeQueue) /\ modeQueue # <<>>
            BY <2>5 DEF ControllerHears, managerVars
        <3>2. modeQueue \in Seq(Modes) /\ \A i \in DOMAIN modeQueue : modeQueue[i] = lockedSceneMode
            BY BoundedSeqFacts, LaunchAssumption DEF PipeInv, ModeInv
        <3>3. Head(modeQueue) = lockedSceneMode /\ lockedSceneMode \in Modes
            BY <3>1, <3>2
        <3> QED BY <3>1, <3>3 DEF Agreement!Learn
    <2>6. ASSUME NEW topic \in TopicNames, Discover(topic) PROVE UNCHANGED <<lockedSceneMode, sceneMode>>
        BY <2>6 DEF Discover, managerVars
    <2>7. CASE UNCHANGED vars
        BY <2>7 DEF vars, managerVars, topicVars
    <2> QED BY <2>1, <2>2, <2>3, <2>4, <2>5, <2>6, <2>7 DEF Next
<1> QED BY <1>1, <1>2, PipeInvariance, PTL DEF Spec, Agreement!Safety
===============================================================================
