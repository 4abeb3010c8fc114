---------------------------- MODULE Perception_proofs ----------------------------
(***************************************************************************)
(* Proofs about NanoOwlNode, for every value of its constants that meets   *)
(* BoundsAssumption: all queries, all depths of the buffer, all boxes and  *)
(* scores, any number of detections, with or without the thresholds.  And  *)
(* about ObjectPosition, for all messages of readable and unreadable       *)
(* entries and all frames with at least one pixel.                         *)
(***************************************************************************)
EXTENDS NanoOwlNode, ObjectPosition, SequenceFacts

(* The constructor's first lines establish the invariant.                  *)
LEMMA InitInv == Init => OwlInv
<1> SUFFICES ASSUME Init PROVE OwlInv
    OBVIOUS
<1>1. queryQueue \in BoundedSeq(QueryStrings, QueryDepth)
    <2>1. <<>> \in Seq(QueryStrings) /\ Len(<<>>) <= QueryDepth
        BY BoundsAssumption
    <2>2. <<>> \in BoundedSeq(QueryStrings, QueryDepth)
        BY <2>1, BoundsAssumption, BoundedSeqFacts
    <2> QED BY <2>2 DEF Init
<1>2. OwlTypeOK
    <2>1. imagePending \in BOOLEAN /\ processingImage \in BOOLEAN
        BY DEF Init
    <2>2. Len(legacyOut) <= 1 /\ Len(found) <= MaxDetections
        BY BoundsAssumption DEF Init
    <2> QED BY <1>1, <2>1, <2>2 DEF Init, OwlTypeOK
<1>3. CacheInv /\ InferenceInv /\ BufferInv /\ LabelsNameWhatWasFound
    BY DEF Init, CacheInv, InferenceInv, BufferInv, LabelsNameWhatWasFound, Running
<1> QED BY <1>2, <1>3 DEF OwlInv

(* The model is loaded: whatever has been buffered meanwhile stays.        *)
LEMMA LoadInv == OwlInv /\ Load => OwlInv'
<1> SUFFICES ASSUME OwlInv, Load PROVE OwlInv'
    OBVIOUS
<1>1. OwlTypeOK'
    BY DEF OwlInv, OwlTypeOK, Load, UpdateQueryCache
<1>2. CacheInv' /\ InferenceInv' /\ LabelsNameWhatWasFound'
    BY DEF Load, UpdateQueryCache, CacheInv, InferenceInv, LabelsNameWhatWasFound
<1>3. BufferInv'
    BY DEF OwlInv, BufferInv, Load
<1> QED BY <1>1, <1>2, <1>3 DEF OwlInv

(* Queries arrive, at any time: the last of them is the last in the        *)
(* buffer, which has dropped the oldest ones if it was full.               *)
LEMMA ReceiveQueriesInv ==
    ASSUME OwlInv, NEW sent \in Seq(QueryStrings), NEW linked \in BOOLEAN,
           ReceiveQueries(sent, linked), legacyOut' \in {<<>>, legacyOut}
    PROVE  OwlInv'
<1>1. queryQueue \in BoundedSeq(QueryStrings, QueryDepth)
    BY DEF OwlInv, OwlTypeOK
<1>2. /\ queryQueue' \in BoundedSeq(QueryStrings, QueryDepth)
      /\ ~linked \/ sent = <<>> => queryQueue' = queryQueue
      /\ linked /\ sent # <<>> => queryQueue' # <<>> /\ Last(queryQueue') = Last(sent)
    BY <1>1, DeliverFacts, BoundsAssumption DEF ReceiveQueries
<1>3. OwlTypeOK'
    <2>1. Len(legacyOut') <= 1 /\ Len(found') <= MaxDetections
        BY DEF OwlInv, OwlTypeOK, ReceiveQueries
    <2>2. UNCHANGED <<owl, query, imagePending, processingImage>>
        BY DEF ReceiveQueries, cache
    <2> QED BY <1>2, <2>1, <2>2 DEF OwlInv, OwlTypeOK
<1>4. CacheInv' /\ InferenceInv'
    BY DEF OwlInv, CacheInv, InferenceInv, Running, ReceiveQueries, cache
<1>5. BufferInv'
    <2>1. CASE linked /\ sent # <<>>
        BY <1>2, <2>1 DEF BufferInv, ReceiveQueries
    <2>2. CASE ~linked \/ sent = <<>>
        BY <1>2, <2>2 DEF OwlInv, BufferInv, ReceiveQueries, cache
    <2> QED BY <2>1, <2>2
<1>6. LabelsNameWhatWasFound'
    <2>1. CASE legacyOut' = <<>>
        BY <2>1 DEF LabelsNameWhatWasFound
    <2>2. CASE legacyOut' = legacyOut
        BY <2>2 DEF OwlInv, LabelsNameWhatWasFound, ReceiveQueries
    <2> QED BY <2>1, <2>2
<1> QED BY <1>3, <1>4, <1>5, <1>6 DEF OwlInv

(* An image arrives.                                                       *)
LEMMA ReceiveImageInv == OwlInv /\ ReceiveImage => OwlInv'
BY DEF OwlInv, OwlTypeOK, CacheInv, InferenceInv, BufferInv, LabelsNameWhatWasFound,
       Running, ReceiveImage, cache

(* The oldest buffered query is taken: it is the current query afterwards, *)
(* whether the cache was computed anew or not, and the one that arrived    *)
(* last if it was the only one.                                            *)
LEMMA QueryListenerInv == OwlInv /\ QueryListenerCallback => OwlInv'
<1> SUFFICES ASSUME OwlInv, QueryListenerCallback PROVE OwlInv'
    OBVIOUS
<1>1. /\ queryQueue \in Seq(QueryStrings) /\ Len(queryQueue) <= QueryDepth
      /\ queryQueue # <<>> /\ queryQueue' = Tail(queryQueue)
    BY BoundsAssumption, BoundedSeqFacts DEF OwlInv, OwlTypeOK, QueryListenerCallback
<1>2. queryQueue' \in BoundedSeq(QueryStrings, QueryDepth)
    <2>1. Tail(queryQueue) \in Seq(QueryStrings) /\ Len(Tail(queryQueue)) <= QueryDepth
        BY <1>1, BoundsAssumption
    <2> QED BY <1>1, <2>1, BoundsAssumption, BoundedSeqFacts
<1>3. query' = Head(queryQueue) /\ Head(queryQueue) \in QueryStrings
    BY <1>1 DEF QueryListenerCallback, IsNewQuery, UpdateQueryCache, cache
<1>4. OwlTypeOK'
    BY <1>2, <1>3 DEF OwlInv, OwlTypeOK, QueryListenerCallback
<1>5. owl' = "idle" /\ owl = "idle"
    BY DEF QueryListenerCallback, MayTakeQuery
<1>6. CacheInv' /\ InferenceInv' /\ LabelsNameWhatWasFound'
    BY <1>5 DEF OwlInv, CacheInv, InferenceInv, LabelsNameWhatWasFound, Running,
                QueryListenerCallback, UpdateQueryCache, cache
<1>7. BufferInv'
    <2> SUFFICES ASSUME lastReceived # <<>> PROVE BufferInv'
        BY DEF BufferInv, QueryListenerCallback
    <2>1. lastReceived' = <<Last(queryQueue)>>
        BY <1>1 DEF OwlInv, BufferInv, QueryListenerCallback
    <2>2. CASE queryQueue' = <<>>
        <3>1. Last(queryQueue) = Head(queryQueue)
            BY <1>1, <2>2 DEF Last
        <3> QED BY <1>3, <1>5, <2>1, <2>2, <3>1 DEF BufferInv
    <2>3. CASE queryQueue' # <<>>
        <3>1. Last(queryQueue') = Last(queryQueue)
            BY <1>1, <2>3 DEF Last
        <3> QED BY <2>1, <2>3, <3>1 DEF BufferInv
    <2> QED BY <2>2, <2>3
<1> QED BY <1>4, <1>6, <1>7 DEF OwlInv

(* An inference starts, with the encodings of the cache, or the missing    *)
(* thresholds end the process.                                             *)
LEMMA ListenerStartInv == OwlInv /\ ListenerStart => OwlInv'
<1> SUFFICES ASSUME OwlInv, ListenerStart PROVE OwlInv'
    OBVIOUS
<1>1. OwlTypeOK'
    <2>1. imagePending' \in BOOLEAN /\ processingImage' \in BOOLEAN
        BY DEF OwlInv, OwlTypeOK, ListenerStart
    <2>2. owl' \in {"idle", "inferring", "dead"} /\ Len(legacyOut') <= 1
        BY DEF OwlInv, OwlTypeOK, ListenerStart
    <2>3. UNCHANGED <<queryQueue, query, found>>
        BY DEF ListenerStart, cache
    <2> QED BY <2>1, <2>2, <2>3 DEF OwlInv, OwlTypeOK
<1>2. CacheInv' /\ InferenceInv' /\ BufferInv' /\ LabelsNameWhatWasFound'
    BY DEF OwlInv, CacheInv, InferenceInv, BufferInv, LabelsNameWhatWasFound, Running,
           ListenerStart, cache
<1> QED BY <1>1, <1>2 DEF OwlInv

(* An inference ends: self.query_text is still the list of the texts that  *)
(* were encoded, because no query is taken during an inference.            *)
LEMMA ListenerFinishInv == OwlInv /\ ListenerFinish => OwlInv'
<1> SUFFICES ASSUME OwlInv, ListenerFinish PROVE OwlInv'
    OBVIOUS
<1>1. PICK labels \in BoundedSeq(DOMAIN usedEncodings, MaxDetections) :
      \E boxes \in [DOMAIN labels -> ImageBoxes], score \in Scores :
          /\ found' = labels
          /\ legacyOut' = LegacyMessages(labels, [i \in DOMAIN labels |->
                 [label |-> ClassName(labels[i]), box |-> boxes[i], confidence |-> score]])
          /\ processingImage' = FALSE
    BY DEF ListenerFinish
<1>2. PICK boxes \in [DOMAIN labels -> ImageBoxes], score \in Scores :
          legacyOut' = LegacyMessages(labels, [i \in DOMAIN labels |->
              [label |-> ClassName(labels[i]), box |-> boxes[i], confidence |-> score]])
    BY <1>1
<1>3. labels \in Seq(DOMAIN usedEncodings) /\ Len(labels) <= MaxDetections
    BY BoundsAssumption, BoundedSeqFacts
<1>4. /\ found' = labels /\ owl = "inferring" /\ owl' = "idle" /\ processingImage' = FALSE
      /\ UNCHANGED <<queryQueue, imagePending, query, queryText, textEncodings, usedEncodings,
                     lastReceived>>
    BY <1>1 DEF ListenerFinish, cache
<1>5. usedEncodings = queryText
    BY <1>4 DEF OwlInv, CacheInv, InferenceInv, Running
<1>6. \A k \in DOMAIN legacyOut' :
          legacyOut'[k] = [i \in DOMAIN labels |->
              [label |-> ClassName(labels[i]), box |-> boxes[i], confidence |-> score]]
    BY <1>2 DEF LegacyMessages
<1>7. \A i \in DOMAIN labels : ClassName(labels[i]) = usedEncodings[labels[i]]
    BY <1>3, <1>5 DEF ClassName
<1>8. LabelsNameWhatWasFound'
    BY <1>4, <1>6, <1>7 DEF LabelsNameWhatWasFound
<1>9. Len(legacyOut') <= 1
    BY <1>2 DEF LegacyMessages
<1>10. OwlTypeOK'
    BY <1>3, <1>4, <1>9 DEF OwlInv, OwlTypeOK
<1>11. CacheInv' /\ InferenceInv' /\ BufferInv'
    BY <1>4 DEF OwlInv, CacheInv, InferenceInv, BufferInv, Running
<1> QED BY <1>8, <1>10, <1>11 DEF OwlInv

(* The process ends, while loading or later.                               *)
LEMMA FailInv == OwlInv /\ Fail => OwlInv'
<1> SUFFICES ASSUME OwlInv, Fail PROVE OwlInv'
    OBVIOUS
<1>1. OwlTypeOK'
    <2>1. processingImage' = FALSE /\ owl' = "dead" /\ legacyOut' = <<>>
        BY DEF Fail
    <2>2. processingImage' \in BOOLEAN
        BY <2>1
    <2>3. Len(legacyOut') <= 1
        BY <2>1
    <2>4. UNCHANGED <<queryQueue, query, imagePending, found>>
        BY DEF Fail, cache
    <2> QED BY <2>1, <2>2, <2>3, <2>4 DEF OwlInv, OwlTypeOK
<1>2. CacheInv' /\ InferenceInv' /\ BufferInv' /\ LabelsNameWhatWasFound'
    BY DEF OwlInv, CacheInv, InferenceInv, BufferInv, LabelsNameWhatWasFound, Running, Fail, cache
<1> QED BY <1>1, <1>2 DEF OwlInv

-------------------------------------------------------------------------------
(* The invariant holds in every reachable state.                           *)
THEOREM OwlInvariance == Spec => []OwlInv
<1>1. OwlInv /\ [Next]_owlVars => OwlInv'
    <2> SUFFICES ASSUME OwlInv, [Next]_owlVars PROVE OwlInv'
        OBVIOUS
    <2>1. CASE UNCHANGED owlVars
        BY <2>1 DEF owlVars, OwlInv, OwlTypeOK, CacheInv, InferenceInv, BufferInv,
                    LabelsNameWhatWasFound, Running
    <2>2. ASSUME NEW q \in QueryStrings, ReceiveQueries(<<q>>, TRUE), legacyOut' = <<>>
          PROVE  OwlInv'
        <3>1. <<q>> \in Seq(QueryStrings) /\ TRUE \in BOOLEAN
            OBVIOUS
        <3> QED BY <2>2, <3>1, ReceiveQueriesInv
    <2> QED BY <2>1, <2>2, LoadInv, ReceiveImageInv, QueryListenerInv, ListenerStartInv,
               ListenerFinishInv, FailInv DEF Next, Callback
<1> QED BY <1>1, InitInv, PTL DEF Spec

(* Every entry of a published message carries the name of the label whose  *)
(* encoding the model matched (listener_callback reads self.query_text     *)
(* again after the inference).                                             *)
THEOREM LabelsAreRight == Spec => []LabelsNameWhatWasFound
<1>1. OwlInv => LabelsNameWhatWasFound
    BY DEF OwlInv
<1> QED BY <1>1, OwlInvariance, PTL

(* Once the buffer is worked off the node looks for what was asked last,   *)
(* with the texts and the encodings of that query, for every depth of the  *)
(* buffer (query_listener_callback, _update_query_cache).                  *)
THEOREM NewestQuery == Spec => []NewestQueryWins
<1>1. OwlInv => NewestQueryWins
    BY DEF OwlInv, CacheInv, BufferInv, NewestQueryWins
<1> QED BY <1>1, OwlInvariance, PTL

-------------------------------------------------------------------------------
(* The inputs of the position node: entries as EntryType describes them,   *)
(* and frames with at least one pixel.                                     *)
PositionInputs ==
    /\ Entries \subseteq EntryType
    /\ FrameSizes \subseteq (Nat \ {0}) \X (Nat \ {0})
    /\ MaxEntries \in Nat

(* Of some places in a sequence, one is the first of the best.             *)
IsBest(b, C, f) == \A m \in C : f[m] <= f[b] /\ (m < b => f[m] < f[b])

LEMMA BestExists ==
    ASSUME NEW n \in Nat, NEW C \in SUBSET (1..n), C # {}, NEW f \in [C -> Nat]
    PROVE  \E b \in C : IsBest(b, C, f)
<1> DEFINE Upto(k) == C \cap (1..k)
           S == {k \in Nat : Upto(k) # {} => \E b \in Upto(k) : IsBest(b, Upto(k), f)}
<1>1. 0 \in S
    OBVIOUS
<1>2. ASSUME NEW k \in Nat, k \in S PROVE k + 1 \in S
    <2>1. Upto(k + 1) = IF k + 1 \in C THEN Upto(k) \cup {k + 1} ELSE Upto(k)
        OBVIOUS
    <2>2. \A m \in Upto(k) : m \in Nat /\ m < k + 1 /\ m \in C /\ f[m] \in Nat
        OBVIOUS
    <2>3. Upto(k) # {} => \E b \in Upto(k) : IsBest(b, Upto(k), f)
        BY <1>2
    <2> HIDE DEF Upto
    <2>4. CASE k + 1 \notin C
        BY <2>1, <2>3, <2>4
    <2>5. CASE k + 1 \in C /\ Upto(k) = {}
        <3>1. Upto(k + 1) = {k + 1} /\ f[k + 1] \in Nat
            BY <2>1, <2>5
        <3>2. IsBest(k + 1, Upto(k + 1), f)
            BY <3>1 DEF IsBest
        <3> QED BY <3>1, <3>2
    <2>6. CASE k + 1 \in C /\ Upto(k) # {}
        <3>1. PICK b \in Upto(k) : IsBest(b, Upto(k), f)
            BY <2>3, <2>6
        <3>2. f[k + 1] \in Nat /\ f[b] \in Nat /\ b < k + 1
            BY <2>2, <2>6
        <3>3. CASE f[k + 1] > f[b]
            <4>1. IsBest(k + 1, Upto(k + 1), f)
                BY <2>1, <2>2, <2>6, <3>1, <3>2, <3>3 DEF IsBest
            <4> QED BY <2>1, <2>6, <4>1
        <3>4. CASE f[k + 1] <= f[b]
            <4>1. \A m \in Upto(k) : f[m] <= f[b] /\ (m < b => f[m] < f[b])
                BY <3>1 DEF IsBest
            <4>2. ~(k + 1 < b)
                BY <2>2, <3>2
            <4>3. IsBest(b, Upto(k + 1), f)
                BY <2>1, <2>6, <3>4, <4>1, <4>2 DEF IsBest
            <4> QED BY <2>1, <2>6, <4>3
        <3> QED BY <3>2, <3>3, <3>4
    <2> QED BY <2>4, <2>5, <2>6
<1>3. n \in S
    <2> HIDE DEF S
    <2> QED BY <1>1, <1>2, NatSet
<1>4. Upto(n) = C
    OBVIOUS
<1> QED BY <1>3, <1>4

(* What BestDetection returns.                                             *)
LEMMA BestFacts ==
    ASSUME NEW n \in Nat, NEW msg \in [1..n -> EntryType], TargetDetections(msg) # {}
    PROVE  \E b \in TargetDetections(msg) :
               /\ BestDetection(msg) = msg[b]
               /\ \A m \in TargetDetections(msg) :
                      /\ msg[m].confidence <= msg[b].confidence
                      /\ m < b => msg[m].confidence < msg[b].confidence
<1> DEFINE C == TargetDetections(msg)
           f == [i \in C |-> msg[i].confidence]
           Best(b) == \A m \in C : /\ msg[m].confidence <= msg[b].confidence
                                   /\ m < b => msg[m].confidence < msg[b].confidence
<1>1. C \in SUBSET (1..n)
    BY DEF TargetDetections
<1>2. \A i \in C : msg[i].confidence \in Nat
    BY <1>1 DEF EntryType
<1> HIDE DEF C
<1>3. f \in [C -> Nat] /\ \A i \in C : f[i] = msg[i].confidence
    BY <1>2
<1> HIDE DEF f
<1>4. PICK b \in C : IsBest(b, C, f)
    BY <1>1, <1>3, BestExists DEF C
<1>5. Best(b)
    BY <1>3, <1>4 DEF IsBest
<1> DEFINE c == CHOOSE i \in C : Best(i)
<1>6. c \in C /\ Best(c)
    BY <1>5
<1>7. BestDetection(msg) = msg[c]
    BY DEF BestDetection, C
<1> QED BY <1>6, <1>7 DEF C

(* int() of a number of half pixels that is a column or row of the frame.  *)
LEMMA TruncateFacts ==
    ASSUME NEW half \in Int, NEW size \in Nat, Truncate(half) \in 0..size - 1
    PROVE  half \in -1..2 * size - 1
<1>1. CASE half >= 0
    BY <1>1 DEF Truncate
<1>2. CASE half < 0
    BY <1>2 DEF Truncate
<1> QED BY <1>1, <1>2

(* A message gives a pose of the best detection, or none.                  *)
LEMMA YoloStep ==
    ASSUME PositionInputs, PositionInv, NEW msg \in Messages, NEW depth \in 0..1,
           YoloCallback(msg, depth)
    PROVE  PositionInv'
<1> DEFINE best == BestDetection(msg)
           matching == TargetDetections(msg)
           used == depthImage # <<>> /\ matching # {} /\ best.confidence >= 20
<1>1. /\ message' = msg /\ UNCHANGED <<targetObject, fov, imageWidth, depthImage>>
      /\ node' = (IF used /\ ~best.boxOk THEN "dead" ELSE node)
      /\ cause' = (IF used /\ ~best.boxOk THEN "malformed box" ELSE cause)
      /\ pose' = (IF used /\ best.boxOk /\ InFrame(best) /\ depth > 0
                  THEN <<PoseOf(best, depth)>> ELSE <<>>)
    BY DEF YoloCallback
<1>2. PICK n \in 0..MaxEntries : msg \in [1..n -> EntryType]
    BY DEF Messages, PositionInputs
<1>3. n \in Nat
    BY DEF PositionInputs
<1> HIDE DEF best, matching
<1>4. TypeOK'
    BY <1>1, <1>2 DEF TypeOK, PositionInv, PlacedAsSeen
<1>5. WidthKnownWithDepth' /\ (depthImage' # <<>> => depthImage' \in [w : Nat, h : Nat])
    BY <1>1 DEF WidthKnownWithDepth, PositionInv, PlacedAsSeen
<1>6. ASSUME pose' # <<>>
      PROVE  /\ used /\ InFrame(best) /\ pose'[1].from = best
             /\ \E b \in matching : /\ best = msg[b]
                                    /\ \A m \in matching : /\ msg[m].confidence <= msg[b].confidence
                                                           /\ m < b => msg[m].confidence < msg[b].confidence
    <2>1. used /\ InFrame(best) /\ pose' = <<PoseOf(best, depth)>>
        BY <1>1, <1>6
    <2>2. pose'[1].from = best
        BY <2>1 DEF PoseOf
    <2> QED BY <1>2, <1>3, <2>1, <2>2, BestFacts DEF best, matching
<1>7. OnlyTheBestIsPlaced'
    <2> SUFFICES ASSUME pose' # <<>> PROVE OnlyTheBestIsPlaced'
        BY DEF OnlyTheBestIsPlaced
    <2>1. PICK b \in matching : /\ best = msg[b]
                                /\ \A m \in matching : /\ msg[m].confidence <= msg[b].confidence
                                                       /\ m < b => msg[m].confidence < msg[b].confidence
        BY <1>6
    <2>2. pose'[1].from = msg[b] /\ msg[b].confidence >= 20
        BY <1>6, <2>1
    <2>3. /\ b \in DOMAIN message' /\ b \in 1..n /\ message' = msg /\ targetObject' = targetObject
          /\ msg[b].read /\ msg[b].object = targetObject
          /\ \A m \in DOMAIN msg : msg[m].read /\ msg[m].object = targetObject => m \in matching
        BY <1>1, <1>2 DEF matching, TargetDetections
    <2>4. \A m \in 1..b - 1 : m \in DOMAIN msg /\ m < b
        BY <1>2, <1>3, <2>3
    <2>5. /\ b \in DOMAIN message' /\ message'[b] = pose'[1].from
          /\ pose'[1].from.read /\ pose'[1].from.object = targetObject'
          /\ pose'[1].from.confidence >= 20
        BY <2>2, <2>3
    <2>6. ASSUME NEW m \in DOMAIN message', message'[m].read, message'[m].object = targetObject'
          PROVE  /\ message'[m].confidence <= pose'[1].from.confidence
                 /\ m < b => message'[m].confidence < pose'[1].from.confidence
        <3>1. m \in matching /\ message'[m] = msg[m] /\ pose'[1].from = msg[b]
            BY <2>2, <2>3, <2>6
        <3> QED BY <2>1, <3>1
    <2>7. \A m \in 1..b - 1 : m \in DOMAIN message' /\ m < b
        BY <2>3, <2>4
    <2> HIDE DEF used
    <2> QED BY <2>5, <2>6, <2>7 DEF OnlyTheBestIsPlaced
<1>8. PlacedInsideItsFrame'
    <2> SUFFICES ASSUME pose' # <<>>
                 PROVE  /\ best.cx2 \in -1 .. 2 * depthImage.w - 1
                        /\ best.cy2 \in -1 .. 2 * depthImage.h - 1
        BY <1>1, <1>6 DEF PlacedInsideItsFrame
    <2>1. depthImage.w \in Nat /\ depthImage.h \in Nat
        BY <1>6 DEF PositionInv
    <2>2. best \in EntryType
        <3>1. PICK b \in matching : best = msg[b]
            BY <1>6
        <3>2. b \in 1..n
            BY <1>2 DEF matching, TargetDetections
        <3> QED BY <1>2, <3>1, <3>2
    <2>3. best.cx2 \in Int /\ best.cy2 \in Int
        BY <2>2 DEF EntryType
    <2> QED BY <1>6, <2>1, <2>3, TruncateFacts DEF InFrame
<1> QED BY <1>4, <1>5, <1>7, <1>8 DEF PositionInv, PlacedAsSeen

(* Every pose is that of the best detection, by a pixel of its frame       *)
(* (PlacedAsSeen), whatever messages and frames come in which order.       *)
THEOREM PositionIsThatOfTheBest ==
    ASSUME PositionInputs PROVE PositionSpec => []PlacedAsSeen
<1>1. PositionInit => PositionInv
    BY DEF PositionInit, PositionInv, PlacedAsSeen, TypeOK,
           WidthKnownWithDepth, OnlyTheBestIsPlaced, PlacedInsideItsFrame
<1>2. PositionInv /\ [PositionNext]_positionVars => PositionInv'
    <2> SUFFICES ASSUME PositionInv, [PositionNext]_positionVars
                 PROVE  PositionInv'
        OBVIOUS
    <2> USE DEF PositionInv, PlacedAsSeen
    <2>1. ASSUME pose' = <<>> PROVE OnlyTheBestIsPlaced' /\ PlacedInsideItsFrame'
        BY <2>1 DEF OnlyTheBestIsPlaced, PlacedInsideItsFrame
    <2>2. ASSUME NEW object \in ObjectTypes, NEW angle \in Fovs, ParameterCallback(object, angle)
          PROVE  PositionInv'
        <3>1. TypeOK'
            BY <2>2 DEF ParameterCallback, TypeOK
        <3> QED BY <2>1, <2>2, <3>1 DEF ParameterCallback, WidthKnownWithDepth
    <2>3. ASSUME NEW size \in FrameSizes, NEW converts \in BOOLEAN, DepthCallback(size, converts)
          PROVE  PositionInv'
        <3>1. size[1] \in Nat \ {0} /\ size[2] \in Nat \ {0}
            BY DEF PositionInputs
        <3>2. TypeOK'
            BY <2>3 DEF DepthCallback, TypeOK
        <3>3. [w |-> size[1], h |-> size[2]] \in [w : Nat, h : Nat] /\ [w |-> size[1], h |-> size[2]] # <<>>
            BY <3>1
        <3>4. WidthKnownWithDepth' /\ (depthImage' # <<>> => depthImage' \in [w : Nat, h : Nat])
            BY <2>3, <3>1, <3>3 DEF DepthCallback, WidthKnownWithDepth
        <3> QED BY <2>1, <2>3, <3>2, <3>4 DEF DepthCallback
    <2>4. ASSUME NEW msg \in Messages, NEW depth \in 0..1, YoloCallback(msg, depth)
          PROVE  PositionInv'
        BY <2>4, YoloStep
    <2>5. CASE UNCHANGED positionVars
        BY <2>5 DEF positionVars, TypeOK, WidthKnownWithDepth,
                    OnlyTheBestIsPlaced, PlacedInsideItsFrame
    <2> QED BY <2>2, <2>3, <2>4, <2>5 DEF PositionNext
<1>3. PositionInv => PlacedAsSeen
    BY DEF PositionInv
<1> QED BY <1>1, <1>2, <1>3, PTL DEF PositionSpec
===============================================================================
