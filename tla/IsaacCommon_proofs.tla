------------------------- MODULE IsaacCommon_proofs -------------------------
(***************************************************************************)
(* What the parts of isaac_ros_common promise.  The synchronizer, for      *)
(* every number of streams, threshold, buffer size and minimum: its        *)
(* inductive invariant adds to the checked properties that a message still *)
(* waiting has a later number than the one of its stream delivered last.   *)
(* run_command, for every output: log, lines and screen are those of the   *)
(* command however its steps and the copying loop's interleave.            *)
(***************************************************************************)
EXTENDS MessageSynchronizer, LogProcess, SequenceFacts

Msg == [ts : Nat, serial : Nat]

SyncTypeOK ==
    /\ minNumber \in Nat /\ ordered \in BOOLEAN
    /\ buffer \in [Streams -> Seq(Msg)]
    /\ next \in [Streams -> Int] /\ current \in [Streams -> Int]
    /\ looping \in BOOLEAN /\ waiting \in BOOLEAN
    /\ serial \in Nat /\ calls \in Nat /\ stamp \in Int
    /\ latest \in [Streams -> Nat]

Fresh ==
    \A s \in Streams :
        /\ latest[s] <= serial
        /\ \A i \in 1 .. Len(buffer[s]) : latest[s] < buffer[s][i].serial /\ buffer[s][i].serial <= serial

SyncInv == SyncTypeOK /\ NextIsFront /\ Fresh /\ NothingLeftBehind

-------------------------------------------------------------------------------
(* The elements of a buffer are messages.                                  *)
LEMMA Element ==
    ASSUME NEW messages \in Seq(Msg), NEW i \in 1 .. Len(messages)
    PROVE  messages[i] \in Msg /\ messages[i].ts \in Nat /\ messages[i].serial \in Nat
<1>1. messages[i] \in Msg
  OBVIOUS
<1> QED BY <1>1 DEF Msg

(* Push keeps the messages, but for the front of a full buffer, and adds   *)
(* the new one at the end.                                                 *)
LEMMA PushKeepsOrder ==
    ASSUME NEW messages \in Seq(Msg), NEW m \in Msg
    PROVE  /\ Pushed(messages, m) \in Seq(Msg)
           /\ \E d \in {0, 1} :
                /\ Len(Pushed(messages, m)) = Len(messages) - d + 1
                /\ d <= Len(messages)
                /\ \A i \in 1 .. (Len(messages) - d) : Pushed(messages, m)[i] = messages[i + d]
                /\ Pushed(messages, m)[Len(messages) - d + 1] = m
<1>1. CASE Len(messages) >= BufferSize
  <2>1. messages # <<>> /\ Len(messages) > 0
    BY <1>1, SyncAssumption
  <2>2. Tail(messages) \in Seq(Msg) /\ Len(Tail(messages)) = Len(messages) - 1
    BY <2>1
  <2>3. \A i \in 1 .. (Len(messages) - 1) : Tail(messages)[i] = messages[i + 1]
    BY <2>1
  <2>4. Pushed(messages, m) = Append(Tail(messages), m)
    BY <1>1 DEF Pushed
  <2>5. Pushed(messages, m) \in Seq(Msg) /\ Len(Pushed(messages, m)) = Len(messages)
    BY <2>2, <2>4
  <2>6. \A i \in 1 .. (Len(messages) - 1) : Pushed(messages, m)[i] = messages[i + 1]
    BY <2>2, <2>3, <2>4
  <2>7. Pushed(messages, m)[Len(messages)] = m
    BY <2>1, <2>2, <2>4
  <2>8. Len(messages) \in Nat /\ Len(messages) - 1 + 1 = Len(messages) /\ 1 <= Len(messages)
    BY <2>1
  <2>9. 1 \in {0, 1}
    OBVIOUS
  <2> QED BY <2>5, <2>6, <2>7, <2>8, <2>9
<1>2. CASE ~(Len(messages) >= BufferSize)
  <2>1. Pushed(messages, m) = Append(messages, m)
    BY <1>2 DEF Pushed
  <2> QED BY <2>1
<1> QED BY <1>1, <1>2

(* Pop keeps all messages but the front.                                   *)
LEMMA PopKeepsOrder ==
    ASSUME NEW messages \in Seq(Msg), messages # <<>>
    PROVE  /\ Tail(messages) \in Seq(Msg)
           /\ Len(Tail(messages)) = Len(messages) - 1
           /\ \A i \in 1 .. Len(Tail(messages)) : Tail(messages)[i] = messages[i + 1]
           /\ messages[1] \in Msg
           /\ Len(messages) > 0
  OBVIOUS

-------------------------------------------------------------------------------
(* The constructor establishes the invariant.                              *)
LEMMA InitSyncInv == Init => SyncInv
<1> SUFFICES ASSUME Init PROVE SyncInv
  OBVIOUS
<1>1. SyncTypeOK
  <2>1. buffer \in [Streams -> Seq(Msg)]
    BY DEF Init
  <2>2. next \in [Streams -> Int] /\ current \in [Streams -> Int] /\ stamp \in Int /\ latest \in [Streams -> Nat]
    BY DEF Init, None
  <2>3. minNumber \in Nat /\ serial \in Nat /\ calls \in Nat
    BY SyncAssumption DEF Init
  <2>4. ordered \in BOOLEAN /\ looping \in BOOLEAN /\ waiting \in BOOLEAN
    BY DEF Init
  <2> QED BY <2>1, <2>2, <2>3, <2>4 DEF SyncTypeOK
<1>2. \A s \in Streams : buffer[s] = <<>> /\ latest[s] = 0
  BY DEF Init
<1>3. NextIsFront /\ Fresh
  BY <1>2 DEF Init, NextIsFront, Fresh
<1>4. NothingLeftBehind
  BY <1>2, SyncAssumption DEF NothingLeftBehind
<1> QED BY <1>1, <1>3, <1>4 DEF SyncInv

(* AddMessage preserves the invariant: the new message is the last one and *)
(* has the highest number.                                                 *)
LEMMA AddMessageSyncInv ==
    ASSUME SyncInv, NEW s \in Streams, NEW ts \in 0 .. MaxTime, NEW trigger \in BOOLEAN,
           AddMessage(s, ts, trigger)
    PROVE  SyncInv'
<1> USE SyncAssumption
<1> DEFINE m == [ts |-> ts, serial |-> serial + 1]
<1>1. m \in Msg /\ buffer[s] \in Seq(Msg) /\ serial' = serial + 1 /\ serial \in Nat
  BY DEF SyncInv, SyncTypeOK, Msg, AddMessage
<1>2. buffer' = [buffer EXCEPT ![s] = Pushed(buffer[s], m)] /\ buffer'[s] = Pushed(buffer[s], m)
  BY DEF AddMessage, SyncInv, SyncTypeOK
<1>3. PICK d \in {0, 1} :
        /\ Len(buffer'[s]) = Len(buffer[s]) - d + 1
        /\ d <= Len(buffer[s])
        /\ \A i \in 1 .. (Len(buffer[s]) - d) : buffer'[s][i] = buffer[s][i + d]
        /\ buffer'[s][Len(buffer[s]) - d + 1] = m
  <2>1. \E d \in {0, 1} :
           /\ Len(Pushed(buffer[s], m)) = Len(buffer[s]) - d + 1
           /\ d <= Len(buffer[s])
           /\ \A i \in 1 .. (Len(buffer[s]) - d) : Pushed(buffer[s], m)[i] = buffer[s][i + d]
           /\ Pushed(buffer[s], m)[Len(buffer[s]) - d + 1] = m
    <3> HIDE DEF m
    <3> QED BY <1>1, PushKeepsOrder
  <2> HIDE DEF m
  <2> QED BY <2>1, <1>2
<1>4. buffer'[s] \in Seq(Msg)
  BY <1>1, <1>2, PushKeepsOrder
<1>5. Len(buffer'[s]) >= 1 /\ buffer'[s][1] \in Msg
  <2>1. Len(buffer[s]) \in Nat /\ Len(buffer'[s]) \in Nat
    BY <1>1, <1>4
  <2>2. Len(buffer'[s]) >= 1
    BY <2>1, <1>3
  <2> QED BY <2>1, <2>2, <1>4
<1>6. SyncTypeOK'
  <2>1. buffer' \in [Streams -> Seq(Msg)]
    BY <1>2, <1>4 DEF SyncInv, SyncTypeOK
  <2>2. next' = [next EXCEPT ![s] = buffer'[s][1].ts] /\ buffer'[s][1].ts \in Int
    BY <1>5 DEF AddMessage, NextAfterPush, Msg
  <2>3. next' \in [Streams -> Int] /\ current' \in [Streams -> Int]
    BY <2>2 DEF SyncInv, SyncTypeOK, AddMessage
  <2>4. waiting' \in BOOLEAN /\ looping' \in BOOLEAN
    BY DEF AddMessage
  <2> QED BY <2>1, <2>3, <2>4 DEF SyncInv, SyncTypeOK, AddMessage, config, callback
<1>7. \A r \in Streams : r # s => buffer'[r] = buffer[r] /\ next'[r] = next[r]
  BY <1>2 DEF SyncInv, SyncTypeOK, AddMessage
<1>8. next'[s] = buffer'[s][1].ts
  BY DEF AddMessage, NextAfterPush, SyncInv, SyncTypeOK
<1>9. latest' = latest
  BY DEF AddMessage, callback
<1>10. \A i \in 1 .. Len(buffer'[s]) :
         \/ /\ i = Len(buffer'[s]) /\ buffer'[s][i] = m
         \/ /\ i + d \in 1 .. Len(buffer[s]) /\ i < Len(buffer'[s]) /\ buffer'[s][i] = buffer[s][i + d]
  <2>1. Len(buffer[s]) \in Nat /\ Len(buffer'[s]) \in Nat
    BY <1>1, <1>4
  <2> TAKE i \in 1 .. Len(buffer'[s])
  <2>2. CASE i = Len(buffer'[s])
    BY <2>1, <2>2, <1>3
  <2>3. CASE i < Len(buffer'[s])
    <3>1. i \in 1 .. (Len(buffer[s]) - d) /\ i + d \in 1 .. Len(buffer[s])
      BY <2>1, <2>3, <1>3
    <3> QED BY <3>1, <2>3, <1>3
  <2> QED BY <2>1, <2>2, <2>3
<1>11. NextIsFront'
  <2> SUFFICES ASSUME NEW r \in Streams
               PROVE  /\ buffer'[r] # <<>> => next'[r] = buffer'[r][1].ts
                      /\ \A i, j \in 1 .. Len(buffer'[r]) : i < j => buffer'[r][i].serial < buffer'[r][j].serial
    BY DEF NextIsFront
  <2>1. CASE r # s
    BY <2>1, <1>7 DEF SyncInv, NextIsFront
  <2>2. CASE r = s
    <3> SUFFICES ASSUME NEW i \in 1 .. Len(buffer'[s]), NEW j \in 1 .. Len(buffer'[s]), i < j
                 PROVE  buffer'[s][i].serial < buffer'[s][j].serial
      BY <2>2, <1>8
    <3>1. i + d \in 1 .. Len(buffer[s]) /\ buffer'[s][i] = buffer[s][i + d]
      BY <1>10, <1>4
    <3>2. buffer[s][i + d].serial <= serial /\ buffer[s][i + d].serial \in Nat
      BY <3>1, <1>1, Element DEF SyncInv, Fresh
    <3>3. CASE buffer'[s][j] = m
      BY <3>1, <3>2, <3>3, <1>1
    <3>4. CASE j + d \in 1 .. Len(buffer[s]) /\ buffer'[s][j] = buffer[s][j + d]
      <4>1. i + d < j + d
        BY <1>3
      <4> QED BY <3>1, <3>4, <4>1 DEF SyncInv, NextIsFront
    <3> QED BY <1>10, <3>3, <3>4
  <2> QED BY <2>1, <2>2
<1>12. Fresh'
  <2> SUFFICES ASSUME NEW r \in Streams
               PROVE  /\ latest[r] <= serial + 1
                      /\ \A i \in 1 .. Len(buffer'[r]) :
                            latest[r] < buffer'[r][i].serial /\ buffer'[r][i].serial <= serial + 1
    BY <1>9, <1>1 DEF Fresh
  <2>1. latest[r] <= serial /\ latest[r] \in Nat
    BY DEF SyncInv, Fresh, SyncTypeOK
  <2>2. ASSUME NEW i \in 1 .. Len(buffer'[r]), r # s
        PROVE  latest[r] < buffer'[r][i].serial /\ buffer'[r][i].serial <= serial + 1
    <3>1. buffer'[r] = buffer[r] /\ buffer[r] \in Seq(Msg) /\ i \in 1 .. Len(buffer[r])
      BY <1>7, <2>2 DEF SyncInv, SyncTypeOK
    <3>2. buffer[r][i].serial \in Nat
      BY <3>1, Element
    <3> QED BY <3>1, <3>2, <1>1 DEF SyncInv, Fresh
  <2>3. ASSUME NEW i \in 1 .. Len(buffer'[s]), r = s
        PROVE  latest[s] < buffer'[s][i].serial /\ buffer'[s][i].serial <= serial + 1
    <3>1. CASE buffer'[s][i] = m
      BY <3>1, <2>1, <2>3, <1>1
    <3>2. CASE i + d \in 1 .. Len(buffer[s]) /\ buffer'[s][i] = buffer[s][i + d]
      <4>1. buffer[s][i + d].serial \in Nat
        BY <3>2, <1>1, Element
      <4> QED BY <3>2, <4>1, <1>1 DEF SyncInv, Fresh
    <3> QED BY <1>10, <3>1, <3>2
  <2> QED BY <2>1, <2>2, <2>3, <1>1
<1>13. NothingLeftBehind'
  BY DEF AddMessage, NothingLeftBehind
<1> QED BY <1>6, <1>11, <1>12, <1>13 DEF SyncInv

(* A round preserves it: the fronts that are removed were the ones with    *)
(* the lowest numbers of their streams.                                    *)
LEMMA RoundSyncInv ==
    ASSUME SyncInv, Round
    PROVE  SyncInv'
<1> USE SyncAssumption
<1> DEFINE G == FrontMatches
<1>1. G \subseteq Streams
  BY DEF FrontMatches
<1>2. /\ buffer' = [s \in Streams |-> IF s \in G THEN Tail(buffer[s]) ELSE buffer[s]]
      /\ next' = [s \in Streams |-> IF s \in G THEN NextAfterPop(buffer'[s]) ELSE next[s]]
  BY DEF Round, PopBuffers, ToPop
<1>3. \A s \in Streams : buffer[s] \in Seq(Msg) /\ buffer[s] # <<>>
  BY DEF Round, AllHaveOne, SyncInv, SyncTypeOK
<1>4. \A s \in Streams : Tail(buffer[s]) \in Seq(Msg) /\ buffer[s][1] \in Msg /\ Len(buffer[s]) > 0
  BY <1>3, PopKeepsOrder
<1> HIDE DEF G
<1>5. \A s \in Streams : /\ s \in G => buffer'[s] = Tail(buffer[s])
                         /\ s \notin G => buffer'[s] = buffer[s] /\ next'[s] = next[s]
  BY <1>2
<1>6. buffer' \in [Streams -> Seq(Msg)]
  BY <1>2, <1>3, <1>4
<1>7. \A s \in Streams : /\ s \in G => next'[s] = NextAfterPop(Tail(buffer[s]))
                         /\ NextAfterPop(Tail(buffer[s])) \in Int
  <2> TAKE s \in Streams
  <2>1. s \in G => next'[s] = NextAfterPop(Tail(buffer[s]))
    BY <1>2, <1>5
  <2>2. CASE Tail(buffer[s]) = <<>>
    BY <2>1, <2>2 DEF NextAfterPop, None
  <2>3. CASE Tail(buffer[s]) # <<>>
    <3>1. 1 \in 1 .. Len(Tail(buffer[s]))
      BY <2>3, <1>4
    <3> QED BY <2>1, <2>3, <3>1, <1>4, Element DEF NextAfterPop
  <2> QED BY <2>2, <2>3
<1>8. next' \in [Streams -> Int]
  BY <1>2, <1>5, <1>7 DEF SyncInv, SyncTypeOK
<1>9. /\ latest' \in [Streams -> Nat] /\ calls' \in Nat /\ stamp' \in Int
      /\ \A s \in Streams : latest'[s] = latest[s] \/ (s \in G /\ latest'[s] = buffer[s][1].serial)
  <2>1. CASE Enough(FrontMatches)
    <3>1. TriggerCallback(G)
      BY <2>1 DEF Round, G
    <3>2. \A s \in Streams : buffer[s][1].serial \in Nat
      BY <1>4 DEF Msg
    <3>3. latest' = [s \in Streams |-> IF s \in G THEN buffer[s][1].serial ELSE latest[s]]
      BY <3>1 DEF TriggerCallback
    <3>4. latest' \in [Streams -> Nat]
      BY <3>2, <3>3 DEF SyncInv, SyncTypeOK
    <3>5. calls' \in Nat /\ stamp' \in Int
      BY <3>1, <1>1 DEF TriggerCallback, SyncInv, SyncTypeOK
    <3> QED BY <3>3, <3>4, <3>5
  <2>2. CASE ~Enough(FrontMatches)
    BY <2>2 DEF Round, callback, SyncInv, SyncTypeOK
  <2> QED BY <2>1, <2>2
<1>10. SyncTypeOK'
  <2>1. looping' \in BOOLEAN
    BY DEF Round
  <2> QED BY <1>6, <1>8, <1>9, <2>1 DEF Round, config, SyncInv, SyncTypeOK
<1>11. \A s \in Streams : s \in G =>
          /\ Len(buffer'[s]) \in Nat
          /\ \A i \in 1 .. Len(buffer'[s]) :
                /\ i + 1 \in 1 .. Len(buffer[s])
                /\ buffer'[s][i] = buffer[s][i + 1]
  <2> SUFFICES ASSUME NEW s \in Streams, s \in G
               PROVE  /\ Len(Tail(buffer[s])) \in Nat
                      /\ \A i \in 1 .. Len(Tail(buffer[s])) :
                            /\ i + 1 \in 1 .. Len(buffer[s])
                            /\ Tail(buffer[s])[i] = buffer[s][i + 1]
    BY <1>5
  <2>1. Len(buffer[s]) \in Nat /\ Len(Tail(buffer[s])) = Len(buffer[s]) - 1 /\ Len(buffer[s]) > 0
    BY <1>3, PopKeepsOrder
  <2> QED BY <2>1, <1>3, PopKeepsOrder
<1>12. NextIsFront'
  <2> SUFFICES ASSUME NEW s \in Streams
               PROVE  /\ buffer'[s] # <<>> => next'[s] = buffer'[s][1].ts
                      /\ \A i, j \in 1 .. Len(buffer'[s]) : i < j => buffer'[s][i].serial < buffer'[s][j].serial
    BY DEF NextIsFront
  <2>1. CASE s \notin G
    BY <2>1, <1>5 DEF SyncInv, NextIsFront
  <2>2. CASE s \in G
    <3>1. buffer'[s] # <<>> => next'[s] = buffer'[s][1].ts
      BY <2>2, <1>5, <1>7 DEF NextAfterPop
    <3>2. ASSUME NEW i \in 1 .. Len(buffer'[s]), NEW j \in 1 .. Len(buffer'[s]), i < j
          PROVE  buffer'[s][i].serial < buffer'[s][j].serial
      <4>1. i + 1 < j + 1
        BY <3>2, <1>11, <2>2
      <4> QED BY <4>1, <1>11, <2>2 DEF SyncInv, NextIsFront
    <3> QED BY <3>1, <3>2
  <2> QED BY <2>1, <2>2
<1>13. Fresh'
  <2>1. serial' = serial
    BY DEF Round
  <2> SUFFICES ASSUME NEW s \in Streams
               PROVE  /\ latest'[s] <= serial
                      /\ \A i \in 1 .. Len(buffer'[s]) :
                            latest'[s] < buffer'[s][i].serial /\ buffer'[s][i].serial <= serial
    BY <2>1 DEF Fresh
  <2>2. 1 \in 1 .. Len(buffer[s])
    BY <1>3, <1>4
  <2>3. buffer[s][1].serial <= serial /\ latest[s] <= serial
    BY <2>2 DEF SyncInv, Fresh
  <2>4. latest'[s] <= serial
    BY <2>3, <1>9
  <2>5. ASSUME NEW i \in 1 .. Len(buffer'[s]), s \notin G
        PROVE  latest'[s] < buffer'[s][i].serial /\ buffer'[s][i].serial <= serial
    BY <2>5, <1>5, <1>9 DEF SyncInv, Fresh
  <2>6. ASSUME NEW i \in 1 .. Len(buffer'[s]), s \in G
        PROVE  latest'[s] < buffer'[s][i].serial /\ buffer'[s][i].serial <= serial
    <3>1. i + 1 \in 1 .. Len(buffer[s]) /\ buffer'[s][i] = buffer[s][i + 1]
      BY <2>6, <1>11
    <3>2. 1 < i + 1
      BY <2>6, <1>11
    <3>3. buffer[s][1].serial < buffer[s][i + 1].serial
      BY <2>2, <3>1, <3>2 DEF SyncInv, NextIsFront
    <3>4. latest[s] < buffer[s][i + 1].serial /\ buffer[s][i + 1].serial <= serial
      BY <3>1 DEF SyncInv, Fresh
    <3> QED BY <3>1, <3>3, <3>4, <1>9
  <2> QED BY <2>4, <2>5, <2>6
<1>14. NothingLeftBehind'
  BY DEF Round, NothingLeftBehind
<1> QED BY <1>10, <1>12, <1>13, <1>14 DEF SyncInv

(* So do the end of the loop and ClearBuffers.                             *)
LEMMA OtherSyncInv ==
    ASSUME SyncInv, LoopReturns \/ ClearBuffers \/ UNCHANGED syncVars
    PROVE  SyncInv'
<1>1. CASE LoopReturns
  <2>1. SyncTypeOK' /\ NextIsFront' /\ Fresh'
    BY <1>1 DEF LoopReturns, SyncInv, SyncTypeOK, NextIsFront, Fresh, config, callback
  <2>2. NothingLeftBehind'
    BY <1>1 DEF LoopReturns, AllHaveOne, NothingLeftBehind
  <2> QED BY <2>1, <2>2 DEF SyncInv
<1>2. CASE ClearBuffers
  <2>1. \A s \in Streams : buffer'[s] = <<>>
    BY <1>2 DEF ClearBuffers
  <2>2. buffer' \in [Streams -> Seq(Msg)]
    BY <1>2 DEF ClearBuffers
  <2>w. waiting' \in BOOLEAN
    BY <1>2, Zenon DEF ClearBuffers
  <2>3. SyncTypeOK'
    BY <1>2, <2>2, <2>w DEF ClearBuffers, SyncInv, SyncTypeOK, config, callback
  <2>4. NextIsFront'
    BY <2>1 DEF NextIsFront
  <2>5. Fresh'
    BY <1>2, <2>1 DEF ClearBuffers, callback, SyncInv, Fresh
  <2>6. NothingLeftBehind'
    BY <2>1, SyncAssumption DEF NothingLeftBehind
  <2> QED BY <2>3, <2>4, <2>5, <2>6 DEF SyncInv
<1>3. CASE UNCHANGED syncVars
  BY <1>3 DEF syncVars, SyncInv, SyncTypeOK, NextIsFront, Fresh, NothingLeftBehind
<1> QED BY <1>1, <1>2, <1>3

(* Every step preserves the invariant.                                     *)
LEMMA StepSyncInv == SyncInv /\ [Next]_syncVars => SyncInv'
  BY AddMessageSyncInv, RoundSyncInv, OtherSyncInv DEF Next, Loop

-------------------------------------------------------------------------------
(* The inductive invariant of the synchronizer.                            *)
THEOREM SyncInvariance == Spec => []SyncInv
  BY InitSyncInv, StepSyncInv, PTL DEF Spec

(* next_msg_ts_ is the timestamp of the front of its buffer.               *)
THEOREM NextTimestamp == Spec => []NextIsFront
<1>1. SyncInv => NextIsFront
  BY DEF SyncInv
<1> QED BY <1>1, SyncInvariance, PTL

(* After the loop some stream is without a message.                        *)
THEOREM LoopLeavesNothing == Spec => []NothingLeftBehind
<1>1. SyncInv => NothingLeftBehind
  BY DEF SyncInv
<1> QED BY <1>1, SyncInvariance, PTL

(* What the callback gets lies within the threshold.                       *)
THEOREM MatchesAreClose == Spec => []MatchesBelongTogether
<1>1. Init => MatchesBelongTogether
  BY DEF Init, MatchesBelongTogether
<1>2. ASSUME SyncInv, MatchesBelongTogether, [Next]_syncVars
      PROVE  MatchesBelongTogether'
  <2>1. CASE Round /\ Enough(FrontMatches)
    <3> DEFINE G == FrontMatches
    <3>1. TriggerCallback(G)
      BY <2>1 DEF Round
    <3>2. match' = [s \in G |-> buffer[s][1]] /\ DOMAIN match' = G
      BY <3>1 DEF TriggerCallback
    <3>a. G \subseteq Streams
      BY DEF FrontMatches
    <3>b. \A s \in Streams : next[s] = buffer[s][1].ts
      BY <1>2, <2>1 DEF Round, AllHaveOne, SyncInv, NextIsFront
    <3> HIDE DEF G
    <3>3. \A s \in G : s \in Streams /\ match'[s].ts = next[s]
      BY <3>a, <3>b, <3>2
    <3>4. \A s, r \in G : next[s] <= next[r] + Threshold
      BY <3>a DEF G, FrontMatches, Before
    <3>5. stamp' \in {next[s] : s \in G} /\ \A s \in G : next[s] <= stamp'
      BY <3>1 DEF TriggerCallback
    <3> QED BY <3>2, <3>3, <3>4, <3>5 DEF MatchesBelongTogether
  <2>2. CASE UNCHANGED callback
    BY <1>2, <2>2 DEF callback, MatchesBelongTogether
  <2>3. UNCHANGED callback \/ (Round /\ Enough(FrontMatches))
    BY <1>2 DEF Next, AddMessage, Loop, Round, LoopReturns, ClearBuffers, syncVars, callback
  <2> QED BY <2>1, <2>2, <2>3
<1> QED BY <1>1, <1>2, SyncInvariance, PTL DEF Spec

(* No message is delivered twice, and those of a stream in their order.    *)
THEOREM DeliveredOnceInOrder == Spec => OnceAndInOrder
<1>1. ASSUME SyncInv, [Next]_syncVars, calls' # calls
      PROVE  \A s \in DOMAIN match' : match'[s].serial > latest[s]
  <2>1. Round /\ Enough(FrontMatches)
    BY <1>1 DEF Next, AddMessage, Loop, Round, LoopReturns, ClearBuffers, syncVars, callback
  <2>2. TriggerCallback(FrontMatches)
    BY <2>1 DEF Round
  <2>3. match' = [s \in FrontMatches |-> buffer[s][1]] /\ DOMAIN match' = FrontMatches
    BY <2>2 DEF TriggerCallback
  <2> SUFFICES ASSUME NEW s \in FrontMatches
               PROVE  buffer[s][1].serial > latest[s]
    BY <2>3
  <2>4. s \in Streams /\ buffer[s] \in Seq(Msg) /\ buffer[s] # <<>>
    BY <2>1, <1>1 DEF FrontMatches, Round, AllHaveOne, SyncInv, SyncTypeOK
  <2>5. 1 \in 1 .. Len(buffer[s])
    BY <2>4
  <2>6. latest[s] < buffer[s][1].serial
    BY <2>4, <2>5, <1>1 DEF SyncInv, Fresh
  <2>7. latest[s] \in Nat /\ buffer[s][1].serial \in Nat
    BY <2>4, <2>5, <1>1, Element DEF SyncInv, SyncTypeOK
  <2> QED BY <2>6, <2>7
<1> QED BY <1>1, SyncInvariance, PTL DEF Spec, OnceAndInOrder
-------------------------------------------------------------------------------
(* run_command.  The inductive invariant adds to CopiesAreRight where the  *)
(* command's output is at any moment: in the log file, in the buffer or in *)
(* the pipe, in this order.                                                *)
Text == Seq(Pieces \cup {NL})

LogTypeOK ==
    /\ mode \in Modes /\ output \in Outputs
    /\ written \in 0 .. Len(output) /\ closed \in BOOLEAN
    /\ pipe \in Text /\ textBuffer \in Text /\ log \in Text
    /\ lines \in Seq(Text) /\ tail \in Seq(Text)
    /\ late \in BOOLEAN /\ warning \in BOOLEAN

Arrived == log \o textBuffer \o pipe

(* Behind the whole output there are only the newlines of empty reads.     *)
OnlyNewlinesMore ==
    /\ closed /\ textBuffer = <<>> /\ pipe = <<>>
    /\ IsPrefix(output, log) /\ AllNewlines(SubSeq(log, Len(output) + 1, Len(log)))

NothingIsLost ==
    /\ code # "running" => closed
    /\ closed => written = Len(output)
    /\ Arrived = SubSeq(output, 1, written) \/ OnlyNewlinesMore

(* communicate, which ends the loop, leaves nothing to be read.            *)
Copied == pc \in {"report", "returned", "raised"}

EndIsTheEnd ==
    /\ pc = "communicate" \/ Copied => code # "running"
    /\ Copied => textBuffer = <<>> /\ pipe = <<>>

WholeLines(text) == text = <<>> \/ text[Len(text)] = NL

LinesSoFar ==
    /\ ~Copied => WholeLines(log) /\ SplitLines(log) = lines
    /\ Copied /\ mode # "none" => SplitLines(log) = lines

LogInv == LogTypeOK /\ NothingIsLost /\ EndIsTheEnd /\ LinesSoFar /\ ScreenShowsTail

(* A newline is a piece of text.                                           *)
LEMMA NewlineIsText == <<NL>> \in Text
BY DEF Text

(* Two texts behind each other.                                            *)
LEMMA ConcatFacts ==
    ASSUME NEW S, NEW a \in Seq(S), NEW b \in Seq(S)
    PROVE  /\ a \o b \in Seq(S) /\ Len(a \o b) = Len(a) + Len(b) /\ Len(a) \in Nat /\ Len(b) \in Nat
           /\ \A i \in 1 .. Len(a) : (a \o b)[i] = a[i]
           /\ \A i \in 1 .. Len(b) : (a \o b)[Len(a) + i] = b[i]
OBVIOUS

(* A part of a text.                                                       *)
LEMMA PartFacts ==
    ASSUME NEW S, NEW a \in Seq(S), NEW m \in Nat \ {0}, NEW n \in Nat, n <= Len(a), m <= n + 1
    PROVE  /\ SubSeq(a, m, n) \in Seq(S) /\ Len(SubSeq(a, m, n)) = (n + 1) - m
           /\ \A i \in 1 .. (n + 1) - m : SubSeq(a, m, n)[i] = a[m + i - 1]
OBVIOUS

(* The end of a line: the first newline, or the end of the text.           *)
LEMMA LineEnd ==
    ASSUME NEW text \in Text, NEW i \in 1 .. Len(text) + 1
    PROVE  \E e \in EndsFrom(text, i) :
              /\ e \in i .. Len(text) + 1 /\ Min(EndsFrom(text, i)) = e
              /\ \A j \in i .. e - 1 : text[j] # NL
<1> DEFINE E == EndsFrom(text, i)
<1>1. Len(text) \in Nat
  BY DEF Text
<1>2. E \in SUBSET Nat /\ E # {} /\ \A f \in E : f \in i .. Len(text) + 1
  <2>1. E = {e \in i .. Len(text) : text[e] = NL} \cup {Len(text) + 1}
    BY DEF EndsFrom
  <2>2. \A f \in E : f \in Nat /\ f \in i .. Len(text) + 1
    BY <1>1, <2>1
  <2>3. E # {}
    BY <2>1
  <2> HIDE DEF E
  <2> QED BY <2>2, <2>3
<1>3. \A j \in i .. Len(text) : text[j] = NL => j \in E
  BY DEF EndsFrom
<1> HIDE DEF E
<1>4. PICK e \in E : \A f \in E : e <= f
  BY <1>2, LeastNat
<1>5. \A x \in E : (\A f \in E : x <= f) => x = e
  <2> SUFFICES ASSUME NEW x \in E, \A f \in E : x <= f PROVE x = e
    OBVIOUS
  <2>1. x \in Nat /\ e \in Nat /\ x <= e /\ e <= x
    BY <1>2, <1>4
  <2> QED BY <2>1
<1>6. Min(E) = e
  BY <1>4, <1>5 DEF Min
<1>7. e \in i .. Len(text) + 1
  BY <1>2
<1>8. ASSUME NEW j \in i .. e - 1 PROVE text[j] # NL
  <2>1. j \in i .. Len(text) /\ ~ (e <= j)
    BY <1>1, <1>7
  <2> QED BY <1>3, <1>4, <2>1
<1> QED BY <1>6, <1>7, <1>8 DEF E

(* It is the only place with these properties.                             *)
LEMMA LineEndIs ==
    ASSUME NEW text \in Text, NEW i \in 1 .. Len(text) + 1, NEW e \in i .. Len(text) + 1,
           e = Len(text) + 1 \/ text[e] = NL, \A j \in i .. e - 1 : text[j] # NL
    PROVE  Min(EndsFrom(text, i)) = e
<1>1. Len(text) \in Nat /\ e \in Nat
  BY DEF Text
<1>2. PICK x \in EndsFrom(text, i) :
              /\ x \in i .. Len(text) + 1 /\ Min(EndsFrom(text, i)) = x
              /\ \A j \in i .. x - 1 : text[j] # NL
  BY LineEnd
<1>3. x = Len(text) + 1 \/ text[x] = NL
  BY <1>1, <1>2 DEF EndsFrom
<1>4. ~ (x < e)
  <2> SUFFICES ASSUME x < e PROVE FALSE
    OBVIOUS
  <2>1. x \in i .. e - 1 /\ x # Len(text) + 1
    BY <1>1, <1>2
  <2> QED BY <1>3, <2>1
<1>5. ~ (e < x)
  <2> SUFFICES ASSUME e < x PROVE FALSE
    OBVIOUS
  <2>1. e \in i .. x - 1 /\ e # Len(text) + 1
    BY <1>1, <1>2
  <2> QED BY <1>2, <2>1
<1> QED BY <1>1, <1>2, <1>4, <1>5

(* The lines of a text, from any list of its starts.                       *)
LEMMA SplitListed ==
    ASSUME NEW text \in Text, NEW k \in Nat, NEW s, Enumerates(s, k, StartsOf(text))
    PROVE  /\ SplitLines(text) = [n \in 1 .. k |-> LineFrom(text, s[n])]
           /\ SplitLines(text) \in Seq(Text) /\ Len(SplitLines(text)) = k
           /\ \A n \in 1 .. k : SplitLines(text)[n] = LineFrom(text, s[n])
<1> DEFINE L == [n \in 1 .. k |-> LineFrom(text, s[n])]
<1>1. Len(text) \in Nat /\ StartsOf(text) \in SUBSET (1 .. Len(text))
  BY DEF StartsOf, Text
<1>a. StartsOf(text) \in SUBSET Nat
  BY <1>1
<1>2. Cardinality(StartsOf(text)) = k
  BY <1>a, EnumeratedCardinality
<1>3. ASSUME NEW n \in 1 .. k PROVE NthStart(text, n) = s[n]
  <2>1. s[n] \in StartsOf(text)
    BY DEF Enumerates
  <2>2. Cardinality(Below(StartsOf(text), s[n])) = n - 1
    BY <1>a, EnumeratedRank
  <2>3. \A i \in StartsOf(text) : Cardinality(Below(StartsOf(text), i)) = n - 1 => i = s[n]
    BY <1>a, EnumeratedUnique
  <2> QED BY <2>1, <2>2, <2>3 DEF NthStart, Below
<1>4. SplitLines(text) = L
  BY <1>2, <1>3 DEF SplitLines
<1>5. ASSUME NEW n \in 1 .. k PROVE L[n] \in Text
  <2>1. s[n] \in 1 .. Len(text)
    BY <1>1 DEF Enumerates
  <2>a. s[n] \in 1 .. Len(text) + 1
    BY <1>1, <2>1
  <2>b. PICK e \in EndsFrom(text, s[n]) : e \in s[n] .. Len(text) + 1 /\ Min(EndsFrom(text, s[n])) = e
    BY <2>a, LineEnd
  <2>2. e \in Nat /\ e <= Len(text) + 1
    BY <1>1, <2>1, <2>b
  <2>3. SubSeq(text, s[n], e - 1) \in Text
    BY <1>1, <2>1, <2>2 DEF Text
  <2> QED BY <2>b, <2>3 DEF LineFrom
<1> HIDE DEF L
<1>6. L \in [1 .. k -> Text]
  BY <1>5 DEF L
<1>7. L \in Seq(Text) /\ Len(L) = k
  BY <1>6
<1> QED BY <1>4, <1>7 DEF L

(* Every text has such a list.                                             *)
LEMMA StartsAreListed ==
    ASSUME NEW text \in Text
    PROVE  \E k \in Nat : \E s : Enumerates(s, k, StartsOf(text))
<1>1. Len(text) \in Nat /\ StartsOf(text) \in SUBSET (1 .. Len(text))
  BY DEF StartsOf, Text
<1> QED BY <1>1, EnumerationExists

(* A line with its newline is one line, nothing is none.                   *)
LEMMA SplitOne ==
    ASSUME NEW line \in Text, \A j \in 1 .. Len(line) : line[j] # NL
    PROVE  SplitLines(line \o <<NL>>) = <<line>>
<1> DEFINE w == line \o <<NL>>
<1>a. line \in Seq(Pieces \cup {NL}) /\ <<NL>> \in Seq(Pieces \cup {NL}) /\ Len(<<NL>>) = 1 /\ <<NL>>[1] = NL
  BY NewlineIsText DEF Text
<1>1. w \in Text /\ Len(w) = Len(line) + 1 /\ Len(line) \in Nat
  BY <1>a, ConcatFacts DEF Text
<1>2. (\A j \in 1 .. Len(line) : w[j] = line[j]) /\ w[Len(line) + 1] = NL
  <2>1. 1 \in 1 .. Len(<<NL>>)
    BY <1>a
  <2> QED BY <1>a, <2>1, ConcatFacts
<1> HIDE DEF w
<1>3. StartsOf(w) = {1}
  <2>1. 1 \in 1 .. Len(w)
    BY <1>1
  <2>2. \A i \in 1 .. Len(w) : i # 1 => i - 1 \in 1 .. Len(line)
    BY <1>1
  <2> QED BY <1>2, <2>1, <2>2 DEF StartsOf
<1>4. Enumerates(<<1>>, 1, StartsOf(w))
  <2>1. <<1>> \in [1 .. 1 -> {1}] /\ <<1>>[1] = 1
    OBVIOUS
  <2>2. \A m, n \in 1 .. 1 : ~ (m < n)
    OBVIOUS
  <2> QED BY <1>3, <2>1, <2>2 DEF Enumerates
<1>5. LineFrom(w, 1) = line
  <2>1. Min(EndsFrom(w, 1)) = Len(line) + 1
    <3>1. 1 \in 1 .. Len(w) + 1 /\ Len(line) + 1 \in 1 .. Len(w) + 1
      BY <1>1
    <3>2. \A j \in 1 .. (Len(line) + 1) - 1 : w[j] # NL
      BY <1>1, <1>2
    <3> QED BY <1>1, <1>2, <3>1, <3>2, LineEndIs
  <2>2. SubSeq(w, 1, Len(line)) \in Text /\ Len(SubSeq(w, 1, Len(line))) = Len(line)
        /\ \A j \in 1 .. Len(line) : SubSeq(w, 1, Len(line))[j] = line[j]
    BY <1>1, <1>2 DEF Text
  <2>3. SubSeq(w, 1, Len(line)) = line
    BY <2>2 DEF Text
  <2> QED BY <1>1, <2>1, <2>3 DEF LineFrom
<1>6. SplitLines(w) \in Seq(Text) /\ Len(SplitLines(w)) = 1 /\ SplitLines(w)[1] = line
  BY <1>1, <1>4, <1>5, SplitListed
<1> QED BY <1>6 DEF w

LEMMA SplitNothing == SplitLines(<<>>) = <<>>
<1>1. <<>> \in Text /\ StartsOf(<<>>) = {}
  BY DEF Text, StartsOf
<1>2. Enumerates(<<>>, 0, StartsOf(<<>>))
  BY <1>1 DEF Enumerates
<1>3. SplitLines(<<>>) \in Seq(Text) /\ Len(SplitLines(<<>>)) = 0
  BY <1>1, <1>2, SplitListed
<1> QED BY <1>3
(* The starts of a text behind whole lines: those of the lines, then those *)
(* of the text.                                                            *)
LEMMA StartsConcat ==
    ASSUME NEW t \in Text, NEW r \in Text, WholeLines(t)
    PROVE  StartsOf(t \o r) = StartsOf(t) \cup {Len(t) + i : i \in StartsOf(r)}
<1> DEFINE w == t \o r
           a == Len(t)
<1>1. a \in Nat /\ Len(r) \in Nat /\ Len(w) = a + Len(r)
      /\ (\A i \in 1 .. a : w[i] = t[i]) /\ \A i \in 1 .. Len(r) : w[a + i] = r[i]
  BY ConcatFacts DEF Text
<1>2. a = 0 \/ (a \in 1 .. a /\ t[a] = NL)
  <2>1. t = <<>> => a = 0
    OBVIOUS
  <2>2. t # <<>> => a \in 1 .. a
    BY <1>1 DEF Text
  <2> QED BY <2>1, <2>2 DEF WholeLines
<1> HIDE DEF w, a
<1>3. ASSUME NEW i \in StartsOf(w) PROVE i \in StartsOf(t) \cup {a + j : j \in StartsOf(r)}
  <2>1. i \in 1 .. a + Len(r) /\ (i = 1 \/ w[i - 1] = NL)
    BY <1>1 DEF StartsOf
  <2>2. CASE i <= a
    <3>1. i \in 1 .. a /\ (i # 1 => i - 1 \in 1 .. a)
      BY <1>1, <2>1, <2>2
    <3>2. i = 1 \/ t[i - 1] = NL
      BY <1>1, <2>1, <3>1
    <3> QED BY <3>1, <3>2 DEF StartsOf, a
  <2>3. CASE ~ (i <= a)
    <3>1. i - a \in 1 .. Len(r) /\ i = a + (i - a)
      BY <1>1, <2>1, <2>3
    <3>2. i - a = 1 \/ r[(i - a) - 1] = NL
      <4> SUFFICES ASSUME i - a # 1 PROVE r[(i - a) - 1] = NL
        OBVIOUS
      <4>1. (i - a) - 1 \in 1 .. Len(r) /\ a + ((i - a) - 1) = i - 1 /\ i # 1
        BY <1>1, <2>1, <3>1
      <4> QED BY <1>1, <2>1, <4>1
    <3>3. i - a \in StartsOf(r)
      BY <3>1, <3>2 DEF StartsOf
    <3> QED BY <3>1, <3>3
  <2> QED BY <2>2, <2>3
<1>4. ASSUME NEW i \in StartsOf(t) PROVE i \in StartsOf(w)
  <2>1. i \in 1 .. a /\ (i = 1 \/ t[i - 1] = NL)
    BY DEF StartsOf, a
  <2>2. i \in 1 .. Len(w) /\ (i # 1 => i - 1 \in 1 .. a)
    BY <1>1, <2>1
  <2>3. i = 1 \/ w[i - 1] = NL
    BY <1>1, <2>1, <2>2
  <2> QED BY <2>2, <2>3 DEF StartsOf
<1>5. ASSUME NEW i \in StartsOf(r) PROVE a + i \in StartsOf(w)
  <2>1. i \in 1 .. Len(r) /\ (i = 1 \/ r[i - 1] = NL)
    BY DEF StartsOf
  <2>2. a + i \in 1 .. Len(w)
    BY <1>1, <2>1
  <2>3. CASE i = 1
    <3>1. CASE a = 0
      <4>1. a + i = 1
        BY <2>3, <3>1
      <4> QED BY <2>2, <4>1 DEF StartsOf
    <3>2. CASE a # 0
      <4>1. (a + i) - 1 = a
        BY <1>1, <2>3
      <4>2. w[(a + i) - 1] = NL
        BY <1>1, <1>2, <3>2, <4>1
      <4> QED BY <2>2, <4>2 DEF StartsOf
    <3> QED BY <3>1, <3>2
  <2>4. CASE i # 1
    <3>1. i - 1 \in 1 .. Len(r) /\ (a + i) - 1 = a + (i - 1)
      BY <1>1, <2>1, <2>4
    <3>2. w[(a + i) - 1] = NL
      BY <1>1, <2>1, <2>4, <3>1
    <3> QED BY <2>2, <3>2 DEF StartsOf
  <2> QED BY <2>3, <2>4
<1>6. StartsOf(w) = StartsOf(t) \cup {a + i : i \in StartsOf(r)}
  BY <1>3, <1>4, <1>5
<1> QED BY <1>6 DEF w, a

(* A line of either is a line of both.                                     *)
LEMMA LineFromFirst ==
    ASSUME NEW t \in Text, NEW r \in Text, WholeLines(t), NEW i \in 1 .. Len(t)
    PROVE  LineFrom(t \o r, i) = LineFrom(t, i)
<1> DEFINE w == t \o r
           a == Len(t)
<1>1. a \in Nat /\ Len(r) \in Nat /\ Len(w) = a + Len(r) /\ w \in Text
      /\ (\A j \in 1 .. a : w[j] = t[j])
  BY ConcatFacts DEF Text
<1>2. t[a] = NL /\ a \in 1 .. a
  <2>1. t # <<>>
    BY <1>1
  <2> QED BY <1>1, <2>1 DEF WholeLines
<1> HIDE DEF w
<1>3. PICK e \in EndsFrom(t, i) :
            /\ e \in i .. a + 1 /\ Min(EndsFrom(t, i)) = e
            /\ \A j \in i .. e - 1 : t[j] # NL
  <2>1. i \in 1 .. a + 1
    BY <1>1
  <2> QED BY <2>1, LineEnd
<1>4. e \in i .. a
  <2> SUFFICES ASSUME e = a + 1 PROVE FALSE
    BY <1>1, <1>3
  <2>1. a \in i .. e - 1
    BY <1>1
  <2> QED BY <1>2, <1>3, <2>1
<1>5. t[e] = NL
  <2>1. e # a + 1
    BY <1>1, <1>4
  <2> QED BY <1>3, <2>1 DEF EndsFrom
<1>6. Min(EndsFrom(w, i)) = e
  <2>1. i \in 1 .. Len(w) + 1 /\ e \in i .. Len(w) + 1 /\ e \in 1 .. a
    BY <1>1, <1>4
  <2>2. \A j \in i .. e - 1 : j \in 1 .. a
    BY <1>1, <1>4
  <2>3. w[e] = NL /\ \A j \in i .. e - 1 : w[j] # NL
    BY <1>1, <1>3, <1>5, <2>1, <2>2
  <2> QED BY <1>1, <2>1, <2>3, LineEndIs
<1>7. SubSeq(w, i, e - 1) = SubSeq(t, i, e - 1)
  <2>1. \A j \in i .. e - 1 : w[j] = t[j]
    <3>1. \A j \in i .. e - 1 : j \in 1 .. a
      BY <1>1, <1>4
    <3> QED BY <1>1, <3>1
  <2>2. i \in Nat \ {0} /\ e - 1 \in Nat /\ e - 1 <= a /\ e - 1 <= Len(w)
    BY <1>1, <1>4
  <2>3. /\ SubSeq(w, i, e - 1) \in Text /\ Len(SubSeq(w, i, e - 1)) = e - i
        /\ \A j \in 1 .. e - i : SubSeq(w, i, e - 1)[j] = w[i + j - 1]
    BY <1>1, <1>4, <2>2 DEF Text
  <2>4. /\ SubSeq(t, i, e - 1) \in Text /\ Len(SubSeq(t, i, e - 1)) = e - i
        /\ \A j \in 1 .. e - i : SubSeq(t, i, e - 1)[j] = t[i + j - 1]
    BY <1>1, <1>4, <2>2 DEF Text
  <2>5. \A j \in 1 .. e - i : i + j - 1 \in i .. e - 1
    BY <1>1, <1>4
  <2>6. \A j \in 1 .. e - i : SubSeq(w, i, e - 1)[j] = SubSeq(t, i, e - 1)[j]
    BY <2>1, <2>3, <2>4, <2>5
  <2> QED BY <2>3, <2>4, <2>6 DEF Text
<1> QED BY <1>3, <1>6, <1>7 DEF LineFrom, w

LEMMA LineFromSecond ==
    ASSUME NEW t \in Text, NEW r \in Text, NEW i \in 1 .. Len(r)
    PROVE  LineFrom(t \o r, Len(t) + i) = LineFrom(r, i)
<1> DEFINE w == t \o r
           a == Len(t)
<1>1. a \in Nat /\ Len(r) \in Nat /\ Len(w) = a + Len(r) /\ w \in Text
      /\ \A j \in 1 .. Len(r) : w[a + j] = r[j]
  BY ConcatFacts DEF Text
<1> HIDE DEF w, a
<1>3. PICK e \in EndsFrom(r, i) :
            /\ e \in i .. Len(r) + 1 /\ Min(EndsFrom(r, i)) = e
            /\ \A j \in i .. e - 1 : r[j] # NL
  <2>1. i \in 1 .. Len(r) + 1
    BY <1>1
  <2> QED BY <2>1, LineEnd
<1>5. e = Len(r) + 1 \/ (e \in 1 .. Len(r) /\ r[e] = NL)
  BY <1>1, <1>3 DEF EndsFrom
<1>6. Min(EndsFrom(w, a + i)) = a + e
  <2>1. a + i \in 1 .. Len(w) + 1 /\ a + e \in a + i .. Len(w) + 1
    BY <1>1, <1>3
  <2>2. ASSUME NEW j \in a + i .. (a + e) - 1 PROVE w[j] # NL
    <3>1. j - a \in i .. e - 1 /\ j - a \in 1 .. Len(r) /\ j = a + (j - a)
      BY <1>1, <1>3
    <3> QED BY <1>1, <1>3, <3>1
  <2>3. a + e = Len(w) + 1 \/ w[a + e] = NL
    BY <1>1, <1>5
  <2> QED BY <1>1, <2>1, <2>2, <2>3, LineEndIs
<1>7. SubSeq(w, a + i, (a + e) - 1) = SubSeq(r, i, e - 1)
  <2>1. i \in Nat \ {0} /\ e - 1 \in Nat /\ e - 1 <= Len(r) /\ (a + e) - 1 <= Len(w) /\ e - i \in Nat
    BY <1>1, <1>3
  <2>2. \A j \in 1 .. e - i : i + j - 1 \in 1 .. Len(r) /\ (a + i) + j - 1 = a + (i + j - 1)
    BY <1>1, <1>3
  <2>a. a + i \in Nat \ {0} /\ (a + e) - 1 \in Nat /\ a + i <= ((a + e) - 1) + 1 /\ i <= (e - 1) + 1
        /\ (((a + e) - 1) + 1) - (a + i) = e - i /\ ((e - 1) + 1) - i = e - i
    BY <1>1, <1>3, <2>1
  <2>b. w \in Seq(Pieces \cup {NL}) /\ r \in Seq(Pieces \cup {NL})
    BY <1>1 DEF Text
  <2>3. /\ SubSeq(w, a + i, (a + e) - 1) \in Text /\ Len(SubSeq(w, a + i, (a + e) - 1)) = e - i
        /\ \A j \in 1 .. e - i : SubSeq(w, a + i, (a + e) - 1)[j] = w[(a + i) + j - 1]
    BY <2>1, <2>a, <2>b, PartFacts, SMTT(30) DEF Text
  <2>4. /\ SubSeq(r, i, e - 1) \in Text /\ Len(SubSeq(r, i, e - 1)) = e - i
        /\ \A j \in 1 .. e - i : SubSeq(r, i, e - 1)[j] = r[i + j - 1]
    <3>1. i \in Nat \ {0} /\ e - 1 \in Nat /\ e - 1 <= Len(r) /\ i <= (e - 1) + 1
      BY <2>1, <2>a
    <3>2. PICK d \in Nat : d = e - 1 /\ d <= Len(r) /\ i <= d + 1 /\ (d + 1) - i = e - i
      BY <2>a, <3>1
    <3>3. /\ SubSeq(r, i, d) \in Seq(Pieces \cup {NL}) /\ Len(SubSeq(r, i, d)) = (d + 1) - i
          /\ \A j \in 1 .. (d + 1) - i : SubSeq(r, i, d)[j] = r[i + j - 1]
      BY <2>b, <3>1, <3>2, PartFacts
    <3> QED BY <3>2, <3>3 DEF Text
  <2>6. \A j \in 1 .. e - i : SubSeq(w, a + i, (a + e) - 1)[j] = SubSeq(r, i, e - 1)[j]
    BY <1>1, <2>2, <2>3, <2>4
  <2> QED BY <2>3, <2>4, <2>6 DEF Text
<1> QED BY <1>3, <1>6, <1>7 DEF LineFrom, w, a

(* The lines of a text behind whole lines come behind these.               *)
LEMMA SplitConcat ==
    ASSUME NEW t \in Text, NEW r \in Text, WholeLines(t)
    PROVE  /\ SplitLines(t \o r) = SplitLines(t) \o SplitLines(r)
           /\ SplitLines(t) \in Seq(Text) /\ SplitLines(r) \in Seq(Text)
<1> DEFINE w == t \o r
           a == Len(t)
<1>1. PICK k \in Nat : \E s : Enumerates(s, k, StartsOf(t))
  BY StartsAreListed
<1>2. PICK s : Enumerates(s, k, StartsOf(t))
  BY <1>1
<1>3. PICK l \in Nat : \E q : Enumerates(q, l, StartsOf(r))
  BY StartsAreListed
<1>4. PICK q : Enumerates(q, l, StartsOf(r))
  BY <1>3
<1>5. /\ SplitLines(t) \in Seq(Text) /\ Len(SplitLines(t)) = k
      /\ \A n \in 1 .. k : SplitLines(t)[n] = LineFrom(t, s[n])
  BY <1>2, SplitListed
<1>6. /\ SplitLines(r) \in Seq(Text) /\ Len(SplitLines(r)) = l
      /\ \A n \in 1 .. l : SplitLines(r)[n] = LineFrom(r, q[n])
  BY <1>4, SplitListed
<1>7. w \in Text /\ a \in Nat /\ Len(r) \in Nat
  BY ConcatFacts DEF Text
<1>8. StartsOf(w) = StartsOf(t) \cup {a + i : i \in StartsOf(r)}
  BY StartsConcat
<1>9. (\A i \in StartsOf(t) : i \in 1 .. a) /\ \A i \in StartsOf(r) : i \in 1 .. Len(r)
  BY DEF StartsOf
<1>10. \A i \in StartsOf(t) : LineFrom(w, i) = LineFrom(t, i)
  BY <1>9, LineFromFirst
<1>11. \A i \in StartsOf(r) : LineFrom(w, a + i) = LineFrom(r, i)
  BY <1>9, LineFromSecond
<1> HIDE DEF w, a
<1> DEFINE u == [n \in 1 .. k + l |-> IF n <= k THEN s[n] ELSE a + q[n - k]]
<1>12. s \in [1 .. k -> StartsOf(t)] /\ (\A m, n \in 1 .. k : m < n => s[m] < s[n])
       /\ \A i \in StartsOf(t) : \E n \in 1 .. k : s[n] = i
  BY <1>2 DEF Enumerates
<1>13. q \in [1 .. l -> StartsOf(r)] /\ (\A m, n \in 1 .. l : m < n => q[m] < q[n])
       /\ \A i \in StartsOf(r) : \E n \in 1 .. l : q[n] = i
  BY <1>4 DEF Enumerates
<1>14. \A n \in 1 .. k : u[n] = s[n] /\ s[n] \in StartsOf(t)
  BY <1>12
<1>15. \A n \in 1 .. l : u[k + n] = a + q[n] /\ q[n] \in StartsOf(r) /\ k + n \in 1 .. k + l
  BY <1>13
<1>16. \A n \in 1 .. k + l : n \in 1 .. k \/ (n - k \in 1 .. l /\ n = k + (n - k))
  OBVIOUS
<1> HIDE DEF u
<1>17. Enumerates(u, k + l, StartsOf(w))
  <2>1. u \in [1 .. k + l -> StartsOf(w)]
    <3>1. \A n \in 1 .. k + l : u[n] \in StartsOf(w)
      BY <1>8, <1>14, <1>15, <1>16
    <3> QED BY <3>1 DEF u
  <2>2. ASSUME NEW m \in 1 .. k + l, NEW n \in 1 .. k + l, m < n PROVE u[m] < u[n]
    <3>1. CASE n \in 1 .. k
      <4>1. m \in 1 .. k
        BY <2>2, <3>1
      <4> QED BY <1>12, <1>14, <2>2, <3>1, <4>1
    <3>2. CASE m \in 1 .. k /\ n \notin 1 .. k
      <4>1. u[m] \in 1 .. a
        BY <1>9, <1>14, <3>2
      <4>2. n - k \in 1 .. l /\ u[n] = a + q[n - k] /\ q[n - k] \in 1 .. Len(r)
        BY <1>9, <1>15, <1>16, <3>2
      <4> QED BY <1>7, <4>1, <4>2
    <3>3. CASE m \notin 1 .. k /\ n \notin 1 .. k
      <4>1. m - k \in 1 .. l /\ u[m] = a + q[m - k] /\ n - k \in 1 .. l /\ u[n] = a + q[n - k]
        BY <1>15, <1>16, <3>3
      <4>2. m - k < n - k
        BY <2>2
      <4>3. q[m - k] < q[n - k] /\ q[m - k] \in Nat /\ q[n - k] \in Nat
        BY <1>9, <1>13, <1>15, <4>1, <4>2
      <4> QED BY <1>7, <4>1, <4>3
    <3> QED BY <2>2, <3>1, <3>2, <3>3
  <2>3. ASSUME NEW i \in StartsOf(w) PROVE \E n \in 1 .. k + l : u[n] = i
    <3>1. CASE i \in StartsOf(t)
      <4>1. PICK n \in 1 .. k : s[n] = i
        BY <1>12, <3>1
      <4>2. n \in 1 .. k + l /\ u[n] = i
        BY <1>14, <4>1
      <4> QED BY <4>2
    <3>2. CASE i \in {a + j : j \in StartsOf(r)}
      <4>1. PICK j \in StartsOf(r) : i = a + j
        BY <3>2
      <4>2. PICK n \in 1 .. l : q[n] = j
        BY <1>13
      <4>3. k + n \in 1 .. k + l /\ u[k + n] = i
        BY <1>15, <4>1, <4>2
      <4> QED BY <4>3
    <3> QED BY <1>8, <3>1, <3>2
  <2> QED BY <2>1, <2>2, <2>3 DEF Enumerates
<1>18. /\ SplitLines(w) \in Seq(Text) /\ Len(SplitLines(w)) = k + l
       /\ \A n \in 1 .. k + l : SplitLines(w)[n] = LineFrom(w, u[n])
  <2>1. k + l \in Nat
    OBVIOUS
  <2> QED BY <1>7, <1>17, <2>1, SplitListed
<1> DEFINE both == SplitLines(t) \o SplitLines(r)
<1>19. /\ both \in Seq(Text) /\ Len(both) = k + l
       /\ (\A n \in 1 .. k : both[n] = SplitLines(t)[n]) /\ \A n \in 1 .. l : both[k + n] = SplitLines(r)[n]
  <2> DEFINE x == SplitLines(t)
             y == SplitLines(r)
  <2>1. x \in Seq(Text) /\ Len(x) = k /\ y \in Seq(Text) /\ Len(y) = l
    BY <1>5, <1>6
  <2> HIDE DEF x, y
  <2>2. /\ x \o y \in Seq(Text) /\ Len(x \o y) = k + l
        /\ (\A n \in 1 .. k : (x \o y)[n] = x[n]) /\ \A n \in 1 .. l : (x \o y)[k + n] = y[n]
    <3>1. x \in Seq(Text) /\ y \in Seq(Text)
      BY <2>1
    <3>2. /\ x \o y \in Seq(Text) /\ Len(x \o y) = Len(x) + Len(y)
          /\ (\A n \in 1 .. Len(x) : (x \o y)[n] = x[n]) /\ \A n \in 1 .. Len(y) : (x \o y)[Len(x) + n] = y[n]
      BY ONLY <3>1, ConcatFacts
    <3> QED BY <2>1, <3>2
  <2> QED BY <2>2 DEF x, y
<1> HIDE DEF both
<1>20. ASSUME NEW n \in 1 .. k + l PROVE SplitLines(w)[n] = both[n]
  <2>1. CASE n \in 1 .. k
    <3>1. LineFrom(w, u[n]) = LineFrom(t, s[n])
      BY <1>10, <1>14, <2>1
    <3> QED BY <1>5, <1>18, <1>19, <2>1, <3>1
  <2>2. CASE n \notin 1 .. k
    <3>1. n - k \in 1 .. l /\ n = k + (n - k)
      BY <1>16, <2>2
    <3>2. LineFrom(w, u[n]) = LineFrom(r, q[n - k])
      BY <1>11, <1>15, <3>1
    <3>3. both[n] = SplitLines(r)[n - k]
      BY <1>19, <3>1
    <3> QED BY <1>6, <1>18, <3>1, <3>2, <3>3
  <2> QED BY <2>1, <2>2
<1>21. SplitLines(w) = both
  BY <1>18, <1>19, <1>20
<1> QED BY <1>5, <1>6, <1>21 DEF both, w
-------------------------------------------------------------------------------
(* A buffer with a newline is its first line, the newline and the rest.    *)
LEMMA TakeLine ==
    ASSUME NEW text \in Text, Contains(text, NL)
    PROVE  LET line == LineFrom(text, 1)
               rest == SubSeq(text, Len(line) + 2, Len(text))
           IN  /\ line \in Text /\ rest \in Text /\ text = (line \o <<NL>>) \o rest
               /\ \A j \in 1 .. Len(line) : line[j] # NL
<1>1. PICK p \in 1 .. Len(text) : text[p] = NL
  BY DEF Contains
<1>2. Len(text) \in Nat /\ 1 \in 1 .. Len(text) + 1 /\ text \in Seq(Pieces \cup {NL})
  BY DEF Text
<1>3. PICK e \in EndsFrom(text, 1) :
            /\ e \in 1 .. Len(text) + 1 /\ Min(EndsFrom(text, 1)) = e
            /\ \A j \in 1 .. e - 1 : text[j] # NL
  BY <1>2, LineEnd
<1>4. e \in 1 .. Len(text)
  <2> SUFFICES ASSUME e = Len(text) + 1 PROVE FALSE
    BY <1>2, <1>3
  <2>1. p \in 1 .. e - 1
    BY <1>1, <1>2
  <2> QED BY <1>1, <1>3, <2>1
<1>5. text[e] = NL
  <2>1. e # Len(text) + 1
    BY <1>2, <1>4
  <2> QED BY <1>3, <2>1 DEF EndsFrom
<1> DEFINE line == SubSeq(text, 1, e - 1)
           rest == SubSeq(text, e + 1, Len(text))
<1>6. line \in Text /\ Len(line) = e - 1 /\ \A j \in 1 .. e - 1 : line[j] = text[j]
  <2>1. e - 1 \in Nat /\ e - 1 <= Len(text) /\ 1 <= (e - 1) + 1 /\ 1 \in Nat \ {0}
    BY <1>2, <1>4
  <2>2. PICK d \in Nat : d = e - 1 /\ d <= Len(text) /\ 1 <= d + 1
    BY <2>1
  <2>3. /\ SubSeq(text, 1, d) \in Seq(Pieces \cup {NL}) /\ Len(SubSeq(text, 1, d)) = (d + 1) - 1
        /\ \A j \in 1 .. (d + 1) - 1 : SubSeq(text, 1, d)[j] = text[1 + j - 1]
    BY <1>2, <2>1, <2>2, PartFacts
  <2> QED BY <2>2, <2>3 DEF Text
<1>7. rest \in Text
  <2>1. e + 1 \in Nat \ {0} /\ Len(text) \in Nat /\ Len(text) <= Len(text) /\ e + 1 <= Len(text) + 1
    BY <1>2, <1>4
  <2> QED BY <1>2, <2>1, PartFacts DEF Text
<1>8. SubSeq(text, e, e) = <<NL>>
  <2>1. e \in Nat \ {0} /\ e \in Nat /\ e <= Len(text) /\ e <= e + 1 /\ (e + 1) - e = 1 /\ e + 1 - 1 = e
    BY <1>2, <1>4
  <2>2. SubSeq(text, e, e) \in Seq(Pieces \cup {NL}) /\ Len(SubSeq(text, e, e)) = 1
        /\ \A i \in 1 .. 1 : SubSeq(text, e, e)[i] = text[e + i - 1]
    BY <1>2, <2>1, PartFacts
  <2>3. SubSeq(text, e, e)[1] = NL
    BY <1>5, <2>1, <2>2
  <2>4. <<NL>> \in Seq(Pieces \cup {NL}) /\ Len(<<NL>>) = 1 /\ <<NL>>[1] = NL
    BY NewlineIsText DEF Text
  <2>5. ASSUME NEW i \in 1 .. 1 PROVE SubSeq(text, e, e)[i] = <<NL>>[i]
    <3>1. i = 1
      OBVIOUS
    <3> QED BY <2>3, <2>4, <3>1
  <2> QED BY <2>2, <2>4, <2>5, SeqEqual
<1>9. line \o <<NL>> = SubSeq(text, 1, e)
  <2>1. 1 \in 1 .. Len(text) + 1 /\ e - 1 \in 1 - 1 .. Len(text) /\ e \in e - 1 .. Len(text) /\ (e - 1) + 1 = e
    BY <1>2, <1>4
  <2>2. SubSeq(text, 1, e - 1) \o SubSeq(text, (e - 1) + 1, e) = SubSeq(text, 1, e)
    BY <1>2, <2>1, ConcatAdjacentSubSeq
  <2> QED BY <1>8, <2>1, <2>2
<1>10. SubSeq(text, 1, e) \o rest = text
  <2>1. 1 \in 1 .. Len(text) + 1 /\ e \in 1 - 1 .. Len(text) /\ Len(text) \in e .. Len(text)
    BY <1>2, <1>4
  <2>2. SubSeq(text, 1, e) \o SubSeq(text, e + 1, Len(text)) = SubSeq(text, 1, Len(text))
    BY <1>2, <2>1, ConcatAdjacentSubSeq
  <2> QED BY <1>2, <2>2, SubSeqFull
<1>11. LineFrom(text, 1) = line /\ Len(line) + 2 = e + 1
  BY <1>3, <1>4, <1>6 DEF LineFrom
<1>12. \A j \in 1 .. Len(line) : line[j] # NL
  BY <1>3, <1>6
<1> HIDE DEF line
<1> QED BY <1>6, <1>7, <1>9, <1>10, <1>11, <1>12

(* A buffer without one is a line of its own.                              *)
LEMMA TakeRest ==
    ASSUME NEW text \in Text, ~ Contains(text, NL)
    PROVE  /\ LineFrom(text, 1) = text /\ SubSeq(text, Len(text) + 2, Len(text)) = <<>>
           /\ \A j \in 1 .. Len(text) : text[j] # NL
<1>1. Len(text) \in Nat /\ text \in Seq(Pieces \cup {NL})
  BY DEF Text
<1>2. \A j \in 1 .. Len(text) : text[j] # NL
  BY DEF Contains
<1>3. Min(EndsFrom(text, 1)) = Len(text) + 1
  <2>1. 1 \in 1 .. Len(text) + 1 /\ Len(text) + 1 \in 1 .. Len(text) + 1 /\ (Len(text) + 1) - 1 = Len(text)
    BY <1>1
  <2> QED BY <1>2, <2>1, LineEndIs
<1>4. SubSeq(text, 1, Len(text)) = text
  BY <1>1, SubSeqFull
<1>5. SubSeq(text, Len(text) + 2, Len(text)) = <<>>
  BY <1>1, SubSeqEmpty
<1> QED BY <1>1, <1>2, <1>3, <1>4, <1>5 DEF LineFrom

(* A newline more behind the output.                                       *)
LEMMA MoreNewlines ==
    ASSUME NEW o \in Text, NEW l \in Text, IsPrefix(o, l), AllNewlines(SubSeq(l, Len(o) + 1, Len(l)))
    PROVE  LET m == Append(l, NL)
           IN  IsPrefix(o, m) /\ AllNewlines(SubSeq(m, Len(o) + 1, Len(m)))
<1> DEFINE m == Append(l, NL)
<1>1. o \in Seq(Pieces \cup {NL}) /\ l \in Seq(Pieces \cup {NL}) /\ Len(o) \in Nat /\ Len(l) \in Nat
  BY DEF Text
<1>2. Len(o) <= Len(l) /\ SubSeq(o, 1, Len(o)) = SubSeq(l, 1, Len(o))
  BY DEF IsPrefix
<1>3. m \in Seq(Pieces \cup {NL}) /\ Len(m) = Len(l) + 1 /\ (\A i \in 1 .. Len(l) : m[i] = l[i]) /\ m[Len(l) + 1] = NL
  BY <1>1
<1> HIDE DEF m
<1>4. SubSeq(m, 1, Len(o)) = SubSeq(l, 1, Len(o))
  <2>1. /\ SubSeq(m, 1, Len(o)) \in Seq(Pieces \cup {NL}) /\ Len(SubSeq(m, 1, Len(o))) = (Len(o) + 1) - 1
        /\ \A i \in 1 .. (Len(o) + 1) - 1 : SubSeq(m, 1, Len(o))[i] = m[1 + i - 1]
    BY <1>1, <1>2, <1>3, PartFacts
  <2>2. /\ SubSeq(l, 1, Len(o)) \in Seq(Pieces \cup {NL}) /\ Len(SubSeq(l, 1, Len(o))) = (Len(o) + 1) - 1
        /\ \A i \in 1 .. (Len(o) + 1) - 1 : SubSeq(l, 1, Len(o))[i] = l[1 + i - 1]
    BY <1>1, <1>2, PartFacts
  <2>3. (Len(o) + 1) - 1 = Len(o) /\ \A i \in 1 .. Len(o) : i \in 1 .. Len(l) /\ 1 + i - 1 = i
    BY <1>1, <1>2
  <2>4. \A i \in 1 .. Len(o) : SubSeq(m, 1, Len(o))[i] = SubSeq(l, 1, Len(o))[i]
    BY <1>3, <2>1, <2>2, <2>3
  <2> QED BY <2>1, <2>2, <2>3, <2>4, SeqEqual
<1>5. IsPrefix(o, m)
  BY <1>1, <1>2, <1>3, <1>4 DEF IsPrefix
<1>6. AllNewlines(SubSeq(m, Len(o) + 1, Len(m)))
  <2> DEFINE n == (Len(l) + 1) - Len(o)
  <2>0. Len(o) + 1 \in Nat \ {0} /\ Len(l) + 1 \in Nat /\ n \in Nat /\ n - 1 \in Nat
        /\ ((Len(l) + 1) + 1) - (Len(o) + 1) = n /\ (Len(l) + 1) - (Len(o) + 1) = n - 1
    BY <1>1, <1>2
  <2>1. /\ Len(SubSeq(m, Len(o) + 1, Len(l) + 1)) = n
        /\ \A i \in 1 .. n : SubSeq(m, Len(o) + 1, Len(l) + 1)[i] = m[Len(o) + 1 + i - 1]
    <3>1. Len(l) + 1 <= Len(m) /\ Len(o) + 1 <= (Len(l) + 1) + 1
      BY <1>1, <1>2, <1>3
    <3> QED BY <1>3, <2>0, <3>1, PartFacts
  <2>2. /\ Len(SubSeq(l, Len(o) + 1, Len(l))) = n - 1
        /\ \A i \in 1 .. n - 1 : SubSeq(l, Len(o) + 1, Len(l))[i] = l[Len(o) + 1 + i - 1]
    <3>1. Len(l) <= Len(l) /\ Len(o) + 1 <= Len(l) + 1
      BY <1>1, <1>2
    <3> QED BY <1>1, <2>0, <3>1, PartFacts
  <2>3. \A i \in 1 .. n - 1 : SubSeq(l, Len(o) + 1, Len(l))[i] = NL
    BY <2>2 DEF AllNewlines
  <2>4. ASSUME NEW i \in 1 .. n PROVE m[Len(o) + 1 + i - 1] = NL
    <3>1. CASE i \in 1 .. n - 1
      <4>1. Len(o) + 1 + i - 1 \in 1 .. Len(l)
        BY <1>1, <1>2, <3>1
      <4> QED BY <1>3, <2>2, <2>3, <3>1, <4>1
    <3>2. CASE i \notin 1 .. n - 1
      <4>1. Len(o) + 1 + i - 1 = Len(l) + 1
        BY <1>1, <1>2, <3>2
      <4> QED BY <1>3, <4>1
    <3> QED BY <3>1, <3>2
  <2> HIDE DEF n
  <2> QED BY <1>3, <2>1, <2>4 DEF AllNewlines
<1> QED BY <1>5, <1>6 DEF m

(* A whole output has itself for a prefix and nothing behind it.           *)
LEMMA WholeOutput ==
    ASSUME NEW o \in Text
    PROVE  IsPrefix(o, o) /\ AllNewlines(SubSeq(o, Len(o) + 1, Len(o)))
<1>1. o \in Seq(Pieces \cup {NL}) /\ Len(o) \in Nat
  BY DEF Text
<1>2. SubSeq(o, Len(o) + 1, Len(o)) = <<>>
  BY <1>1, SubSeqEmpty
<1>3. \A i \in 1 .. Len(<<>>) : FALSE
  OBVIOUS
<1> QED BY <1>1, <1>2, <1>3 DEF IsPrefix, AllNewlines
-------------------------------------------------------------------------------
(* What the screen shows in mode "tail" while the command is copied.       *)
TailScreen == <<Banner>> \o tail \o (IF warning THEN <<Warning>> ELSE <<>>)

(* What is taken off the screen there is the warning, or all but the first *)
(* line.                                                                   *)
LEMMA TailScreenFacts ==
    ASSUME LogTypeOK
    PROVE  /\ Without(OneIf(warning), TailScreen) = <<Banner>> \o tail
           /\ Without(OneIf(warning) + Len(tail), TailScreen) = <<Banner>>
<1> DEFINE S == Text \cup {Banner, Warning}
           head == <<Banner>> \o tail
           note == IF warning THEN <<Warning>> ELSE <<>>
<1>1. tail \in Seq(Text) /\ warning \in BOOLEAN
  BY DEF LogTypeOK
<1>2. Text \subseteq S /\ <<Banner>> \in Seq(S) /\ Len(<<Banner>>) = 1 /\ note \in Seq(S)
  <2>1. Text \subseteq S /\ Banner \in S /\ Warning \in S
    OBVIOUS
  <2> HIDE DEF S
  <2>2. <<Banner>> \in Seq(S) /\ Len(<<Banner>>) = 1
    BY <2>1
  <2>3. <<Warning>> \in Seq(S) /\ <<>> \in Seq(S)
    BY <2>1
  <2> QED BY <2>1, <2>2, <2>3
<1>3. tail \in Seq(S)
  BY <1>1, <1>2, SeqMonotonic
<1>4. Len(note) = OneIf(warning)
  BY <1>1 DEF OneIf
<1> HIDE DEF S
<1>5. head \in Seq(S) /\ Len(head) = 1 + Len(tail) /\ Len(tail) \in Nat
  BY <1>2, <1>3, ConcatProperties
<1>6. head \o note \in Seq(S) /\ Len(head \o note) = Len(head) + Len(note) /\ Len(note) \in Nat
  <2>1. note \in Seq(S)
    BY <1>2
  <2> HIDE DEF head, note
  <2>2. Len(note) \in Nat
    BY <2>1, LenProperties
  <2> QED BY <1>5, <2>1, <2>2, ConcatProperties
<1>7. SubSeq(head \o note, 1, Len(head)) = head
  <2> HIDE DEF head, note
  <2>1. 1 \in 1 .. Len(head) /\ Len(head) \in 1 .. Len(head)
    BY <1>5
  <2> QED BY <1>2, <1>5, <2>1, SubSeqOfConcat1, SubSeqFull
<1>8. SubSeq(head, 1, 1) = <<Banner>>
  <2>1. 1 \in 1 .. Len(<<Banner>>)
    BY <1>2
  <2>2. SubSeq(head, 1, 1) = SubSeq(<<Banner>>, 1, 1)
    BY <1>2, <1>3, <2>1, SubSeqOfConcat1
  <2>3. SubSeq(<<Banner>>, 1, Len(<<Banner>>)) = <<Banner>>
    BY <1>2, SubSeqFull
  <2> QED BY <1>2, <2>2, <2>3
<1>9. SubSeq(head \o note, 1, 1) = <<Banner>>
  <2> HIDE DEF head, note
  <2>1. 1 \in 1 .. Len(head)
    BY <1>5
  <2> QED BY <1>2, <1>5, <1>8, <2>1, SubSeqOfConcat1
<1>10. TailScreen = head \o note
  BY DEF TailScreen
<1>11. Len(TailScreen) - OneIf(warning) = Len(head) /\ Len(TailScreen) - (OneIf(warning) + Len(tail)) = 1
  <2> HIDE DEF head, note
  <2> QED BY <1>4, <1>5, <1>6, <1>10
<1> HIDE DEF note
<1> QED BY <1>7, <1>9, <1>10, <1>11 DEF Without

(* The screen of the invariant, by the place of the loop.                  *)
LEMMA ScreenIs ==
    ASSUME mode = "tail"
    PROVE  /\ pc = "report" => (ScreenShowsTail <=> screen = <<Banner>>)
           /\ Copied /\ pc # "report" => (ScreenShowsTail <=> Head(screen) = Status)
           /\ ~ Copied => (ScreenShowsTail <=> screen = TailScreen)
BY DEF ScreenShowsTail, TailScreen, Copied, Ended

LEMMA InitLogInv == LogInit => LogInv
<1> SUFFICES ASSUME LogInit PROVE LogInv
  OBVIOUS
<1> USE DEF LogInit
<1>1. output \in Text /\ Len(output) \in Nat /\ 0 \in 0 .. Len(output)
  BY LogAssumption DEF Text
<1>2. LogTypeOK
  <2>1. <<>> \in Text /\ <<>> \in Seq(Text)
    BY DEF Text
  <2>2. closed \in BOOLEAN /\ late \in BOOLEAN /\ warning \in BOOLEAN
    OBVIOUS
  <2>3. mode \in Modes /\ output \in Outputs /\ written \in 0 .. Len(output)
    BY <1>1
  <2>4. /\ pipe \in Text /\ textBuffer \in Text /\ log \in Text
        /\ lines \in Seq(Text) /\ tail \in Seq(Text)
    BY <2>1
  <2> QED BY <2>2, <2>3, <2>4 DEF LogTypeOK
<1>3. NothingIsLost
  <2>1. Arrived = <<>>
    BY DEF Arrived
  <2>2. SubSeq(output, 1, 0) = <<>>
    BY SubSeqEmpty
  <2> QED BY <2>1, <2>2 DEF NothingIsLost
<1>4. EndIsTheEnd /\ ~ Copied
  BY DEF EndIsTheEnd, Copied
<1>5. LinesSoFar
  BY <1>4, SplitNothing DEF LinesSoFar, WholeLines
<1>6. ScreenShowsTail
  <2>1. <<Banner>> \o <<>> = <<Banner>>
    OBVIOUS
  <2>2. TailScreen = <<Banner>>
    BY <2>1 DEF TailScreen
  <2> QED BY <1>4, <2>2, ScreenIs DEF ScreenShowsTail
<1> QED BY <1>2, <1>3, <1>4, <1>5, <1>6 DEF LogInv

(* The command's own steps: what it writes goes to the end of the pipe.    *)
LEMMA CommandLogInv ==
    ASSUME LogInv, Write \/ CloseOutput \/ (\E status \in {"success", "failure"} : Exit(status)) \/ TimePasses
    PROVE  LogInv'
<1> USE DEF LogInv
<1>0. UNCHANGED <<mode, output, textBuffer, pc, copies>>
  BY DEF Write, CloseOutput, Exit, TimePasses, command
<1>1. output \in Text /\ Len(output) \in Nat /\ log \in Text /\ textBuffer \in Text /\ pipe \in Text
      /\ written \in 0 .. Len(output)
  BY LogAssumption DEF Text, LogTypeOK
<1>2. CASE Write
  <2>1. output[written + 1] \in Pieces \cup {NL} /\ written + 1 \in 1 .. Len(output)
    BY <1>1, <1>2 DEF Write, Text
  <2>2. pipe' = Append(pipe, output[written + 1]) /\ pipe' \in Text
    BY <1>1, <1>2, <2>1 DEF Write, Text
  <2>3. LogTypeOK'
    BY <1>0, <1>2, <2>1, <2>2 DEF LogTypeOK, Write, copies
  <2>4. Arrived = SubSeq(output, 1, written) /\ ~ closed
    BY <1>2 DEF Write, NothingIsLost, OnlyNewlinesMore
  <2>5. Arrived' = SubSeq(output, 1, written + 1)
    <3>1. textBuffer' = textBuffer /\ log' = log
      BY <1>0 DEF copies
    <3> DEFINE all == log \o textBuffer
               x == output[written + 1]
               S == Pieces \cup {NL}
    <3>2. all \in Seq(S)
      BY <1>1, ConcatProperties DEF Text
    <3>3. pipe \in Seq(S) /\ x \in S /\ <<x>> \in Seq(S) /\ output \in Seq(S)
      BY <1>1, <2>1 DEF Text
    <3>4. Arrived' = all \o pipe'
      BY <3>1 DEF Arrived
    <3> HIDE DEF all, S
    <3>5. Append(pipe, x) = pipe \o <<x>>
      BY <3>3, AppendIsConcat
    <3>6. (all \o pipe) \o <<x>> = all \o (pipe \o <<x>>)
      BY <3>2, <3>3, ConcatAssociative
    <3>7. SubSeq(output, 1, written + 1) = SubSeq(output, 1, (written + 1) - 1) \o <<x>>
      <4>1. 1 \in 1 .. Len(output) /\ written + 1 \in 1 .. Len(output)
        BY <1>1, <2>1
      <4> QED BY <3>3, <4>1, SubSeqRecursiveSecond
    <3>8. (written + 1) - 1 = written
      BY <1>1
    <3>9. Arrived = all \o pipe
      BY DEF Arrived, all
    <3> QED BY <2>2, <2>4, <3>4, <3>5, <3>6, <3>7, <3>8, <3>9
  <2>6. NothingIsLost' /\ EndIsTheEnd' /\ Copied' = Copied
    <3>1. ~ Copied
      BY <2>4 DEF EndIsTheEnd, NothingIsLost
    <3>2. UNCHANGED <<code, closed, output, textBuffer, pc>> /\ written' = written + 1
      BY <1>0, <1>2 DEF Write
    <3> QED BY <2>4, <2>5, <3>1, <3>2 DEF NothingIsLost, EndIsTheEnd, Copied
  <2>7. LinesSoFar'
    BY <1>0, <2>6 DEF LinesSoFar, WholeLines, copies
  <2>8. ScreenShowsTail'
    <3>1. UNCHANGED <<mode, pc, tail, warning, screen, code, lines>>
      BY <1>0, <1>2 DEF Write, copies
    <3> QED BY <3>1 DEF ScreenShowsTail, Ended, Status, Failed
  <2> QED BY <2>3, <2>6, <2>7, <2>8
<1>3. CASE CloseOutput \/ (\E status \in {"success", "failure"} : Exit(status)) \/ TimePasses
  <2>1. UNCHANGED <<written, pipe>>
    BY <1>3 DEF CloseOutput, Exit, TimePasses, command
  <2>2. closed' \in BOOLEAN /\ late' \in BOOLEAN
    BY <1>3 DEF CloseOutput, Exit, TimePasses, command, LogTypeOK
  <2>3. LogTypeOK'
    BY <1>0, <2>1, <2>2 DEF LogTypeOK, copies
  <2>4. /\ closed => closed'
        /\ code' # "running" => closed'
        /\ code # "running" => code' = code
        /\ closed' => written = Len(output)
    BY <1>3 DEF CloseOutput, Exit, TimePasses, command, NothingIsLost
  <2>5. UNCHANGED <<output, textBuffer, log, written, pipe>>
    BY <1>0, <2>1 DEF copies
  <2>6. Arrived' = Arrived /\ (OnlyNewlinesMore => OnlyNewlinesMore')
    BY <2>4, <2>5 DEF Arrived, OnlyNewlinesMore, AllNewlines
  <2>7. NothingIsLost'
    BY <2>4, <2>5, <2>6 DEF NothingIsLost
  <2>8. EndIsTheEnd' /\ Copied' = Copied
    <3>1. code # "running" => code' # "running"
      BY <2>4
    <3> QED BY <1>0, <2>5, <3>1 DEF EndIsTheEnd, Copied
  <2>9. LinesSoFar'
    BY <1>0, <2>8 DEF LinesSoFar, WholeLines, copies
  <2>10. ScreenShowsTail'
    <3>1. UNCHANGED <<mode, pc, tail, warning, screen, lines>>
      BY <1>0 DEF copies
    <3>2. Ended => code' = code
      BY <2>4 DEF EndIsTheEnd, Ended, Copied
    <3> QED BY <3>1, <3>2 DEF ScreenShowsTail, Ended, Status, Failed
  <2> QED BY <2>3, <2>7, <2>8, <2>9, <2>10
<1> QED BY <1>2, <1>3
(* The steps of the loop that copy nothing.                                *)
LEMMA WaitingLogInv ==
    ASSUME LogInv, Poll \/ Select \/ FillBuffer
    PROVE  LogInv'
<1> USE DEF LogInv
<1>1. UNCHANGED <<command, late, copies>> /\ textBuffer' \o pipe' = textBuffer \o pipe
      /\ textBuffer' \in Text /\ pipe' \in Text
  <2>1. textBuffer \in Seq(Pieces \cup {NL}) /\ pipe \in Seq(Pieces \cup {NL})
    BY DEF LogTypeOK, Text
  <2>2. CASE Poll \/ Select
    BY <2>1, <2>2 DEF Poll, Select, Text
  <2>3. CASE FillBuffer
    <3>1. textBuffer' = textBuffer \o pipe /\ pipe' = <<>> /\ UNCHANGED <<command, late, copies>>
      BY <2>3 DEF FillBuffer
    <3>2. textBuffer \o pipe \in Seq(Pieces \cup {NL}) /\ <<>> \in Seq(Pieces \cup {NL})
      BY <2>1, ConcatProperties
    <3> QED BY <3>1, <3>2, ConcatEmptySeq DEF Text
  <2> QED BY <2>2, <2>3
<1>2. ~ Copied /\ ~ Copied' /\ (pc' = "communicate" => code # "running")
  BY DEF Poll, Select, FillBuffer, StillRunning, Copied
<1>3. UNCHANGED <<mode, output, written, closed, code, late, log, lines, tail, warning, screen>>
  BY <1>1 DEF command, copies
<1>4. LogTypeOK'
  BY <1>1, <1>3 DEF LogTypeOK
<1>5. Arrived' = Arrived
  <2>1. (log \o textBuffer) \o pipe = log \o (textBuffer \o pipe)
    BY ConcatAssociative, SMTT(30) DEF LogTypeOK, Text
  <2>2. (log \o textBuffer') \o pipe' = log \o (textBuffer' \o pipe')
    <3>1. log \in Seq(Pieces \cup {NL}) /\ textBuffer' \in Seq(Pieces \cup {NL}) /\ pipe' \in Seq(Pieces \cup {NL})
      BY <1>1 DEF LogTypeOK, Text
    <3> QED BY <3>1, ConcatAssociative
  <2> QED BY <1>1, <1>3, <2>1, <2>2 DEF Arrived
<1>6. NothingIsLost'
  <2>1. OnlyNewlinesMore => OnlyNewlinesMore'
    <3> SUFFICES ASSUME OnlyNewlinesMore PROVE OnlyNewlinesMore'
      OBVIOUS
    <3>1. textBuffer = <<>> /\ pipe = <<>>
      BY DEF OnlyNewlinesMore
    <3>2. textBuffer' = <<>> /\ pipe' = <<>>
      BY <3>1 DEF Poll, Select, FillBuffer
    <3> QED BY <1>3, <3>2 DEF OnlyNewlinesMore, AllNewlines
  <2> QED BY <1>3, <1>5, <2>1 DEF NothingIsLost
<1>7. EndIsTheEnd'
  BY <1>2, <1>3 DEF EndIsTheEnd
<1>8. LinesSoFar'
  BY <1>2, <1>3 DEF LinesSoFar, WholeLines
<1>9. ScreenShowsTail'
  <2> SUFFICES ASSUME mode' = "tail" PROVE ScreenShowsTail'
    BY DEF ScreenShowsTail
  <2>1. screen = TailScreen
    BY <1>2, <1>3, ScreenIs
  <2>2. screen' = TailScreen'
    BY <1>3, <2>1 DEF TailScreen
  <2> QED BY <1>2, <2>2 DEF ScreenShowsTail, TailScreen, Copied, Ended
<1> QED BY <1>4, <1>6, <1>7, <1>8, <1>9

LEMMA CheckTimeoutLogInv ==
    ASSUME LogInv, CheckTimeout
    PROVE  LogInv'
<1> USE DEF LogInv
<1>1. UNCHANGED <<mode, output, written, closed, code, pipe, textBuffer, late, log, lines, tail>>
      /\ pc = "timeout" /\ pc' = "poll"
  BY DEF CheckTimeout, command
<1>2. ~ Copied /\ ~ Copied'
  BY <1>1 DEF Copied
<1>3. LogTypeOK'
  BY <1>1 DEF LogTypeOK, CheckTimeout
<1>4. NothingIsLost'
  BY <1>1 DEF NothingIsLost, Arrived, OnlyNewlinesMore, AllNewlines
<1>5. EndIsTheEnd' /\ LinesSoFar'
  BY <1>1, <1>2 DEF EndIsTheEnd, LinesSoFar, WholeLines
<1>6. ScreenShowsTail'
  <2> SUFFICES ASSUME mode' = "tail" PROVE ScreenShowsTail'
    BY DEF ScreenShowsTail
  <2>1. screen = TailScreen
    BY <1>1, <1>2, ScreenIs
  <2>2. screen' = TailScreen'
    <3>1. CASE late
      <4>1. screen' = Append(<<Banner>> \o tail, Warning) /\ warning' = TRUE
        BY <2>1, <3>1, TailScreenFacts DEF CheckTimeout
      <4> DEFINE S == Text \cup {Banner, Warning}
      <4>2. Banner \in S /\ Warning \in S /\ Text \subseteq S /\ tail \in Seq(Text)
        BY DEF LogTypeOK
      <4> HIDE DEF S
      <4>3. tail \in Seq(S) /\ <<Banner>> \in Seq(S)
        BY <4>2, SeqMonotonic
      <4>4. <<Banner>> \o tail \in Seq(S)
        BY <4>3, ConcatProperties
      <4>5. Append(<<Banner>> \o tail, Warning) = (<<Banner>> \o tail) \o <<Warning>>
        BY <4>2, <4>4, AppendIsConcat
      <4> QED BY <1>1, <4>1, <4>5 DEF TailScreen
    <3>2. CASE ~ late
      <4>1. screen' = screen /\ warning' = warning
        BY <3>2 DEF CheckTimeout, LogTypeOK
      <4> QED BY <1>1, <2>1, <4>1 DEF TailScreen
    <3> QED BY <3>1, <3>2
  <2> QED BY <1>2, <2>2 DEF ScreenShowsTail, TailScreen, Copied, Ended
<1> QED BY <1>3, <1>4, <1>5, <1>6

(* communicate returns what is left, and closes the copies with it.        *)
LEMMA CommunicateLogInv ==
    ASSUME LogInv, Communicate
    PROVE  LogInv'
<1> USE DEF LogInv
<1>1. UNCHANGED <<mode, output, written, closed, code, late, tail, warning>>
      /\ pc = "communicate" /\ pc' = "report" /\ textBuffer' = <<>> /\ pipe' = <<>>
      /\ log' = log \o Rest /\ lines' = LinesAfter
  BY DEF Communicate, command
<1>2. ~ Copied /\ Copied' /\ code # "running"
  BY <1>1 DEF Copied, EndIsTheEnd
<1>3. Rest \in Text /\ log \in Text /\ lines \in Seq(Text) /\ WholeLines(log) /\ SplitLines(log) = lines
  <2>1. textBuffer \o pipe \in Text
    BY ConcatProperties DEF LogTypeOK, Text
  <2> QED BY <1>2, <2>1 DEF Rest, LogTypeOK, LinesSoFar
<1>4. SplitLines(log \o Rest) = lines \o SplitLines(Rest) /\ SplitLines(Rest) \in Seq(Text)
  BY <1>3, SplitConcat
<1>5. LogTypeOK'
  <2>1. log \o Rest \in Text
    BY <1>3, ConcatProperties DEF Text
  <2>2. LinesAfter \in Seq(Text)
    <3>1. lines \o SplitLines(Rest) \in Seq(Text)
      BY <1>3, <1>4, ConcatProperties
    <3> QED BY <1>3, <3>1 DEF LinesAfter
  <2>3. <<>> \in Text
    BY DEF Text
  <2> QED BY <1>1, <2>1, <2>2, <2>3 DEF LogTypeOK
<1>6. Arrived = log \o Rest
  BY ConcatAssociative, SMTT(30) DEF LogTypeOK, Text, Arrived, Rest
<1>7. NothingIsLost'
  <2>1. Arrived' = log'
    <3>1. log' \in Seq(Pieces \cup {NL})
      BY <1>5 DEF LogTypeOK, Text
    <3>2. (log' \o <<>>) \o <<>> = log'
      BY <3>1, ConcatEmptySeq
    <3> QED BY <1>1, <3>2 DEF Arrived
  <2>2. Arrived' = Arrived
    BY <1>1, <1>6, <2>1
  <2>3. OnlyNewlinesMore => OnlyNewlinesMore'
    <3> SUFFICES ASSUME OnlyNewlinesMore PROVE OnlyNewlinesMore'
      OBVIOUS
    <3>1. log \in Seq(Pieces \cup {NL}) /\ log \o <<>> = log /\ <<>> \o <<>> = <<>>
      BY <1>3, ConcatEmptySeq DEF Text
    <3>2. log' = log
      BY <1>1, <3>1 DEF OnlyNewlinesMore, Rest
    <3> QED BY <1>1, <3>2 DEF OnlyNewlinesMore, AllNewlines
  <2> QED BY <1>1, <2>2, <2>3 DEF NothingIsLost
<1>8. EndIsTheEnd'
  BY <1>1, <1>2 DEF EndIsTheEnd
<1>9. LinesSoFar'
  BY <1>1, <1>2, <1>4 DEF LinesSoFar, LinesAfter
<1>10. ScreenShowsTail'
  <2> SUFFICES ASSUME mode' = "tail" PROVE screen' = <<Banner>>
    BY <1>1 DEF ScreenShowsTail, Ended
  <2>1. screen = TailScreen
    BY <1>1, <1>2, ScreenIs
  <2>2. screen' = Without(OneIf(warning) + Len(tail), screen)
    BY <1>1 DEF Communicate
  <2> QED BY <2>1, <2>2, TailScreenFacts
<1> QED BY <1>5, <1>7, <1>8, <1>9, <1>10

LEMMA ReportLogInv ==
    ASSUME LogInv, Report
    PROVE  LogInv'
<1> USE DEF LogInv
<1>1. UNCHANGED <<mode, output, written, closed, code, pipe, textBuffer, late, log, lines, tail, warning>>
      /\ pc = "report" /\ pc' \in {"raised", "returned"}
  BY DEF Report, command
<1>2. Copied /\ Copied'
  BY <1>1 DEF Copied
<1>3. LogTypeOK' /\ NothingIsLost' /\ EndIsTheEnd' /\ LinesSoFar'
  BY <1>1, <1>2 DEF LogTypeOK, NothingIsLost, Arrived, OnlyNewlinesMore, AllNewlines, EndIsTheEnd, LinesSoFar
<1>4. ScreenShowsTail'
  <2> SUFFICES ASSUME mode' = "tail" PROVE Head(screen') = Status'
    BY <1>1 DEF ScreenShowsTail, Ended
  <2>1. screen = <<Banner>>
    BY <1>1, ScreenIs
  <2>2. Without(1, screen) = <<>>
    BY <2>1 DEF Without
  <2>a. Append(<<>>, Status) = <<Status>>
    OBVIOUS
  <2>b. screen' = Append(Without(1, screen), Status) \o (IF Failed THEN lines ELSE <<>>)
    BY <1>1 DEF Report
  <2>3. screen' = <<Status>> \o (IF Failed THEN lines ELSE <<>>)
    BY <2>2, <2>a, <2>b
  <2>4. Head(screen') = Status
    <3> DEFINE S == Text \cup {Status}
               more == IF Failed THEN lines ELSE <<>>
    <3>1. <<Status>> \in Seq(S) /\ Len(<<Status>>) = 1 /\ <<Status>>[1] = Status
      <4>1. Status \in S
        OBVIOUS
      <4> HIDE DEF S
      <4> QED BY <4>1
    <3>2. more \in Seq(S)
      <4>1. lines \in Seq(Text) /\ Text \subseteq S
        BY DEF LogTypeOK
      <4>2. lines \in Seq(S) /\ <<>> \in Seq(S)
        BY <4>1, SeqMonotonic
      <4> QED BY <4>2
    <3> HIDE DEF S, more
    <3>3. <<Status>> \o more \in Seq(S) /\ (<<Status>> \o more)[1] = Status /\ Len(<<Status>> \o more) > 0
      BY <3>1, <3>2, ConcatFacts
    <3>4. Head(<<Status>> \o more) = Status
      BY <3>3
    <3> QED BY <2>3, <3>4 DEF more
  <2>5. Status' = Status
    BY <1>1 DEF Status, Failed
  <2> QED BY <2>4, <2>5
<1> QED BY <1>3, <1>4
(* What a readline takes out of the buffer goes into the log with a        *)
(* newline, which the buffer had or which is more than was written.        *)
LEMMA LineRead ==
    ASSUME LogInv, ReadLine
    PROVE  \E line \in Text :
              /\ \A j \in 1 .. Len(line) : line[j] # NL
              /\ line = LineFrom(textBuffer, 1)
              /\ log' = log \o (line \o <<NL>>) /\ lines' = Append(lines, line)
              /\ textBuffer' \in Text
              /\ \/ textBuffer = (line \o <<NL>>) \o textBuffer'
                 \/ closed /\ pipe = <<>> /\ textBuffer = line /\ textBuffer' = <<>>
<1> USE DEF LogInv
<1> DEFINE line == LineFrom(textBuffer, 1)
<1>1. textBuffer \in Text /\ log \in Text
  BY DEF LogTypeOK
<1>2. textBuffer' = SubSeq(textBuffer, Len(line) + 2, Len(textBuffer)) /\ lines' = Append(lines, line)
      /\ log' = Append(log \o line, NL)
  BY DEF ReadLine
<1>3. /\ line \in Text /\ textBuffer' \in Text /\ \A j \in 1 .. Len(line) : line[j] # NL
      /\ \/ textBuffer = (line \o <<NL>>) \o textBuffer'
         \/ closed /\ pipe = <<>> /\ textBuffer = line /\ textBuffer' = <<>>
  <2>1. CASE Contains(textBuffer, NL)
    BY <1>1, <1>2, <2>1, TakeLine
  <2>2. CASE ~ Contains(textBuffer, NL)
    <3>1. closed /\ pipe = <<>>
      BY <2>2 DEF ReadLine
    <3>2. line = textBuffer /\ SubSeq(textBuffer, Len(textBuffer) + 2, Len(textBuffer)) = <<>>
          /\ \A j \in 1 .. Len(textBuffer) : textBuffer[j] # NL
      BY <1>1, <2>2, TakeRest
    <3>3. <<>> \in Text
      BY DEF Text
    <3> HIDE DEF line
    <3> QED BY <1>1, <1>2, <3>1, <3>2, <3>3
  <2> QED BY <2>1, <2>2
<1> HIDE DEF line
<1>4. log' = log \o (line \o <<NL>>)
  <2> DEFINE S == Pieces \cup {NL}
  <2>1. log \in Seq(S) /\ line \in Seq(S) /\ <<NL>> \in Seq(S) /\ NL \in S
    BY <1>1, <1>3, NewlineIsText DEF Text
  <2> HIDE DEF S
  <2>2. log \o line \in Seq(S)
    BY <2>1, ConcatProperties
  <2>3. Append(log \o line, NL) = (log \o line) \o <<NL>>
    BY <2>1, <2>2, AppendIsConcat
  <2>4. (log \o line) \o <<NL>> = log \o (line \o <<NL>>)
    BY <2>1, ConcatAssociative
  <2> QED BY <1>2, <2>3, <2>4
<1> QED BY <1>2, <1>3, <1>4 DEF line

LEMMA ReadLineLogInv ==
    ASSUME LogInv, ReadLine
    PROVE  LogInv'
<1> USE DEF LogInv
<1> DEFINE S == Pieces \cup {NL}
<1>1. PICK line \in Text :
              /\ \A j \in 1 .. Len(line) : line[j] # NL
              /\ line = LineFrom(textBuffer, 1)
              /\ log' = log \o (line \o <<NL>>) /\ lines' = Append(lines, line)
              /\ textBuffer' \in Text
              /\ \/ textBuffer = (line \o <<NL>>) \o textBuffer'
                 \/ closed /\ pipe = <<>> /\ textBuffer = line /\ textBuffer' = <<>>
  BY LineRead
<1>2. UNCHANGED <<mode, output, written, closed, code, pipe, late>> /\ pc = "readline" /\ pc' = "timeout"
  BY DEF ReadLine, command
<1>3. ~ Copied /\ ~ Copied'
  BY <1>2 DEF Copied
<1>4. log \in Seq(S) /\ textBuffer \in Seq(S) /\ pipe \in Seq(S) /\ line \in Seq(S) /\ textBuffer' \in Seq(S)
      /\ <<NL>> \in Seq(S) /\ NL \in S /\ output \in Seq(S)
  BY <1>1, NewlineIsText, LogAssumption DEF LogTypeOK, Text
<1>5. line \o <<NL>> \in Seq(S) /\ log' \in Seq(S)
  <2> HIDE DEF S
  <2>1. line \o <<NL>> \in Seq(S)
    BY <1>4, ConcatProperties
  <2> QED BY <1>1, <1>4, <2>1, ConcatProperties
<1>6. tail' \in Seq(Text) /\ warning' \in BOOLEAN /\ lines' \in Seq(Text)
  <2>1. lines' \in Seq(Text)
    BY <1>1 DEF LogTypeOK
  <2>2. Kept(line) \in Seq(Text)
    <3> DEFINE all == Append(tail, line)
               m == Min({Len(all), TailLength})
    <3>1. all \in Seq(Text) /\ Len(all) \in Nat
      BY DEF LogTypeOK
    <3>2. m \in Nat /\ m <= Len(all)
      <4> HIDE DEF all
      <4>1. {Len(all), TailLength} \in SUBSET Nat
        BY <3>1, LogAssumption
      <4>2. PICK x \in {Len(all), TailLength} : \A y \in {Len(all), TailLength} : x <= y
        BY <4>1, LeastNat
      <4>3. m \in {Len(all), TailLength} /\ \A y \in {Len(all), TailLength} : m <= y
        BY <4>2 DEF Min
      <4> HIDE DEF m
      <4> QED BY <4>1, <4>3
    <3> HIDE DEF all, m
    <3>3. Len(all) + 1 - m \in Nat \ {0} /\ Len(all) + 1 - m <= Len(all) + 1
      BY <3>1, <3>2
    <3>4. SubSeq(all, Len(all) + 1 - m, Len(all)) \in Seq(Text)
      BY <3>1, <3>3, PartFacts
    <3> QED BY <3>4 DEF Kept, all, m
  <2>3. (tail' = tail /\ warning' = warning) \/ (tail' = Kept(line) /\ warning' = FALSE)
    BY <1>1 DEF ReadLine
  <2> QED BY <2>1, <2>2, <2>3 DEF LogTypeOK
<1>7. LogTypeOK'
  BY <1>1, <1>2, <1>5, <1>6 DEF LogTypeOK, Text
<1>8. NothingIsLost'
  <2>1. CASE textBuffer = (line \o <<NL>>) \o textBuffer'
    <3>1. ~ OnlyNewlinesMore
      <4>1. Len(line \o <<NL>>) = Len(line) + 1 /\ Len(line) \in Nat /\ Len(textBuffer') \in Nat
        BY <1>4, ConcatProperties
      <4>2. Len(textBuffer) = Len(line \o <<NL>>) + Len(textBuffer')
        BY <1>4, <1>5, <2>1, ConcatProperties
      <4>3. textBuffer # <<>>
        BY <4>1, <4>2
      <4> QED BY <4>3 DEF OnlyNewlinesMore
    <3>2. log \o textBuffer = log' \o textBuffer'
      <4> DEFINE piece == line \o <<NL>>
      <4>1. piece \in Seq(S) /\ log' = log \o piece /\ textBuffer = piece \o textBuffer'
        BY <1>1, <1>5, <2>1
      <4> HIDE DEF S, piece
      <4>2. (log \o piece) \o textBuffer' = log \o (piece \o textBuffer')
        BY <1>4, <4>1, ConcatAssociative, SMTT(30)
      <4> QED BY <4>1, <4>2
    <3>3. Arrived' = Arrived
      BY <1>2, <3>2 DEF Arrived
    <3> QED BY <1>2, <3>1, <3>3 DEF NothingIsLost
  <2>2. CASE closed /\ pipe = <<>> /\ textBuffer = line /\ textBuffer' = <<>>
    <3> DEFINE before == log \o line
    <3>1. before \in Text /\ log' = Append(before, NL)
      <4>1. before \in Seq(S)
        BY <1>4, ConcatProperties
      <4>2. (log \o line) \o <<NL>> = log \o (line \o <<NL>>)
        BY <1>4, ConcatAssociative, SMTT(30)
      <4> HIDE DEF before
      <4>3. Append(before, NL) = before \o <<NL>>
        BY <1>4, <4>1, AppendIsConcat
      <4> QED BY <1>1, <4>1, <4>2, <4>3 DEF before, Text
    <3>2. Arrived = before
      <4> HIDE DEF S
      <4>1. before \in Seq(S)
        BY <1>4, ConcatProperties
      <4>2. Arrived = before \o <<>>
        BY <2>2 DEF Arrived
      <4> HIDE DEF before
      <4> QED BY <4>1, <4>2, ConcatEmptySeq
    <3>3. IsPrefix(output, before) /\ AllNewlines(SubSeq(before, Len(output) + 1, Len(before)))
      <4>1. CASE Arrived = SubSeq(output, 1, written)
        <5>1. written = Len(output)
          BY <2>2 DEF NothingIsLost
        <5>2. SubSeq(output, 1, Len(output)) = output
          BY <1>4, SubSeqFull
        <5>3. before = output /\ output \in Text
          BY <1>4, <3>2, <4>1, <5>1, <5>2 DEF Text
        <5> QED BY <5>3, WholeOutput
      <4>2. CASE OnlyNewlinesMore
        <5>1. line = <<>>
          BY <2>2, <4>2 DEF OnlyNewlinesMore
        <5>2. log \o <<>> = log
          BY <1>4, ConcatEmptySeq
        <5>3. before = log
          BY <5>1, <5>2
        <5> QED BY <4>2, <5>3 DEF OnlyNewlinesMore
      <4> QED BY <4>1, <4>2 DEF NothingIsLost
    <3>4. output \in Text
      BY <1>4 DEF Text
    <3> HIDE DEF before
    <3>5. IsPrefix(output, log') /\ AllNewlines(SubSeq(log', Len(output) + 1, Len(log')))
      BY <3>1, <3>3, <3>4, MoreNewlines
    <3>6. OnlyNewlinesMore'
      BY <1>2, <2>2, <3>5 DEF OnlyNewlinesMore, AllNewlines
    <3> QED BY <1>2, <3>6 DEF NothingIsLost
  <2> QED BY <1>1, <2>1, <2>2
<1>9. EndIsTheEnd'
  BY <1>2, <1>3 DEF EndIsTheEnd
<1>10. LinesSoFar'
  <2> DEFINE piece == line \o <<NL>>
  <2>1. WholeLines(log) /\ SplitLines(log) = lines /\ log \in Text /\ piece \in Text /\ lines \in Seq(Text)
    BY <1>3, <1>4, <1>5 DEF LinesSoFar, Text, LogTypeOK
  <2>2. SplitLines(piece) = <<line>>
    BY <1>1, SplitOne
  <2>3. Len(piece) \in 1 .. Len(piece) /\ piece[Len(piece)] = NL
    <3>1. Len(<<NL>>) = 1 /\ <<NL>>[1] = NL /\ 1 \in 1 .. Len(<<NL>>)
      OBVIOUS
    <3>2. Len(piece) = Len(line) + Len(<<NL>>) /\ Len(line) \in Nat
          /\ \A i \in 1 .. Len(<<NL>>) : piece[Len(line) + i] = <<NL>>[i]
      BY <1>4, ConcatFacts
    <3> HIDE DEF piece
    <3> QED BY <3>1, <3>2
  <2> HIDE DEF piece
  <2>4. SplitLines(log \o piece) = lines \o <<line>>
    BY <2>1, <2>2, SplitConcat
  <2>5. lines \o <<line>> = Append(lines, line)
    BY <2>1, AppendIsConcat
  <2>6. Len(log \o piece) = Len(log) + Len(piece) /\ (log \o piece)[Len(log) + Len(piece)] = NL
    BY <2>1, <2>3, ConcatFacts DEF Text
  <2>7. log' = log \o piece /\ lines' = Append(lines, line)
    BY <1>1 DEF piece
  <2> QED BY <1>3, <2>4, <2>5, <2>6, <2>7 DEF LinesSoFar, WholeLines
<1>11. ScreenShowsTail'
  <2> SUFFICES ASSUME mode' = "tail" PROVE ScreenShowsTail'
    BY DEF ScreenShowsTail
  <2>1. screen = TailScreen
    BY <1>2, <1>3, ScreenIs
  <2>2. /\ tail' = Kept(line) /\ warning' = FALSE
        /\ screen' = Without(OneIf(warning) + Len(tail), screen) \o Kept(line)
    BY <1>1, <1>2 DEF ReadLine, TailToDelete
  <2>3. screen' = <<Banner>> \o tail'
    BY <2>1, <2>2, TailScreenFacts
  <2>4. TailScreen' = <<Banner>> \o tail'
    <3> DEFINE Shown == Text \cup {Banner}
    <3>1. Banner \in Shown /\ Text \subseteq Shown
      OBVIOUS
    <3> HIDE DEF Shown
    <3>2. <<Banner>> \in Seq(Shown) /\ tail' \in Seq(Shown)
      BY <1>6, <3>1, SeqMonotonic
    <3>3. <<Banner>> \o tail' \in Seq(Shown)
      BY <3>2, ConcatProperties
    <3>4. (<<Banner>> \o tail') \o <<>> = <<Banner>> \o tail'
      BY <3>3, ConcatEmptySeq
    <3> QED BY <2>2, <3>4 DEF TailScreen
  <2> QED BY <1>3, <2>3, <2>4 DEF ScreenShowsTail, TailScreen, Copied, Ended
<1> QED BY <1>7, <1>8, <1>9, <1>10, <1>11

LEMMA StepLogInv == LogInv /\ [LogNext]_logVars => LogInv'
<1> SUFFICES ASSUME LogInv, [LogNext]_logVars PROVE LogInv'
  OBVIOUS
<1>1. CASE UNCHANGED logVars
  BY <1>1 DEF LogInv, logVars, LogTypeOK, NothingIsLost, Arrived, OnlyNewlinesMore, AllNewlines, EndIsTheEnd,
              Copied, LinesSoFar, WholeLines, ScreenShowsTail, Ended, Status, Failed
<1>2. CASE LogNext
  BY <1>2, CommandLogInv, WaitingLogInv, ReadLineLogInv, CheckTimeoutLogInv, CommunicateLogInv, ReportLogInv
     DEF LogNext, Copying
<1> QED BY <1>1, <1>2

THEOREM LogInvariance == LogSpec => []LogInv
BY InitLogInv, StepLogInv, PTL DEF LogSpec

(* However the command's writes and its exit fall between the steps of the *)
(* copying loop, the log file is what it has written, the list of lines is *)
(* that of the log, and the screen shows the tail (run_command).           *)
THEOREM CommandIsCopied == LogSpec => []CopiesAreRight
<1>1. ASSUME LogInv PROVE CopiesAreRight
  <2> USE <1>1 DEF LogInv
  <2>1. LogIsTheOutput
    <3> SUFFICES ASSUME Ended PROVE IsPrefix(output, log) /\ AllNewlines(SubSeq(log, Len(output) + 1, Len(log)))
      BY DEF LogIsTheOutput
    <3>1. textBuffer = <<>> /\ pipe = <<>> /\ closed /\ written = Len(output)
      BY DEF Ended, Copied, EndIsTheEnd, NothingIsLost
    <3>2. CASE OnlyNewlinesMore
      BY <3>2 DEF OnlyNewlinesMore
    <3>3. CASE Arrived = SubSeq(output, 1, written)
      <4>1. log \in Seq(Pieces \cup {NL}) /\ output \in Seq(Pieces \cup {NL})
        BY LogAssumption DEF LogTypeOK, Text
      <4>2. SubSeq(output, 1, Len(output)) = output /\ (log \o <<>>) \o <<>> = log
        BY <4>1, SubSeqFull, ConcatEmptySeq
      <4>3. log = output /\ output \in Text
        BY <3>1, <3>3, <4>1, <4>2 DEF Arrived, Text
      <4> QED BY <4>3, WholeOutput
    <3> QED BY <3>2, <3>3 DEF NothingIsLost
  <2>2. LinesAreTheLog
    BY DEF LinesAreTheLog, LinesSoFar, Ended, Copied
  <2> QED BY <2>1, <2>2 DEF CopiesAreRight
<1> QED BY <1>1, LogInvariance, PTL
=============================================================================
