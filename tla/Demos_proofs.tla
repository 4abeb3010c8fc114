------------------------------ MODULE Demos_proofs ------------------------------
(***************************************************************************)
(* Proofs about four of the demo programs: the server of the prompt tree   *)
(* demo, for all clients and prompts; the managed talker with its client,  *)
(* for all transitions a user may ask for, however often; the quality of   *)
(* service programs, for all options and periods; and the topic monitor,   *)
(* for all topics, periods, latencies and delays of its main thread.       *)
(***************************************************************************)
EXTENDS TreeDemo, Lifecycle, QosDemos, TopicMonitor, SequenceFacts

-------------------------------------------------------------------------------
(* The marks of the model are no prompts.                                  *)
PromptsAreNoMarks == "none" \notin Prompts /\ "mixed" \notin Prompts

(* A complete prompt is not mistaken for none, and tells its tree.         *)
LEMMA CompletePrompts ==
    ASSUME PromptsAreNoMarks
    PROVE  /\ Complete(NoPrompt)
           /\ \A p \in Prompts : Complete(DataOf(p)) /\ DataOf(p) # NoPrompt
           /\ \A data : Complete(data) /\ data # NoPrompt =>
                  data.tree \in Prompts /\ data = DataOf(data.tree) /\ data.tree # "mixed"
<1>1. \A p \in Prompts : DataOf(p) # NoPrompt /\ DataOf(p).tree = p
    BY DEF PromptsAreNoMarks, DataOf, NoPrompt
<1>2. ASSUME NEW data, Complete(data), data # NoPrompt
      PROVE  data.tree \in Prompts /\ data = DataOf(data.tree) /\ data.tree # "mixed"
    <2>1. PICK p \in Prompts : data = DataOf(p)
        BY <1>2 DEF Complete
    <2> QED BY <1>1, <2>1 DEF PromptsAreNoMarks
<1> QED BY <1>1, <1>2 DEF Complete

(* The threads of the demo share complete prompts.                         *)
LEMMA PromptStep ==
    ASSUME PromptsAreNoMarks, PromptInv, [DemoNext]_demoVars
    PROVE  PromptInv'
<1> USE DEF executorVars
<1>1. ASSUME NEW c \in Clients, NEW p \in Prompts, ReceivePrompt(c, p) PROVE PromptInv'
    <2>1. promptData' = DataOf(p) /\ UNCHANGED executorVars
        BY <1>1 DEF ReceivePrompt, Published
    <2>2. Complete(promptData') /\ promptData' # NoPrompt
        BY <2>1, CompletePrompts
    <2> QED BY <2>1, <2>2 DEF PromptInv
<1>2. ASSUME NEW ok \in BOOLEAN, ReadCamera(ok) PROVE PromptInv'
    <2>1. thread' \in {"frame", "failed"} /\ UNCHANGED <<promptData, local, detected, drawn>>
        BY <1>2 DEF ReadCamera
    <2> QED BY <2>1 DEF PromptInv
<1>3. CASE CheckPrompt
    BY <1>3 DEF CheckPrompt, PromptInv
<1>4. CASE TakePrompt
    BY <1>4 DEF TakePrompt, PromptToTake, PromptInv
<1>5. CASE FrameWithoutPrompt
    BY <1>5 DEF FrameWithoutPrompt, PromptInv
<1>6. CASE Predict
    <2>1. local = DataOf(local.tree) /\ local.tree # "mixed"
        BY <1>6, CompletePrompts DEF Predict, PromptInv
    <2> QED BY <1>6, <2>1 DEF Predict, PromptInv
<1>7. CASE DrawTreeOutput
    BY <1>7 DEF DrawTreeOutput, PromptInv
<1>8. CASE FrameReady \/ CameraFailed \/ PredictionRaised
    <2>1. thread' = "idle" /\ UNCHANGED <<promptData, local, detected, drawn>>
        BY <1>8 DEF FrameReady, CameraFailed, PredictionRaised
    <2> QED BY <2>1 DEF PromptInv
<1>9. ASSUME UNCHANGED <<promptData, thread, local, detected, drawn>> PROVE PromptInv'
    BY <1>9 DEF PromptInv
<1>10. CASE \E c \in Clients : \/ Connect(c) \/ Disconnect(c) \/ HandlerEnds(c)
                               \/ ReceiveUnsplittable(c) \/ ReceiveBadPrompt(c)
    BY <1>9, <1>10 DEF Connect, Disconnect, HandlerEnds, ReceiveUnsplittable,
                       ReceiveBadPrompt, demoVars
<1>11. CASE NextSocket \/ SendDone \/ Shutdown \/ CancelLoop \/ UNCHANGED demoVars
    BY <1>9, <1>11 DEF NextSocket, SendDone, Shutdown, CancelLoop, demoVars
<1> QED BY <1>1, <1>2, <1>3, <1>4, <1>5, <1>6, <1>7, <1>8, <1>10, <1>11
        DEF DemoNext, Executor, LoopStep

(* The event loop's sockets are those it serves, the camera is released    *)
(* when nobody uses it, and everything keeps its type.                     *)
LEMMA ServerStep ==
    ASSUME TypeOK, SocketsAreServed, CameraInv, [DemoNext]_demoVars
    PROVE  TypeOK' /\ SocketsAreServed' /\ CameraInv'
<1> USE DEF executorVars, sendVars
<1>1. ASSUME NEW c \in Clients, Connect(c)
      PROVE  TypeOK' /\ SocketsAreServed' /\ CameraInv'
    BY <1>1 DEF Connect, TypeOK, SocketsAreServed, CameraInv
<1>2. ASSUME NEW c \in Clients, Disconnect(c)
      PROVE  TypeOK' /\ SocketsAreServed' /\ CameraInv'
    BY <1>2 DEF Disconnect, TypeOK, SocketsAreServed, CameraInv
<1>3. ASSUME NEW c \in Clients, HandlerEnds(c) \/ ReceiveUnsplittable(c)
      PROVE  TypeOK' /\ SocketsAreServed' /\ CameraInv'
    BY <1>3 DEF HandlerEnds, ReceiveUnsplittable, AfterDiscard,
                TypeOK, SocketsAreServed, CameraInv
<1>4. CASE Shutdown
    BY <1>4 DEF Shutdown, TypeOK, SocketsAreServed, CameraInv
<1>5. ASSUME conn' = conn, websockets' = websockets, TypeOK', CameraInv'
      PROVE  TypeOK' /\ SocketsAreServed' /\ CameraInv'
    BY <1>5 DEF SocketsAreServed
<1>6. CASE Executor \/ \E ok \in BOOLEAN : ReadCamera(ok)
    <2>1. /\ thread' \in {"frame", "checked", "taken", "predicted", "done", "failed", "raised"}
          /\ UNCHANGED <<conn, websockets, loop, toSend, camera>>
          /\ thread = "idle" => loop = "executor"
        BY <1>6 DEF Executor, CheckPrompt, TakePrompt, FrameWithoutPrompt,
                    Predict, DrawTreeOutput, ReadCamera
    <2>2. TypeOK'
        BY <2>1 DEF TypeOK
    <2>3. CameraInv'
        BY <2>1 DEF CameraInv
    <2> QED BY <1>5, <2>1, <2>2, <2>3
<1>7. CASE FrameReady \/ CameraFailed \/ PredictionRaised
    <2>1. TypeOK' /\ UNCHANGED <<conn, websockets>>
        BY <1>7 DEF FrameReady, CameraFailed, PredictionRaised, TypeOK
    <2>2. CameraInv'
        BY <1>7 DEF FrameReady, CameraFailed, PredictionRaised, CameraInv
    <2> QED BY <1>5, <2>1, <2>2
<1>8. CASE NextSocket \/ SendDone \/ CancelLoop
    <2>1. TypeOK' /\ UNCHANGED <<conn, websockets>>
        BY <1>8 DEF NextSocket, SendDone, CancelLoop, TypeOK
    <2>2. CameraInv'
        BY <1>8 DEF NextSocket, SendDone, CancelLoop, CameraInv
    <2> QED BY <1>5, <2>1, <2>2
<1>9. ASSUME UNCHANGED <<conn, websockets, thread, loop, toSend, camera>>
      PROVE  TypeOK' /\ SocketsAreServed' /\ CameraInv'
    BY <1>9 DEF TypeOK, SocketsAreServed, CameraInv
<1>10. CASE \E c \in Clients : ReceiveBadPrompt(c) \/ \E p \in Prompts : ReceivePrompt(c, p)
    BY <1>9, <1>10 DEF ReceiveBadPrompt, ReceivePrompt, demoVars
<1>11. CASE UNCHANGED demoVars
    BY <1>9, <1>11 DEF demoVars
<1> QED BY <1>1, <1>2, <1>3, <1>4, <1>6, <1>7, <1>8, <1>10, <1>11 DEF DemoNext, LoopStep

(* What the event loop and the executor's thread share stays consistent    *)
(* (DemoConsistent): a frame is predicted and drawn with one prompt, the   *)
(* sockets are those that are served, and the camera is released unused.   *)
THEOREM DemoSharesSafely ==
    ASSUME PromptsAreNoMarks PROVE DemoSpec => []DemoConsistent
<1>1. DemoInit => DemoInv
    <2> SUFFICES ASSUME DemoInit PROVE DemoInv
        OBVIOUS
    <2>1. TypeOK /\ SocketsAreServed /\ CameraInv
        BY DEF DemoInit, TypeOK, SocketsAreServed, CameraInv
    <2>2. PromptInv
        BY CompletePrompts DEF DemoInit, PromptInv
    <2> QED BY <2>1, <2>2 DEF DemoInv
<1>2. DemoInv /\ [DemoNext]_demoVars => DemoInv'
    BY PromptStep, ServerStep DEF DemoInv
<1>3. DemoInv => DemoConsistent
    BY DEF DemoInv, PromptInv, CameraInv, DemoConsistent,
           DetectedAndDrawnWithOnePrompt, CameraReleasedUnused
<1> QED BY <1>1, <1>2, <1>3, PTL DEF DemoSpec

-------------------------------------------------------------------------------
(* What a transition leads to is never a state it begins in, and the names *)
(* of the transitions are none of the other requests.                      *)
LEMMA TransitionFacts ==
    /\ From("no") = {} /\ From("state") = {}
    /\ \A t : "finalized" \notin From(t)
    /\ \A k \in 1..Len(Transitions) : Transitions[k] # "state"
    /\ Len(Transitions) = 7 /\ Transitions[7] = "shutdown" /\ To("shutdown") = "finalized"
<1>1. From("no") = {} /\ From("state") = {}
    BY DEF From
<1>2. \A t : "finalized" \notin From(t)
    BY DEF From
<1>3. Len(Transitions) = 7 /\ Transitions[7] = "shutdown"
      /\ \A k \in 1..7 : Transitions[k] # "state"
    BY DEF Transitions
<1>4. To("shutdown") = "finalized"
    BY DEF To
<1> QED BY <1>1, <1>2, <1>3, <1>4

(* The queue of requests.                                                  *)
LEMMA RequestAsked ==
    ASSUME NEW r \in Requests, queue \in Seq(Requests), queue' = Append(queue, r)
    PROVE  /\ queue' \in Seq(Requests) /\ queue' # <<>>
           /\ queue # <<>> => Head(queue') = Head(queue)
           /\ OfScript' = IF r.from = "script" THEN OfScript \cup {Len(queue) + 1} ELSE OfScript
           /\ \A i \in OfScript : queue'[i] = queue[i]
           /\ queue'[Len(queue) + 1] = r
<1>1. /\ queue' \in Seq(Requests) /\ queue' # <<>> /\ queue'[Len(queue) + 1] = r
      /\ DOMAIN queue' = DOMAIN queue \cup {Len(queue) + 1} /\ \A i \in DOMAIN queue : queue'[i] = queue[i]
    BY PushFacts
<1>2. queue # <<>> => Head(queue') = Head(queue)
    OBVIOUS
<1>3. OfScript' = IF r.from = "script" THEN OfScript \cup {Len(queue) + 1} ELSE OfScript
    BY <1>1 DEF OfScript
<1> QED BY <1>1, <1>2, <1>3 DEF OfScript

LEMMA RequestHandled ==
    ASSUME queue \in Seq(Requests), queue # <<>>, queue' = Tail(queue),
           \A i, j \in OfScript : i = j
    PROVE  /\ queue' \in Seq(Requests)
           /\ \A i \in OfScript' : i + 1 \in OfScript /\ queue'[i] = queue[i + 1]
           /\ Head(queue).from = "script" => 1 \in OfScript /\ queue[1] = Head(queue) /\ OfScript' = {}
           /\ \A i, j \in OfScript' : i = j
<1>1. /\ queue' \in Seq(Requests) /\ queue[1] = Head(queue) /\ 1 \in DOMAIN queue
      /\ Len(queue) \in Nat /\ DOMAIN queue' = 1..Len(queue) - 1 /\ DOMAIN queue = 1..Len(queue)
    OBVIOUS
<1>2. \A i \in 1..Len(queue) - 1 : i + 1 \in 1..Len(queue) /\ queue'[i] = queue[i + 1]
    OBVIOUS
<1>3. \A i \in OfScript' : i \in Nat \ {0} /\ i + 1 \in OfScript /\ queue'[i] = queue[i + 1]
    BY <1>1, <1>2 DEF OfScript
<1>4. ASSUME Head(queue).from = "script" PROVE 1 \in OfScript /\ OfScript' = {}
    <2>1. 1 \in OfScript
        BY <1>1, <1>4 DEF OfScript
    <2>2. ASSUME NEW i \in OfScript' PROVE FALSE
        <3>1. i + 1 = 1 /\ i \in Nat \ {0}
            BY <1>3, <2>1
        <3> QED BY <3>1
    <2> QED BY <2>1, <2>2
<1>5. ASSUME NEW i \in OfScript', NEW j \in OfScript' PROVE i = j
    <2>1. i + 1 = j + 1 /\ i \in Nat /\ j \in Nat
        BY <1>3
    <2> QED BY <2>1
<1> QED BY <1>1, <1>3, <1>4, <1>5

-------------------------------------------------------------------------------
(* What the talker holds follows its state, and its numbers grow.          *)
LEMMA TalkerStep ==
    ASSUME TransitionInv, ResourceInv, CountInv, queue \in Seq(Requests),
           [LifecycleNext]_lifecycleVars
    PROVE  TransitionInv' /\ ResourceInv' /\ CountInv' /\ [SendsOnlyWhenActive]_lifecycleVars
<1>1. CASE Publish
    <2>1. TransitionInv'
        BY <1>1 DEF Publish, TransitionInv
    <2>2. ResourceInv'
        BY <1>1 DEF Publish, ResourceInv, StateToBe
    <2>3. CountInv'
        BY <1>1 DEF Publish, CountInv
    <2>4. SendsOnlyWhenActive
        BY <1>1 DEF Publish, ExecutorFree, ResourceInv, StateToBe, CountInv,
                    SendsOnlyWhenActive
    <2> QED BY <2>1, <2>2, <2>3, <2>4
<1>2. CASE BeginTransition
    <2>1. /\ busy = "no" /\ queue # <<>> /\ busy' = Head(queue).ask /\ state \in From(busy') /\ state' = state
          /\ queue' = queue /\ count' = count /\ sent' = sent /\ python' = python
          /\ Callback(busy')
        BY <1>2 DEF BeginTransition, ExecutorFree
    <2>2. TransitionInv'
        BY <2>1 DEF TransitionInv
    <2>3. ResourceInv'
        <3>1. StateToBe = state /\ StateToBe' = To(busy')
            BY <2>1, TransitionFacts DEF StateToBe
        <3>2. PICK t : t = busy' /\ state \in From(t) /\ Callback(t)
            BY <2>1
        <3>3. CASE t = "configure"
            BY <2>1, <3>1, <3>2, <3>3 DEF From, To, Callback, OnConfigure, ResourceInv
        <3>4. CASE t = "activate"
            BY <2>1, <3>1, <3>2, <3>4 DEF From, To, Callback, OnActivate, ResourceInv
        <3>5. CASE t = "deactivate"
            BY <2>1, <3>1, <3>2, <3>5 DEF From, To, Callback, OnDeactivate, ResourceInv
        <3>6. CASE t \in {"cleanup", "shutdown", "active_shutdown"}
            BY <2>1, <3>1, <3>2, <3>6 DEF To, Callback, Release,
                                          ReleaseInPython, ResourceInv
        <3>7. t \in {"configure", "activate", "deactivate", "cleanup", "shutdown", "active_shutdown"}
            BY <3>2 DEF From
        <3> QED BY <3>3, <3>4, <3>5, <3>6, <3>7
    <2>4. CountInv' /\ SendsOnlyWhenActive
        BY <2>1 DEF CountInv, SendsOnlyWhenActive
    <2> QED BY <2>2, <2>3, <2>4
<1>3. CASE EndTransition
    <2>1. /\ busy # "no" /\ state' = To(busy) /\ busy' = "no"
          /\ UNCHANGED <<python, timers, pub, count, sent>>
        BY <1>3 DEF EndTransition
    <2>2. StateToBe' = StateToBe
        BY <2>1 DEF StateToBe
    <2> QED BY <2>1, <2>2 DEF TransitionInv, ResourceInv, CountInv, SendsOnlyWhenActive
<1>4. ASSUME UNCHANGED <<python, state, busy, timers, pub, count, sent>>,
             busy # "no" => queue' # <<>> /\ Head(queue') = Head(queue)
      PROVE  TransitionInv' /\ ResourceInv' /\ CountInv' /\ SendsOnlyWhenActive
    <2>1. StateToBe' = StateToBe
        BY <1>4 DEF StateToBe
    <2> QED BY <1>4, <2>1 DEF TransitionInv, ResourceInv, CountInv, SendsOnlyWhenActive
<1>5. CASE GetState \/ Refuse
    <2>1. busy = "no" /\ UNCHANGED <<python, state, busy, timers, pub, count, sent>>
        BY <1>5 DEF GetState, Refuse, ExecutorFree, talker
    <2> QED BY <1>4, <2>1
<1>6. CASE \/ ChangeState \/ AskState
           \/ \E t \in UserTransitions : UserAsks(t)
    <2>1. UNCHANGED <<python, state, busy, timers, pub, count, sent>>
        BY <1>6 DEF ChangeState, AskState, UserAsks, Send, talker
    <2>2. \E r : queue' = Append(queue, r)
        BY <1>6 DEF ChangeState, AskState, UserAsks, Send
    <2>3. queue # <<>> => queue' # <<>> /\ Head(queue') = Head(queue)
        BY <2>2
    <2> QED BY <1>4, <2>1, <2>3 DEF TransitionInv
<1>7. CASE \/ ResultReady \/ TimeOut \/ WakeExecutor \/ SpinReturns
           \/ UNCHANGED lifecycleVars
    <2>1. UNCHANGED <<python, state, busy, timers, pub, count, sent, queue>>
        BY <1>7 DEF ResultReady, TimeOut, WakeExecutor, SpinReturns, talker,
                    lifecycleVars
    <2> QED BY <1>4, <2>1 DEF TransitionInv
<1> QED BY <1>1, <1>2, <1>3, <1>5, <1>6, <1>7 DEF LifecycleNext, TalkerSteps, ClientSteps

(* The script knows the state of the talker it has led to the end.         *)
LEMMA ScriptStep ==
    ASSUME TransitionInv, ScriptInv, ShutdownInv, [LifecycleNext]_lifecycleVars
    PROVE  ScriptInv' /\ ShutdownInv'
<1>1. queue \in Seq(Requests) /\ step \in 1..7 /\ \A i, j \in OfScript : i = j
    BY TransitionFacts DEF ScriptInv
<1>2. CASE ChangeState \/ AskState
    <2>1. PICK ask, next :
              /\ next \in {"wait", "read"} /\ script = (IF next = "wait" THEN "change" ELSE "get")
              /\ ask = (IF next = "wait" THEN Transitions[step] ELSE "state")
              /\ queue' = Append(queue, [from |-> "script", ask |-> ask])
              /\ answer' = "none" /\ script' = next /\ step' = step /\ state' = state
        BY <1>2 DEF ChangeState, AskState, Send, talker
    <2>2. OfScript = {}
        BY <2>1 DEF ScriptInv
    <2>3. [from |-> "script", ask |-> ask] \in Requests
        BY <1>1, <2>1, TransitionFacts DEF Requests
    <2>4. queue' \in Seq(Requests) /\ OfScript' = {Len(queue) + 1}
          /\ queue'[Len(queue) + 1].ask = ask
        BY <1>1, <2>1, <2>2, <2>3, RequestAsked
    <2>5. ScriptInv'
        BY <1>1, <2>1, <2>4, TransitionFacts DEF ScriptInv
    <2>6. ShutdownInv'
        BY <2>1 DEF ShutdownInv, CompletedMeansFinalized
    <2> QED BY <2>5, <2>6
<1>3. CASE \E t \in UserTransitions : UserAsks(t)
    <2>1. PICK t \in UserTransitions : UserAsks(t)
        BY <1>3
    <2>2. queue' = Append(queue, [from |-> "user", ask |-> t]) /\ UNCHANGED <<answer, step, script, state>>
        BY <2>1 DEF UserAsks, talker
    <2>3. [from |-> "user", ask |-> t] \in Requests
        BY DEF Requests
    <2>4. queue' \in Seq(Requests) /\ OfScript' = OfScript
          /\ \A i \in OfScript : queue'[i] = queue[i]
        BY <1>1, <2>2, <2>3, RequestAsked
    <2> QED BY <2>2, <2>4 DEF ScriptInv, ShutdownInv, CompletedMeansFinalized
<1>4. CASE GetState \/ Refuse \/ EndTransition
    <2> DEFINE request == Head(queue)
    <2>1. /\ queue # <<>> /\ queue' = Tail(queue) /\ UNCHANGED <<step, script>>
          /\ request.from # "script" \/ script \notin {"wait", "read"} => answer' = answer
          /\ EndTransition \/ state' = state
        BY <1>4 DEF GetState, Refuse, EndTransition, Answered, talker,
                    TransitionInv
    <2>2. /\ queue' \in Seq(Requests)
          /\ \A i \in OfScript' : i + 1 \in OfScript /\ queue'[i] = queue[i + 1]
          /\ request.from = "script" => 1 \in OfScript /\ queue[1] = request /\ OfScript' = {}
          /\ \A i, j \in OfScript' : i = j
        BY <1>1, <2>1, RequestHandled
    <2>3. EndTransition => busy = request.ask /\ state \in From(busy) /\ state' = To(busy)
        BY DEF EndTransition, TransitionInv
    <2>4. request.from = "script" /\ script # "gave up" =>
              script \in {"wait", "read"} /\ request.ask = IF script = "wait" THEN Transitions[step] ELSE "state"
        BY <2>2 DEF ScriptInv
    <2>5. ScriptInv'
        <3>1. CASE request.from = "script"
            BY <2>1, <2>2, <3>1 DEF ScriptInv
        <3>2. CASE request.from # "script"
            <4>1. answer' = answer
                BY <2>1, <3>2
            <4>2. OfScript' # {} => OfScript # {}
                BY <2>2
            <4>3. script # "gave up" /\ OfScript' # {} =>
                      /\ script \in {"wait", "read"} /\ answer = "none"
                      /\ \A i \in OfScript' :
                             queue'[i].ask = IF script = "wait" THEN Transitions[step] ELSE "state"
                BY <2>2, <4>2 DEF ScriptInv
            <4>4. step \in 1..Len(Transitions)
                  /\ script \in {"change", "wait", "get", "read", "completed", "gave up"}
                BY DEF ScriptInv
            <4> QED BY <2>1, <2>2, <4>1, <4>3, <4>4 DEF ScriptInv
        <3> QED BY <3>1, <3>2
    <2>6. state = "finalized" => state' = "finalized"
        BY <2>1, <2>3, TransitionFacts
    <2>7. ASSUME step = 7, script = "wait", answer' = "yes" PROVE state' = "finalized"
        <3>1. CASE answer' = answer
            BY <2>6, <2>7, <3>1, TransitionFacts DEF ShutdownInv
        <3>2. CASE answer' # answer
            <4>1. request.from = "script" /\ request.ask = "shutdown"
                BY <2>1, <2>4, <2>7, <3>2, TransitionFacts
            <4>2. ~GetState /\ ~Refuse
                BY <2>7, <4>1 DEF GetState, Refuse, Answered
            <4> QED BY <1>4, <2>3, <4>1, <4>2, TransitionFacts
        <3> QED BY <3>1, <3>2
    <2> HIDE DEF request
    <2>8. ShutdownInv'
        BY <2>1, <2>6, <2>7, TransitionFacts DEF ShutdownInv, CompletedMeansFinalized
    <2> QED BY <2>5, <2>8
<1>5. CASE ResultReady
    <2>1. /\ queue' = queue /\ answer' = answer /\ answer # "none" /\ state' = state /\ script \in {"wait", "read"}
          /\ OfScript' = OfScript
        BY <1>5 DEF ResultReady, talker, OfScript
    <2>2. OfScript' = {}
        BY <2>1 DEF ScriptInv
    <2>3. /\ script' \in {"gave up", "get", "completed", "change"}
          /\ step' = (IF script' = "change" THEN step + 1 ELSE step)
          /\ script' = "get" => script = "wait" /\ answer = "yes"
          /\ script' = "completed" => script = "read" /\ step = 7
          /\ script' = "change" => step # 7
        BY <1>5, TransitionFacts DEF ResultReady, Succeeded, AfterBlock
    <2>4. step' \in 1..7
        <3>1. CASE script' = "change"
            BY <1>1, <2>3, <3>1
        <3>2. CASE script' # "change"
            BY <1>1, <2>3, <3>2
        <3> QED BY <3>1, <3>2
    <2>5. ScriptInv'
        BY <1>1, <2>1, <2>2, <2>3, <2>4, TransitionFacts DEF ScriptInv
    <2>6. ShutdownInv'
        BY <2>1, <2>3, TransitionFacts DEF ShutdownInv, CompletedMeansFinalized
    <2> QED BY <2>5, <2>6
<1>6. CASE TimeOut
    <2>1. script' = "gave up" /\ UNCHANGED <<queue, answer, step, state>> /\ OfScript' = OfScript
        BY <1>6 DEF TimeOut, talker, OfScript
    <2> QED BY <2>1 DEF ScriptInv, ShutdownInv, CompletedMeansFinalized
<1>7. CASE \/ Publish \/ BeginTransition \/ WakeExecutor \/ SpinReturns
           \/ UNCHANGED lifecycleVars
    <2>1. UNCHANGED <<queue, answer, step, script, state>> /\ OfScript' = OfScript
        BY <1>7 DEF Publish, BeginTransition, WakeExecutor, SpinReturns, talker,
                    lifecycleVars, OfScript
    <2> QED BY <2>1 DEF ScriptInv, ShutdownInv, CompletedMeansFinalized
<1> QED BY <1>2, <1>3, <1>4, <1>5, <1>6, <1>7 DEF LifecycleNext, TalkerSteps, ClientSteps

(* The talker sends only when it is active, its resources follow its       *)
(* state, and a script that completes has shut it down                     *)
(* (TalkerFollowsItsState), whatever a user asks for and when.             *)
THEOREM TalkerIsManaged == LifecycleSpec => TalkerFollowsItsState
<1>1. LifecycleInit => LifecycleInv
    <2> SUFFICES ASSUME LifecycleInit PROVE LifecycleInv
        OBVIOUS
    <2>1. TransitionInv /\ ResourceInv /\ CountInv
        BY DEF LifecycleInit, TransitionInv, ResourceInv, StateToBe, CountInv
    <2>2. queue \in Seq(Requests) /\ OfScript = {}
        BY DEF LifecycleInit, OfScript
    <2>3. ScriptInv
        BY <2>2, TransitionFacts DEF LifecycleInit, ScriptInv
    <2>4. ShutdownInv
        BY TransitionFacts DEF LifecycleInit, ShutdownInv, CompletedMeansFinalized
    <2> QED BY <2>1, <2>3, <2>4 DEF LifecycleInv
<1>2. LifecycleInv /\ [LifecycleNext]_lifecycleVars => LifecycleInv'
    <2> SUFFICES ASSUME LifecycleInv, [LifecycleNext]_lifecycleVars PROVE LifecycleInv'
        OBVIOUS
    <2>1. TransitionInv' /\ ResourceInv' /\ CountInv'
        BY TalkerStep DEF LifecycleInv, ScriptInv
    <2>2. ScriptInv' /\ ShutdownInv'
        BY ScriptStep DEF LifecycleInv
    <2> QED BY <2>1, <2>2 DEF LifecycleInv
<1>3. LifecycleInv /\ [LifecycleNext]_lifecycleVars => [SendsOnlyWhenActive]_lifecycleVars
    BY TalkerStep DEF LifecycleInv, ScriptInv
<1>4. LifecycleInv => CompletedMeansFinalized /\ ResourcesFollowState
    BY DEF LifecycleInv, ShutdownInv, ResourceInv, StateToBe, ResourcesFollowState
<1> QED BY <1>1, <1>2, <1>3, <1>4, PTL DEF LifecycleSpec, TalkerFollowsItsState

-------------------------------------------------------------------------------
(* The quality of service programs, for all options and periods.           *)
KeptMessage == [n : Nat, age : Nat]

QosTypeOK ==
    /\ run \in Runs /\ now \in Nat /\ timer \in [Timers -> Nat \cup {Off}]
    /\ destroyed \in BOOLEAN /\ subscribed \in BOOLEAN /\ alive \in BOOLEAN
    /\ publishCount \in Nat /\ silence \in Nat /\ deadlineLeft \in Nat \cup {Off} /\ leaseLeft \in Nat
    /\ history \in Seq(KeptMessage) /\ heard \in Seq(Nat)

(* A program runs only the timers it has created.                          *)
OwnTimers ==
    /\ run.program # "deadline" => timer["pause"] = Off /\ timer["publish_for"] = Off
    /\ run.program # "liveliness" => timer["kill"] = Off
    /\ run.program # "lifespan" => timer["subscribe"] = Off /\ subscribed

(* deadline: while the talker does not pause, the next message is due      *)
(* before the deadline; a pause takes no longer than asked for.            *)
PausesAreKept ==
    run.program = "deadline" =>
        /\ timer["pause"] = Off => timer["publish"] # Off /\ silence + timer["publish"] <= Period
        /\ timer["pause"] # Off =>
              /\ timer["publish"] = Off
              /\ timer["pause"] <= run.pauseFor
              /\ silence + timer["pause"] <= run.pauseFor + Period

DeadlinesAreMet ==
    run.deadline > Period =>
        /\ timer["pause"] = Off => deadlineLeft >= timer["publish"] + (run.deadline - Period)
        /\ "publishing" \notin misses
        /\ run.pauseFor = 0 => misses = {}

(* What is kept and what was heard ends with the message published last.   *)
NumberedToTheLast ==
    /\ \A i \in 1 .. Len(history) : history[i].n = (publishCount - 1) - (Len(history) - i)
    /\ IF subscribed /\ Compatible THEN \A i \in 1 .. Len(heard) : heard[i] = (publishCount - 1) - (Len(heard) - i)
       ELSE heard = <<>>

CountedMessages ==
    run.publishCount > 0 =>
        /\ publishCount <= run.publishCount
        /\ timer["publish"] # Off => publishCount < run.publishCount

(* liveliness: until the talker is killed its lease is renewed in time,    *)
(* then it runs out.                                                       *)
LeaseRunsOut ==
    run.program = "liveliness" =>
        /\ leaseLeft <= run.lease /\ (alive => leaseLeft > 0)
        /\ timer["kill"] # Off => now + timer["kill"] = run.killAfter /\ ~destroyed
        /\ timer["kill"] = Off =>
              /\ timer["publish"] = Off /\ timer["assert"] = Off /\ now >= run.killAfter
              /\ run.policy = "AUTOMATIC" => destroyed
              /\ leaseLeft = 0 \/ now + leaseLeft <= run.killAfter + run.lease

LeaseIsRenewed ==
    run.program = "liveliness" /\ timer["kill"] # Off =>
        /\ timer["publish"] # Off /\ (publishCount = 0 => now + timer["publish"] = Period)
        /\ run.policy = "AUTOMATIC" => alive
        /\ run.assertPeriod \in 1 .. (run.lease - 1) =>
              /\ timer["assert"] # Off /\ leaseLeft >= timer["assert"] + (run.lease - run.assertPeriod)
              /\ publishCount > 0 => alive

QosInv ==
    /\ QosTypeOK /\ OwnTimers /\ PausesAreKept /\ DeadlinesAreMet
    /\ NumberedToTheLast /\ CountedMessages /\ LeaseRunsOut /\ LeaseIsRenewed

(* What is assumed of the options, for the program that runs.  The         *)
(* profiles of a program do not match only where they are to differ.       *)
LEMMA QosOptions ==
    ASSUME run \in Runs
    PROVE  /\ Compatible <=> run.program # "incompatible_qos"
           /\ Period \in Nat \ {0} /\ MaxTicks \in Nat
           /\ run.publishFor \in Nat /\ run.pauseFor \in Nat /\ run.deadline \in Nat
           /\ run.assertPeriod \in Nat /\ run.lease \in Nat \ {0} /\ run.killAfter \in Nat
           /\ run.subscribeAfter \in Nat /\ run.lifespan \in Nat /\ run.publishCount \in Nat /\ run.depth \in Nat \ {0}
           /\ run.program # "deadline" => run.publishFor = 0 /\ run.deadline = 0
           /\ run.program = "liveliness" => run.killAfter > 0 /\ run.policy \in {"AUTOMATIC", "MANUAL_BY_TOPIC"}
           /\ run.program # "liveliness" => run.assertPeriod = 0 /\ run.killAfter = 0
           /\ run.program # "lifespan" => run.subscribeAfter = 0
           /\ run.program \in {"deadline", "liveliness"} => run.publishCount = 0
<1>1. run.policy \in Ranks \cup Durations <=> run.program = "incompatible_qos"
    BY QosAssumption
<1>2. \A p \in Ranks : /\ p \in Ranks \cup Durations /\ p \notin Durations
                       /\ PublisherProfile[p] = IF p = run.policy THEN 1 ELSE Profile[p]
                       /\ SubscriptionProfile[p] = IF p = run.policy THEN 2 ELSE Profile[p]
                       /\ Profile[p] \in Int
    BY DEF PublisherProfile, SubscriptionProfile, Profile, Offered, Requested, Ranks, Durations
<1>3. \A p \in Durations : /\ p \in Ranks \cup Durations /\ p \notin Ranks
                           /\ PublisherProfile[p] = IF p = run.policy THEN 2 ELSE Profile[p]
                           /\ SubscriptionProfile[p] = IF p = run.policy THEN 1 ELSE Profile[p]
                           /\ Profile[p] \in Int
    BY DEF PublisherProfile, SubscriptionProfile, Profile, Offered, Requested, Ranks, Durations
<1>4. Compatible <=> run.program # "incompatible_qos"
    BY <1>1, <1>2, <1>3 DEF Compatible
<1> QED BY <1>4, QosAssumption

(* The publisher keeps messages in the order in which it published them,   *)
(* and the listener hears them in that order.                              *)
LEMMA MessagesAreNumbered ==
    ASSUME QosInv, NEW next, PublishThen(next), UNCHANGED <<run, subscribed>>
    PROVE  /\ publishCount' \in Nat /\ silence' = 0 /\ deadlineLeft' \in Nat \cup {Off}
           /\ leaseLeft' \in Nat /\ alive' \in BOOLEAN
           /\ history' \in Seq(KeptMessage) /\ heard' \in Seq(Nat)
           /\ NumberedToTheLast'
<1> DEFINE m == [n |-> publishCount, age |-> 0]
           all == Append(history, m)
           from == IF Len(all) > run.depth THEN 2 ELSE 1
           kept == SubSeq(all, from, Len(all))
<1>1. /\ publishCount \in Nat /\ publishCount' = publishCount + 1 /\ silence' = 0
      /\ run \in Runs /\ history \in Seq(KeptMessage) /\ heard \in Seq(Nat)
    BY DEF QosInv, QosTypeOK, PublishThen, Delivered
<1>2. run.depth \in Nat \ {0} /\ run.lease \in Nat /\ run.deadline \in Nat
    BY <1>1, QosOptions
<1>3. deadlineLeft' \in Nat \cup {Off} /\ leaseLeft' \in Nat /\ alive' \in BOOLEAN
    BY <1>2 DEF PublishThen, Delivered, Asserted, OrOff, Off
<1>4. m \in KeptMessage
    BY <1>1 DEF KeptMessage
<1>5. all \in Seq(KeptMessage) /\ Len(all) = Len(history) + 1
    BY <1>1, <1>4
<1>6. \A i \in 1 .. Len(all) : all[i].n = publishCount - (Len(all) - i)
    <2>1. ASSUME NEW i \in 1 .. Len(history) PROVE all[i].n = publishCount - (Len(all) - i)
        <3>1. all[i] = history[i]
            BY <1>1
        <3>2. history[i].n = (publishCount - 1) - (Len(history) - i)
            BY DEF QosInv, NumberedToTheLast
        <3> QED BY <1>1, <1>5, <3>1, <3>2
    <2>2. all[Len(all)].n = publishCount
        BY <1>1
    <2> QED BY <1>1, <1>5, <2>1, <2>2
<1>7. history' = kept
    BY DEF PublishThen, Delivered
<1>8. /\ kept \in Seq(KeptMessage) /\ Len(kept) = Len(all) + 1 - from
      /\ \A i \in 1 .. Len(kept) : kept[i] = all[i + from - 1] /\ i + from - 1 \in 1 .. Len(all)
    <2> HIDE DEF all
    <2>1. from \in 1 .. Len(all) /\ Len(all) \in Nat
        BY <1>1, <1>2, <1>5
    <2> QED BY <1>5, <2>1
<1>9. \A i \in 1 .. Len(history') : history'[i].n = (publishCount' - 1) - (Len(history') - i)
    <2> HIDE DEF all, from, kept
    <2>1. from \in Nat /\ Len(all) \in Nat /\ Len(kept) \in Nat
        BY <1>1, <1>5, <1>8 DEF from
    <2>2. ASSUME NEW i \in 1 .. Len(kept) PROVE kept[i].n = publishCount - (Len(kept) - i)
        <3>1. PICK j \in 1 .. Len(all) : j = i + from - 1 /\ kept[i] = all[j]
            BY <1>8
        <3>2. kept[i].n = publishCount - (Len(all) - j)
            BY <1>6, <3>1
        <3>3. Len(all) - j = Len(kept) - i
            BY <1>8, <2>1, <3>1
        <3> QED BY <3>2, <3>3
    <2>3. publishCount' - 1 = publishCount
        BY <1>1
    <2> QED BY <1>7, <2>2, <2>3
<1>10. Compatible' <=> Compatible
    BY DEF Compatible, PublisherProfile, SubscriptionProfile, Offered, Requested
<1>11. CASE subscribed /\ Compatible
    <2> HIDE DEF kept, all, from, m
    <2>1. heard' = Append(heard, publishCount)
        BY <1>11 DEF PublishThen, Delivered
    <2>2. heard' \in Seq(Nat) /\ Len(heard') = Len(heard) + 1
        BY <1>1, <2>1
    <2>3. ASSUME NEW i \in 1 .. Len(heard') PROVE heard'[i] = (publishCount' - 1) - (Len(heard') - i)
        <3>1. i \in 1 .. Len(heard) => heard[i] = (publishCount - 1) - (Len(heard) - i) /\ heard'[i] = heard[i]
            BY <1>1, <1>11, <2>1 DEF QosInv, NumberedToTheLast
        <3>2. i = Len(heard) + 1 => heard'[i] = publishCount
            BY <1>1, <2>1
        <3> QED BY <1>1, <2>2, <3>1, <3>2
    <2>4. NumberedToTheLast'
        BY <1>9, <2>3, <1>10, <1>11 DEF NumberedToTheLast
    <2>5. history' \in Seq(KeptMessage)
        BY <1>7, <1>8
    <2> QED BY <1>1, <1>3, <2>2, <2>4, <2>5
<1>12. CASE ~(subscribed /\ Compatible)
    <2> HIDE DEF kept, all, from, m
    <2>1. heard' = heard /\ heard = <<>>
        BY <1>12 DEF PublishThen, Delivered, QosInv, NumberedToTheLast
    <2>2. NumberedToTheLast'
        BY <1>9, <1>10, <1>12, <2>1 DEF NumberedToTheLast
    <2>3. history' \in Seq(KeptMessage) /\ heard' \in Seq(Nat)
        BY <1>1, <1>7, <1>8, <2>1
    <2> QED BY <1>1, <1>3, <2>2, <2>3
<1> QED BY <1>11, <1>12

(* The publish timer: the next message is due a period later, unless it    *)
(* was the last.                                                           *)
LEMMA PublishTimerStep == ASSUME QosInv, PublishTimer PROVE QosInv'
<1> DEFINE next == [timer EXCEPT !["publish"] = IF LastMessage(publishCount + 1) THEN Off ELSE Period]
<1>1. PublishThen(next) /\ UNCHANGED <<run, now, destroyed, subscribed>> /\ timer["publish"] = 0
    BY DEF PublishTimer, Due
<1>2. QosTypeOK /\ run \in Runs
    BY DEF QosInv, QosTypeOK
<1>3. /\ timer' = next /\ timer' \in [Timers -> Nat \cup {Off}]
      /\ timer'["publish"] = IF LastMessage(publishCount + 1) THEN Off ELSE Period
      /\ \A t \in Timers : t # "publish" => timer'[t] = timer[t]
    BY <1>1, <1>2, QosOptions DEF PublishThen, QosTypeOK, Timers
<1>4. QosTypeOK' /\ NumberedToTheLast'
    <2> HIDE DEF next
    <2> QED BY <1>1, <1>2, <1>3, MessagesAreNumbered DEF QosTypeOK
<1> HIDE DEF next
<1>5. publishCount' = publishCount + 1 /\ silence' = 0 /\ deadlineLeft' = OrOff(run.deadline) /\ misses' = misses
      /\ leaseLeft' = run.lease /\ alive' = TRUE
    BY <1>1 DEF PublishThen, Delivered, Asserted
<1> USE DEF Timers, Off
<1>6. OwnTimers'
    BY <1>1, <1>3 DEF QosInv, OwnTimers
<1>7. PausesAreKept'
    BY <1>1, <1>2, <1>3, <1>5, QosOptions DEF QosInv, PausesAreKept, LastMessage
<1>8. DeadlinesAreMet'
    BY <1>1, <1>2, <1>3, <1>5, QosOptions DEF QosInv, DeadlinesAreMet, LastMessage, OrOff
<1>9. CountedMessages'
    BY <1>1, <1>2, <1>3, <1>5, QosOptions DEF QosInv, CountedMessages, LastMessage, QosTypeOK
<1>10. LeaseRunsOut'
    BY <1>1, <1>2, <1>3, <1>5, QosOptions, SMTT(30) DEF QosInv, LeaseRunsOut, QosTypeOK
<1>11. LeaseIsRenewed'
    <2> SUFFICES ASSUME run.program = "liveliness", timer["kill"] # Off PROVE LeaseIsRenewed'
        BY <1>1, <1>3 DEF LeaseIsRenewed
    <2>1. timer'["publish"] # Off /\ publishCount' # 0
        BY <1>2, <1>3, <1>5, QosOptions DEF LastMessage, QosTypeOK
    <2>2. run.assertPeriod \in 1 .. (run.lease - 1) =>
              timer["assert"] # Off /\ run.lease >= timer["assert"] + (run.lease - run.assertPeriod)
        BY <1>2, QosOptions, SMTT(30) DEF QosInv, LeaseIsRenewed, LeaseRunsOut, QosTypeOK
    <2> QED BY <1>1, <1>3, <1>5, <2>1, <2>2 DEF LeaseIsRenewed
<1> QED BY <1>4, <1>6, <1>7, <1>8, <1>9, <1>10, <1>11 DEF QosInv

(* pause_for and the end of a pause, in deadline.                          *)
LEMMA PauseForStep == ASSUME QosInv, PauseFor PROVE QosInv'
<1>1. /\ UNCHANGED <<run, now, destroyed, publishCount, subscribed, middleware>> /\ timer["publish_for"] = 0
    BY DEF PauseFor, Due
<1>2. QosTypeOK /\ run \in Runs /\ run.program = "deadline"
    BY <1>1 DEF QosInv, QosTypeOK, OwnTimers, Off
<1>3. /\ timer' \in [Timers -> Nat \cup {Off}]
      /\ timer'["publish_for"] = run.publishFor
      /\ \A t \in Timers : t \notin {"publish_for", "publish", "pause"} => timer'[t] = timer[t]
      /\ IF timer["pause"] # Off THEN timer'["publish"] = timer["publish"] /\ timer'["pause"] = timer["pause"]
         ELSE timer'["publish"] = Off /\ timer'["pause"] = run.pauseFor
    BY <1>1, <1>2, QosOptions DEF PauseFor, Ignored, QosTypeOK, Timers
<1>4. QosTypeOK'
    BY <1>1, <1>2, <1>3 DEF QosTypeOK, middleware
<1> USE DEF Timers, Off
<1>5. NumberedToTheLast'
    BY <1>1 DEF QosInv, NumberedToTheLast, middleware, Compatible, PublisherProfile, SubscriptionProfile, Offered, Requested
<1>6. OwnTimers'
    BY <1>1, <1>2, <1>3 DEF QosInv, OwnTimers
<1>7. PausesAreKept'
    BY <1>1, <1>2, <1>3, QosOptions, SMTT(30) DEF QosInv, PausesAreKept, QosTypeOK, middleware
<1>8. DeadlinesAreMet'
    BY <1>1, <1>2, <1>3, QosOptions DEF QosInv, DeadlinesAreMet, middleware
<1>9. CountedMessages' /\ LeaseRunsOut' /\ LeaseIsRenewed'
    BY <1>1, <1>2, QosOptions DEF CountedMessages, LeaseRunsOut, LeaseIsRenewed
<1> QED BY <1>4, <1>5, <1>6, <1>7, <1>8, <1>9 DEF QosInv

LEMMA PauseExpiredStep == ASSUME QosInv, PauseExpired PROVE QosInv'
<1> DEFINE next == [timer EXCEPT !["publish"] = Period, !["pause"] = Off]
<1>1. PublishThen(next) /\ UNCHANGED <<run, now, destroyed, subscribed>> /\ timer["pause"] = 0
    BY DEF PauseExpired, Due
<1>2. QosTypeOK /\ run \in Runs /\ run.program = "deadline"
    BY <1>1 DEF QosInv, QosTypeOK, OwnTimers, Off
<1>3. /\ timer' = next /\ timer' \in [Timers -> Nat \cup {Off}]
      /\ timer'["publish"] = Period /\ timer'["pause"] = Off
      /\ \A t \in Timers : t \notin {"publish", "pause"} => timer'[t] = timer[t]
    BY <1>1, <1>2, QosOptions DEF PublishThen, QosTypeOK, Timers
<1>4. QosTypeOK' /\ NumberedToTheLast'
    <2> HIDE DEF next
    <2> QED BY <1>1, <1>2, <1>3, MessagesAreNumbered DEF QosTypeOK
<1> HIDE DEF next
<1>5. silence' = 0 /\ deadlineLeft' = OrOff(run.deadline) /\ misses' = misses
    BY <1>1 DEF PublishThen, Delivered, Asserted
<1> USE DEF Timers, Off
<1>6. OwnTimers'
    BY <1>1, <1>2, <1>3 DEF QosInv, OwnTimers
<1>7. PausesAreKept'
    BY <1>1, <1>2, <1>3, <1>5, QosOptions DEF PausesAreKept
<1>8. DeadlinesAreMet'
    BY <1>1, <1>2, <1>3, <1>5, QosOptions DEF QosInv, DeadlinesAreMet, OrOff
<1>9. CountedMessages' /\ LeaseRunsOut' /\ LeaseIsRenewed'
    BY <1>1, <1>2, QosOptions DEF CountedMessages, LeaseRunsOut, LeaseIsRenewed
<1> QED BY <1>4, <1>6, <1>7, <1>8, <1>9 DEF QosInv

(* The timers of liveliness: the talker asserts its liveliness, and is     *)
(* killed.                                                                 *)
LEMMA AssertTimerStep == ASSUME QosInv, AssertTimer PROVE QosInv'
<1>1. /\ UNCHANGED <<run, now, destroyed, publishCount, subscribed, history, heard, silence, deadlineLeft, misses>>
      /\ timer["assert"] = 0 /\ leaseLeft' = run.lease /\ alive' = TRUE
    BY DEF AssertTimer, Due, Asserted
<1>2. QosTypeOK /\ run \in Runs
    BY DEF QosInv, QosTypeOK
<1>3. /\ timer' \in [Timers -> Nat \cup {Off}] /\ timer'["assert"] = run.assertPeriod
      /\ \A t \in Timers : t # "assert" => timer'[t] = timer[t]
    BY <1>2, QosOptions DEF AssertTimer, QosTypeOK, Timers
<1>4. QosTypeOK'
    BY <1>1, <1>2, <1>3, QosOptions DEF QosTypeOK
<1> USE DEF Timers, Off
<1>5. NumberedToTheLast'
    BY <1>1 DEF QosInv, NumberedToTheLast, Compatible, PublisherProfile, SubscriptionProfile, Offered, Requested
<1>6. OwnTimers' /\ PausesAreKept' /\ DeadlinesAreMet' /\ CountedMessages'
    BY <1>1, <1>3 DEF QosInv, OwnTimers, PausesAreKept, DeadlinesAreMet, CountedMessages
<1>7. LeaseRunsOut'
    BY <1>1, <1>2, <1>3, QosOptions, SMTT(30) DEF QosInv, LeaseRunsOut, QosTypeOK
<1>8. LeaseIsRenewed'
    BY <1>1, <1>2, <1>3, QosOptions, SMTT(30) DEF QosInv, LeaseIsRenewed, LeaseRunsOut, QosTypeOK
<1> QED BY <1>4, <1>5, <1>6, <1>7, <1>8 DEF QosInv

LEMMA KillTimerStep == ASSUME QosInv, KillTimer PROVE QosInv'
<1>1. /\ UNCHANGED <<run, now, publishCount, subscribed, middleware>>
      /\ timer["kill"] = 0 /\ destroyed' = (run.policy = "AUTOMATIC")
    BY DEF KillTimer, Due
<1>2. QosTypeOK /\ run \in Runs /\ run.program = "liveliness"
    BY <1>1 DEF QosInv, QosTypeOK, OwnTimers, Off
<1>3. /\ timer' \in [Timers -> Nat \cup {Off}]
      /\ timer'["kill"] = Off /\ timer'["publish"] = Off /\ timer'["assert"] = Off
      /\ \A t \in Timers : timer'[t] \in {timer[t], Off}
    BY <1>2 DEF KillTimer, StopsWith, QosTypeOK, Timers
<1>4. QosTypeOK'
    BY <1>1, <1>2, <1>3 DEF QosTypeOK, middleware
<1> USE DEF Timers, Off
<1>5. NumberedToTheLast'
    BY <1>1 DEF QosInv, NumberedToTheLast, middleware, Compatible, PublisherProfile, SubscriptionProfile, Offered, Requested
<1>6. OwnTimers' /\ PausesAreKept'
    BY <1>1, <1>2, <1>3 DEF QosInv, OwnTimers, PausesAreKept
<1>7. DeadlinesAreMet' /\ CountedMessages'
    BY <1>1, <1>2, QosOptions DEF DeadlinesAreMet, CountedMessages
<1>8. LeaseRunsOut'
    <2>1. /\ now \in Nat /\ leaseLeft \in Nat /\ run.lease \in Nat /\ leaseLeft <= run.lease
          /\ now = run.killAfter /\ (alive => leaseLeft > 0)
        BY <1>1, <1>2, QosOptions DEF QosInv, LeaseRunsOut, QosTypeOK
    <2>2. UNCHANGED <<run, now, leaseLeft, alive>>
        BY <1>1 DEF middleware
    <2>3. run.policy = "AUTOMATIC" => destroyed'
        BY <1>1
    <2>4. leaseLeft' <= run.lease /\ (alive' => leaseLeft' > 0) /\ now' >= run.killAfter
          /\ now' + leaseLeft' <= run.killAfter + run.lease
        BY <1>1, <2>1, <2>2
    <2> QED BY <1>1, <1>3, <2>3, <2>4 DEF LeaseRunsOut
<1>9. LeaseIsRenewed'
    BY <1>3 DEF LeaseIsRenewed
<1> QED BY <1>4, <1>5, <1>6, <1>7, <1>8, <1>9 DEF QosInv

(* start_listening, in lifespan: what is kept is heard, and goes on with   *)
(* the next message.                                                       *)
LEMMA StartListeningStep == ASSUME QosInv, StartListening PROVE QosInv'
<1> DEFINE kept == [i \in 1 .. Len(history) |-> history[i].n]
<1>1. /\ UNCHANGED <<run, now, destroyed, publishCount, history, silence, deadlineLeft, misses, leaseLeft, alive>>
      /\ timer["subscribe"] = 0 /\ subscribed' = TRUE
      /\ heard' = IF subscribed THEN heard ELSE heard \o kept
    BY DEF StartListening, Due, MayStart
<1>2. QosTypeOK /\ run \in Runs /\ run.program = "lifespan" /\ Compatible
    BY <1>1, QosOptions DEF QosInv, QosTypeOK, OwnTimers, Off
<1>3. /\ timer' \in [Timers -> Nat \cup {Off}] /\ timer'["subscribe"] = run.subscribeAfter
      /\ \A t \in Timers : t # "subscribe" => timer'[t] = timer[t]
    BY <1>2, QosOptions DEF StartListening, QosTypeOK, Timers
<1>4. kept \in Seq(Nat) /\ Len(kept) = Len(history)
    <2>1. Len(history) \in Nat /\ \A i \in 1 .. Len(history) : history[i] \in KeptMessage
        BY <1>2 DEF QosTypeOK
    <2>2. \A m \in KeptMessage : m.n \in Nat
        BY DEF KeptMessage
    <2> QED BY <2>1, <2>2
<1>5. subscribed \/ heard' = kept
    <2>1. ~subscribed => heard = <<>>
        BY DEF QosInv, NumberedToTheLast
    <2> HIDE DEF kept
    <2> QED BY <1>1, <1>4, <2>1
<1>6. heard' \in Seq(Nat)
    BY <1>1, <1>2, <1>4, <1>5 DEF QosTypeOK
<1>7. QosTypeOK'
    BY <1>1, <1>2, <1>3, <1>6 DEF QosTypeOK
<1>8. \A i \in 1 .. Len(heard') : heard'[i] = (publishCount - 1) - (Len(heard') - i)
    <2>1. CASE subscribed
        BY <1>1, <1>2, <2>1 DEF QosInv, NumberedToTheLast
    <2>2. CASE ~subscribed
        BY <1>4, <1>5, <2>2 DEF QosInv, NumberedToTheLast
    <2> QED BY <2>1, <2>2
<1>9. NumberedToTheLast'
    <2>1. Compatible'
        BY <1>1, <1>2 DEF Compatible, PublisherProfile, SubscriptionProfile, Offered, Requested
    <2>2. \A i \in 1 .. Len(history) : history[i].n = (publishCount - 1) - (Len(history) - i)
        BY DEF QosInv, NumberedToTheLast
    <2> QED BY <1>1, <1>8, <2>1, <2>2 DEF NumberedToTheLast
<1> USE DEF Timers, Off
<1>10. OwnTimers' /\ PausesAreKept' /\ CountedMessages'
    BY <1>1, <1>2, <1>3 DEF QosInv, OwnTimers, PausesAreKept, CountedMessages
<1>11. DeadlinesAreMet' /\ LeaseRunsOut' /\ LeaseIsRenewed'
    BY <1>1, <1>2, QosOptions DEF DeadlinesAreMet, LeaseRunsOut, LeaseIsRenewed
<1> QED BY <1>7, <1>9, <1>10, <1>11 DEF QosInv

(* Expired messages are dropped from the oldest on.                        *)
LEMMA KeptMessagesAge ==
    ASSUME QosTypeOK
    PROVE  /\ Unexpired \in Seq(KeptMessage) /\ Len(Unexpired) <= Len(history)
           /\ \A i \in 1 .. Len(Unexpired) :
                  Unexpired[i].n = history[i + (Len(history) - Len(Unexpired))].n
<1>1. /\ Len(history) \in Nat
      /\ \A i \in 1 .. Len(history) : history[i] \in KeptMessage
    BY DEF QosTypeOK
<1>2. Cardinality(Expired) \in 0 .. Len(history)
    <2>1. Expired \in SUBSET (1 .. Len(history)) /\ 1 \in Int /\ Len(history) \in Int
        BY <1>1 DEF Expired
    <2>2. IsFiniteSet(1 .. Len(history)) /\ Cardinality(1 .. Len(history)) = Len(history)
        BY <1>1, <2>1, FS_Interval, SMTT(30)
    <2>3. IsFiniteSet(Expired) /\ Cardinality(Expired) <= Len(history)
        BY <2>1, <2>2, FS_Subset
    <2> QED BY <1>1, <2>3, FS_CardinalityType
<1>3. PICK k \in 0 .. Len(history) : k = Cardinality(Expired)
    BY <1>2
<1>4. Unexpired = [i \in 1 .. Len(history) - k |-> Older(history[i + k])]
    BY <1>3 DEF Unexpired
<1>5. \A i \in 1 .. Len(history) - k : i + k \in 1 .. Len(history)
    BY <1>1
<1>6. \A i \in 1 .. Len(history) : Older(history[i]) \in KeptMessage /\ Older(history[i]).n = history[i].n
    BY <1>1 DEF Older, KeptMessage
<1>7. Unexpired \in Seq(KeptMessage) /\ Len(Unexpired) = Len(history) - k
    BY <1>1, <1>4, <1>5, <1>6
<1>8. \A i \in 1 .. Len(Unexpired) : Unexpired[i].n = history[i + k].n
    BY <1>4, <1>5, <1>6, <1>7
<1>9. k = Len(history) - Len(Unexpired) /\ Len(Unexpired) <= Len(history)
    BY <1>1, <1>7
<1> QED BY <1>7, <1>8, <1>9

(* A tick: deadline, pause and lease run down together.                    *)
LEMMA QosTickStep == ASSUME QosInv, QosTick PROVE QosInv'
<1>1. /\ UNCHANGED <<run, destroyed, publishCount, subscribed, heard>>
      /\ now' = now + 1 /\ silence' = silence + 1 /\ history' = Unexpired
      /\ \A t \in Timers : timer[t] # 0
    BY DEF QosTick
<1>2. QosTypeOK /\ run \in Runs
    BY DEF QosInv, QosTypeOK
<1>3. /\ timer' \in [Timers -> Nat \cup {Off}]
      /\ \A t \in Timers : timer'[t] = IF timer[t] = Off THEN Off ELSE timer[t] - 1
    BY <1>1, <1>2 DEF QosTick, QosTypeOK, Off
<1>4. deadlineLeft' = IF deadlineLeft = 1 THEN run.deadline ELSE IF deadlineLeft = Off THEN Off ELSE deadlineLeft - 1
    BY DEF QosTick
<1>5. leaseLeft' = IF RenewsItself THEN run.lease ELSE IF leaseLeft > 0 THEN leaseLeft - 1 ELSE 0
    BY DEF QosTick
<1>6. alive' \in BOOLEAN /\ (alive' <=> alive /\ leaseLeft' > 0)
    BY <1>2 DEF QosTick, QosTypeOK
<1>7. QosTypeOK'
    <2>1. deadlineLeft' \in Nat \cup {Off} /\ leaseLeft' \in Nat
        BY <1>2, <1>4, <1>5, QosOptions, SMTT(30) DEF QosTypeOK, Off
    <2>2. now' \in Nat /\ silence' \in Nat
        BY <1>1, <1>2 DEF QosTypeOK
    <2>3. history' \in Seq(KeptMessage)
        BY <1>1, <1>2, KeptMessagesAge
    <2> QED BY <1>1, <1>2, <1>3, <1>6, <2>1, <2>2, <2>3 DEF QosTypeOK
<1>8. NumberedToTheLast'
    <2>1. ASSUME NEW i \in 1 .. Len(history') PROVE history'[i].n = (publishCount' - 1) - (Len(history') - i)
        <3>1. Len(history) \in Nat /\ Len(Unexpired) \in Nat /\ Len(Unexpired) <= Len(history) /\ publishCount \in Nat
            BY <1>2, KeptMessagesAge DEF QosTypeOK
        <3>2. PICK j \in 1 .. Len(history) : j = i + (Len(history) - Len(Unexpired))
            BY <1>1, <3>1, SMTT(30)
        <3>3. history'[i].n = history[j].n
            BY <1>1, <1>2, <3>2, KeptMessagesAge
        <3>4. history[j].n = (publishCount - 1) - (Len(history) - j)
            BY DEF QosInv, NumberedToTheLast
        <3>5. Len(history) - j = Len(Unexpired) - i
            BY <1>1, <3>1, <3>2
        <3> QED BY <1>1, <3>3, <3>4, <3>5
    <2>2. Compatible' <=> Compatible
        BY <1>1 DEF Compatible, PublisherProfile, SubscriptionProfile, Offered, Requested
    <2> QED BY <1>1, <2>1, <2>2 DEF QosInv, NumberedToTheLast
<1> USE DEF Timers, Off
<1>9. OwnTimers'
    BY <1>1, <1>3 DEF QosInv, OwnTimers
<1>10. PausesAreKept'
    <2> SUFFICES ASSUME run.program = "deadline" PROVE PausesAreKept'
        BY <1>1 DEF PausesAreKept
    <2>1. silence \in Nat /\ timer["publish"] \in Nat \cup {Off} /\ timer["pause"] \in Nat \cup {Off}
          /\ Period \in Nat /\ run.pauseFor \in Nat
        BY <1>2, QosOptions DEF QosTypeOK
    <2>2. CASE timer["pause"] = Off
        <3>1. timer["publish"] # Off /\ silence + timer["publish"] <= Period
            BY <2>2 DEF QosInv, PausesAreKept
        <3> QED BY <1>1, <1>3, <2>1, <2>2, <3>1 DEF PausesAreKept
    <2>3. CASE timer["pause"] # Off
        <3>1. timer["publish"] = Off /\ timer["pause"] <= run.pauseFor /\ silence + timer["pause"] <= run.pauseFor + Period
            BY <2>3 DEF QosInv, PausesAreKept
        <3>2. timer'["pause"] = timer["pause"] - 1 /\ timer'["pause"] # Off
            BY <1>1, <1>3, <2>1, <2>3
        <3> QED BY <1>1, <1>3, <2>1, <3>1, <3>2 DEF PausesAreKept
    <2> QED BY <2>2, <2>3
<1>11. DeadlinesAreMet'
    <2> SUFFICES ASSUME run.deadline > Period PROVE DeadlinesAreMet'
        BY <1>1 DEF DeadlinesAreMet
    <2>1. run.program = "deadline" /\ run.deadline \in Nat /\ Period \in Nat \ {0} /\ run.pauseFor \in Nat
        BY <1>2, QosOptions
    <2>2. CASE timer["pause"] = Off
        <3>1. timer["publish"] \in Nat /\ timer["publish"] # 0
            BY <1>1, <1>2, <2>1, <2>2 DEF QosInv, PausesAreKept, QosTypeOK
        <3>2. deadlineLeft \in Nat /\ deadlineLeft > 1 /\ deadlineLeft >= timer["publish"] + (run.deadline - Period)
            BY <1>2, <2>1, <2>2, <3>1 DEF QosInv, DeadlinesAreMet, QosTypeOK
        <3>3. misses' = misses /\ deadlineLeft' = deadlineLeft - 1
            BY <1>4, <3>2 DEF QosTick
        <3> QED BY <1>1, <1>3, <2>1, <3>1, <3>2, <3>3 DEF QosInv, DeadlinesAreMet
    <2>3. CASE timer["pause"] # Off
        <3>1. run.pauseFor # 0
            BY <1>1, <1>2, <2>1, <2>3 DEF QosInv, PausesAreKept, QosTypeOK
        <3>2. misses' \subseteq misses \cup {"paused"}
            BY <2>3 DEF QosTick
        <3>3. timer'["pause"] # Off
            BY <1>1, <1>2, <1>3, <2>3 DEF QosTypeOK
        <3> QED BY <1>1, <3>1, <3>2, <3>3 DEF QosInv, DeadlinesAreMet
    <2> QED BY <2>2, <2>3
<1>12. CountedMessages'
    BY <1>1, <1>3 DEF QosInv, CountedMessages
<1>13. LeaseRunsOut'
    <2> SUFFICES ASSUME run.program = "liveliness" PROVE LeaseRunsOut'
        BY <1>1 DEF LeaseRunsOut
    <2>1. /\ run.lease \in Nat \ {0} /\ run.killAfter \in Nat /\ run.policy \in {"AUTOMATIC", "MANUAL_BY_TOPIC"}
          /\ now \in Nat /\ leaseLeft \in Nat /\ leaseLeft <= run.lease
        BY <1>2, QosOptions DEF QosInv, QosTypeOK, LeaseRunsOut
    <2>2. leaseLeft' <= run.lease /\ (alive' => leaseLeft' > 0)
        BY <1>5, <1>6, <2>1
    <2>3. timer'["kill"] # Off => now' + timer'["kill"] = run.killAfter /\ ~destroyed'
        BY <1>1, <1>2, <1>3, <2>1 DEF QosInv, QosTypeOK, LeaseRunsOut
    <2>4. ASSUME timer'["kill"] = Off
          PROVE  /\ timer'["publish"] = Off /\ timer'["assert"] = Off /\ now' >= run.killAfter
                 /\ run.policy = "AUTOMATIC" => destroyed'
                 /\ leaseLeft' = 0 \/ now' + leaseLeft' <= run.killAfter + run.lease
        <3>1. timer["kill"] = Off
            BY <1>1, <1>2, <1>3, <2>4 DEF QosTypeOK
        <3>2. ~RenewsItself
            BY <2>1, <3>1 DEF QosInv, LeaseRunsOut, RenewsItself
        <3>3. /\ timer'["publish"] = Off /\ timer'["assert"] = Off
              /\ run.policy = "AUTOMATIC" => destroyed'
            BY <1>1, <1>3, <3>1 DEF QosInv, LeaseRunsOut
        <3>4. now >= run.killAfter /\ (leaseLeft = 0 \/ now + leaseLeft <= run.killAfter + run.lease)
            BY <3>1 DEF QosInv, LeaseRunsOut
        <3> QED BY <1>1, <1>5, <2>1, <3>2, <3>3, <3>4
    <2> QED BY <1>1, <2>2, <2>3, <2>4 DEF LeaseRunsOut
<1>14. LeaseIsRenewed'
    <2> SUFFICES ASSUME run.program = "liveliness", timer'["kill"] # Off PROVE LeaseIsRenewed'
        BY <1>1 DEF LeaseIsRenewed
    <2>1. /\ timer["kill"] # Off /\ now \in Nat /\ leaseLeft \in Nat /\ run.lease \in Nat \ {0} /\ leaseLeft <= run.lease
          /\ timer["publish"] \in Nat \ {0} /\ ~destroyed /\ run.assertPeriod \in Nat
        BY <1>1, <1>2, <1>3, QosOptions DEF QosInv, LeaseIsRenewed, LeaseRunsOut, QosTypeOK
    <2>2. timer'["publish"] # Off /\ (publishCount' = 0 => now' + timer'["publish"] = Period)
        BY <1>1, <1>3, <2>1 DEF QosInv, LeaseIsRenewed
    <2>3. run.policy = "AUTOMATIC" => alive'
        <3>1. run.policy = "AUTOMATIC" => alive /\ RenewsItself
            BY <2>1 DEF QosInv, LeaseIsRenewed, RenewsItself
        <3> QED BY <1>5, <1>6, <2>1, <3>1
    <2>4. ASSUME run.assertPeriod \in 1 .. (run.lease - 1)
          PROVE  /\ timer'["assert"] # Off /\ leaseLeft' >= timer'["assert"] + (run.lease - run.assertPeriod)
                 /\ publishCount' > 0 => alive'
        <3>1. /\ timer["assert"] \in Nat \ {0} /\ leaseLeft >= timer["assert"] + (run.lease - run.assertPeriod)
            BY <1>1, <1>2, <2>1, <2>4 DEF QosInv, LeaseIsRenewed, QosTypeOK
        <3>2. leaseLeft' > 0 /\ leaseLeft' >= (timer["assert"] - 1) + (run.lease - run.assertPeriod)
            BY <1>5, <2>1, <2>4, <3>1
        <3>3. timer'["assert"] = timer["assert"] - 1
            BY <1>3, <3>1
        <3>4. publishCount > 0 => alive
            BY <2>1, <2>4 DEF QosInv, LeaseIsRenewed
        <3> QED BY <1>1, <1>6, <3>1, <3>2, <3>3, <3>4
    <2> QED BY <1>1, <2>2, <2>3, <2>4 DEF LeaseIsRenewed
<1> QED BY <1>7, <1>8, <1>9, <1>10, <1>11, <1>12, <1>13, <1>14 DEF QosInv

(* Timers, messages and lease stay in step, in every program.              *)
THEOREM QosInvariance == QosSpec => []QosInv
<1>1. QosInit => QosInv
    <2> SUFFICES ASSUME QosInit PROVE QosInv
        OBVIOUS
    <2>1. run \in Runs /\ history = <<>> /\ heard = <<>> /\ publishCount = 0 /\ now = 0 /\ silence = 0 /\ misses = {}
          /\ destroyed = FALSE /\ deadlineLeft = OrOff(run.deadline) /\ leaseLeft = run.lease
        BY DEF QosInit
    <2>1a. (subscribed <=> run.subscribeAfter = 0) /\ subscribed \in BOOLEAN
          /\ (alive <=> run.policy # "MANUAL_BY_TOPIC") /\ alive \in BOOLEAN
        BY DEF QosInit
    <2>2. /\ timer \in [Timers -> Nat \cup {Off}]
          /\ timer["publish"] = Period /\ timer["pause"] = Off
          /\ timer["publish_for"] = OrOff(run.publishFor) /\ timer["assert"] = OrOff(run.assertPeriod)
          /\ timer["kill"] = OrOff(run.killAfter) /\ timer["subscribe"] = OrOff(run.subscribeAfter)
        BY <2>1, QosOptions DEF QosInit, Timers, OrOff, Off
    <2>3. QosTypeOK
        <3>1. deadlineLeft \in Nat \cup {Off} /\ leaseLeft \in Nat
            BY <2>1, QosOptions DEF OrOff
        <3>2. history \in Seq(KeptMessage) /\ heard \in Seq(Nat)
            BY <2>1
        <3>3. destroyed \in BOOLEAN /\ subscribed \in BOOLEAN /\ alive \in BOOLEAN
            BY <2>1, <2>1a
        <3>4. now \in Nat /\ publishCount \in Nat /\ silence \in Nat
            BY <2>1
        <3> QED BY <2>1, <2>2, <3>1, <3>2, <3>3, <3>4 DEF QosTypeOK
    <2>4. OwnTimers
        BY <2>1, <2>2, <2>1a, QosOptions DEF OwnTimers, OrOff
    <2>5. PausesAreKept /\ DeadlinesAreMet /\ CountedMessages
        BY <2>1, <2>2, QosOptions DEF PausesAreKept, DeadlinesAreMet, CountedMessages, OrOff, Off
    <2>6. NumberedToTheLast
        BY <2>1 DEF NumberedToTheLast
    <2>7. LeaseRunsOut
        BY <2>1, <2>2, QosOptions DEF LeaseRunsOut, OrOff, Off
    <2>8. LeaseIsRenewed
        BY <2>1, <2>2, <2>1a, QosOptions DEF LeaseIsRenewed, OrOff, Off
    <2> QED BY <2>3, <2>4, <2>5, <2>6, <2>7, <2>8 DEF QosInv
<1>2. QosInv /\ [QosNext]_qosVars => QosInv'
    <2> SUFFICES ASSUME QosInv, [QosNext]_qosVars PROVE QosInv'
        OBVIOUS
    <2>1. CASE UNCHANGED qosVars
        BY <2>1, ZenonT(40) DEF qosVars, QosInv, QosTypeOK, OwnTimers, PausesAreKept, DeadlinesAreMet, NumberedToTheLast,
                    CountedMessages, LeaseRunsOut, LeaseIsRenewed, Compatible, PublisherProfile, SubscriptionProfile,
                    Offered, Requested
    <2>2. CASE QosNext
        BY <2>2, PublishTimerStep, PauseForStep, PauseExpiredStep, AssertTimerStep, KillTimerStep, StartListeningStep,
           QosTickStep DEF QosNext
    <2> QED BY <2>1, <2>2
<1> QED BY <1>1, <1>2, PTL DEF QosSpec

(* What each quality of service program is there to show, it shows         *)
(* (PoliciesTell), whatever its options and the publish period.            *)
THEOREM PoliciesAreShown == QosSpec => []PoliciesTell
<1>1. QosInv => PoliciesTell
    <2> SUFFICES ASSUME QosInv PROVE PoliciesTell
        OBVIOUS
    <2>1. QosTypeOK /\ run \in Runs
        BY DEF QosInv, QosTypeOK
    <2> USE DEF Off, Timers
    <2>2. MissesOnlyWhenPaused
        <3>1. ASSUME run.program = "deadline" PROVE silence <= run.pauseFor + Period
            <4>1. silence \in Nat /\ timer["publish"] \in Nat \cup {Off} /\ timer["pause"] \in Nat \cup {Off}
                  /\ Period \in Nat /\ run.pauseFor \in Nat
                BY <2>1, QosOptions DEF QosTypeOK
            <4>2. \/ timer["publish"] # Off /\ silence + timer["publish"] <= Period
                  \/ timer["pause"] # Off /\ silence + timer["pause"] <= run.pauseFor + Period
                BY <3>1 DEF QosInv, PausesAreKept
            <4> QED BY <4>1, <4>2
        <3> QED BY <3>1 DEF QosInv, DeadlinesAreMet, MissesOnlyWhenPaused
    <2>3. HeardOnceInOrder
        <3>1. ASSUME subscribed /\ Compatible, heard # <<>>
              PROVE  /\ Len(heard) \in Nat \ {0} /\ Last(heard) = heard[Len(heard)]
                     /\ \A i \in 1 .. Len(heard) : heard[i] = (publishCount - 1) - (Len(heard) - i)
            BY <2>1, <3>1 DEF QosInv, NumberedToTheLast, QosTypeOK, Last
        <3>2. ASSUME subscribed /\ Compatible, heard # <<>>
              PROVE  Last(heard) = publishCount - 1
            <4>1. heard[Len(heard)] = (publishCount - 1) - (Len(heard) - Len(heard))
                BY <3>1, <3>2
            <4> QED BY <2>1, <3>1, <3>2, <4>1 DEF QosTypeOK
        <3>3. heard # <<>> => subscribed /\ Compatible
            BY DEF QosInv, NumberedToTheLast
        <3>4. \A i \in 1 .. Len(heard) : heard[i] = Last(heard) - (Len(heard) - i)
            BY <2>1, <3>1, <3>2, <3>3 DEF QosTypeOK
        <3> QED BY <3>2, <3>4 DEF QosInv, CountedMessages, HeardOnceInOrder
    <2>4. LeaseTellsTheKill
        <3> SUFFICES ASSUME run.program = "liveliness" PROVE LeaseTellsTheKill
            BY DEF LeaseTellsTheKill
        <3>1. ASSUME now > run.killAfter + run.lease PROVE ~alive
            BY <2>1, <3>1, QosOptions, SMTT(30) DEF QosInv, QosTypeOK, LeaseRunsOut
        <3>2. ASSUME now >= Period, now < run.killAfter, run.assertPeriod \in 1 .. (run.lease - 1)
              PROVE  alive \/ timer["publish"] = 0
            <4>1. timer["kill"] # Off
                BY <2>1, <3>2, QosOptions DEF QosInv, QosTypeOK, LeaseRunsOut
            <4>2. publishCount = 0 => timer["publish"] = 0
                BY <2>1, <3>2, <4>1, QosOptions DEF QosInv, QosTypeOK, LeaseIsRenewed
            <4>3. publishCount > 0 => alive
                BY <3>2, <4>1 DEF QosInv, LeaseIsRenewed
            <4> QED BY <2>1, <4>2, <4>3 DEF QosTypeOK
        <3> QED BY <3>1, <3>2 DEF LeaseTellsTheKill
    <2>5. IncompatibleHearsNothing
        BY <2>1, QosOptions DEF QosInv, NumberedToTheLast, IncompatibleHearsNothing
    <2> QED BY <2>2, <2>3, <2>4, <2>5 DEF PoliciesTell
<1> QED BY <1>1, QosInvariance, PTL

-------------------------------------------------------------------------------
(* The next value the monitor receives from a publisher.                   *)
Upcoming(q, c) == IF q # <<>> THEN q[1] ELSE c

(* Values in flight increase within a run, up to the value sent next.      *)
Ascending(q, c) ==
    /\ \A i \in 1..(Len(q) - 1) : q[i] = -1 \/ q[i + 1] = -1 \/ q[i] < q[i + 1]
    /\ q # <<>> => q[Len(q)] = -1 \/ q[Len(q)] < c

(* What is in flight is the end of one run of the publisher.               *)
EndOfRun(q, c) == \A i \in 1..Len(q) : q[i] = -1 => i = Len(q) /\ c = None

(* No value of the run is missing in flight.                               *)
WithoutGap(q, c) ==
    /\ \A i \in 1..(Len(q) - 1) : q[i + 1] = -1 \/ q[i + 1] = q[i] + 1
    /\ q # <<>> => q[Len(q)] = -1 \/ q[Len(q)] + 1 = c

(* The values a publisher sends, and the values it may send next.          *)
Sendable == -1..(EndAfter - 1)
Cycles == 0..EndAfter \cup {None}
MonitoredTopics ==
    [expected : (1..MaxExpected) \cup {None}, initial : Sendable \cup {None}, received : SUBSET (0..(EndAfter - 1)),
     status : {"Offline", "Alive", "Stale"}, changed : BOOLEAN, age : 0..MaxAge]

(* The types of the variables.                                             *)
MonitorTypes ==
    /\ starts \in [Names -> Nat] /\ cycle \in [Names -> Cycles] /\ inFlight \in [Names -> Seq(Sendable)]
    /\ topic \in [Names -> MonitoredTopics]
    /\ latency \in [Names -> 0..AllowedLatency \cup {None}] /\ period \in [Names -> 0..ExpectedPeriod \cup {None}]
    /\ rate \in [Names -> [count : Nat, of : Nat, spotless : BOOLEAN]]
    /\ shown \in [Names -> {"Offline", "Alive", "Stale"}]
    /\ sinceCycle \in 0..(StatsPeriod + MaxLag) /\ monitored \subseteq Names

(* A topic that is not monitored yet.                                      *)
Untouched(t) ==
    /\ inFlight[t] = <<>> /\ topic[t].expected = None /\ topic[t].received = {} /\ topic[t].changed = FALSE
    /\ latency[t] = None /\ period[t] = None /\ shown[t] = "Offline" /\ rate[t] = NoRate

(* The status of a topic.                                                  *)
Stated(t) ==
    /\ topic[t].status = "Offline" <=> topic[t].expected = None
    /\ topic[t].status = "Alive" => topic[t].age <= StaleTime + sinceCycle
    /\ main # "output" => shown[t] = topic[t].status \/ topic[t].changed

(* The values of the run that is being received.                           *)
Counted(m, next) ==
    m.expected # None =>
        /\ m.initial \in 0..(EndAfter - 1) /\ m.initial < m.expected
        /\ next # None /\ (next = -1 \/ m.initial < next)

(* The timers of the topic.                                                *)
Timed(m, l, p) ==
    /\ m.expected # None => l # None \/ p # None
    /\ l # None => p = None /\ m.age + l <= AllowedLatency

(* What a monitor that has seen one run has received, and how long ago.    *)
SeenOnce(m, next, p) ==
    \A r \in m.received :
        /\ next \in {None, -1} \/ r < next
        /\ m.expected # None =>
               /\ r < m.expected
               /\ p # None => \/ m.age + p <= AllowedLatency + (m.expected - r) * ExpectedPeriod
                              \/ m.expected = MaxExpected

(* What a monitor that has missed nothing of the run has received.         *)
MissedNothing(m, next, p) ==
    m.expected # None =>
        /\ p = None /\ next \in {-1, m.expected}
        /\ m.initial..(m.expected - 1) \subseteq m.received

(* How long a rate may have been on display.                               *)
Round == IF main \in {"wait", "draw"} THEN sinceCycle ELSE StatsPeriod + MaxLag

(* A topic whose publisher has started once at most.                       *)
FirstRun(t) ==
    /\ EndOfRun(inFlight[t], cycle[t])
    /\ SeenOnce(topic[t], Upcoming(inFlight[t], cycle[t]), period[t])
    /\ rate[t].count # 0 => topic[t].age <= RateRunsOut + Round

(* A topic of whose run nothing was lost or late.                          *)
SpotlessRun(t) ==
    /\ EndOfRun(inFlight[t], cycle[t]) /\ WithoutGap(inFlight[t], cycle[t])
    /\ MissedNothing(topic[t], Upcoming(inFlight[t], cycle[t]), period[t])

(* What is invariant of a topic.                                           *)
TopicInv(t) ==
    /\ Ascending(inFlight[t], cycle[t])
    /\ t \notin monitored => Untouched(t)
    /\ Stated(t)
    /\ Counted(topic[t], Upcoming(inFlight[t], cycle[t]))
    /\ Timed(topic[t], latency[t], period[t])
    /\ starts[t] = 0 => topic[t].received = {} /\ cycle[t] = None /\ inFlight[t] = <<>> /\ t \notin spotless
    /\ starts[t] <= 1 => FirstRun(t)
    /\ t \in spotless => SpotlessRun(t)
    /\ rate[t].spotless => rate[t].count = rate[t].of

(* The main thread leaves the lock no time between a check and the display.*)
Loop ==
    /\ main \in {"wait", "output", "calculate", "draw", "ended"}
    /\ main \in {"output", "calculate", "draw"} => sinceCycle = 0
    /\ cause # "ZeroDivisionError"

(* Everything that is invariant of the monitor.                            *)
MonitorInv == MonitorTypes /\ Loop /\ \A t \in Names : TopicInv(t)

-----------------------------------------------------------------------------
(* The maximum and the minimum of two numbers.                             *)
LEMMA ExtremesOfTwo ==
    /\ \A a, b \in Int : Max({a, b}) = IF a >= b THEN a ELSE b
    /\ \A a, b \in Int : Min({a, b}) = IF a <= b THEN a ELSE b
<1>1. ASSUME NEW a \in Int, NEW b \in Int PROVE Max({a, b}) = IF a >= b THEN a ELSE b
    <2>1. Max({a, b}) = CHOOSE x \in {a, b} : \A y \in {a, b} : x >= y
        BY DEF Max
    <2>2. \E x \in {a, b} : \A y \in {a, b} : x >= y
        <3>1. CASE a >= b
            BY <3>1
        <3>2. CASE b >= a
            BY <3>2
        <3> QED BY <3>1, <3>2
    <2> QED BY <2>1, <2>2
<1>2. ASSUME NEW a \in Int, NEW b \in Int PROVE Min({a, b}) = IF a <= b THEN a ELSE b
    <2>1. Min({a, b}) = CHOOSE x \in {a, b} : \A y \in {a, b} : x <= y
        BY DEF Min
    <2>2. \E x \in {a, b} : \A y \in {a, b} : x <= y
        <3>1. CASE a <= b
            BY <3>1
        <3>2. CASE b <= a
            BY <3>2
        <3> QED BY <3>1, <3>2
    <2> QED BY <2>1, <2>2
<1> QED BY <1>1, <1>2

(* What is assumed of the options of the monitor.                          *)
LEMMA ConstantFacts ==
    /\ WindowSize \in Nat \ {0} /\ ExpectedPeriod \in Nat \ {0}
    /\ AllowedLatency \in Nat /\ StaleTime \in Nat /\ StatsPeriod \in Nat /\ EndAfter \in Nat
    /\ MaxLag \in Nat /\ MaxAge \in Nat /\ MaxExpected \in Nat
    /\ MaxExpected >= EndAfter + WindowSize /\ None = -2
BY MonitorAssumption DEF MonitorAssumption, None

(* Saturated counters stay below their bound.                              *)
LEMMA SaturatedFacts ==
    ASSUME NEW n \in Nat, NEW bound \in Nat
    PROVE  /\ Saturated(n, bound) \in 0..bound /\ Saturated(n, bound) <= n
           /\ Saturated(n, bound) = n \/ Saturated(n, bound) = bound
BY ExtremesOfTwo DEF Saturated

(* A value is sent: those in flight stay in order.                         *)
LEMMA QueueGrows ==
    ASSUME NEW q \in Seq(Sendable), NEW c \in 0..EndAfter, NEW e \in {c, -1}, NEW d \in Int,
           NEW r \in Seq(Sendable), Len(r) = Len(q) + 1, r[Len(q) + 1] = e, \A i \in 1..Len(q) : r[i] = q[i]
    PROVE  /\ Ascending(q, c) /\ (e = c => d = c + 1) => Ascending(r, d)
           /\ EndOfRun(q, c) /\ (e = -1 => d = None) => EndOfRun(r, d)
           /\ EndOfRun(q, c) /\ WithoutGap(q, c) /\ (e = c => d = c + 1) => WithoutGap(r, d)
<1>1. Len(q) \in Nat /\ c \in Nat /\ c # None /\ r # <<>> /\ (q = <<>> <=> Len(q) = 0)
    BY ConstantFacts
<1>2. \A i \in 1..Len(q) : q[i] \in Int
    <2>1. Sendable \subseteq Int
        BY ConstantFacts DEF Sendable
    <2> QED BY <2>1, ElementOfSeq
<1>3. ASSUME NEW i \in 1..Len(q) PROVE /\ i # Len(q) => i \in 1..(Len(q) - 1) /\ i + 1 \in 1..Len(q)
                                       /\ q # <<>>
    BY <1>1
<1>4. ASSUME Ascending(q, c), e = c => d = c + 1 PROVE Ascending(r, d)
    <2>1. ASSUME NEW i \in 1..Len(q) PROVE r[i] = -1 \/ r[i + 1] = -1 \/ r[i] < r[i + 1]
        <3>1. CASE i = Len(q)
            BY <1>1, <1>2, <1>3, <1>4, <3>1 DEF Ascending
        <3>2. CASE i # Len(q)
            BY <1>1, <1>2, <1>3, <1>4, <3>2 DEF Ascending
        <3> QED BY <3>1, <3>2
    <2>2. 1..(Len(r) - 1) = 1..Len(q)
        BY <1>1
    <2>3. r[Len(r)] = -1 \/ r[Len(r)] < d
        BY <1>1, <1>4
    <2> QED BY <2>1, <2>2, <2>3 DEF Ascending
<1>5. ASSUME EndOfRun(q, c), e = -1 => d = None PROVE EndOfRun(r, d)
    <2>1. \A i \in 1..Len(q) : q[i] # -1
        BY <1>1, <1>5 DEF EndOfRun
    <2>2. \A i \in 1..Len(r) : i # Len(r) => i \in 1..Len(q)
        BY <1>1
    <2> QED BY <1>1, <1>5, <2>1, <2>2 DEF EndOfRun
<1>6. ASSUME EndOfRun(q, c), WithoutGap(q, c), e = c => d = c + 1 PROVE WithoutGap(r, d)
    <2>0. \A i \in 1..Len(q) : q[i] # -1
        BY <1>1, <1>6 DEF EndOfRun
    <2>1. ASSUME NEW i \in 1..Len(q) PROVE r[i + 1] = -1 \/ r[i + 1] = r[i] + 1
        <3>1. CASE i = Len(q)
            BY <1>1, <1>2, <1>3, <1>6, <2>0, <3>1 DEF WithoutGap
        <3>2. CASE i # Len(q)
            BY <1>1, <1>2, <1>3, <1>6, <3>2 DEF WithoutGap
        <3> QED BY <3>1, <3>2
    <2>2. 1..(Len(r) - 1) = 1..Len(q)
        BY <1>1
    <2>3. r[Len(r)] = -1 \/ r[Len(r)] + 1 = d
        BY <1>1, <1>6
    <2> QED BY <2>1, <2>2, <2>3 DEF WithoutGap
<1> QED BY <1>4, <1>5, <1>6

(* A value is received: those left stay in order.                          *)
LEMMA QueueShrinks ==
    ASSUME NEW q \in Seq(Sendable), NEW c \in Cycles, q # <<>>,
           NEW r \in Seq(Sendable), Len(r) = Len(q) - 1, \A i \in 1..Len(r) : r[i] = q[i + 1]
    PROVE  /\ Ascending(q, c) => /\ Ascending(r, c)
                                 /\ q[1] # -1 => Upcoming(r, c) = -1 \/ Upcoming(r, c) > q[1]
           /\ EndOfRun(q, c) => EndOfRun(r, c) /\ (q[1] = -1 => Upcoming(r, c) = None)
           /\ WithoutGap(q, c) => /\ WithoutGap(r, c)
                                  /\ q[1] # -1 => Upcoming(r, c) \in {-1, q[1] + 1}
<1>1. Len(q) \in Nat \ {0} /\ Len(r) \in Nat /\ c \in Int /\ (r = <<>> <=> Len(r) = 0)
    BY ConstantFacts DEF Cycles
<1>2. \A i \in 1..Len(q) : q[i] \in Int
    <2>1. Sendable \subseteq Int
        BY ConstantFacts DEF Sendable
    <2> QED BY <2>1, ElementOfSeq
<1>3. \A i \in 1..Len(r) : i + 1 \in 1..Len(q) /\ i \in 1..(Len(q) - 1)
    BY <1>1
<1>4. \A i \in 1..(Len(r) - 1) : i \in 1..Len(r) /\ i + 1 \in 1..Len(r) /\ i + 1 \in 1..(Len(q) - 1)
    BY <1>1
<1>5. r # <<>> => r[Len(r)] = q[Len(q)]
    BY <1>1
<1>6. Upcoming(r, c) = IF Len(q) = 1 THEN c ELSE q[2]
    BY <1>1 DEF Upcoming
<1>7. ASSUME Ascending(q, c)
      PROVE  Ascending(r, c) /\ (q[1] # -1 => Upcoming(r, c) = -1 \/ Upcoming(r, c) > q[1])
    <2>1. Ascending(r, c)
        BY <1>3, <1>4, <1>5, <1>7 DEF Ascending
    <2> QED BY <1>1, <1>2, <1>6, <1>7, <2>1 DEF Ascending
<1>8. ASSUME EndOfRun(q, c)
      PROVE  EndOfRun(r, c) /\ (q[1] = -1 => Upcoming(r, c) = None)
    <2>1. 1 \in 1..Len(q)
        BY <1>1
    <2>2. EndOfRun(r, c)
        <3>1. ASSUME NEW i \in 1..Len(r), r[i] = -1 PROVE i = Len(r) /\ c = None
            <4>1. i + 1 = Len(q) /\ c = None
                BY <1>3, <1>8, <3>1 DEF EndOfRun
            <4> QED BY <1>1, <4>1
        <3> QED BY <3>1 DEF EndOfRun
    <2> QED BY <1>6, <1>8, <2>1, <2>2 DEF EndOfRun
<1>9. ASSUME WithoutGap(q, c)
      PROVE  WithoutGap(r, c) /\ (q[1] # -1 => Upcoming(r, c) \in {-1, q[1] + 1})
    <2>1. WithoutGap(r, c)
        BY <1>3, <1>4, <1>5, <1>9 DEF WithoutGap
    <2> QED BY <1>1, <1>2, <1>6, <1>9, <2>1 DEF WithoutGap
<1> QED BY <1>7, <1>8, <1>9

(* Products of a number of periods.                                        *)
LEMMA Products ==
    ASSUME NEW a \in Int, NEW b \in Int, NEW c \in Nat
    PROVE  a * c \in Int /\ (a + 1) * c = a * c + c /\ (a <= b => a * c <= b * c)
OBVIOUS

(* The window of the rate is neither empty nor longer than it may be.      *)
LEMMA WindowFacts ==
    ASSUME NEW m \in MonitoredTopics, m.expected # None, m.initial \in 0..(EndAfter - 1), m.initial < m.expected
    PROVE  /\ ExpectedValues(m) # {} /\ ExpectedValues(m) \subseteq m.initial..(m.expected - 1)
           /\ \A v \in ExpectedValues(m) : v \in Nat /\ m.expected - v <= WindowSize
           /\ Cardinality(ExpectedValues(m)) \in Nat
           /\ Cardinality(ExpectedValues(m) \cap m.received) \in Nat
           /\ Cardinality(ExpectedValues(m) \cap m.received) # 0 => ExpectedValues(m) \cap m.received # {}
<1> DEFINE first == Max({m.initial, m.expected - WindowSize})
<1>1. m.initial \in Nat /\ m.expected \in Nat
    BY ConstantFacts DEF MonitoredTopics
<1>2. first \in Nat /\ first >= m.initial /\ first < m.expected /\ m.expected - first <= WindowSize
    BY <1>1, ExtremesOfTwo, ConstantFacts
<1>3. ExpectedValues(m) = first..(m.expected - 1)
    BY DEF ExpectedValues
<1> HIDE DEF first
<1>4. IsFiniteSet(ExpectedValues(m)) /\ IsFiniteSet(ExpectedValues(m) \cap m.received)
    <2>1. first \in Int /\ m.expected - 1 \in Int
        BY <1>1, <1>2
    <2>2. IsFiniteSet(first..(m.expected - 1))
        BY <2>1, FS_Interval
    <2>3. IsFiniteSet(ExpectedValues(m))
        BY <1>3, <2>2
    <2> QED BY <2>3, FS_Intersection
<1>5. /\ Cardinality(ExpectedValues(m)) \in Nat /\ Cardinality(ExpectedValues(m) \cap m.received) \in Nat
      /\ Cardinality(ExpectedValues(m) \cap m.received) # 0 => ExpectedValues(m) \cap m.received # {}
    BY <1>4, FS_CardinalityType, FS_EmptySet
<1>6. first \in ExpectedValues(m)
    BY <1>1, <1>2, <1>3
<1>7. ExpectedValues(m) \subseteq m.initial..(m.expected - 1)
    BY <1>1, <1>2, <1>3
<1>8. \A v \in ExpectedValues(m) : v \in Nat /\ m.expected - v <= WindowSize
    BY <1>1, <1>2, <1>3, ConstantFacts
<1> QED BY <1>5, <1>6, <1>7, <1>8

(* How long a rate can be on display is a number.                          *)
LEMMA RoundFacts ==
    /\ RateRunsOut \in Nat
    /\ MonitorTypes => Round \in Nat
    /\ MonitorTypes' => Round' \in Nat
<1>1. WindowSize * ExpectedPeriod \in Nat
    BY ConstantFacts
<1>2. RateRunsOut \in Nat
    BY <1>1, ConstantFacts DEF RateRunsOut
<1> QED BY <1>2, ConstantFacts DEF Round, MonitorTypes

(* The next value is a number (None is one).                               *)
LEMMA UpcomingIsInt ==
    ASSUME NEW q \in Seq(Sendable), NEW c \in Cycles
    PROVE  Upcoming(q, c) \in Int
<1>1. c \in Int /\ Sendable \subseteq Int
    BY ConstantFacts DEF Cycles, Sendable
<1>2. q # <<>> => q[1] \in Sendable
    BY ElementOfSeq
<1> QED BY <1>1, <1>2 DEF Upcoming

(* A topic of which nothing changes, while the main thread goes on.        *)
LEMMA SameTopic ==
    ASSUME MonitorTypes, NEW t \in Names, TopicInv(t),
           UNCHANGED <<starts[t], cycle[t], inFlight[t], topic[t], latency[t], period[t], shown[t], rate[t], sinceCycle>>,
           t \in monitored => t \in monitored', t \in spotless' => t \in spotless,
           main' # "output" => main # "output", Round <= Round'
    PROVE  TopicInv(t)'
<1>1. Ascending(inFlight[t], cycle[t])' /\ (t \notin monitored => Untouched(t))'
    BY DEF TopicInv, Untouched
<1>2. Stated(t)'
    BY DEF TopicInv, Stated
<1>3. Counted(topic[t], Upcoming(inFlight[t], cycle[t]))' /\ Timed(topic[t], latency[t], period[t])'
    BY DEF TopicInv
<1>4. (starts[t] <= 1 => FirstRun(t))'
    <2> SUFFICES ASSUME starts[t] <= 1 PROVE FirstRun(t)'
        OBVIOUS
    <2>1. FirstRun(t)
        BY DEF TopicInv
    <2>2. topic[t].age \in Nat /\ sinceCycle \in Nat /\ RateRunsOut \in Nat /\ Round \in Nat /\ Round' \in Nat
        <3>1. topic[t].age \in Nat
            BY ConstantFacts DEF MonitorTypes, MonitoredTopics
        <3>2. sinceCycle \in Nat
            BY ConstantFacts DEF MonitorTypes
        <3>3. Round' \in Nat
            BY <3>2, ConstantFacts DEF Round
        <3> QED BY <3>1, <3>2, <3>3, RoundFacts
    <2> QED BY <2>1, <2>2 DEF FirstRun, RateRunsOut
<1>5. (t \in spotless => SpotlessRun(t))'
    BY DEF TopicInv, SpotlessRun
<1>6. /\ (starts[t] = 0 => topic[t].received = {} /\ cycle[t] = None /\ inFlight[t] = <<>> /\ t \notin spotless)'
      /\ (rate[t].spotless => rate[t].count = rate[t].of)'
    BY DEF TopicInv
<1> QED BY <1>1, <1>2, <1>3, <1>4, <1>5, <1>6 DEF TopicInv

(* A topic of which nothing changes, while another one is served.          *)
LEMMA OthersStay ==
    ASSUME MonitorInv, NEW t \in Names,
           UNCHANGED <<starts[t], cycle[t], inFlight[t], topic[t], latency[t], period[t], shown[t], rate[t], sinceCycle, main>>,
           t \in monitored => t \in monitored', t \in spotless' => t \in spotless
    PROVE  TopicInv(t)'
<1>1. Round = Round' /\ Round <= Round
    BY ConstantFacts DEF Round, MonitorInv, MonitorTypes
<1> QED BY <1>1, SameTopic DEF MonitorInv

(* A run starts: its values begin at 0, and nothing of it is counted yet.  *)
LEMMA StartPublisherStep ==
    ASSUME MonitorInv, NEW u \in Names, StartPublisher(u) PROVE MonitorInv'
<1> USE DEF monitorTimers, display
<1>1. MonitorTypes'
    <2>1. cycle' \in [Names -> Cycles] /\ starts' \in [Names -> Nat]
        BY ConstantFacts DEF MonitorInv, MonitorTypes, StartPublisher, Cycles
    <2> QED BY <2>1 DEF MonitorInv, MonitorTypes, StartPublisher
<1>2. Loop'
    BY DEF MonitorInv, Loop, StartPublisher
<1>3. ASSUME NEW t \in Names, t # u PROVE TopicInv(t)'
    <2>1. /\ UNCHANGED <<starts[t], cycle[t]>> /\ UNCHANGED <<inFlight, topic, latency, period, shown, rate, sinceCycle, main, monitored>>
          /\ t \in spotless' => t \in spotless
        BY <1>3 DEF MonitorInv, MonitorTypes, StartPublisher
    <2> QED BY <2>1, OthersStay
<1>4. TopicInv(u)'
    <2>1. /\ cycle[u] = None /\ cycle'[u] = 0 /\ starts'[u] = starts[u] + 1 /\ starts[u] \in Nat
          /\ UNCHANGED <<inFlight, topic, latency, period, shown, rate, sinceCycle, main, monitored>>
          /\ u \in spotless' => topic[u].status = "Offline" /\ inFlight[u] = <<>>
        BY DEF MonitorInv, MonitorTypes, StartPublisher
    <2>2. TopicInv(u)
        BY DEF MonitorInv
    <2>3. Ascending(inFlight[u], 0)
        <3>1. Ascending(inFlight[u], None) /\ inFlight[u] \in Seq(Sendable)
            BY <2>1, <2>2 DEF TopicInv, MonitorInv, MonitorTypes
        <3>2. ASSUME inFlight[u] # <<>> PROVE inFlight[u][Len(inFlight[u])] = -1
            <4>1. Len(inFlight[u]) \in 1..Len(inFlight[u])
                BY <3>1, <3>2
            <4>2. inFlight[u][Len(inFlight[u])] \in Sendable
                BY <3>1, <4>1, ElementOfSeq
            <4>3. inFlight[u][Len(inFlight[u])] = -1 \/ inFlight[u][Len(inFlight[u])] < None
                BY <3>1, <3>2 DEF Ascending
            <4> QED BY <4>2, <4>3, ConstantFacts, SMTT(30) DEF Sendable
        <3> QED BY <3>1, <3>2 DEF Ascending
    <2>4. (u \notin monitored => Untouched(u))' /\ Stated(u)' /\ Timed(topic[u], latency[u], period[u])'
          /\ (rate[u].spotless => rate[u].count = rate[u].of)'
        BY <2>1, <2>2 DEF TopicInv, Untouched, Stated
    <2>5. Counted(topic[u], Upcoming(inFlight[u], cycle[u]))'
        BY <2>1, <2>2 DEF TopicInv, Counted, Upcoming
    <2>6. (starts[u] <= 1 => FirstRun(u))'
        <3> SUFFICES ASSUME starts'[u] <= 1 PROVE FirstRun(u)'
            OBVIOUS
        <3>1. starts[u] = 0
            BY <2>1
        <3>2. FirstRun(u) /\ topic[u].received = {} /\ inFlight[u] = <<>>
            BY <2>2, <3>1 DEF TopicInv
        <3>3. EndOfRun(<<>>, 0)
            BY DEF EndOfRun
        <3> QED BY <2>1, <3>2, <3>3 DEF FirstRun, SeenOnce, RateRunsOut, Round
    <2>7. (u \in spotless => SpotlessRun(u))'
        <3> SUFFICES ASSUME u \in spotless' PROVE SpotlessRun(u)'
            OBVIOUS
        <3>1. inFlight[u] = <<>> /\ topic[u].expected = None
            BY <2>1, <2>2 DEF TopicInv, Stated
        <3>2. EndOfRun(<<>>, 0) /\ WithoutGap(<<>>, 0)
            BY DEF EndOfRun, WithoutGap
        <3> QED BY <2>1, <3>1, <3>2 DEF SpotlessRun, MissedNothing
    <2> QED BY <2>1, <2>3, <2>4, <2>5, <2>6, <2>7 DEF TopicInv
<1> QED BY <1>1, <1>2, <1>3, <1>4 DEF MonitorInv

(* A value is lost: those in flight stay in order.                         *)
LEMMA QueueSkips ==
    ASSUME NEW q \in Seq(Sendable), NEW c \in 0..EndAfter
    PROVE  (Ascending(q, c) => Ascending(q, c + 1)) /\ (EndOfRun(q, c) => EndOfRun(q, c + 1))
<1>1. ASSUME Ascending(q, c) PROVE Ascending(q, c + 1)
    <2>1. ASSUME q # <<>> PROVE q[Len(q)] = -1 \/ q[Len(q)] < c + 1
        <3>1. q[Len(q)] \in Sendable
            <4>1. Len(q) \in 1..Len(q)
                BY <2>1
            <4> QED BY <4>1, ElementOfSeq
        <3>2. q[Len(q)] = -1 \/ q[Len(q)] < c
            BY <1>1, <2>1 DEF Ascending
        <3> QED BY <3>1, <3>2, ConstantFacts DEF Sendable
    <2> QED BY <1>1, <2>1 DEF Ascending
<1>2. ASSUME EndOfRun(q, c) PROVE EndOfRun(q, c + 1)
    <2>1. c # None
        BY ConstantFacts
    <2> QED BY <1>2, <2>1 DEF EndOfRun
<1> QED BY <1>1, <1>2

(* A value arrives at the end of the queue.                                *)
LEMMA QueueSent ==
    ASSUME NEW q \in Seq(Sendable), NEW c \in 0..EndAfter, NEW e \in {c, -1}, e \in Sendable, NEW d \in Int
    PROVE  /\ Append(q, e) \in Seq(Sendable) /\ Append(q, e) # <<>>
           /\ Upcoming(Append(q, e), d) = IF q = <<>> THEN e ELSE q[1]
           /\ Ascending(q, c) /\ (e = c => d = c + 1) => Ascending(Append(q, e), d)
           /\ EndOfRun(q, c) /\ (e = -1 => d = None) => EndOfRun(Append(q, e), d)
           /\ EndOfRun(q, c) /\ WithoutGap(q, c) /\ (e = c => d = c + 1) => WithoutGap(Append(q, e), d)
<1> DEFINE r == Append(q, e)
<1>1. Len(q) \in Nat /\ (q = <<>> <=> Len(q) = 0) /\ Sendable \subseteq Int
    BY ConstantFacts DEF Sendable
<1>2. /\ r \in Seq(Sendable) /\ Len(r) = Len(q) + 1 /\ r[Len(q) + 1] = e
      /\ \A i \in 1..Len(q) : r[i] = q[i]
    <2>1. r \in Seq(Sendable) /\ Len(r) = Len(q) + 1 /\ r[Len(q) + 1] = e /\ \A i \in 1..Len(q) : r[i] = q[i]
        BY PushFacts
    <2> QED BY <2>1
<1>3. r # <<>>
    BY <1>1, <1>2
<1> HIDE DEF r
<1>4. Upcoming(r, d) = IF q = <<>> THEN e ELSE q[1]
    <2>1. q # <<>> => 1 \in 1..Len(q)
        BY <1>1
    <2> QED BY <1>1, <1>2, <1>3, <2>1 DEF Upcoming
<1>5. /\ Ascending(q, c) /\ (e = c => d = c + 1) => Ascending(r, d)
      /\ EndOfRun(q, c) /\ (e = -1 => d = None) => EndOfRun(r, d)
      /\ EndOfRun(q, c) /\ WithoutGap(q, c) /\ (e = c => d = c + 1) => WithoutGap(r, d)
    BY <1>2, QueueGrows
<1> QED BY <1>2, <1>3, <1>4, <1>5 DEF r

(* A value is sent: it arrives in order, or the run is no longer spotless. *)
LEMMA PublishMessageStep ==
    ASSUME MonitorInv, NEW u \in Names, NEW arrives \in BOOLEAN, PublishMessage(u, arrives) PROVE MonitorInv'
<1> USE DEF monitorTimers, display
<1> DEFINE q == inFlight[u]
           c == cycle[u]
           m == topic[u]
<1>1. /\ c \in 0..EndAfter /\ c \in Sendable /\ c # None /\ q \in Seq(Sendable) /\ m \in MonitoredTopics
      /\ cycle'[u] = c + 1 /\ inFlight'[u] = (IF arrives THEN Append(q, c) ELSE q) /\ (arrives => u \in monitored)
      /\ UNCHANGED <<starts, topic, latency, period, shown, rate, sinceCycle, main, monitored>>
      /\ u \in spotless' => u \in spotless /\ (arrives \/ (m.status = "Offline" /\ q = <<>>))
    BY ConstantFacts DEF MonitorInv, MonitorTypes, PublishMessage, Sent, Cycles, Sendable
<1>2. MonitorTypes'
    <2>1. c + 1 \in Cycles /\ inFlight'[u] \in Seq(Sendable)
        BY <1>1, ConstantFacts DEF PublishMessage, Cycles
    <2> QED BY <1>1, <2>1 DEF MonitorInv, MonitorTypes, PublishMessage, Sent
<1>3. Loop'
    BY DEF MonitorInv, Loop, PublishMessage
<1>4. ASSUME NEW t \in Names, t # u PROVE TopicInv(t)'
    <2>1. UNCHANGED <<inFlight[t], cycle[t]>> /\ (t \in spotless' => t \in spotless)
        BY <1>4 DEF MonitorInv, MonitorTypes, PublishMessage, Sent
    <2> QED BY <1>1, <2>1, OthersStay
<1>5. TopicInv(u)'
    <2>1. TopicInv(u)
        BY DEF MonitorInv
    <2> DEFINE next == Upcoming(q, c)
               r == inFlight'[u]
    <2>2. c + 1 \in Int /\ c + 1 # None /\ c # -1
        BY <1>1, ConstantFacts
    <2>3. next = IF q = <<>> THEN c ELSE q[1]
        BY DEF Upcoming
    <2>4. /\ arrives => /\ Upcoming(r, c + 1) = next
                        /\ Ascending(q, c) => Ascending(r, c + 1)
                        /\ EndOfRun(q, c) => EndOfRun(r, c + 1)
                        /\ EndOfRun(q, c) /\ WithoutGap(q, c) => WithoutGap(r, c + 1)
        <3> HIDE DEF c, q, next
        <3> QED BY <1>1, <2>2, <2>3, QueueSent
    <2>5. ~arrives => Upcoming(r, c + 1) = IF q = <<>> THEN c + 1 ELSE q[1]
        BY <1>1 DEF Upcoming
    <2>6. ~arrives => r = q /\ (Ascending(q, c) => Ascending(q, c + 1)) /\ (EndOfRun(q, c) => EndOfRun(q, c + 1))
        BY <1>1, QueueSkips
    <2>7. Ascending(r, c + 1) /\ (EndOfRun(q, c) => EndOfRun(r, c + 1))
        BY <2>1, <2>4, <2>6 DEF TopicInv
    <2>8. /\ Ascending(r, c + 1) /\ Stated(u)' /\ Timed(topic[u], latency[u], period[u])'
          /\ (rate[u].spotless => rate[u].count = rate[u].of)' /\ (u \notin monitored => Untouched(u))'
        BY <1>1, <2>1, <2>7 DEF TopicInv, Stated, Untouched
    <2>9. Counted(m, Upcoming(r, c + 1))
        <3>1. Counted(m, next)
            BY <2>1 DEF TopicInv
        <3>2. Upcoming(r, c + 1) = next \/ (next = c /\ Upcoming(r, c + 1) = c + 1)
            BY <2>3, <2>4, <2>5
        <3> HIDE DEF m, next, r, c
        <3> QED BY <1>1, <2>2, <3>1, <3>2, ConstantFacts, SMTT(30) DEF Counted
    <2>10. starts[u] # 0
        BY <1>1, <2>1 DEF TopicInv
    <2>11. starts[u] <= 1 => FirstRun(u)'
        <3> SUFFICES ASSUME starts[u] <= 1 PROVE FirstRun(u)'
            OBVIOUS
        <3>1. EndOfRun(q, c) /\ SeenOnce(m, next, period[u]) /\ (rate[u].count # 0 => m.age <= RateRunsOut + Round)
            BY <2>1 DEF TopicInv, FirstRun
        <3>2. SeenOnce(m, Upcoming(r, c + 1), period[u])
            <4>1. \A v \in m.received : v \in Nat
                BY <1>1 DEF MonitoredTopics
            <4> QED BY <1>1, <2>3, <2>4, <2>5, <3>1, <4>1, ConstantFacts DEF SeenOnce
        <3> QED BY <1>1, <2>7, <3>1, <3>2 DEF FirstRun, RateRunsOut, Round
    <2>12. u \in spotless' => SpotlessRun(u)'
        <3> SUFFICES ASSUME u \in spotless' PROVE SpotlessRun(u)'
            OBVIOUS
        <3>1. EndOfRun(q, c) /\ WithoutGap(q, c) /\ MissedNothing(m, next, period[u])
            BY <1>1, <2>1 DEF TopicInv, SpotlessRun
        <3>2. CASE arrives
            BY <1>1, <2>4, <2>7, <3>1, <3>2 DEF SpotlessRun, MissedNothing
        <3>3. CASE ~arrives
            <4>1. q = <<>> /\ m.expected = None /\ r = <<>>
                BY <1>1, <2>1, <3>3 DEF TopicInv, Stated
            <4>2. EndOfRun(<<>>, c + 1) /\ WithoutGap(<<>>, c + 1)
                BY DEF EndOfRun, WithoutGap
            <4> QED BY <1>1, <4>1, <4>2 DEF SpotlessRun, MissedNothing
        <3> QED BY <3>2, <3>3
    <2> QED BY <1>1, <2>8, <2>9, <2>10, <2>11, <2>12 DEF TopicInv
<1> QED BY <1>2, <1>3, <1>4, <1>5 DEF MonitorInv

(* A run ends: the last message reaches a topic that is monitored.         *)
LEMMA GoodbyeStep ==
    ASSUME ~LosesGoodbye, MonitorInv, NEW u \in Names, NEW arrives \in BOOLEAN, Goodbye(u, arrives) PROVE MonitorInv'
<1> USE DEF monitorTimers, display
<1> DEFINE q == inFlight[u]
           c == cycle[u]
           m == topic[u]
<1>1. /\ c \in 0..EndAfter /\ -1 \in Sendable /\ c # None /\ q \in Seq(Sendable) /\ m \in MonitoredTopics
      /\ cycle'[u] = None /\ inFlight'[u] = (IF arrives THEN Append(q, -1) ELSE q) /\ (~arrives => u \notin monitored)
      /\ UNCHANGED <<starts, topic, latency, period, shown, rate, sinceCycle, main, monitored, spotless>>
    BY ConstantFacts DEF MonitorInv, MonitorTypes, Goodbye, Sent, Cycles, Sendable
<1>2. MonitorTypes'
    <2>1. None \in Cycles /\ inFlight'[u] \in Seq(Sendable)
        <3>1. Append(q, -1) \in Seq(Sendable)
            BY <1>1
        <3> QED BY <1>1, <3>1 DEF Cycles
    <2> QED BY <1>1, <2>1 DEF MonitorInv, MonitorTypes, Goodbye, Sent
<1>3. Loop'
    BY DEF MonitorInv, Loop, Goodbye
<1>4. ASSUME NEW t \in Names, t # u PROVE TopicInv(t)'
    <2>1. UNCHANGED <<inFlight[t], cycle[t]>>
        BY <1>4 DEF MonitorInv, MonitorTypes, Goodbye, Sent
    <2> QED BY <1>1, <2>1, OthersStay
<1>5. TopicInv(u)'
    <2>1. TopicInv(u)
        BY DEF MonitorInv
    <2> DEFINE next == Upcoming(q, c)
               r == inFlight'[u]
    <2>2. None \in Int /\ c # -1
        BY <1>1, ConstantFacts
    <2>3. next = IF q = <<>> THEN c ELSE q[1]
        BY DEF Upcoming
    <2>4. arrives => /\ Upcoming(r, None) = IF q = <<>> THEN -1 ELSE q[1]
                     /\ Ascending(q, c) => Ascending(r, None)
                     /\ EndOfRun(q, c) => EndOfRun(r, None)
                     /\ EndOfRun(q, c) /\ WithoutGap(q, c) => WithoutGap(r, None)
        <3> SUFFICES ASSUME arrives
                     PROVE  /\ Upcoming(r, None) = IF q = <<>> THEN -1 ELSE q[1]
                            /\ Ascending(q, c) => Ascending(r, None)
                            /\ EndOfRun(q, c) => EndOfRun(r, None)
                            /\ EndOfRun(q, c) /\ WithoutGap(q, c) => WithoutGap(r, None)
            OBVIOUS
        <3>1. r = Append(q, -1)
            BY <1>1
        <3>2. q \in Seq(Sendable) /\ c \in 0..EndAfter /\ -1 \in Sendable /\ -1 \in {c, -1}
            BY <1>1
        <3> HIDE DEF c, q, next, r
        <3>3. -1 # c
            BY <2>2
        <3> QED BY <2>2, <3>1, <3>2, <3>3, QueueSent
    <2>5. ~arrives => /\ r = <<>> /\ m.expected = None /\ m.received = {} /\ Upcoming(r, None) = None
                      /\ rate[u].count = 0
        BY <1>1, <2>1 DEF TopicInv, Untouched, Upcoming, NoRate
    <2>6. Ascending(<<>>, None) /\ EndOfRun(<<>>, None) /\ WithoutGap(<<>>, None)
        BY DEF Ascending, EndOfRun, WithoutGap
    <2>7. Ascending(r, None)
        BY <2>1, <2>4, <2>5, <2>6 DEF TopicInv
    <2>8. /\ Stated(u)' /\ Timed(topic[u], latency[u], period[u])'
          /\ (rate[u].spotless => rate[u].count = rate[u].of)' /\ (u \notin monitored => Untouched(u))'
        <3>1. u \notin monitored => r = <<>> /\ Untouched(u)
            <4>1. u \notin monitored => ~arrives
                BY DEF Goodbye
            <4> QED BY <2>1, <2>5, <4>1 DEF TopicInv
        <3> QED BY <1>1, <2>1, <3>1 DEF TopicInv, Stated, Untouched
    <2>9. Counted(m, Upcoming(r, None))
        <3>1. Counted(m, next)
            BY <2>1 DEF TopicInv
        <3>2. Upcoming(r, None) \in {next, -1} \/ m.expected = None
            BY <2>3, <2>4, <2>5
        <3> HIDE DEF m, next, r, c
        <3> QED BY <3>1, <3>2, ConstantFacts DEF Counted
    <2>10. starts[u] # 0
        BY <1>1, <2>1 DEF TopicInv
    <2>11. starts[u] <= 1 => FirstRun(u)'
        <3> SUFFICES ASSUME starts[u] <= 1 PROVE FirstRun(u)'
            OBVIOUS
        <3>1. EndOfRun(q, c) /\ SeenOnce(m, next, period[u]) /\ (rate[u].count # 0 => m.age <= RateRunsOut + Round)
            BY <2>1 DEF TopicInv, FirstRun
        <3>2. SeenOnce(m, Upcoming(r, None), period[u])
            <4>1. Upcoming(r, None) \in {next, -1} \/ m.received = {}
                BY <2>3, <2>4, <2>5
            <4> HIDE DEF m, next, r, c
            <4> QED BY <3>1, <4>1, ConstantFacts DEF SeenOnce
        <3>3. EndOfRun(r, None)
            BY <2>4, <2>5, <2>6, <3>1
        <3> QED BY <1>1, <3>1, <3>2, <3>3 DEF FirstRun, RateRunsOut, Round
    <2>12. u \in spotless => SpotlessRun(u)'
        <3> SUFFICES ASSUME u \in spotless PROVE SpotlessRun(u)'
            OBVIOUS
        <3>1. EndOfRun(q, c) /\ WithoutGap(q, c) /\ MissedNothing(m, next, period[u])
            BY <1>1, <2>1 DEF TopicInv, SpotlessRun
        <3>2. MissedNothing(m, Upcoming(r, None), period[u])
            <4>1. Upcoming(r, None) \in {next, -1} \/ m.expected = None
                BY <2>3, <2>4, <2>5
            <4> HIDE DEF m, next, r, c
            <4> QED BY <3>1, <4>1 DEF MissedNothing
        <3> QED BY <1>1, <2>4, <2>5, <2>6, <3>1, <3>2 DEF SpotlessRun
    <2> QED BY <1>1, <2>7, <2>8, <2>9, <2>10, <2>11, <2>12 DEF TopicInv
<1> QED BY <1>2, <1>3, <1>4, <1>5 DEF MonitorInv

(* A topic is monitored: nothing of it has been received.                  *)
LEMMA AddMonitoredTopicStep ==
    ASSUME MonitorInv, NEW u \in Names, AddMonitoredTopic(u) PROVE MonitorInv'
<1> USE DEF monitorTimers, display, publishers
<1>1. /\ latency' = [latency EXCEPT ![u] = None] /\ period' = [period EXCEPT ![u] = None]
      /\ UNCHANGED <<starts, cycle, inFlight, topic, shown, rate, sinceCycle, main, cause, spotless>>
      /\ u \notin monitored /\ monitored' = monitored \cup {u}
    BY DEF AddMonitoredTopic, Subscribed
<1>2. MonitorTypes' /\ Loop'
    BY <1>1 DEF MonitorInv, MonitorTypes, Loop
<1>3. ASSUME NEW t \in Names PROVE TopicInv(t)'
    <2>1. UNCHANGED <<latency[t], period[t]>>
        BY <1>1 DEF MonitorInv, MonitorTypes, TopicInv, Untouched
    <2> QED BY <1>1, <2>1, OthersStay
<1> QED BY <1>2, <1>3 DEF MonitorInv

(* A message without a number ends the monitor.                            *)
LEMMA ReceiveUncountedStep ==
    ASSUME MonitorInv, NEW u \in Names, ReceiveUncounted(u) PROVE MonitorInv'
<1> USE DEF monitorTimers, display, publishers
<1>1. /\ main = "wait" /\ main' = "ended" /\ cause' = "ValueError"
      /\ UNCHANGED <<starts, cycle, inFlight, topic, latency, period, shown, rate, sinceCycle, monitored, spotless>>
    BY DEF ReceiveUncounted
<1>2. MonitorTypes' /\ Loop'
    BY <1>1 DEF MonitorInv, MonitorTypes, Loop
<1>3. ASSUME NEW t \in Names PROVE TopicInv(t)'
    <2>1. Round <= Round'
        BY <1>1, ConstantFacts DEF Round, MonitorInv, MonitorTypes
    <2> QED BY <1>1, <2>1, SameTopic DEF MonitorInv
<1> QED BY <1>2, <1>3 DEF MonitorInv

(* Drawing changes nothing of a topic.                                     *)
LEMMA UpdateDisplayStep ==
    ASSUME MonitorInv, UpdateDisplay PROVE MonitorInv'
<1> USE DEF monitorTimers, publishers
<1>1. /\ main = "draw" /\ main' \in {"wait", "ended"} /\ cause' \in {cause, "draw"}
      /\ UNCHANGED <<starts, cycle, inFlight, topic, latency, period, shown, rate, sinceCycle, monitored, spotless>>
    BY DEF UpdateDisplay
<1>2. MonitorTypes' /\ Loop'
    BY <1>1 DEF MonitorInv, MonitorTypes, Loop
<1>3. ASSUME NEW t \in Names PROVE TopicInv(t)'
    <2>1. Round <= Round'
        BY <1>1, ConstantFacts DEF Round, MonitorInv, MonitorTypes
    <2> QED BY <1>1, <2>1, SameTopic DEF MonitorInv
<1> QED BY <1>2, <1>3 DEF MonitorInv

(* A value is received: it is counted from the first one of its run on.    *)
LEMMA TopicDataCallbackStep ==
    ASSUME MonitorInv, NEW u \in Names, TopicDataCallback(u) PROVE MonitorInv'
<1> USE DEF display
<1> DEFINE q == inFlight[u]
           c == cycle[u]
           m == topic[u]
           v == Head(q)
           M == topic'[u]
           r == Tail(q)
           first == m.expected = None
<1>1. /\ c \in Cycles /\ q \in Seq(Sendable) /\ m \in MonitoredTopics /\ q # <<>>
      /\ inFlight'[u] = r
      /\ \A t \in Names : t # u => UNCHANGED <<inFlight[t], topic[t], latency[t], period[t]>>
      /\ period'[u] = None /\ latency'[u] = (IF first \/ v # -1 THEN AllowedLatency ELSE latency[u])
      /\ UNCHANGED <<starts, cycle, monitored, main, cause, sinceCycle, shown, rate, spotless>>
    BY DEF MonitorInv, MonitorTypes, TopicDataCallback
<1>2. /\ M = [expected |-> ExpectedAfter(v), initial  |-> IF first THEN v ELSE m.initial,
              received |-> IF v = -1 THEN m.received ELSE m.received \cup {v},
              status |-> IF v = -1 THEN "Offline" ELSE "Alive",
              changed |-> FlagAfter(m, IF v = -1 THEN "Offline" ELSE "Alive"), age |-> 0]
    BY DEF MonitorInv, MonitorTypes, TopicDataCallback
<1>3. v \in Sendable /\ v = q[1] /\ r \in Seq(Sendable) /\ Upcoming(q, c) = v
    BY <1>1 DEF Upcoming
<1>4. /\ Ascending(q, c) => Ascending(r, c) /\ (v # -1 => Upcoming(r, c) = -1 \/ Upcoming(r, c) > v)
      /\ EndOfRun(q, c) => EndOfRun(r, c) /\ (v = -1 => Upcoming(r, c) = None)
      /\ WithoutGap(q, c) => WithoutGap(r, c) /\ (v # -1 => Upcoming(r, c) \in {-1, v + 1})
    <2>1. Len(r) = Len(q) - 1 /\ \A i \in 1..Len(r) : r[i] = q[i + 1]
        BY <1>1
    <2>2. q \in Seq(Sendable) /\ q # <<>> /\ c \in Cycles /\ r \in Seq(Sendable) /\ v = q[1]
        BY <1>1, <1>3
    <2> HIDE DEF q, r, c, v
    <2>3. /\ Ascending(q, c) => Ascending(r, c) /\ (q[1] # -1 => Upcoming(r, c) = -1 \/ Upcoming(r, c) > q[1])
          /\ EndOfRun(q, c) => EndOfRun(r, c) /\ (q[1] = -1 => Upcoming(r, c) = None)
          /\ WithoutGap(q, c) => WithoutGap(r, c) /\ (q[1] # -1 => Upcoming(r, c) \in {-1, q[1] + 1})
        BY <2>1, <2>2, QueueShrinks
    <2> QED BY <2>2, <2>3
<1>10. v = -1 \/ (v \in 0..(EndAfter - 1) /\ v \in Nat /\ v # -1 /\ v # None /\ v + 1 # None)
    BY <1>3, ConstantFacts DEF Sendable
<1>5. M \in MonitoredTopics
    <2>1. ExpectedAfter(v) \in (1..MaxExpected) \cup {None}
        BY <1>3, ConstantFacts DEF ExpectedAfter, Sendable
    <2>2. /\ (IF first THEN v ELSE m.initial) \in Sendable \cup {None}
          /\ (IF v = -1 THEN m.received ELSE m.received \cup {v}) \in SUBSET (0..(EndAfter - 1))
        BY <1>1, <1>3, ConstantFacts, SMTT(30) DEF MonitoredTopics, Sendable
    <2>3. FlagAfter(m, IF v = -1 THEN "Offline" ELSE "Alive") \in BOOLEAN
        BY <1>1 DEF FlagAfter, MonitoredTopics
    <2>4. 0 \in 0..MaxAge
        BY ConstantFacts
    <2> HIDE DEF m, v, first, M
    <2> QED BY <1>2, <2>1, <2>2, <2>3, <2>4 DEF MonitoredTopics
<1>6. MonitorTypes'
    <2>1. inFlight' \in [Names -> Seq(Sendable)]
        <3>1. inFlight' = [inFlight EXCEPT ![u] = r] /\ inFlight \in [Names -> Seq(Sendable)]
            BY DEF TopicDataCallback, MonitorInv, MonitorTypes
        <3> HIDE DEF r
        <3> QED BY <1>3, <3>1
    <2>3. topic' \in [Names -> MonitoredTopics]
        <3>1. topic' = [topic EXCEPT ![u] = M] /\ topic \in [Names -> MonitoredTopics]
            BY DEF TopicDataCallback, MonitorInv, MonitorTypes
        <3> HIDE DEF M
        <3> QED BY <1>5, <3>1
    <2>2. period' \in [Names -> 0..ExpectedPeriod \cup {None}]
        BY DEF MonitorInv, MonitorTypes, TopicDataCallback
    <2>4. latency' \in [Names -> 0..AllowedLatency \cup {None}]
        <3>1. /\ latency' = [latency EXCEPT ![u] = IF first \/ v # -1 THEN AllowedLatency ELSE latency[u]]
              /\ latency \in [Names -> 0..AllowedLatency \cup {None}]
            BY DEF MonitorInv, MonitorTypes, TopicDataCallback
        <3>2. AllowedLatency \in 0..AllowedLatency
            BY ConstantFacts
        <3> HIDE DEF v, first
        <3> QED BY <3>1, <3>2
    <2> QED BY <1>1, <2>1, <2>2, <2>3, <2>4 DEF MonitorInv, MonitorTypes
<1>7. Loop'
    BY <1>1 DEF MonitorInv, Loop
<1>8. ASSUME NEW t \in Names, t # u PROVE TopicInv(t)'
    BY <1>1, <1>8, OthersStay
<1>9. TopicInv(u)'
    <2>1. TopicInv(u)
        BY DEF MonitorInv
    <2> DEFINE next == Upcoming(r, c)
    <2>2. Ascending(r, c) /\ (v # -1 => next = -1 \/ next > v)
        BY <1>4, <2>1 DEF TopicInv
    <2>3. /\ M.expected = (IF v = -1 THEN None ELSE v + 1) /\ M.initial = (IF first THEN v ELSE m.initial)
          /\ M.received = (IF v = -1 THEN m.received ELSE m.received \cup {v})
          /\ M.status = (IF v = -1 THEN "Offline" ELSE "Alive")
          /\ M.changed = (m.changed \/ M.status # m.status) /\ M.age = 0
        BY <1>2 DEF ExpectedAfter, FlagAfter
    <2>4. (u \notin monitored => Untouched(u))'
        BY <1>1, <2>1 DEF TopicInv, Untouched
    <2>5. Stated(u)'
        <3>2. 0 <= StaleTime + sinceCycle
            BY ConstantFacts DEF MonitorInv, MonitorTypes
        <3>3. main # "output" => shown[u] = m.status \/ m.changed
            BY <2>1 DEF TopicInv, Stated
        <3> HIDE DEF M, m, v
        <3> QED BY <1>1, <1>10, <2>3, <3>2, <3>3 DEF Stated, M
    <2>6. Counted(M, next)
        <3>1. Counted(m, v)
            BY <1>3, <2>1 DEF TopicInv
        <3> HIDE DEF M, m, v, next
        <3>2. M.expected # None => v \in 0..(EndAfter - 1) /\ v # -1 /\ M.expected = v + 1 /\ v \in Nat
            BY <1>10, <2>3
        <3>3. m.expected # None => M.initial = m.initial
            BY <2>3 DEF first
        <3>4. m.expected = None => M.initial = v
            BY <2>3 DEF first
        <3>5. v # -1 => next # None
            BY <1>10, <2>2, ConstantFacts
        <3>6. ASSUME M.expected # None, m.expected # None PROVE M.initial \in 0..(EndAfter - 1) /\ M.initial < v
            BY <3>1, <3>2, <3>3, <3>6 DEF Counted
        <3>7. M.expected # None => M.initial \in 0..(EndAfter - 1) /\ M.initial <= v
            BY <3>2, <3>4, <3>6, ConstantFacts
        <3>8. next \in Int
            BY <1>1, <1>3, UpcomingIsInt DEF next
        <3> QED BY <2>2, <3>2, <3>5, <3>7, <3>8, ConstantFacts DEF Counted
    <2>7. Timed(M, latency'[u], period'[u])
        <3>1. latency[u] \in 0..AllowedLatency \cup {None}
            BY DEF MonitorInv, MonitorTypes
        <3>2. latency'[u] \in 0..AllowedLatency \cup {None} /\ (M.expected # None => latency'[u] = AllowedLatency)
            BY <1>1, <2>3, <3>1, ConstantFacts
        <3> HIDE DEF M
        <3> QED BY <1>1, <2>3, <3>2, ConstantFacts DEF Timed
    <2>8. starts[u] # 0
        BY <1>1, <2>1 DEF TopicInv
    <2>9. (starts[u] <= 1 => FirstRun(u))'
        <3> SUFFICES ASSUME starts[u] <= 1 PROVE FirstRun(u)'
            BY <1>1
        <3>1. EndOfRun(q, c) /\ SeenOnce(m, v, period[u])
            BY <1>3, <2>1 DEF TopicInv, FirstRun
        <3>2. EndOfRun(r, c) /\ (v = -1 => next = None)
            BY <1>4, <3>1
        <3>3. SeenOnce(M, next, None)
            <4>1. \A w \in m.received : w \in Nat
                BY <1>1 DEF MonitoredTopics
            <4>2. next \in Int
                BY <1>1, <1>3, UpcomingIsInt
            <4>3. ASSUME v = -1 PROVE SeenOnce(M, next, None)
                BY <2>3, <3>2, <4>3 DEF SeenOnce
            <4>4. ASSUME v # -1, NEW w \in M.received PROVE w \in Nat /\ w <= v
                <5>1. w \in m.received => w < v
                    BY <1>10, <3>1, <4>4 DEF SeenOnce
                <5> QED BY <1>10, <2>3, <4>1, <4>4, <5>1
            <4>5. ASSUME v # -1, NEW w \in M.received PROVE w < M.expected /\ (next = -1 \/ w < next)
                <5>1. w \in Nat /\ w <= v /\ v \in Nat /\ M.expected = v + 1
                    BY <1>10, <2>3, <4>4, <4>5
                <5>2. next = -1 \/ next > v
                    BY <2>2, <4>5
                <5> HIDE DEF M, v, next
                <5> QED BY <4>2, <5>1, <5>2
            <4> QED BY <4>3, <4>5 DEF SeenOnce
        <3>4. 0 <= RateRunsOut + Round'
            BY <1>6, RoundFacts DEF RateRunsOut
        <3> QED BY <1>1, <2>3, <3>2, <3>3, <3>4 DEF FirstRun, RateRunsOut
    <2>10. (u \in spotless => SpotlessRun(u))'
        <3> SUFFICES ASSUME u \in spotless PROVE SpotlessRun(u)'
            BY <1>1
        <3>1. EndOfRun(q, c) /\ WithoutGap(q, c) /\ MissedNothing(m, v, period[u])
            BY <1>3, <2>1 DEF TopicInv, SpotlessRun
        <3>2. EndOfRun(r, c) /\ WithoutGap(r, c) /\ (v # -1 => next \in {-1, v + 1})
            BY <1>4, <3>1
        <3>3. MissedNothing(M, next, None)
            <4>1. ASSUME v # -1 PROVE M.initial..(M.expected - 1) \subseteq M.received
                <5>1. v \in Nat
                    BY <1>3, <4>1, ConstantFacts DEF Sendable
                <5>2. CASE first
                    <6>1. M.initial = v /\ M.expected - 1 = v /\ v \in M.received
                        BY <2>3, <4>1, <5>1, <5>2
                    <6> HIDE DEF M, v
                    <6> QED BY <5>1, <6>1
                <5>3. CASE ~first
                    <6>1. m.expected = v /\ m.initial..(v - 1) \subseteq m.received
                        BY <3>1, <4>1, <5>3 DEF MissedNothing
                    <6>2. M.initial = m.initial /\ M.expected - 1 = v /\ M.received = m.received \cup {v}
                        BY <2>3, <4>1, <5>1, <5>3
                    <6>3. m.initial \in Int
                        BY <1>1, ConstantFacts DEF MonitoredTopics, Sendable
                    <6> HIDE DEF M, m, v
                    <6> QED BY <5>1, <6>1, <6>2, <6>3
                <5> QED BY <5>2, <5>3
            <4> HIDE DEF M, m, v, next
            <4> QED BY <2>3, <3>2, <4>1 DEF MissedNothing
        <3> QED BY <1>1, <3>2, <3>3 DEF SpotlessRun
    <2>11. (rate[u].spotless => rate[u].count = rate[u].of)'
        BY <1>1, <2>1 DEF TopicInv
    <2> QED BY <1>1, <2>2, <2>4, <2>5, <2>6, <2>7, <2>8, <2>9, <2>10, <2>11 DEF TopicInv
<1> QED BY <1>6, <1>7, <1>8, <1>9 DEF MonitorInv

(* A value is late: from now on one more is expected per period.           *)
LEMMA AllowedLatencyTimerCallbackStep ==
    ASSUME MonitorInv, NEW u \in Names, AllowedLatencyTimerCallback(u) PROVE MonitorInv'
<1> USE DEF display, publishers
<1>1. /\ latency[u] = 0 /\ latency'[u] = None /\ period'[u] = ExpectedPeriod /\ spotless' = spotless \ {u}
      /\ \A t \in Names : t # u => UNCHANGED <<latency[t], period[t]>>
      /\ UNCHANGED <<starts, cycle, inFlight, topic, shown, rate, sinceCycle, main, cause, monitored>>
    BY DEF MonitorInv, MonitorTypes, AllowedLatencyTimerCallback, PeriodAfterLatency
<1>2. MonitorTypes'
    <2>1. latency' \in [Names -> 0..AllowedLatency \cup {None}] /\ period' \in [Names -> 0..ExpectedPeriod \cup {None}]
        BY ConstantFacts DEF MonitorInv, MonitorTypes, AllowedLatencyTimerCallback, PeriodAfterLatency
    <2> QED BY <1>1, <2>1 DEF MonitorInv, MonitorTypes
<1>3. Loop'
    BY <1>1 DEF MonitorInv, Loop
<1>4. ASSUME NEW t \in Names, t # u PROVE TopicInv(t)'
    BY <1>1, <1>4, OthersStay
<1>5. TopicInv(u)'
    <2> DEFINE m == topic[u]
               next == Upcoming(inFlight[u], cycle[u])
    <2>1. TopicInv(u) /\ m \in MonitoredTopics
        BY DEF MonitorInv, MonitorTypes
    <2>2. /\ Ascending(inFlight[u], cycle[u])' /\ (u \notin monitored => Untouched(u))' /\ Stated(u)'
          /\ Counted(topic[u], Upcoming(inFlight[u], cycle[u]))'
          /\ (starts[u] = 0 => topic[u].received = {} /\ cycle[u] = None /\ inFlight[u] = <<>> /\ u \notin spotless)'
          /\ u \notin spotless' /\ (rate[u].spotless => rate[u].count = rate[u].of)'
        <3>1. u \in monitored
            BY <1>1, <2>1, ConstantFacts DEF TopicInv, Untouched
        <3> QED BY <1>1, <2>1, <3>1 DEF TopicInv, Stated
    <2>3. m.age <= AllowedLatency /\ m.age \in Nat
        BY <1>1, <2>1, ConstantFacts DEF TopicInv, Timed, MonitoredTopics
    <2>4. Timed(topic[u], latency[u], period[u])'
        BY <1>1, ConstantFacts DEF Timed
    <2>5. (starts[u] <= 1 => FirstRun(u))'
        <3> SUFFICES ASSUME starts[u] <= 1 PROVE FirstRun(u)'
            BY <1>1
        <3>1. FirstRun(u)
            BY <2>1 DEF TopicInv
        <3>2. SeenOnce(m, next, ExpectedPeriod)
            <4> SUFFICES ASSUME NEW r \in m.received, m.expected # None
                         PROVE  m.age + ExpectedPeriod <= AllowedLatency + (m.expected - r) * ExpectedPeriod
                BY <3>1 DEF FirstRun, SeenOnce
            <4>1. r \in Nat /\ m.expected \in Nat /\ r < m.expected
                BY <2>1, <3>1, ConstantFacts DEF FirstRun, SeenOnce, MonitoredTopics
            <4>2. PICK d \in Nat : d = m.expected - r /\ 1 <= d
                BY <4>1
            <4>3. 1 * ExpectedPeriod <= d * ExpectedPeriod /\ d * ExpectedPeriod \in Int
                BY <4>2, ConstantFacts, Products
            <4> HIDE DEF m
            <4> QED BY <2>3, <4>2, <4>3, ConstantFacts
        <3> QED BY <1>1, <3>1, <3>2 DEF FirstRun, RateRunsOut, Round
    <2> QED BY <2>2, <2>4, <2>5 DEF TopicInv
<1> QED BY <1>2, <1>3, <1>4, <1>5 DEF MonitorInv

(* One more value is expected.                                             *)
LEMMA IncrementExpectedValueStep ==
    ASSUME MonitorInv, NEW u \in Names, IncrementExpectedValue(u) PROVE MonitorInv'
<1> USE DEF display, publishers
<1> DEFINE m == topic[u]
           M == topic'[u]
           next == Upcoming(inFlight[u], cycle[u])
<1>1. /\ period[u] = 0 /\ period'[u] = ExpectedPeriod
      /\ \A t \in Names : t # u => UNCHANGED <<topic[t], period[t]>>
      /\ M = [m EXCEPT !.expected = IF @ = None THEN @ ELSE Saturated(@ + 1, MaxExpected)]
      /\ UNCHANGED <<starts, cycle, inFlight, latency, shown, rate, sinceCycle, main, cause, monitored, spotless>>
    BY DEF MonitorInv, MonitorTypes, IncrementExpectedValue
<1>2. TopicInv(u) /\ m \in MonitoredTopics
    BY DEF MonitorInv, MonitorTypes
<1>3. /\ M.initial = m.initial /\ M.received = m.received /\ M.status = m.status /\ M.changed = m.changed
      /\ M.age = m.age
      /\ M.expected = IF m.expected = None THEN None ELSE Saturated(m.expected + 1, MaxExpected)
    BY <1>1, <1>2 DEF MonitoredTopics
<1>4. m.expected # None => /\ m.expected \in Nat /\ m.expected <= MaxExpected
                           /\ M.expected = m.expected + 1 \/ (M.expected = MaxExpected)
                           /\ M.expected \in 1..MaxExpected /\ m.expected <= M.expected
    <2> SUFFICES ASSUME m.expected # None
                 PROVE  /\ m.expected \in Nat /\ m.expected <= MaxExpected
                        /\ M.expected = m.expected + 1 \/ M.expected = MaxExpected
                        /\ M.expected \in 1..MaxExpected /\ m.expected <= M.expected
        OBVIOUS
    <2>1. m.expected \in 1..MaxExpected
        BY <1>2 DEF MonitoredTopics
    <2>2. M.expected = Saturated(m.expected + 1, MaxExpected)
        BY <1>3
    <2>3. Saturated(m.expected + 1, MaxExpected) = IF m.expected + 1 <= MaxExpected THEN m.expected + 1 ELSE MaxExpected
        <3>1. PICK n \in Int : n = m.expected + 1
            BY <2>1, ConstantFacts
        <3>2. Min({n, MaxExpected}) = IF n <= MaxExpected THEN n ELSE MaxExpected
            BY ExtremesOfTwo, ConstantFacts
        <3> QED BY <3>1, <3>2 DEF Saturated
    <2> HIDE DEF m, M
    <2> QED BY <2>1, <2>2, <2>3, ConstantFacts
<1>5. MonitorTypes'
    <2>1. M \in MonitoredTopics
        <3>1. M.expected \in (1..MaxExpected) \cup {None}
            BY <1>3, <1>4
        <3> HIDE DEF m, M
        <3>2. M = [m EXCEPT !.expected = M.expected]
            BY <1>1, <1>2 DEF MonitoredTopics
        <3> QED BY <1>2, <3>1, <3>2 DEF MonitoredTopics
    <2>2. topic' \in [Names -> MonitoredTopics]
        <3>1. topic' = [topic EXCEPT ![u] = M] /\ topic \in [Names -> MonitoredTopics]
            BY DEF IncrementExpectedValue, MonitorInv, MonitorTypes
        <3> HIDE DEF M
        <3> QED BY <2>1, <3>1
    <2>3. period' \in [Names -> 0..ExpectedPeriod \cup {None}]
        BY ConstantFacts, SMTT(30) DEF MonitorInv, MonitorTypes, IncrementExpectedValue
    <2> QED BY <1>1, <2>2, <2>3 DEF MonitorInv, MonitorTypes
<1>6. Loop'
    BY <1>1 DEF MonitorInv, Loop
<1>7. ASSUME NEW t \in Names, t # u PROVE TopicInv(t)'
    BY <1>1, <1>7, OthersStay
<1>8. TopicInv(u)'
    <2>1. /\ Ascending(inFlight[u], cycle[u])' /\ (u \notin monitored => Untouched(u))'
          /\ (starts[u] = 0 => topic[u].received = {} /\ cycle[u] = None /\ inFlight[u] = <<>> /\ u \notin spotless)'
          /\ (rate[u].spotless => rate[u].count = rate[u].of)'
        <3>1. u \in monitored
            BY <1>1, <1>2, ConstantFacts DEF TopicInv, Untouched
        <3> QED BY <1>1, <1>2, <1>3, <3>1 DEF TopicInv
    <2>2. M.expected = None <=> m.expected = None
        BY <1>3, <1>4, ConstantFacts
    <2>3. Stated(u)'
        BY <1>1, <1>2, <1>3, <2>2 DEF TopicInv, Stated
    <2>4. Counted(M, next)
        <3>1. Counted(m, next)
            BY <1>2 DEF TopicInv
        <3> HIDE DEF m, M, next
        <3> QED BY <1>3, <1>4, <2>2, <3>1, ConstantFacts DEF Counted
    <2>5. latency[u] = None
        BY <1>1, <1>2, ConstantFacts DEF TopicInv, Timed
    <2>6. Timed(M, latency'[u], period'[u])
        BY <1>1, <2>5, ConstantFacts DEF Timed
    <2>7. (starts[u] <= 1 => FirstRun(u))'
        <3> SUFFICES ASSUME starts[u] <= 1 PROVE FirstRun(u)'
            BY <1>1
        <3>1. FirstRun(u) /\ SeenOnce(m, next, 0)
            BY <1>1, <1>2 DEF TopicInv, FirstRun
        <3>2. SeenOnce(M, next, ExpectedPeriod)
            <4>1. ASSUME NEW r \in m.received, m.expected # None
                  PROVE  /\ r < M.expected
                         /\ \/ M.age + ExpectedPeriod <= AllowedLatency + (M.expected - r) * ExpectedPeriod
                            \/ M.expected = MaxExpected
                <5>1. r \in Nat /\ m.expected \in Nat /\ r < m.expected /\ m.age \in Nat
                    BY <1>2, <1>4, <3>1, <4>1, ConstantFacts DEF SeenOnce, MonitoredTopics
                <5>2. m.age + 0 <= AllowedLatency + (m.expected - r) * ExpectedPeriod \/ m.expected = MaxExpected
                    BY <3>1, <4>1, ConstantFacts DEF SeenOnce
                <5>3. PICK d \in Nat : d = m.expected - r
                    BY <5>1
                <5>4. (d + 1) * ExpectedPeriod = d * ExpectedPeriod + ExpectedPeriod /\ d * ExpectedPeriod \in Int
                    BY ConstantFacts, Products
                <5>5. M.expected # MaxExpected => M.expected - r = d + 1 /\ m.expected # MaxExpected
                    BY <1>4, <4>1, <5>1, <5>3, ConstantFacts
                <5>6. r < M.expected
                    BY <1>4, <4>1, <5>1, ConstantFacts
                <5> HIDE DEF m, M
                <5> QED BY <1>3, <5>1, <5>2, <5>3, <5>4, <5>5, <5>6, ConstantFacts
            <4> QED BY <1>3, <2>2, <3>1, <4>1 DEF SeenOnce
        <3> QED BY <1>1, <1>3, <3>1, <3>2 DEF FirstRun, RateRunsOut, Round
    <2>8. (u \in spotless => SpotlessRun(u))'
        <3> SUFFICES ASSUME u \in spotless PROVE SpotlessRun(u)'
            BY <1>1
        <3>1. SpotlessRun(u) /\ MissedNothing(m, next, 0)
            BY <1>1, <1>2 DEF TopicInv, SpotlessRun
        <3>2. M.expected = None
            BY <2>2, <3>1, ConstantFacts DEF MissedNothing
        <3> QED BY <1>1, <3>1, <3>2 DEF SpotlessRun, MissedNothing
    <2> QED BY <1>1, <2>1, <2>3, <2>4, <2>6, <2>7, <2>8 DEF TopicInv
<1> QED BY <1>5, <1>6, <1>7, <1>8 DEF MonitorInv

(* What is counted of a topic, when neither its count nor its age changes. *)
LEMMA SameCount ==
    ASSUME NEW m, NEW M, M.expected = m.expected, M.initial = m.initial, M.received = m.received, M.age = m.age
    PROVE  \A next, l, p : /\ Counted(m, next) => Counted(M, next)
                           /\ Timed(m, l, p) => Timed(M, l, p)
                           /\ SeenOnce(m, next, p) => SeenOnce(M, next, p)
                           /\ MissedNothing(m, next, p) => MissedNothing(M, next, p)
<1>1. \A next : Counted(m, next) => Counted(M, next)
    BY DEF Counted
<1>2. \A l, p : Timed(m, l, p) => Timed(M, l, p)
    BY DEF Timed
<1>3. \A next, p : SeenOnce(m, next, p) => SeenOnce(M, next, p)
    BY DEF SeenOnce
<1>4. \A next, p : MissedNothing(m, next, p) => MissedNothing(M, next, p)
    BY DEF MissedNothing
<1> QED BY <1>1, <1>2, <1>3, <1>4

(* A check: what it changes will be output.                                *)
LEMMA UpdateTopicStatusesStep ==
    ASSUME MonitorInv, UpdateTopicStatuses PROVE MonitorInv'
<1> USE DEF monitorTimers, display, publishers
<1>1. /\ main = "wait" /\ main' \in {"output", "calculate"} /\ sinceCycle' = 0
      /\ UNCHANGED <<starts, cycle, inFlight, latency, period, shown, rate, monitored, cause, spotless>>
    BY DEF UpdateTopicStatuses
<1>2. \A t \in Names : topic'[t] = IF t \notin monitored THEN topic[t]
                                   ELSE [topic[t] EXCEPT !.changed = FALSE,
                                                         !.status = IF GoesStale(topic[t]) THEN "Stale" ELSE @]
    BY DEF UpdateTopicStatuses
<1>3. ASSUME NEW t \in Names
      PROVE  LET m == topic[t] M == topic'[t]
             IN  /\ M \in MonitoredTopics /\ m \in MonitoredTopics
                 /\ M.expected = m.expected /\ M.initial = m.initial /\ M.received = m.received /\ M.age = m.age
                 /\ t \in monitored => M.changed = FALSE /\ M.status = IF GoesStale(m) THEN "Stale" ELSE m.status
                 /\ t \notin monitored => M = m
    <2>1. topic[t] \in MonitoredTopics
        BY DEF MonitorInv, MonitorTypes
    <2> QED BY <1>2, <2>1, ZenonT(40) DEF MonitoredTopics
<1>4. MonitorTypes'
    <2>1. topic' = [t \in Names |-> topic'[t]]
        BY DEF UpdateTopicStatuses
    <2>2. topic' \in [Names -> MonitoredTopics]
        BY <1>3, <2>1
    <2> QED BY <1>1, <2>2, ConstantFacts DEF MonitorInv, MonitorTypes
<1>5. Loop'
    BY <1>1 DEF MonitorInv, Loop
<1>6. ASSUME NEW t \in Names PROVE TopicInv(t)'
    <2> DEFINE m == topic[t]
               M == topic'[t]
               next == Upcoming(inFlight[t], cycle[t])
    <2>1. TopicInv(t) /\ m \in MonitoredTopics
        BY <1>3 DEF MonitorInv
    <2>2. /\ M.expected = m.expected /\ M.initial = m.initial /\ M.received = m.received /\ M.age = m.age
          /\ t \in monitored => M.changed = FALSE /\ M.status = IF GoesStale(m) THEN "Stale" ELSE m.status
          /\ t \notin monitored => M = m
        BY <1>3
    <2>3. \A n, l, p : /\ Counted(m, n) => Counted(M, n)
                       /\ Timed(m, l, p) => Timed(M, l, p)
                       /\ SeenOnce(m, n, p) => SeenOnce(M, n, p)
                       /\ MissedNothing(m, n, p) => MissedNothing(M, n, p)
        <3> HIDE DEF m, M
        <3> QED BY <2>2, SameCount
    <2>4. /\ Ascending(inFlight[t], cycle[t])' /\ (t \notin monitored => Untouched(t))'
          /\ (rate[t].spotless => rate[t].count = rate[t].of)'
          /\ (starts[t] = 0 => topic[t].received = {} /\ cycle[t] = None /\ inFlight[t] = <<>> /\ t \notin spotless)'
        BY <1>1, <2>1, <2>2 DEF TopicInv, Untouched
    <2>5. Stated(t)'
        <3>1. Stated(t) /\ m.age \in Nat /\ (t \notin monitored => m.status = "Offline" /\ shown[t] = "Offline")
            BY <2>1, ConstantFacts DEF TopicInv, Stated, Untouched, MonitoredTopics
        <3>2. M.status = "Offline" <=> M.expected = None
            BY <2>2, <3>1 DEF Stated, GoesStale
        <3>3. M.status = "Alive" => M.age <= StaleTime + 0
            BY <2>2, <3>1, ConstantFacts DEF GoesStale
        <3>4. ASSUME main' # "output", t \in monitored PROVE shown[t] = M.status
            <4>1. ~m.changed /\ (GoesStale(m) => m.status = "Stale")
                BY <3>4 DEF UpdateTopicStatuses
            <4>2. M.status = m.status
                BY <2>2, <3>4, <4>1
            <4> QED BY <1>1, <3>1, <4>1, <4>2 DEF Stated
        <3>5. t \notin monitored => shown[t] = M.status
            BY <2>2, <3>1
        <3> QED BY <1>1, <3>2, <3>3, <3>4, <3>5 DEF Stated
    <2>6. Counted(M, next) /\ Timed(M, latency[t], period[t])
        BY <2>1, <2>3 DEF TopicInv
    <2>7. (starts[t] <= 1 => FirstRun(t))'
        <3>1. sinceCycle <= StatsPeriod + MaxLag /\ sinceCycle \in Nat
            BY ConstantFacts DEF MonitorInv, MonitorTypes
        <3>2. m.age \in Nat
            BY <2>1, ConstantFacts DEF MonitoredTopics
        <3>3. m.age <= RateRunsOut + sinceCycle => M.age <= RateRunsOut + (StatsPeriod + MaxLag)
            <4> HIDE DEF m, M
            <4> QED BY <2>2, <3>1, <3>2, RoundFacts, ConstantFacts
        <3> QED BY <1>1, <2>1, <2>3, <3>3 DEF TopicInv, FirstRun, Round, RateRunsOut
    <2>8. (t \in spotless => SpotlessRun(t))'
        BY <1>1, <2>1, <2>3 DEF TopicInv, SpotlessRun
    <2> QED BY <1>1, <2>4, <2>5, <2>6, <2>7, <2>8 DEF TopicInv
<1> QED BY <1>4, <1>5, <1>6 DEF MonitorInv

(* The statuses are output as they are then.                               *)
LEMMA OutputStatusStep ==
    ASSUME MonitorInv, OutputStatus PROVE MonitorInv'
<1> USE DEF monitorTimers, publishers
<1>1. /\ main = "output" /\ main' = "calculate"
      /\ UNCHANGED <<starts, cycle, inFlight, topic, latency, period, rate, sinceCycle, monitored, cause, spotless>>
      /\ \A t \in Names : shown'[t] = IF t \in monitored THEN topic[t].status ELSE shown[t]
    BY DEF OutputStatus
<1>2. MonitorTypes'
    <2>1. \A t \in Names : topic[t].status \in {"Offline", "Alive", "Stale"}
        BY DEF MonitorInv, MonitorTypes, MonitoredTopics
    <2> QED BY <1>1, <2>1 DEF MonitorInv, MonitorTypes, OutputStatus
<1>3. Loop'
    BY <1>1 DEF MonitorInv, Loop
<1>4. ASSUME NEW t \in Names PROVE TopicInv(t)'
    <2>1. TopicInv(t)
        BY DEF MonitorInv
    <2>2. Stated(t)'
        BY <1>1, <2>1 DEF TopicInv, Stated, Untouched
    <2>3. (t \notin monitored => Untouched(t))'
        BY <1>1, <2>1 DEF TopicInv, Untouched
    <2>4. (starts[t] <= 1 => FirstRun(t))' /\ (t \in spotless => SpotlessRun(t))'
        BY <1>1, <2>1 DEF TopicInv, FirstRun, SpotlessRun, Round, RateRunsOut
    <2> QED BY <1>1, <2>1, <2>2, <2>3, <2>4 DEF TopicInv
<1> QED BY <1>2, <1>3, <1>4 DEF MonitorInv

(* The rate of a topic that is online.                                     *)
LEMMA RateFacts ==
    ASSUME MonitorInv, NEW t \in Names, topic[t].status # "Offline"
    PROVE  LET m == topic[t]
               window == ExpectedValues(m)
           IN  /\ window # {} /\ Cardinality(window) \in Nat /\ Cardinality(window \cap m.received) \in Nat
               /\ t \in spotless => window \cap m.received = window
               /\ starts[t] <= 1 /\ Cardinality(window \cap m.received) # 0 => m.age <= RateRunsOut
<1> DEFINE m == topic[t]
           next == Upcoming(inFlight[t], cycle[t])
           window == ExpectedValues(m)
<1>1. TopicInv(t) /\ m \in MonitoredTopics /\ m.expected # None
    BY DEF MonitorInv, MonitorTypes, TopicInv, Stated
<1>2. m.initial \in 0..(EndAfter - 1) /\ m.initial < m.expected
    BY <1>1 DEF TopicInv, Counted
<1>3. /\ window # {} /\ window \subseteq m.initial..(m.expected - 1)
      /\ \A v \in window : v \in Nat /\ m.expected - v <= WindowSize
      /\ Cardinality(window) \in Nat /\ Cardinality(window \cap m.received) \in Nat
      /\ Cardinality(window \cap m.received) # 0 => window \cap m.received # {}
    <2> HIDE DEF m
    <2> QED BY <1>1, <1>2, WindowFacts
<1>4. ASSUME t \in spotless PROVE window \cap m.received = window
    <2>1. m.initial..(m.expected - 1) \subseteq m.received
        BY <1>1, <1>4 DEF TopicInv, SpotlessRun, MissedNothing
    <2> HIDE DEF m, window
    <2> QED BY <1>3, <2>1
<1>5. ASSUME starts[t] <= 1, Cardinality(window \cap m.received) # 0 PROVE m.age <= RateRunsOut
    <2>1. PICK v \in window : v \in m.received
        BY <1>3, <1>5
    <2>2. SeenOnce(m, next, period[t]) /\ Timed(m, latency[t], period[t])
        BY <1>1, <1>5 DEF TopicInv, FirstRun
    <2>3. /\ m.age \in Nat /\ m.expected \in Nat /\ v \in Nat /\ v <= EndAfter - 1 /\ m.expected - v <= WindowSize
          /\ latency[t] # None => latency[t] \in Nat
          /\ period[t] # None => period[t] \in Nat
        BY <1>1, <1>3, <2>1, ConstantFacts, SMTT(30) DEF MonitoredTopics, MonitorInv, MonitorTypes
    <2>4. CASE latency[t] # None
        <3>1. m.age + latency[t] <= AllowedLatency
            BY <2>2, <2>4 DEF Timed
        <3>2. 0 <= WindowSize * ExpectedPeriod /\ WindowSize * ExpectedPeriod \in Nat
            BY ConstantFacts
        <3> HIDE DEF m
        <3> QED BY <2>3, <2>4, <3>1, <3>2, ConstantFacts DEF RateRunsOut
    <2>5. CASE latency[t] = None
        <3>1. period[t] # None
            BY <1>1, <2>2, <2>5 DEF Timed
        <3>2. m.expected # MaxExpected
            <4> HIDE DEF m
            <4> QED BY <2>3, ConstantFacts
        <3>3. m.age + period[t] <= AllowedLatency + (m.expected - v) * ExpectedPeriod
            BY <1>1, <2>1, <2>2, <3>1, <3>2 DEF SeenOnce
        <3>4. PICK d \in Int : d = m.expected - v
            BY <2>3
        <3>5. d * ExpectedPeriod <= WindowSize * ExpectedPeriod /\ d * ExpectedPeriod \in Int
              /\ WindowSize * ExpectedPeriod \in Int
            <4>1. d <= WindowSize
                BY <2>3, <3>4
            <4>2. WindowSize \in Int /\ ExpectedPeriod \in Nat
                BY ConstantFacts
            <4> QED BY <4>1, <4>2, Products
        <3> HIDE DEF m
        <3> QED BY <2>3, <3>1, <3>3, <3>4, <3>5, ConstantFacts DEF RateRunsOut
    <2> QED BY <2>4, <2>5
<1> QED BY <1>3, <1>4, <1>5

(* The rates are computed, of windows that are not empty.                  *)
LEMMA CalculateStatisticsStep ==
    ASSUME MonitorInv, CalculateStatistics PROVE MonitorInv'
<1> USE DEF monitorTimers, publishers
<1> DEFINE Online(t) == t \in monitored /\ topic[t].status # "Offline"
           New(t) == IF t \notin monitored THEN rate[t]
                     ELSE IF ~Online(t) THEN NoRate
                     ELSE [count |-> Cardinality(ExpectedValues(topic[t]) \cap topic[t].received),
                           of |-> Cardinality(ExpectedValues(topic[t])), spotless |-> t \in spotless]
<1>1. ~ \E t \in monitored : Online(t) /\ ExpectedValues(topic[t]) = {}
    BY RateFacts DEF MonitorInv, MonitorTypes
<1>2. /\ main = "calculate" /\ main' \in {"draw", "wait"} /\ cause' = cause
      /\ rate' = [t \in Names |-> New(t)]
      /\ UNCHANGED <<starts, cycle, inFlight, topic, latency, period, sinceCycle, monitored, shown, spotless>>
    BY <1>1 DEF CalculateStatistics
<1>3. sinceCycle = 0
    BY <1>2 DEF MonitorInv, Loop
<1>4. ASSUME NEW t \in Names
      PROVE  /\ New(t) \in [count : Nat, of : Nat, spotless : BOOLEAN]
             /\ New(t).spotless => New(t).count = New(t).of
             /\ starts[t] <= 1 /\ New(t).count # 0 => topic[t].age <= RateRunsOut
             /\ t \notin monitored => New(t) = NoRate
    <2>1. TopicInv(t) /\ rate[t] \in [count : Nat, of : Nat, spotless : BOOLEAN]
        BY DEF MonitorInv, MonitorTypes
    <2>2. NoRate \in [count : Nat, of : Nat, spotless : BOOLEAN] /\ NoRate.count = 0 /\ ~NoRate.spotless
        BY DEF NoRate
    <2>3. CASE t \notin monitored
        <3>1. New(t) = NoRate
            BY <2>1, <2>3 DEF TopicInv, Untouched
        <3> HIDE DEF New
        <3> QED BY <2>2, <3>1
    <2>4. CASE t \in monitored /\ ~Online(t)
        <3>1. New(t) = NoRate
            BY <2>4
        <3> HIDE DEF New
        <3> QED BY <2>2, <2>4, <3>1
    <2>5. CASE Online(t)
        <3> DEFINE arrived == Cardinality(ExpectedValues(topic[t]) \cap topic[t].received)
                   due == Cardinality(ExpectedValues(topic[t]))
        <3>1. arrived \in Nat /\ due \in Nat /\ (t \in spotless => arrived = due)
              /\ (starts[t] <= 1 /\ arrived # 0 => topic[t].age <= RateRunsOut)
            BY <2>5, RateFacts
        <3>2. New(t) = [count |-> arrived, of |-> due, spotless |-> t \in spotless]
            BY <2>5
        <3>3. (t \in spotless) \in BOOLEAN /\ t \in monitored
            BY <2>5
        <3> HIDE DEF New, arrived, due
        <3>4. New(t).count = arrived /\ New(t).of = due
            BY <3>2
        <3>6. New(t).spotless => t \in spotless
            <4>1. PICK b \in BOOLEAN : b = (t \in spotless)
                BY <3>3
            <4>2. New(t) = [count |-> arrived, of |-> due, spotless |-> b]
                BY <3>2, <4>1, Zenon
            <4>3. New(t).spotless = b
                BY <4>2
            <4> QED BY <4>1, <4>3, Zenon
        <3>5. New(t) \in [count : Nat, of : Nat, spotless : BOOLEAN]
            BY <3>1, <3>2, <3>3
        <3> QED BY <3>1, <3>3, <3>4, <3>5, <3>6
    <2> QED BY <2>3, <2>4, <2>5
<1>5. MonitorTypes'
    <2>1. rate' \in [Names -> [count : Nat, of : Nat, spotless : BOOLEAN]]
        <3> HIDE DEF New
        <3> QED BY <1>2, <1>4
    <2> QED BY <1>2, <2>1 DEF MonitorInv, MonitorTypes
<1>6. Loop'
    BY <1>2, <1>3 DEF MonitorInv, Loop
<1>7. ASSUME NEW t \in Names PROVE TopicInv(t)'
    <2>1. TopicInv(t) /\ rate'[t] = New(t)
        BY <1>2 DEF MonitorInv
    <2> HIDE DEF New
    <2>2. Stated(t)' /\ (t \notin monitored => Untouched(t))' /\ (t \in spotless => SpotlessRun(t))'
        BY <1>2, <1>4, <2>1 DEF TopicInv, Stated, Untouched, SpotlessRun
    <2>3. (starts[t] <= 1 => FirstRun(t))'
        <3>1. Round' = 0
            BY <1>2, <1>3 DEF Round
        <3> QED BY <1>2, <1>4, <2>1, <3>1, RoundFacts DEF TopicInv, FirstRun, RateRunsOut
    <2> QED BY <1>2, <1>4, <2>1, <2>2, <2>3 DEF TopicInv
<1> QED BY <1>5, <1>6, <1>7 DEF MonitorInv

(* Time passes: a timer loses what the age of the data gains.              *)
LEMMA MonitorTickStep ==
    ASSUME MonitorInv, MonitorTick PROVE MonitorInv'
<1> USE DEF display, publishers
<1> DEFINE Down(n) == IF n = None THEN None ELSE n - 1
<1>1. /\ main = "wait" /\ sinceCycle < StatsPeriod + MaxLag /\ sinceCycle' = sinceCycle + 1
      /\ latency' = [t \in Names |-> Down(latency[t])] /\ period' = [t \in Names |-> Down(period[t])]
      /\ topic' = [t \in Names |-> [topic[t] EXCEPT !.age = Saturated(@ + 1, MaxAge)]]
      /\ UNCHANGED <<starts, cycle, inFlight, shown, rate, main, cause, monitored, spotless>>
    BY DEF MonitorTick, CountDown
<1>2. sinceCycle \in Nat /\ sinceCycle' \in 0..(StatsPeriod + MaxLag)
    BY <1>1, ConstantFacts DEF MonitorInv, MonitorTypes
<1>3. ASSUME NEW t \in Names
      PROVE  /\ latency[t] = None \/ latency[t] \in 1..AllowedLatency
             /\ period[t] = None \/ period[t] \in 1..ExpectedPeriod
    BY ConstantFacts, SMTT(30) DEF MonitorInv, MonitorTypes, MonitorTick
<1>4. ASSUME NEW t \in Names
      PROVE  LET m == topic[t] M == topic'[t]
             IN  /\ m \in MonitoredTopics /\ M \in MonitoredTopics /\ m.age \in Nat /\ M.age \in Nat /\ M.age <= m.age + 1
                 /\ M.expected = m.expected /\ M.initial = m.initial /\ M.received = m.received
                 /\ M.status = m.status /\ M.changed = m.changed
    <2>1. topic[t] \in MonitoredTopics /\ topic[t].age \in Nat
        BY ConstantFacts DEF MonitorInv, MonitorTypes, MonitoredTopics
    <2>2. /\ Saturated(topic[t].age + 1, MaxAge) \in 0..MaxAge
          /\ Saturated(topic[t].age + 1, MaxAge) <= topic[t].age + 1 /\ Saturated(topic[t].age + 1, MaxAge) \in Nat
        <3>1. topic[t].age + 1 \in Nat
            BY <2>1
        <3> QED BY <3>1, SaturatedFacts, ConstantFacts
    <2>3. topic'[t] = [topic[t] EXCEPT !.age = Saturated(topic[t].age + 1, MaxAge)]
        BY <1>1
    <2> QED BY <2>1, <2>2, <2>3 DEF MonitoredTopics
<1>5. MonitorTypes'
    <2>1. topic' \in [Names -> MonitoredTopics]
        <3>1. topic' = [t \in Names |-> topic'[t]]
            BY <1>1
        <3> QED BY <1>4, <3>1
    <2>2. latency' \in [Names -> 0..AllowedLatency \cup {None}] /\ period' \in [Names -> 0..ExpectedPeriod \cup {None}]
        BY <1>1, <1>3, ConstantFacts
    <2> QED BY <1>1, <1>2, <2>1, <2>2 DEF MonitorInv, MonitorTypes
<1>6. Loop'
    BY <1>1 DEF MonitorInv, Loop
<1>7. ASSUME NEW t \in Names PROVE TopicInv(t)'
    <2> DEFINE m == topic[t]
               M == topic'[t]
               next == Upcoming(inFlight[t], cycle[t])
               l == latency[t]
               p == period[t]
    <2>1. TopicInv(t) /\ latency'[t] = Down(l) /\ period'[t] = Down(p)
        BY <1>1 DEF MonitorInv
    <2>2. /\ m.age \in Nat /\ M.age \in Nat /\ M.age <= m.age + 1
          /\ M.expected = m.expected /\ M.initial = m.initial /\ M.received = m.received
          /\ M.status = m.status /\ M.changed = m.changed /\ m \in MonitoredTopics
        BY <1>4
    <2>3. (l = None \/ l \in Nat \ {0}) /\ (p = None \/ p \in Nat \ {0}) /\ None = -2
        BY <1>3, ConstantFacts
    <2>4. (t \notin monitored => Untouched(t))'
        BY <1>1, <2>1, <2>2 DEF TopicInv, Untouched
    <2>5. Stated(t)'
        <3>1. Stated(t)
            BY <2>1 DEF TopicInv
        <3>2. m.age <= StaleTime + sinceCycle => M.age <= StaleTime + (sinceCycle + 1)
            BY <1>2, <2>2, ConstantFacts
        <3> QED BY <1>1, <2>2, <3>1, <3>2 DEF Stated
    <2>6. Counted(M, next)
        BY <2>1, <2>2 DEF TopicInv, Counted
    <2>7. Timed(M, Down(l), Down(p))
        <3>1. Timed(m, l, p)
            BY <2>1 DEF TopicInv
        <3> HIDE DEF m, M, l, p
        <3> QED BY <2>2, <2>3, <3>1, ConstantFacts DEF Timed
    <2>8. (starts[t] <= 1 => FirstRun(t))'
        <3> SUFFICES ASSUME starts[t] <= 1 PROVE FirstRun(t)'
            BY <1>1
        <3>1. FirstRun(t)
            BY <2>1 DEF TopicInv
        <3>2. SeenOnce(M, next, Down(p))
            <4>1. SeenOnce(m, next, p)
                BY <3>1 DEF FirstRun
            <4>2. ASSUME NEW r \in m.received, m.expected # None, Down(p) # None
                  PROVE  \/ M.age + Down(p) <= AllowedLatency + (m.expected - r) * ExpectedPeriod
                         \/ m.expected = MaxExpected
                <5>1. p \in Nat \ {0} /\ p # None /\ Down(p) = p - 1
                    BY <2>3, <4>2
                <5>2. r \in Nat /\ m.expected \in Nat
                    BY <2>2, <4>2, ConstantFacts DEF MonitoredTopics
                <5>3. PICK d \in Int : d = m.expected - r
                    BY <5>2
                <5>4. d * ExpectedPeriod \in Int
                    BY Products, ConstantFacts
                <5>5. m.age + p <= AllowedLatency + (m.expected - r) * ExpectedPeriod \/ m.expected = MaxExpected
                    BY <4>1, <4>2, <5>1 DEF SeenOnce
                <5> HIDE DEF m, M, p, Down
                <5> QED BY <2>2, <5>1, <5>3, <5>4, <5>5, ConstantFacts
            <4> HIDE DEF m, M, p, Down, next
            <4> QED BY <2>2, <4>1, <4>2 DEF SeenOnce
        <3>3. m.age <= RateRunsOut + sinceCycle => M.age <= RateRunsOut + (sinceCycle + 1)
            <4> HIDE DEF m, M
            <4> QED BY <1>2, <2>2, RoundFacts
        <3>4. Round = sinceCycle /\ Round' = sinceCycle + 1
            BY <1>1 DEF Round
        <3> QED BY <1>1, <2>1, <3>1, <3>2, <3>3, <3>4 DEF FirstRun, RateRunsOut
    <2>9. (t \in spotless => SpotlessRun(t))'
        <3>1. MissedNothing(m, next, p) => MissedNothing(M, next, Down(p))
            <4> HIDE DEF m, M, p, next
            <4> QED BY <2>2 DEF MissedNothing
        <3> QED BY <1>1, <2>1, <3>1 DEF TopicInv, SpotlessRun
    <2> QED BY <1>1, <2>1, <2>2, <2>4, <2>5, <2>6, <2>7, <2>8, <2>9 DEF TopicInv
<1> QED BY <1>5, <1>6, <1>7 DEF MonitorInv

(* The invariant of the monitor.  A last message that is lost leaves the   *)
(* monitor counting on into the next run, which is a finding of its own    *)
(* (RateIsAlwaysDefined): the theorems are about goodbyes that arrive.     *)
THEOREM MonitorInvariance == ASSUME ~LosesGoodbye PROVE MonitorSpec => []MonitorInv
<1>1. MonitorInit => MonitorInv
    <2> SUFFICES ASSUME MonitorInit PROVE MonitorInv
        OBVIOUS
    <2> USE DEF MonitorInit
    <2>1. NewTopic \in MonitoredTopics /\ NoRate \in [count : Nat, of : Nat, spotless : BOOLEAN]
        BY ConstantFacts DEF NewTopic, NoRate, MonitoredTopics
    <2>2. MonitorTypes
        <3>1. <<>> \in Seq(Sendable) /\ None \in Cycles
            BY DEF Cycles
        <3> QED BY <2>1, <3>1, ConstantFacts DEF MonitorTypes
    <2>3. Loop
        BY DEF Loop
    <2>4. Ascending(<<>>, None) /\ EndOfRun(<<>>, None)
        BY DEF Ascending, EndOfRun
    <2>5. ASSUME NEW t \in Names PROVE TopicInv(t)
        BY <2>4 DEF TopicInv, Untouched, Stated, Counted, Timed, FirstRun, SeenOnce, NewTopic, NoRate
    <2> QED BY <2>2, <2>3, <2>5 DEF MonitorInv
<1>2. MonitorInv /\ [MonitorNext]_monitorVars => MonitorInv'
    <2> SUFFICES ASSUME MonitorInv, [MonitorNext]_monitorVars PROVE MonitorInv'
        OBVIOUS
    <2>1. ASSUME NEW t \in Names,
                 StartPublisher(t) \/ AddMonitoredTopic(t) \/ TopicDataCallback(t)
                 \/ AllowedLatencyTimerCallback(t) \/ IncrementExpectedValue(t) \/ ReceiveUncounted(t)
          PROVE  MonitorInv'
        BY <2>1, StartPublisherStep, AddMonitoredTopicStep, TopicDataCallbackStep,
           AllowedLatencyTimerCallbackStep, IncrementExpectedValueStep, ReceiveUncountedStep
    <2>2. ASSUME NEW t \in Names, NEW arrives \in BOOLEAN, PublishMessage(t, arrives) \/ Goodbye(t, arrives)
          PROVE  MonitorInv'
        BY <2>2, PublishMessageStep, GoodbyeStep
    <2>3. CASE UpdateTopicStatuses \/ OutputStatus \/ CalculateStatistics \/ UpdateDisplay \/ MonitorTick
        BY <2>3, UpdateTopicStatusesStep, OutputStatusStep, CalculateStatisticsStep, UpdateDisplayStep, MonitorTickStep
    <2>4. CASE UNCHANGED monitorVars
        BY <2>4 DEF monitorVars, MonitorInv, MonitorTypes, Loop, TopicInv, Untouched, Stated, FirstRun, SpotlessRun,
                    Round, RateRunsOut
    <2> QED BY <2>1, <2>2, <2>3, <2>4 DEF MonitorNext
<1> QED BY <1>1, <1>2, PTL DEF MonitorSpec

(* The monitor tells rightly of every topic, for all options, lengths of   *)
(* runs and delays of the main thread: its rate is defined, full when      *)
(* nothing is lost and falling in silence, its status shown and current.   *)
THEOREM MonitorTellsRightly == ASSUME ~LosesGoodbye PROVE MonitorSpec => []RatesAreRight
<1>1. MonitorInv => RatesAreRight
    <2> SUFFICES ASSUME MonitorInv PROVE RatesAreRight
        OBVIOUS
    <2>1. ASSUME NEW t \in Names
          PROVE  /\ TopicInv(t) /\ topic[t] \in MonitoredTopics /\ topic[t].age \in Nat /\ rate[t].count \in Nat
        BY ConstantFacts DEF MonitorInv, MonitorTypes, MonitoredTopics
    <2>2. OnlineTopicsAreCounted
        BY <2>1, ConstantFacts DEF OnlineTopicsAreCounted, TopicInv, Stated, Counted
    <2>3. StatusIsShown
        BY <2>1 DEF StatusIsShown, TopicInv, Stated, MonitorInv, MonitorTypes
    <2>4. SilenceIsStale
        <3> SUFFICES ASSUME NEW t \in Names, topic[t].status = "Alive" PROVE ~SilentFor(t, StaleTime)
            BY DEF SilenceIsStale, MonitorInv, MonitorTypes
        <3>1. topic[t].age <= StaleTime + sinceCycle /\ sinceCycle \in 0..(StatsPeriod + MaxLag)
            BY <2>1 DEF TopicInv, Stated, MonitorInv, MonitorTypes
        <3> QED BY <2>1, <3>1, ConstantFacts DEF SilentFor
    <2>5. SilenceLowersTheRate
        <3> SUFFICES ASSUME NEW t \in Names, starts[t] = 1, rate[t].count # 0 PROVE ~SilentFor(t, RateRunsOut)
            BY DEF SilenceLowersTheRate, MonitorInv, MonitorTypes
        <3>1. topic[t].age <= RateRunsOut + Round /\ Round \in Nat /\ Round <= StatsPeriod + MaxLag
            BY <2>1, ConstantFacts DEF TopicInv, FirstRun, MonitorInv, MonitorTypes, Round
        <3> QED BY <2>1, <3>1, RoundFacts, ConstantFacts DEF SilentFor
    <2>6. LosslessIsFull
        BY <2>1 DEF LosslessIsFull, TopicInv
    <2>7. RateIsAlwaysDefined
        BY DEF RateIsAlwaysDefined, MonitorInv, Loop
    <2> QED BY <2>2, <2>3, <2>4, <2>5, <2>6, <2>7 DEF RatesAreRight
<1> QED BY <1>1, MonitorInvariance, PTL
===============================================================================
