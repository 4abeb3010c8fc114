------------------------------ MODULE Lifecycle ------------------------------
(***************************************************************************)
(* demos/lifecycle and demos/lifecycle_py: a managed talker, in C++ or in  *)
(* Python, the service client whose script leads it through its states,    *)
(* and a user who changes its state from the command line.                 *)
(*                                                                         *)
(* The talker's executor has one thread: a timer callback runs between the *)
(* services it handles, never during one.  A transition of the state       *)
(* machine, which is outside this repository, consists of its callback and *)
(* the change of state the callback's SUCCESS leads to.                    *)
(***************************************************************************)
EXTENDS Naturals, Sequences

CONSTANTS
    UserTransitions,  \* the transitions the user may ask for
    MaxUser,          \* bound: requests of the user
    MaxCount          \* bound: messages numbered

VARIABLES
    python,    \* whether the talker is the one of lifecycle_py
    state,     \* the talker's primary state
    busy,      \* the transition whose callback runs, or "no"
    timers,    \* timers that call publish
    pub,       \* the publisher: "none", "inactive", "activated", "destroyed"
    crashed,   \* an exception has ended the talker
    count,     \* messages numbered so far
    sent,      \* the number sent last
    queue,     \* requests the talker has not handled, [from, ask]
    answer,    \* the answer to the script's request: "none", "yes", "no"
    step,      \* which of its blocks the script is in
    script,    \* where it is in that block
    executor,  \* the client's executor: "spins", "woken" or "returned"
    asked      \* requests of the user so far

lifecycleVars == <<python, state, busy, timers, pub, crashed, count, sent, queue, answer, step, script, executor, asked>>
talker == <<python, state, busy, timers, pub, crashed, count, sent>>

LifecycleInit ==
    /\ python \in BOOLEAN /\ state = "unconfigured" /\ busy = "no" /\ timers = 0 /\ pub = "none" /\ crashed = FALSE
    /\ count = 0 /\ sent = 0 /\ queue = <<>> /\ answer = "none"
    /\ step = 1 /\ script = "change" /\ executor = "spins" /\ asked = 0

(* callee_script.                                                          *)
Transitions == <<"configure", "activate", "deactivate", "activate", "deactivate", "cleanup", "shutdown">>

(* The transitions of the managed node's state machine.                    *)
From(t) == CASE t = "configure" -> {"unconfigured"}
             [] t = "activate" -> {"inactive"}
             [] t = "deactivate" -> {"active"}
             [] t = "cleanup" -> {"inactive"}
             [] t = "shutdown" -> {"unconfigured"}
             [] t = "active_shutdown" -> {"active"}
             [] OTHER -> {}
To(t) == CASE t = "configure" -> "inactive" [] t = "activate" -> "active" [] t = "deactivate" -> "inactive"
           [] t = "cleanup" -> "unconfigured" [] OTHER -> "finalized"

-------------------------------------------------------------------------------
(* The talker's executor runs one callback at a time.                      *)
ExecutorFree == ~crashed /\ busy = "no"

(* publish: the number is counted in every state, and sent by an activated *)
(* publisher.  With a destroyed one the call raises.                       *)
Publish ==
    /\ ExecutorFree /\ timers > 0 /\ count < MaxCount
    /\ count' = count + 1
    /\ sent' = IF pub = "activated" THEN count' ELSE sent
    /\ crashed' = (pub = "destroyed")
    /\ UNCHANGED <<python, state, busy, timers, pub, queue, answer, step, script, executor, asked>>

(* on_configure: a publisher, not activated, and a timer.                  *)
OnConfigure == pub' = "inactive" /\ timers' = timers + 1

(* on_activate and on_deactivate of the parent class.                      *)
OnActivate == pub' = "activated" /\ UNCHANGED timers
OnDeactivate == pub' = "inactive" /\ UNCHANGED timers

(* on_cleanup and on_shutdown in C++.                                      *)
Release == pub' = "none" /\ timers' = 0

(* The same in Python: self._timer is still None, the timer is in          *)
(* self._timer_.  The destroyed publisher, kept in self._pub, keeps its    *)
(* state: an inactive one drops what it is given, an activated one raises. *)
ReleaseInPython ==
    /\ pub' = IF pub = "activated" THEN "destroyed" ELSE pub
    /\ UNCHANGED timers

Callback(t) == CASE t = "configure" -> OnConfigure
                 [] t = "activate" -> OnActivate
                 [] t = "deactivate" -> OnDeactivate
                 [] OTHER -> IF python THEN ReleaseInPython ELSE Release

Answered(request, a) == answer' = IF request.from = "script" /\ script \in {"wait", "read"} THEN a ELSE answer

(* The talker handles a request: it tells its state, refuses a transition  *)
(* or begins one.                                                          *)
GetState ==
    /\ ExecutorFree /\ queue # <<>> /\ Head(queue).ask = "state"
    /\ Answered(Head(queue), "yes") /\ queue' = Tail(queue)
    /\ UNCHANGED <<talker, step, script, executor, asked>>

Refuse ==
    /\ ExecutorFree /\ queue # <<>> /\ Head(queue).ask # "state" /\ state \notin From(Head(queue).ask)
    /\ Answered(Head(queue), "no") /\ queue' = Tail(queue)
    /\ UNCHANGED <<talker, step, script, executor, asked>>

BeginTransition ==
    /\ ExecutorFree /\ queue # <<>> /\ Head(queue).ask # "state" /\ state \in From(Head(queue).ask)
    /\ busy' = Head(queue).ask
    /\ Callback(busy')
    /\ UNCHANGED <<python, state, crashed, count, sent, queue, answer, step, script, executor, asked>>

EndTransition ==
    /\ busy # "no"
    /\ state' = To(busy) /\ busy' = "no"
    /\ Answered(Head(queue), "yes") /\ queue' = Tail(queue)
    /\ UNCHANGED <<python, timers, pub, crashed, count, sent, step, script, executor, asked>>

-------------------------------------------------------------------------------
(* The script: change_state, get_state, and the next block.                *)
Send(ask, next) ==
    /\ queue' = Append(queue, [from |-> "script", ask |-> ask])
    /\ answer' = "none" /\ script' = next
    /\ UNCHANGED <<talker, step, executor, asked>>

ChangeState == script = "change" /\ Send(Transitions[step], "wait")
AskState == script = "get" /\ Send("state", "read")

(* Mutant: a request that was refused counts as done.                      *)
Succeeded_Answered == answer # "none"

Succeeded == answer = "yes"

AfterBlock == IF step = Len(Transitions) THEN "completed" ELSE "change"

(* wait_for_result sees the answer, which the client's executor has taken. *)
ResultReady ==
    /\ script \in {"wait", "read"} /\ answer # "none"
    /\ script' = IF ~Succeeded THEN "gave up" ELSE IF script = "wait" THEN "get" ELSE AfterBlock
    /\ step' = IF script' = "change" THEN step + 1 ELSE step
    /\ UNCHANGED <<talker, queue, answer, executor, asked>>

(* The service is not available, or its answer does not come in time.  The *)
(* request stays sent.                                                     *)
TimeOut ==
    /\ script \in {"change", "wait", "get", "read"} /\ answer = "none"
    /\ script' = "gave up"
    /\ UNCHANGED <<talker, queue, answer, step, executor, asked>>

ScriptDone == script \in {"completed", "gave up"}

(* wake_executor waits for the script.                                     *)
WakeExecutor ==
    /\ executor = "spins" /\ ScriptDone
    /\ executor' = "woken"
    /\ UNCHANGED <<talker, queue, answer, step, script, asked>>

(* spin_until_future_complete looks at the future when it is woken.        *)
SpinReturns ==
    /\ executor = "woken"
    /\ executor' = "returned"
    /\ UNCHANGED <<talker, queue, answer, step, script, asked>>

(* A user asks for a transition.                                           *)
UserAsks(t) ==
    /\ asked < MaxUser
    /\ queue' = Append(queue, [from |-> "user", ask |-> t]) /\ asked' = asked + 1
    /\ UNCHANGED <<talker, answer, step, script, executor>>

-------------------------------------------------------------------------------
TalkerSteps == GetState \/ Refuse \/ BeginTransition \/ EndTransition
ClientSteps == ChangeState \/ AskState \/ ResultReady \/ TimeOut \/ WakeExecutor \/ SpinReturns
LifecycleNext == Publish \/ TalkerSteps \/ ClientSteps \/ \E t \in UserTransitions : UserAsks(t)

LifecycleSpec == LifecycleInit /\ [][LifecycleNext]_lifecycleVars

-------------------------------------------------------------------------------
(* Messages are sent only in the active state, though publish is called in *)
(* every state and the publisher is activated while the state is not yet   *)
(* (README.rst: "the node only performs its main functionality while in    *)
(* the active state").                                                     *)
SendsOnlyWhenActive == sent' # sent => state = "active" /\ sent' > sent

(* A script that has come to its end has shut the talker down, whatever a  *)
(* user asked for meanwhile.                                               *)
CompletedMeansFinalized == script = "completed" => state = "finalized"

(* The C++ talker has one timer and a publisher exactly while it is        *)
(* configured, after any sequence of transitions.                          *)
ResourcesFollowState ==
    ~python /\ busy = "no" =>
        IF state \in {"inactive", "active"} THEN timers = 1 /\ pub # "none" ELSE timers = 0 /\ pub = "none"

(* However the script's requests, a user's and the timer interleave, what  *)
(* the talker does and holds follows its state, and the script knows the   *)
(* state in which it leaves it.                                            *)
TalkerFollowsItsState ==
    [][SendsOnlyWhenActive /\ CompletedMeansFinalized' /\ ResourcesFollowState']_lifecycleVars

-------------------------------------------------------------------------------
(* The inductive invariant behind it.  The state the talker's resources    *)
(* are made for: during a transition, the one it leads to.                 *)
StateToBe == IF busy = "no" THEN state ELSE To(busy)

(* The transition under way is the one asked for first.                    *)
TransitionInv ==
    busy # "no" => state \in From(busy) /\ queue # <<>> /\ Head(queue).ask = busy

(* What the talker holds.                                                  *)
ResourceInv ==
    /\ pub = "activated" => StateToBe = "active"
    /\ ~python => IF StateToBe \in {"inactive", "active"} THEN timers = 1 /\ pub # "none"
                                                           ELSE timers = 0 /\ pub = "none"

(* The numbers of the messages.                                            *)
CountInv == count \in Nat /\ sent \in 0..count

OfScript == {i \in DOMAIN queue : queue[i].from = "script"}

Requests == [from : {"script", "user"},
             ask : {Transitions[k] : k \in 1..Len(Transitions)} \cup {"state"} \cup UserTransitions]

(* The script has at most one request under way: what it asks for at this  *)
(* point, while it waits for the answer.                                   *)
ScriptInv ==
    /\ queue \in Seq(Requests) /\ step \in 1..Len(Transitions)
    /\ script \in {"change", "wait", "get", "read", "completed", "gave up"}
    /\ \A i, j \in OfScript : i = j
    /\ script # "gave up" /\ OfScript # {} =>
           /\ script \in {"wait", "read"} /\ answer = "none"
           /\ \A i \in OfScript : queue[i].ask = IF script = "wait" THEN Transitions[step] ELSE "state"

(* In the last block, the script goes on only once the talker is shut down.*)
ShutdownInv ==
    /\ step = Len(Transitions) /\ (script \in {"get", "read"} \/ (script = "wait" /\ answer = "yes")) =>
           state = "finalized"
    /\ CompletedMeansFinalized

LifecycleInv == TransitionInv /\ ResourceInv /\ CountInv /\ ScriptInv /\ ShutdownInv
=============================================================================
