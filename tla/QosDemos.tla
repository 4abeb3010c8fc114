------------------------------ MODULE QosDemos ------------------------------
(***************************************************************************)
(* quality_of_service_demo_py: the Talker and the Listener of              *)
(* common_nodes.py and the programs deadline, liveliness, lifespan and     *)
(* incompatible_qos, which drive them with timers on one executor.  What a *)
(* QoS policy does (deadline, lease, lifespan, matching of profiles) is    *)
(* the middleware's and external.                                          *)
(*                                                                         *)
(* Time is in ticks; a timer fires in the tick in which it is due, and     *)
(* timers due in the same tick in any order.                               *)
(***************************************************************************)
EXTENDS Integers, Sequences, FiniteSets, SequencesExt

CONSTANTS
    Runs,      \* the programs with their options
    Period,    \* the publish timer of Talker
    MaxTicks   \* bound: ticks a program is observed

(* The policies of incompatible_qos.                                       *)
Ranks == {"durability", "liveliness_policy", "reliability"}
Durations == {"deadline", "liveliness_lease_duration"}

Programs == {"deadline", "liveliness", "lifespan", "incompatible_qos"}

(* The options of the programs are positive, but for a pause and a period  *)
(* of assertions, which may be 0; those of other programs are 0.           *)
ASSUME QosAssumption ==
    /\ Period \in Nat \ {0} /\ MaxTicks \in Nat
    /\ \A r \in Runs :
        /\ r.program \in Programs
        /\ r.publishFor \in Nat /\ r.pauseFor \in Nat /\ r.deadline \in Nat
        /\ r.assertPeriod \in Nat /\ r.lease \in Nat \ {0} /\ r.killAfter \in Nat
        /\ r.subscribeAfter \in Nat /\ r.lifespan \in Nat /\ r.publishCount \in Nat /\ r.depth \in Nat \ {0}
        /\ r.program # "deadline" => r.publishFor = 0 /\ r.deadline = 0
        /\ r.program = "liveliness" => r.killAfter > 0 /\ r.policy \in {"AUTOMATIC", "MANUAL_BY_TOPIC"}
        /\ r.program # "liveliness" => r.assertPeriod = 0 /\ r.killAfter = 0
        /\ r.program # "lifespan" => r.subscribeAfter = 0
        /\ r.program = "incompatible_qos" <=> r.policy \in Ranks \cup Durations
        /\ r.program \in {"deadline", "liveliness"} => r.publishCount = 0

VARIABLES
    run,         \* the program that runs, with its options
    now,
    timer,       \* timer -> ticks until it fires, Off if cancelled
    destroyed,   \* the talker has been destroyed
    publishCount,
    history,     \* messages the publisher keeps, [n, age]
    subscribed,
    heard,       \* messages the listener got
    silence,     \* ticks since the last message
    deadlineLeft, misses,  \* ticks to the deadline; when deadlines were missed
    leaseLeft, alive       \* ticks to the end of the lease; liveliness the listener sees

qosVars == <<run, now, timer, destroyed, publishCount, history, subscribed, heard, silence,
             deadlineLeft, misses, leaseLeft, alive>>
middleware == <<history, heard, silence, deadlineLeft, misses, leaseLeft, alive>>

Off == -1
Timers == {"publish", "pause", "publish_for", "assert", "kill", "subscribe"}
OrOff(ticks) == IF ticks > 0 THEN ticks ELSE Off

-------------------------------------------------------------------------------
(* incompatible_qos: the profiles, of which one policy differs.  Policies  *)
(* are numbered in the order of what they offer, durations are in seconds. *)
Profile == [p \in Ranks \cup Durations |-> IF p \in Durations THEN 9 ELSE IF p = "reliability" THEN 2 ELSE 1]

Offered(p) == IF p \in Ranks THEN 1 ELSE 2
Requested(p) == IF p \in Ranks THEN 2 ELSE 1

PublisherProfile == [p \in DOMAIN Profile |-> IF p = run.policy THEN Offered(p) ELSE Profile[p]]
SubscriptionProfile == [p \in DOMAIN Profile |-> IF p = run.policy THEN Requested(p) ELSE Profile[p]]

(* The middleware's rule: no less offered than requested, no later.        *)
Compatible ==
    /\ \A p \in Ranks : PublisherProfile[p] >= SubscriptionProfile[p]
    /\ \A p \in Durations : PublisherProfile[p] <= SubscriptionProfile[p]

-------------------------------------------------------------------------------
(* Talker.__init__, Listener.__init__ and the timers of the programs.      *)
QosInit ==
    /\ run \in Runs /\ now = 0
    /\ timer = [t \in Timers |-> CASE t = "publish" -> Period [] t = "pause" -> Off
                                   [] t = "publish_for" -> OrOff(run.publishFor)
                                   [] t = "assert" -> OrOff(run.assertPeriod)
                                   [] t = "kill" -> OrOff(run.killAfter)
                                   [] t = "subscribe" -> OrOff(run.subscribeAfter)]
    /\ destroyed = FALSE /\ publishCount = 0 /\ history = <<>>
    /\ subscribed = (run.subscribeAfter = 0) /\ heard = <<>>
    /\ silence = 0 /\ deadlineLeft = OrOff(run.deadline) /\ misses = {}
    /\ leaseLeft = run.lease /\ alive = (run.policy # "MANUAL_BY_TOPIC")

(* publish_count messages are the last.                                    *)
LastMessage(count) == run.publishCount > 0 /\ count >= run.publishCount

(* Liveliness is asserted: the lease is renewed.                           *)
Asserted == leaseLeft' = run.lease /\ alive' = TRUE

(* publisher.publish: the middleware delivers and keeps the message.       *)
Delivered(n) ==
    /\ heard' = IF subscribed /\ Compatible THEN Append(heard, n) ELSE heard
    /\ history' = LET all == Append(history, [n |-> n, age |-> 0])
                  IN  SubSeq(all, IF Len(all) > run.depth THEN 2 ELSE 1, Len(all))
    /\ silence' = 0 /\ deadlineLeft' = OrOff(run.deadline)
    /\ Asserted
    /\ UNCHANGED misses

(* Talker.publish; next is what the caller does with the publish timer.    *)
PublishThen(next) ==
    /\ publishCount' = publishCount + 1
    /\ Delivered(publishCount)
    /\ timer' = next

(* A program that counts messages ends its loop with the last one.         *)
Spinning == run.program = "incompatible_qos" => publishCount < run.publishCount
Due(t) == Spinning /\ timer[t] = 0

PublishTimer ==
    /\ Due("publish")
    /\ PublishThen([timer EXCEPT !["publish"] = IF LastMessage(publishCount + 1) THEN Off ELSE Period])
    /\ UNCHANGED <<run, now, destroyed, subscribed>>

(* pause_for ignores the call while the talker pauses.                     *)
Ignored == timer["pause"] # Off

(* The publish_for timer of deadline calls pause_for.                      *)
PauseFor ==
    /\ Due("publish_for")
    /\ timer' = IF Ignored THEN [timer EXCEPT !["publish_for"] = run.publishFor]
                ELSE [timer EXCEPT !["publish_for"] = run.publishFor, !["publish"] = Off, !["pause"] = run.pauseFor]
    /\ UNCHANGED <<run, now, destroyed, publishCount, subscribed, middleware>>

(* Mutant: nothing is published when the pause is over.                    *)
PauseExpired_Silent ==
    /\ Due("pause")
    /\ timer' = [timer EXCEPT !["publish"] = Period, !["pause"] = Off]
    /\ UNCHANGED <<run, now, destroyed, publishCount, subscribed, middleware>>

(* _pause_expired publishes, restarts the publish timer and removes its    *)
(* own.                                                                    *)
PauseExpired ==
    /\ Due("pause")
    /\ PublishThen([timer EXCEPT !["publish"] = Period, !["pause"] = Off])
    /\ UNCHANGED <<run, now, destroyed, subscribed>>

(* publisher.assert_liveliness.                                            *)
AssertTimer ==
    /\ Due("assert")
    /\ Asserted
    /\ timer' = [timer EXCEPT !["assert"] = run.assertPeriod]
    /\ UNCHANGED <<run, now, destroyed, publishCount, subscribed, history, heard, silence, deadlineLeft, misses>>

(* What Talker.stop cancels.                                               *)
StopsWith == {"assert", "publish"}

(* kill_talker.                                                            *)
KillTimer ==
    /\ Due("kill")
    /\ LET ends == {"kill"} \cup (IF run.policy = "AUTOMATIC" THEN {"publish", "assert", "pause"} ELSE StopsWith)
       IN  timer' = [t \in Timers |-> IF t \in ends THEN Off ELSE timer[t]]
    /\ destroyed' = (run.policy = "AUTOMATIC")
    /\ UNCHANGED <<run, now, publishCount, subscribed, middleware>>

MayStart == ~subscribed

(* The periodic subscribe timer of lifespan calls start_listening: the     *)
(* subscription gets what the publisher still keeps.                       *)
StartListening ==
    /\ Due("subscribe")
    /\ subscribed' = TRUE
    /\ heard' = IF MayStart THEN heard \o [i \in 1 .. Len(history) |-> history[i].n] ELSE heard
    /\ timer' = [timer EXCEPT !["subscribe"] = run.subscribeAfter]
    /\ UNCHANGED <<run, now, destroyed, publishCount, history, silence, deadlineLeft, misses, leaseLeft, alive>>

-------------------------------------------------------------------------------
(* A tick: the middleware drops expired messages, which are the oldest of  *)
(* those it keeps in order of age, and watches deadline and lease.         *)
Older(m) == [m EXCEPT !.age = @ + 1]
Expired == {i \in 1 .. Len(history) : run.lifespan > 0 /\ Older(history[i]).age >= run.lifespan}
Unexpired == [i \in 1 .. Len(history) - Cardinality(Expired) |-> Older(history[i + Cardinality(Expired)])]
RenewsItself == run.policy # "MANUAL_BY_TOPIC" /\ ~destroyed

QosTick ==
    /\ now < MaxTicks /\ Spinning /\ \A t \in Timers : timer[t] # 0
    /\ now' = now + 1 /\ silence' = silence + 1
    /\ timer' = [t \in Timers |-> IF timer[t] = Off THEN Off ELSE timer[t] - 1]
    /\ history' = Unexpired
    /\ deadlineLeft' = IF deadlineLeft = 1 THEN run.deadline ELSE IF deadlineLeft = Off THEN Off ELSE deadlineLeft - 1
    /\ misses' = IF deadlineLeft = 1 THEN misses \cup {IF timer["pause"] = Off THEN "publishing" ELSE "paused"} ELSE misses
    /\ leaseLeft' = IF RenewsItself THEN run.lease ELSE IF leaseLeft > 0 THEN leaseLeft - 1 ELSE 0
    /\ alive' = (alive /\ leaseLeft' > 0)
    /\ UNCHANGED <<run, destroyed, publishCount, subscribed, heard>>

QosNext == PublishTimer \/ PauseFor \/ PauseExpired \/ AssertTimer \/ KillTimer \/ StartListening \/ QosTick

QosSpec == QosInit /\ [][QosNext]_qosVars

-------------------------------------------------------------------------------
(* deadline: with a deadline longer than the publish period, deadlines are *)
(* missed only during a pause, and not at all without one (README.md: "the *)
(* publisher doesn't actually pause, no deadline misses should occur").    *)
(* No pause is prolonged: the talker is silent for at most the pause and a *)
(* publish period.                                                         *)
MissesOnlyWhenPaused ==
    /\ run.deadline > Period => "publishing" \notin misses
    /\ run.pauseFor = 0 /\ run.deadline > Period => misses = {}
    /\ run.program = "deadline" => silence <= run.pauseFor + Period

(* The listener hears consecutive messages, each once, up to the last one, *)
(* and at most publish_count; before it subscribed, those still alive.     *)
HeardOnceInOrder ==
    /\ \A i \in 1 .. Len(heard) : heard[i] = Last(heard) - (Len(heard) - i)
    /\ subscribed /\ Compatible /\ heard # <<>> => Last(heard) = publishCount - 1
    /\ run.publishCount > 0 => publishCount <= run.publishCount

(* liveliness: a talker that was killed is not alive for the listener once *)
(* the lease is over, and a talker that asserts its liveliness often       *)
(* enough is alive until then.                                             *)
LeaseTellsTheKill ==
    run.program = "liveliness" =>
        /\ now > run.killAfter + run.lease => ~alive
        /\ now >= Period /\ now < run.killAfter /\ run.assertPeriod \in 1 .. (run.lease - 1) => alive \/ timer["publish"] = 0

(* incompatible_qos: whatever policy is chosen, the listener hears nothing. *)
IncompatibleHearsNothing == run.program = "incompatible_qos" => heard = <<>>

(* What each program is there to show, it shows.                           *)
PoliciesTell ==
    /\ MissesOnlyWhenPaused
    /\ HeardOnceInOrder
    /\ LeaseTellsTheKill
    /\ IncompatibleHearsNothing
=============================================================================
