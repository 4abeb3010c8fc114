------------------------------ MODULE MCRosDemos ------------------------------
(***************************************************************************)
(* The ROS demos: the topic monitor, the managed talker with its client,   *)
(* and the programs about quality of service.  They are separate programs: *)
(* each behaviour is one of one of them, the others resting in an initial  *)
(* state.                                                                  *)
(*                                                                         *)
(* The monitor watches one topic, whose publisher starts twice.  The user  *)
(* of the talker, in C++ or in Python, asks for two transitions of his     *)
(* own.  The quality of service programs run with options around the       *)
(* boundaries of their periods; a tick is a quarter of a second.           *)
(***************************************************************************)
EXTENDS TopicMonitor, Lifecycle, QosDemos

VARIABLE part

OneTopic == [small_data |-> [matches |-> TRUE, types |-> {"std_msgs/msg/Header"}]]

Options == [program |-> "", policy |-> "none", publishFor |-> 0, pauseFor |-> 0, deadline |-> 0, assertPeriod |-> 0, lease |-> 1,
            killAfter |-> 0, subscribeAfter |-> 0, lifespan |-> 0, publishCount |-> 0, depth |-> 10]

DeadlineRuns == {[Options EXCEPT !.program = "deadline", !.publishFor = f, !.pauseFor = p, !.deadline = d] :
                    f \in {4, 6}, p \in {0, 3, 8}, d \in {1, 3}}
LivelinessRuns == {[Options EXCEPT !.program = "liveliness", !.policy = p, !.assertPeriod = a, !.lease = l, !.killAfter = 5] :
                      p \in {"AUTOMATIC", "MANUAL_BY_TOPIC"}, a \in {0, 1, 2}, l \in {1, 3}}
LifespanRuns == {[Options EXCEPT !.program = "lifespan", !.subscribeAfter = s, !.lifespan = l, !.publishCount = 5, !.depth = d] :
                    s \in {3, 7}, l \in {2, 5}, d \in {1, 2, 10}}
IncompatibleRuns == {[Options EXCEPT !.program = "incompatible_qos", !.policy = p, !.publishCount = 3] :
                        p \in {"durability", "deadline", "liveliness_policy", "liveliness_lease_duration", "reliability"}}

AllRuns == DeadlineRuns \cup LivelinessRuns \cup LifespanRuns \cup IncompatibleRuns

mcVars == <<part, monitorVars, lifecycleVars, qosVars>>

FirstRun == [Options EXCEPT !.program = "deadline", !.publishFor = 4, !.deadline = 1]

MCInit ==
    /\ part \in {"monitor", "talker", "qos"}
    /\ MonitorInit /\ LifecycleInit /\ QosInit
    /\ part # "talker" => ~python
    /\ part # "qos" => run = FirstRun

MCNext ==
    \/ part = "monitor" /\ MonitorNext /\ UNCHANGED <<part, lifecycleVars, qosVars>>
    \/ part = "talker" /\ LifecycleNext /\ UNCHANGED <<part, monitorVars, qosVars>>
    \/ part = "qos" /\ QosNext /\ UNCHANGED <<part, monitorVars, lifecycleVars>>

MCSpec == MCInit /\ [][MCNext]_mcVars
===============================================================================
