---------------------------- MODULE MCIsaacCommon ----------------------------
(***************************************************************************)
(* isaac_ros_common: the message synchronizer of the C++ library and       *)
(* run_command of the Python one.  They share nothing: each behaviour is   *)
(* one of either, the other one resting in an initial state.               *)
(*                                                                         *)
(* Three streams with buffers of two messages, so that a buffer can be     *)
(* full while another is empty, and commands whose output ends with and    *)
(* without a newline and has an empty line.                                *)
(***************************************************************************)
EXTENDS MessageSynchronizer, LogProcess

VARIABLE part

SmallOutputs == {<<>>, <<"a", NL>>, <<"a", "b", NL, "c", NL>>, <<"a", NL, NL, "b">>, <<"a", NL, "b", NL, "c", NL>>}

mcVars == <<syncVars, logVars, part>>

MCInit ==
    /\ Init /\ LogInit
    /\ part \in {"sync", "log"}
    /\ part # "sync" => minNumber = 2 /\ ordered
    /\ part # "log" => mode = "all" /\ output = <<>>

LogStep(A) == part = "log" /\ A /\ UNCHANGED <<syncVars, part>>

MCNext ==
    \/ part = "sync" /\ Next /\ UNCHANGED <<logVars, part>>
    \/ LogStep(LogNext)

(* The copying loop goes on; the command may stop.                         *)
MCSpec == MCInit /\ [][MCNext]_mcVars /\ WF_mcVars(LogStep(Copying))
==============================================================================
