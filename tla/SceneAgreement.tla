---------------------------- MODULE SceneAgreement ----------------------------
(***************************************************************************)
(* What the car needs of the loop that decides the scene: one verdict is   *)
(* reached, it never changes, and the controller, which knows nothing at   *)
(* first, comes to know this verdict and never another.                    *)
(***************************************************************************)
CONSTANTS
    Scenes,      \* the scenes there are
    Undecided,   \* the verdict before there is one
    Unknown      \* what the controller knows at first

VARIABLES
    verdict,     \* the scene decided on
    known        \* the scene the controller drives by

agreement == <<verdict, known>>

Init == verdict = Undecided /\ known = Unknown

Decide ==
    /\ verdict = Undecided
    /\ verdict' \in Scenes
    /\ UNCHANGED known

Learn ==
    /\ verdict \in Scenes /\ known # verdict
    /\ known' = verdict
    /\ UNCHANGED verdict

(* What may never happen, and what has to happen on top of it.             *)
Safety == Init /\ [][Decide \/ Learn]_agreement

Spec == Safety /\ WF_agreement(Decide) /\ WF_agreement(Learn)
===============================================================================
