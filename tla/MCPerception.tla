----------------------------- MODULE MCPerception -----------------------------
(***************************************************************************)
(* The two nodes that turn images into detections and detections into      *)
(* positions.  They share nothing but the text of a message, which is      *)
(* arbitrary here, so that each behaviour is one of either node, the other *)
(* one resting in an initial state.                                        *)
(*                                                                         *)
(* NanoOWL: three queries, one of them blank, and a buffer shorter than    *)
(* the number of queries that can arrive while the model loads.  The       *)
(* position node: two objects, frames of two sizes, and entries around the *)
(* edges of both.                                                          *)
(***************************************************************************)
EXTENDS NanoOwlNode, ObjectPosition

VARIABLE part

APerson == <<"a", "person">>
ABox == <<"a", "box">>
Chair == <<"chair">>
Car == <<"car">>

MCInitialQuery == <<APerson, ABox>>
MCQueryStrings == {<<Chair, Car>>, <<Car>>, << <<>> >>}

Entry(object, confidence, cx2) ==
    [read |-> TRUE, object |-> object, confidence |-> confidence, boxOk |-> TRUE, cx2 |-> cx2, cy2 |-> 1]

MCEntries ==
    { Entry("book", 19, 2), Entry("book", 20, 7), Entry("book", 50, -1), Entry("book", 50, 8),
      Entry("cup", 90, 3),
      [Entry("book", 60, 2) EXCEPT !.boxOk = FALSE],
      [Entry("book", 99, 2) EXCEPT !.read = FALSE] }

MCFrameSizes == { <<2, 3>>, <<4, 3>> }

mcVars == <<owlVars, positionVars, part>>

MCInit ==
    /\ Init /\ PositionInit
    /\ part \in {"owl", "position"}
    /\ part # "position" => targetObject = "book"

MCNext ==
    \/ part = "owl" /\ Next /\ UNCHANGED <<positionVars, part>>
    \/ part = "position" /\ PositionNext /\ UNCHANGED <<owlVars, part>>

MCSpec == MCInit /\ [][MCNext]_mcVars /\ Fairness
===============================================================================
