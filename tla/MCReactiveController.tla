------------------------- MODULE MCReactiveController -------------------------
(* Two boxes, just left of the centre (1) and right (2), depths on both    *)
(* sides of every distance and messages with people, chairs and entries    *)
(* that do not parse.                                                      *)
EXTENDS ReactiveController

APerson == <<"a", "person">>
Person == <<"person">>
Chair == <<"chair">>

MCStopQuery == <<Person>>
MCAvoidQuery == <<Chair>>
MCSlope == <<1, -2>>
MCFrames == {<<1, 2>>, <<3, 1>>, <<2, 0>>, <<4, 2>>}

Seen(label, box, confidence) == [label |-> label, box |-> box, confidence |-> confidence]

MCDetections ==
    { <<>>,
      <<Seen(APerson, 1, 50), Seen(Chair, 2, 40)>>,
      <<Seen(Chair, 1, 30), Seen(Chair, 2, 60)>>,
      <<Seen(Person, Unparsable, 50), Seen(Chair, 2, Unparsable), Seen(Chair, 1, 60)>> }
===============================================================================
