---------------------------- MODULE MCSceneManager ----------------------------
(* A small instance of SceneManager: one specific label per scene, a label *)
(* of both probe queries (cone), a neutral one (person, with and without   *)
(* its article) and confidences around the margin of 25 hundredths.        *)
EXTENDS SceneManager

Person == <<"person">>
APerson == <<"a", "person">>
Chair == <<"chair">>
Car == <<"car">>
TheCar == <<"the", "car">>
Cone == <<"cone">>

MCProbeQueries == ("indoor" :> <<Person, Chair, Cone>>) @@ ("outdoor" :> <<APerson, Car, Cone>>)
MCQueries == ("indoor" :> <<Person, Chair>>) @@ ("outdoor" :> <<Person, Car>>)
MCNeutralQuery == <<Person, <<>> >>

Seen(label, confidence) == [label |-> label, confidence |-> confidence]

MCMessages ==
    { <<Seen(Chair, 20)>>, <<Seen(TheCar, 25)>>,
      <<Seen(Chair, 25), Seen(Car, 20)>>,
      <<Seen(APerson, 30), Seen(Cone, 30), Seen(Car, Unparsable)>> }
===============================================================================
