---------------------------- MODULE MCScenePipeline ----------------------------
(* One specific label per scene and one label (cone) that both probe       *)
(* queries ask for.                                                        *)
EXTENDS ScenePipeline, TLC

Chair == <<"chair">>
Car == <<"car">>
Cone == <<"cone">>

MCProbeQueries == ("indoor" :> <<Chair, Cone>>) @@ ("outdoor" :> <<Car, Cone>>)
MCQueries == ("indoor" :> <<Chair>>) @@ ("outdoor" :> <<Car>>)
MCNeutralQuery == <<>>
MCInitialQuery == << <<"a", "box">> >>
===============================================================================
