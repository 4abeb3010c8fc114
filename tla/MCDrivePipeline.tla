---------------------------- MODULE MCDrivePipeline ----------------------------
(* Two boxes: what is in the first stands within the stop distance, what   *)
(* is in the second is within the bypass distance.                         *)
EXTENDS DrivePipeline

APerson == <<"a", "person">>
Chair == <<"chair">>

MCInitialQuery == <<APerson, Chair>>
MCQueryStrings == {<<APerson>>}
MCStopQuery == << <<"person">> >>
MCAvoidQuery == <<Chair>>
MCSlope == <<1, -2>>
MCFrames == {<<1, 2>>}
===============================================================================
