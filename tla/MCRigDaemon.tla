----------------------------- MODULE MCRigDaemon ----------------------------
(***************************************************************************)
(* RigDaemon with two targets, one jog call and a follower that gives up   *)
(* at the third poll in a row without its aircraft.                        *)
(***************************************************************************)
EXTENDS RigDaemon

Good == [calibrated |-> TRUE, program |-> FALSE, fresh |-> TRUE, moving |-> FALSE,
         aim |-> "ok", far |-> FALSE]

MCReadings == {Good, [Good EXCEPT !.calibrated = FALSE], [Good EXCEPT !.aim = "pan"]}
=============================================================================
