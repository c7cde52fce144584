--------------------------- MODULE MCSunSupervisor --------------------------
(***************************************************************************)
(* SunSupervisor beside a small session: one target, no more than one goto *)
(* and a half of each kind outstanding at once (one live, one abandoned).  *)
(* The session's own gates are checked elsewhere, so its handlers find     *)
(* everything in order or no calibration.  The guard finds everything in   *)
(* order, with every plan, or one thing wrong.                             *)
(***************************************************************************)
EXTENDS SunSupervisor

Good == [calibrated |-> TRUE, program |-> FALSE, fresh |-> TRUE, moving |-> FALSE,
         aim |-> "ok", far |-> FALSE]

MCReadings == {Good, [Good EXCEPT !.calibrated = FALSE], [Good EXCEPT !.far = TRUE]}

Daylight == [calibrated : {TRUE}, fresh : {TRUE}, computed : {TRUE}, up : {TRUE},
             tripped : {TRUE}, plan : 0 .. 2]

Clear == [calibrated |-> TRUE, fresh |-> TRUE, computed |-> TRUE, up |-> TRUE,
          tripped |-> FALSE, plan |-> 1]

MCSkies ==
  Daylight \cup
  {Clear, [Clear EXCEPT !.calibrated = FALSE], [Clear EXCEPT !.fresh = FALSE],
   [Clear EXCEPT !.computed = FALSE], [Clear EXCEPT !.up = FALSE]}
=============================================================================
