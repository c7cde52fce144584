-------------------------- MODULE MCTrackingSession -------------------------
(***************************************************************************)
(* TrackingSession on a small instance: two targets, four generations (up  *)
(* to three gotos outstanding at once).  A handler finds either everything *)
(* in order, with the rig moving or at rest and on or far off the target,  *)
(* or one thing wrong: with several wrong the first gate decides, so the   *)
(* other combinations add no step.                                         *)
(***************************************************************************)
EXTENDS TrackingSession

InOrder ==
  [calibrated : {TRUE}, program : {FALSE}, fresh : {TRUE}, moving : BOOLEAN,
   aim : {"ok"}, far : BOOLEAN]

Still == CHOOSE r \in InOrder : ~ r.moving /\ ~ r.far

OneThingWrong ==
  {[Still EXCEPT !.calibrated = FALSE], [Still EXCEPT !.program = TRUE],
   [Still EXCEPT !.fresh = FALSE]}
    \cup {[Still EXCEPT !.aim = v] : v \in AimVerdicts \ {"ok"}}

MCReadings == InOrder \cup OneThingWrong
=============================================================================
