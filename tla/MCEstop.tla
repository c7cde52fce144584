------------------------------- MODULE MCEstop ------------------------------
(***************************************************************************)
(* Cockpit with nobody at the controls: pages press E-STOP and clear the   *)
(* latch, and send no other command.                                       *)
(***************************************************************************)
EXTENDS Cockpit

EstopOnlySpec == CockpitInit /\ [][CockpitNext /\ posted' = None]_cockpitVars
=============================================================================
