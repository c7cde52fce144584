----------------------------- MODULE Calibration ----------------------------
(***************************************************************************)
(* The calibration profile (calibration.ts), the tools that build it       *)
(* (geo-tools.ts, imu-tools.ts) and set_home (tools.ts, device.ts), which  *)
(* takes the ground from under it by moving the origin the rig counts its  *)
(* steps from.  The tools are handlers of one event loop and interleave    *)
(* where they await: solve_calibration its gravity burst, set_home its     *)
(* POST, characterize_imu each leg of its sweep.                           *)
(*                                                                         *)
(* What was measured is modelled by whether it still holds: TRUE if it was *)
(* measured at the rig's present location and from its present origin.     *)
(* The sun lock and a tracking session refuse the tools at moments of      *)
(* their own; a tool refused is a tool not called.                         *)
(***************************************************************************)
EXTENDS Naturals, Sequences

CONSTANTS
  Unset,          \* undefined
  SweepPositions  \* how many SWEEP_POSITIONS there are

ASSUME CalAssumption == Unset \notin BOOLEAN /\ SweepPositions \in Nat \ {0}

VARIABLES
  homing,    \* a home the rig has accepted and not yet carried out
  homeCall,  \* set_home: its POST, or "none"
  profile,   \* CalibrationStore.profile
  saved,     \* what the calibration file holds
  solving,   \* what the profile solve_calibration started from is worth, or Unset
  swept,     \* legs a characterize_imu has behind it
  tainted    \* history: a writer overlapped another, failed or died half done

homeVars == <<homing, homeCall>>
profileVars == <<profile, saved, tainted>>
calVars == <<homeVars, profileVars, solving, swept>>

Sightings == {s \in Seq(BOOLEAN) : Len(s) <= 2}

(* cHead comes with the orientation of a gravity solve.                    *)
Profiles ==
  [rig : BOOLEAN, sightings : Sightings, orientation : BOOLEAN \cup {Unset},
   cHead : BOOLEAN, imuMounting : BOOLEAN]

EmptyProfile ==
  [rig |-> FALSE, sightings |-> <<>>, orientation |-> Unset, cHead |-> FALSE,
   imuMounting |-> FALSE]

CalTypeOK ==
  /\ homing \in BOOLEAN
  /\ homeCall \in {"none", "sent", "accepted"}
  /\ profile \in Profiles
  /\ saved \in Profiles
  /\ solving \in BOOLEAN \cup {Unset}
  /\ swept \in 0 .. SweepPositions
  /\ tainted \in BOOLEAN

CalInit ==
  /\ homing = FALSE
  /\ homeCall = "none"
  /\ profile \in {EmptyProfile, [EmptyProfile EXCEPT !.imuMounting = TRUE]}
  /\ saved = profile
  /\ solving = Unset
  /\ swept = 0
  /\ tainted = FALSE

isCalibrated == profile.rig /\ profile.orientation # Unset
-----------------------------------------------------------------------------
(* The store's writers: memory, then the file, which may fail.             *)
Save(p, overlapped) ==
  /\ profile' = p
  /\ \/ saved' = p /\ tainted' = (tainted \/ overlapped)
     \/ saved' = saved /\ tainted' = TRUE

(* Sightings, solution and all else go; whatever is kept of the place      *)
(* before no longer holds.                                                 *)
setRigLocation == [EmptyProfile EXCEPT !.rig = TRUE]

LastTwo(s, holds) == IF s = <<>> THEN <<holds>> ELSE <<s[Len(s)], holds>>

addSighting(holds) ==
  [profile EXCEPT !.sightings = LastTwo(@, holds), !.orientation = Unset, !.cHead = FALSE]

Worth(p) == \A i \in DOMAIN p.sightings : p.sightings[i]

setOrientation(holds) == [profile EXCEPT !.orientation = holds, !.cHead = FALSE]

setGravityCalibration(holds) == [profile EXCEPT !.orientation = holds, !.cHead = TRUE]

(* Mutant: the sightings go, and R stays.                                  *)
InvalidateSightingsOnly == [profile EXCEPT !.sightings = <<>>]

invalidateCalibration ==
  [profile EXCEPT !.sightings = <<>>, !.orientation = Unset, !.cHead = FALSE]

(* What is left of p when the rig's origin moves.                          *)
Outdated(p) ==
  [p EXCEPT !.sightings = [i \in DOMAIN @ |-> FALSE],
            !.orientation = IF @ = Unset THEN Unset ELSE FALSE]
-----------------------------------------------------------------------------
(* The geo tools.  The file of the place before can only be loaded again   *)
(* if the new profile was not saved.                                       *)
SetRigLocation ==
  /\ profile' = setRigLocation
  /\ \/ saved' = profile' /\ tainted' = (tainted \/ solving # Unset)
     \/ saved' = Outdated(saved) /\ tainted' = TRUE
  /\ solving' = IF solving = Unset THEN Unset ELSE FALSE
  /\ UNCHANGED <<homeVars, swept>>

ClearCalibration ==
  /\ Save(EmptyProfile, solving # Unset)
  /\ UNCHANGED <<homeVars, solving, swept>>

(* An angle read while a home is on its way will be of the origin before.  *)
SightLandmark ==
  /\ profile.rig
  /\ Save(addSighting(TRUE), solving # Unset \/ homing)
  /\ UNCHANGED <<homeVars, solving, swept>>

SolveBegins == profile.rig /\ Len(profile.sightings) = 2

SolveTriad ==
  /\ SolveBegins
  /\ ~ profile.imuMounting
  /\ Save(setOrientation(Worth(profile)), solving # Unset)
  /\ UNCHANGED <<homeVars, solving, swept>>

(* get() copies the profile; the gravity burst is awaited.                 *)
SolveReadsGravity ==
  /\ SolveBegins
  /\ profile.imuMounting
  /\ solving = Unset
  /\ solving' = Worth(profile)
  /\ UNCHANGED <<homeVars, profileVars, swept>>

(* The burst failed, the rig moved, or the landmarks disagree.             *)
SolveRefused ==
  /\ solving # Unset
  /\ solving' = Unset
  /\ UNCHANGED <<homeVars, profileVars, swept>>

(* R and cHead of the copy go into whatever the profile is by now: the     *)
(* rig's posture is looked at again, the profile is not.                   *)
SolveEnds ==
  /\ solving # Unset
  /\ Save(setGravityCalibration(solving), FALSE)
  /\ solving' = Unset
  /\ UNCHANGED <<homeVars, swept>>
-----------------------------------------------------------------------------
(* set_home: a POST the rig accepts and carries out at its next drain.     *)
SetHome ==
  /\ homeCall = "none"
  /\ homeCall' = "sent"
  /\ UNCHANGED <<homing, profileVars, solving, swept>>

HomeAccepted ==
  /\ homeCall = "sent"
  /\ homeCall' = "accepted"
  /\ homing' = TRUE
  /\ UNCHANGED <<profileVars, solving, swept>>

HomeDrained ==
  /\ homing
  /\ homing' = FALSE
  /\ profile' = Outdated(profile)
  /\ saved' = Outdated(saved)
  /\ solving' = IF solving = Unset THEN Unset ELSE FALSE
  /\ UNCHANGED <<homeCall, swept, tainted>>

HomeAnswered ==
  /\ homeCall = "accepted"
  /\ homeCall' = "none"
  /\ Save(invalidateCalibration, solving # Unset)
  /\ UNCHANGED <<homing, solving, swept>>

(* Refused, lost or timed out; the last two tell nothing of the rig.       *)
HomeFails ==
  /\ homeCall # "none"
  /\ homeCall' = "none"
  /\ tainted' = (tainted \/ homeCall = "accepted")
  /\ UNCHANGED <<homing, profile, saved, solving, swept>>
-----------------------------------------------------------------------------
(* characterize_imu: a goto and a gravity burst at every position.         *)
SweepLeg ==
  /\ swept < SweepPositions
  /\ swept' = swept + 1
  /\ UNCHANGED <<homeVars, profileVars, solving>>

(* A leg fails, or the sun lock is found engaged before it.                *)
SweepAborts ==
  /\ swept > 0
  /\ swept' = 0
  /\ UNCHANGED <<homeVars, profileVars, solving>>

SweepEnds ==
  /\ swept = SweepPositions
  /\ swept' = 0
  /\ Save([profile EXCEPT !.imuMounting = TRUE], FALSE)
  /\ UNCHANGED <<homeVars, solving>>

(* The daemon dies and loads its file again.                               *)
DaemonReloadsProfile ==
  /\ profile' = saved
  /\ solving' = Unset
  /\ swept' = 0
  /\ homeCall' = "none"
  /\ tainted' = (tainted \/ homeCall = "accepted")
  /\ UNCHANGED <<homing, saved>>

CalNext ==
  \/ SetRigLocation
  \/ ClearCalibration
  \/ SightLandmark
  \/ SolveTriad
  \/ SolveReadsGravity
  \/ SolveRefused
  \/ SolveEnds
  \/ SetHome
  \/ HomeAccepted
  \/ HomeDrained
  \/ HomeAnswered
  \/ HomeFails
  \/ SweepLeg
  \/ SweepAborts
  \/ SweepEnds
  \/ DaemonReloadsProfile

CalSpec == CalInit /\ [][CalNext]_calVars
-----------------------------------------------------------------------------
(* calibration.ts:57-67, 114-120: as long as no writer overlaps another,   *)
(* fails or is lost half done, a calibrated rig is calibrated for where it *)
(* stands and for the origin it counts from, restarts, moves and homes     *)
(* between any two sightings included.                                     *)
CalibrationHolds ==
  isCalibrated /\ ~ tainted /\ ~ homing /\ homeCall = "none" => profile.orientation = TRUE
=============================================================================
