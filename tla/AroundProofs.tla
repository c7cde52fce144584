---------------------------- MODULE AroundProofs ---------------------------
(***************************************************************************)
(* A behaviour of the parts around the daemon's core is one of each part:  *)
(* of the one whose scene it is because its steps are that part's, of the  *)
(* others because theirs are stutters.  So what is proved of a part by     *)
(* itself (DashboardProofs, CalibrationProofs, ServoProofs) holds of it    *)
(* here, and all of them keep their types.                                 *)
(***************************************************************************)
EXTENDS MCAround, DashboardProofs, CalibrationProofs, ServoProofs

aroundVars == <<scene, camVars, cockpitVars, mcpVars, feedVars, sectorVars, calVars,
                attitudeVars, servoVars>>

(* The behaviours of MCAround are behaviours of the camera streamer, the   *)
(* cockpit, the MCP client, the status feed, the sector filter, the        *)
(* calibration store, the attitude tools and the tracking axis: putting    *)
(* them side by side adds no step to any.                                  *)
THEOREM AroundIsEachPart ==
  AroundSpec => /\ CamSpec /\ CockpitSpec /\ McpSpec /\ FeedSpec
                /\ SectorSpec /\ CalSpec /\ AttitudeSpec /\ ServoSpec
<1>1. AroundInit => /\ CamInit /\ CockpitInit /\ McpInit /\ FeedInit
                    /\ SectorInit /\ CalInit /\ AttitudeInit /\ ServoInit
  BY DEF AroundInit
<1>2. ASSUME [AroundNext]_aroundVars
      PROVE  /\ [CamNext]_camVars /\ [CockpitNext]_cockpitVars
             /\ [McpNext]_mcpVars /\ [FeedNext]_feedVars
             /\ [SectorNext]_sectorVars /\ [CalNext]_calVars
             /\ [AttitudeNext]_attitudeVars /\ [ServoNext]_servoVars
  BY <1>2, Zenon DEF AroundNext, aroundVars
<1> QED
  BY <1>1, <1>2, PTL
     DEF AroundSpec, aroundVars, CamSpec, CockpitSpec, McpSpec, FeedSpec, SectorSpec, CalSpec,
         AttitudeSpec, ServoSpec

(* AroundTypesOK, for any number of viewers, pages, aircraft, polls and    *)
(* readings, any sweep, camera and mount, and any rates and limits: every  *)
(* part keeps its types wherever the scene is laid.                        *)
THEOREM AroundTypesAlwaysOK == AroundSpec => []AroundTypesOK
<1>1. CamTypeOK /\ CockpitTypeOK /\ McpTypeOK /\ FeedTypeOK /\ SectorTypeOK /\ CalTypeOK
        /\ AttitudeTypeOK /\ ServoTypeOK => AroundTypesOK
  BY DEF AroundTypesOK
<1> QED
  BY <1>1, AroundIsEachPart, CamInvariant, CockpitTypeCorrect, McpTypeCorrect, FeedInvariant,
     SectorTypeCorrect, CalTypeCorrect, SolvedAlwaysTrue, ServoTypeCorrect, PTL

(* And every promise proved of a part is kept here, the invariants and     *)
(* action properties that TLC checks of MCAround's small instance: the     *)
(* camera's (dashboard/camera.ts), the E-STOP's calm and the dwell between *)
(* followed aircraft (agent/loop.ts), the sector's survival, the feed's    *)
(* order, that a rig once calibrated is calibrated for what is there and   *)
(* points where it is asked to, and, for NeverRunsAway, the wider bound    *)
(* NeverFarOut.                                                            *)
THEOREM AroundKeepsPromises ==
  AroundSpec => /\ []/\ OneMtplvcap /\ PipelineMatchesDemand
                     /\ FrameIsLive /\ WaitsForTheStopped
                     /\ CalmStaysStopped
                     /\ RestartKeepsSector /\ DrawnIsAdmitted
                     /\ CalibrationHolds /\ PointsTrue
                     /\ NeverFarOut
                /\ DwellIsKept /\ FeedNeverGoesBack
BY AroundIsEachPart, AlwaysOneMtplvcap, AlwaysMatchesDemand, FrameAlwaysLive,
   AlwaysWaitsForTheStopped, CalmAlwaysStaysStopped, RestartAlwaysKeepsSector,
   DrawnIsAlwaysAdmitted, CalibrationAlwaysHolds, AlwaysPointsTrue, DwellAlwaysKept,
   AlwaysNeverFarOut, FeedAlwaysForward, PTL
=============================================================================
