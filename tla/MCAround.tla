------------------------------- MODULE MCAround -----------------------------
(***************************************************************************)
(* The parts around the rig's daemon's core, one at a time: a behaviour is *)
(* one of a single component (its scene), the others stay where they       *)
(* started.  They share no state; what passes between them (a call that    *)
(* fails, a reading that is missing) is in each an outcome left open.      *)
(***************************************************************************)
EXTENDS CameraStreamer, Cockpit, McpSession, StatusFeed, SectorWidget, Calibration,
        Attitude, Servo

VARIABLE scene  \* the component this behaviour is of

Scenes == {"camera", "cockpit", "mcp", "feed", "sector", "calibration", "attitude", "servo"}

MCPanels == {{"device", "rig"}, {"sun"}}
MCFiles == {[enabled |-> TRUE, from |-> 2, to |-> Turn]}
MCCameras == {<<0, 5, 0>>, <<3, 4, 0>>}
MCPostures == (-1 .. 1) \X (0 .. 1)

AroundInit ==
  /\ scene \in Scenes
  /\ CamInit /\ (scene = "camera" \/ (backend = "v4l2" /\ ~ enabled))
  /\ CockpitInit /\ (scene = "cockpit" \/ agent = Off)
  /\ McpInit /\ (scene = "mcp" \/ ~ refused)
  /\ FeedInit /\ (scene = "feed" \/ (panel = {"sun"} /\ truth["sun"] = 0))
  /\ SectorInit
  /\ CalInit /\ (scene = "calibration" \/ profile = EmptyProfile)
  /\ AttitudeInit /\ (scene = "attitude" \/ <<tripod, handed, camera>> = <<rotZ(0), 1, Forward>>)
  /\ ServoInit /\ (scene = "servo" \/ pos = 0)

AroundNext ==
  /\ UNCHANGED scene
  /\ \/ /\ scene = "camera" /\ CamNext
        /\ UNCHANGED <<cockpitVars, mcpVars, feedVars, sectorVars, calVars, attitudeVars, servoVars>>
     \/ /\ scene = "cockpit" /\ CockpitNext
        /\ UNCHANGED <<camVars, mcpVars, feedVars, sectorVars, calVars, attitudeVars, servoVars>>
     \/ /\ scene = "mcp" /\ McpNext
        /\ UNCHANGED <<camVars, cockpitVars, feedVars, sectorVars, calVars, attitudeVars, servoVars>>
     \/ /\ scene = "feed" /\ FeedNext
        /\ UNCHANGED <<camVars, cockpitVars, mcpVars, sectorVars, calVars, attitudeVars, servoVars>>
     \/ /\ scene = "sector" /\ SectorNext
        /\ UNCHANGED <<camVars, cockpitVars, mcpVars, feedVars, calVars, attitudeVars, servoVars>>
     \/ /\ scene = "calibration" /\ CalNext
        /\ UNCHANGED <<camVars, cockpitVars, mcpVars, feedVars, sectorVars, attitudeVars, servoVars>>
     \/ /\ scene = "attitude" /\ AttitudeNext
        /\ UNCHANGED <<camVars, cockpitVars, mcpVars, feedVars, sectorVars, calVars, servoVars>>
     \/ /\ scene = "servo" /\ ServoNext
        /\ UNCHANGED <<camVars, cockpitVars, mcpVars, feedVars, sectorVars, calVars, attitudeVars>>

(* FairMcpSpec's and FairFeedSpec's fairness, each in its own scene.       *)
AroundProgress ==
  /\ WF_mcpVars(scene = "mcp" /\ DaemonReturns)
  /\ \A c \in Calls :
       /\ WF_mcpVars(scene = "mcp" /\ CallSettles(c))
       /\ SF_mcpVars(scene = "mcp" /\ Close(c))
  /\ WF_mcpVars(scene = "mcp" /\ PollStarts)
  /\ WF_feedVars(scene = "feed" /\ SomeReadFails)
  /\ SF_feedVars(scene = "feed" /\ SomePollEnds)
  /\ SF_feedVars(scene = "feed" /\ PageRenders)
  /\ WF_feedVars(scene = "feed" /\ SomePollBegins)
  /\ WF_feedVars(scene = "feed" /\ StreamOpens)

AroundSpec ==
  /\ AroundInit
  /\ [][AroundNext]_<<scene, camVars, cockpitVars, mcpVars, feedVars, sectorVars, calVars,
                      attitudeVars, servoVars>>
  /\ AroundProgress

(* Every component keeps its types, its own state's as its scene goes on   *)
(* and the others' because they do not move.                               *)
AroundTypesOK ==
  /\ CamTypeOK
  /\ CockpitTypeOK
  /\ McpTypeOK
  /\ FeedTypeOK
  /\ SectorTypeOK
  /\ CalTypeOK
  /\ AttitudeTypeOK
  /\ ServoTypeOK
=============================================================================
