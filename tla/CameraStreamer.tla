---------------------------- MODULE CameraStreamer --------------------------
(***************************************************************************)
(* The dashboard's camera (tb3-mcp/src/dashboard/camera.ts): the streamer  *)
(* that starts a capture process while somebody watches an armed camera,   *)
(* restarts it on a budget when it dies, and shares its frames; and the    *)
(* two spawners it drives, mtplvcap behind an HTTP relay and ffmpeg behind *)
(* a pipe, which only one process at a time should reach the camera with.  *)
(*                                                                         *)
(* A start() of a spawner lives in a slot until its process is gone.  The  *)
(* streamer's generation counter is only ever compared with the one a      *)
(* callback carries, so it is modelled by the slot whose generation is the *)
(* current one (0: none is).                                               *)
(***************************************************************************)
EXTENDS Naturals

CONSTANTS
  Viewers,     \* HTTP responses that may be attached
  Slots,       \* spawner instances alive at once
  MaxRestarts  \* MAX_RESTARTS within one window

ASSUME CameraAssumption ==
  /\ Slots \subseteq Nat \ {0}
  /\ MaxRestarts \in Nat

VARIABLES
  backend,       \* cfg.cameraSource, chosen at startup
  enabled,       \* armed by the operator
  stopped,       \* stop() was called
  viewers,       \* CameraStreamer.writers
  handle,        \* CameraStreamer.spawnerHandle: its slot, 0 for null
  current,       \* the slot whose callbacks carry CameraStreamer.generation
  frameSeen,     \* the current pipeline has produced a frame
  latestFrame,   \* CameraStreamer.latestFrame: the slot it came from, 0 for null
  restartTimer,  \* a restart is pending
  restartCount,  \* exits in the present window
  phase,         \* of the spawner instance in each slot
  late,          \* torn-down instances with a frame still to be delivered
  activeProc     \* the module's activeProc (mtplvcap only), 0 for null

switches == <<backend, enabled, stopped, viewers>>
pipeline == <<handle, current, frameSeen>>
budget == <<restartTimer, restartCount>>
spawners == <<phase, late, activeProc>>
camVars == <<switches, pipeline, latestFrame, budget, spawners>>

(* "down": told to stop, process still there; "broken": never spawned, but *)
(* still activeProc.                                                       *)
Phases == {"free", "waiting", "connecting", "streaming", "down", "broken"}
Mtp == backend = "mtplvcap"
Processes == {s \in Slots : phase[s] \in {"connecting", "streaming", "down"}}

CamTypeOK ==
  /\ backend \in {"mtplvcap", "v4l2"}
  /\ enabled \in BOOLEAN
  /\ stopped \in BOOLEAN
  /\ viewers \subseteq Viewers
  /\ {handle, current, latestFrame, activeProc} \subseteq Slots \cup {0}
  /\ frameSeen \in BOOLEAN
  /\ restartTimer \in BOOLEAN
  /\ restartCount \in 0 .. MaxRestarts + 1
  /\ phase \in [Slots -> Phases]
  /\ late \subseteq Slots

CamInit ==
  /\ backend \in {"mtplvcap", "v4l2"}
  /\ enabled \in BOOLEAN
  /\ stopped = FALSE
  /\ viewers = {}
  /\ handle = 0
  /\ current = 0
  /\ frameSeen = FALSE
  /\ latestFrame = 0
  /\ restartTimer = FALSE
  /\ restartCount = 0
  /\ phase = [s \in Slots |-> "free"]
  /\ late = {}
  /\ activeProc = 0
-----------------------------------------------------------------------------
(* The streamer's own steps, each part of a handler below.                 *)

(* Mutant: mtplvcap is spawned without waiting for the one before it.      *)
BeginAtOnce(s) ==
  /\ phase' = [phase EXCEPT ![s] = "connecting"]
  /\ activeProc' = IF Mtp THEN s ELSE activeProc

(* begin() of mtplvcap waits for activeProc to exit; ffmpeg just spawns.   *)
Begin(s) ==
  IF Mtp /\ activeProc # 0
    THEN phase' = [phase EXCEPT ![s] = "waiting"] /\ UNCHANGED activeProc
    ELSE /\ phase' = [phase EXCEPT ![s] = "connecting"]
         /\ activeProc' = IF Mtp THEN s ELSE activeProc

StartPipeline(on) ==
  IF on /\ handle = 0
    THEN \E s \in Slots :
           /\ phase[s] = "free"
           /\ handle' = s
           /\ current' = s
           /\ frameSeen' = FALSE
           /\ Begin(s)
           /\ UNCHANGED late
    ELSE UNCHANGED <<pipeline, spawners>>

(* Mutant: the outgoing spawner keeps its generation.                      *)
KillSpawnerKeepsGeneration ==
  IF handle = 0
    THEN UNCHANGED <<handle, current, spawners>>
    ELSE /\ handle' = 0
         /\ phase' = [phase EXCEPT ![handle] = IF @ = "waiting" THEN "free" ELSE "down"]
         /\ late' = IF Mtp /\ phase[handle] = "streaming" THEN late \cup {handle} ELSE late
         /\ UNCHANGED <<current, activeProc>>

(* Mutant: the outgoing spawner is forgotten but not stopped.              *)
KillSpawnerForgets ==
  IF handle = 0
    THEN UNCHANGED <<handle, current, spawners>>
    ELSE handle' = 0 /\ current' = 0 /\ UNCHANGED spawners

(* A begin() that is still waiting when it is killed returns without       *)
(* spawning.  A frame mtplvcap's relay has read may yet be delivered.      *)
KillSpawner ==
  IF handle = 0
    THEN UNCHANGED <<handle, current, spawners>>
    ELSE /\ handle' = 0
         /\ current' = 0
         /\ phase' = [phase EXCEPT ![handle] = IF @ = "waiting" THEN "free" ELSE "down"]
         /\ late' = IF Mtp /\ phase[handle] = "streaming" THEN late \cup {handle} ELSE late
         /\ UNCHANGED activeProc

(* Mutant: a restart is scheduled once more than the budget allows.        *)
HandleExitOverBudget ==
  /\ handle' = 0
  /\ \E lapsed \in BOOLEAN :
       restartCount' = IF lapsed THEN 1 ELSE restartCount + 1
  /\ restartTimer' = TRUE
  /\ UNCHANGED latestFrame

(* The exit of the current pipeline; lapsed: the window had run out.       *)
HandleExit ==
  /\ handle' = 0
  /\ IF stopped \/ ~ enabled \/ viewers = {}
       THEN UNCHANGED <<budget, latestFrame>>
       ELSE /\ \E lapsed \in BOOLEAN :
                 restartCount' = IF lapsed THEN 1 ELSE restartCount + 1
            /\ IF restartCount' > MaxRestarts
                 THEN latestFrame' = 0 /\ UNCHANGED restartTimer
                 ELSE restartTimer' = TRUE /\ UNCHANGED latestFrame

PushFrame(s) == frameSeen' = TRUE /\ latestFrame' = s
-----------------------------------------------------------------------------
(* The operator and the browsers.                                          *)
Enable ==
  /\ ~ stopped
  /\ enabled' = TRUE
  /\ restartCount' = 0
  /\ restartTimer' = FALSE
  /\ StartPipeline(viewers # {})
  /\ UNCHANGED <<backend, stopped, viewers, latestFrame>>

Disable ==
  /\ ~ stopped
  /\ enabled' = FALSE
  /\ restartTimer' = FALSE
  /\ restartCount' = 0
  /\ KillSpawner
  /\ frameSeen' = FALSE
  /\ latestFrame' = 0
  /\ UNCHANGED <<backend, stopped, viewers>>

(* Only the first viewer starts a pipeline.                                *)
Attach(v) ==
  /\ ~ stopped
  /\ v \notin viewers
  /\ viewers' = viewers \cup {v}
  /\ StartPipeline(enabled /\ viewers = {})
  /\ UNCHANGED <<backend, enabled, stopped, latestFrame, budget>>

(* Mutant: the last viewer leaves a pending restart behind.                *)
DetachKeepsTimer(v) ==
  /\ v \in viewers
  /\ viewers' = viewers \ {v}
  /\ IF viewers = {v}
       THEN KillSpawner /\ restartCount' = 0
       ELSE UNCHANGED <<handle, current, restartCount, spawners>>
  /\ UNCHANGED <<backend, enabled, stopped, frameSeen, latestFrame, restartTimer>>

Detach(v) ==
  /\ v \in viewers
  /\ viewers' = viewers \ {v}
  /\ IF viewers = {v}
       THEN KillSpawner /\ restartTimer' = FALSE /\ restartCount' = 0
       ELSE UNCHANGED <<handle, current, budget, spawners>>
  /\ UNCHANGED <<backend, enabled, stopped, frameSeen, latestFrame>>

StopStreamer ==
  /\ stopped' = TRUE
  /\ restartTimer' = FALSE
  /\ KillSpawner
  /\ viewers' = {}
  /\ UNCHANGED <<backend, enabled, frameSeen, latestFrame, restartCount>>

RestartFires ==
  /\ restartTimer
  /\ restartTimer' = FALSE
  /\ StartPipeline(enabled /\ ~ stopped)
  /\ UNCHANGED <<switches, latestFrame, restartCount>>
-----------------------------------------------------------------------------
(* The spawners and their processes.                                       *)
Begins(s) ==
  /\ phase[s] = "waiting"
  /\ activeProc = 0
  /\ Begin(s)
  /\ UNCHANGED <<switches, pipeline, latestFrame, budget, late>>

(* The relay answers, or the first bytes come down the pipe.               *)
Connects(s) ==
  /\ phase[s] = "connecting"
  /\ phase' = [phase EXCEPT ![s] = "streaming"]
  /\ UNCHANGED <<switches, pipeline, latestFrame, budget, late, activeProc>>

(* The relay's stream breaks with an error: it connects again.             *)
Reconnects(s) ==
  /\ Mtp
  /\ phase[s] = "streaming"
  /\ phase' = [phase EXCEPT ![s] = "connecting"]
  /\ UNCHANGED <<switches, pipeline, latestFrame, budget, late, activeProc>>

Frame(s) ==
  /\ phase[s] = "streaming"
  /\ IF current = s THEN PushFrame(s) ELSE UNCHANGED <<frameSeen, latestFrame>>
  /\ UNCHANGED <<switches, handle, current, budget, spawners>>

LateFrame(s) ==
  /\ s \in late
  /\ late' = late \ {s}
  /\ IF current = s THEN PushFrame(s) ELSE UNCHANGED <<frameSeen, latestFrame>>
  /\ UNCHANGED <<switches, handle, current, budget, phase, activeProc>>

ExitReported(s) ==
  IF current = s THEN HandleExit ELSE UNCHANGED <<handle, budget, latestFrame>>

(* The relay's stream ends, or its connection is given up: mtplvcap is     *)
(* told to stop and the exit reported before its process is gone.          *)
RelayEnds(s) ==
  /\ Mtp
  /\ phase[s] \in {"connecting", "streaming"}
  /\ phase' = [phase EXCEPT ![s] = "down"]
  /\ ExitReported(s)
  /\ UNCHANGED <<switches, current, frameSeen, late, activeProc>>

(* The process exits: reported unless it was killed or already reported.   *)
Exits(s) ==
  /\ phase[s] \in {"connecting", "streaming", "down"}
  /\ phase' = [phase EXCEPT ![s] = "free"]
  /\ late' = late \ {s}
  /\ activeProc' = IF activeProc = s THEN 0 ELSE activeProc
  /\ IF phase[s] = "down" THEN UNCHANGED <<handle, budget, latestFrame>> ELSE ExitReported(s)
  /\ UNCHANGED <<switches, current, frameSeen>>

(* spawn() fails: "error" comes and "exit" never does, so that mtplvcap's  *)
(* activeProc is never cleared.                                            *)
SpawnFails(s) ==
  /\ phase[s] = "connecting"
  /\ phase' = [phase EXCEPT ![s] = IF Mtp THEN "broken" ELSE "free"]
  /\ ExitReported(s)
  /\ UNCHANGED <<switches, current, frameSeen, late, activeProc>>

CamNext ==
  \/ Enable
  \/ Disable
  \/ StopStreamer
  \/ RestartFires
  \/ \E v \in Viewers : Attach(v) \/ Detach(v)
  \/ \E s \in Slots :
       \/ Begins(s)
       \/ Connects(s)
       \/ Reconnects(s)
       \/ Frame(s)
       \/ LateFrame(s)
       \/ RelayEnds(s)
       \/ Exits(s)
       \/ SpawnFails(s)

CamSpec == CamInit /\ [][CamNext]_camVars
-----------------------------------------------------------------------------
(* camera.ts:287-291: only one mtplvcap may hold the camera at a time; a   *)
(* new one waits for the previous process to be gone.                      *)
OneMtplvcap == Mtp => \A s, t \in Processes : s = t

(* A pipeline or a pending restart, never both, and only of an armed       *)
(* camera somebody watches; and such a camera is never quietly dead: it    *)
(* has the one or the other, or its budget is spent (camera.ts:121-146,    *)
(* 161-174, 189-213).                                                      *)
PipelineMatchesDemand ==
  /\ handle # 0 \/ restartTimer => enabled /\ ~ stopped /\ viewers # {}
  /\ handle # 0 => ~ restartTimer /\ current = handle
  /\ enabled /\ viewers # {} => handle # 0 \/ restartTimer \/ restartCount > MaxRestarts

(* No frame outlives a disarmed camera, not even one delivered late, and   *)
(* "streaming" means a frame of this very pipeline (camera.ts:68-76,       *)
(* 89-95, 110-119).                                                        *)
FrameIsLive ==
  /\ ~ enabled => latestFrame = 0
  /\ handle # 0 /\ frameSeen => latestFrame = handle

(* camera.ts:302-315: a start only ever waits for a mtplvcap that has been *)
(* told to stop, and will be killed if it does not, so that a hung one     *)
(* blocks nobody for good; or for one that failed to spawn, which does.    *)
WaitsForTheStopped ==
  activeProc # 0 /\ (\E s \in Slots : phase[s] = "waiting")
    => phase[activeProc] \in {"down", "broken"}
=============================================================================
