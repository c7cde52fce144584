---------------------------- MODULE FirmwareMotion --------------------------
(***************************************************************************)
(* The rig's firmware between the network and the motors: the handlers of  *)
(* src/tb3_web.cpp, which only leave requests behind; loopTask's pass over *)
(* them (tb3_idle_dispatch, NunChuckQuerywithEC, tb3_web_poll), which also *)
(* runs a goto to its end (tb3_goto_execute); the step interrupt onTimer;  *)
(* and a firmware upload (tb3_ota.cpp), which takes the interrupt and the  *)
(* motor drivers away while it writes the flash.                           *)
(*                                                                         *)
(* The network task, loopTask and the interrupt run concurrently.  A       *)
(* handler writes scalars which loopTask reads one at a time, so a handler *)
(* is one action; loopTask's pass is cut where it reads them (pc).  Only   *)
(* an upload's first chunk is two actions: it tests, then takes.           *)
(*                                                                         *)
(* Positions are abstracted: "head" is pan and tilt, "aux" the third axis, *)
(* a stick is the set of axes it deflects, a goto a number of velocity     *)
(* segments.  No program is engaged: nothing in this firmware starts one.  *)
(* The mode "Track (Web)" runs the same pass in a loop of its own and is   *)
(* left out, as are the serial console and the wiring test.                *)
(***************************************************************************)
EXTENDS Integers

CONSTANTS
  Frames,    \* joystick frames clients send: sets of deflected axes
  Full,      \* jog speed at full deflection, in velocity updates to reach it
  Segments   \* velocity updates the longest goto takes

Axes == {"head", "aux"}

ASSUME FramesAssumption == Frames \subseteq SUBSET Axes
ASSUME SpeedAssumption == Full \in Nat \ {0} /\ Segments \in Nat

VARIABLES
  joy,       \* s_joy_x, s_joy_y, s_joy_aux
  joyFresh,  \* s_joy_stamp is younger than JOY_DEADMAN_MS
  latched,   \* s_joy_stop_latched
  stopReq,   \* s_stop_request
  homeReq,   \* s_home_request
  gotoReq,   \* s_goto_request
  pc,        \* where loopTask is in its pass
  stick,     \* g_usb_joy_x, g_usb_joy_y, g_usb_accel_x: the virtual gamepad
  moving,    \* motorMoving
  speed,     \* motors[].nextMotorMoveSpeed, in steps of the ramp
  left,      \* segments left of the goto being executed
  hardStop,  \* hardStopRequested
  loaded,    \* nextMoveLoaded
  isrOn,     \* motor_timer_running
  engaged,   \* g_motors_enabled
  recent,    \* active within IDLE_RELEASE_MS
  ota,       \* tb3_ota's s_state, "starting" until tb3_ota_prepare returns
             \* and "flashed" from the last chunk until the restart
  stopped    \* history: "goto" if a stop was accepted after the latest goto
             \* was, "move" if one was since the latest goto began to move

inputs == <<joy, joyFresh, latched>>
requests == <<stopReq, homeReq, gotoReq>>
motion == <<moving, speed, left, hardStop>>
engine == <<loaded, isrOn, engaged, recent>>
fwVars == <<inputs, requests, pc, stick, motion, engine, ota, stopped>>

Places == {"pass", "joy", "stop", "home", "goto", "move", "pump", "drive"}

OtaStates == {"idle", "starting", "running", "error", "flashed"}

FwTypeOK ==
  /\ joy \in SUBSET Axes /\ joyFresh \in BOOLEAN /\ latched \in BOOLEAN
  /\ stopReq \in BOOLEAN /\ homeReq \in BOOLEAN /\ gotoReq \in BOOLEAN
  /\ pc \in Places
  /\ stick \in SUBSET Axes
  /\ moving \in SUBSET Axes
  /\ speed \in [Axes -> 0 .. Full]
  /\ left \in 0 .. Segments
  /\ hardStop \in BOOLEAN
  /\ loaded \in BOOLEAN /\ isrOn \in BOOLEAN /\ engaged \in BOOLEAN /\ recent \in BOOLEAN
  /\ ota \in OtaStates
  /\ stopped \in SUBSET {"goto", "move"}

AtRest == [a \in Axes |-> 0]

(* Power-up, or the restart that ends an upload.                           *)
FwInit ==
  /\ joy = {} /\ joyFresh = FALSE /\ latched = FALSE
  /\ stopReq = FALSE /\ homeReq = FALSE /\ gotoReq = FALSE
  /\ pc = "pass"
  /\ stick = {}
  /\ moving = {} /\ speed = AtRest /\ left = 0 /\ hardStop = FALSE
  /\ loaded = FALSE /\ isrOn = FALSE /\ engaged = FALSE /\ recent = FALSE
  /\ ota = "idle"
  /\ stopped = {}

(* tb3_goto_safe and tb3_ota_safe_to_flash.                                *)
Safe == moving = {}

Flashing == ota \in {"starting", "running"}
-----------------------------------------------------------------------------
(* The network task.                                                       *)
Frame(axes) ==
  /\ joy' = axes
  /\ joyFresh' = TRUE
  /\ latched' = (latched /\ axes # {})
  /\ UNCHANGED <<requests, pc, stick, motion, engine, ota, stopped>>

ApiStop ==
  /\ joy' = {}
  /\ joyFresh' = TRUE
  /\ latched' = TRUE
  /\ stopReq' = TRUE
  /\ stopped' = {"goto", "move"}
  /\ UNCHANGED <<homeReq, gotoReq, pc, stick, motion, engine, ota>>

ApiHome ==
  /\ Safe
  /\ homeReq' = TRUE
  /\ UNCHANGED <<inputs, stopReq, gotoReq, pc, stick, motion, engine, ota, stopped>>

(* A goto accepted while one waits takes its place.                        *)
ApiGoto ==
  /\ Safe
  /\ gotoReq' = TRUE
  /\ stopped' = stopped \ {"goto"}
  /\ UNCHANGED <<inputs, stopReq, homeReq, pc, stick, motion, engine, ota>>

UploadBegins ==
  /\ ~ Flashing
  /\ ota # "flashed"
  /\ Safe
  /\ ota' = "starting"
  /\ UNCHANGED <<inputs, requests, pc, stick, motion, engine, stopped>>

(* A web upload's refusal runs fail(), which resumes; espota's does not.   *)
UploadRefused ==
  /\ ~ Flashing
  /\ ota # "flashed"
  /\ ~ Safe
  /\ ota' = "error"
  /\ isrOn' \in {isrOn, TRUE}
  /\ UNCHANGED <<inputs, requests, pc, stick, motion, loaded, engaged, recent, stopped>>

UploadPrepares ==
  /\ ota = "starting"
  /\ ota' = "running"
  /\ isrOn' = FALSE
  /\ engaged' = FALSE
  /\ UNCHANGED <<inputs, requests, pc, stick, motion, loaded, recent, stopped>>

UploadFails ==
  /\ ota = "running"
  /\ ota' = "error"
  /\ isrOn' = TRUE
  /\ UNCHANGED <<inputs, requests, pc, stick, motion, loaded, engaged, recent, stopped>>

(* The uploading client vanishes: onDisconnect does not resume.            *)
UploadDrops ==
  /\ ota = "running"
  /\ ota' = "error"
  /\ UNCHANGED <<inputs, requests, pc, stick, motion, engine, stopped>>

UploadEnds ==
  /\ ota = "running"
  /\ ota' = "flashed"
  /\ UNCHANGED <<inputs, requests, pc, stick, motion, engine, stopped>>

(* ESP.restart, 200 ms later: back to FwInit.                              *)
Restart ==
  /\ ota = "flashed"
  /\ joy' = {} /\ joyFresh' = FALSE /\ latched' = FALSE
  /\ stopReq' = FALSE /\ homeReq' = FALSE /\ gotoReq' = FALSE
  /\ pc' = "pass"
  /\ stick' = {}
  /\ moving' = {} /\ speed' = AtRest /\ left' = 0 /\ hardStop' = FALSE
  /\ loaded' = FALSE /\ isrOn' = FALSE /\ engaged' = FALSE /\ recent' = FALSE
  /\ ota' = "idle"
  /\ stopped' = {}
-----------------------------------------------------------------------------
(* loopTask.                                                               *)
Goes(place) == pc' = place

(* Mutant: the step interrupt is left as the last goto left it.            *)
PassBeginsUnarmed ==
  /\ pc = "pass"
  /\ Goes(IF loaded THEN "pass" ELSE "joy")
  /\ UNCHANGED <<inputs, requests, stick, motion, engine, ota, stopped>>

(* Re-assert the interrupt, then wait for it to take the loaded segment.   *)
PassBegins ==
  /\ pc = "pass"
  /\ isrOn' = (isrOn \/ ~ Flashing)
  /\ Goes(IF loaded THEN "pass" ELSE "joy")
  /\ UNCHANGED <<inputs, requests, stick, motion, loaded, engaged, recent, ota, stopped>>

(* Mutant: the poll forgets the latch.                                     *)
PollJoystickUnlatched ==
  /\ pc = "joy"
  /\ stick' = IF joyFresh THEN joy ELSE stick \ {"head"}
  /\ Goes("stop")
  /\ UNCHANGED <<inputs, requests, motion, engine, ota, stopped>>

(* NunChuckQuerywithEC centres x and y first, but not the third axis.      *)
PollJoystick ==
  /\ pc = "joy"
  /\ stick' = IF ~ joyFresh THEN stick \ {"head"} ELSE IF latched THEN {} ELSE joy
  /\ Goes("stop")
  /\ UNCHANGED <<inputs, requests, motion, engine, ota, stopped>>

(* tb3_request_stop.                                                       *)
RequestStop ==
  /\ stopReq' = FALSE
  /\ IF stopReq
       THEN stick' = {} /\ hardStop' = (hardStop \/ moving # {})
       ELSE UNCHANGED <<stick, hardStop>>

PollStop ==
  /\ pc = "stop"
  /\ RequestStop
  /\ Goes("home")
  /\ UNCHANGED <<inputs, homeReq, gotoReq, moving, speed, left, engine, ota, stopped>>

(* Re-zeroes the position, if nothing moves.                               *)
PollHome ==
  /\ pc = "home"
  /\ homeReq' = FALSE
  /\ Goes("goto")
  /\ UNCHANGED <<inputs, stopReq, gotoReq, stick, motion, engine, ota, stopped>>

(* Mutant: the fresh move inherits the flag of an older stop.              *)
PlanKeepingHardStop(n) ==
  /\ left' = n
  /\ moving' = IF n = 0 THEN {} ELSE {"head"}
  /\ isrOn' = TRUE
  /\ engaged' = TRUE
  /\ stopped' = stopped \ {"move"}
  /\ UNCHANGED <<hardStop, speed, loaded, recent>>

(* tb3_goto_execute up to its loop, for a goto of n segments.              *)
Plan(n) ==
  /\ hardStop' = FALSE
  /\ left' = n
  /\ moving' = IF n = 0 THEN {} ELSE {"head"}
  /\ isrOn' = TRUE
  /\ engaged' = TRUE
  /\ stopped' = stopped \ {"move"}
  /\ UNCHANGED <<speed, loaded, recent>>

(* A goto drops the stop request it finds, be it stale or not.             *)
PollGoto ==
  /\ pc = "goto"
  /\ gotoReq' = FALSE
  /\ stopReq' = (stopReq /\ ~ gotoReq)
  /\ IF gotoReq /\ Safe
       THEN Goes("move") /\ \E n \in 0 .. Segments : Plan(n)
       ELSE Goes("drive") /\ UNCHANGED <<motion, engine, stopped>>
  /\ UNCHANGED <<inputs, homeReq, stick, ota>>

(* updateMotorVelocities, when the interrupt has taken the last segment.   *)
(* A hard stop leaves the segments its deceleration takes.                 *)
MoveUpdate ==
  /\ pc = "move"
  /\ ~ loaded
  /\ loaded' = TRUE
  /\ hardStop' = FALSE
  /\ \E n \in IF hardStop THEN 0 .. left ELSE {left} :
       IF n = 0 \/ moving = {}
         THEN moving' = {} /\ speed' = AtRest /\ left' = 0
         ELSE left' = n - 1 /\ speed' = [AtRest EXCEPT !["head"] = Full] /\ UNCHANGED moving
  /\ Goes("pump")
  /\ UNCHANGED <<inputs, requests, stick, isrOn, engaged, recent, ota, stopped>>

MoveWaits ==
  /\ pc = "move"
  /\ loaded
  /\ Goes("pump")
  /\ UNCHANGED <<inputs, requests, stick, motion, engine, ota, stopped>>

(* The segment will never be taken: what the watchdog is for.  It allows   *)
(* three times the planned duration, so nothing else sets it off.          *)
Hung == loaded /\ ~ isrOn

(* Mutant: no watchdog.                                                    *)
MovePumpsForEver ==
  /\ pc = "pump"
  /\ RequestStop
  /\ IF moving # {}
       THEN Goes("move") /\ UNCHANGED <<isrOn, recent>>
       ELSE Goes("drive") /\ isrOn' = FALSE /\ recent' = TRUE
  /\ UNCHANGED <<inputs, homeReq, gotoReq, moving, speed, left, loaded, engaged, ota, stopped>>

(* tb3_web_pump_during_move, the watchdog and the end of the loop.         *)
MovePump ==
  /\ pc = "pump"
  /\ RequestStop
  /\ moving' \in {moving} \cup IF Hung THEN {{}} ELSE {}
  /\ IF moving' # {}
       THEN Goes("move") /\ UNCHANGED <<isrOn, recent>>
       ELSE Goes("drive") /\ isrOn' = FALSE /\ recent' = TRUE
  /\ UNCHANGED <<inputs, homeReq, gotoReq, speed, left, loaded, engaged, ota, stopped>>

(* Mutant: the ramp does not end at the target.                            *)
RampedPast(from) ==
  [a \in Axes |-> IF a \in stick THEN from[a] + 1 ELSE (IF from[a] > 0 THEN from[a] - 1 ELSE 0)]

(* updateMotorVelocities2: one step of every axis towards its stick.       *)
Ramped(from) ==
  [a \in Axes |->
     IF a \in stick THEN (IF from[a] < Full THEN from[a] + 1 ELSE Full)
                    ELSE (IF from[a] > 0 THEN from[a] - 1 ELSE 0)]

RampFrom(from) ==
  /\ speed' = Ramped(from)
  /\ moving' = {a \in Axes : Ramped(from)[a] > 0}
  /\ loaded' = TRUE

(* Mutant: motion that has lost its stick does not keep the rig awake.     *)
ActiveByStick == recent \/ stick # {}

Active == recent \/ stick # {} \/ moving # {}

(* The tail of tb3_idle_dispatch: hold and drive a rig that is in use,     *)
(* engaging it first (DFSetup) if need be, release one that is not.        *)
Drive ==
  /\ pc = "drive"
  /\ recent' = Active
  /\ \/ /\ Active
        /\ engaged
        /\ RampFrom(speed)
        /\ UNCHANGED <<hardStop, isrOn, engaged>>
     \/ /\ Active
        /\ ~ engaged
        /\ RampFrom(AtRest)
        /\ hardStop' = FALSE
        /\ isrOn' = TRUE
        /\ engaged' = TRUE
     \/ /\ ~ Active
        /\ engaged' = FALSE
        /\ UNCHANGED <<moving, speed, loaded, hardStop, isrOn>>
  /\ Goes("pass")
  /\ UNCHANGED <<inputs, requests, stick, left, ota, stopped>>

Loop ==
  \/ PassBegins
  \/ PollJoystick
  \/ PollStop
  \/ PollHome
  \/ PollGoto
  \/ MoveUpdate
  \/ MoveWaits
  \/ MovePump
  \/ Drive
-----------------------------------------------------------------------------
(* onTimer, at the end of a segment.                                       *)
OnTimer ==
  /\ isrOn
  /\ loaded
  /\ loaded' = FALSE
  /\ UNCHANGED <<inputs, requests, pc, stick, motion, isrOn, engaged, recent, ota, stopped>>

(* No frame for JOY_DEADMAN_MS.                                            *)
JoyGoesStale ==
  /\ joyFresh
  /\ joyFresh' = FALSE
  /\ UNCHANGED <<joy, latched, requests, pc, stick, motion, engine, ota, stopped>>

(* No activity seen for IDLE_RELEASE_MS.                                   *)
IdleLongEnough ==
  /\ recent
  /\ pc = "pass"
  /\ recent' = FALSE
  /\ UNCHANGED <<inputs, requests, pc, stick, motion, loaded, isrOn, engaged, ota, stopped>>

Network ==
  \/ \E axes \in Frames : Frame(axes)
  \/ ApiStop
  \/ ApiHome
  \/ ApiGoto
  \/ UploadBegins
  \/ UploadRefused
  \/ UploadPrepares
  \/ UploadFails
  \/ UploadDrops
  \/ UploadEnds
  \/ Restart

FwNext == Network \/ Loop \/ OnTimer \/ JoyGoesStale \/ IdleLongEnough

FwSpec == FwInit /\ [][FwNext]_fwVars

(* loopTask and the timer run, an upload's first chunk runs to its end,    *)
(* and a goto's loop that keeps going round reaches its deadline (strong   *)
(* fairness: the deadline is tested only once a round).  JoyGoesStale, the *)
(* clients and the fate of an upload have none.                            *)
FwFairness ==
  /\ WF_fwVars(Loop)
  /\ SF_fwVars(MovePump /\ moving' = {})
  /\ WF_fwVars(OnTimer)
  /\ WF_fwVars(UploadPrepares)

FairFwSpec == FwSpec /\ FwFairness
-----------------------------------------------------------------------------
(* A goto is cut short only by a stop accepted since it began: no flag or  *)
(* request left over from an earlier one reaches it                        *)
(* (TB3_WebGlue.ino:44-50, 151-157; tb3_web.cpp:591-595).                  *)
OnlyFreshStopCutsGoto ==
  [][pc = "move" /\ hardStop /\ ~ hardStop' => "move" \in stopped]_fwVars

(* The idle timer never lets go of a rig in motion, a jog that is only     *)
(* running down included: letting go loses the position the steps count    *)
(* (tb3_web_motion.ino:187-204).                                           *)
NeverReleasedInMotion ==
  [][engaged /\ ~ engaged' /\ ota' = ota => moving = {}]_fwVars

(* However the network, loopTask, the interrupt and an upload interleave,  *)
(* a request the network task leaves is taken up, unless an upload holds   *)
(* the rig: no interleaving latches nextMoveLoaded for good                *)
(* (tb3_web_motion.ino:55-75, 156-183).                                    *)
RequestsDrained ==
  /\ stopReq ~> (~ stopReq \/ Flashing)
  /\ gotoReq ~> (~ gotoReq \/ Flashing)

(* A goto's blocking loop comes to an end, whatever an upload takes from   *)
(* under it (TB3_WebGlue.ino:197-212).                                     *)
GotoEnds == pc \in {"move", "pump"} ~> pc = "pass"

(* After a stop pan and tilt come to rest, although the client may go on   *)
(* streaming deflections, unless it lets go first (tb3_web.cpp:45-57).     *)
StopHoldsHead == latched ~> ("head" \notin moving \/ ~ latched \/ Flashing)

(* tb3-mcp/README.md:204-205: "stop ... always wins", and tb3_web.cpp:593, *)
(* the request dropped is "any stale stop".  A goto does not begin once a  *)
(* stop has been accepted after it.  Refuted: PollGoto cannot tell.        *)
StopBeatsGoto ==
  [][pc = "goto" /\ pc' = "move" => "goto" \notin stopped]_fwVars

(* README.md:101: /api/joy "auto-centers 750 ms after the last update".    *)
(* Refuted: the third axis keeps its last deflection.                      *)
DeadmanCentres == [][pc = "joy" /\ pc' = "stop" /\ ~ joyFresh => stick' = {}]_fwVars

(* README.md:66-68: "the 40 kHz step ISR is stopped during the flash       *)
(* write".  Refuted: a jog engages the drivers again and a goto starts     *)
(* them, and both start the interrupt.                                     *)
StepIsrStoppedWhileFlashing == ota = "running" => ~ isrOn
=============================================================================
