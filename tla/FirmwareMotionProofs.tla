------------------------ MODULE FirmwareMotionProofs ------------------------
(***************************************************************************)
(* A goto is never aborted by a stop older than itself, for any frames,    *)
(* ramp and goto length, and however the network, loopTask, the interrupt  *)
(* and an upload interleave.                                               *)
(*                                                                         *)
(* StopsAreFresh is the reason: while loopTask is inside a goto's loop,    *)
(* both places a stop can wait in (the request and the flag it becomes)    *)
(* hold nothing from before the goto, because PollGoto drops the one and   *)
(* Plan clears the other.                                                  *)
(*                                                                         *)
(* Nor is a stop lost in a goto before the halt is planned; and while an   *)
(* upload runs only a goto or the sticks start the interrupt it stopped.   *)
(***************************************************************************)
EXTENDS FirmwareMotion, TLAPS

StopsAreFresh ==
  pc \in {"move", "pump"} /\ (stopReq \/ hardStop) => "move" \in stopped

(* A handler, an upload, the interrupt or a timer: it does not move        *)
(* loopTask, and only a stop leaves a request.                             *)
LEMMA OthersKeepFresh ==
  ASSUME StopsAreFresh,
         Network \/ OnTimer \/ JoyGoesStale \/ IdleLongEnough
  PROVE  StopsAreFresh'
<1>1. CASE ApiStop
  BY <1>1 DEF ApiStop, StopsAreFresh
<1>2. CASE ApiGoto \/ ApiHome \/ \E axes \in Frames : Frame(axes)
  BY <1>2 DEF ApiGoto, ApiHome, Frame, StopsAreFresh, requests, motion
<1>3. CASE Restart
  BY <1>3 DEF Restart, StopsAreFresh
<1>4. CASE \/ UploadBegins \/ UploadRefused \/ UploadPrepares
           \/ UploadFails \/ UploadDrops \/ UploadEnds
  BY <1>4
  DEF UploadBegins, UploadRefused, UploadPrepares, UploadFails, UploadDrops, UploadEnds,
      StopsAreFresh, requests, motion
<1>5. CASE OnTimer \/ JoyGoesStale \/ IdleLongEnough
  BY <1>5 DEF OnTimer, JoyGoesStale, IdleLongEnough, StopsAreFresh, requests, motion
<1>6. QED
  BY <1>1, <1>2, <1>3, <1>4, <1>5 DEF Network

(* loopTask: it enters a goto's loop with nothing left over.               *)
LEMMA LoopKeepsFresh ==
  ASSUME StopsAreFresh, Loop
  PROVE  StopsAreFresh'
<1>1. CASE PollGoto
  <2>1. CASE gotoReq /\ Safe
    BY <1>1, <2>1 DEF PollGoto, Plan, Goes, StopsAreFresh
  <2>2. CASE ~ (gotoReq /\ Safe)
    BY <1>1, <2>2 DEF PollGoto, Goes, StopsAreFresh
  <2>3. QED
    BY <2>1, <2>2
<1>2. CASE MoveUpdate \/ MoveWaits
  BY <1>2 DEF MoveUpdate, MoveWaits, Goes, StopsAreFresh, requests, motion
<1>3. CASE MovePump
  BY <1>3 DEF MovePump, RequestStop, Goes, StopsAreFresh
<1>4. CASE PassBegins \/ PollJoystick \/ PollStop \/ PollHome \/ Drive
  BY <1>4 DEF PassBegins, PollJoystick, PollStop, PollHome, Drive, Goes, StopsAreFresh
<1>5. QED
  BY <1>1, <1>2, <1>3, <1>4 DEF Loop

(* Inside a goto's loop no stop older than the goto waits anywhere.        *)
LEMMA StopsAlwaysFresh == FwSpec => []StopsAreFresh
<1>1. FwInit => StopsAreFresh
  BY DEF FwInit, StopsAreFresh
<1>2. StopsAreFresh /\ [FwNext]_fwVars => StopsAreFresh'
  <2>1. ASSUME StopsAreFresh, UNCHANGED fwVars
        PROVE  StopsAreFresh'
    BY <2>1 DEF fwVars, requests, motion, StopsAreFresh
  <2>2. QED
    BY <2>1, OthersKeepFresh, LoopKeepsFresh DEF FwNext
<1>3. QED
  BY <1>1, <1>2, PTL DEF FwSpec

(* A goto is cut short only by a stop accepted since it began              *)
(* (TB3_WebGlue.ino:44-50, 151-157; tb3_web.cpp:591-595).                  *)
THEOREM OnlyFreshStopsCut == FwSpec => OnlyFreshStopCutsGoto
<1>1. StopsAreFresh /\ [FwNext]_fwVars =>
        [pc = "move" /\ hardStop /\ ~ hardStop' => "move" \in stopped]_fwVars
  BY DEF StopsAreFresh
<1>2. QED
  BY <1>1, StopsAlwaysFresh, PTL DEF FwSpec, OnlyFreshStopCutsGoto
-----------------------------------------------------------------------------
(* A step of the ramp keeps a speed between rest and full.                 *)
LEMMA RampedIsSpeed ==
  ASSUME NEW from \in [Axes -> 0 .. Full]
  PROVE  Ramped(from) \in [Axes -> 0 .. Full]
BY SpeedAssumption DEF Ramped

(* Rest is a speed, and so is the one a goto drives the head at.           *)
LEMMA AtRestIsSpeed ==
  /\ AtRest \in [Axes -> 0 .. Full]
  /\ [AtRest EXCEPT !["head"] = Full] \in [Axes -> 0 .. Full]
<1>1. 0 \in 0 .. Full /\ Full \in 0 .. Full
  BY SpeedAssumption
<1>2. AtRest \in [Axes -> 0 .. Full]
  BY <1>1 DEF AtRest
<1>3. QED
  BY <1>1, <1>2

(* loopTask keeps the variables' types.                                    *)
LEMMA LoopKeepsType ==
  ASSUME FwTypeOK, Loop
  PROVE  FwTypeOK'
<1> USE DEF FwTypeOK, Goes, Places
<1>1. CASE PassBegins \/ PollJoystick \/ PollHome \/ MoveWaits
  <2>1. CASE PassBegins
    BY <2>1 DEF PassBegins, inputs, requests, motion
  <2>2. CASE PollJoystick
    BY <2>2 DEF PollJoystick, inputs, requests, motion, engine
  <2>3. CASE PollHome
    BY <2>3 DEF PollHome, inputs, motion, engine
  <2>4. CASE MoveWaits
    BY <2>4 DEF MoveWaits, inputs, requests, motion, engine
  <2>5. QED
    BY <1>1, <2>1, <2>2, <2>3, <2>4
<1>2. CASE PollStop
  BY <1>2 DEF PollStop, RequestStop, inputs, engine
<1>3. CASE PollGoto
  <2>1. CASE UNCHANGED <<motion, engine, stopped>> /\ pc' = "drive"
    BY <1>3, <2>1 DEF PollGoto, inputs, motion, engine
  <2>2. ASSUME NEW n \in 0 .. Segments, Plan(n), pc' = "move"
        PROVE  FwTypeOK'
    BY <1>3, <2>2 DEF PollGoto, Plan, Axes, inputs
  <2>3. QED
    BY <1>3, <2>1, <2>2 DEF PollGoto
<1>4. CASE MoveUpdate
  <2>1. PICK n \in 0 .. Segments :
          IF n = 0 \/ moving = {}
            THEN moving' = {} /\ speed' = AtRest /\ left' = 0
            ELSE /\ left' = n - 1
                 /\ speed' = [AtRest EXCEPT !["head"] = Full]
                 /\ UNCHANGED moving
    BY <1>4, SpeedAssumption DEF MoveUpdate
  <2>2. left' \in 0 .. Segments
    BY <2>1, SpeedAssumption
  <2>3. speed' \in [Axes -> 0 .. Full] /\ moving' \in SUBSET Axes
    BY <2>1, AtRestIsSpeed
  <2>4. QED
    BY <1>4, <2>2, <2>3 DEF MoveUpdate, inputs, requests
<1>5. CASE MovePump
  BY <1>5 DEF MovePump, RequestStop, inputs
<1>6. CASE Drive
  <2>1. speed' \in [Axes -> 0 .. Full] /\ moving' \in SUBSET Axes
    BY <1>6, RampedIsSpeed, AtRestIsSpeed DEF Drive, RampFrom
  <2>2. recent' \in BOOLEAN /\ loaded' \in BOOLEAN /\ hardStop' \in BOOLEAN
        /\ isrOn' \in BOOLEAN /\ engaged' \in BOOLEAN
    BY <1>6 DEF Drive, RampFrom, Active
  <2>3. QED
    BY <1>6, <2>1, <2>2 DEF Drive, inputs, requests
<1>7. QED
  BY <1>1, <1>2, <1>3, <1>4, <1>5, <1>6 DEF Loop

(* The network task, the interrupt and the timers keep them.               *)
LEMMA OthersKeepType ==
  ASSUME FwTypeOK,
         Network \/ OnTimer \/ JoyGoesStale \/ IdleLongEnough
  PROVE  FwTypeOK'
<1> USE DEF FwTypeOK, OtaStates, Places
<1>1. CASE \E axes \in Frames : Frame(axes)
  <2>1. joy' \in SUBSET Axes /\ joyFresh' \in BOOLEAN /\ latched' \in BOOLEAN
    BY <1>1, FramesAssumption DEF Frame
  <2>2. UNCHANGED <<requests, pc, stick, motion, engine, ota, stopped>>
    BY <1>1 DEF Frame
  <2>3. QED
    BY <2>1, <2>2 DEF requests, motion, engine
<1>2. CASE ApiStop \/ ApiHome \/ ApiGoto
  <2>1. UNCHANGED <<pc, stick, motion, engine, ota>>
    BY <1>2 DEF ApiStop, ApiHome, ApiGoto
  <2>2. /\ joy' \in SUBSET Axes /\ joyFresh' \in BOOLEAN /\ latched' \in BOOLEAN
        /\ stopReq' \in BOOLEAN /\ homeReq' \in BOOLEAN /\ gotoReq' \in BOOLEAN
        /\ stopped' \in SUBSET {"goto", "move"}
    BY <1>2 DEF ApiStop, ApiHome, ApiGoto, inputs
  <2>3. QED
    BY <2>1, <2>2 DEF motion, engine
<1>3. CASE \/ UploadBegins \/ UploadRefused \/ UploadPrepares
           \/ UploadFails \/ UploadDrops \/ UploadEnds
  <2>1. UNCHANGED <<inputs, requests, pc, stick, motion, stopped>>
    BY <1>3
    DEF UploadBegins, UploadRefused, UploadPrepares, UploadFails, UploadDrops, UploadEnds
  <2>2. /\ ota' \in OtaStates
        /\ loaded' \in BOOLEAN /\ isrOn' \in BOOLEAN
        /\ engaged' \in BOOLEAN /\ recent' \in BOOLEAN
    BY <1>3
    DEF UploadBegins, UploadRefused, UploadPrepares, UploadFails, UploadDrops, UploadEnds, engine
  <2>3. QED
    BY <2>1, <2>2 DEF inputs, requests, motion
<1>4. CASE Restart
  <2>1. 0 \in 0 .. Segments
    BY SpeedAssumption
  <2>2. QED
    BY <1>4, <2>1, AtRestIsSpeed DEF Restart
<1>5. CASE OnTimer \/ JoyGoesStale \/ IdleLongEnough
  <2>1. UNCHANGED <<joy, latched, requests, pc, stick, motion, engaged, ota, stopped>>
    BY <1>5 DEF OnTimer, JoyGoesStale, IdleLongEnough, inputs, engine
  <2>2. /\ joyFresh' \in BOOLEAN /\ loaded' \in BOOLEAN
        /\ isrOn' \in BOOLEAN /\ recent' \in BOOLEAN
    BY <1>5 DEF OnTimer, JoyGoesStale, IdleLongEnough, inputs, engine
  <2>3. QED
    BY <2>1, <2>2 DEF requests, motion
<1>6. QED
  BY <1>1, <1>2, <1>3, <1>4, <1>5 DEF Network

(* The firmware's variables always have their types: no ramp leaves its    *)
(* range and no goto runs past its last segment (TB3_Nunchuck.ino:495-616, *)
(* TB_DF.ino:424-480).                                                     *)
THEOREM FwTypeCorrect == FwSpec => []FwTypeOK
<1>1. FwInit => FwTypeOK
  <2>1. 0 \in 0 .. Segments
    BY SpeedAssumption
  <2>2. QED
    BY <2>1, AtRestIsSpeed DEF FwInit, FwTypeOK, Places, OtaStates
<1>2. FwTypeOK /\ [FwNext]_fwVars => FwTypeOK'
  <2>1. ASSUME FwTypeOK, UNCHANGED fwVars
        PROVE  FwTypeOK'
    BY <2>1 DEF fwVars, inputs, requests, motion, engine, FwTypeOK
  <2>2. QED
    BY <2>1, OthersKeepType, LoopKeepsType DEF FwNext
<1>3. QED
  BY <1>1, <1>2, PTL DEF FwSpec
-----------------------------------------------------------------------------
(* A step that lets go of the drivers, other than an upload's or a         *)
(* restart's, is the idle timer's, which found nothing moving.  No         *)
(* invariant is needed: what the timer reads, it reads in the step it acts *)
(* (tb3_web_motion.ino:187-204).                                           *)
LEMMA OnlyIdleReleases ==
  ASSUME FwNext, engaged, ~ engaged', ota' = ota
  PROVE  moving = {}
<1>1. CASE Drive
  BY <1>1 DEF Drive, Active
<1>2. CASE Loop /\ ~ Drive
  <2>1. CASE PollGoto
    BY <2>1 DEF PollGoto, Plan, engine
  <2>2. CASE PassBegins \/ PollJoystick \/ PollStop \/ PollHome \/ MoveUpdate \/ MoveWaits \/ MovePump
    BY <2>2 DEF PassBegins, PollJoystick, PollStop, PollHome, MoveUpdate, MoveWaits, MovePump, engine
  <2> QED
    BY <1>2, <2>1, <2>2 DEF Loop
<1>3. CASE UploadPrepares \/ Restart
  BY <1>3 DEF UploadPrepares, Restart
<1>4. CASE \/ \E axes \in Frames : Frame(axes)
           \/ ApiStop \/ ApiHome \/ ApiGoto
           \/ UploadBegins \/ UploadRefused \/ UploadFails \/ UploadDrops \/ UploadEnds
           \/ OnTimer \/ JoyGoesStale \/ IdleLongEnough
  BY <1>4
  DEF Frame, ApiStop, ApiHome, ApiGoto, UploadBegins, UploadRefused, UploadFails, UploadDrops,
      UploadEnds, OnTimer, JoyGoesStale, IdleLongEnough, engine
<1> QED
  BY <1>1, <1>2, <1>3, <1>4 DEF FwNext, Network

(* The idle timer never lets go of a rig in motion, running down included  *)
(* (tb3_web_motion.ino:187-204).                                           *)
THEOREM NeverReleasedMoving == FwSpec => NeverReleasedInMotion
<1>1. [FwNext]_fwVars => [engaged /\ ~ engaged' /\ ota' = ota => moving = {}]_fwVars
  BY OnlyIdleReleases
<1> QED
  BY <1>1, PTL DEF FwSpec, NeverReleasedInMotion
-----------------------------------------------------------------------------
(* The converse of OnlyFreshStopsCut.  A stop accepted while a goto runs   *)
(* waits as a request or as the flag it becomes, and only the update of    *)
(* the goto's speeds, which plans the halt, takes it away.                 *)
InGoto == pc \in {"move", "pump"}

StopWaits == stopReq \/ hardStop

HaltPlanned == pc = "move" /\ hardStop /\ ~ hardStop'

(* A step inside a goto leaves the stop waiting, or plans the halt         *)
(* (TB3_WebGlue.ino:44-50, 165-212).                                       *)
LEMMA StopWaitsOn ==
  ASSUME FwNext, InGoto, InGoto', StopWaits
  PROVE  StopWaits' \/ HaltPlanned
<1> USE DEF InGoto, StopWaits, HaltPlanned
<1>1. CASE MovePump
  <2>1. moving' # {} /\ (moving' = moving \/ moving' = {})
    BY <1>1 DEF MovePump, Goes
  <2> QED
    BY <1>1, <2>1 DEF MovePump, RequestStop
<1>2. CASE MoveUpdate \/ MoveWaits
  BY <1>2 DEF MoveUpdate, MoveWaits, requests, motion
<1>3. CASE PassBegins \/ PollJoystick \/ PollStop \/ PollHome \/ PollGoto \/ Drive \/ Restart
  BY <1>3 DEF PassBegins, PollJoystick, PollStop, PollHome, PollGoto, Drive, Restart
<1>4. CASE \/ \E axes \in Frames : Frame(axes)
           \/ ApiStop \/ ApiHome \/ ApiGoto
           \/ UploadBegins \/ UploadRefused \/ UploadPrepares
           \/ UploadFails \/ UploadDrops \/ UploadEnds
           \/ OnTimer \/ JoyGoesStale \/ IdleLongEnough
  <2>1. (stopReq' = stopReq \/ stopReq') /\ hardStop' = hardStop
    BY <1>4
    DEF Frame, ApiStop, ApiHome, ApiGoto, UploadBegins, UploadRefused, UploadPrepares,
        UploadFails, UploadDrops, UploadEnds, OnTimer, JoyGoesStale, IdleLongEnough,
        requests, motion
  <2> QED
    BY <2>1
<1> QED
  BY <1>1, <1>2, <1>3, <1>4 DEF FwNext, Network, Loop

(* A stop accepted during a goto is not lost on the way to the planner: it *)
(* waits until the planner halts the goto, or the goto is over             *)
(* (TB3_WebGlue.ino:44-50, 165-212; TB_DF.ino:424-480).                    *)
THEOREM StopNeverLostInGoto ==
  FwSpec => [][InGoto /\ InGoto' /\ StopWaits => StopWaits' \/ HaltPlanned]_fwVars
<1>1. [FwNext]_fwVars =>
        [InGoto /\ InGoto' /\ StopWaits => StopWaits' \/ HaltPlanned]_fwVars
  BY StopWaitsOn
<1> QED
  BY <1>1, PTL DEF FwSpec
-----------------------------------------------------------------------------
(* The two places that start the step interrupt whatever an upload does: a *)
(* goto taken up, and an idle rig engaged again (TB3_WebGlue.ino:182-208,  *)
(* tb3_web_motion.ino:187-204).                                            *)
RestartsIsr ==
  \/ pc = "goto" /\ gotoReq /\ Safe
  \/ pc = "drive" /\ ~ engaged /\ Active

(* Every other step of an upload, of the network or of loopTask leaves the *)
(* interrupt off.                                                          *)
LEMMA FlashingKeepsIsrOff ==
  ASSUME FwTypeOK, FwNext, ota = "running", ota' = "running", ~ isrOn, isrOn'
  PROVE  RestartsIsr
<1>1. CASE PollGoto
  BY <1>1 DEF PollGoto, Plan, engine, RestartsIsr
<1>2. CASE Drive
  BY <1>2 DEF Drive, RestartsIsr
<1>3. CASE PassBegins
  BY <1>3 DEF PassBegins, Flashing
<1>4. CASE PollJoystick \/ PollStop \/ PollHome \/ MoveUpdate \/ MoveWaits \/ MovePump
  BY <1>4 DEF PollJoystick, PollStop, PollHome, MoveUpdate, MoveWaits, MovePump, engine
<1>5. CASE \/ \E axes \in Frames : Frame(axes)
           \/ ApiStop \/ ApiHome \/ ApiGoto
           \/ OnTimer \/ JoyGoesStale \/ IdleLongEnough
  BY <1>5 DEF Frame, ApiStop, ApiHome, ApiGoto, OnTimer, JoyGoesStale, IdleLongEnough, engine
<1>6. CASE \/ UploadBegins \/ UploadRefused \/ UploadPrepares
           \/ UploadFails \/ UploadDrops \/ UploadEnds \/ Restart
  BY <1>6
  DEF UploadBegins, UploadRefused, UploadPrepares, UploadFails, UploadDrops, UploadEnds,
      Restart, Flashing
<1> QED
  BY <1>1, <1>2, <1>3, <1>4, <1>5, <1>6 DEF FwNext, Network, Loop

(* What is left of README.md:66-68, which StepIsrStoppedWhileFlashing      *)
(* refutes: an upload that has stopped the interrupt keeps it stopped,     *)
(* but for the two places that start it without asking for an upload, a    *)
(* goto taken up and an idle rig engaged again by a stick; above all the   *)
(* pass that re-asserts it, round and round, does not                      *)
(* (tb3_web_motion.ino:55-66, 187-204; TB3_WebGlue.ino:182-208).           *)
THEOREM OnlyDriversRestartIsr ==
  FwSpec => [][ota = "running" /\ ota' = "running" /\ ~ isrOn /\ isrOn' => RestartsIsr]_fwVars
<1>1. FwTypeOK /\ [FwNext]_fwVars =>
        [ota = "running" /\ ota' = "running" /\ ~ isrOn /\ isrOn' => RestartsIsr]_fwVars
  BY FlashingKeepsIsrOff
<1> QED
  BY <1>1, FwTypeCorrect, PTL DEF FwSpec
=============================================================================
