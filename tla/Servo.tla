-------------------------------- MODULE Servo -------------------------------
(***************************************************************************)
(* One axis of the rate servo near its soft limits: the control law and    *)
(* the limit guard (track/control.ts, track/session.ts) on telemetry that  *)
(* is late, a keep-alive that sends the vector on a timer of its own       *)
(* (device.ts), and an axis whose firmware takes a frame up at its next    *)
(* velocity cycle, only ramps its speed and has no end stops               *)
(* (tb3_web_motion.ino, TB3_Nunchuck.ino, TB_DF.ino).                      *)
(*                                                                         *)
(* Time is counted in the firmware's velocity cycles, and what happens     *)
(* within one is put at its end; a position in what the slowest rate       *)
(* covers in one cycle.  A frame reaches the rig within the cycle it is    *)
(* sent in.                                                                *)
(***************************************************************************)
EXTENDS Integers

CONSTANTS
  MaxJog,      \* cfg.maxJogDps
  Accel,       \* accelmax, what the ramp adds to a rate in one cycle
  Rounding,    \* what rounding to whole deflections adds to a rate or takes off
  Limit,       \* the soft limits are - Limit and Limit
  TickPeriod,  \* cycles between two ticks of the session
  PumpPeriod,  \* JOG_KEEPALIVE_MS in cycles
  PushPeriod   \* cycles between two telemetry pushes of the rig

ASSUME ServoAssumption ==
  /\ {MaxJog, Rounding, Limit} \subseteq Nat
  /\ {Accel, TickPeriod, PumpPeriod, PushPeriod} \subseteq Nat \ {0}

VARIABLES
  pos,    \* where the axis is
  rate,   \* the rate of the segment that runs
  next,   \* that of the segment after it, once nextMoveLoaded; the same before
  nextMoveLoaded,  \* the segment after this one has been computed
  stick,  \* the rate the last frame's deflection stands for
  jog,    \* the rate jogVec's does, 0 if it is null
  pump,   \* cycles to the keep-alive's next frame, or NoTimer
  seen,   \* the position last pushed
  age,    \* how old that is
  due     \* cycles to the session's next tick

motionVars == <<pos, rate, next, nextMoveLoaded>>
servoVars == <<motionVars, stick, jog, pump, seen, age, due>>

NoTimer == -1
Rates == -MaxJog .. MaxJog
Bound(x, lo, hi) == IF x < lo THEN lo ELSE IF x > hi THEN hi ELSE x
Size(x) == IF x < 0 THEN -x ELSE x

ServoTypeOK ==
  /\ pos \in Int
  /\ rate \in Rates
  /\ next \in Rates
  /\ nextMoveLoaded \in BOOLEAN
  /\ stick \in Rates
  /\ jog \in Rates
  /\ pump \in NoTimer .. PumpPeriod
  /\ seen \in Int
  /\ age \in 0 .. PushPeriod
  /\ due \in 0 .. TickPeriod

ServoInit ==
  /\ pos \in {-Limit, 0, Limit}
  /\ rate = 0
  /\ next = 0
  /\ nextMoveLoaded = FALSE
  /\ stick = 0
  /\ jog = 0
  /\ pump = NoTimer
  /\ seen = pos
  /\ age = 0
  /\ due = 0
-----------------------------------------------------------------------------
(* Feed forward plus the error, clamped.  How fast the target moves is     *)
(* anyone's guess, so that is any rate there is.                           *)
controlRate == Rates

(* Whole cycles of the ramp.                                               *)
decel(r) == (Size(r) + Accel - 1) \div Accel

(* Mutant: nothing is allowed for an old reading and for the next tick.    *)
HorizonOfRamp(r) == decel(r)

limitHorizon(r) == age + TickPeriod + decel(r)

limitGuard(r) ==
  IF Size(seen + r * limitHorizon(r)) > Limit THEN 0 ELSE r

(* The rates the firmware's curve may make of r's deflection: rounded up   *)
(* or down, nothing in the dead zone, never the other way or too fast.     *)
rateToDeflection(r) ==
  {d \in Rates : Size(d - r) <= Rounding /\ (d > 0 => r > 0) /\ (d < 0 => r < 0)}

(* The first frame is sent at once, later ones by the keep-alive only.     *)
setJogVector(d) ==
  /\ jog' = d
  /\ IF pump = NoTimer THEN stick' = d /\ pump' = PumpPeriod ELSE UNCHANGED <<stick, pump>>

ServoTick ==
  /\ due = 0
  /\ due' = TickPeriod
  /\ \E r \in controlRate : \E d \in rateToDeflection(limitGuard(r)) : setJogVector(d)
  /\ UNCHANGED <<motionVars, seen, age>>

(* clearJog sends its zeros at once.                                       *)
WaitTick ==
  /\ due = 0
  /\ due' = TickPeriod
  /\ jog' = 0
  /\ stick' = 0
  /\ pump' = NoTimer
  /\ UNCHANGED <<motionVars, seen, age>>

(* Ticks refresh the vector before its time to live is over.               *)
Pump ==
  /\ pump = 0
  /\ pump' = PumpPeriod
  /\ stick' = jog
  /\ UNCHANGED <<motionVars, jog, seen, age, due>>

(* loopTask, free to since the last load, computes the segment after the   *)
(* one that runs, from the stick as it stands.                             *)
updateMotorVelocities2 ==
  /\ ~ nextMoveLoaded
  /\ nextMoveLoaded' = TRUE
  /\ next' = Bound(stick, next - Accel, next + Accel)
  /\ UNCHANGED <<pos, rate, stick, jog, pump, seen, age, due>>

(* The interrupt's next boundary: the segment has run, the one computed is *)
(* loaded.  loopTask was not late, nor are the timers and the rig's push.  *)
Cycle ==
  /\ nextMoveLoaded
  /\ due > 0
  /\ age < PushPeriod
  /\ pump # 0
  /\ pos' = pos + rate
  /\ rate' = next
  /\ nextMoveLoaded' = FALSE
  /\ age' = age + 1
  /\ due' = due - 1
  /\ pump' = IF pump = NoTimer THEN NoTimer ELSE pump - 1
  /\ UNCHANGED <<next, stick, jog, seen>>

Push ==
  /\ age > 0
  /\ age' = 0
  /\ seen' = pos
  /\ UNCHANGED <<motionVars, stick, jog, pump, due>>

ServoNext ==
  \/ ServoTick
  \/ WaitTick
  \/ Pump
  \/ updateMotorVelocities2
  \/ Cycle
  \/ Push

ServoSpec == ServoInit /\ [][ServoNext]_servoVars
-----------------------------------------------------------------------------
(* What the guard's horizon leaves out: a frame is sent up to a period of  *)
(* the keep-alive after its tick (device.ts:204-237), waits for loopTask   *)
(* to be free for up to a cycle (tb3_web_motion.ino:183-201), and for the  *)
(* boundary after that for another (TB_DF.ino:380-406); and the rates are  *)
(* rounded (control.ts:146-152).                                           *)
Delay == PumpPeriod + 2
Overrun == (Delay + 1) * (MaxJog + Rounding)

(* README.md "Soft-limit prediction": the axis does not run out of its     *)
(* limits, however the target and the readings come (control.ts:221-244),  *)
(* but for what it covers in a frame's delay and a cycle more, the former  *)
(* for the delay itself and the latter for the rounding.                   *)
NeverRunsAway == Size(pos) <= Limit + Overrun

(* The longest the guard looks ahead; and a bound that holds whatever it   *)
(* predicts, since it lets nothing outward pass once a reading is outside. *)
LongestHorizon == PushPeriod + TickPeriod + decel(MaxJog)
NeverFarOut == Size(pos) <= Limit + (LongestHorizon + Delay) * MaxJog
=============================================================================
