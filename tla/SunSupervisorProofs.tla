------------------------- MODULE SunSupervisorProofs ------------------------
(***************************************************************************)
(* The sun guard's lock, for any session, readings and skies: its three    *)
(* copies never disagree, no vector stands under it, engaging it stops the *)
(* session, and only a human ends a fault.  And its park: the plan, the    *)
(* step and the goto outstanding agree, and the plan is flown in order.    *)
(*                                                                         *)
(* LockMirrored is inductive as it stands.  The session beside the guard   *)
(* enters the proof only through what it may do to the port: SessionOnPort *)
(*                                                                         *)
(* And that is what the guard promises the rest of the system: every step  *)
(* of guard, session and port together is one of LockedRig, or none.       *)
(***************************************************************************)
EXTENDS SunSupervisor, TrackingSessionProofs, TLAPS

(* What a session or client step may do to the port: drop the vector, or   *)
(* set one through the latch; it never touches the latch.                  *)
SessionOnPort ==
  /\ jogLocked' = jogLocked
  /\ jogVec' \in {jogVec, "none"} \/ ~ jogLocked

(* Every step of the session, its clients and the port is of that kind     *)
(* (session.ts, device.ts:230-256).                                        *)
LEMMA SessionStaysOnPort ==
  ASSUME ClientNext \/ SessionInternal \/ PortInternal
  PROVE  SessionOnPort
<1>1. ASSUME NEW t \in Targets, NEW r \in Readings, Start(t, r) \/ UpdateTarget(t, r)
      PROVE  SessionOnPort
  BY <1>1
  DEF Start, UpdateTarget, Dispatch, Wait, StopMotion, ClearJog, SessionOnPort, port
<1>2. CASE Stop
  BY <1>2 DEF Stop, ClearJog, SessionOnPort
<1>3. CASE ManualJog
  BY <1>3 DEF ManualJog, SetJogVector, SessionOnPort
<1>4. ASSUME NEW r \in Readings, Tick(r)
      PROVE  SessionOnPort
  BY <1>4
  DEF Tick, DeadmanTick, Stop, GateTick, AcquiringTick, BusyTick, ReacquireTick, ServoTick,
      Dispatch, Wait, StopMotion, ClearJog, SetJogVector, SessionOnPort, sessionVars, port
<1>5. ASSUME NEW p \in pending, GotoSettles(p)
      PROVE  SessionOnPort
  BY <1>5 DEF GotoSettles, GotoArrives, GotoFails, ClearJog, SessionOnPort, port
<1>6. CASE Elapse
  BY <1>6 DEF Elapse, SessionOnPort, port
<1>7. CASE PortInternal
  BY <1>7 DEF PortInternal, JogExpires, StopSettles, ClearJog, SessionOnPort
<1>8. QED
  BY <1>1, <1>2, <1>3, <1>4, <1>5, <1>6, <1>7 DEF ClientNext, SessionInternal

(* A tick of the guard keeps the copies of the lock alike.                 *)
LEMMA SunTickKeepsMirror ==
  ASSUME LockMirrored, NEW k \in Skies, SunTick(k)
  PROVE  LockMirrored'
<1>1. CASE HoldTick(k)
  BY <1>1 DEF HoldTick, ShowOut, LockMirrored, supervisor
<1>2. CASE DisableTick(k)
  BY <1>2 DEF DisableTick, Disable, SetLocked, LockMirrored
<1>3. CASE FaultTick(k) \/ NoPathTick(k)
  BY <1>3 DEF FaultTick, NoPathTick, EnterFault, SetLocked, ClearJog, LockMirrored
<1>4. CASE DriveTick(k)
  <2>1. uState = "parking" /\ uState' \in {"parking", "parked"}
    BY <1>4 DEF DriveTick, DrivePark, Verdict
  <2>2. QED
    BY <1>4, <2>1 DEF DriveTick, ShowOut, LockMirrored
<1>5. CASE TripTick(k)
  <2>1. uState' \in {"parking", "parked"}
    BY <1>5 DEF TripTick, DrivePark
  <2>2. QED
    BY <1>5, <2>1 DEF TripTick, SetLocked, ClearJog, LockMirrored
<1>6. CASE ClearTick(k)
  BY <1>6 DEF ClearTick, SetLocked, LockMirrored
<1>7. QED
  BY <1>1, <1>2, <1>3, <1>4, <1>5, <1>6 DEF SunTick

(* Every step of the whole daemon does.                                    *)
LEMMA StepKeepsMirror == LockMirrored /\ [SunNext]_sunVars => LockMirrored'
<1> SUFFICES ASSUME LockMirrored, [SunNext]_sunVars
             PROVE  LockMirrored'
  OBVIOUS
<1>1. CASE \E k \in Skies : SunTick(k)
  BY <1>1, SunTickKeepsMirror
<1>2. ASSUME NEW p \in parkPending, ParkSettles(p)
      PROVE  LockMirrored'
  <2>1. CASE ParkArrives(p)
    BY <2>1 DEF ParkArrives, LockMirrored, port
  <2>2. CASE ParkFails(p)
    <3>1. CASE UNCHANGED <<uState, locked, port>>
      BY <3>1 DEF LockMirrored, port
    <3>2. CASE EnterFault
      BY <3>2 DEF EnterFault, SetLocked, ClearJog, LockMirrored
    <3>3. QED
      BY <2>2, <3>1, <3>2 DEF ParkFails
  <2>3. QED
    BY <1>2, <2>1, <2>2 DEF ParkSettles
<1>3. CASE ClearLock
  BY <1>3 DEF ClearLock, SetLocked, LockMirrored
<1>4. CASE \E b \in BOOLEAN : SetEnabled(b)
  BY <1>4 DEF SetEnabled, LockMirrored, port
<1>5. CASE (ClientNext \/ SessionInternal \/ PortInternal) /\ UNCHANGED supervisor
  <2>1. SessionOnPort
    BY <1>5, SessionStaysOnPort
  <2>2. QED
    BY <1>5, <2>1 DEF SessionOnPort, LockMirrored, supervisor
<1>6. CASE UNCHANGED sunVars
  BY <1>6 DEF sunVars, supervisor, port, LockMirrored
<1>7. QED
  BY <1>1, <1>2, <1>3, <1>4, <1>5, <1>6 DEF SunNext

(* The flag the tools read, the port's latch and the guard's state always  *)
(* agree, and under the lock no vector stands (supervisor.ts:70-78,        *)
(* device.ts:245-256).                                                     *)
THEOREM LockAlwaysMirrored == SunSpec => []LockMirrored
<1>1. SunInit => LockMirrored
  BY DEF SunInit, SessionInit, PortInit, LockMirrored
<1>2. LockMirrored /\ [SunNext]_sunVars => LockMirrored'
  BY StepKeepsMirror
<1>3. QED
  BY <1>1, <1>2, PTL DEF SunSpec

(* A step of the guard that raises the lock stops the session, drops the   *)
(* vector and calls the session's goto back; one that enters a fault tells *)
(* the rig to stop whatever it is doing.                                   *)
LEMMA StepRaisesLockSafely ==
  ASSUME SunNext
  PROVE  /\ ~ locked /\ locked' =>
              sState' = "stopped" /\ jogVec' = "none" /\ (gotoInFlight => stopPost')
         /\ uState # "fault" /\ uState' = "fault" => stopPost'
<1> DEFINE Goal ==
      /\ ~ locked /\ locked' =>
           sState' = "stopped" /\ jogVec' = "none" /\ (gotoInFlight => stopPost')
      /\ uState # "fault" /\ uState' = "fault" => stopPost'
<1>1. CASE EnterFault
  BY <1>1 DEF EnterFault, StopSession, ClearJog, PostStopIf
<1>2. ASSUME NEW k \in Skies, SunTick(k)
      PROVE  Goal
  <2>1. CASE HoldTick(k)
    BY <2>1 DEF HoldTick, supervisor
  <2>2. CASE DisableTick(k)
    BY <2>2 DEF DisableTick, Disable, SetLocked
  <2>3. CASE FaultTick(k) \/ NoPathTick(k)
    BY <1>1, <2>3 DEF FaultTick, NoPathTick
  <2>4. CASE DriveTick(k)
    BY <2>4 DEF DriveTick, DrivePark
  <2>5. CASE TripTick(k)
    BY <2>5 DEF TripTick, DrivePark, StopSession, ClearJog, PostStopIf
  <2>6. CASE ClearTick(k)
    BY <2>6 DEF ClearTick, SetLocked
  <2>7. QED
    BY <1>2, <2>1, <2>2, <2>3, <2>4, <2>5, <2>6 DEF SunTick
<1>3. ASSUME NEW p \in parkPending, ParkSettles(p)
      PROVE  Goal
  BY <1>1, <1>3 DEF ParkSettles, ParkArrives, ParkFails
<1>4. CASE ClearLock \/ \E b \in BOOLEAN : SetEnabled(b)
  BY <1>4 DEF ClearLock, SetEnabled, SetLocked
<1>5. CASE UNCHANGED supervisor
  BY <1>5 DEF supervisor
<1>6. QED
  BY <1>2, <1>3, <1>4, <1>5 DEF SunNext

(* The step that engages the lock leaves nothing of the session's moving,  *)
(* and a fault tells the rig to stop in any case (supervisor.ts:119-130,   *)
(* 217-219).                                                               *)
THEOREM LockAlwaysStopsMotion == SunSpec => LockStopsMotion
<1>1. [SunNext]_sunVars =>
        [/\ ~ locked /\ locked' =>
              sState' = "stopped" /\ jogVec' = "none" /\ (gotoInFlight => stopPost')
         /\ uState # "fault" /\ uState' = "fault" => stopPost']_sunVars
  BY StepRaisesLockSafely
<1>2. QED
  BY <1>1, PTL DEF SunSpec, LockStopsMotion

(* In a fault a tick only holds, and nothing but clear_lock leaves it.     *)
LEMMA StepKeepsFault ==
  ASSUME SunNext, uState = "fault", uState' # "fault"
  PROVE  ClearLock
<1>1. ASSUME NEW k \in Skies, SunTick(k)
      PROVE  FALSE
  <2>1. Verdict(k) = "hold"
    BY DEF Verdict
  <2>2. HoldTick(k)
    BY <1>1, <2>1
    DEF SunTick, DisableTick, FaultTick, DriveTick, NoPathTick, TripTick, ClearTick
  <2>3. QED
    BY <2>2 DEF HoldTick, supervisor
<1>2. ASSUME NEW p \in parkPending, ParkSettles(p)
      PROVE  FALSE
  BY <1>2 DEF ParkSettles, ParkArrives, ParkFails, EnterFault
<1>3. ~ UNCHANGED supervisor /\ \A b \in BOOLEAN : ~ SetEnabled(b)
  BY DEF supervisor, SetEnabled
<1>4. QED
  BY <1>1, <1>2, <1>3 DEF SunNext

(* A fault ends only by set_sun_guard with clear_lock                      *)
(* (supervisor.ts:169-173).                                                *)
THEOREM FaultAlwaysSticky == SunSpec => FaultIsSticky
<1>1. [SunNext]_sunVars => [uState = "fault" /\ uState' # "fault" => ClearLock]_sunVars
  BY StepKeepsFault DEF sunVars
<1>2. QED
  BY <1>1, PTL DEF SunSpec, FaultIsSticky

(* A locked guard that stands down by itself: it was parking or parked,    *)
(* and this tick finds it disabled, the calibration gone or the sun set    *)
(* (supervisor.ts:114-117, 175-191).                                       *)
StandsDown ==
  /\ uState \in {"parking", "parked"}
  /\ \E k \in Skies : DisableTick(k) /\ (~ enabled \/ ~ k.calibrated \/ ~ k.up)

(* In no state of a lock does a tick find the sun clear.                   *)
LEMMA StepReleasesLock ==
  ASSUME LockMirrored, SunNext, locked, ~ locked'
  PROVE  ClearLock \/ StandsDown
<1>1. ASSUME NEW k \in Skies, SunTick(k)
      PROVE  StandsDown
  <2>1. ~ HoldTick(k) /\ ~ DriveTick(k)
    BY DEF HoldTick, DriveTick, supervisor
  <2>2. ~ FaultTick(k) /\ ~ NoPathTick(k) /\ ~ TripTick(k)
    BY DEF FaultTick, NoPathTick, TripTick, EnterFault, SetLocked
  <2>3. uState \in {"parking", "parked", "fault"}
    BY DEF LockMirrored
  <2>4. ~ ClearTick(k)
    BY <2>3 DEF ClearTick, Verdict
  <2>5. DisableTick(k)
    BY <1>1, <2>1, <2>2, <2>4 DEF SunTick
  <2>6. uState # "fault" /\ (~ enabled \/ ~ k.calibrated \/ ~ k.up)
    BY <2>5 DEF DisableTick, Verdict
  <2> QED
    BY <2>3, <2>5, <2>6 DEF StandsDown
<1>2. ASSUME NEW p \in parkPending, ParkSettles(p)
      PROVE  FALSE
  BY <1>2 DEF ParkSettles, ParkArrives, ParkFails, EnterFault, SetLocked
<1>3. ~ UNCHANGED supervisor /\ \A b \in BOOLEAN : ~ SetEnabled(b)
  BY DEF supervisor, SetEnabled
<1> QED
  BY <1>1, <1>2, <1>3 DEF SunNext

(* What is left of README.md "Fail-closed", which OnlyClearLockReleases    *)
(* refutes: the lock is released by clear_lock, or by a tick that finds a  *)
(* guard that is parking or parked disabled, uncalibrated or past sunset;  *)
(* by no arrival, failure, client or trip (supervisor.ts:114-117,          *)
(* 169-191).                                                               *)
THEOREM LockReleasesAccountedFor ==
  SunSpec => [][locked /\ ~ locked' => ClearLock \/ StandsDown]_sunVars
<1>1. LockMirrored /\ [SunNext]_sunVars
        => [locked /\ ~ locked' => ClearLock \/ StandsDown]_sunVars
  BY StepReleasesLock
<1> QED
  BY <1>1, LockAlwaysMirrored, PTL DEF SunSpec
-----------------------------------------------------------------------------
(* The park's own types; and while a park goto is in flight an epoch is    *)
(* left for abandoning it, so that every new one is carried by no promise. *)
ParkTypeOK ==
  /\ uState \in SunStates
  /\ locked \in BOOLEAN
  /\ enabled \in BOOLEAN
  /\ parkInFlight \in BOOLEAN
  /\ parkPlan \in 0 .. 2
  /\ parkStep \in 0 .. parkPlan
  /\ parkGen \in ParkGens
  /\ parkRetries \in 0 .. MaxRetries - 1
  /\ parkPending \subseteq ParkPromises

ParkGenLeft == parkInFlight => FreshParkGens # {}

ParkInv == ParkTypeOK /\ ParkCoherent /\ ParkGenLeft

(* Aborting a park leaves no promise that could still move it on           *)
(* (supervisor.ts:132-141).                                                *)
LEMMA AbortLeavesNone ==
  ASSUME ParkInv, AbortPark, parkPending' \subseteq parkPending
  PROVE  /\ parkPlan' = 0 /\ parkStep' = 0 /\ parkRetries' = 0 /\ parkInFlight' = FALSE
         /\ parkGen' \in ParkGens
         /\ LiveParks' = {}
         /\ LiveParks # {} => parkGen' # parkGen
<1>1. CASE LiveParks = {}
  <2>1. parkGen' = parkGen
    BY <1>1 DEF AbortPark
  <2> QED
    BY <1>1, <2>1 DEF AbortPark, LiveParks, ParkInv, ParkTypeOK
<1>2. CASE LiveParks # {}
  <2>1. FreshParkGens # {}
    BY <1>2 DEF ParkInv, ParkCoherent, ParkGenLeft
  <2>2. parkGen' \in FreshParkGens
    BY <1>2, <2>1 DEF AbortPark
  <2>3. parkGen' \in ParkGens /\ parkGen' # parkGen /\ \A p \in parkPending : p.gen # parkGen'
    BY <2>2 DEF FreshParkGens
  <2> QED
    BY <2>3 DEF AbortPark, LiveParks
<1> QED
  BY <1>1, <1>2

(* Every way out of a park that goes through abortPark: into a fault, a    *)
(* disabled guard or a watching one.                                       *)
LEMMA AbortKeepsPark ==
  ASSUME ParkInv, AbortPark, parkPending' \subseteq parkPending,
         uState' \in {"fault", "disabled", "monitoring"},
         locked' \in BOOLEAN, enabled' \in BOOLEAN
  PROVE  ParkInv'
<1>1. /\ parkPlan' = 0 /\ parkStep' = 0 /\ parkRetries' = 0 /\ parkInFlight' = FALSE
      /\ parkGen' \in ParkGens /\ LiveParks' = {}
  BY AbortLeavesNone
<1>2. parkRetries' \in 0 .. MaxRetries - 1 /\ parkPlan' \in 0 .. 2 /\ parkStep' \in 0 .. parkPlan'
  BY <1>1, RetriesAssumption
<1>3. ParkTypeOK'
  <2>1. uState' \in SunStates /\ parkInFlight' \in BOOLEAN /\ parkPending' \subseteq ParkPromises
    BY <1>1 DEF ParkInv, ParkTypeOK, SunStates
  <2> QED
    BY <1>1, <1>2, <2>1 DEF ParkTypeOK
<1>4. ParkCoherent' /\ ParkGenLeft'
  BY <1>1 DEF ParkCoherent, ParkGenLeft
<1> QED
  BY <1>3, <1>4 DEF ParkInv

(* A step that leaves the park alone.                                      *)
LEMMA IdleKeepsPark ==
  ASSUME ParkInv, UNCHANGED <<park, parkPending>>,
         \/ uState' = uState
         \/ parkPlan = 0 /\ uState' \in {"fault", "disabled", "monitoring"},
         locked' \in BOOLEAN, enabled' \in BOOLEAN
  PROVE  ParkInv'
<1>1. ParkTypeOK'
  BY DEF ParkInv, ParkTypeOK, SunStates, park, plan
<1>2. LiveParks' = LiveParks /\ FreshParkGens' = FreshParkGens
  BY DEF LiveParks, FreshParkGens, park
<1>3. ParkCoherent'
  BY <1>2 DEF ParkInv, ParkCoherent, ParkTypeOK, park, plan
<1>4. ParkGenLeft'
  BY <1>2 DEF ParkInv, ParkGenLeft, park
<1> QED
  BY <1>1, <1>3, <1>4 DEF ParkInv

(* The park's goto for a step of a plan it has not finished is the only    *)
(* promise of its epoch (supervisor.ts:233-262).                           *)
LEMMA DriveKeepsPark ==
  ASSUME ParkInv, NEW n \in 1 .. 2, NEW step \in 0 .. n, DrivePark(n, step),
         parkPlan' = n, parkStep' = step, parkRetries' \in 0 .. MaxRetries - 1,
         parkGen' = parkGen, locked' \in BOOLEAN, enabled' \in BOOLEAN,
         parkInFlight => n = parkPlan /\ step = parkStep
  PROVE  ParkInv'
<1>1. CASE step >= n
  <2>1. step = n /\ ~ parkInFlight
    BY <1>1 DEF ParkInv, ParkCoherent
  <2>2. uState' = "parked" /\ parkInFlight' = FALSE /\ parkPending' = parkPending
    BY <1>1 DEF DrivePark
  <2>3. LiveParks' = {}
    BY <2>1, <2>2 DEF ParkInv, ParkCoherent, LiveParks
  <2>4. parkPlan' \in 0 .. 2 /\ parkPlan' > 0 /\ parkStep' \in 0 .. parkPlan' /\ parkStep' = parkPlan'
    BY <2>1
  <2>5. ParkTypeOK'
    BY <2>2, <2>4 DEF ParkInv, ParkTypeOK, SunStates
  <2>6. ParkCoherent' /\ ParkGenLeft'
    BY <2>2, <2>3, <2>4 DEF ParkCoherent, ParkGenLeft
  <2> QED
    BY <2>5, <2>6 DEF ParkInv
<1>2. CASE step < n /\ parkInFlight
  <2>1. /\ parkPlan' = parkPlan /\ parkStep' = parkStep /\ step = parkStep /\ n = parkPlan
    BY <1>2
  <2>2. uState' = "parking" /\ UNCHANGED <<parkInFlight, parkPending>>
    <3>1. ~ (step >= n)
      BY <1>2
    <3> QED
      BY <1>2, <3>1 DEF DrivePark
  <2>3. LiveParks' = LiveParks /\ FreshParkGens' = FreshParkGens
    BY <2>2 DEF LiveParks, FreshParkGens
  <2>4. ParkTypeOK'
    BY <2>1, <2>2 DEF ParkInv, ParkTypeOK, SunStates
  <2>5. ParkCoherent'
    BY <2>1, <2>2, <2>3 DEF ParkInv, ParkCoherent
  <2>6. ParkGenLeft'
    BY <2>2, <2>3 DEF ParkInv, ParkGenLeft
  <2> QED
    BY <2>4, <2>5, <2>6 DEF ParkInv
<1>3. CASE step < n /\ ~ parkInFlight
  <2> DEFINE p == [gen |-> parkGen, step |-> step]
  <2>1. /\ uState' = "parking" /\ parkInFlight' = TRUE /\ FreshParkGens # {}
        /\ parkPending' = parkPending \cup {p}
    BY <1>3 DEF DrivePark
  <2>2. p \in ParkPromises /\ p.gen = parkGen /\ p.step = step
    BY <1>3 DEF ParkInv, ParkTypeOK, ParkPromises
  <2> HIDE DEF p
  <2>3. LiveParks' = {p}
    BY <1>3, <2>1, <2>2 DEF ParkInv, ParkCoherent, LiveParks
  <2>4. FreshParkGens' = FreshParkGens
    BY <2>1, <2>2 DEF FreshParkGens
  <2>5. ParkTypeOK'
    BY <2>1, <2>2 DEF ParkInv, ParkTypeOK, SunStates
  <2>6. ParkCoherent'
    BY <1>3, <2>1, <2>2, <2>3 DEF ParkCoherent
  <2> QED
    BY <2>1, <2>4, <2>5, <2>6 DEF ParkInv, ParkGenLeft
<1> QED
  BY <1>1, <1>2, <1>3 DEF DrivePark

(* A live park promise is the only one.                                    *)
LEMMA OneLivePark ==
  ASSUME ParkInv, NEW p \in LiveParks
  PROVE  LiveParks = {p}
<1> SUFFICES ASSUME NEW q \in LiveParks PROVE q = p
  OBVIOUS
<1>1. p.step = q.step /\ p.gen = q.gen
  BY DEF ParkInv, ParkCoherent, LiveParks
<1>2. p \in ParkPromises /\ q \in ParkPromises
  BY DEF ParkInv, ParkTypeOK, LiveParks
<1> QED
  BY <1>1, <1>2 DEF ParkPromises

(* A tick of the guard keeps the park coherent.                            *)
LEMMA TickKeepsPark ==
  ASSUME ParkInv, NEW k \in Skies, SunTick(k)
  PROVE  ParkInv'
<1>0. locked \in BOOLEAN /\ enabled \in BOOLEAN
  BY DEF ParkInv, ParkTypeOK
<1>1. CASE HoldTick(k)
  BY <1>0, <1>1, IdleKeepsPark DEF HoldTick, supervisor
<1>2. CASE DisableTick(k)
  BY <1>0, <1>2, AbortKeepsPark DEF DisableTick, Disable, SetLocked
<1>3. CASE FaultTick(k) \/ NoPathTick(k)
  BY <1>0, <1>3, AbortKeepsPark DEF FaultTick, NoPathTick, EnterFault, SetLocked
<1>4. CASE DriveTick(k)
  <2>1. uState = "parking" /\ DrivePark(parkPlan, parkStep) /\ UNCHANGED <<locked, enabled, plan, parkGen>>
    BY <1>4 DEF DriveTick, Verdict
  <2>2. parkPlan \in 1 .. 2 /\ parkStep \in 0 .. parkPlan /\ parkRetries \in 0 .. MaxRetries - 1
    BY <2>1 DEF ParkInv, ParkTypeOK, ParkCoherent
  <2> QED
    BY <1>0, <2>1, <2>2, DriveKeepsPark DEF plan
<1>5. CASE TripTick(k)
  <2>1. k.plan \in 1 .. 2 /\ DrivePark(k.plan, 0)
    BY <1>5, SkiesAssumption DEF TripTick, SkyType
  <2>2. uState \in {"disabled", "monitoring"}
    BY <1>5 DEF TripTick, Verdict, ParkInv, ParkTypeOK, SunStates
  <2>3. ~ parkInFlight
    BY <2>2 DEF ParkInv, ParkCoherent
  <2>4. 0 \in 0 .. MaxRetries - 1 /\ 0 \in 0 .. k.plan
    BY <2>1, RetriesAssumption
  <2> QED
    BY <1>0, <1>5, <2>1, <2>3, <2>4, DriveKeepsPark DEF TripTick, SetLocked
<1>6. CASE ClearTick(k)
  <2>1. uState \in {"disabled", "monitoring"}
    BY <1>6 DEF ClearTick, Verdict, ParkInv, ParkTypeOK, SunStates
  <2>2. parkPlan = 0
    BY <2>1 DEF ParkInv, ParkCoherent
  <2> QED
    BY <1>0, <1>6, <2>2, IdleKeepsPark DEF ClearTick, SetLocked
<1> QED
  BY <1>1, <1>2, <1>3, <1>4, <1>5, <1>6 DEF SunTick

(* So does a park goto that settles, live or abandoned                     *)
(* (supervisor.ts:246-262).                                                *)
LEMMA SettlingKeepsPark ==
  ASSUME ParkInv, NEW p \in parkPending, ParkSettles(p)
  PROVE  ParkInv'
<1>0. /\ parkPending' = parkPending \ {p} /\ p \in ParkPromises
      /\ ParkTypeOK /\ 0 \in 0 .. MaxRetries - 1
  BY RetriesAssumption DEF ParkSettles, ParkArrives, ParkFails, ParkInv, ParkTypeOK
<1>1. CASE ~ LiveP(p)
  <2>1. UNCHANGED <<uState, locked, enabled, park>>
    BY <1>1 DEF ParkSettles, ParkArrives, ParkFails, park, plan
  <2>2. LiveParks' = LiveParks /\ FreshParkGens \subseteq FreshParkGens'
    BY <1>0, <1>1, <2>1 DEF LiveParks, LiveP, FreshParkGens, park
  <2> QED
    BY <1>0, <2>1, <2>2 DEF ParkInv, ParkTypeOK, ParkCoherent, ParkGenLeft, park, plan
<1>2. CASE LiveP(p)
  <2>1. /\ LiveParks = {p} /\ p.step = parkStep /\ parkStep < parkPlan
        /\ uState = "parking" /\ parkInFlight
    <3>1. p \in LiveParks
      BY <1>2 DEF LiveParks, LiveP
    <3> QED
      BY <3>1, OneLivePark DEF ParkInv, ParkCoherent
  <2>2. CASE ParkArrives(p)
    <3>1. /\ parkStep' = parkStep + 1 /\ parkRetries' = 0 /\ parkInFlight' = FALSE
          /\ UNCHANGED <<uState, locked, enabled, parkPlan, parkGen>>
      BY <1>2, <2>2 DEF ParkArrives
    <3>2. LiveParks' = {}
      BY <1>0, <2>1, <3>1 DEF LiveParks
    <3>3. parkStep + 1 \in 0 .. parkPlan
      BY <1>0, <2>1 DEF ParkTypeOK
    <3>4. ParkTypeOK'
      BY <1>0, <3>1, <3>3 DEF ParkTypeOK
    <3> QED
      BY <2>1, <3>1, <3>2, <3>4 DEF ParkInv, ParkCoherent, ParkGenLeft
  <2>3. CASE ParkFails(p) /\ parkRetries + 1 < MaxRetries
    <3>1. /\ parkInFlight' = FALSE /\ parkRetries' = parkRetries + 1
          /\ UNCHANGED <<uState, locked, enabled, parkPlan, parkStep, parkGen>>
      BY <1>0, <1>2, <2>3, RetriesAssumption DEF ParkFails, ParkTypeOK
    <3>2. LiveParks' = {}
      BY <1>0, <2>1, <3>1 DEF LiveParks
    <3>3. parkRetries + 1 \in 0 .. MaxRetries - 1
      BY <1>0, <2>3, RetriesAssumption DEF ParkTypeOK
    <3>4. ParkTypeOK'
      BY <1>0, <3>1, <3>3 DEF ParkTypeOK
    <3> QED
      BY <2>1, <3>1, <3>2, <3>4 DEF ParkInv, ParkCoherent, ParkGenLeft
  <2>4. CASE ParkFails(p) /\ ~ (parkRetries + 1 < MaxRetries)
    <3>1. EnterFault
      BY <1>2, <2>4 DEF ParkFails
    <3> QED
      BY <1>0, <3>1, AbortKeepsPark DEF EnterFault, SetLocked, ParkTypeOK
  <2> QED
    BY <2>2, <2>3, <2>4 DEF ParkSettles
<1> QED
  BY <1>1, <1>2

(* Every step of the daemon does.                                          *)
LEMMA StepKeepsPark == ParkInv /\ [SunNext]_sunVars => ParkInv'
<1> SUFFICES ASSUME ParkInv, [SunNext]_sunVars
             PROVE  ParkInv'
  OBVIOUS
<1>0. locked \in BOOLEAN /\ enabled \in BOOLEAN
  BY DEF ParkInv, ParkTypeOK
<1>1. CASE \E k \in Skies : SunTick(k)
  BY <1>1, TickKeepsPark
<1>2. CASE \E p \in parkPending : ParkSettles(p)
  BY <1>2, SettlingKeepsPark
<1>3. CASE ClearLock
  <2>1. CASE uState \in {"parked", "fault", "parking"}
    BY <1>0, <1>3, <2>1, AbortKeepsPark DEF ClearLock, SetLocked
  <2>2. CASE uState \notin {"parked", "fault", "parking"}
    BY <1>0, <1>3, <2>2, IdleKeepsPark DEF ClearLock, SetLocked
  <2> QED
    BY <2>1, <2>2
<1>4. CASE \E b \in BOOLEAN : SetEnabled(b)
  BY <1>0, <1>4, IdleKeepsPark DEF SetEnabled
<1>5. CASE UNCHANGED supervisor
  BY <1>0, <1>5, IdleKeepsPark DEF supervisor
<1> QED
  BY <1>1, <1>2, <1>3, <1>4, <1>5 DEF SunNext, sunVars

(* The park's types, its coherence and the epoch left over hold in every   *)
(* reachable state.                                                        *)
LEMMA ParkInvariant == SunSpec => []ParkInv
<1>1. SunInit => ParkInv
  <2> SUFFICES ASSUME SunInit PROVE ParkInv
    OBVIOUS
  <2>1. 0 \in 0 .. MaxRetries - 1
    BY RetriesAssumption
  <2>2. LiveParks = {}
    BY DEF SunInit, LiveParks
  <2>3. parkPlan \in 0 .. 2 /\ parkStep \in 0 .. parkPlan
    BY DEF SunInit
  <2>4. ParkTypeOK
    BY <2>1, <2>3 DEF SunInit, ParkTypeOK, SunStates
  <2>5. ParkCoherent /\ ParkGenLeft
    BY <2>2 DEF SunInit, ParkCoherent, ParkGenLeft
  <2> QED
    BY <2>4, <2>5 DEF ParkInv
<1> QED
  BY <1>1, StepKeepsPark, PTL DEF SunSpec

(* A park goto is outstanding exactly when the guard thinks so, for the    *)
(* waypoint it is waiting for, and "parked" means every waypoint was       *)
(* reached (supervisor.ts:137-141, 239-262).                               *)
THEOREM ParkAlwaysCoherent == SunSpec => []ParkCoherent
<1>1. ParkInv => ParkCoherent
  BY DEF ParkInv
<1> QED
  BY <1>1, ParkInvariant, PTL

(* Where a park's goto is given up unsettled, a stop is posted, and the    *)
(* park moves on only by the arrival of its own goto.                      *)
ParkStep ==
  /\ parkStep' > parkStep =>
       /\ parkStep' = parkStep + 1
       /\ \E p \in LiveParks \ parkPending' : p.step = parkStep
  /\ \A p \in LiveParks : p \in parkPending' /\ p.gen # parkGen' => stopPost'

(* A step that keeps the epoch and the step number, or starts the park     *)
(* over, gives nothing up.                                                 *)
LEMMA SameEpochIsParkStep ==
  ASSUME ParkInv, parkGen' = parkGen, parkStep' = parkStep \/ parkStep' = 0
  PROVE  ParkStep
<1>1. ~ (parkStep' > parkStep)
  BY DEF ParkInv, ParkTypeOK
<1> QED
  BY <1>1 DEF ParkStep, LiveParks

(* Aborting the park posts a stop if its goto was in flight                *)
(* (supervisor.ts:132-138).                                                *)
LEMMA AbortIsParkStep ==
  ASSUME ParkInv, AbortPark, parkInFlight => stopPost'
  PROVE  ParkStep
<1>1. ~ (parkStep' > parkStep)
  BY DEF ParkInv, ParkTypeOK, AbortPark
<1>2. LiveParks # {} => stopPost'
  BY DEF ParkInv, ParkCoherent
<1> QED
  BY <1>1, <1>2 DEF ParkStep

(* Every step of the daemon is such a step.                                *)
LEMMA StepIsParkStep ==
  ASSUME ParkInv, [SunNext]_sunVars
  PROVE  ParkStep
<1>1. CASE EnterFault
  BY <1>1, AbortIsParkStep DEF EnterFault, PostStopIf
<1>2. ASSUME NEW k \in Skies, SunTick(k)
      PROVE  ParkStep
  <2>1. CASE HoldTick(k)
    BY <2>1, SameEpochIsParkStep DEF HoldTick, supervisor, park, plan
  <2>2. CASE DisableTick(k)
    BY <2>2, AbortIsParkStep DEF DisableTick, Disable, PostStopIf
  <2>3. CASE FaultTick(k) \/ NoPathTick(k)
    BY <1>1, <2>3 DEF FaultTick, NoPathTick
  <2>4. CASE DriveTick(k)
    BY <2>4, SameEpochIsParkStep DEF DriveTick, plan
  <2>5. CASE TripTick(k)
    BY <2>5, SameEpochIsParkStep DEF TripTick
  <2>6. CASE ClearTick(k)
    BY <2>6, SameEpochIsParkStep DEF ClearTick, park, plan
  <2> QED
    BY <1>2, <2>1, <2>2, <2>3, <2>4, <2>5, <2>6 DEF SunTick
<1>3. ASSUME NEW p \in parkPending, ParkSettles(p)
      PROVE  ParkStep
  <2>1. CASE ParkArrives(p) /\ LiveP(p)
    <3>1. /\ parkStep' = parkStep + 1 /\ parkGen' = parkGen
          /\ p \in LiveParks /\ p \notin parkPending'
      BY <2>1 DEF ParkArrives, LiveP, LiveParks
    <3>2. p.step = parkStep
      BY <3>1 DEF ParkInv, ParkCoherent
    <3> QED
      BY <3>1, <3>2 DEF ParkStep, LiveParks
  <2>2. CASE ParkArrives(p) /\ ~ LiveP(p)
    BY <2>2, SameEpochIsParkStep DEF ParkArrives
  <2>3. CASE ParkFails(p)
    BY <1>1, <2>3, SameEpochIsParkStep DEF ParkFails, park, plan
  <2> QED
    BY <1>3, <2>1, <2>2, <2>3 DEF ParkSettles
<1>4. CASE ClearLock
  <2>1. CASE uState \in {"parked", "fault", "parking"}
    BY <1>4, <2>1, AbortIsParkStep DEF ClearLock, PostStopIf
  <2>2. CASE uState \notin {"parked", "fault", "parking"}
    BY <1>4, <2>2, SameEpochIsParkStep DEF ClearLock, park, plan
  <2> QED
    BY <2>1, <2>2
<1>5. CASE \E b \in BOOLEAN : SetEnabled(b)
  BY <1>5, SameEpochIsParkStep DEF SetEnabled, park, plan
<1>6. CASE UNCHANGED supervisor
  BY <1>6, SameEpochIsParkStep DEF supervisor, park, plan
<1> QED
  BY <1>2, <1>3, <1>4, <1>5, <1>6 DEF SunNext, sunVars

(* The guard moves on to the next waypoint only when the goto it sent for  *)
(* this one, in this park, has arrived (supervisor.ts:233-254).            *)
THEOREM ParkAlwaysInOrder == SunSpec => ParkInOrder
<1>1. ParkInv /\ [SunNext]_sunVars =>
        [parkStep' > parkStep
           => /\ parkStep' = parkStep + 1
              /\ \E p \in LiveParks \ parkPending' : p.step = parkStep]_sunVars
  BY StepIsParkStep DEF ParkStep
<1> QED
  BY <1>1, ParkInvariant, PTL DEF SunSpec, ParkInOrder

(* A park goto the guard gives up while it is unsettled is followed by a   *)
(* stop request (supervisor.ts:132-138).                                   *)
THEOREM AbandonedParkAlwaysStopped == SunSpec => AbandonedParkIsStopped
<1>1. ParkInv /\ [SunNext]_sunVars =>
        [\A p \in LiveParks : p \in parkPending' /\ p.gen # parkGen' => stopPost']_sunVars
  BY StepIsParkStep DEF ParkStep
<1> QED
  BY <1>1, ParkInvariant, PTL DEF SunSpec, AbandonedParkIsStopped
-----------------------------------------------------------------------------
(* What the guard does to the session beside it: it leaves it alone, or    *)
(* stops it and drops the vector (supervisor.ts:119-130, 164-167).         *)
SessionKeptOrStopped ==
  /\ jogLocked' \in BOOLEAN
  /\ stopPost' \in BOOLEAN
  /\ \/ UNCHANGED session /\ jogVec' \in {jogVec, "manual", "none"}
     \/ StopSession /\ ClearJog

(* Both keep the session's invariant.                                      *)
LEMMA KeptOrStoppedKeepsInv ==
  ASSUME SessionInv, SessionKeptOrStopped
  PROVE  SessionInv'
<1>1. CASE UNCHANGED session /\ jogVec' \in {jogVec, "manual", "none"}
  BY <1>1, PortStepKeepsInv DEF SessionKeptOrStopped
<1>2. CASE StopSession /\ ClearJog
  <2>1. /\ label' \in Targets \cup {"none"}
        /\ fixOf' \in Targets \cup {"none"}
        /\ fixAge' \in 0 .. Deadman + 1
    BY <1>2 DEF StopSession, estimate, SessionInv, SessionTypeOK
  <2> QED
    BY <1>2, <2>1, AbandonKeepsInv DEF StopSession, SessionKeptOrStopped
<1> QED
  BY <1>1, <1>2 DEF SessionKeptOrStopped

(* Nothing else happens to the session in a step of the guard, or of an    *)
(* operator at its tools.                                                  *)
LEMMA GuardKeepsOrStops ==
  ASSUME SessionInv, ParkInv,
         \/ \E k \in Skies : SunTick(k)
         \/ \E p \in parkPending : ParkSettles(p)
         \/ ClearLock
         \/ \E b \in BOOLEAN : SetEnabled(b)
         \/ ManualJog
  PROVE  SessionKeptOrStopped
<1>0. jogLocked \in BOOLEAN /\ stopPost \in BOOLEAN
  BY DEF SessionInv, SessionTypeOK, PortTypeOK
<1>1. ASSUME ShowOut, jogLocked' \in BOOLEAN, stopPost' \in BOOLEAN
      PROVE  SessionKeptOrStopped
  BY <1>1 DEF ShowOut, SessionKeptOrStopped, ClearJog
<1>2. CASE EnterFault
  BY <1>0, <1>2 DEF EnterFault, SetLocked, PostStopIf, SessionKeptOrStopped
<1>3. ASSUME NEW k \in Skies, SunTick(k)
      PROVE  SessionKeptOrStopped
  <2>1. CASE HoldTick(k)
    BY <1>0, <1>1, <2>1 DEF HoldTick, PostStopIf
  <2>2. CASE DisableTick(k)
    BY <1>0, <1>1, <2>2 DEF DisableTick, Disable, SetLocked, PostStopIf
  <2>3. CASE FaultTick(k) \/ NoPathTick(k)
    BY <1>2, <2>3 DEF FaultTick, NoPathTick
  <2>4. CASE DriveTick(k)
    BY <1>0, <1>1, <2>4 DEF DriveTick, PostStopIf
  <2>5. CASE TripTick(k)
    BY <1>0, <2>5 DEF TripTick, SetLocked, PostStopIf, SessionKeptOrStopped
  <2>6. CASE ClearTick(k)
    BY <1>0, <1>1, <2>6 DEF ClearTick, SetLocked, PostStopIf
  <2> QED
    BY <1>3, <2>1, <2>2, <2>3, <2>4, <2>5, <2>6 DEF SunTick
<1>4. ASSUME NEW p \in parkPending, ParkSettles(p)
      PROVE  SessionKeptOrStopped
  BY <1>0, <1>2, <1>4 DEF ParkSettles, ParkArrives, ParkFails, SessionKeptOrStopped, port
<1>5. CASE ClearLock
  BY <1>0, <1>5 DEF ClearLock, SetLocked, PostStopIf, SessionKeptOrStopped
<1>6. CASE \E b \in BOOLEAN : SetEnabled(b)
  BY <1>0, <1>6 DEF SetEnabled, SessionKeptOrStopped, port
<1>7. CASE ManualJog
  BY <1>0, <1>7 DEF ManualJog, SetJogVector, SessionKeptOrStopped
<1> QED
  BY <1>3, <1>4, <1>5, <1>6, <1>7

(* So every step of the guard and of its clients keeps the session's       *)
(* invariant, with the park's.                                             *)
LEMMA SunStepKeepsSession == ParkInv /\ SessionInv /\ [SunNext]_sunVars => SessionInv'
<1> SUFFICES ASSUME ParkInv, SessionInv, [SunNext]_sunVars
             PROVE  SessionInv'
  OBVIOUS
<1>1. CASE \/ \E k \in Skies : SunTick(k)
           \/ \E p \in parkPending : ParkSettles(p)
           \/ ClearLock
           \/ \E b \in BOOLEAN : SetEnabled(b)
           \/ ManualJog
  BY <1>1, GuardKeepsOrStops, KeptOrStoppedKeepsInv
<1>2. CASE (ClientNext /\ ~ ManualJog) \/ SessionInternal \/ PortInternal
  <2>1. SessionNext
    BY <1>2 DEF ClientNext, SessionNext
  <2> QED
    BY <2>1, SessionStepKeepsInv
<1>3. CASE UNCHANGED sunVars
  BY <1>3, SessionStepKeepsInv DEF sunVars, sessionVars
<1> QED
  BY <1>1, <1>2, <1>3 DEF SunNext

(* The guard's variables and the session's always have their types.        *)
THEOREM SunTypeCorrect == SunSpec => []SunTypeOK
<1>1. SunInit => SessionInv
  BY InitEstablishesInv DEF SunInit
<1>2. ParkInv /\ SessionInv => SunTypeOK
  BY DEF ParkInv, ParkTypeOK, SessionInv, SunTypeOK
<1> QED
  BY <1>1, <1>2, ParkInvariant, SunStepKeepsSession, PTL DEF SunSpec
-----------------------------------------------------------------------------
(* What a step of the daemon is to somebody who sees only the lock, the    *)
(* vector and whether a session is active (LockedRig's variables).         *)
Locks == ~ locked /\ locked' = TRUE /\ sState' = "stopped" /\ jogVec' = "none"

Unlocks ==
  /\ locked
  /\ locked' = FALSE
  /\ jogVec' = jogVec
  /\ sState' \in {sState, "stopped"}

PromisedStep ==
  \/ locked' = locked /\ (StopsSession \/ RunsSession \/ KeepsSession)
  \/ Locks
  \/ Unlocks

(* Each of them is a step of the abstract lock, or none.                   *)
LEMMA PromisedIsAbstract ==
  ASSUME LockMirrored, PromisedStep
  PROVE  [Promise!Next]_(Promise!vars)
<1> USE DEF Promise!Next, Promise!vars
<1>1. CASE locked' = locked /\ StopsSession
  BY <1>1 DEF StopsSession, Promise!SessionStops
<1>2. CASE locked' = locked /\ RunsSession
  BY <1>2 DEF RunsSession, Promise!SessionStarts
<1>3. CASE locked' = locked /\ KeepsSession
  <2>0. locked' = locked /\ (sState' # "stopped") = (sState # "stopped")
    BY <1>3 DEF KeepsSession
  <2>1. CASE jogVec' = jogVec
    BY <2>0, <2>1
  <2>2. CASE jogVec' = "none"
    BY <2>0, <2>2 DEF Promise!DropVector
  <2>3. CASE ~ locked /\ (jogVec' = "manual" \/ (jogVec' = "session" /\ sState # "stopped"))
    BY <2>0, <2>3 DEF Promise!SetVector
  <2> QED
    BY <1>3, <2>1, <2>2, <2>3 DEF KeepsSession, LockMirrored
<1>4. CASE Locks
  BY <1>4 DEF Locks, Promise!Engage
<1>5. CASE Unlocks
  BY <1>5 DEF Unlocks, Promise!Release
<1> QED
  BY <1>1, <1>2, <1>3, <1>4, <1>5 DEF PromisedStep

(* The guard's side: its ticks, its gotos and its tools                    *)
(* (supervisor.ts:70-78, 114-130, 164-167, 217-219).                       *)
LEMMA GuardKeepsPromise ==
  ASSUME LockMirrored, SunTypeOK,
         \/ \E k \in Skies : SunTick(k)
         \/ \E p \in parkPending : ParkSettles(p)
         \/ ClearLock
         \/ \E b \in BOOLEAN : SetEnabled(b)
  PROVE  PromisedStep
<1> USE DEF PromisedStep
<1>0. locked \in BOOLEAN
  BY DEF SunTypeOK
<1>1. CASE EnterFault
  BY <1>0, <1>1 DEF EnterFault, SetLocked, StopSession, ClearJog, Locks, StopsSession
<1>2. ASSUME ShowOut, locked' = locked
      PROVE  PromisedStep
  BY <1>2 DEF ShowOut, StopSession, session, sessionCore, StopsSession, KeepsSession
<1>3. ASSUME ShowOut, locked' = FALSE
      PROVE  PromisedStep
  BY <1>0, <1>3
  DEF ShowOut, Intruder, StopSession, LockMirrored, session, sessionCore, Unlocks, KeepsSession
<1>4. ASSUME NEW k \in Skies, SunTick(k)
      PROVE  PromisedStep
  <2>1. CASE HoldTick(k) \/ DriveTick(k)
    BY <1>2, <2>1 DEF HoldTick, DriveTick, supervisor
  <2>2. CASE DisableTick(k) \/ ClearTick(k)
    BY <1>3, <2>2 DEF DisableTick, Disable, ClearTick, SetLocked
  <2>3. CASE FaultTick(k) \/ NoPathTick(k)
    BY <1>1, <2>3 DEF FaultTick, NoPathTick
  <2>4. CASE TripTick(k)
    BY <1>0, <2>4 DEF TripTick, SetLocked, StopSession, ClearJog, Locks, StopsSession
  <2> QED
    BY <1>4, <2>1, <2>2, <2>3, <2>4 DEF SunTick
<1>5. ASSUME NEW p \in parkPending, ParkSettles(p)
      PROVE  PromisedStep
  BY <1>1, <1>5 DEF ParkSettles, ParkArrives, ParkFails, session, sessionCore, port, KeepsSession
<1>6. CASE ClearLock
  BY <1>0, <1>6 DEF ClearLock, SetLocked, session, sessionCore, Unlocks, KeepsSession
<1>7. CASE \E b \in BOOLEAN : SetEnabled(b)
  BY <1>7 DEF SetEnabled, session, sessionCore, port, KeepsSession
<1> QED
  BY <1>4, <1>5, <1>6, <1>7

(* The other side: whoever moves the rig leaves the lock alone and, under  *)
(* it, sets no vector (session.ts:131-214, device.ts:230-256).             *)
LEMMA ClientsKeepPromise ==
  ASSUME LockMirrored, ClientNext \/ SessionInternal \/ PortInternal, UNCHANGED supervisor
  PROVE  PromisedStep
<1> USE DEF PromisedStep
<1>0. locked' = locked
  BY DEF supervisor
<1>1. CASE Stop
  BY <1>0, <1>1 DEF Stop, StopSession, ClearJog, StopsSession
<1>2. ASSUME NEW t \in Targets, NEW r \in Readings, Start(t, r)
      PROVE  PromisedStep
  BY <1>0, <1>2, StartIsMoverStep DEF MoverStep
<1>3. ASSUME NEW t \in Targets, NEW r \in Readings, UpdateTarget(t, r)
      PROVE  PromisedStep
  BY <1>0, <1>3 DEF UpdateTarget, sessionCore, port, KeepsSession
<1>4. CASE ManualJog
  BY <1>0, <1>4 DEF ManualJog, SetJogVector, session, sessionCore, KeepsSession
<1>5. CASE SessionInternal \/ PortInternal
  BY <1>0, <1>5, InternalIsMoverStep DEF MoverStep
<1> QED
  BY <1>1, <1>2, <1>3, <1>4, <1>5 DEF ClientNext

(* The guard implements the abstract lock: engaging it stops the session   *)
(* and drops the vector, nothing sets one while it is engaged              *)
(* (supervisor.ts:70-78, 164-167, 217-219).  That an intruder does not     *)
(* last, the rest of KeepsPromise, is liveness.                            *)
THEOREM GuardImplementsLock == SunSpec => Promise!Safety
<1>1. SunInit => Promise!Init
  BY DEF SunInit, SessionInit, PortInit, Promise!Init
<1>2. LockMirrored /\ SunTypeOK /\ [SunNext]_sunVars => [Promise!Next]_(Promise!vars)
  <2> SUFFICES ASSUME LockMirrored, SunTypeOK, [SunNext]_sunVars
               PROVE  PromisedStep
    BY PromisedIsAbstract
  <2>1. CASE UNCHANGED sunVars
    BY <2>1 DEF sunVars, supervisor, session, sessionCore, port, PromisedStep, KeepsSession
  <2> QED
    BY <2>1, GuardKeepsPromise, ClientsKeepPromise DEF SunNext
<1> QED
  BY <1>1, <1>2, LockAlwaysMirrored, SunTypeCorrect, PTL DEF SunSpec, Promise!Safety
=============================================================================
