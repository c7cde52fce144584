---------------------------- MODULE SunSupervisor ---------------------------
(***************************************************************************)
(* tb3-mcp/src/track/supervisor.ts: the guard that keeps the camera off    *)
(* the sun.  Every tick it predicts whether the boresight is about to      *)
(* enter the exclusion cone; if so it stops whoever is moving the rig,     *)
(* locks everybody out and flies the rig to a safe tilt along one or two   *)
(* waypoints, one goto at a time.  What it cannot judge (stale telemetry,  *)
(* a failed sun calculation, no safe path) is a fault, which holds the     *)
(* lock until a human clears it.                                           *)
(*                                                                         *)
(* The tracking session runs beside it and shares the port with it.  Its   *)
(* clients are free here: a session may be started whatever the lock says, *)
(* because one path to start() (the ADS-B follower) does not ask.          *)
(*                                                                         *)
(* The sun's and the boresight's geometry is abstracted to the verdicts    *)
(* one tick reaches, its argument k.  A waypoint is its index in the plan. *)
(***************************************************************************)
EXTENDS TrackingSession

CONSTANTS
  ParkGens,    \* park epochs
  Skies,       \* what one tick may find
  MaxRetries   \* PARK_MAX_RETRIES

SkyType ==
  [calibrated : BOOLEAN,  \* rig located and orientation solved
   fresh      : BOOLEAN,  \* telemetry younger than trackStaleTelemetryMs
   computed   : BOOLEAN,  \* finite sun position, and nothing threw
   up         : BOOLEAN,  \* the sun is above the horizon
   tripped    : BOOLEAN,  \* checkSun: predicted to enter the cone
   plan       : 0 .. 2]   \* waypoints planPark found, 0 for no safe path

ASSUME SkiesAssumption == Skies \subseteq SkyType
ASSUME RetriesAssumption == MaxRetries \in Nat \ {0}

VARIABLES
  uState,        \* SunSupervisor.state
  locked,        \* SunSupervisor.locked
  enabled,       \* SunSupervisor.enabled
  parkInFlight,  \* SunSupervisor.parkInFlight
  parkPlan,      \* waypoints of SunSupervisor.parkPlan, 0 for null
  parkStep,      \* SunSupervisor.parkStep
  parkGen,       \* SunSupervisor.parkGen
  parkRetries,   \* SunSupervisor.parkRetries
  parkPending    \* unsettled moveToUserAngle promises of driveParkTick

plan == <<parkPlan, parkStep, parkRetries>>
park == <<plan, parkInFlight, parkGen>>
supervisor == <<uState, locked, enabled, park, parkPending>>
sunVars == <<supervisor, session, port>>

SunStates == {"disabled", "monitoring", "parking", "parked", "fault"}

ParkPromises == [gen : ParkGens, step : 0 .. 1]

SunTypeOK ==
  /\ uState \in SunStates
  /\ locked \in BOOLEAN
  /\ enabled \in BOOLEAN
  /\ parkInFlight \in BOOLEAN
  /\ parkPlan \in 0 .. 2
  /\ parkStep \in 0 .. parkPlan
  /\ parkGen \in ParkGens
  /\ parkRetries \in 0 .. MaxRetries - 1
  /\ parkPending \subseteq ParkPromises
  /\ SessionTypeOK

SunInit ==
  /\ uState = "disabled"
  /\ locked = FALSE
  /\ enabled \in BOOLEAN
  /\ parkInFlight = FALSE
  /\ parkPlan = 0
  /\ parkStep = 0
  /\ parkGen \in ParkGens
  /\ parkRetries = 0
  /\ parkPending = {}
  /\ SessionInit
-----------------------------------------------------------------------------
LiveParks == {p \in parkPending : p.gen = parkGen}

FreshParkGens == ParkGens \ ({parkGen} \cup {p.gen : p \in parkPending})

SetLocked(v) == locked' = v /\ jogLocked' = v

(* Mutant: the plan is dropped but not the epoch its gotos carry.          *)
AbortParkKeepingGen ==
  /\ parkPlan' = 0
  /\ parkStep' = 0
  /\ parkRetries' = 0
  /\ parkInFlight' = FALSE
  /\ UNCHANGED parkGen

(* abortPark without its device.stop(), which the callers post.  A new     *)
(* epoch matters only if a promise still carries the present one.          *)
AbortPark ==
  /\ parkPlan' = 0
  /\ parkStep' = 0
  /\ parkRetries' = 0
  /\ parkInFlight' = FALSE
  /\ parkGen' = IF LiveParks = {} THEN parkGen ELSE CHOOSE g \in FreshParkGens : TRUE

(* A session that was started under the lock.                              *)
Intruder == locked /\ sState # "stopped"

(* Mutant: the tick does not look for a session under the lock.            *)
ShowNobodyOut == UNCHANGED <<session, jogVec>>

(* What a tick does to the session and its rate before anything else.      *)
ShowOut ==
  /\ IF Intruder THEN StopSession ELSE UNCHANGED session
  /\ jogVec' = IF Intruder THEN "none" ELSE jogVec

(* Mutant: a fault tells the rig to stop only if a park goto is flying.    *)
EnterFaultQuietly ==
  /\ uState' = "fault"
  /\ SetLocked(TRUE)
  /\ StopSession
  /\ ClearJog
  /\ PostStopIf(parkInFlight)
  /\ AbortPark
  /\ UNCHANGED enabled

(* enterFault: always tells the rig to stop, whatever is flying.           *)
EnterFault ==
  /\ uState' = "fault"
  /\ SetLocked(TRUE)
  /\ StopSession
  /\ ClearJog
  /\ PostStopIf(TRUE)
  /\ AbortPark
  /\ UNCHANGED enabled

(* Mutant: the guard stands down without calling its park goto back.       *)
DisableQuietly ==
  /\ uState' = "disabled"
  /\ SetLocked(FALSE)
  /\ AbortPark
  /\ ShowOut
  /\ PostStopIf(Intruder /\ gotoInFlight)
  /\ UNCHANGED <<enabled, parkPending>>

Disable ==
  /\ uState' = "disabled"
  /\ SetLocked(FALSE)
  /\ AbortPark
  /\ ShowOut
  /\ PostStopIf(parkInFlight \/ (Intruder /\ gotoInFlight))
  /\ UNCHANGED <<enabled, parkPending>>

(* driveParkTick for waypoint `step` of a plan of n waypoints.             *)
DrivePark(n, step) ==
  \/ /\ step >= n
     /\ uState' = "parked"
     /\ parkInFlight' = FALSE
     /\ UNCHANGED parkPending
  \/ /\ step < n
     /\ parkInFlight
     /\ uState' = "parking"
     /\ UNCHANGED <<parkInFlight, parkPending>>
  \/ /\ step < n
     /\ ~ parkInFlight
     /\ FreshParkGens # {}   \* the bound on outstanding park gotos
     /\ uState' = "parking"
     /\ parkInFlight' = TRUE
     /\ parkPending' = parkPending \cup {[gen |-> parkGen, step |-> step]}
-----------------------------------------------------------------------------
(* The gates of tick(), in the order the code tries them.                  *)
Verdict(k) ==
  IF      uState = "fault"               THEN "hold"
  ELSE IF ~ enabled \/ ~ k.calibrated    THEN "disable"
  ELSE IF ~ k.fresh \/ ~ k.computed      THEN "fault"
  ELSE IF ~ k.up                         THEN "disable"
  ELSE IF uState = "parked"              THEN "hold"
  ELSE IF uState = "parking"             THEN "drive"
  ELSE IF k.tripped                      THEN "trip"
  ELSE "clear"

HoldTick(k) ==
  /\ Verdict(k) = "hold"
  /\ ShowOut
  /\ PostStopIf(Intruder /\ gotoInFlight)
  /\ UNCHANGED <<supervisor, jogLocked>>

DisableTick(k) == Verdict(k) = "disable" /\ Disable

FaultTick(k) ==
  /\ Verdict(k) = "fault"
  /\ EnterFault
  /\ UNCHANGED parkPending

DriveTick(k) ==
  /\ Verdict(k) = "drive"
  /\ DrivePark(parkPlan, parkStep)
  /\ ShowOut
  /\ PostStopIf(Intruder /\ gotoInFlight)
  /\ UNCHANGED <<locked, jogLocked, enabled, plan, parkGen>>

NoPathTick(k) ==
  /\ Verdict(k) = "trip"
  /\ k.plan = 0
  /\ EnterFault
  /\ UNCHANGED parkPending

TripTick(k) ==
  /\ Verdict(k) = "trip"
  /\ k.plan > 0
  /\ StopSession
  /\ ClearJog
  /\ PostStopIf(gotoInFlight)
  /\ SetLocked(TRUE)
  /\ parkPlan' = k.plan
  /\ parkStep' = 0
  /\ parkRetries' = 0
  /\ DrivePark(k.plan, 0)
  /\ UNCHANGED <<enabled, parkGen>>

ClearTick(k) ==
  /\ Verdict(k) = "clear"
  /\ uState' = "monitoring"
  /\ SetLocked(FALSE)
  /\ ShowOut
  /\ PostStopIf(Intruder /\ gotoInFlight)
  /\ UNCHANGED <<enabled, park, parkPending>>

(* One call of tick().  A throw in it ends in enterFault as a failed sun   *)
(* calculation does (k.computed stands for both).                          *)
SunTick(k) ==
  \/ HoldTick(k)
  \/ DisableTick(k)
  \/ FaultTick(k)
  \/ DriveTick(k)
  \/ NoPathTick(k)
  \/ TripTick(k)
  \/ ClearTick(k)
-----------------------------------------------------------------------------
LiveP(p) == p.gen = parkGen

(* Mutant: an arrival is counted whichever park it belongs to.             *)
ParkArrivesUnchecked(p) ==
  /\ parkPending' = parkPending \ {p}
  /\ parkStep' = parkStep + 1
  /\ parkRetries' = 0
  /\ parkInFlight' = FALSE
  /\ UNCHANGED <<uState, locked, enabled, parkPlan, parkGen, session, port>>

ParkArrives(p) ==
  /\ parkPending' = parkPending \ {p}
  /\ IF LiveP(p)
       THEN /\ parkStep' = parkStep + 1
            /\ parkRetries' = 0
            /\ parkInFlight' = FALSE
       ELSE UNCHANGED <<parkStep, parkRetries, parkInFlight>>
  /\ UNCHANGED <<uState, locked, enabled, parkPlan, parkGen, session, port>>

(* Mutant: a park whose gotos fail is tried for ever.                      *)
ParkFailsForever(p) ==
  /\ parkPending' = parkPending \ {p}
  /\ parkInFlight' = IF LiveP(p) THEN FALSE ELSE parkInFlight
  /\ UNCHANGED <<uState, locked, enabled, plan, parkGen, session, port>>

(* The rig refused the park goto, the request failed, or arrival timed     *)
(* out.  parkInFlight is cleared before enterFault looks at it.            *)
ParkFails(p) ==
  /\ parkPending' = parkPending \ {p}
  /\ \/ /\ ~ LiveP(p)
        /\ UNCHANGED <<uState, locked, enabled, park, session, port>>
     \/ /\ LiveP(p)
        /\ parkRetries + 1 < MaxRetries
        /\ parkInFlight' = FALSE
        /\ parkRetries' = parkRetries + 1
        /\ UNCHANGED <<uState, locked, enabled, parkPlan, parkStep, parkGen, session, port>>
     \/ /\ LiveP(p)
        /\ parkRetries + 1 >= MaxRetries
        /\ EnterFault

ParkSettles(p) == ParkArrives(p) \/ ParkFails(p)

(* set_sun_guard with clear_lock.                                          *)
ClearLock ==
  /\ SetLocked(FALSE)
  /\ IF uState \in {"parked", "fault", "parking"}
       THEN /\ AbortPark
            /\ PostStopIf(parkInFlight)
            /\ uState' = "monitoring"
       ELSE UNCHANGED <<park, stopPost, uState>>
  /\ UNCHANGED <<enabled, parkPending, jogVec, session>>

(* set_sun_guard with enabled.                                             *)
SetEnabled(b) ==
  /\ enabled' = b
  /\ UNCHANGED <<uState, locked, park, parkPending, session, port>>

(* A jog() loop sets or refreshes its vector; it may have begun before the *)
(* lock did.                                                               *)
ManualJog ==
  /\ SetJogVector("manual")
  /\ UNCHANGED <<jogLocked, stopPost, session>>

ClientNext ==
  \/ \E t \in Targets, r \in Readings : Start(t, r) \/ UpdateTarget(t, r)
  \/ Stop
  \/ ManualJog

SunNext ==
  \/ \E k \in Skies : SunTick(k)
  \/ \E p \in parkPending : ParkSettles(p)
  \/ ClearLock
  \/ \E b \in BOOLEAN : SetEnabled(b)
  \/ (ClientNext \/ SessionInternal \/ PortInternal) /\ UNCHANGED supervisor

SunSpec == SunInit /\ [][SunNext]_sunVars

(* The interval timer of supervisor.ts:64 and the deadlines every goto     *)
(* promise has; nothing of clients, operators or the sky: a tick is fair   *)
(* only where it acts whatever it finds.                                   *)
MustAct == Intruder \/ (uState = "parking" /\ ~ parkInFlight)

SunFairness ==
  /\ WF_sunVars(MustAct /\ \E k \in Skies : SunTick(k))
  /\ \A g \in ParkGens :
       WF_sunVars(\E p \in parkPending : p.gen = g /\ ParkSettles(p))

FairSunSpec == SunSpec /\ SunFairness
-----------------------------------------------------------------------------
(* The lock is one thing kept in three places: the flag the tools read,    *)
(* the port's latch and the guard's own state never disagree, and under    *)
(* the lock no jog vector stands (supervisor.ts:70-78, device.ts:245-256). *)
LockMirrored ==
  /\ locked = jogLocked
  /\ locked <=> uState \in {"parking", "parked", "fault"}
  /\ locked => jogVec = "none"

(* A park goto is outstanding exactly when the guard thinks so, it is the  *)
(* one of the waypoint the guard is waiting for, and only while parking;   *)
(* "parked" means every waypoint of the plan was reached                   *)
(* (supervisor.ts:137-141, 239-262).                                       *)
ParkCoherent ==
  /\ parkInFlight <=> LiveParks # {}
  /\ \A p \in LiveParks : p.step = parkStep /\ parkStep < parkPlan
  /\ uState = "parking" => parkPlan > 0
  /\ parkInFlight => uState = "parking"
  /\ uState = "parked" => parkPlan > 0 /\ parkStep = parkPlan
  /\ uState \in {"fault", "disabled", "monitoring"} => parkPlan = 0

(* The path flown is the path checked: the guard moves on to the next      *)
(* waypoint only when the goto it sent for this one, in this park, has     *)
(* arrived (supervisor.ts:233-254).                                        *)
ParkInOrder ==
  [][parkStep' > parkStep
       => /\ parkStep' = parkStep + 1
          /\ \E p \in LiveParks \ parkPending' : p.step = parkStep]_sunVars

(* A park goto the guard gives up while it is unsettled is followed by a   *)
(* stop request (supervisor.ts:132-138).                                   *)
AbandonedParkIsStopped ==
  [][\A p \in LiveParks : p \in parkPending' /\ p.gen # parkGen' => stopPost']_sunVars

(* The step that engages the lock leaves nothing of the session's moving:  *)
(* it is stopped, its goto called back, no vector stands; and a fault      *)
(* tells the rig to stop in any case (supervisor.ts:119-130, 217-219).     *)
LockStopsMotion ==
  [][/\ ~ locked /\ locked' =>
          sState' = "stopped" /\ jogVec' = "none" /\ (gotoInFlight => stopPost')
     /\ uState # "fault" /\ uState' = "fault" => stopPost']_sunVars

(* A fault ends only by set_sun_guard with clear_lock: neither a settling  *)
(* goto, nor a good reading, nor the sun setting ends it                   *)
(* (supervisor.ts:169-173).                                                *)
FaultIsSticky == [][uState = "fault" /\ uState' # "fault" => ClearLock]_sunVars

(* The guard keeps the promise the rest of the daemon relies on, a session *)
(* started under the lock being stopped by its next tick among it          *)
(* (supervisor.ts:70-78, 164-167, 217-219).                                *)
Promise == INSTANCE LockedRig WITH vector <- jogVec, sessionOn <- sState # "stopped"

KeepsPromise == Promise!Spec

(* A park comes to an end, parked or in a fault or called off, however     *)
(* its gotos fare (supervisor.ts:239-262).                                 *)
ParkResolves == uState = "parking" ~> uState # "parking"

(* README.md "Fail-closed": only set_sun_guard with clear_lock leaves      *)
(* fault, parked or parking.  Refuted: while the guard stays enabled, a    *)
(* tick that finds the sun set or the calibration gone calls disable(),    *)
(* which leaves parked and parking and releases the lock                   *)
(* (supervisor.ts:114-117, 175-191).                                       *)
OnlyClearLockReleases == [][locked /\ enabled /\ ~ locked' => ClearLock]_sunVars
=============================================================================
