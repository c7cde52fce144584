--------------------------- MODULE TrackingSession --------------------------
(***************************************************************************)
(* tb3-mcp/src/track/session.ts: the background loop that keeps the rig on *)
(* a moving target.  It first flies to the target with one goto            *)
(* ("acquiring"), then servos on it with jog vectors refreshed by every    *)
(* tick ("tracking"); whenever something it needs is missing it stops the  *)
(* rig and waits.                                                          *)
(*                                                                         *)
(* The goto is a promise nobody awaits.  It may settle after the session   *)
(* has stopped, restarted for another target, or dispatched a newer goto,  *)
(* and acquireGen is what tells a current answer from a superseded one.    *)
(* The code counts generations up for ever; only equality with acquireGen  *)
(* is ever tested, so a generation no promise holds is used again here,    *)
(* which bounds the promises outstanding at once by the size of Gens.      *)
(*                                                                         *)
(* What a handler reads of the rest of the daemon (calibration, telemetry, *)
(* where the target is) is its argument r, any element of Readings: these  *)
(* change between any two handlers.  The geometry behind r.aim and r.far   *)
(* is abstracted to its verdicts.                                          *)
(***************************************************************************)
EXTENDS Integers, MotionPort

CONSTANTS
  Targets,       \* the targets a client may ask for
  Gens,          \* acquire generations
  Readings,      \* what one handler may find in the calibration and telemetry
  MaxTargetAge,  \* cfg.trackMaxTargetAgeMs, in steps of Elapse
  Deadman        \* cfg.trackDeadmanMs, in steps of Elapse

AimVerdicts == {"ok", "none", "outside", "tilt", "pan"}

ReadingType ==
  [calibrated : BOOLEAN,      \* rig located and orientation solved
   program    : BOOLEAN,      \* DeviceState.programEngaged
   fresh      : BOOLEAN,      \* telemetry younger than trackStaleTelemetryMs
   moving     : BOOLEAN,      \* DeviceState.moving
   aim        : AimVerdicts,  \* no aim, outside the sector, out of limits, ok
   far        : BOOLEAN]      \* pointing error above trackReacquireDeg

ASSUME ReadingsAssumption == Readings \subseteq ReadingType
ASSUME AgesAssumption == MaxTargetAge \in Nat /\ Deadman \in Nat

VARIABLES
  sState,        \* TrackingSession.state
  sReason,       \* TrackingSession.reason, "none" for null
  label,         \* TrackingSession.label: the target start() was called for
  fixOf,         \* TrackingSession.est: the target its latest fix is of
  fixAge,        \* steps since the last fix; lastActivityMs is set with it
  acquireGen,    \* TrackingSession.acquireGen
  gotoInFlight,  \* TrackingSession.gotoInFlight
  pending        \* unsettled moveToUserAngle promises of beginAcquire

sessionCore == <<sState, sReason, acquireGen, gotoInFlight>>
estimate == <<label, fixOf, fixAge>>
session == <<sessionCore, estimate, pending>>
sessionVars == <<session, port>>

SessionStates == {"stopped", "waiting", "acquiring", "tracking"}

(* Mutant: a reason the status type does not have.                         *)
AimReasonUntyped == [none |-> "target_stale", outside |-> "outside_sector",
                     tilt |-> "tilt_limit", pan |-> "pan_limit"]

AimReason == [none |-> "target_stale", outside |-> "outside_sector",
              tilt |-> "below_tilt_limit", pan |-> "pan_limit"]

FailureReasons == {"device_busy", "goto_failed"}

WaitReasons ==
  FailureReasons \cup
  {"not_calibrated", "program_engaged", "telemetry_stale", "target_stale",
   "outside_sector", "below_tilt_limit", "pan_limit"}

(* A promise remembers whom its goto was sent for; the code need not.      *)
Promises == [gen : Gens, label : Targets]

SessionTypeOK ==
  /\ sState \in SessionStates
  /\ sReason \in WaitReasons \cup {"none"}
  /\ label \in Targets \cup {"none"}
  /\ fixOf \in Targets \cup {"none"}
  /\ fixAge \in 0 .. Deadman + 1
  /\ acquireGen \in Gens
  /\ gotoInFlight \in BOOLEAN
  /\ pending \subseteq Promises
  /\ PortTypeOK

SessionInit ==
  /\ sState = "stopped"
  /\ sReason = "none"
  /\ label = "none"
  /\ fixOf = "none"
  /\ fixAge = 0
  /\ acquireGen \in Gens
  /\ gotoInFlight = FALSE
  /\ pending = {}
  /\ PortInit
-----------------------------------------------------------------------------
FreshGens == Gens \ ({acquireGen} \cup {p.gen : p \in pending})

FreshGen == CHOOSE g \in FreshGens : TRUE

(* The bound on outstanding promises: a goto is dispatched only while a    *)
(* generation is left over for abandoning it.                              *)
RoomToDispatch == \E g, h \in FreshGens : g # h

Bump == acquireGen' = FreshGen

(* Mutant: the generation is not bumped.                                   *)
CancelGotoKeepingGen == gotoInFlight' = FALSE /\ UNCHANGED acquireGen

(* cancelGoto without its device.stop(), which the callers post.           *)
CancelGoto ==
  /\ gotoInFlight' = FALSE
  /\ IF gotoInFlight THEN Bump ELSE UNCHANGED acquireGen

(* Mutant: the rig is not told to stop.                                    *)
StopMotionWithoutPost == CancelGoto /\ ClearJog /\ UNCHANGED stopPost

StopMotion == CancelGoto /\ ClearJog /\ PostStopIf(gotoInFlight)

Wait(reason) ==
  /\ sState' = "waiting"
  /\ sReason' = reason
  /\ StopMotion
  /\ UNCHANGED pending

(* stop(), without the port: the sun supervisor calls it among port calls  *)
(* of its own.                                                             *)
StopSession ==
  /\ sState' = "stopped"
  /\ sReason' = "none"
  /\ CancelGoto
  /\ UNCHANGED <<estimate, pending>>

(* The tail of beginAcquire.  Called with a goto in flight only from       *)
(* start(), whose stopMotion cancels that one first.                       *)
Dispatch(l) ==
  /\ RoomToDispatch
  /\ sState' = "acquiring"
  /\ sReason' = "none"
  /\ gotoInFlight' = TRUE
  /\ Bump
  /\ pending' = pending \cup {[gen |-> FreshGen, label |-> l]}
  /\ ClearJog
  /\ PostStopIf(gotoInFlight)

(* start() succeeds whatever the aim is: with no reachable aim it begins   *)
(* in "waiting".  It reads no telemetry and no program flag.               *)
Start(t, r) ==
  /\ r.calibrated
  /\ label' = t
  /\ fixOf' = t
  /\ fixAge' = 0
  /\ IF r.aim = "ok" THEN Dispatch(t) ELSE Wait(AimReason[r.aim])
  /\ UNCHANGED jogLocked

(* updateTarget() for target t: a fix of whichever aircraft or object the  *)
(* caller means, not checked against the one being tracked.                *)
UpdateTarget(t, r) ==
  /\ sState # "stopped"
  /\ r.calibrated
  /\ fixOf' = t
  /\ fixAge' = 0
  /\ UNCHANGED <<sessionCore, label, pending, port>>

Stop ==
  /\ StopSession
  /\ ClearJog
  /\ PostStopIf(gotoInFlight)
  /\ UNCHANGED jogLocked
-----------------------------------------------------------------------------
(* The gates of tick(), in the order the code tries them.                  *)
Gate(r) ==
  IF      ~ r.calibrated        THEN "not_calibrated"
  ELSE IF r.program             THEN "program_engaged"
  ELSE IF ~ r.fresh             THEN "telemetry_stale"
  ELSE IF fixAge > MaxTargetAge THEN "target_stale"
  ELSE IF r.aim # "ok"          THEN AimReason[r.aim]
  ELSE "open"

(* Mutant: an abandoned session only waits.                                *)
DeadmanTickWaits ==
  /\ fixAge > Deadman
  /\ Wait("target_stale")
  /\ UNCHANGED <<estimate, jogLocked>>

DeadmanTick ==
  /\ fixAge > Deadman
  /\ Stop

GateTick(r) ==
  /\ fixAge <= Deadman
  /\ Gate(r) # "open"
  /\ Wait(Gate(r))
  /\ UNCHANGED <<estimate, jogLocked>>

AcquiringTick(r) ==
  /\ fixAge <= Deadman
  /\ Gate(r) = "open"
  /\ sState = "acquiring"
  /\ UNCHANGED sessionVars

MustReacquire(r) ==
  /\ fixAge <= Deadman
  /\ Gate(r) = "open"
  /\ sState = "waiting" \/ (sState = "tracking" /\ r.far)

(* The rig is still decelerating: it would refuse a goto.                  *)
BusyTick(r) ==
  /\ MustReacquire(r)
  /\ r.moving
  /\ Wait("device_busy")
  /\ UNCHANGED <<estimate, jogLocked>>

ReacquireTick(r) ==
  /\ MustReacquire(r)
  /\ ~ r.moving
  /\ Dispatch(label)
  /\ UNCHANGED <<estimate, jogLocked>>

ServoTick(r) ==
  /\ fixAge <= Deadman
  /\ Gate(r) = "open"
  /\ sState = "tracking"
  /\ ~ r.far
  /\ SetJogVector("session")
  /\ UNCHANGED <<session, jogLocked, stopPost>>

(* The timer runs exactly while the session is not stopped.                *)
Tick(r) ==
  /\ sState # "stopped"
  /\ \/ DeadmanTick
     \/ GateTick(r)
     \/ AcquiringTick(r)
     \/ BusyTick(r)
     \/ ReacquireTick(r)
     \/ ServoTick(r)
-----------------------------------------------------------------------------
Current(p) == p.gen = acquireGen

(* Mutant: a superseded goto's arrival is believed.                        *)
GotoArrivesUnchecked(p) ==
  /\ pending' = pending \ {p}
  /\ gotoInFlight' = FALSE
  /\ sState' = IF sState = "acquiring" THEN "tracking" ELSE sState
  /\ UNCHANGED <<sReason, estimate, acquireGen, port>>

(* The rig reached the goto's angles.                                      *)
GotoArrives(p) ==
  /\ pending' = pending \ {p}
  /\ IF Current(p)
       THEN /\ gotoInFlight' = FALSE
            /\ sState' = IF sState = "acquiring" THEN "tracking" ELSE sState
       ELSE UNCHANGED <<gotoInFlight, sState>>
  /\ UNCHANGED <<sReason, estimate, acquireGen, port>>

(* Mutant: the rejection is caught by nobody.                              *)
GotoFailsUncaught(p, why) ==
  /\ pending' = pending \ {p}
  /\ UNCHANGED <<sessionCore, estimate, port>>

(* The rig refused the goto, the request failed, or arrival timed out.     *)
(* gotoInFlight is cleared first, so wait() has nothing left to cancel.    *)
GotoFails(p, why) ==
  /\ pending' = pending \ {p}
  /\ IF Current(p)
       THEN /\ gotoInFlight' = FALSE
            /\ IF sState = "acquiring"
                 THEN sState' = "waiting" /\ sReason' = why /\ ClearJog
                 ELSE UNCHANGED <<sState, sReason, jogVec>>
       ELSE UNCHANGED <<gotoInFlight, sState, sReason, jogVec>>
  /\ UNCHANGED <<estimate, acquireGen, jogLocked, stopPost>>

(* Time passes; ages past the deadman are all alike.                       *)
Elapse ==
  /\ sState # "stopped"
  /\ fixAge <= Deadman
  /\ fixAge' = fixAge + 1
  /\ UNCHANGED <<sessionCore, label, fixOf, pending, port>>

GotoSettles(p) ==
  GotoArrives(p) \/ \E why \in FailureReasons : GotoFails(p, why)

(* What happens without a client asking.                                   *)
SessionInternal ==
  \/ \E r \in Readings : Tick(r)
  \/ \E p \in pending : GotoSettles(p)
  \/ Elapse

PortInternal == (JogExpires \/ StopSettles) /\ UNCHANGED session

SessionNext ==
  \/ \E t \in Targets, r \in Readings : Start(t, r) \/ UpdateTarget(t, r)
  \/ Stop
  \/ SessionInternal
  \/ PortInternal

SessionSpec == SessionInit /\ [][SessionNext]_sessionVars
-----------------------------------------------------------------------------
(* The interval timer of session.ts:117, the command timeout and arrival   *)
(* deadline every promise has (device.ts:122-129, 161-180) and the clock.  *)
(* Of the ticks only the deadman's is needed: what the others do depends   *)
(* on what they find, and nothing is assumed of that, nor of the clients.  *)
SessionFairness ==
  /\ WF_sessionVars(sState # "stopped" /\ DeadmanTick)
  /\ WF_sessionVars(Elapse)
  /\ \A g \in Gens : WF_sessionVars(\E p \in pending : p.gen = g /\ GotoSettles(p))

FairSessionSpec == SessionSpec /\ SessionFairness
-----------------------------------------------------------------------------
(* The three fields that say whether a goto is under way agree, with each  *)
(* other and with the promises outstanding: a session that says            *)
(* "acquiring" has exactly one unsettled goto that will move it on, no     *)
(* other state has one, and only a waiting session gives a reason.  The    *)
(* tick returns early while acquiring (session.ts:264), so a session       *)
(* acquiring without such a promise would hang there.                      *)
SessionCoherent ==
  /\ sState = "acquiring" <=> gotoInFlight
  /\ gotoInFlight <=> \E p \in pending : Current(p)
  /\ sState = "waiting" <=> sReason # "none"
  /\ \A p, q \in pending : p.gen = q.gen => p = q

(* A rate the session set stands only while it is servoing: every way out  *)
(* of "tracking" (session.ts:131-137, 200-214) drops the vector.           *)
RateOnlyWhileTracking == jogVec = "session" => sState = "tracking"

(* A session starts servoing only on the arrival of the goto it sent for   *)
(* its present target, never on that of one it abandoned                   *)
(* (session.ts:365-379).                                                   *)
TrackedByOwnGoto ==
  [][sState # "tracking" /\ sState' = "tracking"
       => \E p \in pending \ pending' : p.label = label]_sessionVars

(* A goto the session no longer owns, but which has not settled, has been  *)
(* followed by a stop request: the rig is not left flying to an abandoned  *)
(* aim (session.ts:190-198).                                               *)
Owned(p) == gotoInFlight /\ Current(p)

AbandonedGotoIsStopped ==
  [][\A p \in pending : Owned(p) /\ p \in pending' /\ ~ Owned(p)' => stopPost']_sessionVars

(* However its goto fares, and however often its target is fed, a session  *)
(* does not stay "acquiring", unless a newer start takes over              *)
(* (session.ts:364-385).                                                   *)
AcquireSettles ==
  \A g \in Gens :
    sState = "acquiring" /\ acquireGen = g ~> sState # "acquiring" \/ acquireGen # g

(* A session nobody feeds ends by itself (session.ts:227), in whatever     *)
(* state it is and whatever its handlers read.                             *)
DeadmanStops ==
  (sState # "stopped" /\ fixAge > 0) ~> (sState = "stopped" \/ fixAge = 0)
=============================================================================
