------------------------ MODULE TrackingSessionProofs -----------------------
(***************************************************************************)
(* Invariants of the tracking session, for any targets, generations,       *)
(* readings and ages: its type, the agreement of its fields with the gotos *)
(* outstanding, and that its rate stands only while it tracks.             *)
(*                                                                         *)
(* They are proved together, as SessionInv.  What they lack for being      *)
(* inductive is GenLeft: while a goto is in flight a generation is left    *)
(* for abandoning it, which is what makes every bump yield a generation no *)
(* promise carries; and Targeted: a tick sends its gotos for a target.     *)
(***************************************************************************)
EXTENDS TrackingSession, TLAPS

GenLeft == gotoInFlight => FreshGens # {}

Targeted == sState # "stopped" => label \in Targets

SessionInv ==
  /\ SessionTypeOK
  /\ SessionCoherent
  /\ RateOnlyWhileTracking
  /\ GenLeft
  /\ Targeted
-----------------------------------------------------------------------------
(* A bump takes a generation that neither acquireGen nor any outstanding   *)
(* promise has.                                                            *)
LEMMA FreshGenIsFresh ==
  ASSUME FreshGens # {}
  PROVE  /\ FreshGen \in Gens
         /\ FreshGen \in FreshGens
         /\ FreshGen # acquireGen
         /\ \A p \in pending : p.gen # FreshGen
BY DEF FreshGen, FreshGens

(* What abandoning a goto leaves: no promise is current any more.          *)
LEMMA CancelAbandons ==
  ASSUME SessionInv, CancelGoto, pending' = pending
  PROVE  /\ gotoInFlight' = FALSE
         /\ acquireGen' \in Gens
         /\ \A p \in pending' : p.gen # acquireGen'
<1>1. CASE gotoInFlight
  <2>1. FreshGens # {}
    BY <1>1 DEF SessionInv, GenLeft
  <2>2. acquireGen' = FreshGen
    BY <1>1 DEF CancelGoto, Bump
  <2>3. QED
    BY <2>1, <2>2, FreshGenIsFresh DEF CancelGoto
<1>2. CASE ~ gotoInFlight
  BY <1>2 DEF CancelGoto, SessionInv, SessionCoherent, SessionTypeOK, Current
<1>3. QED
  BY <1>1, <1>2

(* Every way into "waiting" or "stopped" that goes through cancelGoto.     *)
LEMMA AbandonKeepsInv ==
  ASSUME SessionInv, CancelGoto, ClearJog,
         UNCHANGED pending,
         jogLocked' \in BOOLEAN,
         stopPost' \in BOOLEAN,
         \/ sState' = "stopped" /\ sReason' = "none"
         \/ sState' = "waiting" /\ sReason' \in WaitReasons /\ label' \in Targets,
         label' \in Targets \cup {"none"},
         fixOf' \in Targets \cup {"none"},
         fixAge' \in 0 .. Deadman + 1
  PROVE  SessionInv'
<1>1. /\ gotoInFlight' = FALSE
      /\ acquireGen' \in Gens
      /\ \A p \in pending' : p.gen # acquireGen'
  BY CancelAbandons
<1>2. "none" \notin WaitReasons
  BY DEF WaitReasons, FailureReasons
<1>3. SessionTypeOK'
  BY <1>1 DEF SessionInv, SessionTypeOK, SessionStates, PortTypeOK, ClearJog
<1>4. SessionCoherent'
  BY <1>1, <1>2 DEF SessionInv, SessionCoherent, Current
<1>5. RateOnlyWhileTracking' /\ GenLeft' /\ Targeted'
  BY <1>1 DEF RateOnlyWhileTracking, GenLeft, Targeted, ClearJog
<1>6. QED
  BY <1>3, <1>4, <1>5 DEF SessionInv

(* The gates' reasons are reasons.                                         *)
LEMMA ReasonsAreReasons ==
  ASSUME NEW r \in Readings, Gate(r) # "open"
  PROVE  Gate(r) \in WaitReasons
BY ReadingsAssumption DEF Gate, AimReason, WaitReasons, FailureReasons, ReadingType, AimVerdicts

(* A dispatched goto is the only promise with its generation, and leaves   *)
(* another generation over for abandoning it.                              *)
LEMMA DispatchKeepsInv ==
  ASSUME SessionInv, NEW l \in Targets, Dispatch(l),
         UNCHANGED jogLocked,
         label' \in Targets,
         fixOf' \in Targets \cup {"none"},
         fixAge' \in 0 .. Deadman + 1
  PROVE  SessionInv'
<1>1. FreshGens # {}
  BY DEF Dispatch, RoomToDispatch
<1>2. /\ FreshGen \in Gens
      /\ FreshGen \in FreshGens
      /\ FreshGen # acquireGen
      /\ \A p \in pending : p.gen # FreshGen
  BY <1>1, FreshGenIsFresh
<1> DEFINE new == [gen |-> FreshGen, label |-> l]
<1>3. /\ acquireGen' = FreshGen
      /\ pending' = pending \cup {new}
      /\ gotoInFlight' = TRUE
      /\ sState' = "acquiring"
      /\ sReason' = "none"
      /\ jogVec' = "none"
  BY DEF Dispatch, Bump, ClearJog
<1>4. SessionTypeOK'
  <2>1. pending' \subseteq Promises
    BY <1>2, <1>3 DEF Promises, SessionInv, SessionTypeOK
  <2>2. stopPost' \in BOOLEAN
    BY DEF Dispatch, PostStopIf, SessionInv, SessionTypeOK, PortTypeOK
  <2>3. QED
    BY <1>2, <1>3, <2>1, <2>2 DEF SessionInv, SessionTypeOK, SessionStates, PortTypeOK
<1>5. SessionCoherent'
  <2>1. new \in pending' /\ new.gen = acquireGen'
    BY <1>3
  <2>2. \A p, q \in pending' : p.gen = q.gen => p = q
    BY <1>2, <1>3 DEF SessionInv, SessionCoherent
  <2>3. QED
    BY <1>3, <2>1, <2>2 DEF SessionCoherent, Current
<1>6. RateOnlyWhileTracking' /\ Targeted'
  BY <1>3 DEF RateOnlyWhileTracking, Targeted
<1>7. GenLeft'
  <2>1. PICK g \in FreshGens : g # FreshGen
    BY DEF Dispatch, RoomToDispatch
  <2>2. g \in FreshGens'
    BY <2>1, <1>2, <1>3 DEF FreshGens
  <2>3. QED
    BY <2>2 DEF GenLeft
<1>8. QED
  BY <1>4, <1>5, <1>6, <1>7 DEF SessionInv
-----------------------------------------------------------------------------
(* A session that was never started satisfies the invariant.               *)
LEMMA InitEstablishesInv == SessionInit => SessionInv
<1> SUFFICES ASSUME SessionInit
             PROVE  SessionInv
  OBVIOUS
<1>1. fixAge \in 0 .. Deadman + 1
  BY AgesAssumption DEF SessionInit
<1>2. pending \subseteq Promises
  BY DEF SessionInit
<1>3. PortTypeOK
  BY DEF SessionInit, PortInit, PortTypeOK
<1>4. SessionTypeOK
  BY <1>1, <1>2, <1>3 DEF SessionInit, SessionTypeOK, SessionStates
<1>5. QED
  BY <1>4
  DEF SessionInit, PortInit, SessionInv, SessionCoherent, RateOnlyWhileTracking, GenLeft,
      Targeted, Current

(* A goto's promise settles: current or superseded.                        *)
LEMMA SettlingKeepsInv ==
  ASSUME SessionInv, NEW p \in pending, GotoSettles(p)
  PROVE  SessionInv'
<1>1. /\ pending' = pending \ {p}
      /\ UNCHANGED <<estimate, acquireGen, jogLocked, stopPost>>
  BY DEF GotoSettles, GotoArrives, GotoFails, port
<1>2. CASE Current(p)
  <2>1. gotoInFlight /\ sState = "acquiring" /\ jogVec # "session"
    BY <1>2 DEF SessionInv, SessionCoherent, RateOnlyWhileTracking
  <2>2. \A q \in pending' : q.gen # acquireGen'
    BY <1>1, <1>2 DEF SessionInv, SessionCoherent, Current
  <2>3. /\ gotoInFlight' = FALSE
        /\ \/ sState' = "tracking" /\ sReason' = "none"
           \/ sState' = "waiting" /\ sReason' \in FailureReasons
        /\ jogVec' \in {jogVec, "none"}
    BY <1>2, <2>1 DEF GotoSettles, GotoArrives, GotoFails, ClearJog, port, SessionInv, SessionCoherent
  <2>4. SessionTypeOK'
    BY <1>1, <2>3
    DEF SessionInv, SessionTypeOK, SessionStates, PortTypeOK, WaitReasons, estimate
  <2>5. SessionCoherent'
    BY <1>1, <2>2, <2>3 DEF SessionInv, SessionCoherent, Current, FailureReasons
  <2>6. RateOnlyWhileTracking' /\ GenLeft' /\ Targeted'
    BY <1>1, <2>1, <2>3
    DEF SessionInv, RateOnlyWhileTracking, GenLeft, Targeted, estimate
  <2>7. QED
    BY <2>4, <2>5, <2>6 DEF SessionInv
<1>3. CASE ~ Current(p)
  <2>1. UNCHANGED <<sState, sReason, gotoInFlight, jogVec>>
    BY <1>3 DEF GotoSettles, GotoArrives, GotoFails, port
  <2>2. SessionTypeOK'
    BY <1>1, <2>1 DEF SessionInv, SessionTypeOK, PortTypeOK, estimate
  <2>3. SessionCoherent'
    BY <1>1, <1>3, <2>1 DEF SessionInv, SessionCoherent, Current
  <2>4. FreshGens \subseteq FreshGens'
    BY <1>1 DEF FreshGens
  <2>5. RateOnlyWhileTracking' /\ GenLeft' /\ Targeted'
    BY <1>1, <2>1, <2>4
    DEF SessionInv, RateOnlyWhileTracking, GenLeft, Targeted, estimate
  <2>6. QED
    BY <2>2, <2>3, <2>5 DEF SessionInv
<1>4. QED
  BY <1>2, <1>3

(* A step that leaves the session's own fields alone, and sets no vector   *)
(* unless it is one the session's state allows.                            *)
LEMMA PortStepKeepsInv ==
  ASSUME SessionInv, UNCHANGED session,
         jogVec' \in {jogVec, "manual", "none"} \/ (jogVec' = "session" /\ sState = "tracking"),
         jogLocked' \in BOOLEAN,
         stopPost' \in BOOLEAN
  PROVE  SessionInv'
<1>1. SessionTypeOK'
  BY DEF SessionInv, SessionTypeOK, PortTypeOK, Movers, session, sessionCore, estimate
<1>2. SessionCoherent'
  BY DEF SessionInv, SessionCoherent, Current, session, sessionCore, estimate
<1>3. RateOnlyWhileTracking' /\ GenLeft' /\ Targeted'
  BY DEF SessionInv, RateOnlyWhileTracking, GenLeft, Targeted, FreshGens, session, sessionCore,
         estimate
<1>4. QED
  BY <1>1, <1>2, <1>3 DEF SessionInv

(* A step that changes only the estimate.                                  *)
LEMMA EstimateStepKeepsInv ==
  ASSUME SessionInv, UNCHANGED <<sessionCore, label, pending, port>>,
         fixOf' \in Targets \cup {"none"},
         fixAge' \in 0 .. Deadman + 1
  PROVE  SessionInv'
BY DEF SessionInv, SessionTypeOK, SessionCoherent, RateOnlyWhileTracking, GenLeft, Targeted,
       FreshGens, PortTypeOK, Current, sessionCore, port
-----------------------------------------------------------------------------
(* start() keeps the invariant, whether it flies to the target or waits.   *)
LEMMA StartKeepsInv ==
  ASSUME SessionInv, NEW t \in Targets, NEW r \in Readings, Start(t, r)
  PROVE  SessionInv'
<1>1. 0 \in 0 .. Deadman + 1
  BY AgesAssumption
<1>2. /\ label' \in Targets
      /\ fixOf' \in Targets \cup {"none"}
      /\ fixAge' \in 0 .. Deadman + 1
      /\ UNCHANGED jogLocked
  BY <1>1 DEF Start
<1>3. CASE r.aim = "ok"
  BY <1>2, <1>3, DispatchKeepsInv DEF Start
<1>4. CASE r.aim # "ok"
  <2>1. AimReason[r.aim] \in WaitReasons
    BY <1>4, ReadingsAssumption
    DEF AimReason, WaitReasons, FailureReasons, ReadingType, AimVerdicts
  <2>2. Wait(AimReason[r.aim])
    BY <1>4 DEF Start
  <2>3. stopPost' \in BOOLEAN /\ jogLocked' \in BOOLEAN
    BY <1>2, <2>2 DEF Wait, StopMotion, PostStopIf, SessionInv, SessionTypeOK, PortTypeOK
  <2>4. QED
    BY <1>2, <2>1, <2>2, <2>3, AbandonKeepsInv DEF Wait, StopMotion
<1>5. QED
  BY <1>3, <1>4

(* stop() keeps the invariant.                                             *)
LEMMA StopKeepsInv ==
  ASSUME SessionInv, Stop
  PROVE  SessionInv'
<1>1. /\ stopPost' \in BOOLEAN /\ jogLocked' \in BOOLEAN
      /\ label' \in Targets \cup {"none"}
      /\ fixOf' \in Targets \cup {"none"}
      /\ fixAge' \in 0 .. Deadman + 1
  BY DEF Stop, StopSession, PostStopIf, estimate, SessionInv, SessionTypeOK, PortTypeOK
<1>2. QED
  BY <1>1, AbandonKeepsInv DEF Stop, StopSession

(* A tick that waits.                                                      *)
LEMMA WaitKeepsInv ==
  ASSUME SessionInv, sState # "stopped", NEW reason \in WaitReasons, Wait(reason),
         UNCHANGED <<estimate, jogLocked>>
  PROVE  SessionInv'
<1>1. /\ stopPost' \in BOOLEAN /\ jogLocked' \in BOOLEAN
      /\ label' \in Targets
      /\ fixOf' \in Targets \cup {"none"}
      /\ fixAge' \in 0 .. Deadman + 1
  BY DEF Wait, StopMotion, PostStopIf, estimate, SessionInv, SessionTypeOK, Targeted, PortTypeOK
<1>2. QED
  BY <1>1, AbandonKeepsInv DEF Wait, StopMotion

(* Every way a tick can go keeps the invariant.                            *)
LEMMA TickKeepsInv ==
  ASSUME SessionInv, NEW r \in Readings, Tick(r)
  PROVE  SessionInv'
<1>0. sState # "stopped"
  BY DEF Tick
<1>1. CASE DeadmanTick
  BY <1>1, StopKeepsInv DEF DeadmanTick
<1>2. CASE GateTick(r)
  BY <1>0, <1>2, ReasonsAreReasons, WaitKeepsInv DEF GateTick
<1>3. CASE AcquiringTick(r)
  <2>1. UNCHANGED <<session, port>>
    BY <1>3 DEF AcquiringTick, sessionVars
  <2>2. QED
    BY <2>1, PortStepKeepsInv DEF port, SessionInv, SessionTypeOK, PortTypeOK
<1>4. CASE BusyTick(r)
  BY <1>0, <1>4, WaitKeepsInv DEF BusyTick, WaitReasons, FailureReasons
<1>5. CASE ReacquireTick(r)
  <2>1. label \in Targets
    BY <1>0 DEF SessionInv, Targeted
  <2>2. QED
    BY <1>5, <2>1, DispatchKeepsInv DEF ReacquireTick, estimate, SessionInv, SessionTypeOK
<1>6. CASE ServoTick(r)
  <2>1. /\ sState = "tracking"
        /\ jogVec' \in {jogVec, "session"}
        /\ UNCHANGED <<session, jogLocked, stopPost>>
    BY <1>6 DEF ServoTick, SetJogVector
  <2>2. QED
    BY <2>1, PortStepKeepsInv DEF SessionInv, SessionTypeOK, PortTypeOK
<1>7. QED
  BY <1>1, <1>2, <1>3, <1>4, <1>5, <1>6 DEF Tick

(* The inductive step: one case per way the session or its port changes.   *)
LEMMA SessionStepKeepsInv == SessionInv /\ [SessionNext]_sessionVars => SessionInv'
<1> SUFFICES ASSUME SessionInv, [SessionNext]_sessionVars
             PROVE  SessionInv'
  OBVIOUS
<1>1. CASE \E t \in Targets, r \in Readings : Start(t, r)
  BY <1>1, StartKeepsInv
<1>2. CASE \E t \in Targets, r \in Readings : UpdateTarget(t, r)
  <2>1. /\ UNCHANGED <<sessionCore, label, pending, port>>
        /\ fixOf' \in Targets \cup {"none"}
        /\ fixAge' = 0
    BY <1>2 DEF UpdateTarget
  <2>2. fixAge' \in 0 .. Deadman + 1
    BY <2>1, AgesAssumption
  <2>3. QED
    BY <2>1, <2>2, EstimateStepKeepsInv
<1>3. CASE Stop
  BY <1>3, StopKeepsInv
<1>4. CASE \E r \in Readings : Tick(r)
  BY <1>4, TickKeepsInv
<1>5. CASE \E p \in pending : GotoSettles(p)
  BY <1>5, SettlingKeepsInv
<1>6. CASE Elapse
  <2>1. /\ UNCHANGED <<sessionCore, label, pending, port>>
        /\ fixOf' \in Targets \cup {"none"}
    BY <1>6 DEF Elapse, SessionInv, SessionTypeOK
  <2>2. fixAge' \in 0 .. Deadman + 1
    BY <1>6, AgesAssumption DEF Elapse, SessionInv, SessionTypeOK
  <2>3. QED
    BY <2>1, <2>2, EstimateStepKeepsInv
<1>7. CASE PortInternal
  BY <1>7, PortStepKeepsInv
  DEF PortInternal, JogExpires, StopSettles, ClearJog, SessionInv, SessionTypeOK, PortTypeOK
<1>8. CASE UNCHANGED sessionVars
  BY <1>8, PortStepKeepsInv DEF sessionVars, port, SessionInv, SessionTypeOK, PortTypeOK
<1>9. QED
  BY <1>1, <1>2, <1>3, <1>4, <1>5, <1>6, <1>7, <1>8 DEF SessionNext, SessionInternal

(* In every reachable state the session's variables have their types, its  *)
(* state, its goto flag and its outstanding gotos agree                    *)
(* (session.ts:190-214, 364-385), and its rate stands only while it tracks.*)
THEOREM SessionInvariant == SessionSpec => []SessionInv
<1>1. SessionInit => SessionInv
  BY InitEstablishesInv
<1>2. SessionInv /\ [SessionNext]_sessionVars => SessionInv'
  BY SessionStepKeepsInv
<1>3. QED
  BY <1>1, <1>2, PTL DEF SessionSpec

(* The session's variables always have their types.                        *)
THEOREM SessionTypeCorrect == SessionSpec => []SessionTypeOK
<1>1. SessionInv => SessionTypeOK
  BY DEF SessionInv
<1>2. QED
  BY <1>1, SessionInvariant, PTL

(* A session that says "acquiring" has exactly one unsettled goto that     *)
(* will move it on, and no other state has one (session.ts:264, 365-385).  *)
THEOREM SessionAlwaysCoherent == SessionSpec => []SessionCoherent
<1>1. SessionInv => SessionCoherent
  BY DEF SessionInv
<1>2. QED
  BY <1>1, SessionInvariant, PTL

(* No rate of the session's outlives its tracking (session.ts:131-137,     *)
(* 200-214).                                                               *)
THEOREM RateEndsWithTracking == SessionSpec => []RateOnlyWhileTracking
<1>1. SessionInv => RateOnlyWhileTracking
  BY DEF SessionInv
<1>2. QED
  BY <1>1, SessionInvariant, PTL
-----------------------------------------------------------------------------
(* The goto in flight is one for the present target.                       *)
OwnLabel == \A p \in pending : Owned(p) => p.label = label

(* What every step does to the gotos of the step before: one that starts   *)
(* the servo has arrived for this target, one that is given up is stopped. *)
GotoStep ==
  /\ sState # "tracking" /\ sState' = "tracking" =>
       \E p \in pending \ pending' : p.label = label
  /\ \A p \in pending : Owned(p) /\ p \in pending' /\ ~ Owned(p)' => stopPost'

OwnStep == OwnLabel' /\ GotoStep

(* A new goto is for the target it was sent for, and the one it replaces   *)
(* is stopped (session.ts:364-385).                                        *)
LEMMA DispatchOwns ==
  ASSUME SessionInv, NEW l, Dispatch(l), label' = l
  PROVE  OwnStep
<1>1. FreshGens # {}
  BY DEF Dispatch, RoomToDispatch
<1>2. \A p \in pending : p.gen # FreshGen
  BY <1>1, FreshGenIsFresh
<1>3. OwnLabel'
  BY <1>2 DEF Dispatch, Bump, OwnLabel, Owned, Current
<1>4. GotoStep
  BY DEF Dispatch, PostStopIf, GotoStep, Owned
<1> QED
  BY <1>3, <1>4 DEF OwnStep

(* Giving the goto up posts a stop (session.ts:190-208).                   *)
LEMMA CancelOwns ==
  ASSUME CancelGoto, PostStopIf(gotoInFlight), sState' # "tracking"
  PROVE  OwnStep
BY DEF CancelGoto, PostStopIf, OwnStep, OwnLabel, GotoStep, Owned

(* A step that leaves goto, target and promises alone.                     *)
LEMMA IdleOwns ==
  ASSUME OwnLabel, UNCHANGED <<sessionCore, label, pending>>
  PROVE  OwnStep
BY DEF sessionCore, OwnStep, OwnLabel, GotoStep, Owned, Current

(* A tick gives up, sends or keeps (session.ts:216-324).                   *)
LEMMA TickOwns ==
  ASSUME SessionInv, OwnLabel, NEW r \in Readings, Tick(r)
  PROVE  OwnStep
<1>1. CASE DeadmanTick
  BY <1>1, CancelOwns DEF DeadmanTick, Stop, StopSession
<1>2. CASE GateTick(r) \/ BusyTick(r)
  BY <1>2, CancelOwns DEF GateTick, BusyTick, Wait, StopMotion
<1>3. CASE AcquiringTick(r) \/ ServoTick(r)
  BY <1>3, IdleOwns DEF AcquiringTick, ServoTick, sessionVars, session, estimate
<1>4. CASE ReacquireTick(r)
  BY <1>4, DispatchOwns DEF ReacquireTick, estimate
<1> QED
  BY <1>1, <1>2, <1>3, <1>4 DEF Tick

(* A goto that settles counts only if it is the one in flight, and then    *)
(* it is the only one (session.ts:374-384).                                *)
LEMMA SettlingOwns ==
  ASSUME SessionInv, OwnLabel, NEW p \in pending, GotoSettles(p)
  PROVE  OwnStep
<1>0. /\ pending' = pending \ {p} /\ UNCHANGED <<label, acquireGen>>
  BY DEF GotoSettles, GotoArrives, GotoFails, estimate
<1>1. CASE Current(p)
  <2>1. gotoInFlight /\ p.label = label /\ \A q \in pending : Current(q) => q = p
    BY <1>1 DEF SessionInv, SessionCoherent, OwnLabel, Owned, Current
  <2>2. gotoInFlight' = FALSE
    BY <1>1 DEF GotoSettles, GotoArrives, GotoFails
  <2>3. \A q \in pending' : ~ Owned(q)
    BY <1>0, <2>1 DEF Owned
  <2> QED
    BY <1>0, <2>1, <2>2, <2>3 DEF OwnStep, OwnLabel, GotoStep, Owned
<1>2. CASE ~ Current(p)
  <2>1. UNCHANGED <<gotoInFlight, sState>>
    BY <1>2 DEF GotoSettles, GotoArrives, GotoFails
  <2> QED
    BY <1>0, <2>1 DEF OwnStep, OwnLabel, GotoStep, Owned, Current
<1> QED
  BY <1>1, <1>2

(* Every step of the session is such a step.                               *)
LEMMA StepOwns == SessionInv /\ OwnLabel /\ [SessionNext]_sessionVars => OwnStep
<1> SUFFICES ASSUME SessionInv, OwnLabel, [SessionNext]_sessionVars
             PROVE  OwnStep
  OBVIOUS
<1>1. ASSUME NEW t \in Targets, NEW r \in Readings, Start(t, r)
      PROVE  OwnStep
  <2>1. CASE r.aim = "ok"
    BY <1>1, <2>1, DispatchOwns DEF Start
  <2>2. CASE r.aim # "ok"
    BY <1>1, <2>2, CancelOwns DEF Start, Wait, StopMotion
  <2> QED
    BY <2>1, <2>2
<1>2. CASE \E t \in Targets, r \in Readings : UpdateTarget(t, r)
  BY <1>2, IdleOwns DEF UpdateTarget
<1>3. CASE Stop
  BY <1>3, CancelOwns DEF Stop, StopSession
<1>4. CASE \E r \in Readings : Tick(r)
  BY <1>4, TickOwns
<1>5. CASE \E p \in pending : GotoSettles(p)
  BY <1>5, SettlingOwns
<1>6. CASE Elapse
  BY <1>6, IdleOwns DEF Elapse
<1>7. CASE PortInternal \/ UNCHANGED sessionVars
  BY <1>7, IdleOwns DEF PortInternal, sessionVars, session, estimate
<1> QED
  BY <1>1, <1>2, <1>3, <1>4, <1>5, <1>6, <1>7 DEF SessionNext, SessionInternal

(* So it always does.                                                      *)
LEMMA OwnLabelAlways == SessionSpec => []OwnLabel
<1>1. SessionInit => OwnLabel
  BY DEF SessionInit, OwnLabel
<1>2. SessionInv /\ OwnLabel /\ [SessionNext]_sessionVars => OwnLabel'
  BY StepOwns DEF OwnStep
<1> QED
  BY <1>1, <1>2, SessionInvariant, PTL DEF SessionSpec

(* A session starts servoing only on the arrival of the goto it sent for   *)
(* its present target (session.ts:365-379).                                *)
THEOREM AlwaysTrackedByOwnGoto == SessionSpec => TrackedByOwnGoto
<1>1. SessionInv /\ OwnLabel /\ [SessionNext]_sessionVars =>
        [sState # "tracking" /\ sState' = "tracking"
           => \E p \in pending \ pending' : p.label = label]_sessionVars
  BY StepOwns DEF OwnStep, GotoStep
<1> QED
  BY <1>1, SessionInvariant, OwnLabelAlways, PTL DEF SessionSpec, TrackedByOwnGoto

(* A goto the session gives up unsettled is followed by a stop request     *)
(* (session.ts:190-198).                                                   *)
THEOREM AbandonedGotoAlwaysStopped == SessionSpec => AbandonedGotoIsStopped
<1>1. SessionInv /\ OwnLabel /\ [SessionNext]_sessionVars =>
        [\A p \in pending : Owned(p) /\ p \in pending' /\ ~ Owned(p)' => stopPost']_sessionVars
  BY StepOwns DEF OwnStep, GotoStep
<1> QED
  BY <1>1, SessionInvariant, OwnLabelAlways, PTL DEF SessionSpec, AbandonedGotoIsStopped
-----------------------------------------------------------------------------
(* What a mover's step is to somebody who sees only the port's latch, its  *)
(* vector and whether a session is active: it stops the session, or has    *)
(* it dispatch or wait, and no vector is left, or it leaves the session    *)
(* active or not, as it was, and sets a vector only through the latch.     *)
StopsSession == sState' = "stopped" /\ jogVec' = "none"

RunsSession == sState' # "stopped" /\ jogVec' = "none"

KeepsSession ==
  /\ sState' = "stopped" <=> sState = "stopped"
  /\ \/ jogVec' \in {jogVec, "none"}
     \/ ~ jogLocked /\ jogVec' = "manual"
     \/ ~ jogLocked /\ jogVec' = "session" /\ sState # "stopped"

MoverStep == jogLocked' = jogLocked /\ (StopsSession \/ RunsSession \/ KeepsSession)

(* Starting a session, or refusing to.                                     *)
LEMMA StartIsMoverStep ==
  ASSUME NEW t, NEW r, Start(t, r)
  PROVE  MoverStep /\ jogVec' = "none"
BY DEF Start, Dispatch, Wait, StopMotion, ClearJog, MoverStep, RunsSession

(* The session's own steps: of them only a servo's tick sets a vector, and *)
(* the session's (session.ts:131-137, 262-384).                            *)
LEMMA InternalIsMoverStep ==
  ASSUME SessionInternal \/ PortInternal
  PROVE  MoverStep /\ jogVec' \in {jogVec, "session", "none"}
<1> USE DEF MoverStep, StopsSession, RunsSession, KeepsSession
<1>1. ASSUME NEW r \in Readings, Tick(r)
      PROVE  MoverStep /\ jogVec' \in {jogVec, "session", "none"}
  <2>1. CASE DeadmanTick
    BY <2>1 DEF DeadmanTick, Stop, StopSession, ClearJog
  <2>2. CASE GateTick(r) \/ BusyTick(r)
    BY <2>2 DEF GateTick, BusyTick, Wait, StopMotion, ClearJog
  <2>3. CASE ReacquireTick(r)
    BY <2>3 DEF ReacquireTick, Dispatch, ClearJog
  <2>4. CASE AcquiringTick(r)
    BY <2>4 DEF AcquiringTick, sessionVars, session, sessionCore, port
  <2>5. CASE ServoTick(r)
    BY <2>5 DEF ServoTick, SetJogVector, session, sessionCore
  <2> QED
    BY <1>1, <2>1, <2>2, <2>3, <2>4, <2>5 DEF Tick
<1>2. ASSUME NEW p \in pending, GotoSettles(p)
      PROVE  MoverStep /\ jogVec' \in {jogVec, "session", "none"}
  BY <1>2 DEF GotoSettles, GotoArrives, GotoFails, ClearJog, port
<1>3. CASE Elapse
  BY <1>3 DEF Elapse, sessionCore, port
<1>4. CASE PortInternal
  BY <1>4 DEF PortInternal, JogExpires, StopSettles, ClearJog, session, sessionCore
<1> QED
  BY <1>1, <1>2, <1>3, <1>4 DEF SessionInternal
=============================================================================
