--------------------------- MODULE RigDaemonProofs --------------------------
(***************************************************************************)
(* The lock against the daemon's movers, for any number of jog calls, any  *)
(* targets and readings: no vector stands under it, and no session starts  *)
(* under it; and the daemon's types.                                       *)
(*                                                                         *)
(* The second needs FollowerFed: a follower that holds an aircraft has     *)
(* given it its first fix already, inside track_aircraft, so a poll only   *)
(* ever updates a session and never starts one.                            *)
(*                                                                         *)
(* So the daemon keeps LockedRig's promise, as the supervisor does.  What  *)
(* is left of the exclusion of tracking and jogs: a jog disturbs a session *)
(* only if it began before it (JogsAreHeld).                               *)
(***************************************************************************)
EXTENDS RigDaemon, TrackingSessionProofs, TLAPS

LatchMirrored == locked = jogLocked

FollowerFed == hex # "none" => ~ firstFix

DaemonInv == LatchMirrored /\ NoVectorUnderLock /\ FollowerFed

(* What a step of the session or the port may do to the port.              *)
SessionOnPort ==
  /\ jogLocked' = jogLocked
  /\ jogVec' \in {jogVec, "none"} \/ ~ jogLocked
-----------------------------------------------------------------------------
(* Starting a session never touches the latch, and never sets a vector.    *)
LEMMA StartStaysOnPort ==
  ASSUME NEW t, NEW r, Start(t, r)
  PROVE  SessionOnPort
BY DEF Start, Dispatch, Wait, StopMotion, ClearJog, SessionOnPort

(* Nor does stopping one.                                                  *)
LEMMA StopStaysOnPort ==
  ASSUME Stop
  PROVE  SessionOnPort
BY DEF Stop, ClearJog, SessionOnPort

(* Neither do the session's own steps, a servo's rate excepted, which goes *)
(* through the latch (device.ts:230-237).                                  *)
LEMMA InternalStaysOnPort ==
  ASSUME SessionInternal \/ PortInternal
  PROVE  SessionOnPort
<1>1. ASSUME NEW r \in Readings, Tick(r)
      PROVE  SessionOnPort
  BY <1>1
  DEF Tick, DeadmanTick, Stop, GateTick, AcquiringTick, BusyTick, ReacquireTick, ServoTick,
      Dispatch, Wait, StopMotion, ClearJog, SetJogVector, SessionOnPort, sessionVars, port
<1>2. ASSUME NEW p \in pending, GotoSettles(p)
      PROVE  SessionOnPort
  BY <1>2 DEF GotoSettles, GotoArrives, GotoFails, ClearJog, SessionOnPort, port
<1>3. CASE Elapse \/ PortInternal
  BY <1>3 DEF Elapse, PortInternal, JogExpires, StopSettles, ClearJog, SessionOnPort, port
<1>4. QED
  BY <1>1, <1>2, <1>3 DEF SessionInternal

(* A poll's snapshot leaves the lock and the latch alone, and feeds.       *)
LEMMA SnapshotKeepsInv ==
  ASSUME DaemonInv, Snapshot
  PROVE  DaemonInv' /\ (sState = "stopped" => sState' = "stopped")
<1>1. locked' = locked
  BY DEF Snapshot
<1>2. CASE HealingSnapshot \/ UselessSnapshot
  BY <1>1, <1>2
  DEF HealingSnapshot, UselessSnapshot, Unbind, DaemonInv, LatchMirrored, NoVectorUnderLock,
      FollowerFed, port, session, sessionCore
<1>3. ASSUME NEW r \in Readings, UsableSnapshot(r)
      PROVE  DaemonInv' /\ (sState = "stopped" => sState' = "stopped")
  <2>1. ~ firstFix
    BY <1>3 DEF UsableSnapshot, DaemonInv, FollowerFed
  <2>2. UpdateTarget(hex, r) /\ ~ firstFix' /\ hex' = hex
    BY <1>3, <2>1 DEF UsableSnapshot
  <2>3. QED
    BY <1>1, <2>2
    DEF UpdateTarget, DaemonInv, LatchMirrored, NoVectorUnderLock, FollowerFed, port
<1>4. QED
  BY <1>2, <1>3 DEF Snapshot

(* Every step keeps the invariant.                                         *)
LEMMA StepKeepsInv == DaemonInv /\ [DaemonNext]_daemonVars => DaemonInv'
<1> SUFFICES ASSUME DaemonInv, [DaemonNext]_daemonVars
             PROVE  DaemonInv'
  OBVIOUS
<1> USE DEF DaemonInv, LatchMirrored, NoVectorUnderLock, FollowerFed
<1>1. ASSUME NEW t \in Targets, NEW r \in Readings, StartTracking(t, r)
      PROVE  DaemonInv'
  BY <1>1, StartStaysOnPort DEF StartTracking, SessionOnPort, follower
<1>2. ASSUME NEW t \in Targets, NEW r \in Readings, TrackAircraft(t, r)
      PROVE  DaemonInv'
  BY <1>2, StartStaysOnPort DEF TrackAircraft, SessionOnPort
<1>3. ASSUME NEW r \in Readings, UpdateTargetTool(r)
      PROVE  DaemonInv'
  BY <1>3 DEF UpdateTargetTool, UpdateTarget, follower, port
<1>4. CASE StopTracking
  BY <1>4, StopStaysOnPort DEF StopTracking, SessionOnPort, follower
<1>5. CASE StopTool
  BY <1>5 DEF StopTool, ClearJog, follower
<1>6. CASE JogBegins \/ JogRefreshes
  BY <1>6 DEF JogBegins, JogRefreshes, SetJogVector, follower
<1>7. CASE JogEnds
  BY <1>7 DEF JogEnds, ClearJog, follower
<1>8. CASE Snapshot
  BY <1>8, SnapshotKeepsInv
<1>9. CASE LockEngages
  BY <1>9 DEF LockEngages, LockJog, ClearJog, follower
<1>10. CASE LockReleases
  BY <1>10 DEF LockReleases, UnlockJog, follower
<1>11. CASE (SessionInternal \/ PortInternal) /\ UNCHANGED <<locked, jogCalls, follower>>
  BY <1>11, InternalStaysOnPort DEF SessionOnPort, follower
<1>12. CASE UNCHANGED daemonVars
  BY <1>12 DEF daemonVars, follower, port
<1>13. QED
  BY <1>1, <1>2, <1>3, <1>4, <1>5, <1>6, <1>7, <1>8, <1>9, <1>10, <1>11, <1>12
  DEF DaemonNext

(* The invariant holds in every reachable state of the daemon.             *)
LEMMA DaemonInvariant == DaemonSpec => []DaemonInv
<1>1. DaemonInit => DaemonInv
  BY DEF DaemonInit, SessionInit, PortInit, DaemonInv, LatchMirrored, NoVectorUnderLock, FollowerFed
<1>2. QED
  BY <1>1, StepKeepsInv, PTL DEF DaemonSpec

(* What is left of "stop_tracking unbinds the follower", which             *)
(* FollowerObeysStop refutes: a poll that finds no session starts none and *)
(* lets the aircraft go, whoever stopped the session and however long ago  *)
(* (adsb/follower.ts:43-47).                                               *)
THEOREM PollsNeverStart ==
  DaemonSpec => [][Snapshot /\ ~ Active => hex' = "none" /\ sState' = sState]_daemonVars
<1>1. DaemonInv => [Snapshot /\ ~ Active => hex' = "none" /\ sState' = sState]_daemonVars
  <2> SUFFICES ASSUME DaemonInv, Snapshot, ~ Active
               PROVE  hex' = "none" /\ sState' = sState
    OBVIOUS
  <2>1. HealingSnapshot
    BY DEF Snapshot, UselessSnapshot, UsableSnapshot, SelfHeals, DaemonInv, FollowerFed
  <2> QED
    BY <2>1 DEF HealingSnapshot, Unbind, session, sessionCore
<1> QED
  BY <1>1, DaemonInvariant, PTL

(* Under the lock no vector stands, although jog calls that began before   *)
(* it go on refreshing theirs (device.ts:230-256).                         *)
THEOREM NeverVectorUnderLock == DaemonSpec => []NoVectorUnderLock
<1>1. DaemonInv => NoVectorUnderLock
  BY DEF DaemonInv
<1>2. QED
  BY <1>1, DaemonInvariant, PTL

(* Under the lock a stopped session stays stopped.                         *)
LEMMA StepStartsNoneUnderLock ==
  ASSUME DaemonInv, DaemonNext, locked, sState = "stopped"
  PROVE  sState' = "stopped"
<1>1. CASE StopTracking \/ StopTool \/ LockEngages
  BY <1>1 DEF StopTracking, StopTool, LockEngages, Stop, StopSession
<1>2. CASE JogBegins \/ JogRefreshes \/ JogEnds \/ LockReleases
  BY <1>2 DEF JogBegins, JogRefreshes, JogEnds, LockReleases, session, sessionCore
<1>3. CASE Snapshot
  BY <1>3, SnapshotKeepsInv
<1>4. CASE SessionInternal
  BY <1>4 DEF SessionInternal, Tick, GotoSettles, GotoArrives, GotoFails, Elapse, sessionCore
<1>5. CASE PortInternal
  BY <1>5 DEF PortInternal, session, sessionCore
<1>6. \A t \in Targets, r \in Readings : ~ StartTracking(t, r) /\ ~ TrackAircraft(t, r)
  BY DEF StartTracking, TrackAircraft
<1>7. \A r \in Readings : ~ UpdateTargetTool(r)
  BY DEF UpdateTargetTool
<1>8. QED
  BY <1>1, <1>2, <1>3, <1>4, <1>5, <1>6, <1>7 DEF DaemonNext

(* No path starts a session under the lock, the follower that does not ask *)
(* for it included (adsb-tools.ts:117-127, adsb/follower.ts:58-64).        *)
THEOREM NeverStartUnderLock == DaemonSpec => NoStartUnderLock
<1>1. DaemonInv /\ [DaemonNext]_daemonVars =>
        [locked /\ sState = "stopped" => sState' = "stopped"]_daemonVars
  BY StepStartsNoneUnderLock
<1>2. QED
  BY <1>1, DaemonInvariant, PTL DEF DaemonSpec, NoStartUnderLock
-----------------------------------------------------------------------------
(* The follower's and the jog calls' own types.                            *)
FollowerTypeOK ==
  /\ locked \in BOOLEAN
  /\ jogCalls \in 0 .. MaxJogs
  /\ hex \in Targets \cup {"none"}
  /\ firstFix \in BOOLEAN
  /\ lostPolls \in 0 .. Lost
  /\ quit \in BOOLEAN

(* The tools stop, start and feed the session only through its own         *)
(* operations, so that its invariant holds beside them (session.ts,        *)
(* tools.ts, adsb/follower.ts).                                            *)
LEMMA DaemonKeepsSession ==
  ASSUME SessionInv, FollowerTypeOK, [DaemonNext]_daemonVars
  PROVE  SessionInv'
<1>0. /\ jogLocked \in BOOLEAN /\ stopPost \in BOOLEAN
      /\ label \in Targets \cup {"none"} /\ fixOf \in Targets \cup {"none"}
      /\ fixAge \in 0 .. Deadman + 1 /\ 0 \in 0 .. Deadman + 1
  BY AgesAssumption DEF SessionInv, SessionTypeOK, PortTypeOK
<1>1. ASSUME NEW t \in Targets, NEW r \in Readings, Start(t, r) PROVE SessionInv'
  BY <1>1, StartKeepsInv
<1>2. ASSUME NEW t \in Targets, NEW r \in Readings, UpdateTarget(t, r) PROVE SessionInv'
  BY <1>0, <1>2, EstimateStepKeepsInv DEF UpdateTarget
<1>3. CASE StopTracking
  BY <1>3, StopKeepsInv DEF StopTracking
<1>4. CASE StopTool \/ LockEngages
  <2>1. /\ StopSession /\ ClearJog
        /\ jogLocked' \in BOOLEAN /\ stopPost' \in BOOLEAN
    BY <1>0, <1>4 DEF StopTool, LockEngages, LockJog, PostStopIf
  <2> QED
    BY <1>0, <2>1, AbandonKeepsInv DEF StopSession, estimate
<1>5. CASE JogBegins \/ JogRefreshes \/ JogEnds \/ LockReleases
  <2>1. /\ UNCHANGED session /\ jogVec' \in {jogVec, "manual", "none"}
        /\ jogLocked' \in BOOLEAN /\ stopPost' \in BOOLEAN
    BY <1>0, <1>5
    DEF JogBegins, JogRefreshes, JogEnds, LockReleases, SetJogVector, ClearJog, UnlockJog
  <2> QED
    BY <2>1, PortStepKeepsInv
<1>6. CASE UNCHANGED <<session, port>>
  BY <1>0, <1>6, PortStepKeepsInv DEF port
<1>7. CASE Snapshot
  <2>1. CASE HealingSnapshot \/ UselessSnapshot
    BY <1>6, <2>1 DEF HealingSnapshot, UselessSnapshot
  <2>2. ASSUME NEW r \in Readings, UsableSnapshot(r) PROVE SessionInv'
    <3>1. hex \in Targets
      BY <2>2 DEF UsableSnapshot, FollowerTypeOK
    <3> QED
      BY <1>1, <1>2, <2>2, <3>1 DEF UsableSnapshot
  <2> QED
    BY <1>7, <2>1, <2>2 DEF Snapshot
<1>8. CASE SessionInternal \/ PortInternal
  BY <1>8, SessionStepKeepsInv DEF SessionNext
<1>9. ASSUME NEW r \in Readings, UpdateTargetTool(r) PROVE SessionInv'
  <2>1. label \in Targets
    BY <1>9 DEF UpdateTargetTool, UpdateTarget, SessionInv, Targeted
  <2> QED
    BY <1>2, <1>9, <2>1 DEF UpdateTargetTool
<1>10. CASE UNCHANGED daemonVars
  BY <1>6, <1>10 DEF daemonVars
<1> QED
  BY <1>1, <1>3, <1>4, <1>5, <1>7, <1>8, <1>9, <1>10 DEF DaemonNext, StartTracking, TrackAircraft

(* The follower counts polls up to the point where it lets go and no       *)
(* further (adsb/follower.ts:75-78).                                       *)
LEMMA DaemonKeepsFollower ==
  ASSUME FollowerTypeOK, [DaemonNext]_daemonVars
  PROVE  FollowerTypeOK'
<1>0. 0 \in 0 .. Lost
  BY DaemonAssumption
<1>1. Remember => quit' \in BOOLEAN
  BY DEF Remember, FollowerTypeOK
<1>2. ASSUME NEW t \in Targets, NEW r \in Readings, StartTracking(t, r) \/ TrackAircraft(t, r)
      PROVE  FollowerTypeOK'
  BY <1>0, <1>1, <1>2 DEF StartTracking, TrackAircraft, FollowerTypeOK, follower
<1>3. CASE StopTracking \/ StopTool \/ \E r \in Readings : UpdateTargetTool(r)
  BY <1>1, <1>3 DEF StopTracking, StopTool, UpdateTargetTool, FollowerTypeOK, follower
<1>4. CASE JogBegins \/ JogRefreshes \/ JogEnds
  <2>1. jogCalls' \in 0 .. MaxJogs
    BY <1>4, DaemonAssumption DEF JogBegins, JogRefreshes, JogEnds, FollowerTypeOK
  <2> QED
    BY <1>1, <1>4, <2>1 DEF JogBegins, JogRefreshes, JogEnds, FollowerTypeOK, follower
<1>5. CASE LockEngages \/ LockReleases
  BY <1>1, <1>5 DEF LockEngages, LockReleases, FollowerTypeOK, follower
<1>6. CASE Snapshot
  <2>1. hex' \in Targets \cup {"none"} /\ firstFix' \in BOOLEAN /\ lostPolls' \in 0 .. Lost
    <3>1. CASE HealingSnapshot
      BY <1>0, <3>1 DEF HealingSnapshot, Unbind
    <3>2. CASE UselessSnapshot
      <4>1. CASE lostPolls >= Lost
        BY <1>0, <3>2, <4>1 DEF UselessSnapshot, Unbind
      <4>2. CASE ~ (lostPolls >= Lost)
        <5>1. lostPolls + 1 \in 0 .. Lost
          BY <4>2, DaemonAssumption DEF FollowerTypeOK
        <5> QED
          BY <3>2, <4>2, <5>1 DEF UselessSnapshot, FollowerTypeOK
      <4> QED
        BY <4>1, <4>2
    <3>3. CASE \E r \in Readings : UsableSnapshot(r)
      BY <1>0, <3>3 DEF UsableSnapshot, FollowerTypeOK
    <3> QED
      BY <1>6, <3>1, <3>2, <3>3 DEF Snapshot
  <2> QED
    BY <1>1, <1>6, <2>1 DEF Snapshot, FollowerTypeOK
<1>7. CASE UNCHANGED <<locked, jogCalls, follower>> /\ (Remember \/ quit' = quit)
  BY <1>1, <1>7 DEF FollowerTypeOK, follower
<1> QED
  BY <1>2, <1>3, <1>4, <1>5, <1>6, <1>7 DEF DaemonNext, daemonVars

(* The daemon's variables always have their types.                         *)
THEOREM DaemonTypeCorrect == DaemonSpec => []DaemonTypeOK
<1>1. DaemonInit => SessionInv /\ FollowerTypeOK
  <2> SUFFICES ASSUME DaemonInit PROVE SessionInv /\ FollowerTypeOK
    OBVIOUS
  <2>1. jogCalls \in 0 .. MaxJogs /\ lostPolls \in 0 .. Lost
    BY DaemonAssumption DEF DaemonInit
  <2> QED
    BY <2>1, InitEstablishesInv DEF DaemonInit, FollowerTypeOK
<1>2. (SessionInv /\ FollowerTypeOK) /\ [DaemonNext]_daemonVars => (SessionInv /\ FollowerTypeOK)'
  BY DaemonKeepsSession, DaemonKeepsFollower
<1>3. SessionInv /\ FollowerTypeOK => DaemonTypeOK
  BY DEF SessionInv, FollowerTypeOK, DaemonTypeOK
<1>4. QED
  BY <1>1, <1>2, <1>3, PTL DEF DaemonSpec
-----------------------------------------------------------------------------
(* The tools, the follower and the session, built on the guard's promise,  *)
(* keep it themselves: the lock is the port's latch.                       *)
Promise == INSTANCE LockedRig WITH vector <- jogVec, sessionOn <- Active

Locks == ~ locked /\ locked' = TRUE /\ sState' = "stopped" /\ jogVec' = "none"

Unlocks == locked /\ locked' = FALSE /\ jogVec' = jogVec /\ sState' = sState

PromisedStep == (locked' = locked /\ MoverStep) \/ Locks \/ Unlocks

(* Each of them is a step of the abstract lock, or none.                   *)
LEMMA PromisedIsAbstract ==
  ASSUME LatchMirrored, PromisedStep
  PROVE  [Promise!Next]_(Promise!vars)
<1> USE DEF Promise!Next, Promise!vars, Active
<1>1. CASE locked' = locked /\ StopsSession
  BY <1>1 DEF StopsSession, Promise!SessionStops
<1>2. CASE locked' = locked /\ RunsSession
  BY <1>2 DEF RunsSession, Promise!SessionStarts
<1>3. CASE locked' = locked /\ KeepsSession
  <2>0. Active' = Active
    BY <1>3 DEF KeepsSession
  <2>1. CASE jogVec' = jogVec
    BY <1>3, <2>0, <2>1
  <2>2. CASE jogVec' = "none"
    BY <1>3, <2>0, <2>2 DEF Promise!DropVector
  <2>3. CASE ~ locked /\ (jogVec' = "manual" \/ (jogVec' = "session" /\ Active))
    BY <1>3, <2>0, <2>3 DEF Promise!SetVector
  <2> QED
    BY <1>3, <2>1, <2>2, <2>3 DEF KeepsSession, LatchMirrored
<1>4. CASE Locks
  BY <1>4 DEF Locks, Promise!Engage
<1>5. CASE Unlocks
  BY <1>5 DEF Unlocks, Promise!Release
<1> QED
  BY <1>1, <1>2, <1>3, <1>4, <1>5 DEF PromisedStep, MoverStep

(* The vector and the calls that keep a manual one alive.                  *)
JogsAreHeld == jogVec = "manual" => jogCalls > 0

JogBeginsAlone == ~ Active \/ jogCalls' <= jogCalls

(* Every step of the daemon keeps the promise; a vector of a manual jog    *)
(* stands only while a jog call runs, and none begins while a session is   *)
(* active.                                                                 *)
LEMMA StepKeepsPromise ==
  ASSUME LatchMirrored, FollowerTypeOK, JogsAreHeld, [DaemonNext]_daemonVars
  PROVE  PromisedStep /\ JogsAreHeld' /\ JogBeginsAlone
<1> DEFINE Goal == PromisedStep /\ JogsAreHeld' /\ JogBeginsAlone
<1> USE DEF PromisedStep, JogsAreHeld, JogBeginsAlone
<1>0. locked \in BOOLEAN /\ jogCalls \in Nat
  BY DaemonAssumption DEF FollowerTypeOK
<1>1. ASSUME NEW t \in Targets, NEW r \in Readings, Start(t, r),
             locked' = locked, jogCalls' = jogCalls
      PROVE  Goal
  BY <1>0, <1>1, StartIsMoverStep
<1>2. ASSUME NEW t, NEW r, UpdateTarget(t, r), locked' = locked, jogCalls' = jogCalls
      PROVE  Goal
  BY <1>0, <1>2 DEF UpdateTarget, sessionCore, port, MoverStep, KeepsSession
<1>3. CASE StopTracking \/ StopTool
  <2>1. /\ locked' = locked /\ jogCalls' = jogCalls
        /\ jogLocked' = jogLocked /\ sState' = "stopped" /\ jogVec' = "none"
    BY <1>3 DEF StopTracking, StopTool, Stop, StopSession, ClearJog
  <2> QED
    BY <1>0, <2>1 DEF MoverStep, StopsSession
<1>4. CASE JogBegins \/ JogRefreshes
  BY <1>0, <1>4
  DEF JogBegins, JogRefreshes, SetJogVector, session, sessionCore, MoverStep, KeepsSession
<1>5. CASE JogEnds
  BY <1>0, <1>5 DEF JogEnds, ClearJog, session, sessionCore, MoverStep, KeepsSession
<1>6. CASE UNCHANGED <<session, port>> /\ locked' = locked /\ jogCalls' = jogCalls
  BY <1>0, <1>6 DEF session, sessionCore, port, MoverStep, KeepsSession
<1>7. CASE Snapshot
  <2>1. locked' = locked /\ jogCalls' = jogCalls
    BY <1>7 DEF Snapshot
  <2>2. CASE HealingSnapshot \/ UselessSnapshot
    BY <1>6, <2>1, <2>2 DEF HealingSnapshot, UselessSnapshot
  <2>3. ASSUME NEW r \in Readings, UsableSnapshot(r)
        PROVE  Goal
    <3>1. hex \in Targets
      BY <2>3 DEF UsableSnapshot, FollowerTypeOK
    <3> QED
      BY <1>1, <1>2, <2>1, <2>3, <3>1 DEF UsableSnapshot
  <2> QED
    BY <1>7, <2>2, <2>3 DEF Snapshot
<1>8. CASE LockEngages
  <2>1. /\ locked' = TRUE /\ jogCalls' = jogCalls
        /\ jogLocked' = TRUE /\ sState' = "stopped" /\ jogVec' = "none"
    BY <1>8 DEF LockEngages, LockJog, ClearJog, StopSession
  <2>2. CASE locked
    <3>1. locked' = locked /\ jogLocked' = jogLocked
      BY <1>0, <2>1, <2>2 DEF LatchMirrored
    <3> QED
      BY <1>0, <2>1, <3>1 DEF MoverStep, StopsSession
  <2>3. CASE ~ locked
    <3>1. Locks
      BY <2>1, <2>3 DEF Locks
    <3>2. JogsAreHeld' /\ JogBeginsAlone
      BY <1>0, <2>1
    <3> QED
      BY <3>1, <3>2
  <2> QED
    BY <2>2, <2>3
<1>9. CASE LockReleases
  <2>1. /\ locked /\ locked' = FALSE /\ jogCalls' = jogCalls
        /\ sState' = sState /\ jogVec' = jogVec
    BY <1>9 DEF LockReleases, session, sessionCore
  <2>2. Unlocks
    BY <2>1 DEF Unlocks
  <2>3. JogsAreHeld' /\ JogBeginsAlone
    BY <1>0, <2>1
  <2> QED
    BY <2>2, <2>3
<1>10. CASE (SessionInternal \/ PortInternal) /\ UNCHANGED <<locked, jogCalls, follower>>
  BY <1>0, <1>10, InternalIsMoverStep
<1>11. CASE UNCHANGED daemonVars
  BY <1>6, <1>11 DEF daemonVars
<1>12. ASSUME NEW t \in Targets, NEW r \in Readings, StartTracking(t, r) \/ TrackAircraft(t, r)
       PROVE  Goal
  BY <1>1, <1>12 DEF StartTracking, TrackAircraft
<1>13. ASSUME NEW r \in Readings, UpdateTargetTool(r)
       PROVE  Goal
  BY <1>2, <1>13 DEF UpdateTargetTool
<1> QED
  BY <1>3, <1>4, <1>5, <1>7, <1>8, <1>9, <1>10, <1>11, <1>12, <1>13 DEF DaemonNext

(* A manual vector stands only for a jog call that runs (tools.ts jog,     *)
(* device.ts:230-256).                                                     *)
LEMMA JogsAlwaysHeld == DaemonSpec => [](FollowerTypeOK /\ JogsAreHeld)
<1>1. DaemonInit => FollowerTypeOK /\ JogsAreHeld
  <2> SUFFICES ASSUME DaemonInit PROVE FollowerTypeOK /\ JogsAreHeld
    OBVIOUS
  <2>1. jogCalls \in 0 .. MaxJogs /\ lostPolls \in 0 .. Lost
    BY DaemonAssumption DEF DaemonInit
  <2> QED
    BY <2>1 DEF DaemonInit, SessionInit, PortInit, FollowerTypeOK, JogsAreHeld
<1>2. DaemonInv /\ FollowerTypeOK /\ JogsAreHeld /\ [DaemonNext]_daemonVars
        => (FollowerTypeOK /\ JogsAreHeld)'
  BY StepKeepsPromise, DaemonKeepsFollower DEF DaemonInv
<1> QED
  BY <1>1, <1>2, DaemonInvariant, PTL DEF DaemonSpec

(* The movers beside the guard implement the abstract lock too: whatever   *)
(* tool, jog call, poll or tick runs, nothing sets a vector under it, and  *)
(* a session is stopped when it engages (tools.ts, track-tools.ts,         *)
(* adsb-tools.ts, device.ts:230-256).                                      *)
THEOREM DaemonImplementsLock == DaemonSpec => Promise!Safety
<1>1. DaemonInit => Promise!Init
  BY DEF DaemonInit, SessionInit, PortInit, Active, Promise!Init
<1>2. DaemonInv /\ FollowerTypeOK /\ JogsAreHeld /\ [DaemonNext]_daemonVars
        => [Promise!Next]_(Promise!vars)
  BY StepKeepsPromise, PromisedIsAbstract DEF DaemonInv
<1> QED
  BY <1>1, <1>2, DaemonInvariant, JogsAlwaysHeld, PTL DEF DaemonSpec, Promise!Safety

(* What is left of README.md "Arbitration", which TrackingAndJogExclude    *)
(* refutes in full: a manual vector stands only while a jog call that was  *)
(* accepted runs, and none is accepted while a session is active, so that  *)
(* only a jog older than the session can disturb it (tools.ts jog,         *)
(* device.ts:239-272).                                                     *)
THEOREM OnlyOlderJogsDisturb ==
  DaemonSpec => []JogsAreHeld /\ [][JogBeginsAlone]_daemonVars
<1>1. DaemonInv /\ FollowerTypeOK /\ JogsAreHeld /\ [DaemonNext]_daemonVars
        => [JogBeginsAlone]_daemonVars
  BY StepKeepsPromise DEF DaemonInv
<1> QED
  BY <1>1, DaemonInvariant, JogsAlwaysHeld, PTL DEF DaemonSpec
=============================================================================
