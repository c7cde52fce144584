------------------------------ MODULE RigDaemon -----------------------------
(***************************************************************************)
(* The daemon's movers side by side: the MCP tools (tools.ts,              *)
(* track-tools.ts, adsb-tools.ts), the manual jog loops they leave running *)
(* (device.ts:264-272), the tracking session and the ADS-B follower that   *)
(* feeds it (adsb/follower.ts).  The sun guard is here only what it        *)
(* promises (module LockedRig): a lock that stops the session and drops    *)
(* the vector when it engages.                                             *)
(*                                                                         *)
(* Every tool tests the lock and the session and acts on them in one       *)
(* synchronous stretch of its handler, so a tool is one action; only jog   *)
(* goes on afterwards, one refresh of its vector at a time.                *)
(***************************************************************************)
EXTENDS TrackingSession

CONSTANTS
  MaxJogs,  \* jog calls running at once
  Lost      \* cfg.adsbLostSec, in polls

ASSUME DaemonAssumption == MaxJogs \in Nat /\ Lost \in Nat

VARIABLES
  locked,    \* SunSupervisor.isSunLocked()
  jogCalls,  \* jog() calls that have not returned
  hex,       \* AdsbFollower.hex, "none" for null
  firstFix,  \* AdsbFollower.firstFix
  lostPolls, \* polls since AdsbFollower.lastSeenMs
  quit       \* history: since track_aircraft bound hex, a session was stopped

follower == <<hex, firstFix, lostPolls>>
daemonVars == <<locked, jogCalls, follower, quit, session, port>>

DaemonTypeOK ==
  /\ locked \in BOOLEAN
  /\ jogCalls \in 0 .. MaxJogs
  /\ hex \in Targets \cup {"none"}
  /\ firstFix \in BOOLEAN
  /\ lostPolls \in 0 .. Lost
  /\ quit \in BOOLEAN
  /\ SessionTypeOK

DaemonInit ==
  /\ locked = FALSE
  /\ jogCalls = 0
  /\ hex = "none"
  /\ firstFix = TRUE
  /\ lostPolls = 0
  /\ quit = FALSE
  /\ SessionInit

Active == sState # "stopped"

Remember == quit' = (hex' # "none" /\ (quit \/ (Active /\ sState' = "stopped")))
-----------------------------------------------------------------------------
(* start_tracking asks the lock only, neither a jog nor another session.   *)
StartTracking(t, r) ==
  /\ ~ locked
  /\ Start(t, r)
  /\ UNCHANGED <<locked, jogCalls, follower>>
  /\ Remember

(* update_target: a client feeds the target it started.                    *)
UpdateTargetTool(r) ==
  /\ ~ locked
  /\ UpdateTarget(label, r)
  /\ UNCHANGED <<locked, jogCalls, follower>>
  /\ Remember

(* stop_tracking does not reach into the follower, nor into a jog call.    *)
StopTracking ==
  /\ Stop
  /\ UNCHANGED <<locked, jogCalls, follower>>
  /\ Remember

StopTool ==
  /\ StopSession
  /\ ClearJog
  /\ PostStopIf(TRUE)
  /\ UNCHANGED <<jogLocked, locked, jogCalls, follower>>
  /\ Remember

JogBegins ==
  /\ ~ locked
  /\ ~ Active
  /\ jogCalls < MaxJogs
  /\ jogCalls' = jogCalls + 1
  /\ SetJogVector("manual")
  /\ UNCHANGED <<jogLocked, stopPost, session, locked, follower>>
  /\ Remember

(* The loop asks nobody again: the port's latch alone can refuse it.       *)
JogRefreshes ==
  /\ jogCalls > 0
  /\ SetJogVector("manual")
  /\ UNCHANGED <<jogLocked, stopPost, session, locked, jogCalls, follower>>
  /\ Remember

JogEnds ==
  /\ jogCalls > 0
  /\ jogCalls' = jogCalls - 1
  /\ ClearJog
  /\ UNCHANGED <<jogLocked, stopPost, session, locked, follower>>
  /\ Remember
-----------------------------------------------------------------------------
Unbind ==
  /\ hex' = "none"
  /\ firstFix' = TRUE
  /\ lostPolls' = 0

(* Mutant: the tool binds and leaves the first fix to the next poll.       *)
TrackAircraftDeferred(t, r) ==
  /\ ~ locked
  /\ r.calibrated
  /\ hex' = t
  /\ firstFix' = TRUE
  /\ lostPolls' = 0
  /\ UNCHANGED <<locked, jogCalls, session, port>>
  /\ quit' = FALSE

(* track_aircraft: bind, and the first fix at once, from the snapshot the  *)
(* aircraft was just found in.                                             *)
TrackAircraft(t, r) ==
  /\ ~ locked
  /\ hex' = t
  /\ firstFix' = FALSE
  /\ lostPolls' = 0
  /\ Start(t, r)
  /\ UNCHANGED <<locked, jogCalls>>
  /\ quit' = FALSE

SelfHeals == ~ firstFix /\ ~ Active

(* Mutant: a follower whose session was stopped keeps its binding.         *)
HealingSnapshotKeepsHex ==
  /\ hex # "none"
  /\ SelfHeals
  /\ UNCHANGED <<follower, session, port>>

HealingSnapshot ==
  /\ hex # "none"
  /\ SelfHeals
  /\ Unbind
  /\ UNCHANGED <<session, port>>

(* The bound aircraft is in the snapshot, with an altitude.                *)
UsableSnapshot(r) ==
  /\ hex # "none"
  /\ ~ SelfHeals
  /\ IF firstFix THEN Start(hex, r) ELSE UpdateTarget(hex, r) /\ UNCHANGED jogLocked
  /\ firstFix' = FALSE
  /\ lostPolls' = 0
  /\ UNCHANGED hex

(* Mutants: the lost clock starts over and the aircraft is never given up; *)
(* it is given up one poll late.                                           *)
UselessSnapshotHolds ==
  /\ hex # "none"
  /\ ~ SelfHeals
  /\ lostPolls' = IF lostPolls >= Lost THEN 1 ELSE lostPolls + 1
  /\ UNCHANGED <<hex, firstFix, session, port>>

UselessSnapshotOneLate ==
  /\ hex # "none"
  /\ ~ SelfHeals
  /\ IF lostPolls > Lost
       THEN Unbind
       ELSE lostPolls' = lostPolls + 1 /\ UNCHANGED <<hex, firstFix>>
  /\ UNCHANGED <<session, port>>

(* It is not, or the session refused the fix for want of a calibration.    *)
UselessSnapshot ==
  /\ hex # "none"
  /\ ~ SelfHeals
  /\ IF lostPolls >= Lost
       THEN Unbind
       ELSE lostPolls' = lostPolls + 1 /\ UNCHANGED <<hex, firstFix>>
  /\ UNCHANGED <<session, port>>

Snapshot ==
  /\ HealingSnapshot \/ UselessSnapshot \/ \E r \in Readings : UsableSnapshot(r)
  /\ UNCHANGED <<locked, jogCalls>>
  /\ Remember
-----------------------------------------------------------------------------
(* The guard trips or faults.  Its later ticks under the lock would stop   *)
(* an active session; NoStartUnderLock says that here they find none.      *)
LockEngages ==
  /\ locked' = TRUE
  /\ LockJog
  /\ StopSession
  /\ \E posted \in BOOLEAN : PostStopIf(posted \/ gotoInFlight)
  /\ UNCHANGED <<jogCalls, follower>>
  /\ Remember

LockReleases ==
  /\ locked
  /\ locked' = FALSE
  /\ UnlockJog
  /\ UNCHANGED <<jogVec, stopPost, session, jogCalls, follower>>
  /\ Remember

DaemonNext ==
  \/ \E t \in Targets, r \in Readings : StartTracking(t, r) \/ TrackAircraft(t, r)
  \/ \E r \in Readings : UpdateTargetTool(r)
  \/ StopTracking
  \/ StopTool
  \/ JogBegins
  \/ JogRefreshes
  \/ JogEnds
  \/ Snapshot
  \/ LockEngages
  \/ LockReleases
  \/ (SessionInternal \/ PortInternal) /\ UNCHANGED <<locked, jogCalls, follower>> /\ Remember

DaemonSpec == DaemonInit /\ [][DaemonNext]_daemonVars

(* The poll timer (adsb/source.ts:31-35): a snapshot comes again and       *)
(* again, with or without the aircraft; it is fair only where the follower *)
(* acts on it whatever it holds.                                           *)
FairDaemonSpec ==
  DaemonSpec /\ WF_daemonVars((~ Active \/ lostPolls > 0) /\ Snapshot)
-----------------------------------------------------------------------------
(* Under the lock no vector stands, although a jog call that began before  *)
(* it goes on refreshing its own (device.ts:230-256).                      *)
NoVectorUnderLock == locked => jogVec = "none"

(* No path starts a session under the lock: the follower, which does not   *)
(* ask, only ever starts one inside track_aircraft, which does             *)
(* (adsb-tools.ts:117-127, adsb/follower.ts:58-64).                        *)
NoStartUnderLock ==
  [][locked /\ sState = "stopped" => sState' = "stopped"]_daemonVars

(* Once the session a follower feeds has been stopped and nobody starts    *)
(* another, the follower lets go of its aircraft                           *)
(* (adsb/follower.ts:45-48).                                               *)
BindingHeals == (hex # "none" /\ ~ Active) ~> (hex = "none" \/ Active)

(* An aircraft no longer seen is let go of (adsb/follower.ts:75-78).       *)
LostIsReleased == (hex # "none" /\ lostPolls > 0) ~> (hex = "none" \/ lostPolls = 0)

(* README.md "Arbitration": tracking and manual control cannot fight over  *)
(* the rig.  A vector of a manual jog stands only while no session is      *)
(* active.  Refuted: start_tracking does not ask for running jog calls.    *)
TrackingAndJogExclude == jogVec = "manual" => ~ Active

(* docs/superpowers/specs/2026-07-19-adsb-target-source-design.md:69,      *)
(* "stop_tracking unbinds the follower", and adsb/follower.ts:45, "if      *)
(* tracking was stopped elsewhere, release": a follower whose session was  *)
(* stopped feeds no session again until track_aircraft binds it anew.      *)
(* Refuted: it looks only at the next poll, and by then another session    *)
(* may have been started, for another target.                              *)
FollowerObeysStop ==
  [][quit /\ (\E r \in Readings : UsableSnapshot(r)) => label = hex]_daemonVars
=============================================================================
