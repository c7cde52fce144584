# eMotimo TB3 on the ESP32-S3: a model of what moves the rig

The repository is a motorised pan/tilt(/aux) head in two programs:

* **the firmware** (`src/src`, C++ on an ESP32-S3): a web server, the main loop
  that executes what its handlers leave behind, a 40 kHz step interrupt and
  over-the-air updates;
* **the daemon** (`src/tb3-mcp`, TypeScript on a host): MCP tools over the
  firmware's HTTP and WebSocket interface, a closed-loop tracking session, a
  guard that keeps the camera off the sun, an ADS-B receiver feed, and beside
  it an LLM agent and a dashboard, which are clients of the daemon.

The models ask one question of both: *can the rig be moving when, or for whom,
it should not, or stay stuck when it should not?*  And of what surrounds the
daemon's core (dashboard, agent, camera, the stores of calibration and sector)
they ask whether what it shows, keeps or decides still holds.  Paths below are relative to
`src/tb3-mcp/src` (daemon) and `src/src` (firmware).

## Inventory

| component | state | operations | what is hard | what makes it correct |
|---|---|---|---|---|
| tracking session, `track/session.ts` | state, reason, label, estimator, `acquireGen`, `gotoInFlight`, timer | `start`, `updateTarget`, `stop`, the tick, the settling of goto promises | promises nobody awaits settle after a stop, a restart or a newer goto | state, flag and outstanding goto agree; an abandoned goto is stopped; no rate outlives tracking; no hang; the deadman ends it |
| sun guard, `track/supervisor.ts` | state, lock, enabled, park plan/step/epoch/retries, `parkInFlight` | the tick, settling park gotos, `clearLock`, `setConfig` | the lock is kept in three places; stale park gotos; refused gotos; clients racing the tick | the lock binds everybody, the park flies the checked path, a fault is sticky, a park ends |
| device port, `device.ts`, `move.ts` | jog vector with TTL, latch, WebSocket, telemetry | `setJogVector`, `clearJog`, `lockJog`, `stop`, `gotoAngle`, `waitForArrival`, `jog` | one vector, many writers; requests lost or late | no vector for a mover no longer entitled to it |
| MCP motion tools, `tools.ts`, `track-tools.ts`, `adsb-tools.ts`, `sun-tools.ts` | running `jog` calls | one handler per tool | a check at the start of a call that goes on for seconds | no motion under the lock; tracking and jog exclude each other |
| ADS-B follower, `adsb/follower.ts` | hex, firstFix, lastSeen | `bind`, `unbind`, `onSnapshot` | learns of a stopped session only at its next poll | lets go of what is stopped or lost; starts nothing by itself |
| firmware motion, `tb3_web.cpp`, `TB3_WebGlue.ino`, `tb3_web_motion.ino`, `TB3_Nunchuck.ino`, `TB_DF.ino` | request flags, joystick slot, stop latch, `motorMoving`, `nextMoveLoaded`, `hardStopRequested`, driver and interrupt state | the web handlers; the loop's pass; the goto loop; the interrupt | three concurrent actors over plain flags; a blocking goto inside the poll | nothing wedges; stops act on the right motion; drivers released only at rest |
| firmware update, `tb3_ota.cpp` | upload state, owner, boot slot confirmation | begin, chunk, fail, disconnect, end, restart, health tick | takes the interrupt away from a running loop | the loop survives it; nothing moves during it |
| ADS-B source, `adsb/source.ts` | latest snapshot | poll | polls overlap | a newer snapshot is not overwritten by an older |
| calibration store, geo and IMU tools, `calibration.ts`, `geo-tools.ts`, `imu-tools.ts` | profile in memory and on disk | locate, sight, solve, clear, set_home, sweep | tools interleave at their awaits; the rig's origin moves on the rig, not in the daemon; a crash between memory and file | no solution from sightings of another place or origin |
| attitude, `geo/*` | none (functions) | two solvers, kinematics, inverse | two roots, two postures per direction, limits, any tripod | what is pointed at is what is looked at |
| servo and limits, `track/control.ts` | vector, telemetry age | control law, horizon, guard | late telemetry, a ramp, no end stops | the axis stays within its limits |
| sector filter, `track/sector.ts`, `sector-store.ts`, `sector-tools.ts` | sector in memory and on disk | set, get, load, the arc test | crash while saving; arcs through north | a restriction nobody lifted survives; drawn is admitted |
| agent, `agent/*` | last switch, its MCP client | read, ask a model, decide, call; killed at any point | decisions on a stale read, a call that outlives its process | a healthy target is kept for its dwell |
| dashboard server, `dashboard/*` | last status, `running`, streams, MCP client | poll, stream, controls, E-STOP | hung sources, racing legs, concurrent reconnects, a daemon that restarts | polls in order, no source stalls another, an E-STOP stops what it can |
| camera streamer, `dashboard/camera.ts` | viewers, arming, pipeline, budget, child processes | enable, disable, attach, detach, restart, the callbacks of two spawners | callbacks of processes torn down; overlapping processes; spawn failures | one capture at the camera; a watched camera is never quietly dead |
| dashboard pages, `dashboard/public/*` | E-STOP latch, toggles, widget, stream | render, commands, latch, drag | reconnects, unknown readings, late answers | toggles invert the truth, or the last known one |
| wgs84 and Wahba solvers, IMU statistics, rendering, configuration, remains of the menu firmware, vendored library | | | | floating-point arithmetic, presentation or third-party |

How they interact: tools, follower, session and guard run in one Node.js event
loop, so a handler is atomic between two `await`s; they share the `Device`
object (jog vector, latch) and reach the rig by `POST /api/goto|stop|home` and
WebSocket joystick frames.  The firmware's network task answers those requests
by setting flags; `loopTask` drains them once per pass; the interrupt
acknowledges each loaded motion segment.  An upload runs on the network task
(web) or on a task of its own (espota).  The dashboard and the agent are
processes of their own and reach the daemon over MCP, a session of which dies
with the daemon; the dashboard also posts `/api/stop` to the rig itself and
starts and stops the agent through systemd.  A page posts commands to the
dashboard and is fed by its event stream.

## Modules

```
MotionPort                 device.ts: vector, latch, outstanding stops
  TrackingSession          session.ts             <- TrackingSessionProofs
    SunSupervisor          supervisor.ts, beside a session   <- SunSupervisorProofs
      (implements) LockedRig    what the guard promises the rest
    RigDaemon              tools + jog loops + session + follower, on LockedRig's promise
                                                  <- RigDaemonProofs
FirmwareMotion             web handlers, loopTask, interrupt, upload
                                                  <- FirmwareMotionProofs

CameraStreamer             dashboard/camera.ts            )
Cockpit                    pages, E-STOP, agent           )
McpSession                 an MCP client, daemon restarts ) <- DashboardProofs
StatusFeed                 poll, stream, page             )
SectorWidget               widget, tool, store, arc test  )
Calibration                profile, tools, set_home       ) <- CalibrationProofs
Attitude                   solvers, inverse, quarter turns)
Servo                      one axis at its soft limits    <- ServoProofs
  MCAround                 these eight, a scene each      <- AroundProofs

MC<Module>                 instances for TLC; MC<Property>.cfg: the refuted claims
```

**MotionPort.**  The vector is known by who set it (`session`, `manual`), not by
its value: the hazard is a vector of a mover that has lost its right to it.  The
keep-alive timer runs exactly while a vector stands, so it has no variable.  Any
vector may expire at any time, because its refresh may be late.  `stopPost` says
that some `/api/stop` is under way; it may be answered or lost.

**TrackingSession.**  One action per public method, one per branch of `tick()`
in the code's order of gates (`Gate`), and `GotoArrives` / `GotoFails` for the
two callbacks of `beginAcquire`.  A promise is a record with the generation it
was sent under; the label it carries is a history the code does not keep, used
by `TrackedByOwnGoto` only.  What a handler reads of the rest of the daemon is
its argument `r`, any element of `Readings`, anew in every handler: calibration,
telemetry age, program flag, `moving`, and the verdict of the geometry.  Time is
`fixAge`, counted up to one past the deadman.  `acquireGen` is an ever-growing
number in the code, of which only equality is tested; the model uses a
generation again when no promise holds it, and `RoomToDispatch` is the bound on
promises outstanding at once that this implies.

**SunSupervisor** adds the guard's variables to a session with free clients: a
session may be started at any time, locked or not.  `Verdict` gives the gates of
`tick()` in order, one action per outcome; `DrivePark` is `driveParkTick`,
`ParkArrives` / `ParkFails` its callbacks.  The first thing every tick does
(stop a session that runs under the lock) is `ShowOut`, part of each of them.

**LockedRig** is the abstract lock: engaging it stops the session and the
vector in the same step, no vector is set under it, and a session that starts
under it does not stay.

**RigDaemon** uses only that promise for the guard and has the tools as their
handlers are written: which of them asks for the lock, which for a session, and
which goes on after it has asked (`jog`).  `Lost` polls without a usable fix
release the follower.

**FirmwareMotion** cuts `loopTask`'s pass (`pc`) wherever it reads something
another task writes: the re-assertion of the interrupt, joystick, stop, home
and goto requests, the goto's loop (velocity update, then pump and watchdog),
and the tail that drives or releases the motors.  A web handler writes scalars
and is one action; an upload's first chunk is two, a test and a taking, because
the loop can begin a goto in between.  A stick is the set of axes it deflects, a
goto a number of velocity segments, the ramp a number of steps to full speed.
`stopped` is a history variable: which of the latest goto *request* and the
latest goto *motion* a stop was accepted after.

**CameraStreamer** has a slot per spawner instance, from `start()` until its
process is gone, with a phase (waiting for the one before, connecting,
streaming, told to stop, failed to spawn).  The streamer's generation counter is
only compared with the one a callback carries, so it is the slot whose callbacks
count (`current`).  `activeProc` is the module variable a new mtplvcap polls.
Both back ends are there: mtplvcap reports its end before its process is gone,
ffmpeg with it.  One window of the restart budget is followed; whatever resets
the budget in the code resets `restartCount`.

**Cockpit** has the daemon as the aircraft it tracks, the pages' latches, one
command under way, the legs of an E-STOP (`Promise.all`: each lands, fails or is
given up and lands late) and the agent as the point it is at in `runOnce`, with
what it read there.  A killed agent's call is not undone (`orphaned`).  The
firmware's leg is not followed here; it ends in FirmwareMotion.  A call of the
agent lands (`AgentCallLands`) before it is answered and stamped
(`AgentAnswered`), or its answer is lost.  `dwell` is the agent's own clock, from
the stamp; `tenure`, which is history, counts from the landing, so that
`DwellIsKept` does not rest on the clock whose stamping it is about.  `calm` is
history too.  MCEstop is the same with nobody at the controls.

**McpSession** is the text `dashboard/client.ts` and `agent/mcp-client.ts` share:
per call the await it is at, per SDK client object what its transport can do.
`SessionError` is what the regular expression matches, the SDK's own
"Connection closed" included, which is how one call's reconnect reaches another.

**StatusFeed** counts versions of the truth.  A read returns the version, or
fails, or is pending; the snapshot, the stream and the page carry what was read.
The panels draw on disjoint sources, so one panel is followed at a time; the sun
panel's toggle memory (`app.js` 423-441) is `memory`.

**SectorWidget** has bearings as steps of a turn, `Turn` being the 360 the code
allows and normalises.  `Torn` is a file that does not parse.  `tried` is
history: what a restart may find.

**Calibration** knows a measurement by whether it still holds.  `homing` is the
rig's own request flag: the origin moves when `loopTask` drains it, before or
after the answer of `set_home`'s POST.  `tainted` is history and is set where two
writers overlap, a write fails half done, or a `set_home` accepted by the rig is
lost with the daemon.

**Attitude** is the algebra in integers: quarter turns, directions of length 5
so that a camera beside the mount's axis is a Pythagorean triple.  Without an IMU
the code takes the camera to look along the axis and the pan to be right-handed;
`SolveByTriad` is enabled for such rigs only.  The inverse returns both roots
(`enuToPanTiltOffsetAll`); one in range is preferred to one that is not, and
between two of a kind the smaller `errDeg` decides.  Both look where they should,
so that error is rounding, and `Preferred` leaves the choice open.  `PointAt` is
therefore a set: the postures the rig may be sent to, and `Unsolved` if it may
refuse.

**Servo** counts time in the firmware's velocity cycles and positions in what
the slowest rate covers in one.  The aim and the feed-forward are free.  A rate
passes the places the code has for it: the vector (`jog`), the stick as the last
frame deflects it, the segment computed after the one that runs (`next`, while
`nextMoveLoaded`), the one that runs (`rate`).  The first vector is sent at once,
later ones by the keep-alive's next frame; the firmware computes a segment only
after the one before was loaded, and loads it at the next boundary.
`rateToDeflection` is the set of rates the curve and its rounding to whole
deflections may make of one.

**MCAround** puts the eight side by side.  They share no variable: a behaviour
is one of a single component, its `scene`, and the rest stays where it started.
What a component gets from outside (a call that fails, a reading that is
missing, a process that dies) is an outcome left open in it.

## What the runs show

| run | asks | instance |
|---|---|---|
| `session` | coherence, stops and liveness of the session, with promises settling late and out of order | 2 targets, 4 generations (three gotos outstanding, two of them abandoned), ages 1/2; readings: all in order, or one thing wrong |
| `sun_guard` | the lock, the park, the fault, and that the guard implements `LockedRig` | 1 target, 3 session generations, 3 park epochs, plans of 0 to 2 waypoints, 2 tries |
| `rig_daemon` | lock against tools, jog loops and follower; the follower lets go | 2 targets, 1 running jog call, lost at the third poll without a fix |
| `around` | the camera, E-STOP and agent, MCP client, status feed, sector, calibration, attitude and servo, a scene each | see below |
| `firmware` | no old stop aborts a goto, no interleaving wedges the loop, a stop holds against a streaming client, drivers are not released in motion | centred and all-axes frames, 2 ramp steps, gotos of 0 or 1 segment |

Why these bounds are enough for what is asked.  *Generations*: every property
compares a promise with the current generation, so one current promise, one
abandoned and one more abandoned after it give all the relations; the fourth
generation is what the bump takes.  *Targets*: one to track and another to
confuse it with.  *Readings*: the gates are tried in order and the first closed
one decides, so combinations of closed gates add no step.  *Retries*: the code
tries a park goto 50 times; the model distinguishes a failure that is retried
from the last one, for which two suffice.  *Waypoints*: `planPark` returns at
most two.  *Ramp*: two steps give a stop, an intermediate speed and full speed.
*Segments*: zero (the goto is already there) and one; a hard stop in the one
still leaves 0 or 1 for the deceleration.

The scenes of `around`.  *Camera*: two viewers (the last one and one before), two
spawner instances (the one being torn down and its successor), two restarts.
*Cockpit*: one page, two aircraft (the tracked one and another), a dwell of one
step; the page may clear its latch at any time, which gives the commands a
second, unlatched page would send.  *MCP*: a poll of two calls and one other
call, three at once being what it takes for a reconnect to close another that is
itself reconnecting, and one restart.  *Feed*: a panel of two sources and the
sun's, two versions, two polls (so that they could overlap), one snapshot in the
stream.  *Sector*: one page, three bearings, two POSTs under way, and a
restriction on disk; the arc test and the wedge are compared for every sector
this widget can hold.  (For any circle they are proved equal.)  *Calibration*: a
sweep of one leg; nothing else is bounded.  *Attitude*: all 24 tripods, both
directions of the pan, a camera straight ahead and one beside it, six postures
for the landmarks; a pan range of 0 to 270 degrees, so that one of the two
postures for a direction may be out of it, or both until a turn brings one in.
*Servo*: rates up to 2 steps of the ramp, a tick every 2 cycles, a frame of the
keep-alive every cycle, a push at least every 2, limits at +-4, which the path
predicted at full speed exceeds.  What is assumed of the timing is in the module:
a frame arrives within its cycle, `loopTask` computes a segment within one, and
timers and pushes are not late by more.  (The properties hold as well with a push
every 4 cycles, the keep-alive every 2 and limits at +-6, the defaults' periods,
which takes more states than the run has room for.)

Deadlock is not checked in `around`, because some scenes may end: an attitude
that is solved stays solved.

Each property has a mutant beside the definition it changes (`Mutant:`): the
model with a plausible mistake, in which TLC finds the property violated.

### Documented behaviour the code does not have

Seven runs are expected to fail; each checks a sentence of the documentation.

* `clear_lock_only`: the README says only `clear_lock` leaves fault, parked or
  parking.  That is so for fault (`FaultIsSticky`, which is proved and needs no
  run); parked and parking
  also end when the sun sets, the calibration goes or the guard is disabled.
* `track_over_jog`: `start_tracking` does not look for a running `jog` call,
  whose refreshes then replace the session's rates.
* `follower_after_stop`: `stop_tracking` does not unbind the follower; when
  another session is started before the next poll, the follower feeds it.
* `stop_after_goto`: a stop accepted after a goto but before the loop drains it
  is dropped as stale (or finds nothing moving), and the goto runs in full.  Once
  the goto has begun no stop is lost (`StopNeverLostInGoto`, proved).
* `aux_deadman`: the joystick deadman re-centres x and y, not the aux axis.
* `isr_while_flashing`: a jog or goto arriving during an upload restarts the
  step interrupt and re-enables the drivers.
* `estop_agent`: the E-STOP's three requests race.  A `track_aircraft` the agent
  has sent may land after `stop_tracking` and before, or even after, the agent is
  killed; all legs report success and the rig tracks again.  What does hold is
  `CalmStaysStopped`: if nothing could start tracking when the stop landed,
  nothing does until somebody asks.

Six more things a reader should know; no run refutes a sentence over them.

* An axis can pass its soft limit.  `README.md` (212-214) says that the guard
  zeroes it "before it would cross a limit", and the lookahead has the age of the
  reading, a tick and the ramp in it.  It has neither what a rate waits for after
  its tick (the keep-alive's frame, `loopTask`, the boundary) nor the rounding up
  to whole deflections.  `NeverRunsAway` allows for both (`Overrun`): with the
  defaults, 100 ms and two cycles of 50 ms at 19 degrees a second and one cycle
  more, some 4.8 degrees.  What is proved for every timing, `NeverFarOut`, is
  wider: the top rate over the longest lookahead and the delay, some 18 degrees.
* A direction that can be reached only by bringing a pan in by a full turn may be
  refused.  With neither root in range, the one over the top may win by rounding
  (imu-orientation.ts 191-198), and `reachablePanTilt` refuses its tilt.
  `PointsTrue` allows a refusal there (a pan of half a turn or more), and for a
  direction along the pan's axis, and nowhere else.
* A switch of the agent whose answer is lost is not stamped, although the rig
  tracks the new aircraft; the agent may leave it before its dwell.
  `DwellIsKept` leaves such switches out (`tenure`).
* A `solve_calibration` whose gravity burst overlaps `set_rig_location` or
  `set_home` stores its solution over their invalidation, and the rig is then
  calibrated for a place or origin it has left.  `CalibrationHolds` leaves these
  out (`tainted`).
* After a spawn of mtplvcap that fails (no such program), `activeProc` is never
  cleared, and every later start waits for a process that never was
  (`WaitsForTheStopped` names the exception: `broken`).
* A reconnect that the daemon's end refuses leaves an SDK client behind that was
  never connected.  "Not connected" is not matched as a session error, so that
  client does not heal (`HealsAfterRestart` names the exception: `refused`).

### Fairness

Nothing is assumed of clients, of operators, of the sky or of an upload's fate.
Assumed, each by weak fairness unless said: the session's and the guard's
interval timers and the poll timer fire; the clock advances; every goto promise
settles, because `post` has a command timeout and `waitForArrival` a deadline;
`loopTask` runs and the step interrupt fires while its timer is on (hardware);
the two halves of an upload's first chunk belong to one call.  One strong
fairness: a goto's loop that goes round for ever eventually finds its deadline
passed, as the watchdog compares against `millis()`; it is tested only at one
place of the round, so weak fairness would not do.  The watchdog may fire only
when the segment will never be taken: it allows three times the planned time.

A timer's handler is fair only where it acts whatever it finds (`DeadmanTick`,
`MustAct`, the polls of a follower that is losing its aircraft): fairness of a
handler at large would make TLC pick the reading that happens to move it, and
so assume that telemetry fails or an aircraft disappears.  `AcquireSettles` and
`DeadmanStops` therefore rest on promises, clock and deadman alone.

In `McpProgress` every await settles, because the SDK gives a request up after 60
seconds; the daemon comes back, because its systemd unit has `Restart=always`;
and a call that keeps meeting a session error is answered so at last (strong
fairness of `Close`: a daemon that is up answers, if not every time).  In
`FeedProgress` a read ends, because `withTimeout` bounds it (that a source ever
answers is *not* assumed); a poll whose reads have ended ends, and a page renders
what has reached it, however often its stream breaks (strong fairness for both).
The poll's timer fires and `EventSource` reconnects.  MCAround restates both
(`AroundProgress`), each in its own scene: nothing is owed where the scene is
another part's.  Pages, operators, viewers,
the agent's model and processes that die owe nothing.

## What is proved

TLAPS checks these for every value of the constants, from the assumptions
stated beside them (`Readings` and `Skies` have their record types, `Frames` are
sets of axes, ages, retries, ramp and segment counts are naturals).

* **Session** (`TrackingSessionProofs`): `SessionTypeOK`, `SessionCoherent`,
  `RateOnlyWhileTracking` (proved, therefore not run).  Coherence is not
  inductive: cancelling a goto must find a generation that no promise holds.
  `SessionInv` adds `GenLeft` (while a goto is in flight a generation is left,
  which is what `RoomToDispatch` asks for two at dispatch) and `Targeted` (an
  active session has a target).  The steps are grouped by what they do to the
  goto: dispatch one, abandon one, settle one, or leave it alone.  From it,
  `TrackedByOwnGoto` and `AbandonedGotoIsStopped`, with `OwnLabel`: the goto in
  flight is one for the present target.
* **Sun guard** (`SunSupervisorProofs`): `LockMirrored` is inductive as it
  stands, because every action that touches one of the three copies touches all
  and the session reaches the port only through the latch (`SessionOnPort`).
  `LockStopsMotion` and `FaultIsSticky` are then facts about single steps, and so
  is what holds of the refuted `OnlyClearLockReleases`: the lock is released by
  `clear_lock` or by a tick that finds a parking or parked guard disabled,
  uncalibrated or past sunset (`LockReleasesAccountedFor`).
  `ParkCoherent` needs the same argument about epochs as the session's about
  generations: `ParkInv` says one is left while a park goto flies, so that an
  aborted park leaves no live promise; a live promise is then the only one, and
  `ParkInOrder` and `AbandonedParkIsStopped` follow.  `SunTypeOK` rests on
  `ParkInv` and `SessionInv`: the guard leaves the session alone or stops it.
  `GuardImplementsLock` is the refinement, step by step: under the mapping
  `Promise`, every step of guard, session and port is one of LockedRig's
  (`PromisedStep`) or a stutter.  The guard's steps lock, unlock or stop the
  session (`GuardKeepsPromise`), the clients' may not touch the latch
  (`ClientsKeepPromise`); `LockMirrored` makes the mapped `locked` the port's.
  What the session's own steps and its clients' may do to the lock is one lemma
  per action in `TrackingSessionProofs` (`MoverStep`), used by both refinements.
* **Daemon** (`RigDaemonProofs`): `NoVectorUnderLock` from the latch;
  `NoStartUnderLock` needs `FollowerFed`, that a bound follower has already had
  its first fix, so its poll can only update a session.  This is the argument
  for a path that does not ask for the lock at all.  `DaemonTypeOK`, with
  `SessionInv` for the session's part.  `DaemonImplementsLock`: the side of the
  lock that is assumed (the movers) keeps LockedRig's safety as the side that
  guards it does, so the promise is met on both sides of the interface.
  `OnlyOlderJogsDisturb` is what holds of the refuted `TrackingAndJogExclude`: a
  manual vector stands only while a jog call that was accepted runs
  (`JogsAreHeld`), and none is accepted while a session is active
  (`JogBeginsAlone`); only a jog older than the session can disturb it.  What
  holds of the refuted `FollowerObeysStop` is `PollsNeverStart`: a poll that finds
  no session starts none and unbinds.
* **Firmware** (`FirmwareMotionProofs`): `OnlyFreshStopCutsGoto`, from
  `StopsAreFresh`: inside a goto's loop neither the request nor the flag it
  becomes is older than the goto.  `NeverReleasedInMotion`: of all steps only the
  idle tail lets the drivers go (`OnlyIdleReleases`), and its test of motion and
  its release are one step.  `StopNeverLostInGoto` is the converse of the first: a
  stop that waits inside a goto's loop, as request or as flag, is taken away by
  the planner's halt and by nothing else.  `OnlyDriversRestartIsr` is what holds
  of the refuted `StepIsrStoppedWhileFlashing`: while an upload runs, only a goto
  taken up and an idle rig engaged again start the interrupt; the idle pass, which
  re-asserts it, does not.  And `FwTypeOK`.
* **Camera** (`DashboardProofs`): `OneMtplvcap`, `PipelineMatchesDemand`,
  `FrameIsLive`, `WaitsForTheStopped`, together as `CamInv`.  `PhaseInv` ties the
  handle to the one live instance, and `activeProc` to the one process not gone;
  `BudgetInv` says a pipeline or a pending restart is within its budget.
* **E-STOP and agent** (`DashboardProofs`): `CalmStaysStopped`, from `CalmInv`:
  while calm, nobody may start anything either.  `DwellIsKept`, from `DwellInv`:
  the agent's clock is never further on than the target's tenure (the stamp
  follows the landing), what the agent has read as tracked still is, and the call
  it is about to make passes over no target it last saw trackable.  Pages, legs
  and kills take the target out of the agent's hands (`OthersKeepDwell`).
* **Status feed** (`DashboardProofs`): `FeedNeverGoesBack`.  What is shown, what
  is streamed, what the server holds, what the poll under way has read and the
  truth are versions in that order (`FeedInv`), and there is one poll (`OnePoll`).
  The second half is what makes the first inductive: with overlapping polls an
  older read could end last.
* **MCP client** (`DashboardProofs`): `McpTypeOK`, for any finite set of calls.
  Its point is `SlotIsFree`, a pigeonhole argument: the model's pool of client
  objects is never the reason why a call cannot reconnect.
* **Sector** (`DashboardProofs`): `RestartKeepsSector`, and `DrawnIsAdmitted`
  for a circle of any number of steps.
* **Servo** (`ServoProofs`): `NeverFarOut`, for all rates, ramps, rounding, limits
  and timing.  The two limits are one argument and its mirror image (`Held`).  It
  does not use what the guard predicts, only that nothing outward passes once a
  reading is outside (`GuardHolds`).  Up to the last reading that was inside, the
  axis is no further out than the reading's age allows.  After that the vector
  may be outward till the next tick, then the stick till the next frame, and then
  the axis is braking, on a way (`Path`) that every segment computed makes no
  longer (`PathComputed`) and every cycle turns a part of (`PathRun`).  `Held`
  says for each of the three how far out the axis may be by then, with room for
  the cycles left; the way to the stop is bounded by the top rate's (`BrakeIs`).
  Also `ServoTypeOK`.
* **Calibration** (`CalibrationProofs`): `CalibrationHolds`, from `CalInv`, which
  follows a solution to the sightings it came from: memory and file agree, and
  outside `set_home`'s window everything in the profile holds, or there is
  nothing in it.
* **Attitude** (`CalibrationProofs`): `SolvedTrue`, that a stored solution is the
  tripod's attitude and the camera's direction, and `PointsTrue`, for every set of
  level cameras of length 5 that look forward, every pan range within a turn
  either way and every set of postures (`AttitudeAssumption`).  The second rests on
  the first: a false solution would point true in some directions only.  The
  argument, which is the one behind the code:
  - a rotation by quarter turns is a right-handed triple of directions along the
    axes (`IsRot`); products, transposes and what `rotAlign` builds are such, they
    keep dot and cross products, and a transpose undoes its rotation;
  - one gravity read shows the tripod's up at whatever posture it is taken
    (`GravityShowsUp`), and an attitude that agrees on what is up differs from the
    true one by a turn about it (`SameUp`): only a heading is missing;
  - the landmarks' heights give the camera's part along two rows, and a square
    root the rest: the camera is one root, its mirror image the other (`Spanned`,
    `MirrorIs`).  The mirror image looks backward, or the two landmarks suggest
    headings for it that differ (`FalseRoot`), so that the choice (`BestIs`) or
    the refusal of disagreeing landmarks excludes it;
  - on the true root the landmarks agree on the true heading even if one of them
    is straight up or down, where `atan2(0, 0)` is 0 (`TrueRoot`);
  - TRIAD's two frames are rotations, one the other turned by the tripod's
    attitude (`TriadTurns`);
  - either root of the inverse has the height's tilt and the azimuth's pan
    (`Tilted`, `PanCongruent`), so that whichever is chosen looks there; if it is
    brought in (`ResolveIs`), its limits hold.  The lower root's tilt is always
    within limits; if its pan is as well, it is in range, and the one over the top
    never is and is not chosen (`RootIsEither`, `PointsBack`).
* **The eight together** (`AroundProofs`): a behaviour of `MCAround` is one of each
  part (`AroundIsEachPart`), hence `AroundTypesOK`, and every safety property of
  the run `around`, with `NeverFarOut` in the place of `NeverRunsAway`
  (`AroundKeepsPromises`).

Model-checked only:

* All liveness (`AcquireSettles`, `DeadmanStops`, `ParkResolves`, `BindingHeals`,
  `LostIsReleased`, `RequestsDrained`, `GotoEnds`, `StopHoldsHead`,
  `HealsAfterRestart`, `FeedConverges`) and the fair half of `KeepsPromise`, that a
  session does not last under the lock: out of the prover's reach.
* `NeverRunsAway`, the tight bound.  `NeverFarOut` is what an argument that
  ignores the guard's prediction gives; a proof of the tight one must follow what
  the prediction leaves over while the rate changes between reading and cycle.

## What is not modelled

* In the session's and the guard's modules geometry, estimation and solar
  position are verdicts in `Readings` and `Skies`.  Attitude has the pointing
  geometry for quarter turns and a level camera only (other angles are square
  roots and arcs of real numbers), Servo one axis.  The ellipsoid (`wgs84.ts`),
  least squares (`wahba.ts`), the sun's ephemeris, the estimator and the IMU's
  statistics are floating-point arithmetic.
* Telemetry and the rig's own answers to a goto are choices in the daemon's
  modules; daemon and firmware are not composed.
* The session's `catch` in `safeTick`: nothing the tick calls is known to throw.
  (The guard's is modelled, as a failed sun calculation.)
* Firmware: positions, "Track (Web)" (the same pass in a loop of its own), the
  serial console, the wiring test, the USB gamepad (compiled out); two uploads
  through different doors at once; the boot slots.
* Dashboard: tokens, routes, parsing, drawing, the calibration form; commands
  that neither start nor stop tracking or the agent; the agent's prompt.
* Enrichment and conversion of ADS-B reports, `select_program`, configuration.
* The legacy firmware (unreachable but for the main loop) and the vendored
  gamepad library.

## Plan

Done: what moves the rig first (MotionPort, TrackingSession, SunSupervisor with
LockedRig, RigDaemon, FirmwareMotion), then what surrounds the daemon's core.

1. **GotoLink**: `device.ts` goto, stop and home requests (lost, reordered, timed
   out although accepted), the telemetry that tells of arrival, and the
   firmware's single slot and fixed drain order.  Properties: a goto whose
   caller was told it failed does not fly on unstopped; an accepted goto is
   reported as what happened to it; a park's goto survives a manual one.
2. **JogChannel**: jog timer, TTL, WebSocket loss and reconnect, firmware latch
   and deadman, shown to implement MotionPort's vector: a dropped vector leads
   to rest, and a centred frame does not defeat another loop's stop.
3. **AdsbSource** (overlapping polls), the boot slots and the confirmation of an
   image, "Track (Web)".
4. Pure functions over bounded integers against reference definitions: the park
   plan's L-path and `resolvePanInRange` beyond quarter turns.
5. Proofs: what holds of the deadman that leaves the aux axis, in the firmware's
   own terms; `NeverRunsAway` for every timing.
