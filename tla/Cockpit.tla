------------------------------- MODULE Cockpit ------------------------------
(***************************************************************************)
(* Who may start tracking and who stops it: the browser pages of the       *)
(* dashboard (dashboard/public/app.js) with their E-STOP latches, the legs *)
(* of an E-STOP racing in the dashboard's server                           *)
(* (dashboard/controls.ts, server.ts), and the autonomous agent            *)
(* (src/agent), a process that reads the daemon, asks a language model and *)
(* acts on the answer.  The daemon is only the aircraft it tracks.         *)
(***************************************************************************)
EXTENDS Naturals

CONSTANTS
  Pages,     \* browser pages
  Aircraft,  \* hex codes
  None,      \* null
  Dwell      \* agentMinDwellSec, in steps of the agent's clock

ASSUME CockpitAssumption ==
  /\ None \notin Aircraft \cup Pages \cup {"stop", "agent on", "agent off", "fault"}
  /\ Aircraft \cap {"stop", "agent on", "agent off", "fault"} = {}
  /\ Dwell \in Nat

VARIABLES
  tracked,  \* what get_tracked_aircraft reports
  latched,  \* per page, estopLatched
  posted,   \* a control POST of some page on its way (one at a time), or None
  presser,  \* the page whose E-STOP the server is at, or None
  legs,     \* that E-STOP's legs, and those of an earlier one given up on
  agent,    \* the agent's process: where it is in runOnce, and what it read
  dwell,    \* the agent's clock since lastSwitchMs, up to Dwell
  tenure,   \* history: how long this agent has had the target it took, up to Dwell
  calm      \* history: at the last E-STOP nothing could start, nor can since

(* The firmware's leg ends at the rig (FirmwareMotion); here it is only    *)
(* one more outcome in the answer.                                         *)
Legs == {"tracking", "agent"}
Commands == Aircraft \cup {"stop", "agent on", "agent off"}
Starters == Aircraft \cup {"agent on"}

pageVars == <<latched, posted>>
estopVars == <<presser, legs>>
agentVars == <<agent, dwell, tenure>>
cockpitVars == <<tracked, pageVars, estopVars, agentVars, calm>>

Off == [pc |-> "off", trackable |-> {}, seen |-> None, act |-> None]
Idle == [Off EXCEPT !.pc = "idle"]

(* "orphaned": killed with a call on its way.  tenure is Dwell as well     *)
(* when what is tracked is not this agent's doing (another's command,      *)
(* nothing) or not to its knowledge (the answer to its call was lost).     *)
CockpitTypeOK ==
  /\ tracked \in Aircraft \cup {None}
  /\ latched \in [Pages -> BOOLEAN]
  /\ posted \in Commands \cup {None}
  /\ presser \in Pages \cup {None}
  /\ legs \in [Legs -> {"idle", "sent", "ok", "fail", "late"}]
  /\ agent \in [pc : {"off", "idle", "asking", "calling", "waiting", "orphaned"},
                trackable : SUBSET Aircraft, seen : Aircraft \cup {None},
                act : Aircraft \cup {"stop", None}]
  /\ dwell \in 0 .. Dwell
  /\ tenure \in 0 .. Dwell
  /\ calm \in BOOLEAN

CockpitInit ==
  /\ tracked = None
  /\ latched = [p \in Pages |-> FALSE]
  /\ posted = None
  /\ presser = None
  /\ legs = [l \in Legs |-> "idle"]
  /\ agent \in {Off, Idle}
  /\ dwell = Dwell
  /\ tenure = Dwell
  /\ calm = FALSE
-----------------------------------------------------------------------------
(* What the calls do where they land.                                      *)

(* systemctl stop: the process is gone, a call it had made is not.         *)
AgentKilled ==
  /\ agent' = CASE agent.pc = "calling"  -> [Idle EXCEPT !.pc = "orphaned", !.act = agent.act]
                [] agent.pc = "orphaned" -> agent
                [] OTHER                 -> Off
  /\ tenure' = Dwell

(* systemctl start, once a call of the process before it has settled.      *)
AgentStarted ==
  /\ agent.pc # "orphaned"
  /\ agent' = IF agent.pc = "off" THEN Idle ELSE agent
  /\ dwell' = IF agent.pc = "off" THEN Dwell ELSE dwell

(* track_aircraft and stop_tracking, called by any but the agent.          *)
Aim(h) == tracked' = h /\ tenure' = Dwell
Target(act) == IF act = "stop" THEN None ELSE act

CommandTakesEffect(c) ==
  CASE c \in Aircraft \cup {"stop"} -> Aim(Target(c)) /\ UNCHANGED <<agent, dwell>>
    [] c = "agent on"  -> AgentStarted /\ UNCHANGED <<tracked, tenure>>
    [] c = "agent off" -> AgentKilled /\ UNCHANGED <<tracked, dwell>>
-----------------------------------------------------------------------------
(* The pages.  Track buttons, radar dots, Stop tracking and the Auto       *)
(* toggle are dead while their page is latched (the radar dots by a test   *)
(* of their own).                                                          *)
PostCommand(p, c) ==
  /\ ~ latched[p]
  /\ posted = None
  /\ posted' = c
  /\ calm' = (calm /\ c \notin Starters)
  /\ UNCHANGED <<tracked, latched, estopVars, agentVars>>

CommandLands ==
  /\ posted # None
  /\ CommandTakesEffect(posted)
  /\ posted' = None
  /\ UNCHANGED <<latched, estopVars, calm>>

(* The daemon or systemctl refuses it, or it is lost on the way.           *)
CommandFails ==
  /\ posted # None
  /\ posted' = None
  /\ UNCHANGED <<tracked, latched, estopVars, agentVars, calm>>

(* A leg of an earlier E-STOP still on its way gives place to this one's.  *)
PressEstop(p) ==
  /\ presser = None
  /\ presser' = p
  /\ latched' = [latched EXCEPT ![p] = TRUE]
  /\ legs' = [l \in Legs |-> "sent"]
  /\ UNCHANGED <<tracked, posted, agentVars, calm>>

(* The request does not reach the dashboard's server: the page stays       *)
(* latched.                                                                *)
EstopLost ==
  /\ presser # None
  /\ legs = [l \in Legs |-> "sent"]
  /\ legs' = [l \in Legs |-> "idle"]
  /\ presser' = None
  /\ UNCHANGED <<tracked, pageVars, agentVars, calm>>

ClearEstopLatch(p) ==
  /\ latched[p]
  /\ latched' = [latched EXCEPT ![p] = FALSE]
  /\ UNCHANGED <<tracked, posted, estopVars, agentVars, calm>>
-----------------------------------------------------------------------------
(* The legs of the E-STOP, in parallel.                                    *)
NobodyMayStart ==
  /\ agent.pc = "off" \/ (agent.pc = "orphaned" /\ agent.act = "stop")
  /\ posted \notin Starters

(* Mutant: the E-STOP kills the agent and leaves the daemon tracking.      *)
LegKillsAgentOnly(l) ==
  IF l = "tracking"
    THEN calm' = NobodyMayStart /\ UNCHANGED <<tracked, agentVars>>
    ELSE AgentKilled /\ UNCHANGED <<tracked, dwell, calm>>

LegTakesEffect(l) ==
  IF l = "tracking"
    THEN Aim(None) /\ calm' = NobodyMayStart /\ UNCHANGED <<agent, dwell>>
    ELSE AgentKilled /\ UNCHANGED <<tracked, dwell, calm>>

LegLands(l) ==
  /\ legs[l] = "sent"
  /\ LegTakesEffect(l)
  /\ legs' = [legs EXCEPT ![l] = "ok"]
  /\ UNCHANGED <<pageVars, presser>>

(* Refused or unreachable: the others go on.                               *)
LegFails(l) ==
  /\ legs[l] = "sent"
  /\ legs' = [legs EXCEPT ![l] = "fail"]
  /\ UNCHANGED <<tracked, pageVars, presser, agentVars, calm>>

(* withTimeout gives up waiting, it cancels nothing.                       *)
LegTimesOut(l) ==
  /\ legs[l] = "sent"
  /\ legs' = [legs EXCEPT ![l] = "late"]
  /\ UNCHANGED <<tracked, pageVars, presser, agentVars, calm>>

LateLegLands(l) ==
  /\ legs[l] = "late"
  /\ LegTakesEffect(l)
  /\ legs' = [legs EXCEPT ![l] = IF presser = None THEN "idle" ELSE "fail"]
  /\ UNCHANGED <<pageVars, presser>>

AllOk == \A l \in Legs : legs[l] = "ok"

(* Promise.all: every leg has settled one way or the other.                *)
EstopAnswered ==
  /\ presser # None
  /\ \A l \in Legs : legs[l] # "sent"
  /\ presser' = None
  /\ legs' = [l \in Legs |-> IF legs[l] = "late" THEN "late" ELSE "idle"]
  /\ UNCHANGED <<tracked, pageVars, agentVars, calm>>
-----------------------------------------------------------------------------
(* The agent's tick; ticks never overlap.                                  *)
AgentReads ==
  /\ agent.pc = "idle"
  /\ \E s \in SUBSET Aircraft :
       agent' = [agent EXCEPT !.pc = "asking", !.trackable = s, !.seen = tracked]
  /\ UNCHANGED <<tracked, pageVars, estopVars, dwell, tenure, calm>>

Healthy == agent.seen \in agent.trackable

(* The model's answer d made safe: what to call, None to keep.  "fault" is *)
(* a call to the model that failed.                                        *)
Decide(d) ==
  CASE d = "stop"     -> IF agent.seen = None THEN None ELSE "stop"
    [] d = "fault"    -> IF agent.seen = None \/ Healthy THEN None ELSE "stop"
    [] d = None       -> None
    [] d \in Aircraft ->
         IF d \in agent.trackable \ {agent.seen} /\ ~ (Healthy /\ dwell < Dwell)
           THEN d
           ELSE None

AgentDecides ==
  /\ agent.pc = "asking"
  /\ \E d \in Aircraft \cup {"stop", "fault", None} :
       agent' = IF Decide(d) = None
                  THEN Idle
                  ELSE [agent EXCEPT !.pc = "calling", !.seen = None, !.act = Decide(d)]
  /\ UNCHANGED <<tracked, pageVars, estopVars, dwell, tenure, calm>>

(* The call of a killed agent lands like any other; nobody waits for it.   *)
AgentCallLands ==
  /\ agent.pc \in {"calling", "orphaned"}
  /\ tracked' = Target(agent.act)
  /\ tenure' = IF agent.pc = "calling" /\ agent.act \in Aircraft THEN 0 ELSE Dwell
  /\ agent' = IF agent.pc = "calling"
                THEN [Idle EXCEPT !.pc = "waiting", !.act = agent.act]
                ELSE Off
  /\ UNCHANGED <<pageVars, estopVars, dwell, calm>>

(* Mutant: the switch is not stamped.                                      *)
AgentAnsweredUnstamped ==
  /\ agent.pc = "waiting"
  /\ agent' = Idle
  /\ UNCHANGED <<tracked, pageVars, estopVars, dwell, tenure, calm>>

(* The switch is stamped when its call is answered.                        *)
AgentAnswered ==
  /\ agent.pc = "waiting"
  /\ dwell' = IF agent.act = "stop" THEN dwell ELSE 0
  /\ agent' = Idle
  /\ UNCHANGED <<tracked, pageVars, estopVars, tenure, calm>>

(* Refused before it landed, or its answer lost after: nothing is stamped. *)
AgentCallFails ==
  /\ agent.pc \in {"calling", "waiting", "orphaned"}
  /\ agent' = IF agent.pc = "orphaned" THEN Off ELSE Idle
  /\ tenure' = IF agent.pc = "waiting" THEN Dwell ELSE tenure
  /\ UNCHANGED <<tracked, pageVars, estopVars, dwell, calm>>

Later(t) == IF t < Dwell THEN t + 1 ELSE t

DwellPasses ==
  /\ agent.pc \notin {"off", "orphaned"}
  /\ dwell < Dwell \/ tenure < Dwell
  /\ dwell' = Later(dwell)
  /\ tenure' = Later(tenure)
  /\ UNCHANGED <<tracked, pageVars, estopVars, agent, calm>>

(* The tracking session stops itself (its deadman, a fault, the sun).      *)
DaemonStops ==
  /\ tracked # None
  /\ Aim(None)
  /\ UNCHANGED <<pageVars, estopVars, agent, dwell, calm>>

CockpitNext ==
  \/ \E p \in Pages :
       \/ \E c \in Commands : PostCommand(p, c)
       \/ PressEstop(p)
       \/ ClearEstopLatch(p)
  \/ CommandLands
  \/ CommandFails
  \/ EstopLost
  \/ EstopAnswered
  \/ \E l \in Legs : LegLands(l) \/ LegFails(l) \/ LegTimesOut(l) \/ LateLegLands(l)
  \/ AgentReads
  \/ AgentDecides
  \/ AgentCallLands
  \/ AgentAnswered
  \/ AgentCallFails
  \/ DwellPasses
  \/ DaemonStops

CockpitSpec == CockpitInit /\ [][CockpitNext]_cockpitVars
-----------------------------------------------------------------------------
(* What an E-STOP does guarantee: when its tracking leg lands and nothing  *)
(* can start tracking (no agent, no call of one, no command under way),    *)
(* nothing is tracked until somebody asks again (controls.ts:31-38).       *)
CalmStaysStopped == calm => tracked = None

(* agent/loop.ts:36-45: an aircraft the agent has taken, and last saw      *)
(* trackable, is not replaced by a later call of its own until Dwell has   *)
(* passed since it was taken: since the call that took it landed, however  *)
(* late that call was answered and stamped, and however long the model     *)
(* then thought and the next call travelled.  (What another caller has set *)
(* is not the agent's, nor is what it took with a call whose answer was    *)
(* lost: that switch is not stamped.)                                      *)
DwellIsKept ==
  [][agent.pc = "calling" /\ agent'.pc = "waiting"
       /\ tracked' \in Aircraft \ {tracked} /\ tenure < Dwell
     => tracked \notin agent.trackable]_cockpitVars

(* docs/superpowers/specs/2026-07-19-ops-dashboard-design.md:70-71,115:    *)
(* the E-STOP ends the session "so it won't re-command", kills the         *)
(* decider, "also ends tracking and the agent".  Once both legs have       *)
(* reported success, nothing is tracked.  Refuted: the legs race, and an   *)
(* agent still alive tracks again before its own leg lands.                *)
EstopEndsTracking == presser # None /\ AllOk => tracked = None
=============================================================================
