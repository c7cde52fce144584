--------------------------- MODULE DashboardProofs --------------------------
(***************************************************************************)
(* The dashboard, for any number of pages, aircraft, polls and sources.    *)
(*                                                                         *)
(* Cockpit.  That nothing is tracked while calm is not inductive: the calm *)
(* must also last, which it does because an agent that is off starts no    *)
(* call, a killed one has at most a stop on its way, and a page's command  *)
(* that could start anything ends the calm when it is posted.              *)
(*                                                                         *)
(* SectorWidget.  The sector survives the daemon's crashes, and the wedge  *)
(* a page draws is the arc the daemon admits.  The first is inductive once *)
(* the types are known, since no sector a page can ask for is one the      *)
(* store would take for a torn file.                                       *)
(*                                                                         *)
(* StatusFeed.  What a page shows never goes back, because what it shows,  *)
(* what is streamed to it, the server's snapshot, the reads of the one     *)
(* poll under way and the truth are in that order older to newer.          *)
(*                                                                         *)
(* McpSession.  A call that replaces the client object always finds a free *)
(* one, because it holds none itself.                                      *)
(*                                                                         *)
(* CameraStreamer.  The camera's four promises, for any number of viewers  *)
(* and spawner instances and any budget of restarts, are not inductive.    *)
(* PhaseInv ties the streamer's handle to the one live spawner instance    *)
(* and activeProc to the one process that is not gone; BudgetInv says that *)
(* a pipeline only runs within its budget.                                 *)
(***************************************************************************)
EXTENDS Cockpit, SectorWidget, StatusFeed, McpSession, CameraStreamer,
        FiniteSetTheorems, TLAPS

CalmInv == calm => tracked = None /\ NobodyMayStart
-----------------------------------------------------------------------------
(* Killing the agent leaves no more of it than a call already made         *)
(* (dashboard/services.ts:27).                                             *)
LEMMA KilledStaysQuiet ==
  ASSUME NobodyMayStart, AgentKilled, posted' \notin Starters
  PROVE  NobodyMayStart'
<1>1. CASE agent.pc = "off"
  <2>1. agent' = Off
    BY <1>1 DEF AgentKilled
  <2> QED
    BY <2>1 DEF NobodyMayStart, Off, Starters
<1>2. CASE agent.pc = "orphaned" /\ agent.act = "stop"
  <2>1. agent' = agent
    BY <1>2 DEF AgentKilled
  <2> QED
    BY <1>2, <2>1 DEF NobodyMayStart, Starters
<1> QED
  BY <1>1, <1>2 DEF NobodyMayStart

(* A leg that lands, in time or late, begins a calm or keeps it            *)
(* (dashboard/controls.ts:26-38).                                          *)
LEMMA LegKeepsCalm ==
  ASSUME CalmInv, NEW l \in Legs, LegTakesEffect(l), posted' = posted
  PROVE  CalmInv'
<1>1. CASE l = "tracking"
  <2>1. tracked' = None /\ calm' = NobodyMayStart /\ agent' = agent
    BY <1>1 DEF LegTakesEffect, Aim
  <2> QED
    BY <2>1 DEF CalmInv, NobodyMayStart, Starters
<1>2. CASE l # "tracking"
  <2>1. AgentKilled /\ tracked' = tracked /\ calm' = calm
    BY <1>2 DEF LegTakesEffect
  <2>2. NobodyMayStart => posted' \notin Starters
    BY DEF NobodyMayStart
  <2> QED
    BY <2>1, <2>2, KilledStaysQuiet DEF CalmInv
<1> QED
  BY <1>1, <1>2

(* A command of a page on its way when the E-STOP landed may stop things,  *)
(* and starts none (dashboard/controls.ts:43-77).                          *)
LEMMA CommandKeepsCalm ==
  ASSUME CalmInv, posted # None, posted \in Commands, CommandTakesEffect(posted),
         posted' = None, calm' = calm
  PROVE  CalmInv'
<1> USE CockpitAssumption
<1> SUFFICES ASSUME calm PROVE tracked' = None /\ NobodyMayStart'
  BY DEF CalmInv
<1>1. tracked = None /\ NobodyMayStart /\ posted \notin Starters
  BY DEF CalmInv, NobodyMayStart
<1>2. posted' \notin Starters
  BY DEF Starters
<1>3. CASE posted = "stop"
  <2>1. tracked' = None /\ agent' = agent
    BY <1>3 DEF CommandTakesEffect, Aim, Target
  <2> QED
    BY <1>1, <1>2, <2>1 DEF NobodyMayStart, Starters
<1>4. CASE posted = "agent off"
  <2>1. AgentKilled /\ tracked' = tracked
    BY <1>4 DEF CommandTakesEffect
  <2> QED
    BY <1>1, <1>2, <2>1, KilledStaysQuiet
<1> QED
  BY <1>1, <1>3, <1>4 DEF Commands, Starters

(* Nothing else that can happen during a calm tracks anything.             *)
LEMMA CalmStep ==
  ASSUME CockpitTypeOK, CalmInv, [CockpitNext]_cockpitVars
  PROVE  CalmInv'
<1> USE CockpitAssumption
<1>1. ASSUME NEW p \in Pages, NEW c \in Commands, PostCommand(p, c) PROVE CalmInv'
  BY <1>1 DEF PostCommand, CalmInv, NobodyMayStart, Starters, agentVars
<1>2. CASE CommandLands
  BY <1>2, CommandKeepsCalm DEF CommandLands, CockpitTypeOK
<1>3. CASE CommandFails
  BY <1>3 DEF CommandFails, CalmInv, NobodyMayStart, Starters, agentVars
<1>4. ASSUME NEW p \in Pages, PressEstop(p) \/ ClearEstopLatch(p) PROVE CalmInv'
  BY <1>4 DEF PressEstop, ClearEstopLatch, CalmInv, NobodyMayStart, Starters, agentVars
<1>5. CASE EstopLost \/ EstopAnswered
  BY <1>5 DEF EstopLost, EstopAnswered, CalmInv, NobodyMayStart, Starters, agentVars, pageVars
<1>6. ASSUME NEW l \in Legs, LegLands(l) \/ LateLegLands(l) PROVE CalmInv'
  BY <1>6, LegKeepsCalm DEF LegLands, LateLegLands, pageVars
<1>7. ASSUME NEW l \in Legs, LegFails(l) \/ LegTimesOut(l) PROVE CalmInv'
  BY <1>7 DEF LegFails, LegTimesOut, CalmInv, NobodyMayStart, Starters, agentVars, pageVars
<1>8. CASE AgentReads \/ AgentDecides \/ AgentAnswered \/ DwellPasses
  BY <1>8 DEF AgentReads, AgentDecides, AgentAnswered, DwellPasses, CalmInv, NobodyMayStart
<1>9. CASE AgentCallLands
  <2> SUFFICES ASSUME calm PROVE CalmInv'
    BY <1>9 DEF AgentCallLands, CalmInv
  <2>1. agent.pc = "orphaned" /\ agent.act = "stop" /\ posted \notin Starters
    BY <1>9 DEF AgentCallLands, CalmInv, NobodyMayStart
  <2>2. tracked' = None /\ agent' = Off /\ posted' = posted
    BY <1>9, <2>1 DEF AgentCallLands, Target, pageVars
  <2> QED
    BY <2>1, <2>2 DEF CalmInv, NobodyMayStart, Off, Starters
<1>10. CASE AgentCallFails
  <2> SUFFICES ASSUME calm PROVE CalmInv'
    BY <1>10 DEF AgentCallFails, CalmInv
  <2>1. agent.pc = "orphaned" /\ posted \notin Starters /\ tracked = None
    BY <1>10 DEF AgentCallFails, CalmInv, NobodyMayStart
  <2>2. tracked' = tracked /\ agent' = Off /\ posted' = posted
    BY <1>10, <2>1 DEF AgentCallFails, pageVars
  <2> QED
    BY <2>1, <2>2 DEF CalmInv, NobodyMayStart, Off, Starters
<1>11. CASE DaemonStops
  BY <1>11 DEF DaemonStops, Aim, CalmInv, NobodyMayStart, Starters, pageVars
<1>12. CASE UNCHANGED cockpitVars
  BY <1>12 DEF cockpitVars, CalmInv, NobodyMayStart, Starters, agentVars, pageVars
<1> QED
  BY <1>1, <1>2, <1>3, <1>4, <1>5, <1>6, <1>7, <1>8, <1>9, <1>10, <1>11, <1>12 DEF CockpitNext
-----------------------------------------------------------------------------
AgentStates ==
  [pc : {"off", "idle", "asking", "calling", "waiting", "orphaned"},
   trackable : SUBSET Aircraft, seen : Aircraft \cup {None},
   act : Aircraft \cup {"stop", None}]

(* The dwell is a number of steps.                                         *)
LEMMA DwellIsNat == Dwell \in Nat
BY CockpitAssumption, Zenon DEF CockpitAssumption

(* What a call does keeps the types of what it touches.                    *)
LEMMA EffectTyped ==
  ASSUME CockpitTypeOK
  PROVE  /\ Off \in AgentStates /\ Idle \in AgentStates /\ agent \in AgentStates
         /\ AgentKilled => agent' \in AgentStates
         /\ \A c \in Commands : CommandTakesEffect(c) =>
              /\ tracked' \in Aircraft \cup {None} /\ agent' \in AgentStates
              /\ dwell' \in 0 .. Dwell /\ tenure' \in 0 .. Dwell
         /\ \A l \in Legs : LegTakesEffect(l) =>
              /\ tracked' \in Aircraft \cup {None} /\ agent' \in AgentStates
              /\ dwell' \in 0 .. Dwell /\ tenure' \in 0 .. Dwell /\ calm' \in BOOLEAN
<1>1. Off \in AgentStates /\ agent \in AgentStates
  BY DEF Off, AgentStates, CockpitTypeOK
<1>2. Idle \in AgentStates
  BY <1>1 DEF Idle, AgentStates
<1>3. ASSUME AgentKilled PROVE agent' \in AgentStates
  <2>1. [Idle EXCEPT !.pc = "orphaned", !.act = agent.act] \in AgentStates
    BY <1>1, <1>2 DEF AgentStates
  <2>2. agent' \in {[Idle EXCEPT !.pc = "orphaned", !.act = agent.act], agent, Off}
    BY <1>3 DEF AgentKilled
  <2> QED
    BY <1>1, <2>1, <2>2
<1>4. ASSUME NEW c \in Commands, CommandTakesEffect(c)
      PROVE  /\ tracked' \in Aircraft \cup {None} /\ agent' \in AgentStates
             /\ dwell' \in 0 .. Dwell /\ tenure' \in 0 .. Dwell
  <2>0. Dwell \in 0 .. Dwell
    BY DwellIsNat
  <2>1. CASE c \in Aircraft \cup {"stop"}
    <3>1. Aim(Target(c)) /\ UNCHANGED <<agent, dwell>>
      BY <1>4, <2>1, CockpitAssumption DEF CommandTakesEffect
    <3> QED
      BY <1>1, DwellIsNat, <2>1, <3>1 DEF Aim, Target, CockpitTypeOK
  <2>2. CASE c = "agent on"
    <3>1. AgentStarted /\ UNCHANGED <<tracked, tenure>>
      BY <1>4, <2>2, CockpitAssumption DEF CommandTakesEffect
    <3> QED
      BY <1>1, <1>2, <2>0, <3>1 DEF AgentStarted, CockpitTypeOK
  <2>3. CASE c = "agent off"
    <3>1. AgentKilled /\ UNCHANGED <<tracked, dwell>>
      BY <1>4, <2>3, CockpitAssumption DEF CommandTakesEffect
    <3> QED
      BY <1>3, <3>1, DwellIsNat DEF AgentKilled, CockpitTypeOK
  <2> QED
    BY <2>1, <2>2, <2>3 DEF Commands
<1>5. ASSUME NEW l \in Legs, LegTakesEffect(l)
      PROVE  /\ tracked' \in Aircraft \cup {None} /\ agent' \in AgentStates
             /\ dwell' \in 0 .. Dwell /\ tenure' \in 0 .. Dwell /\ calm' \in BOOLEAN
  <2>1. CASE l = "tracking"
    <3>1. Aim(None) /\ calm' = NobodyMayStart /\ UNCHANGED <<agent, dwell>>
      BY <1>5, <2>1 DEF LegTakesEffect
    <3> QED
      BY <1>1, DwellIsNat, <3>1 DEF Aim, CockpitTypeOK, NobodyMayStart
  <2>2. CASE l # "tracking"
    BY <1>3, <1>5, <2>2, DwellIsNat DEF LegTakesEffect, AgentKilled, CockpitTypeOK
  <2> QED
    BY <2>1, <2>2
<1> QED
  BY <1>1, <1>2, <1>3, <1>4, <1>5

(* An answer made safe is an aircraft, a stop or nothing                   *)
(* (agent/decide.ts:20-41).                                                *)
LEMMA DecideTyped ==
  ASSUME NEW d \in Aircraft \cup {"stop", "fault", None}
  PROVE  Decide(d) \in Aircraft \cup {"stop", None}
<1> USE CockpitAssumption
<1>1. CASE d \in {"stop", "fault", None}
  BY <1>1 DEF Decide
<1>2. CASE d \in Aircraft
  BY <1>2 DEF Decide
<1> QED
  BY <1>1, <1>2

(* The pages', the E-STOP's and the agent's variables always have their    *)
(* types.                                                                  *)
LEMMA CockpitTypeStep ==
  ASSUME CockpitTypeOK, [CockpitNext]_cockpitVars
  PROVE  CockpitTypeOK'
<1>0. /\ \A v : v \in AgentStates <=>
           v \in [pc : {"off", "idle", "asking", "calling", "waiting", "orphaned"},
                  trackable : SUBSET Aircraft, seen : Aircraft \cup {None},
                  act : Aircraft \cup {"stop", None}]
      /\ agent \in AgentStates /\ Idle \in AgentStates /\ Off \in AgentStates
  BY EffectTyped DEF AgentStates
<1>1. ASSUME NEW p \in Pages, NEW c \in Commands, PostCommand(p, c) PROVE CockpitTypeOK'
  <2>1. calm' \in BOOLEAN
    BY <1>1 DEF PostCommand
  <2> QED
    BY <1>1, <2>1 DEF PostCommand, CockpitTypeOK, estopVars, agentVars
<1>2. CASE CommandLands
  <2>1. posted \in Commands
    BY <1>2 DEF CommandLands, CockpitTypeOK
  <2>2. /\ tracked' \in Aircraft \cup {None} /\ agent' \in AgentStates
        /\ dwell' \in 0 .. Dwell /\ tenure' \in 0 .. Dwell
    BY <1>2, <2>1, EffectTyped DEF CommandLands
  <2> QED
    BY <1>0, <1>2, <2>2 DEF CommandLands, CockpitTypeOK, estopVars
<1>3. CASE CommandFails \/ EstopLost \/ EstopAnswered
  BY <1>3 DEF CommandFails, EstopLost, EstopAnswered, CockpitTypeOK, estopVars, agentVars, pageVars
<1>4. ASSUME NEW p \in Pages, PressEstop(p) \/ ClearEstopLatch(p) PROVE CockpitTypeOK'
  BY <1>4 DEF PressEstop, ClearEstopLatch, CockpitTypeOK, estopVars, agentVars
<1>5. ASSUME NEW l \in Legs, LegLands(l) \/ LateLegLands(l) PROVE CockpitTypeOK'
  <2>1. /\ tracked' \in Aircraft \cup {None} /\ agent' \in AgentStates
        /\ dwell' \in 0 .. Dwell /\ tenure' \in 0 .. Dwell /\ calm' \in BOOLEAN
    BY <1>5, EffectTyped DEF LegLands, LateLegLands
  <2>2. /\ legs' \in [Legs -> {"idle", "sent", "ok", "fail", "late"}]
        /\ UNCHANGED <<latched, posted, presser>>
    BY <1>5 DEF LegLands, LateLegLands, CockpitTypeOK, pageVars
  <2> QED
    BY <1>0, <2>1, <2>2 DEF CockpitTypeOK
<1>6. ASSUME NEW l \in Legs, LegFails(l) \/ LegTimesOut(l) PROVE CockpitTypeOK'
  BY <1>6 DEF LegFails, LegTimesOut, CockpitTypeOK, agentVars, pageVars
<1>7. CASE AgentReads
  <2>1. PICK s \in SUBSET Aircraft :
          agent' = [agent EXCEPT !.pc = "asking", !.trackable = s, !.seen = tracked]
    BY <1>7 DEF AgentReads
  <2>2. agent' \in AgentStates
    BY <1>0, <2>1 DEF AgentStates, CockpitTypeOK
  <2> QED
    BY <1>0, <1>7, <2>2 DEF AgentReads, CockpitTypeOK, pageVars, estopVars
<1>8. CASE AgentDecides
  <2>1. PICK d \in Aircraft \cup {"stop", "fault", None} :
          agent' = IF Decide(d) = None
                     THEN Idle
                     ELSE [agent EXCEPT !.pc = "calling", !.seen = None, !.act = Decide(d)]
    BY <1>8 DEF AgentDecides
  <2>2. [agent EXCEPT !.pc = "calling", !.seen = None, !.act = Decide(d)] \in AgentStates
    BY <1>0, DecideTyped DEF AgentStates
  <2>3. agent' \in AgentStates
    BY <1>0, <2>1, <2>2
  <2> QED
    BY <1>0, <1>8, <2>3 DEF AgentDecides, CockpitTypeOK, pageVars, estopVars
<1>9. CASE AgentCallLands
  <2>1. agent' \in AgentStates
    <3>1. [Idle EXCEPT !.pc = "waiting", !.act = agent.act] \in AgentStates
      BY <1>0 DEF AgentStates
    <3> QED
      BY <1>0, <1>9, <3>1 DEF AgentCallLands
  <2>2. tracked' \in Aircraft \cup {None} /\ tenure' \in 0 .. Dwell
    <3>1. agent.act \in Aircraft \cup {"stop", None}
      BY <1>0 DEF AgentStates
    <3> QED
      BY <1>9, <3>1, DwellIsNat DEF AgentCallLands, Target
  <2> QED
    BY <1>0, <1>9, <2>1, <2>2 DEF AgentCallLands, CockpitTypeOK, pageVars, estopVars
<1>10. CASE AgentAnswered
  <2>1. dwell' \in 0 .. Dwell
    BY <1>10, DwellIsNat DEF AgentAnswered, CockpitTypeOK
  <2>2. tenure' \in 0 .. Dwell
    BY <1>10 DEF AgentAnswered, CockpitTypeOK
  <2> QED
    BY <1>0, <1>10, <2>1, <2>2 DEF AgentAnswered, CockpitTypeOK, pageVars, estopVars
<1>11. CASE AgentCallFails
  BY <1>0, <1>11, DwellIsNat DEF AgentCallFails, CockpitTypeOK, pageVars, estopVars
<1>12. CASE DwellPasses
  <2>1. dwell' \in 0 .. Dwell /\ tenure' \in 0 .. Dwell
    BY <1>12, DwellIsNat DEF DwellPasses, Later, CockpitTypeOK
  <2> QED
    BY <1>12, <2>1 DEF DwellPasses, CockpitTypeOK, pageVars, estopVars
<1>13. CASE DaemonStops
  BY <1>13, DwellIsNat DEF DaemonStops, Aim, CockpitTypeOK, pageVars, estopVars
<1>14. CASE UNCHANGED cockpitVars
  BY <1>14 DEF cockpitVars, CockpitTypeOK, pageVars, estopVars, agentVars
<1> QED
  BY <1>1, <1>2, <1>3, <1>4, <1>5, <1>6, <1>7, <1>8, <1>9, <1>10, <1>11, <1>12, <1>13, <1>14
     DEF CockpitNext
-----------------------------------------------------------------------------
(* The pages', the E-STOP's and the agent's variables always have their    *)
(* types.                                                                  *)
THEOREM CockpitTypeCorrect == CockpitSpec => []CockpitTypeOK
<1>1. CockpitInit => CockpitTypeOK
  <2> SUFFICES ASSUME CockpitInit PROVE CockpitTypeOK
    OBVIOUS
  <2>1. dwell \in 0 .. Dwell /\ tenure \in 0 .. Dwell
    BY DwellIsNat DEF CockpitInit
  <2>2. Off \in AgentStates
    BY DEF Off, AgentStates
  <2>3. Idle \in AgentStates
    BY <2>2 DEF Idle, AgentStates
  <2>4. agent \in AgentStates
    BY <2>2, <2>3 DEF CockpitInit
  <2> QED
    BY <2>1, <2>4 DEF CockpitInit, CockpitTypeOK, AgentStates
<1>2. CockpitTypeOK /\ [CockpitNext]_cockpitVars => CockpitTypeOK'
  BY CockpitTypeStep
<1> QED
  BY <1>1, <1>2, PTL DEF CockpitSpec

(* An E-STOP whose tracking leg lands when nothing can start tracking ends *)
(* it until somebody asks again (dashboard/controls.ts:31-38).             *)
THEOREM CalmAlwaysStaysStopped == CockpitSpec => []CalmStaysStopped
<1>1. CockpitInit => CalmInv
  BY DEF CockpitInit, CalmInv
<1>2. CockpitTypeOK /\ CalmInv /\ [CockpitNext]_cockpitVars => CalmInv'
  BY CalmStep
<1>3. CalmInv => CalmStaysStopped
  BY DEF CalmInv, CalmStaysStopped
<1> QED
  BY <1>1, <1>2, <1>3, CockpitTypeCorrect, PTL DEF CockpitSpec

(* What the agent has taken and not yet had for its dwell: it is alive,    *)
(* its own clock is no further on than that target's (while a call of its  *)
(* waits for the answer, that clock is about to be set back), what it read *)
(* is still tracked, and the call it then makes passes over nothing that   *)
(* it last saw trackable.                                                  *)
DwellInv ==
  tenure < Dwell =>
    /\ agent.pc \notin {"off", "orphaned"}
    /\ IF agent.pc = "waiting" THEN agent.act # "stop" ELSE dwell <= tenure
    /\ agent.pc = "asking" => agent.seen = tracked
    /\ agent.pc = "calling" /\ agent.act \in Aircraft => tracked \notin agent.trackable

(* A command or a leg of an E-STOP ends the agent's claim or leaves it and *)
(* its target alone (dashboard/controls.ts:26-77).                         *)
LEMMA OthersKeepDwell ==
  ASSUME CockpitTypeOK, DwellInv,
         \/ \E c \in Commands : CommandTakesEffect(c)
         \/ \E l \in Legs : LegTakesEffect(l)
  PROVE  /\ tenure' = Dwell \/ UNCHANGED <<tracked, agent, dwell, tenure>>
         /\ agent'.pc = "waiting" => agent.pc = "waiting"
<1>1. ASSUME NEW h, Aim(h), agent' = agent PROVE tenure' = Dwell
  BY <1>1 DEF Aim
<1>2. ASSUME AgentKilled
      PROVE  tenure' = Dwell /\ (agent'.pc = "waiting" => agent.pc = "waiting")
  <2>1. agent' \in {[Idle EXCEPT !.pc = "orphaned", !.act = agent.act], agent, Off}
    BY <1>2 DEF AgentKilled
  <2> QED
    BY <1>2, <2>1 DEF AgentKilled, Idle, Off
<1>3. ASSUME AgentStarted, UNCHANGED <<tracked, tenure>>
      PROVE  /\ tenure' = Dwell \/ UNCHANGED <<tracked, agent, dwell, tenure>>
             /\ agent'.pc = "waiting" => agent.pc = "waiting"
  <2>1. CASE agent.pc = "off"
    <3>1. tenure = Dwell
      BY <2>1, DwellIsNat DEF DwellInv, CockpitTypeOK
    <3> QED
      BY <1>3, <2>1, <3>1 DEF AgentStarted, Idle, Off
  <2>2. CASE agent.pc # "off"
    BY <1>3, <2>2 DEF AgentStarted
  <2> QED
    BY <2>1, <2>2
<1>4. ASSUME NEW c \in Commands, CommandTakesEffect(c)
      PROVE  \/ Aim(Target(c)) /\ agent' = agent
             \/ AgentStarted /\ UNCHANGED <<tracked, tenure>>
             \/ AgentKilled
  BY <1>4, CockpitAssumption DEF CommandTakesEffect, Commands
<1>5. ASSUME NEW l \in Legs, LegTakesEffect(l)
      PROVE  (Aim(None) /\ agent' = agent) \/ AgentKilled
  BY <1>5 DEF LegTakesEffect
<1> QED
  BY <1>1, <1>2, <1>3, <1>4, <1>5

(* An aircraft is only called for when what was read is no healthy target  *)
(* short of its dwell (agent/decide.ts:29-32).                             *)
LEMMA DecisionKeepsDwell ==
  ASSUME CockpitTypeOK, NEW d \in Aircraft \cup {"stop", "fault", None},
         Decide(d) \in Aircraft, dwell < Dwell
  PROVE  agent.seen \notin agent.trackable
<1>1. CASE d \in {"stop", "fault", None}
  BY <1>1, CockpitAssumption DEF Decide
<1>2. CASE d \in Aircraft
  BY <1>2, CockpitAssumption DEF Decide, Healthy
<1> QED
  BY <1>1, <1>2

(* The agent's clock never runs ahead of its target's                      *)
(* (agent/loop.ts:36-48).                                                  *)
LEMMA DwellStep ==
  ASSUME CockpitTypeOK, DwellInv, [CockpitNext]_cockpitVars
  PROVE  DwellInv'
<1> USE DwellIsNat
<1>0. tenure \in 0 .. Dwell /\ dwell \in 0 .. Dwell /\ agent \in AgentStates
  BY EffectTyped DEF CockpitTypeOK
<1>1. ASSUME UNCHANGED <<tracked, agent, dwell, tenure>> PROVE DwellInv'
  BY <1>1 DEF DwellInv
<1>2. ASSUME tenure' = Dwell PROVE DwellInv'
  BY <1>2 DEF DwellInv
<1>3. CASE CommandLands
  <2>1. posted \in Commands
    BY <1>3 DEF CommandLands, CockpitTypeOK
  <2> QED
    BY <1>1, <1>2, <1>3, <2>1, OthersKeepDwell DEF CommandLands
<1>4. ASSUME NEW l \in Legs, LegLands(l) \/ LateLegLands(l) PROVE DwellInv'
  BY <1>1, <1>2, <1>4, OthersKeepDwell DEF LegLands, LateLegLands
<1>5. CASE AgentReads
  <2>1. PICK s \in SUBSET Aircraft :
          agent' = [agent EXCEPT !.pc = "asking", !.trackable = s, !.seen = tracked]
    BY <1>5 DEF AgentReads
  <2>2. agent'.pc = "asking" /\ agent'.seen = tracked
    BY <1>0, <2>1 DEF AgentStates
  <2> QED
    BY <1>5, <2>2 DEF AgentReads, DwellInv
<1>6. CASE AgentDecides
  <2>1. PICK d \in Aircraft \cup {"stop", "fault", None} :
          agent' = IF Decide(d) = None
                     THEN Idle
                     ELSE [agent EXCEPT !.pc = "calling", !.seen = None, !.act = Decide(d)]
    BY <1>6 DEF AgentDecides
  <2>2. UNCHANGED <<tracked, dwell, tenure>> /\ agent.pc = "asking"
    BY <1>6 DEF AgentDecides
  <2>3. CASE Decide(d) = None
    BY <2>1, <2>2, <2>3 DEF DwellInv, Idle, Off
  <2>4. CASE Decide(d) # None
    <3>1. /\ agent'.pc = "calling" /\ agent'.act = Decide(d)
          /\ agent'.trackable = agent.trackable
      BY <1>0, <2>1, <2>4 DEF AgentStates
    <3>2. ASSUME tenure < Dwell, Decide(d) \in Aircraft PROVE tracked \notin agent.trackable
      <4>1. dwell < Dwell /\ agent.seen = tracked
        BY <1>0, <2>2, <3>2 DEF DwellInv
      <4> QED
        BY <3>2, <4>1, DecisionKeepsDwell
    <3> QED
      BY <2>2, <3>1, <3>2 DEF DwellInv
  <2> QED
    BY <2>3, <2>4
<1>7. CASE AgentCallLands
  <2>1. CASE agent.pc = "calling" /\ agent.act \in Aircraft
    <3>1. agent' = [Idle EXCEPT !.pc = "waiting", !.act = agent.act]
      BY <1>7, <2>1 DEF AgentCallLands
    <3>2. agent'.pc = "waiting" /\ agent'.act # "stop"
      BY <2>1, <3>1, CockpitAssumption DEF Idle, Off
    <3> QED
      BY <3>2 DEF DwellInv
  <2>2. CASE ~ (agent.pc = "calling" /\ agent.act \in Aircraft)
    BY <1>2, <1>7, <2>2 DEF AgentCallLands
  <2> QED
    BY <2>1, <2>2
<1>8. CASE AgentAnswered
  <2>1. agent' = Idle /\ agent.pc = "waiting" /\ tenure' = tenure
        /\ dwell' = (IF agent.act = "stop" THEN dwell ELSE 0)
    BY <1>8 DEF AgentAnswered
  <2>2. tenure < Dwell => dwell' <= tenure
    BY <1>0, <2>1 DEF DwellInv
  <2> QED
    BY <2>1, <2>2 DEF DwellInv, Idle, Off
<1>9. CASE AgentCallFails
  <2>1. CASE agent.pc = "calling"
    <3>1. agent' = Idle /\ UNCHANGED <<tracked, dwell, tenure>>
      BY <1>9, <2>1 DEF AgentCallFails
    <3> QED
      BY <2>1, <3>1 DEF DwellInv, Idle, Off
  <2>2. CASE agent.pc = "waiting"
    BY <1>2, <1>9, <2>2 DEF AgentCallFails
  <2>3. CASE agent.pc = "orphaned"
    BY <1>0, <1>2, <1>9, <2>3 DEF AgentCallFails, DwellInv
  <2> QED
    BY <1>9, <2>1, <2>2, <2>3 DEF AgentCallFails
<1>10. CASE DwellPasses
  <2>1. UNCHANGED <<tracked, agent>> /\ dwell' = Later(dwell) /\ tenure' = Later(tenure)
    BY <1>10 DEF DwellPasses
  <2>2. tenure' < Dwell => tenure < Dwell
    BY <1>0, <2>1 DEF Later
  <2>3. tenure < Dwell /\ dwell <= tenure => dwell' <= tenure'
    BY <1>0, <2>1 DEF Later
  <2> QED
    BY <2>1, <2>2, <2>3 DEF DwellInv
<1>11. CASE DaemonStops
  BY <1>2, <1>11 DEF DaemonStops, Aim
<1>12. CASE UNCHANGED cockpitVars
  BY <1>1, <1>12 DEF cockpitVars, agentVars
<1> QED
  BY <1>1, <1>3, <1>4, <1>5, <1>6, <1>7, <1>8, <1>9, <1>10, <1>11, <1>12
     DEF CockpitNext, PostCommand, PressEstop, ClearEstopLatch, CommandFails, EstopLost,
         EstopAnswered, LegFails, LegTimesOut, agentVars

(* Only the landing of its own call makes the agent wait for an answer.    *)
LEMMA OnlyLandingWaits ==
  ASSUME CockpitTypeOK, DwellInv, CockpitNext, agent.pc # "waiting", agent'.pc = "waiting"
  PROVE  AgentCallLands
<1>1. ~ CommandLands
  <2> SUFFICES ASSUME CommandLands PROVE FALSE
    OBVIOUS
  <2>1. posted \in Commands
    BY DEF CommandLands, CockpitTypeOK
  <2> QED
    BY <2>1, OthersKeepDwell DEF CommandLands
<1>2. ASSUME NEW l \in Legs PROVE ~ (LegLands(l) \/ LateLegLands(l))
  BY OthersKeepDwell DEF LegLands, LateLegLands
<1>3. agent \in AgentStates
  BY EffectTyped
<1>4. ~ (AgentReads \/ AgentDecides)
  BY <1>3 DEF AgentReads, AgentDecides, AgentStates, Idle, Off
<1>5. ~ (AgentAnswered \/ AgentCallFails)
  BY DEF AgentAnswered, AgentCallFails, Idle, Off
<1> QED
  BY <1>1, <1>2, <1>4, <1>5
     DEF CockpitNext, PostCommand, PressEstop, ClearEstopLatch, CommandFails, EstopLost,
         EstopAnswered, LegFails, LegTimesOut, DwellPasses, DaemonStops, agentVars

(* An aircraft the agent has taken and last saw trackable is not replaced  *)
(* by its next call before it has had its dwell, counted from where it was *)
(* taken and not from where that was noted (agent/loop.ts:36-48).          *)
THEOREM DwellAlwaysKept == CockpitSpec => DwellIsKept
<1>1. CockpitInit => DwellInv
  BY DwellIsNat DEF CockpitInit, DwellInv
<1>2. CockpitTypeOK /\ DwellInv /\ [CockpitNext]_cockpitVars => DwellInv'
  BY DwellStep
<1>3. CockpitTypeOK /\ DwellInv /\ [CockpitNext]_cockpitVars =>
        [agent.pc = "calling" /\ agent'.pc = "waiting"
           /\ tracked' \in Aircraft \ {tracked} /\ tenure < Dwell
         => tracked \notin agent.trackable]_cockpitVars
  <2> SUFFICES ASSUME CockpitTypeOK, DwellInv, CockpitNext,
                      agent.pc = "calling", agent'.pc = "waiting",
                      tracked' \in Aircraft, tenure < Dwell
               PROVE  tracked \notin agent.trackable
    OBVIOUS
  <2>1. AgentCallLands
    BY OnlyLandingWaits
  <2>2. agent.act \in Aircraft
    <3>1. agent.act \in Aircraft \cup {"stop", None}
      BY EffectTyped DEF AgentStates
    <3> QED
      BY <2>1, <3>1, CockpitAssumption DEF AgentCallLands, Target
  <2> QED
    BY <2>2 DEF DwellInv
<1> QED
  BY <1>1, <1>2, <1>3, CockpitTypeCorrect, PTL DEF CockpitSpec, DwellIsKept
-----------------------------------------------------------------------------
(* Turn is long enough to tell a widget's default from a line.             *)
LEMMA TurnIsLong == Turn \in Nat /\ Turn > 2 /\ Edits \in Nat
BY SectorAssumption

(* Normalising leaves every bearing but a full turn (sector.ts:6).         *)
LEMMA NormShape ==
  ASSUME NEW b \in 0 .. Turn
  PROVE  Norm(b) = IF b = Turn THEN 0 ELSE b
BY TurnIsLong DEF Norm

(* A sector somebody asked for is never taken for a torn file, so that it  *)
(* is loaded as it was saved (sector-store.ts:16-33).                      *)
LEMMA LoadShape ==
  /\ \A s \in Sectors : s # Torn /\ Load(s) = s /\ SeedNonDegenerate(s) \in Sectors
  /\ Load(Torn) \in Sectors
<1>1. DISABLED_SECTOR \in Sectors
  BY TurnIsLong DEF DISABLED_SECTOR, Sectors
<1>2. Torn.to = Turn + 1
  BY DEF Torn, DISABLED_SECTOR
<1>3. ASSUME NEW s \in Sectors PROVE s # Torn
  <2>1. s.to \in 0 .. Turn
    BY DEF Sectors
  <2> QED
    BY <1>2, <2>1, TurnIsLong
<1>4. ASSUME NEW s \in Sectors PROVE SeedNonDegenerate(s) \in Sectors
  <2>1. 1 \in 0 .. Turn /\ Turn - 1 \in 0 .. Turn
    BY TurnIsLong
  <2>2. [s EXCEPT !.from = 1, !.to = Turn - 1] \in Sectors
    BY <2>1 DEF Sectors
  <2> QED
    BY <2>2 DEF SeedNonDegenerate
<1> QED
  BY <1>1, <1>3, <1>4 DEF Load
-----------------------------------------------------------------------------
(* The pages' and the store's variables always have their types.           *)
THEOREM SectorTypeCorrect == SectorSpec => []SectorTypeOK
<1>1. SectorInit => SectorTypeOK
  <2> SUFFICES ASSUME SectorInit PROVE SectorTypeOK
    OBVIOUS
  <2>1. file \in Sectors /\ sector \in Sectors
    BY LoadShape, SectorAssumption DEF SectorInit
  <2>2. SeedNonDegenerate(DISABLED_SECTOR) \in Sectors
    <3>1. DISABLED_SECTOR \in Sectors
      BY TurnIsLong DEF DISABLED_SECTOR, Sectors
    <3> QED
      BY <3>1, LoadShape
  <2>3. local \in [Widgets -> Sectors]
    BY <2>2 DEF SectorInit
  <2>4. edits \in 0 .. Edits
    BY TurnIsLong DEF SectorInit
  <2> QED
    BY <2>1, <2>3, <2>4 DEF SectorInit, SectorTypeOK
<1>2. SectorTypeOK /\ [SectorNext]_sectorVars => SectorTypeOK'
  <2> SUFFICES ASSUME SectorTypeOK, [SectorNext]_sectorVars PROVE SectorTypeOK'
    OBVIOUS
  <2>1. ASSUME NEW p \in Widgets, SectorLoaded(p) PROVE SectorTypeOK'
    <3>1. SeedNonDegenerate(sector) \in Sectors
      BY LoadShape DEF SectorTypeOK
    <3>2. local' \in [Widgets -> Sectors]
      BY <2>1, <3>1 DEF SectorLoaded, SectorTypeOK
    <3> QED
      BY <2>1, <3>2 DEF SectorLoaded, SectorTypeOK, storeVars
  <2>2. ASSUME NEW p \in Widgets, LatchChanges(p) \/ PointerDown(p) \/ PointerUp(p)
        PROVE  SectorTypeOK'
    BY <2>2 DEF LatchChanges, PointerDown, PointerUp, PostDebounced, SectorTypeOK, storeVars
  <2>3. ASSUME NEW p \in Widgets, PointerMove(p) PROVE SectorTypeOK'
    <3>1. PICK b \in Drops, end \in {"from", "to"} : local' = [local EXCEPT ![p][end] = b]
      BY <2>3 DEF PointerMove
    <3>2. b \in 0 .. Turn
      BY SectorAssumption, TurnIsLong
    <3>3. [local[p] EXCEPT ![end] = b] \in Sectors
      BY <3>2 DEF Sectors, SectorTypeOK
    <3>4. local' \in [Widgets -> Sectors]
      BY <3>1, <3>3 DEF SectorTypeOK
    <3> QED
      BY <2>3, <3>4 DEF PointerMove, SectorTypeOK, storeVars
  <2>4. ASSUME NEW p \in Widgets, SectorEnable(p) PROVE SectorTypeOK'
    <3>1. [local[p] EXCEPT !.enabled = ~ @] \in Sectors
      BY DEF Sectors, SectorTypeOK
    <3>2. local' \in [Widgets -> Sectors]
      BY <2>4, <3>1 DEF SectorEnable, SectorTypeOK
    <3> QED
      BY <2>4, <3>2 DEF SectorEnable, PostDebounced, SectorTypeOK, storeVars
  <2>5. ASSUME NEW p \in Widgets, TimerFires(p) PROVE SectorTypeOK'
    <3>1. edits' \in 0 .. Edits
      BY <2>5, TurnIsLong DEF TimerFires, SectorTypeOK
    <3> QED
      BY <2>5, <3>1 DEF TimerFires, SectorTypeOK, storeVars
  <2>6. CASE PostFails
    BY <2>6 DEF PostFails, SectorTypeOK, storeVars
  <2>7. CASE SetSector \/ SetSectorThrows
    BY <2>7 DEF SetSector, SetSectorThrows, SectorTypeOK
  <2>8. CASE SetSectorDies
    <3>1. PICK s \in posts :
            /\ posts' = posts \ {s} /\ file' \in {file, s} /\ sector' = Load(file')
            /\ tried' = tried \cup {s}
            /\ UNCHANGED <<local, asked, held, timer, halted, edits>>
      BY <2>8 DEF SetSectorDies, FileAfterCrash
    <3>2. file' \in Sectors \cup {Torn}
      BY <3>1 DEF SectorTypeOK
    <3>3. sector' \in Sectors
      BY <3>1, <3>2, LoadShape
    <3> QED
      BY <3>1, <3>2, <3>3 DEF SectorTypeOK
  <2>9. CASE DaemonReloads
    <3>1. sector' \in Sectors
      BY <2>9, LoadShape DEF DaemonReloads, SectorTypeOK
    <3> QED
      BY <2>9, <3>1 DEF DaemonReloads, SectorTypeOK, sectorPageVars
  <2>10. CASE UNCHANGED sectorVars
    BY <2>10 DEF sectorVars, sectorPageVars, storeVars, SectorTypeOK
  <2> QED
    BY <2>1, <2>2, <2>3, <2>4, <2>5, <2>6, <2>7, <2>8, <2>9, <2>10 DEF SectorNext
<1> QED
  BY <1>1, <1>2, PTL DEF SectorSpec

(* Whenever the daemon dies, it comes back with the last sector it has     *)
(* acknowledged or with one asked for since (sector-store.ts:16-33).       *)
THEOREM RestartAlwaysKeepsSector == SectorSpec => []RestartKeepsSector
<1>1. SectorInit => RestartKeepsSector
  BY DEF SectorInit, RestartKeepsSector
<1>2. SectorTypeOK /\ RestartKeepsSector /\ [SectorNext]_sectorVars => RestartKeepsSector'
  <2> SUFFICES ASSUME SectorTypeOK, RestartKeepsSector, [SectorNext]_sectorVars
               PROVE  RestartKeepsSector'
    OBVIOUS
  <2>1. CASE UNCHANGED storeVars
    BY <2>1 DEF storeVars, RestartKeepsSector
  <2>2. CASE SetSector
    BY <2>2, LoadShape DEF SetSector, RestartKeepsSector, SectorTypeOK
  <2>3. CASE SetSectorThrows
    BY <2>3 DEF SetSectorThrows, RestartKeepsSector
  <2>4. CASE SetSectorDies
    <3>1. PICK s \in posts :
            file' \in {file, s} /\ sector' = Load(file') /\ tried' = tried \cup {s}
      BY <2>4 DEF SetSectorDies, FileAfterCrash
    <3>2. Load(s) = s
      BY LoadShape DEF SectorTypeOK
    <3> QED
      BY <3>1, <3>2 DEF RestartKeepsSector
  <2>5. CASE DaemonReloads
    BY <2>5 DEF DaemonReloads, RestartKeepsSector
  <2> QED
    BY <2>1, <2>2, <2>3, <2>4, <2>5 DEF SectorNext, SectorLoaded, LatchChanges, PointerDown,
       PointerMove, PointerUp, SectorEnable, TimerFires, PostFails, sectorVars
<1> QED
  BY <1>1, <1>2, SectorTypeCorrect, PTL DEF SectorSpec
-----------------------------------------------------------------------------
(* The wedge drawn from two spans is the arc tested through north, on a    *)
(* circle of any number of steps (app.js:584-595, sector.ts:11-24).        *)
LEMMA SpansAreArc ==
  ASSUME NEW s \in Sectors, NEW az \in 0 .. Turn - 1, s.enabled, ~ FullTurn(s)
  PROVE  InArc(az, s) <=> \E span \in sectorArcSpans(s) : az \in span[1] .. span[2]
<1> DEFINE f == Norm(s.from)
           t == Norm(s.to)
<1>1. f \in 0 .. Turn - 1 /\ t \in 0 .. Turn - 1
  BY NormShape, TurnIsLong DEF Sectors
<1>2. InArc(az, s) <=> IF f <= t THEN az \in f .. t ELSE az >= f \/ az <= t
  BY DEF InArc
<1>3. CASE f <= t
  <2>1. sectorArcSpans(s) = {<<f, t>>}
    BY <1>3 DEF sectorArcSpans
  <2> HIDE DEF f, t
  <2> QED
    BY <1>2, <1>3, <2>1
<1>4. CASE ~ (f <= t)
  <2>1. sectorArcSpans(s) = {<<f, Turn>>, <<0, t>>}
    BY <1>4 DEF sectorArcSpans
  <2> HIDE DEF f, t
  <2>2. (\E span \in sectorArcSpans(s) : az \in span[1] .. span[2])
          <=> az \in f .. Turn \/ az \in 0 .. t
    BY <2>1
  <2> QED
    BY <1>1, <1>2, <1>4, <2>2, TurnIsLong
<1> QED
  BY <1>3, <1>4

(* The wedge a page draws is the arc the daemon would admit, whatever was  *)
(* loaded, dragged and wrapped through north (app.js:584-595).             *)
THEOREM DrawnIsAlwaysAdmitted == SectorSpec => []DrawnIsAdmitted
<1>1. SectorTypeOK => DrawnIsAdmitted
  BY SpansAreArc DEF SectorTypeOK, DrawnIsAdmitted
<1> QED
  BY <1>1, SectorTypeCorrect, PTL
-----------------------------------------------------------------------------
(* An unknown reading says nothing about time.                             *)
NotAfter(u, v) == v >= 0 => u <= v

(* What the server holds of source s and what it may yet hold of it is no  *)
(* older than v.                                                           *)
ServerPast(v, s) ==
  /\ NotAfter(v, latest[s])
  /\ \A i \in PollSlots : reads[i] # <<>> => NotAfter(v, reads[i][s])
  /\ NotAfter(v, truth[s])

StreamPast(v, s) == \A k \in 1 .. Len(stream) : NotAfter(v, stream[k][s])

(* running admits one poll at a time (server.ts:140-152).                  *)
OnePoll ==
  /\ ~ running => \A i \in PollSlots : reads[i] = <<>>
  /\ \A i, j \in PollSlots : reads[i] # <<>> /\ reads[j] # <<>> => i = j

(* Source s: what is shown, streamed (front to back), held, read and true, *)
(* from old to new.                                                        *)
Ordered(s) ==
  /\ ServerPast(shown[s], s) /\ StreamPast(shown[s], s)
  /\ \A k \in 1 .. Len(stream) : ServerPast(stream[k][s], s)
  /\ \A j, k \in 1 .. Len(stream) : j < k => NotAfter(stream[j][s], stream[k][s])
  /\ ServerPast(latest[s], s)
  /\ \A i \in PollSlots : reads[i] # <<>> => NotAfter(reads[i][s], truth[s])

(* And what a toggle will invert is no newer than any of it.               *)
FeedInv ==
  /\ OnePoll
  /\ \A s \in panel : Ordered(s)
  /\ "sun" \in panel => ServerPast(memory, "sun") /\ StreamPast(memory, "sun")

(* The bounds are positive.                                                *)
LEMMA FeedBounds == Changes \in Nat /\ Lag \in Nat /\ Changes >= 1 /\ Lag >= 1
BY FeedAssumption DEF FeedAssumption

(* The feed's variables keep their types.                                  *)
LEMMA FeedTypeStep ==
  ASSUME FeedTypeOK, [FeedNext]_feedVars
  PROVE  FeedTypeOK'
<1> USE FeedBounds
<1>1. ASSUME NEW s \in panel, SourceChanges(s) PROVE FeedTypeOK'
  <2>1. truth' \in [panel -> 0 .. Changes]
    BY <1>1 DEF SourceChanges, FeedTypeOK
  <2> QED
    BY <1>1, <2>1 DEF SourceChanges, FeedTypeOK, serverVars, viewVars, Snapshots
<1>2. ASSUME NEW i \in PollSlots, PollBegins(i) PROVE FeedTypeOK'
  <2>1. [s \in panel |-> Pending] \in [panel -> Readings \cup {Pending}]
    OBVIOUS
  <2> QED
    BY <1>2, <2>1 DEF PollBegins, FeedTypeOK, viewVars, Snapshots
<1>3. ASSUME NEW i \in PollSlots, NEW s \in panel, NEW reading \in Readings, Reads(i, s, reading)
      PROVE  FeedTypeOK'
  <2>1. reads[i] \in [panel -> Readings \cup {Pending}]
    BY <1>3 DEF Reads, FeedTypeOK
  <2>2. [reads[i] EXCEPT ![s] = reading] \in [panel -> Readings \cup {Pending}]
    BY <2>1
  <2>3. reads' = [reads EXCEPT ![i] = [reads[i] EXCEPT ![s] = reading]]
    BY <1>3 DEF Reads, FeedTypeOK
  <2>4. reads' \in [PollSlots -> [panel -> Readings \cup {Pending}] \cup {<<>>}]
    BY <2>2, <2>3 DEF FeedTypeOK
  <2> QED
    BY <1>3, <2>4 DEF Reads, FeedTypeOK, viewVars, Snapshots
<1>4. ASSUME NEW i \in PollSlots, PollEnds(i) PROVE FeedTypeOK'
  <2>1. reads[i] \in Snapshots
    <3>1. reads[i] \in [panel -> Readings \cup {Pending}]
      BY <1>4 DEF PollEnds, FeedTypeOK
    <3> QED
      BY <1>4, <3>1 DEF PollEnds, Snapshots
  <2>2. stream' \in Seq(Snapshots) /\ Len(stream') <= Lag
    BY <1>4, <2>1 DEF PollEnds, FeedTypeOK
  <2>3. reads' \in [PollSlots -> [panel -> Readings \cup {Pending}] \cup {<<>>}]
    BY <1>4 DEF PollEnds, FeedTypeOK
  <2> QED
    BY <1>4, <2>1, <2>2, <2>3 DEF PollEnds, FeedTypeOK, Snapshots
<1>5. CASE StreamOpens
  <2>1. stream' \in Seq(Snapshots) /\ Len(stream') <= Lag
    BY <1>5 DEF StreamOpens, FeedTypeOK
  <2> QED
    BY <1>5, <2>1 DEF StreamOpens, FeedTypeOK, serverVars, Snapshots
<1>6. CASE StreamBreaks
  <2>1. stream' \in Seq(Snapshots) /\ Len(stream') <= Lag
    BY <1>6 DEF StreamBreaks, FeedTypeOK
  <2> QED
    BY <1>6, <2>1 DEF StreamBreaks, FeedTypeOK, serverVars, Snapshots
<1>7. CASE PageRenders
  <2>1. /\ Head(stream) \in Snapshots
        /\ Tail(stream) \in Seq(Snapshots) /\ Len(Tail(stream)) <= Lag
    BY <1>7 DEF PageRenders, FeedTypeOK
  <2>2. memory' \in 0 .. Changes
    BY <1>7, <2>1 DEF PageRenders, RenderSunGuard, FeedTypeOK, Snapshots, Readings
  <2> QED
    BY <1>7, <2>1, <2>2 DEF PageRenders, FeedTypeOK, serverVars, Snapshots
<1>8. CASE UNCHANGED feedVars
  BY <1>8 DEF feedVars, serverVars, viewVars, FeedTypeOK, Snapshots
<1>9. ASSUME NEW i \in PollSlots, NEW s \in panel, SourceAnswers(i, s) \/ ReadFails(i, s)
      PROVE  FeedTypeOK'
  <2>1. truth[s] \in Readings /\ Failed \in Readings
    BY DEF FeedTypeOK, Readings
  <2> QED
    BY <1>3, <1>9, <2>1 DEF SourceAnswers, ReadFails
<1> QED
  BY <1>1, <1>2, <1>4, <1>5, <1>6, <1>7, <1>8, <1>9 DEF FeedNext

(* They have them to begin with.                                           *)
LEMMA FeedInitTyped == FeedInit => FeedTypeOK
<1> SUFFICES ASSUME FeedInit PROVE FeedTypeOK
  OBVIOUS
<1>1. NotPolledYet \in Snapshots
  BY DEF NotPolledYet, Snapshots, Readings
<1>2. truth \in [panel -> 0 .. Changes] /\ memory \in 0 .. Changes
  BY FeedBounds DEF FeedInit
<1>3. stream \in Seq(Snapshots) /\ Len(stream) <= Lag
  BY FeedBounds DEF FeedInit
<1> QED
  BY <1>1, <1>2, <1>3 DEF FeedInit, FeedTypeOK

(* What the server comes to hold of a source is never older than what it   *)
(* held (server.ts:140-170).                                               *)
LEMMA ServerStaysPast ==
  ASSUME FeedTypeOK, FeedInv, FeedNext, NEW s \in panel, NEW v \in Int, ServerPast(v, s)
  PROVE  ServerPast(v, s)'
<1> USE FeedBounds DEF ServerPast, NotAfter
<1>1. ASSUME NEW t \in panel, SourceChanges(t) PROVE ServerPast(v, s)'
  <2>1. truth[s] \in 0 .. Changes /\ (truth'[s] = truth[s] \/ truth'[s] = truth[s] + 1)
    BY <1>1 DEF SourceChanges, FeedTypeOK
  <2> QED
    BY <1>1, <2>1 DEF SourceChanges, serverVars
<1>2. ASSUME NEW i \in PollSlots, PollBegins(i) PROVE ServerPast(v, s)'
  <2>1. \A j \in PollSlots :
          reads'[j] = IF j = i THEN [t \in panel |-> Pending] ELSE reads[j]
    BY <1>2 DEF PollBegins, FeedTypeOK
  <2>2. ~ NotAfter(v, Pending) => FALSE
    BY DEF Pending
  <2> QED
    BY <1>2, <2>1, <2>2 DEF PollBegins
<1>3. ASSUME NEW i \in PollSlots, NEW t \in panel, SourceAnswers(i, t) \/ ReadFails(i, t)
      PROVE  ServerPast(v, s)'
  <2>1. PICK r \in {truth[t], Failed} : Reads(i, t, r)
    BY <1>3 DEF SourceAnswers, ReadFails
  <2>2. reads[i] \in [panel -> Readings \cup {Pending}]
    BY <2>1 DEF Reads, FeedTypeOK
  <2>3. \A j \in PollSlots :
          reads'[j] = IF j = i THEN [reads[i] EXCEPT ![t] = r] ELSE reads[j]
    BY <2>1 DEF Reads, FeedTypeOK
  <2>4. reads[i] # <<>> /\ UNCHANGED <<latest, truth>>
    BY <2>1 DEF Reads
  <2>5. \A j \in PollSlots : reads'[j] # <<>> => NotAfter(v, reads'[j][s])
    BY <2>1, <2>2, <2>3, <2>4 DEF Failed
  <2> QED
    BY <2>4, <2>5
<1>4. ASSUME NEW i \in PollSlots, PollEnds(i) PROVE ServerPast(v, s)'
  <2>1. \A j \in PollSlots : reads'[j] = IF j = i THEN <<>> ELSE reads[j]
    BY <1>4 DEF PollEnds, FeedTypeOK
  <2> QED
    BY <1>4, <2>1 DEF PollEnds
<1>5. CASE StreamOpens \/ StreamBreaks \/ PageRenders
  BY <1>5 DEF StreamOpens, StreamBreaks, PageRenders, serverVars
<1> QED
  BY <1>1, <1>2, <1>3, <1>4, <1>5 DEF FeedNext

(* The stream gains only what the server has just come to hold, at its     *)
(* end, and a page takes only its head.                                    *)
LEMMA StreamStep ==
  ASSUME FeedTypeOK, FeedNext
  PROVE  \/ stream' = stream
         \/ stream' = <<>>
         \/ ~ open /\ stream' = <<latest>> /\ latest' = latest
         \/ stream' = Append(stream, latest')
         \/ PageRenders
<1>1. ASSUME NEW i \in PollSlots, PollEnds(i)
      PROVE  stream' = stream \/ stream' = Append(stream, latest')
  BY <1>1 DEF PollEnds
<1>2. CASE StreamOpens
  BY <1>2 DEF StreamOpens, serverVars
<1>3. CASE StreamBreaks
  BY <1>3 DEF StreamBreaks
<1>4. ASSUME NEW s \in panel, NEW i \in PollSlots,
             \/ SourceChanges(s) \/ PollBegins(i) \/ SourceAnswers(i, s) \/ ReadFails(i, s)
      PROVE  stream' = stream
  BY <1>4 DEF SourceChanges, PollBegins, SourceAnswers, ReadFails, Reads, viewVars
<1>5. ASSUME NEW s \in panel, SourceChanges(s) PROVE stream' = stream
  BY <1>5 DEF SourceChanges, viewVars
<1>6. ASSUME NEW i \in PollSlots, PollBegins(i) PROVE stream' = stream
  BY <1>6 DEF PollBegins, viewVars
<1> QED
  BY <1>1, <1>2, <1>3, <1>4, <1>5, <1>6 DEF FeedNext

(* Whatever is no newer than server and stream stays so.                   *)
LEMMA StreamStaysPast ==
  ASSUME FeedTypeOK, FeedInv, FeedNext, NEW s \in panel, NEW v \in Int,
         ServerPast(v, s), StreamPast(v, s)
  PROVE  StreamPast(v, s)'
<1>0. NotAfter(v, latest'[s]) /\ NotAfter(v, latest[s])
  BY ServerStaysPast DEF ServerPast
<1>1. CASE PageRenders
  <2>1. \A k \in 1 .. Len(stream') : stream'[k] = stream[k + 1] /\ k + 1 \in 1 .. Len(stream)
    BY <1>1 DEF PageRenders, FeedTypeOK
  <2> QED
    BY <2>1 DEF StreamPast
<1>2. CASE stream' = Append(stream, latest')
  <2>1. \A k \in 1 .. Len(stream') :
          stream'[k] = latest' \/ (k \in 1 .. Len(stream) /\ stream'[k] = stream[k])
    BY <1>2 DEF FeedTypeOK
  <2> QED
    BY <1>0, <2>1 DEF StreamPast
<1>3. CASE stream' = <<latest>>
  BY <1>0, <1>3 DEF StreamPast
<1>4. CASE stream' = stream \/ stream' = <<>>
  BY <1>4 DEF StreamPast
<1> QED
  BY <1>1, <1>2, <1>3, <1>4, StreamStep

(* At most one poll is under way.                                          *)
LEMMA OnePollStep ==
  ASSUME FeedTypeOK, OnePoll, [FeedNext]_feedVars
  PROVE  OnePoll'
<1> USE DEF OnePoll
<1>1. ASSUME NEW i \in PollSlots, PollBegins(i) PROVE OnePoll'
  <2>1. \A j \in PollSlots : j # i => reads'[j] = <<>>
    BY <1>1 DEF PollBegins, FeedTypeOK
  <2> QED
    BY <1>1, <2>1 DEF PollBegins
<1>2. ASSUME NEW i \in PollSlots, PollEnds(i) PROVE OnePoll'
  <2>1. \A j \in PollSlots : reads'[j] = <<>>
    BY <1>2 DEF PollEnds, FeedTypeOK
  <2> QED
    BY <2>1
<1>3. ASSUME NEW i \in PollSlots, NEW t \in panel, SourceAnswers(i, t) \/ ReadFails(i, t)
      PROVE  OnePoll'
  <2>1. reads[i] # <<>> /\ running' = running
    BY <1>3 DEF SourceAnswers, ReadFails, Reads
  <2>2. \A j \in PollSlots : j # i => reads'[j] = reads[j]
    BY <1>3 DEF SourceAnswers, ReadFails, Reads, FeedTypeOK
  <2> QED
    BY <2>1, <2>2
<1>4. CASE UNCHANGED <<running, reads>>
  BY <1>4
<1> QED
  BY <1>1, <1>2, <1>3, <1>4
  DEF FeedNext, SourceChanges, StreamOpens, StreamBreaks, PageRenders, feedVars, serverVars

(* A page takes the head of its stream, and leaves the rest in order.      *)
LEMMA PageTakesHead ==
  ASSUME FeedTypeOK, PageRenders
  PROVE  /\ 1 \in 1 .. Len(stream) /\ shown' = stream[1]
         /\ \A s \in panel : stream[1][s] \in 0 .. Changes \cup {Failed}
         /\ \A k \in 1 .. Len(stream') :
              stream'[k] = stream[k + 1] /\ k + 1 \in 1 .. Len(stream) /\ 1 < k + 1
         /\ UNCHANGED <<latest, reads, truth>>
BY DEF PageRenders, FeedTypeOK, serverVars, Snapshots, Readings

(* What a read returns is the truth of that moment or nothing.             *)
LEMMA ReadsStayPast ==
  ASSUME FeedTypeOK, FeedNext, NEW s \in panel, NEW i \in PollSlots, reads'[i] # <<>>,
         reads[i] # <<>> => NotAfter(reads[i][s], truth[s])
  PROVE  NotAfter(reads'[i][s], truth'[s])
<1> USE DEF NotAfter
<1>0. truth[s] \in 0 .. Changes
  BY DEF FeedTypeOK
<1>1. ASSUME NEW t \in panel, SourceChanges(t) PROVE NotAfter(reads'[i][s], truth'[s])
  <2>1. truth'[s] \in {truth[s], truth[s] + 1} /\ reads' = reads
    BY <1>1 DEF SourceChanges, FeedTypeOK, serverVars
  <2>2. reads[i] \in [panel -> Readings \cup {Pending}] /\ reads[i][s] \in Int
    BY <2>1, FeedBounds DEF FeedTypeOK, Readings, Failed, Pending
  <2> QED
    BY <1>0, <2>1, <2>2, FeedBounds
<1>2. ASSUME NEW j \in PollSlots, PollBegins(j) PROVE NotAfter(reads'[i][s], truth'[s])
  <2>1. reads'[i] = (IF i = j THEN [t \in panel |-> Pending] ELSE reads[i]) /\ truth' = truth
    BY <1>2 DEF PollBegins, FeedTypeOK
  <2> QED
    BY <1>0, <2>1, FeedBounds DEF Pending
<1>3. ASSUME NEW j \in PollSlots, NEW t \in panel, SourceAnswers(j, t) \/ ReadFails(j, t)
      PROVE  NotAfter(reads'[i][s], truth'[s])
  <2>1. PICK r \in {truth[t], Failed} : Reads(j, t, r)
    BY <1>3 DEF SourceAnswers, ReadFails
  <2>2. reads[j] \in [panel -> Readings \cup {Pending}] /\ reads[j] # <<>> /\ truth' = truth
    BY <2>1 DEF Reads, FeedTypeOK
  <2>3. reads'[i] = IF i = j THEN [reads[j] EXCEPT ![t] = r] ELSE reads[i]
    BY <2>1 DEF Reads, FeedTypeOK
  <2> QED
    BY <1>0, <2>1, <2>2, <2>3, FeedBounds DEF Failed
<1>4. ASSUME NEW j \in PollSlots, PollEnds(j) PROVE NotAfter(reads'[i][s], truth'[s])
  <2>1. reads'[i] \in {<<>>, reads[i]} /\ truth' = truth
    BY <1>4 DEF PollEnds, FeedTypeOK
  <2> QED
    BY <2>1
<1>5. CASE StreamOpens \/ StreamBreaks \/ PageRenders
  BY <1>5 DEF StreamOpens, StreamBreaks, PageRenders, serverVars
<1> QED
  BY <1>1, <1>2, <1>3, <1>4, <1>5 DEF FeedNext

(* The order is kept by every step (server.ts:140-170, app.js:428-438).    *)
LEMMA FeedInvStep ==
  ASSUME FeedTypeOK, FeedInv, FeedNext
  PROVE  FeedInv'
<1>0. panel' = panel /\ FeedTypeOK'
  BY FeedTypeStep
  DEF FeedNext, SourceChanges, PollBegins, SourceAnswers, ReadFails, Reads, PollEnds,
      StreamOpens, StreamBreaks, PageRenders
<1>1. OnePoll'
  BY OnePollStep DEF FeedInv
<1>2. ASSUME NEW s \in panel PROVE Ordered(s)'
  <2>0. Ordered(s)
    BY DEF FeedInv
  <2>1. /\ shown[s] \in Int /\ latest[s] \in Int /\ memory \in Int /\ truth[s] \in Nat
        /\ \A k \in 1 .. Len(stream) : stream[k][s] \in Int
    BY FeedBounds DEF FeedTypeOK, Snapshots, Readings, Failed
  <2>2. ASSUME NEW v \in Int, ServerPast(v, s) PROVE ServerPast(v, s)'
    BY <2>2, ServerStaysPast
  <2>3. ASSUME NEW v \in Int, ServerPast(v, s), StreamPast(v, s) PROVE StreamPast(v, s)'
    BY <2>3, StreamStaysPast
  <2>4. ASSUME NEW i \in PollSlots, reads'[i] # <<>>
        PROVE  NotAfter(reads'[i][s], truth'[s])
    BY <2>0, <2>4, ReadsStayPast DEF Ordered
  <2>5. ServerPast(latest[s], s)'
    <3>1. CASE latest' = latest
      BY <2>0, <2>1, <2>2, <3>1 DEF Ordered, ServerPast
    <3>2. ASSUME NEW i \in PollSlots, PollEnds(i) PROVE ServerPast(latest[s], s)'
      <4>1. latest' = reads[i] /\ truth' = truth /\ reads[i] # <<>>
        BY <3>2 DEF PollEnds
      <4>2. \A j \in PollSlots : reads'[j] = <<>>
        BY <3>2, <1>1 DEF PollEnds, OnePoll
      <4>3. latest'[s] \in Int
        BY <1>0, FeedBounds DEF FeedTypeOK, Snapshots, Readings, Failed
      <4> QED
        BY <2>0, <4>1, <4>2, <4>3 DEF Ordered, ServerPast, NotAfter
    <3> QED
      BY <3>1, <3>2
      DEF FeedNext, SourceChanges, PollBegins, SourceAnswers, ReadFails, Reads, StreamOpens,
          StreamBreaks, PageRenders, serverVars
  <2>6. ServerPast(shown[s], s)' /\ StreamPast(shown[s], s)'
    <3>1. CASE shown' = shown
      BY <2>0, <2>1, <2>2, <2>3, <3>1 DEF Ordered, ServerPast, StreamPast
    <3>2. CASE PageRenders
      BY <2>0, <3>2, PageTakesHead DEF Ordered, ServerPast, StreamPast
    <3> QED
      BY <3>1, <3>2
      DEF FeedNext, SourceChanges, PollBegins, SourceAnswers, ReadFails, Reads, PollEnds,
          StreamOpens, StreamBreaks, viewVars
  <2>7. /\ \A k \in 1 .. Len(stream') : ServerPast(stream[k][s], s)'
        /\ \A j, k \in 1 .. Len(stream') : j < k => NotAfter(stream'[j][s], stream'[k][s])
    <3>1. CASE PageRenders
      <4>1. ASSUME NEW k \in 1 .. Len(stream') PROVE ServerPast(stream[k][s], s)'
        BY <2>0, <3>1, PageTakesHead DEF Ordered, ServerPast
      <4>2. ASSUME NEW j \in 1 .. Len(stream'), NEW k \in 1 .. Len(stream'), j < k
            PROVE  NotAfter(stream'[j][s], stream'[k][s])
        <5>1. j + 1 < k + 1
          BY <4>2
        <5> QED
          BY <2>0, <3>1, <5>1, PageTakesHead DEF Ordered
      <4> QED
        BY <4>1, <4>2
    <3>2. CASE stream' = Append(stream, latest')
      <4>1. /\ Len(stream') = Len(stream) + 1 /\ Len(stream) \in Nat
            /\ stream'[Len(stream) + 1] = latest'
            /\ \A k \in 1 .. Len(stream) : stream'[k] = stream[k]
        BY <3>2 DEF FeedTypeOK
      <4>2. ASSUME NEW k \in 1 .. Len(stream)
            PROVE  ServerPast(stream[k][s], s)' /\ NotAfter(stream'[k][s], latest'[s])
        BY <2>0, <2>1, <2>2, <4>1 DEF Ordered, ServerPast
      <4> QED
        BY <2>0, <2>5, <4>1, <4>2 DEF Ordered, ServerPast
    <3>3. CASE stream' = <<latest>> /\ latest' = latest
      BY <2>5, <3>3 DEF ServerPast
    <3>4. CASE stream' = stream
      BY <2>0, <2>1, <2>2, <3>4 DEF Ordered, ServerPast
    <3>5. CASE stream' = <<>>
      BY <3>5
    <3> QED
      BY <3>1, <3>2, <3>3, <3>4, <3>5, StreamStep
  <2> QED
    BY <2>4, <2>5, <2>6, <2>7 DEF Ordered
<1>3. ASSUME "sun" \in panel PROVE (ServerPast(memory, "sun") /\ StreamPast(memory, "sun"))'
  <2>0. /\ ServerPast(memory, "sun") /\ StreamPast(memory, "sun") /\ memory \in Int
        /\ Ordered("sun")
    BY <1>3, FeedBounds DEF FeedInv, FeedTypeOK
  <2>1. CASE memory' = memory
    BY <1>3, <2>0, <2>1, ServerStaysPast, StreamStaysPast DEF ServerPast, StreamPast
  <2>2. CASE PageRenders /\ memory' = stream[1]["sun"]
    BY <1>3, <2>0, <2>2, PageTakesHead DEF Ordered, ServerPast, StreamPast
  <2> QED
    BY <2>1, <2>2, <1>3
    DEF FeedNext, SourceChanges, PollBegins, SourceAnswers, ReadFails, Reads, PollEnds,
        StreamOpens, StreamBreaks, PageRenders, RenderSunGuard, viewVars
<1> QED
  BY <1>0, <1>1, <1>2, <1>3 DEF FeedInv

(* The types and the order, of every reachable state.                      *)
THEOREM FeedInvariant == FeedSpec => [](FeedTypeOK /\ FeedInv)
<1>1. FeedInit => FeedInv
  <2> SUFFICES ASSUME FeedInit PROVE FeedInv
    OBVIOUS
  <2>1. /\ \A i \in PollSlots : reads[i] = <<>>
        /\ Len(stream) = 0
        /\ \A s \in panel : shown[s] = Failed /\ latest[s] = Failed /\ truth[s] \in {0, 1}
        /\ memory = 0
    BY DEF FeedInit, NotPolledYet
  <2> QED
    BY <2>1 DEF FeedInv, OnePoll, Ordered, ServerPast, StreamPast, NotAfter, Failed
<1>2. (FeedTypeOK /\ FeedInv) /\ [FeedNext]_feedVars => (FeedTypeOK /\ FeedInv)'
  <2>1. ASSUME FeedInv, UNCHANGED feedVars PROVE FeedInv'
    BY <2>1 DEF feedVars, serverVars, viewVars, FeedInv, OnePoll, Ordered, ServerPast, StreamPast
  <2> QED
    BY <2>1, FeedTypeStep, FeedInvStep
<1>3. FeedInit => FeedTypeOK
  BY FeedInitTyped
<1> QED
  BY <1>1, <1>2, <1>3, PTL DEF FeedSpec

(* Neither a panel nor what a toggle will invert ever goes back to an      *)
(* older truth (server.ts:140-170, app.js:428-438).                        *)
THEOREM FeedAlwaysForward == FeedSpec => FeedNeverGoesBack
<1>1. FeedTypeOK /\ FeedInv /\ FeedNext =>
        /\ \A s \in panel : Failed \in {shown[s], shown'[s]} \/ shown'[s] >= shown[s]
        /\ memory' >= memory
  <2> SUFFICES ASSUME FeedTypeOK, FeedInv, FeedNext
               PROVE  /\ \A s \in panel : Failed \in {shown[s], shown'[s]} \/ shown'[s] >= shown[s]
                      /\ memory' >= memory
    OBVIOUS
  <2>0. memory \in Int /\ \A s \in panel : shown[s] \in Int
    BY FeedBounds DEF FeedTypeOK, Snapshots, Readings, Failed
  <2>1. CASE PageRenders
    <3>1. ASSUME NEW s \in panel PROVE Failed = shown'[s] \/ shown'[s] >= shown[s]
      <4>1. shown'[s] \in 0 .. Changes \cup {Failed} /\ NotAfter(shown[s], shown'[s])
        BY <2>1, PageTakesHead DEF FeedInv, Ordered, StreamPast
      <4> QED
        BY <2>0, <4>1, FeedBounds DEF NotAfter
    <3>2. memory' >= memory
      <4>1. CASE memory' = memory
        BY <2>0, <4>1
      <4>2. CASE "sun" \in panel /\ memory' = stream[1]["sun"] /\ memory' # Failed
        <5>1. memory' \in 0 .. Changes \cup {Failed} /\ NotAfter(memory, memory')
          BY <2>1, <4>2, PageTakesHead DEF FeedInv, StreamPast
        <5> QED
          BY <2>0, <4>2, <5>1, FeedBounds DEF NotAfter
      <4> QED
        BY <2>1, <4>1, <4>2, PageTakesHead DEF PageRenders, RenderSunGuard
    <3> QED
      BY <3>1, <3>2
  <2>2. CASE UNCHANGED <<shown, memory>>
    BY <2>0, <2>2
  <2> QED
    BY <2>1, <2>2
    DEF FeedNext, SourceChanges, PollBegins, SourceAnswers, ReadFails, Reads, PollEnds,
        StreamOpens, StreamBreaks, viewVars
<1>2. FeedTypeOK /\ FeedInv /\ [FeedNext]_feedVars =>
        [/\ \A s \in panel : Failed \in {shown[s], shown'[s]} \/ shown'[s] >= shown[s]
         /\ memory' >= memory]_feedVars
  BY <1>1
<1> QED
  BY <1>2, FeedInvariant, PTL DEF FeedSpec, FeedNeverGoesBack
-----------------------------------------------------------------------------
(* A call between two awaits refers to no object (client.ts:106-118).      *)
McpInv == McpTypeOK /\ \A c \in Calls : step[c] = "closing" => using[c] = "none"

(* With one object more than there are calls, the call that builds a new   *)
(* client (reconnect) finds a slot that neither this.client nor another    *)
(* call has: the pool never limits how often the calls may reconnect.      *)
LEMMA SlotIsFree ==
  ASSUME McpTypeOK, NEW c \in Calls, using[c] = "none"
  PROVE  Free \in Objects
<1> DEFINE Others == Calls \ {c}
           Rest == Objects \ {shared}
<1>1. PICK o \in Rest : \A d \in Calls : using[d] # o
  <2> SUFFICES ASSUME \A o \in Rest : \E d \in Calls : using[d] = o PROVE FALSE
    OBVIOUS
  <2> DEFINE holder == [o \in Rest |-> CHOOSE d \in Calls : using[d] = o]
  <2>1. ASSUME NEW o \in Rest PROVE holder[o] \in Others /\ using[holder[o]] = o
    <3>1. holder[o] \in Calls /\ using[holder[o]] = o
      BY Zenon
    <3>2. o # "none"
      BY McpAssumption DEF Objects
    <3> QED
      BY <3>1, <3>2
  <2>2. holder \in Injection(Rest, Others)
    BY <2>1 DEF Injection, IsInjective
  <2>3. /\ IsFiniteSet(Others) /\ Cardinality(Others) = Cardinality(Calls) - 1
        /\ Cardinality(Calls) \in Nat
    BY McpAssumption, FS_RemoveElement, FS_CardinalityType
  <2>4. IsFiniteSet(Objects) /\ Cardinality(Objects) = Cardinality(Calls) + 1
    BY McpAssumption, FS_AddElement DEF Objects
  <2>5. Cardinality(Rest) = Cardinality(Calls)
    <3>1. shared \in Objects
      BY DEF McpTypeOK
    <3>2. Cardinality(Rest) = Cardinality(Objects) - 1
      BY <2>4, <3>1, FS_RemoveElement
    <3> QED
      BY <2>3, <2>4, <3>2
  <2>6. Cardinality(Rest) <= Cardinality(Others)
    BY <2>2, <2>3, FS_Injection
  <2> QED
    BY <2>3, <2>5, <2>6
<1> QED
  BY <1>1 DEF Free

(* A call that is over refers to nothing.                                  *)
LEMMA SettleKeepsTypes ==
  ASSUME McpInv, NEW C \in SUBSET Calls, Settle(C)
  PROVE  /\ step' \in [Calls -> Steps]
         /\ using' \in [Calls -> Objects \cup {"none"}]
         /\ bare' \in [Calls -> BOOLEAN]
         /\ \A d \in Calls : step'[d] = "closing" => using'[d] = "none"
BY DEF Settle, McpInv, McpTypeOK, Steps

(* One that is sent refers to this.client.                                 *)
LEMMA SendKeepsTypes ==
  ASSUME McpInv, NEW C \in SUBSET Calls, NEW at \in {"sent", "again"}, Send(C, at)
  PROVE  /\ step' \in [Calls -> Steps]
         /\ using' \in [Calls -> Objects \cup {"none"}]
         /\ bare' \in [Calls -> BOOLEAN]
         /\ \A d \in Calls : step'[d] = "closing" => using'[d] = "none"
<1>1. CASE Settle(C)
  BY <1>1, SettleKeepsTypes
<1>2. CASE /\ step' = [c \in Calls |-> IF c \in C THEN at ELSE step[c]]
           /\ using' = [c \in Calls |-> IF c \in C THEN shared ELSE using[c]]
           /\ bare' = [c \in Calls |-> IF c \in C THEN sdk'[shared] = "opening" ELSE bare[c]]
  <2>1. step' \in [Calls -> Steps] /\ using' \in [Calls -> Objects \cup {"none"}]
    BY <1>2 DEF McpInv, McpTypeOK, Steps
  <2>2. bare' \in [Calls -> BOOLEAN]
    BY <1>2 DEF McpInv, McpTypeOK
  <2>3. ASSUME NEW d \in Calls, step'[d] = "closing" PROVE using'[d] = "none"
    BY <1>2, <2>3 DEF McpInv
  <2> QED
    BY <2>1, <2>2, <2>3
<1> QED
  BY <1>1, <1>2 DEF Send

(* Every step of the calls and of the daemon keeps the invariant.          *)
LEMMA McpStep == McpInv /\ [McpNext]_mcpVars => McpInv'
<1> SUFFICES ASSUME McpInv, [McpNext]_mcpVars PROVE McpInv'
  OBVIOUS
<1> USE DEF McpInv
<1>1. CASE PollStarts
  <2>1. Polls \in SUBSET Calls
    BY DEF Calls
  <2> QED
    BY <1>1, <2>1, SendKeepsTypes DEF PollStarts, McpTypeOK, sdkVars
<1>2. ASSUME NEW c \in Calls, Answered(c) \/ CallFails(c) \/ RetryFails(c)
      PROVE  McpInv'
  BY <1>2, SettleKeepsTypes DEF Answered, CallFails, RetryFails, McpTypeOK, sdkVars
<1>3. ASSUME NEW c \in Controls, ControlStarts(c)
      PROVE  McpInv'
  <2>1. {c} \in SUBSET Calls
    BY DEF Calls
  <2> QED
    BY <1>3, <2>1, SendKeepsTypes DEF ControlStarts, McpTypeOK, sdkVars
<1>4. ASSUME NEW c \in Calls, Close(c) PROVE McpInv'
  <2>1. sdk' \in [Objects -> {"closed", "opening", "open", "stale"}]
    BY <1>4 DEF Close, McpTypeOK
  <2>2. /\ step' \in [Calls -> Steps] /\ using' \in [Calls -> Objects \cup {"none"}]
        /\ bare' \in [Calls -> BOOLEAN]
    BY <1>4 DEF Close, McpTypeOK, Steps
  <2>3. ASSUME NEW d \in Calls, step'[d] = "closing" PROVE using'[d] = "none"
    BY <1>4, <2>3 DEF Close, McpTypeOK
  <2> QED
    BY <1>4, <2>1, <2>2, <2>3 DEF Close, McpTypeOK
<1>5. ASSUME NEW c \in Calls, Replace(c) PROVE McpInv'
  <2>1. Free \in Objects
    BY <1>5, SlotIsFree DEF Replace
  <2> QED
    BY <1>5, <2>1 DEF Replace, McpTypeOK, Steps
<1>6. ASSUME NEW c \in Calls, Connected(c) PROVE McpInv'
  <2>1. sdk' \in [Objects -> {"closed", "opening", "open", "stale"}]
    BY <1>6 DEF Connected, McpTypeOK
  <2> QED
    BY <1>6, <2>1, SendKeepsTypes DEF Connected, McpTypeOK
<1>7. ASSUME NEW c \in Calls, ConnectFails(c) PROVE McpInv'
  BY <1>7, SettleKeepsTypes DEF ConnectFails, McpTypeOK
<1>8. CASE DaemonDies
  <2>1. restarts' \in 0 .. Restarts
    BY <1>8, McpAssumption DEF DaemonDies, McpTypeOK
  <2>2. sdk' \in [Objects -> {"closed", "opening", "open", "stale"}]
    BY <1>8 DEF DaemonDies, McpTypeOK
  <2> QED
    BY <1>8, <2>1, <2>2 DEF DaemonDies, McpTypeOK, callVars
<1>9. CASE DaemonReturns
  BY <1>9 DEF DaemonReturns, McpTypeOK, sdkVars, callVars
<1>10. CASE UNCHANGED mcpVars
  BY <1>10 DEF mcpVars, sdkVars, callVars, McpTypeOK
<1> QED
  BY <1>1, <1>2, <1>3, <1>4, <1>5, <1>6, <1>7, <1>8, <1>9, <1>10 DEF McpNext

(* The client's variables always have their types, however many calls      *)
(* reconnect at once (dashboard/client.ts:106-118).                        *)
THEOREM McpTypeCorrect == McpSpec => []McpTypeOK
<1>1. McpInit => McpInv
  BY McpAssumption DEF McpInit, McpInv, McpTypeOK, Objects, Steps
<1>2. McpInv => McpTypeOK
  BY DEF McpInv
<1> QED
  BY <1>1, <1>2, McpStep, PTL DEF McpSpec
-----------------------------------------------------------------------------
Live == {"waiting", "connecting", "streaming"}
Spawned == {"connecting", "streaming", "down", "broken"}

PhaseInv ==
  /\ \A s \in Slots : phase[s] \in Live <=> s = handle
  /\ handle # 0 => current = handle
  /\ \A s \in late : phase[s] = "down" /\ current # s
  /\ Mtp => \A s \in Slots : phase[s] \in Spawned <=> s = activeProc
  /\ ~ Mtp => activeProc = 0 /\ \A s \in Slots : phase[s] # "waiting"

BudgetInv ==
  /\ handle # 0 \/ restartTimer => restartCount <= MaxRestarts
  /\ viewers = {} /\ ~ stopped => restartCount = 0

CamInv == PhaseInv /\ BudgetInv /\ PipelineMatchesDemand /\ FrameIsLive
-----------------------------------------------------------------------------
(* The streamer's own steps keep the types (camera.ts:159-220).            *)
LEMMA StartTyped ==
  ASSUME CamTypeOK, NEW on \in BOOLEAN, StartPipeline(on)
  PROVE  /\ {handle', current', activeProc'} \subseteq Slots \cup {0}
         /\ frameSeen' \in BOOLEAN
         /\ phase' \in [Slots -> Phases]
         /\ late' \subseteq Slots
<1>1. CASE on /\ handle = 0
  <2>1. PICK s \in Slots :
          handle' = s /\ current' = s /\ frameSeen' = FALSE /\ Begin(s) /\ UNCHANGED late
    BY <1>1 DEF StartPipeline
  <2>2. phase' \in [Slots -> Phases] /\ activeProc' \in Slots \cup {0}
    BY <2>1 DEF Begin, CamTypeOK, Phases
  <2> QED
    BY <2>1, <2>2 DEF CamTypeOK
<1>2. CASE ~ (on /\ handle = 0)
  BY <1>2 DEF StartPipeline, CamTypeOK, pipeline, spawners
<1> QED
  BY <1>1, <1>2

(* So does a kill (camera.ts:178-182).                                     *)
LEMMA KillTyped ==
  ASSUME CamTypeOK, KillSpawner
  PROVE  /\ {handle', current', activeProc'} \subseteq Slots \cup {0}
         /\ phase' \in [Slots -> Phases]
         /\ late' \subseteq Slots
BY DEF KillSpawner, CamTypeOK, Phases, spawners

(* A start finds a free slot and makes it the one live instance, and the   *)
(* one that has the camera unless it must wait (camera.ts:159-168,         *)
(* 345-361).                                                               *)
LEMMA StartKeepsPhases ==
  ASSUME CamTypeOK, PhaseInv, NEW on \in BOOLEAN, StartPipeline(on), backend' = backend
  PROVE  /\ PhaseInv'
         /\ handle = 0 /\ on => handle' # 0 /\ frameSeen' = FALSE
         /\ handle # 0 \/ ~ on => handle' = handle /\ frameSeen' = frameSeen
<1> USE CameraAssumption
<1>1. CASE on /\ handle = 0
  <2>1. PICK s \in Slots :
          /\ phase[s] = "free" /\ handle' = s /\ current' = s /\ frameSeen' = FALSE
          /\ Begin(s) /\ UNCHANGED late
    BY <1>1 DEF StartPipeline
  <2>2. s # 0 /\ \A t \in Slots : phase[t] \notin Live
    BY <1>1 DEF PhaseInv
  <2>3. phase' \in [Slots -> Phases] /\ \A t \in Slots \ {s} : phase'[t] = phase[t]
    BY <2>1 DEF Begin, CamTypeOK, Phases
  <2>4. /\ phase'[s] \in {"waiting", "connecting"}
        /\ phase'[s] = "waiting" => Mtp /\ activeProc # 0 /\ activeProc' = activeProc
        /\ phase'[s] = "connecting" => activeProc' = (IF Mtp THEN s ELSE activeProc) /\ (Mtp => activeProc = 0)
    BY <2>1 DEF Begin, CamTypeOK
  <2>5. \A t \in Slots : phase'[t] \in Live <=> t = handle'
    BY <2>1, <2>2, <2>3, <2>4 DEF Live
  <2>6. \A t \in late' : phase'[t] = "down" /\ current' # t
    BY <2>1, <2>3 DEF PhaseInv, CamTypeOK
  <2>7. Mtp => \A t \in Slots : phase'[t] \in Spawned <=> t = activeProc'
    BY <2>1, <2>2, <2>3, <2>4 DEF PhaseInv, Live, Spawned
  <2>8. ~ Mtp => activeProc' = 0 /\ \A t \in Slots : phase'[t] # "waiting"
    BY <2>3, <2>4 DEF PhaseInv
  <2> QED
    BY <1>1, <2>1, <2>2, <2>5, <2>6, <2>7, <2>8 DEF PhaseInv, Mtp
<1>2. CASE ~ (on /\ handle = 0)
  BY <1>2 DEF StartPipeline, PhaseInv, pipeline, spawners, Mtp
<1> QED
  BY <1>1, <1>2

(* A kill leaves no live instance, and its process to the one who waits    *)
(* for it (camera.ts:178-183).                                             *)
LEMMA KillKeepsPhases ==
  ASSUME CamTypeOK, PhaseInv, KillSpawner, backend' = backend
  PROVE  PhaseInv' /\ handle' = 0
<1> USE CameraAssumption
<1>1. CASE handle = 0
  BY <1>1 DEF KillSpawner, PhaseInv, spawners, Mtp
<1>2. CASE handle # 0
  <2>1. handle \in Slots /\ phase[handle] \in Live /\ phase \in [Slots -> Phases]
    BY <1>2 DEF PhaseInv, CamTypeOK
  <2>2. /\ handle' = 0 /\ current' = 0 /\ activeProc' = activeProc
        /\ phase' = [phase EXCEPT ![handle] = IF @ = "waiting" THEN "free" ELSE "down"]
        /\ late' = IF Mtp /\ phase[handle] = "streaming" THEN late \cup {handle} ELSE late
    BY <1>2 DEF KillSpawner
  <2>3. \A t \in Slots \ {handle} : phase'[t] = phase[t] /\ phase[t] \notin Live
    BY <2>1, <2>2 DEF PhaseInv
  <2>4. phase'[handle] = IF phase[handle] = "waiting" THEN "free" ELSE "down"
    BY <2>1, <2>2
  <2>5. \A s \in Slots : phase'[s] \in Live <=> s = handle'
    BY <2>2, <2>3, <2>4 DEF Live
  <2>6. \A s \in late' : phase'[s] = "down" /\ current' # s
    BY <2>1, <2>2, <2>3, <2>4 DEF PhaseInv, CamTypeOK, Live
  <2>7. Mtp => \A s \in Slots : phase'[s] \in Spawned <=> s = activeProc
    BY <2>1, <2>3, <2>4 DEF PhaseInv, Live, Spawned
  <2>8. ~ Mtp => activeProc = 0 /\ \A s \in Slots : phase'[s] # "waiting"
    BY <2>3, <2>4 DEF PhaseInv
  <2> QED
    BY <2>2, <2>5, <2>6, <2>7, <2>8 DEF PhaseInv, Mtp
<1> QED
  BY <1>1, <1>2
-----------------------------------------------------------------------------
(* The steps of one spawner instance s that are not the streamer's own.    *)
SpawnerStep(s) ==
  \/ Begins(s)
  \/ Connects(s)
  \/ Reconnects(s)
  \/ Frame(s)
  \/ LateFrame(s)
  \/ RelayEnds(s)
  \/ Exits(s)
  \/ SpawnFails(s)

(* The streamer's variables always have their types: the count of restarts *)
(* goes one beyond the budget and no further (camera.ts:189-213).          *)
LEMMA CamTyped ==
  ASSUME CamTypeOK, CamInv, [CamNext]_camVars
  PROVE  CamTypeOK'
<1>0. {0, 1} \subseteq 0 .. MaxRestarts + 1
  BY CameraAssumption
<1>1. CASE Enable
  <2>1. (viewers # {}) \in BOOLEAN /\ StartPipeline(viewers # {})
    BY <1>1 DEF Enable
  <2> QED
    BY <1>0, <1>1, <2>1, StartTyped DEF Enable, CamTypeOK
<1>2. CASE Disable
  BY <1>0, <1>2, KillTyped DEF Disable, CamTypeOK
<1>3. ASSUME NEW v \in Viewers, Attach(v) PROVE CamTypeOK'
  <2>1. (enabled /\ viewers = {}) \in BOOLEAN /\ StartPipeline(enabled /\ viewers = {})
    BY <1>3 DEF Attach
  <2> QED
    BY <1>3, <2>1, StartTyped DEF Attach, CamTypeOK, budget
<1>4. ASSUME NEW v \in Viewers, Detach(v) PROVE CamTypeOK'
  <2>1. CASE viewers = {v}
    BY <1>0, <1>4, <2>1, KillTyped DEF Detach, CamTypeOK
  <2>2. CASE viewers # {v}
    BY <1>4, <2>2 DEF Detach, CamTypeOK, budget, spawners
  <2> QED
    BY <2>1, <2>2
<1>5. CASE StopStreamer
  BY <1>5, KillTyped DEF StopStreamer, CamTypeOK
<1>6. CASE RestartFires
  <2>1. (enabled /\ ~ stopped) \in BOOLEAN /\ StartPipeline(enabled /\ ~ stopped)
    BY <1>6 DEF RestartFires
  <2> QED
    BY <1>6, <2>1, StartTyped DEF RestartFires, CamTypeOK, switches
<1>7. ASSUME NEW s \in Slots, SpawnerStep(s) PROVE CamTypeOK'
  <2>0. /\ phase' \in [Slots -> Phases] /\ late' \subseteq Slots
        /\ {current', activeProc'} \subseteq Slots \cup {0}
        /\ UNCHANGED switches
    BY <1>7 DEF SpawnerStep, Begins, Begin, Connects, Reconnects, Frame, LateFrame, RelayEnds,
       Exits, SpawnFails, CamTypeOK, Phases, pipeline, spawners
  <2>1. CASE ExitReported(s) /\ frameSeen' = frameSeen /\ current = s
             /\ phase[s] \in {"connecting", "streaming"}
    <3>1. restartCount + 1 \in 0 .. MaxRestarts + 1
      BY <2>1, CameraAssumption DEF CamInv, PhaseInv, BudgetInv, CamTypeOK, Live
    <3>2. HandleExit
      BY <2>1 DEF ExitReported
    <3>3. restartCount' \in {restartCount, 1, restartCount + 1}
      BY <3>2 DEF HandleExit, budget
    <3>4. restartCount' \in 0 .. MaxRestarts + 1
      BY <1>0, <3>1, <3>3 DEF CamTypeOK
    <3>5. handle' = 0 /\ restartTimer' \in BOOLEAN /\ latestFrame' \in {0, latestFrame}
      BY <3>2 DEF HandleExit, CamTypeOK, budget
    <3> QED
      BY <2>0, <2>1, <3>4, <3>5 DEF CamTypeOK, switches
  <2>2. CASE UNCHANGED <<handle, budget, latestFrame, frameSeen>>
    BY <2>0, <2>2 DEF CamTypeOK, switches, budget
  <2>3. CASE PushFrame(s) /\ UNCHANGED <<handle, budget>>
    BY <2>0, <2>3 DEF CamTypeOK, switches, budget, PushFrame
  <2> QED
    BY <1>7, <2>1, <2>2, <2>3 DEF SpawnerStep, Begins, Connects, Reconnects, Frame, LateFrame,
       RelayEnds, Exits, SpawnFails, ExitReported, pipeline, budget, CamInv, PhaseInv
<1>8. CASE UNCHANGED camVars
  BY <1>8 DEF CamTypeOK, camVars, switches, pipeline, budget, spawners
<1> QED
  BY <1>1, <1>2, <1>3, <1>4, <1>5, <1>6, <1>7, <1>8 DEF CamNext, SpawnerStep

(* One live instance, the handle's, and one process that is not gone       *)
(* (camera.ts:121-183, 287-361).                                           *)
LEMMA PhaseStep ==
  ASSUME CamTypeOK, CamInv, [CamNext]_camVars
  PROVE  PhaseInv'
<1>0. PhaseInv
  BY DEF CamInv
<1>1. CASE Enable
  BY <1>0, <1>1, StartKeepsPhases DEF Enable
<1>2. CASE Disable
  BY <1>0, <1>2, KillKeepsPhases DEF Disable
<1>3. ASSUME NEW v \in Viewers, Attach(v) PROVE PhaseInv'
  <2>1. (enabled /\ viewers = {}) \in BOOLEAN /\ StartPipeline(enabled /\ viewers = {})
        /\ backend' = backend
    BY <1>3 DEF Attach
  <2> QED
    BY <1>0, <2>1, StartKeepsPhases
<1>4. ASSUME NEW v \in Viewers, Detach(v) PROVE PhaseInv'
  <2>1. CASE viewers = {v}
    BY <1>0, <1>4, <2>1, KillKeepsPhases DEF Detach
  <2>2. CASE viewers # {v}
    BY <1>0, <1>4, <2>2 DEF Detach, PhaseInv, spawners, Mtp
  <2> QED
    BY <2>1, <2>2
<1>5. CASE StopStreamer
  BY <1>0, <1>5, KillKeepsPhases DEF StopStreamer
<1>6. CASE RestartFires
  <2>1. (enabled /\ ~ stopped) \in BOOLEAN /\ StartPipeline(enabled /\ ~ stopped)
        /\ backend' = backend
    BY <1>6 DEF RestartFires, switches
  <2> QED
    BY <1>0, <2>1, StartKeepsPhases
<1>7. ASSUME NEW s \in Slots, SpawnerStep(s) PROVE PhaseInv'
  <2> USE CameraAssumption
  <2>0. s # 0 /\ phase \in [Slots -> Phases] /\ late \subseteq Slots
    BY DEF CamTypeOK
  <2>1. CASE Begins(s)
    <3>1. /\ phase[s] = "waiting" /\ activeProc = 0 /\ Mtp
          /\ phase' = [phase EXCEPT ![s] = "connecting"] /\ activeProc' = s
          /\ UNCHANGED <<backend, handle, current, late>>
      BY <1>0, <2>1 DEF Begins, Begin, PhaseInv, switches, pipeline
    <3> QED
      BY <1>0, <2>0, <3>1 DEF PhaseInv, Live, Spawned, Mtp
  <2>2. CASE Connects(s) \/ Reconnects(s)
    <3>1. /\ phase[s] \in {"connecting", "streaming"}
          /\ \E to \in {"connecting", "streaming"} : phase' = [phase EXCEPT ![s] = to]
          /\ UNCHANGED <<backend, handle, current, late, activeProc>>
      BY <2>2 DEF Connects, Reconnects, switches, pipeline
    <3> QED
      BY <1>0, <2>0, <3>1 DEF PhaseInv, Live, Spawned, Mtp
  <2>3. CASE Frame(s)
    BY <1>0, <2>3 DEF Frame, PhaseInv, switches, spawners, Mtp
  <2>4. CASE LateFrame(s)
    BY <1>0, <2>4 DEF LateFrame, PhaseInv, switches, Mtp
  <2>5. CASE RelayEnds(s)
    <3>1. /\ phase[s] \in {"connecting", "streaming"} /\ s = handle /\ s = current /\ Mtp
          /\ phase' = [phase EXCEPT ![s] = "down"] /\ handle' = 0
          /\ UNCHANGED <<backend, current, late, activeProc>>
      BY <1>0, <2>5 DEF RelayEnds, ExitReported, HandleExit, PhaseInv, Live, switches
    <3> QED
      BY <1>0, <2>0, <3>1 DEF PhaseInv, Live, Spawned, Mtp
  <2>6. CASE Exits(s)
    <3>1. /\ phase[s] \in {"connecting", "streaming", "down"}
          /\ phase' = [phase EXCEPT ![s] = "free"] /\ late' = late \ {s}
          /\ activeProc' = IF activeProc = s THEN 0 ELSE activeProc
          /\ handle' = IF s = handle THEN 0 ELSE handle
          /\ UNCHANGED <<backend, current>>
      BY <1>0, <2>6 DEF Exits, ExitReported, HandleExit, PhaseInv, Live, switches
    <3> QED
      BY <1>0, <2>0, <3>1 DEF PhaseInv, Live, Spawned, Mtp
  <2>7. CASE SpawnFails(s)
    <3>1. /\ phase[s] = "connecting" /\ s = handle
          /\ phase' = [phase EXCEPT ![s] = IF Mtp THEN "broken" ELSE "free"] /\ handle' = 0
          /\ UNCHANGED <<backend, current, late, activeProc>>
      BY <1>0, <2>7 DEF SpawnFails, ExitReported, HandleExit, PhaseInv, Live, switches
    <3> QED
      BY <1>0, <2>0, <3>1 DEF PhaseInv, Live, Spawned, Mtp
  <2> QED
    BY <1>7, <2>1, <2>2, <2>3, <2>4, <2>5, <2>6, <2>7 DEF SpawnerStep
<1>8. CASE UNCHANGED camVars
  BY <1>0, <1>8 DEF PhaseInv, Mtp, camVars, switches, pipeline, spawners
<1> QED
  BY <1>1, <1>2, <1>3, <1>4, <1>5, <1>6, <1>7, <1>8 DEF CamNext, SpawnerStep

(* Demand, budget and frames follow the one live instance (camera.ts:      *)
(* 99-146, 189-220).                                                       *)
LEMMA DemandStep ==
  ASSUME CamTypeOK, CamInv, [CamNext]_camVars
  PROVE  BudgetInv' /\ PipelineMatchesDemand' /\ FrameIsLive'
<1> USE CameraAssumption
<1>0. PhaseInv /\ BudgetInv /\ PipelineMatchesDemand /\ FrameIsLive
      /\ restartCount \in 0 .. MaxRestarts + 1
  BY DEF CamInv, CamTypeOK
<1>9. PhaseInv'
  BY PhaseStep
<1>1. CASE Enable
  <2>1. /\ viewers # {} => handle' # 0
        /\ handle = 0 /\ viewers # {} => frameSeen' = FALSE
        /\ handle # 0 \/ viewers = {} => handle' = handle /\ frameSeen' = frameSeen
    BY <1>0, <1>1, StartKeepsPhases DEF Enable
  <2> QED
    BY <1>0, <1>1, <1>9, <2>1 DEF Enable, PhaseInv, BudgetInv, PipelineMatchesDemand, FrameIsLive
<1>2. CASE Disable
  BY <1>0, <1>2, KillKeepsPhases
     DEF Disable, BudgetInv, PipelineMatchesDemand, FrameIsLive
<1>3. ASSUME NEW v \in Viewers, Attach(v)
      PROVE  BudgetInv' /\ PipelineMatchesDemand' /\ FrameIsLive'
  <2>1. (enabled /\ viewers = {}) \in BOOLEAN /\ StartPipeline(enabled /\ viewers = {})
        /\ backend' = backend
    BY <1>3 DEF Attach
  <2>2. /\ handle = 0 /\ enabled /\ viewers = {} => handle' # 0 /\ frameSeen' = FALSE
        /\ handle # 0 \/ ~ (enabled /\ viewers = {})
             => handle' = handle /\ frameSeen' = frameSeen
    BY <1>0, <2>1, StartKeepsPhases
  <2> QED
    BY <1>0, <1>3, <1>9, <2>2
       DEF Attach, PhaseInv, BudgetInv, PipelineMatchesDemand, FrameIsLive, budget
<1>4. ASSUME NEW v \in Viewers, Detach(v)
      PROVE  BudgetInv' /\ PipelineMatchesDemand' /\ FrameIsLive'
  <2>1. CASE viewers = {v}
    <3>1. handle' = 0 /\ viewers' = {}
      BY <1>0, <1>4, <2>1, KillKeepsPhases DEF Detach
    <3> QED
      BY <1>0, <1>4, <2>1, <3>1 DEF Detach, BudgetInv, PipelineMatchesDemand, FrameIsLive
  <2>2. CASE viewers # {v}
    <3>1. viewers # {} /\ viewers' # {}
      BY <1>4, <2>2 DEF Detach
    <3> QED
      BY <1>0, <1>4, <2>2, <3>1
         DEF Detach, BudgetInv, PipelineMatchesDemand, FrameIsLive, budget
  <2> QED
    BY <2>1, <2>2
<1>5. CASE StopStreamer
  BY <1>0, <1>5, KillKeepsPhases
     DEF StopStreamer, BudgetInv, PipelineMatchesDemand, FrameIsLive
<1>6. CASE RestartFires
  <2>1. enabled /\ ~ stopped /\ viewers # {} /\ handle = 0
    BY <1>0, <1>6 DEF RestartFires, PipelineMatchesDemand
  <2>2. handle' # 0 /\ frameSeen' = FALSE
    BY <1>0, <1>6, <2>1, StartKeepsPhases DEF RestartFires, switches
  <2> QED
    BY <1>0, <1>6, <1>9, <2>1, <2>2
       DEF RestartFires, PhaseInv, BudgetInv, PipelineMatchesDemand, FrameIsLive, switches
<1>7. ASSUME NEW s \in Slots, SpawnerStep(s)
      PROVE  BudgetInv' /\ PipelineMatchesDemand' /\ FrameIsLive'
  <2>0. s # 0 /\ UNCHANGED <<enabled, stopped, viewers, current>>
    BY <1>7 DEF SpawnerStep, Begins, Connects, Reconnects, Frame, LateFrame, RelayEnds, Exits,
       SpawnFails, switches, pipeline
  <2>1. CASE UNCHANGED <<handle, budget, latestFrame, frameSeen>>
    BY <1>0, <2>0, <2>1 DEF BudgetInv, PipelineMatchesDemand, FrameIsLive, budget
  <2>2. CASE /\ s = handle /\ handle' = 0 /\ frameSeen' = frameSeen
             /\ HandleExit
    <3>1. enabled /\ ~ stopped /\ viewers # {} /\ ~ restartTimer /\ restartCount <= MaxRestarts
      BY <1>0, <2>0, <2>2 DEF BudgetInv, PipelineMatchesDemand
    <3>2. restartCount' \in Nat
      BY <1>0, <2>2, <3>1 DEF HandleExit
    <3> QED
      BY <1>0, <2>0, <2>2, <3>1, <3>2
         DEF HandleExit, BudgetInv, PipelineMatchesDemand, FrameIsLive, budget
  <2>3. CASE s = handle /\ PushFrame(s) /\ UNCHANGED <<handle, budget>>
    BY <1>0, <2>0, <2>3 DEF PushFrame, BudgetInv, PipelineMatchesDemand, FrameIsLive, budget
  <2>4. \/ UNCHANGED <<handle, budget, latestFrame, frameSeen>>
        \/ s = handle /\ handle' = 0 /\ frameSeen' = frameSeen /\ HandleExit
        \/ s = handle /\ PushFrame(s) /\ UNCHANGED <<handle, budget>>
    BY <1>0, <1>7 DEF SpawnerStep, Begins, Connects, Reconnects, Frame, LateFrame, RelayEnds,
       Exits, SpawnFails, ExitReported, HandleExit, PhaseInv, Live, pipeline, budget
  <2> QED
    BY <2>1, <2>2, <2>3, <2>4
<1>8. CASE UNCHANGED camVars
  BY <1>0, <1>8 DEF BudgetInv, PipelineMatchesDemand, FrameIsLive, camVars, switches, pipeline,
     budget
<1> QED
  BY <1>1, <1>2, <1>3, <1>4, <1>5, <1>6, <1>7, <1>8 DEF CamNext, SpawnerStep
-----------------------------------------------------------------------------
(* The types and the invariant, of every reachable state.                  *)
THEOREM CamInvariant == CamSpec => [](CamTypeOK /\ CamInv)
<1>1. CamInit => CamTypeOK /\ CamInv
  <2> SUFFICES ASSUME CamInit PROVE CamTypeOK /\ CamInv
    OBVIOUS
  <2>1. CamTypeOK
    <3>1. 0 \in 0 .. MaxRestarts + 1
      BY CameraAssumption
    <3> QED
      BY <3>1 DEF CamInit, CamTypeOK, Phases
  <2>2. PhaseInv
    BY CameraAssumption DEF CamInit, PhaseInv, Live, Spawned
  <2>3. BudgetInv /\ PipelineMatchesDemand /\ FrameIsLive
    BY CameraAssumption DEF CamInit, BudgetInv, PipelineMatchesDemand, FrameIsLive
  <2> QED
    BY <2>1, <2>2, <2>3 DEF CamInv
<1>2. (CamTypeOK /\ CamInv) /\ [CamNext]_camVars => (CamTypeOK /\ CamInv)'
  BY CamTyped, PhaseStep, DemandStep DEF CamInv
<1> QED
  BY <1>1, <1>2, PTL DEF CamSpec

(* Only one mtplvcap holds the camera at a time (camera.ts:287-291).       *)
THEOREM AlwaysOneMtplvcap == CamSpec => []OneMtplvcap
<1>1. CamTypeOK /\ CamInv => OneMtplvcap
  BY DEF CamInv, PhaseInv, OneMtplvcap, Processes, Spawned
<1> QED
  BY <1>1, CamInvariant, PTL

(* A pipeline or a pending restart exactly as demanded                     *)
(* (camera.ts:68-146, 161-213).                                            *)
THEOREM AlwaysMatchesDemand == CamSpec => []PipelineMatchesDemand
<1>1. CamTypeOK /\ CamInv => PipelineMatchesDemand
  BY DEF CamInv
<1> QED
  BY <1>1, CamInvariant, PTL

(* No frame outlives a disarmed camera, and "streaming" means a frame of   *)
(* this very pipeline (camera.ts:68-76, 89-95, 110-119).                   *)
THEOREM FrameAlwaysLive == CamSpec => []FrameIsLive
<1>1. CamTypeOK /\ CamInv => FrameIsLive
  BY DEF CamInv
<1> QED
  BY <1>1, CamInvariant, PTL

(* Whoever waits for the camera waits for a process told to stop, or for   *)
(* one that never came to be (camera.ts:302-315).                          *)
THEOREM AlwaysWaitsForTheStopped == CamSpec => []WaitsForTheStopped
<1>1. CamTypeOK /\ CamInv => WaitsForTheStopped
  <2> SUFFICES ASSUME CamTypeOK, CamInv, activeProc # 0,
                      NEW s \in Slots, phase[s] = "waiting"
               PROVE  phase[activeProc] \in {"down", "broken"}
    BY DEF WaitsForTheStopped
  <2>1. s = handle /\ activeProc \in Slots /\ Mtp
    BY DEF CamInv, PhaseInv, Live, CamTypeOK
  <2>2. phase[activeProc] \in Spawned /\ activeProc # s
    BY <2>1 DEF CamInv, PhaseInv, Spawned
  <2> QED
    BY <2>1, <2>2 DEF CamInv, PhaseInv, Live, Spawned
<1> QED
  BY <1>1, CamInvariant, PTL
=============================================================================
