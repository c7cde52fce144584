----------------------------- MODULE McpSession -----------------------------
(***************************************************************************)
(* A client of the daemon over MCP (dashboard/client.ts, and agent/        *)
(* mcp-client.ts, which shares its text): one SDK client object, shared by *)
(* calls that run concurrently, each of which closes it, builds another,   *)
(* connects it and retries once when the daemon no longer knows its        *)
(* session.  The daemon (server.ts, POST /mcp) forgets every session when  *)
(* it restarts.                                                            *)
(*                                                                         *)
(* SDK client objects live in a pool of slots; a slot is free again when   *)
(* neither this.client nor a call in progress refers to it.                *)
(***************************************************************************)
EXTENDS Naturals, FiniteSets

CONSTANTS
  Polls,       \* the legs of the poll, called together once all have settled
  Controls,    \* calls at any moment, once each: the operator's, and legs the poll gave up on
  Restarts     \* bound on restarts of the daemon

Calls == Polls \cup Controls

ASSUME McpAssumption ==
  /\ IsFiniteSet(Calls) /\ Polls \cap Controls = {}
  /\ Calls \cap {"first", "none"} = {}
  /\ Restarts \in Nat

VARIABLES
  up,        \* the daemon is running
  restarts,  \* its restarts so far
  sdk,       \* per slot, the SDK client object: what its transport can do
  shared,    \* this.client
  step,      \* per call, the await it is at
  using,     \* per call, the object that await is on
  bare,      \* per call, its request went out before the session was known
  refused    \* history: a connect failed at the daemon's end

sdkVars == <<sdk, shared>>
callVars == <<step, using, bare>>
mcpVars == <<up, restarts, sdkVars, callVars, refused>>

Objects == Calls \cup {"first"}
Steps == {"new", "sent", "closing", "connecting", "again", "done"}

(* "closed": no transport; "opening": initialize not answered; "open": a   *)
(* session the daemon knows; "stale": one it has forgotten.                *)
McpTypeOK ==
  /\ up \in BOOLEAN
  /\ restarts \in 0 .. Restarts
  /\ sdk \in [Objects -> {"closed", "opening", "open", "stale"}]
  /\ shared \in Objects
  /\ step \in [Calls -> Steps]
  /\ using \in [Calls -> Objects \cup {"none"}]
  /\ bare \in [Calls -> BOOLEAN]
  /\ refused \in BOOLEAN

Settled(c) == step[c] \in {"new", "done"}
Free == CHOOSE o \in Objects : o # shared /\ \A c \in Calls : using[c] # o

(* main() tolerates a connect that fails at startup.                       *)
McpInit ==
  /\ up = TRUE
  /\ restarts = 0
  /\ refused \in BOOLEAN
  /\ sdk = [o \in Objects |-> IF o = "first" /\ ~ refused THEN "open" ELSE "closed"]
  /\ shared = "first"
  /\ step = [c \in Calls |-> "new"]
  /\ using = [c \in Calls |-> "none"]
  /\ bare = [c \in Calls |-> FALSE]

Settle(C) ==
  /\ step' = [c \in Calls |-> IF c \in C THEN "done" ELSE step[c]]
  /\ using' = [c \in Calls |-> IF c \in C THEN "none" ELSE using[c]]
  /\ bare' = [c \in Calls |-> c \notin C /\ bare[c]]

(* callTool on this.client by the calls of C: without a transport it       *)
(* throws "Not connected" at once, which is no session error.              *)
Send(C, at) ==
  IF sdk'[shared] = "closed"
    THEN Settle(C)
    ELSE /\ step' = [c \in Calls |-> IF c \in C THEN at ELSE step[c]]
         /\ using' = [c \in Calls |-> IF c \in C THEN shared ELSE using[c]]
         /\ bare' = [c \in Calls |-> IF c \in C THEN sdk'[shared] = "opening" ELSE bare[c]]

PollStarts ==
  /\ \A c \in Polls : Settled(c)
  /\ UNCHANGED sdkVars
  /\ Send(Polls, "sent")
  /\ UNCHANGED <<up, restarts, refused>>

ControlStarts(c) ==
  /\ step[c] = "new"
  /\ UNCHANGED sdkVars
  /\ Send({c}, "sent")
  /\ UNCHANGED <<up, restarts, refused>>

Answered(c) ==
  /\ step[c] \in {"sent", "again"}
  /\ up
  /\ ~ bare[c]
  /\ sdk[using[c]] = "open"
  /\ Settle({c})
  /\ UNCHANGED <<up, restarts, sdkVars, refused>>

(* Refused, timed out, or the daemon is not there: not a session error.    *)
CallFails(c) ==
  /\ step[c] \in {"sent", "again"}
  /\ Settle({c})
  /\ UNCHANGED <<up, restarts, sdkVars, refused>>

(* What isSessionError matches: the daemon's "no valid session", and the   *)
(* SDK's own "Connection closed" (-32000) when another call closed the     *)
(* object under this one.                                                  *)
SessionError(c) ==
  \/ up /\ (bare[c] \/ sdk[using[c]] = "stale")
  \/ sdk[using[c]] = "closed"

(* reconnect(): close whatever this.client is by now.                      *)
Close(c) ==
  /\ step[c] = "sent"
  /\ SessionError(c)
  /\ sdk' = [sdk EXCEPT ![shared] = "closed"]
  /\ step' = [step EXCEPT ![c] = "closing"]
  /\ using' = [using EXCEPT ![c] = "none"]
  /\ bare' = [bare EXCEPT ![c] = FALSE]
  /\ UNCHANGED <<up, restarts, shared, refused>>

(* Mutant: no second client while another call is connecting one.          *)
ReplaceUnlessConnecting(c) ==
  /\ step[c] = "closing"
  /\ IF \E d \in Calls : step[d] = "connecting"
       THEN Settle({c}) /\ UNCHANGED sdkVars
       ELSE /\ shared' = Free
            /\ sdk' = [sdk EXCEPT ![Free] = "opening"]
            /\ step' = [step EXCEPT ![c] = "connecting"]
            /\ using' = [using EXCEPT ![c] = Free]
            /\ UNCHANGED bare
  /\ UNCHANGED <<up, restarts, refused>>

Replace(c) ==
  /\ step[c] = "closing"
  /\ shared' = Free
  /\ sdk' = [sdk EXCEPT ![Free] = "opening"]
  /\ step' = [step EXCEPT ![c] = "connecting"]
  /\ using' = [using EXCEPT ![c] = Free]
  /\ UNCHANGED <<up, restarts, bare, refused>>

(* The daemon answers initialize; the retry goes to this.client, which may *)
(* be another call's by now and not yet open.                              *)
Connected(c) ==
  /\ step[c] = "connecting"
  /\ up
  /\ sdk[using[c]] = "opening"
  /\ sdk' = [sdk EXCEPT ![using[c]] = "open"]
  /\ UNCHANGED shared
  /\ Send({c}, "again")
  /\ UNCHANGED <<up, restarts, refused>>

(* initialize fails, and the SDK closes the object; or it was closed by    *)
(* another call's reconnect.  Either way this call is over.                *)
ConnectFails(c) ==
  /\ step[c] = "connecting"
  /\ sdk' = [sdk EXCEPT ![using[c]] = "closed"]
  /\ refused' = (refused \/ sdk[using[c]] # "closed")
  /\ Settle({c})
  /\ UNCHANGED <<up, restarts, shared>>

(* The retry meets a session error: nobody retries a second time.          *)
RetryFails(c) ==
  /\ step[c] = "again"
  /\ SessionError(c)
  /\ Settle({c})
  /\ UNCHANGED <<up, restarts, sdkVars, refused>>

DaemonDies ==
  /\ up
  /\ restarts < Restarts
  /\ up' = FALSE
  /\ restarts' = restarts + 1
  /\ sdk' = [o \in Objects |-> IF sdk[o] = "open" THEN "stale" ELSE sdk[o]]
  /\ UNCHANGED <<shared, callVars, refused>>

DaemonReturns ==
  /\ ~ up
  /\ up' = TRUE
  /\ UNCHANGED <<restarts, sdkVars, callVars, refused>>

McpNext ==
  \/ PollStarts
  \/ \E c \in Controls : ControlStarts(c)
  \/ \E c \in Calls :
       \/ Answered(c)
       \/ CallFails(c)
       \/ Close(c)
       \/ Replace(c)
       \/ Connected(c)
       \/ ConnectFails(c)
       \/ RetryFails(c)
  \/ DaemonDies
  \/ DaemonReturns

McpSpec == McpInit /\ [][McpNext]_mcpVars

CallSettles(c) ==
  Answered(c) \/ CallFails(c) \/ Replace(c) \/ Connected(c) \/ ConnectFails(c) \/ RetryFails(c)

(* Every await settles (the SDK gives up after 60 s), the daemon is        *)
(* restarted by systemd; a daemon that is up does answer a call without a  *)
(* session, if not every time.  And the poll's timer goes on.              *)
McpProgress ==
  /\ WF_mcpVars(DaemonReturns)
  /\ \A c \in Calls :
       /\ WF_mcpVars(CallSettles(c))
       /\ SF_mcpVars(Close(c))

FairMcpSpec == McpSpec /\ McpProgress /\ WF_mcpVars(PollStarts)
-----------------------------------------------------------------------------
(* agent/mcp-client.ts:30-35: a restart of the daemon does not break its   *)
(* clients for good, however their calls close each other's connections.   *)
(* A connect the daemon's end refused does: its object stays unconnected,  *)
(* and "Not connected" is no session error.                                *)
HealsAfterRestart == sdk[shared] # "open" ~> sdk[shared] = "open" \/ refused
=============================================================================
