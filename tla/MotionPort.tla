----------------------------- MODULE MotionPort -----------------------------
(***************************************************************************)
(* The part of tb3-mcp/src/device.ts every mover of the rig shares: one    *)
(* standing jog vector with a time to live, the latch that refuses new     *)
(* ones, and the POST /api/stop requests that have been fired and not yet  *)
(* answered.  The modules that move the rig (the tracking session, the sun *)
(* supervisor, the tools) extend this one and use its operators as the     *)
(* bodies of their handlers.                                               *)
(*                                                                         *)
(* A vector is known here by who set it last, not by its x and y: what can *)
(* go wrong is a vector standing for a mover that is no longer entitled to *)
(* it.  The keep-alive timer runs exactly while a vector stands            *)
(* (device.ts:198-214, 230-243), so it has no variable of its own.         *)
(***************************************************************************)

VARIABLES
  jogVec,     \* Device.jogVec: who set the standing vector, or "none"
  jogLocked,  \* Device.jogLocked
  stopPost    \* some POST /api/stop is on its way to the rig

port == <<jogVec, jogLocked, stopPost>>

Movers == {"session", "manual"}

PortTypeOK ==
  /\ jogVec \in Movers \cup {"none"}
  /\ jogLocked \in BOOLEAN
  /\ stopPost \in BOOLEAN

PortInit ==
  /\ jogVec = "none"
  /\ jogLocked = FALSE
  /\ stopPost = FALSE

ClearJog == jogVec' = "none"

(* Mutant: the latch is not asked.                                         *)
SetJogVectorUnlatched(mover) == jogVec' = mover

(* A latched port ignores the call and keeps whatever vector stands.       *)
SetJogVector(mover) == jogVec' = IF jogLocked THEN jogVec ELSE mover

LockJog == jogLocked' = TRUE /\ ClearJog

UnlockJog == jogLocked' = FALSE

(* device.stop(), fired and not awaited, when the caller's condition holds *)
PostStopIf(condition) == stopPost' = (stopPost \/ condition)

(* pumpJog finds a vector older than its TTL.  Every vector carries one    *)
(* and any refresh may be late, so a vector may expire at any time.        *)
JogExpires ==
  /\ jogVec # "none"
  /\ ClearJog
  /\ UNCHANGED <<jogLocked, stopPost>>

(* The stop request is answered, or is lost: its failure is swallowed.     *)
StopSettles ==
  /\ stopPost
  /\ stopPost' = FALSE
  /\ UNCHANGED <<jogVec, jogLocked>>
=============================================================================
