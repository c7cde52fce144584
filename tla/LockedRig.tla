------------------------------ MODULE LockedRig -----------------------------
(***************************************************************************)
(* What the sun guard promises everybody else, whatever it does inside:    *)
(* engaging its lock stops the session and drops the standing vector,      *)
(* nothing sets a vector while it is engaged, and a session that finds a   *)
(* way to start under it does not last.  SunSupervisor is shown to keep    *)
(* this promise, and RigDaemon builds the tools on it.                     *)
(***************************************************************************)

VARIABLES
  locked,    \* the lock is engaged
  vector,    \* who set the standing jog vector, or "none"
  sessionOn  \* a tracking session is active

vars == <<locked, vector, sessionOn>>

Init ==
  /\ locked = FALSE
  /\ vector = "none"
  /\ sessionOn = FALSE

Engage ==
  /\ ~ locked
  /\ locked' = TRUE
  /\ vector' = "none"
  /\ sessionOn' = FALSE

(* The session that runs under the lock may or may not be stopped with it. *)
Release ==
  /\ locked
  /\ locked' = FALSE
  /\ sessionOn' \in {sessionOn, FALSE}
  /\ UNCHANGED vector

SessionStarts ==
  /\ sessionOn' = TRUE
  /\ vector' = "none"
  /\ UNCHANGED locked

SessionStops ==
  /\ sessionOn' = FALSE
  /\ vector' = "none"
  /\ UNCHANGED locked

(* Only a running session's rate or a manual one, and only unlocked.       *)
SetVector ==
  /\ ~ locked
  /\ vector' \in {"manual"} \cup IF sessionOn THEN {"session"} ELSE {}
  /\ UNCHANGED <<locked, sessionOn>>

DropVector ==
  /\ vector' = "none"
  /\ UNCHANGED <<locked, sessionOn>>

Next ==
  \/ Engage
  \/ Release
  \/ SessionStarts
  \/ SessionStops
  \/ SetVector
  \/ DropVector

Safety == Init /\ [][Next]_vars

Spec == Safety /\ []<>~ (locked /\ sessionOn)
=============================================================================
