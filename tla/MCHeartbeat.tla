----------------------------- MODULE MCHeartbeat -----------------------------
(***************************************************************************)
(* Wakes of one session and of everyone.                                   *)
(***************************************************************************)
EXTENDS HeartbeatRunner

CONSTANTS session
=============================================================================
