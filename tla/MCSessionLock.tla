---------------------------- MODULE MCSessionLock ----------------------------
(***************************************************************************)
(* Two calls of the gateway and one of another process on one session.     *)
(***************************************************************************)
EXTENDS SessionWriteLock, TLC

Gateway == "gateway"
Processes == {"gateway", "cli"}
Calls == {"a", "b", "c"}
Owners == "a" :> "gateway" @@ "b" :> "gateway" @@ "c" :> "cli"
Limited == {"a"}
=============================================================================
