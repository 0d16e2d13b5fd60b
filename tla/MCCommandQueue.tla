--------------------------- MODULE MCCommandQueue ---------------------------
(***************************************************************************)
(* A small instance of CommandQueue: commands "a" and "b" share a lane and *)
(* the task of "b" awaits "c", on the other lane.                          *)
(***************************************************************************)
EXTENDS CommandQueueRefinement, TLC

TwoLanesCmd == {"a", "b", "c"}
TwoLanes == {"session", "global"}
TwoLanesOf == "a" :> "session" @@ "b" :> "session" @@ "c" :> "global"
TwoLanesInner == "a" :> NoCmd @@ "b" :> "c" @@ "c" :> NoCmd
=============================================================================
