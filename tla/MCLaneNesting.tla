---------------------------- MODULE MCLaneNesting ----------------------------
(***************************************************************************)
(* Instances of LaneNesting: a cron job run by the timer and by cron.run   *)
(* on one session and lane "cron", next to a chat run of another session   *)
(* on lane "main".                                                         *)
(***************************************************************************)
EXTENDS LaneNesting, TLC

Sessions == {"s1", "s2"}
Names == {"main", "cron"}

CronRun == {"timer", "manual", "chat"}
CronSession == [r \in CronRun |-> IF r = "chat" THEN "s2" ELSE "s1"]
CronLane == [r \in CronRun |-> IF r = "chat" THEN "none" ELSE "cron"]
CronManual == {"manual"}
=============================================================================
