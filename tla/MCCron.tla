------------------------------- MODULE MCCron -------------------------------
(***************************************************************************)
(* Instances of the cron scheduler: a recurring and a one-shot job.        *)
(***************************************************************************)
EXTENDS CronProperties, TLC

TwoJobs == {"daily", "once"}
CronAndAt == "daily" :> "cron" @@ "once" :> "at"
EveryAndAt == "daily" :> "every" @@ "once" :> "at"
OneJob == {"daily"}
CronOnly == "daily" :> "cron"
KeepDaily == "daily" :> FALSE
NoOps == [j \in TwoJobs |-> {}]
EditOps == "daily" :> {"enable"} @@ "once" :> {"add", "schedule", "other", "run"}
HandoverOps == "daily" :> {"read", "remove"}
KeepBoth == [j \in TwoJobs |-> FALSE]
=============================================================================
