--------------------------- MODULE MCFollowupQueue ---------------------------
(***************************************************************************)
(* Small instances of FollowupQueue: three messages, of which two share an  *)
(* origin, under the default settings (collect, summarize) with a cap of    *)
(* two, or under settings that differ from message to message.              *)
(***************************************************************************)
EXTENDS FollowupQueueProperties, TLC

ThreeMessages == {"a", "b", "c"}
TwoOrigins == "a" :> "chat" @@ "b" :> "chat" @@ "c" :> "thread"

Setting(mode, cap, drop) == [mode |-> mode, cap |-> cap, drop |-> drop]
Summarizing == Setting("collect", 2, "summarize")
MixedSettings ==
  "a" :> {Summarizing} @@
  "b" :> {Setting("followup", 1, "summarize"), Setting("followup", 2, "old")} @@
  "c" :> {Summarizing, Setting("collect", 1, "new")}

DefaultSettings == [m \in ThreeMessages |-> {Summarizing}]
Objects == 1..2
=============================================================================
