----------------------------- MODULE LaneNesting -----------------------------
(***************************************************************************)
(* How agent runs use the command queue.  runEmbeddedPiAgent (and          *)
(* compactEmbeddedPiSession) push a command on the lane of the session,    *)
(* whose task pushes the run's body on a lane shared by all sessions:      *)
(*     enqueueSession(() => enqueueGlobal(body))                           *)
(* A manual cron run (cron.run) is itself a command of lane "cron" and     *)
(* waits there for all of that.  Each of these pushes is a step of the     *)
(* run.  CommandQueue says what the queue does; this module says who calls *)
(* it, and when.                                                           *)
(*                                                                         *)
(* markGatewayDraining and resetAllLanes have no caller in the engine, and *)
(* the task functions used here are async or only call enqueue..., so none *)
(* of them throws synchronously: those actions of the queue stay unused.   *)
(***************************************************************************)
EXTENDS Naturals, Sequences, FiniteSets

CONSTANTS
  Run,          \* agent runs callers may start
  Session,      \* session keys
  SessionOf,    \* the session of each run
  LaneArg,      \* params.lane of each run, or NoLane
  NoLane,
  GlobalName,   \* the names of the shared lanes; "main" and "cron" are two
  Manual,       \* runs started by cron.run
  TimeLimited,  \* manual runs whose job has a timeout
  MaxCap        \* bound: largest configured concurrency

ASSUME RunAssumption ==
  /\ IsFiniteSet(Run)
  /\ SessionOf \in [Run -> Session]
  /\ LaneArg \in [Run -> GlobalName \cup {NoLane}]
  /\ {"main", "cron"} \subseteq GlobalName
  /\ NoLane \notin GlobalName
  /\ Manual \subseteq Run /\ TimeLimited \subseteq Manual
  /\ MaxCap \in Nat \ {0}

VARIABLES queue, active, maxConcurrent, draining, generation, gatewayDraining,
          status, taskGeneration, stack, waiter, snapshot

vars == <<queue, active, maxConcurrent, draining, generation, gatewayDraining,
          status, taskGeneration, stack, waiter, snapshot>>
-----------------------------------------------------------------------------
(* The commands of a run. *)
Slot(r) == <<r, "slot">>         \* enqueueRun's command on lane "cron"
Outer(r) == <<r, "session">>     \* enqueueSession's
Body(r) == <<r, "global">>       \* enqueueGlobal's: the agent executes
NoCmd == <<NoLane, "none">>
Cmd == (Run \X {"session", "global"}) \cup (Manual \X {"slot"})

GlobalLane(name) == <<"global", name>>
SessionLane(s) == <<"session", s>>
Lane == {GlobalLane(name) : name \in GlobalName}
          \cup {SessionLane(s) : s \in Session}

ResolveSessionLane(r) == SessionLane(SessionOf[r])
SameLaneTwice(r) == ResolveSessionLane(r)
ResolveGlobalLane(r) == GlobalLane(IF LaneArg[r] = NoLane THEN "main" ELSE LaneArg[r])

LaneOf == [c \in Cmd |->
  CASE c[2] = "slot"    -> GlobalLane("cron")
    [] c[2] = "session" -> ResolveSessionLane(c[1])
    [] c[2] = "global"  -> ResolveGlobalLane(c[1])]

(* The command a task cannot return without.  A job timeout abandons it. *)
Inner == [c \in Cmd |->
  CASE c[2] = "slot"    -> IF c[1] \in TimeLimited THEN NoCmd ELSE Outer(c[1])
    [] c[2] = "session" -> Body(c[1])
    [] c[2] = "global"  -> NoCmd]

CQ == INSTANCE CommandQueueProperties WITH MaxResets <- 0

Init == CQ!Init
-----------------------------------------------------------------------------
(* cron.run acknowledged: the run waits for a slot of lane "cron". *)
EnqueueRun(r) ==
  /\ stack = <<>>
  /\ CQ!EnqueueCommandInLane(Slot(r))

(* The run's own code reaches runEmbeddedPiAgent: at once for a run nobody  *)
(* queued, during the slot's task for a manual one.                         *)
EnqueueSession(r) ==
  /\ stack = <<>>
  /\ r \in Manual => status[Slot(r)] \in {"running"} \cup CQ!Ran
  /\ CQ!EnqueueCommandInLane(Outer(r))

(* The session command's task is the single call of enqueueGlobal. *)
EnqueueGlobal(r) ==
  /\ CQ!Running("task") /\ CQ!Top.cmd = Outer(r)
  /\ CQ!EnqueueCommandInLane(Body(r))

TaskSuspends ==
  /\ CQ!TaskSuspends
  /\ \A r \in Run : CQ!Top.cmd = Outer(r) => status[Body(r)] # "idle"

BodySettles(r) == CQ!TaskSettles(Body(r))

(* The session command's promise is the body's. *)
BodyPushed(r) == status[Body(r)] # "idle"
BodySettled(r) == status[Body(r)] \in CQ!Settled
SessionSettles(r) ==
  /\ stack = <<>>
  /\ status[Outer(r)] = "running"
  /\ BodySettled(r)
  /\ CQ!FinishTask(Outer(r), IF status[Body(r)] = "resolved" THEN "resolved"
                              ELSE "rejected", stack)

NeverExpires(r) == FALSE
Expires(r) == r \in TimeLimited

(* run() records how the job went and returns; a job with a timeout stops   *)
(* waiting for the agent when it expires.                                   *)
SlotSettles(r) ==
  /\ stack = <<>>
  /\ status[Slot(r)] = "running"
  /\ status[Outer(r)] \in CQ!Settled \/ Expires(r)
  /\ CQ!FinishTask(Slot(r), "resolved", stack)

(* /stop and interrupt mode clear the lane of one session. *)
ClearSession(s) == stack = <<>> /\ CQ!ClearCommandLane(SessionLane(s))

(* Start-up and config reload set the caps of the shared lanes only. *)
SetSessionsToo(name, n) ==
  stack = <<>> /\ \E l \in Lane : CQ!SetCommandLaneConcurrency(l, n)
SetGlobalConcurrency(name, n) ==
  stack = <<>> /\ CQ!SetCommandLaneConcurrency(GlobalLane(name), n)

Next ==
  \/ \E r \in Run :
       \/ EnqueueSession(r) \/ EnqueueGlobal(r)
       \/ BodySettles(r) \/ SessionSettles(r)
  \/ \E r \in Manual : EnqueueRun(r) \/ SlotSettles(r)
  \/ \E s \in Session : ClearSession(s)
  \/ \E name \in GlobalName, n \in 1..MaxCap : SetGlobalConcurrency(name, n)
  \/ CQ!PumpStartsTask
  \/ CQ!PumpReturns
  \/ TaskSuspends

Spec == Init /\ [][Next]_vars

(* Synchronous code runs to its end, agents terminate, and a manual run     *)
(* whose slot was granted goes on to call the agent.  Callers may flood the *)
(* queue, hence strong fairness for what needs an empty stack.              *)
Fairness ==
  /\ WF_vars(CQ!PumpStartsTask) /\ WF_vars(CQ!PumpReturns)
  /\ WF_vars(TaskSuspends)
  /\ \A r \in Run : /\ WF_vars(EnqueueGlobal(r))
                    /\ SF_vars(BodySettles(r))
                    /\ SF_vars(SessionSettles(r))
  /\ \A r \in Manual : SF_vars(EnqueueSession(r)) /\ SF_vars(SlotSettles(r))

FairSpec == Spec /\ Fairness
-----------------------------------------------------------------------------
Executing(r) == status[Body(r)] = "running"

(* Two agent runs never execute on one session at the same time, whatever   *)
(* lanes their bodies run on: the session's transcript has one writer.      *)
OneRunPerSession ==
  \A r, p \in Run :
    r # p /\ SessionOf[r] = SessionOf[p] => ~(Executing(r) /\ Executing(p))

(* A body executes or waits only under the session command that pushed it:  *)
(* no clear, timeout or early completion leaves an agent running on a       *)
(* session whose lane is free for the next run.                             *)
BodyHoldsSession ==
  \A r \in Run : status[Body(r)] \in {"queued", "running"} =>
    status[Outer(r)] = "running" /\ Outer(r) \in active[ResolveSessionLane(r)]

(* Every step of the runs is a step of the queue as CommandQueue models it. *)
UsesTheQueue == CQ!Spec

(* A run that was accepted on its session's lane settles: waiting for a     *)
(* shared lane while holding the session's never becomes a deadlock.        *)
EverySessionRunSettles ==
  \A r \in Run : status[Outer(r)] = "queued" ~> status[Outer(r)] \in CQ!Settled

(* An accepted cron.run finishes: enqueueRun's command returns with the     *)
(* outcome of the job recorded, as the test "queues manual cron.run         *)
(* requests behind the cron execution lane" expects of both its jobs.       *)
EveryManualRunFinishes ==
  \A r \in Manual : status[Slot(r)] = "queued" ~> status[Slot(r)] \in CQ!Settled
-----------------------------------------------------------------------------
(* Why OneRunPerSession and BodyHoldsSession hold.  There is no reset.      *)

RunsTyped ==
  /\ queue \in [Lane -> Seq(Cmd)] /\ active \in [Lane -> SUBSET Cmd]
  /\ maxConcurrent \in [Lane -> Nat \ {0}]
  /\ status \in [Cmd -> CQ!Status] /\ stack \in Seq(CQ!Frame)
  /\ generation = [l \in Lane |-> 0] /\ taskGeneration = [c \in Cmd |-> 0]

(* What waits in a lane belongs there, waits once, and has not started.     *)
QueuesWait ==
  \A l \in Lane : \A i, j \in DOMAIN queue[l] :
    /\ LaneOf[queue[l][i]] = l /\ status[queue[l][i]] = "queued"
    /\ queue[l][i] = queue[l][j] => i = j

(* Nothing raises the cap of a session's lane, and its slot is taken as     *)
(* long as the one command of a run executes.                               *)
SessionsAreSerial ==
  \A s \in Session :
    /\ maxConcurrent[SessionLane(s)] = 1
    /\ active[SessionLane(s)] = {c \in Cmd : LaneOf[c] = SessionLane(s) /\ status[c] = "running"}
    /\ \A c, d \in active[SessionLane(s)] : c = d

NestInv == RunsTyped /\ QueuesWait /\ SessionsAreSerial /\ BodyHoldsSession
=============================================================================
