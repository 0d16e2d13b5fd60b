---------------------------- MODULE CommandQueue ----------------------------
(***************************************************************************)
(* The in-process command queue of the engine:                             *)
(* packages/engine/src/process/command-queue.ts.                           *)
(*                                                                         *)
(* Commands are pushed on named lanes; each lane executes at most          *)
(* maxConcurrent of them at a time, in FIFO order.  The code is single     *)
(* threaded, so what interleaves is not threads but call frames: pump()    *)
(* runs the synchronous prefix of a task inside its own loop, and that     *)
(* prefix may call the queue again.  The model keeps the JavaScript call   *)
(* stack, one frame per pump() loop, per task prefix and per drain pass of *)
(* resetAllLanes().  Timers, signals and promise continuations run only    *)
(* when the stack is empty.                                                *)
(*                                                                         *)
(* A command is started at most once, so the command itself plays the part *)
(* of the numeric task id.                                                 *)
(***************************************************************************)
EXTENDS Naturals, Sequences, FiniteSets

CONSTANTS
  Cmd,         \* the commands callers may hand to enqueueCommandInLane
  Lane,        \* lane names
  LaneOf,      \* the lane each command is enqueued on
  Inner,       \* the command whose promise a command's task awaits, or NoCmd
  NoCmd,       \* "awaits no other command"
  MaxCap,      \* bound: largest value passed to setCommandLaneConcurrency
  MaxResets    \* bound: number of resetAllLanes() calls

ASSUME CmdAssumption ==
  /\ NoCmd \notin Cmd
  /\ LaneOf \in [Cmd -> Lane]
  /\ Inner \in [Cmd -> Cmd \cup {NoCmd}]
  /\ IsFiniteSet(Cmd)
ASSUME BoundAssumption == MaxCap \in Nat \ {0} /\ MaxResets \in Nat

VARIABLES
  queue,            \* LaneState.queue
  active,           \* LaneState.activeTaskIds
  maxConcurrent,    \* LaneState.maxConcurrent
  draining,         \* LaneState.draining
  generation,       \* LaneState.generation
  gatewayDraining,  \* module variable gatewayDraining
  status,           \* what became of each command and its promise
  taskGeneration,   \* the generation captured when a task started
  stack,            \* the JavaScript call stack, innermost frame last
  waiter,           \* the promise of waitForActiveTasks()
  snapshot          \* its activeAtStart set

laneVars == <<queue, active, maxConcurrent, draining, generation>>
waitVars == <<waiter, snapshot>>
vars == <<queue, active, maxConcurrent, draining, generation, gatewayDraining,
          status, taskGeneration, stack, waiter, snapshot>>
-----------------------------------------------------------------------------
(* Outcomes of an enqueueCommandInLane() promise. *)
Ran     == {"resolved", "rejected"}           \* the task ran and returned / threw
NeverRan == {"cleared", "refused"}            \* CommandLaneClearedError, GatewayDrainingError
Settled == Ran \cup NeverRan
Status  == {"idle", "queued", "running"} \cup Settled

PumpFrame(l)  == [op |-> "pump", lane |-> l]
TaskFrame(c)  == [op |-> "task", cmd |-> c]
ResetFrame(S) == [op |-> "reset", lanes |-> S]

Frame == [op : {"pump"}, lane : Lane]
           \cup [op : {"task"}, cmd : Cmd]
           \cup [op : {"reset"}, lanes : SUBSET Lane]

Top == stack[Len(stack)]
Pop == SubSeq(stack, 1, Len(stack) - 1)
Running(op) == stack # <<>> /\ Top.op = op

(* The queue's functions are called from the event loop or by the          *)
(* synchronous prefix of a task, never by pump() itself.                   *)
CanCall == stack = <<>> \/ Running("task")

AllActive == UNION {active[l] : l \in Lane}
HasRoomOffByOne(l) == Cardinality(active[l]) <= maxConcurrent[l]
HasRoom(l) == Cardinality(active[l]) < maxConcurrent[l]
Runnable(l) == HasRoom(l) /\ queue[l] # <<>>

Init ==
  /\ queue = [l \in Lane |-> <<>>]
  /\ active = [l \in Lane |-> {}]
  /\ maxConcurrent = [l \in Lane |-> 1]
  /\ draining = [l \in Lane |-> FALSE]
  /\ generation = [l \in Lane |-> 0]
  /\ gatewayDraining = FALSE
  /\ status = [c \in Cmd |-> "idle"]
  /\ taskGeneration = [c \in Cmd |-> 0]
  /\ stack = <<>>
  /\ waiter = "none"
  /\ snapshot = {}
-----------------------------------------------------------------------------
(* drainLane(l), entered with stack stk: refused while another drain of the *)
(* lane is marked in progress, otherwise a new pump() frame.                *)
NeverDrains(l, stk) == draining' = draining /\ stack' = stk
DrainLane(l, stk) ==
  /\ draining' = [draining EXCEPT ![l] = TRUE]
  /\ stack' = IF draining[l] THEN stk ELSE Append(stk, PumpFrame(l))

(* A command another one awaits is enqueued by that one's task. *)
MayIssue(c) ==
  /\ status[c] = "idle"
  /\ \A p \in Cmd : Inner[p] = c => status[p] = "running"

(* state.queue.push *)
PushFront(q, c) == <<c>> \o q
Push(q, c) == Append(q, c)

EnqueueCommandInLane(c) ==
  /\ CanCall /\ MayIssue(c)
  /\ ~gatewayDraining
  /\ queue' = [queue EXCEPT ![LaneOf[c]] = Push(@, c)]
  /\ status' = [status EXCEPT ![c] = "queued"]
  /\ DrainLane(LaneOf[c], stack)
  /\ UNCHANGED <<active, maxConcurrent, generation, gatewayDraining,
                 taskGeneration, waitVars>>

(* The GatewayDrainingError path of enqueueCommandInLane. *)
RefuseCommand(c) ==
  /\ CanCall /\ MayIssue(c)
  /\ gatewayDraining
  /\ status' = [status EXCEPT ![c] = "refused"]
  /\ UNCHANGED <<laneVars, gatewayDraining, taskGeneration, stack, waitVars>>

(* Math.max(1, Math.floor(n)): a cap below one would stop the lane. *)
NotClamped(n) == n
AtLeastOne(n) == IF n < 1 THEN 1 ELSE n

SetCommandLaneConcurrency(l, n) ==
  /\ CanCall
  /\ maxConcurrent' = [maxConcurrent EXCEPT ![l] = AtLeastOne(n)]
  /\ DrainLane(l, stack)
  /\ UNCHANGED <<queue, active, generation, gatewayDraining, status,
                 taskGeneration, waitVars>>

(* state.queue.splice(0): what is rejected, and what stays queued. *)
AllButHead(q) == {q[i] : i \in DOMAIN q \ {1}}
Removed(q) == {q[i] : i \in DOMAIN q}
LeftInPlace(q) == q
Left(q) == <<>>

ClearCommandLane(l) ==
  /\ CanCall
  /\ queue[l] # <<>>
  /\ queue' = [queue EXCEPT ![l] = Left(@)]
  /\ status' = [c \in Cmd |-> IF c \in Removed(queue[l]) THEN "cleared" ELSE status[c]]
  /\ UNCHANGED <<active, maxConcurrent, draining, generation, gatewayDraining,
                 taskGeneration, stack, waitVars>>

MarkGatewayDraining ==
  /\ CanCall
  /\ gatewayDraining' = TRUE
  /\ UNCHANGED <<laneVars, status, taskGeneration, stack, waitVars>>

NothingToDrain == {}
LanesToDrain == {l \in Lane : queue[l] # <<>>}

(* resetAllLanes(): every lane is reset first, the lanes that still hold    *)
(* entries are drained afterwards, one after another (ResetDrainsLane).     *)
ResetAllLanes ==
  /\ CanCall
  /\ \A l \in Lane : generation[l] < MaxResets
  /\ gatewayDraining' = FALSE
  /\ generation' = [l \in Lane |-> generation[l] + 1]
  /\ active' = [l \in Lane |-> {}]
  /\ draining' = [l \in Lane |-> FALSE]
  /\ stack' = IF LanesToDrain = {} THEN stack
              ELSE Append(stack, ResetFrame(LanesToDrain))
  /\ UNCHANGED <<queue, maxConcurrent, status, taskGeneration, waitVars>>

ResetDrainsLane ==
  /\ Running("reset")
  /\ \E l \in Top.lanes :
       DrainLane(l, IF Top.lanes = {l} THEN Pop
                    ELSE Append(Pop, ResetFrame(Top.lanes \ {l})))
  /\ UNCHANGED <<queue, active, maxConcurrent, generation, gatewayDraining,
                 status, taskGeneration, waitVars>>
-----------------------------------------------------------------------------
(* One turn of pump()'s loop: shift the oldest entry and call its task. *)
PumpStartsTask ==
  /\ Running("pump")
  /\ LET l == Top.lane
         c == Head(queue[l])
     IN /\ Runnable(l)
        /\ queue' = [queue EXCEPT ![l] = Tail(@)]
        /\ active' = [active EXCEPT ![l] = @ \cup {c}]
        /\ status' = [status EXCEPT ![c] = "running"]
        /\ taskGeneration' = [taskGeneration EXCEPT ![c] = generation[l]]
        /\ stack' = Append(stack, TaskFrame(c))
  /\ UNCHANGED <<maxConcurrent, draining, generation, gatewayDraining, waitVars>>

FlagStays(l) == draining' = draining
ClearsDraining(l) == draining' = [draining EXCEPT ![l] = FALSE]

(* The loop ends and its finally block runs. *)
PumpReturns ==
  /\ Running("pump")
  /\ ~Runnable(Top.lane)
  /\ ClearsDraining(Top.lane)
  /\ stack' = Pop
  /\ UNCHANGED <<queue, active, maxConcurrent, generation, gatewayDraining,
                 status, taskGeneration, waitVars>>

(* The task reaches its first await and control returns to pump(). *)
TaskSuspends ==
  /\ Running("task")
  /\ stack' = Pop
  /\ UNCHANGED <<laneVars, gatewayDraining, status, taskGeneration, waitVars>>

Current(c) == taskGeneration[c] = generation[LaneOf[c]]
KeepsSlot(c) == active' = active
CompleteTask(c) ==
  active' = IF Current(c) THEN [active EXCEPT ![LaneOf[c]] = @ \ {c}] ELSE active

(* The code after `await entry.task()`: completeTask, then pump() unless    *)
(* the lane was reset since the task started, then the promise is settled.  *)
FinishTask(c, outcome, stk) ==
  /\ status' = [status EXCEPT ![c] = outcome]
  /\ CompleteTask(c)
  /\ stack' = IF Current(c) THEN Append(stk, PumpFrame(LaneOf[c])) ELSE stk
  /\ UNCHANGED <<queue, maxConcurrent, draining, generation,
                 gatewayDraining, taskGeneration, waitVars>>

(* The task throws before its first await: the catch block runs inside the  *)
(* pump() loop that called it.                                              *)
TaskThrows == Running("task") /\ FinishTask(Top.cmd, "rejected", Pop)

(* The task's promise settles; the continuation is a microtask. *)
TaskSettles(c) ==
  /\ stack = <<>>
  /\ status[c] = "running"
  /\ Inner[c] # NoCmd => status[Inner[c]] \in Settled
  /\ \E outcome \in Ran : FinishTask(c, outcome, stack)
-----------------------------------------------------------------------------
(* waitForActiveTasks(): the snapshot and the first, synchronous check. *)
WaitForActiveTasks ==
  /\ CanCall
  /\ waiter # "polling"
  /\ snapshot' = AllActive
  /\ waiter' = IF AllActive = {} THEN "drained" ELSE "polling"
  /\ UNCHANGED <<laneVars, gatewayDraining, status, taskGeneration, stack>>

SomeDone == ~(snapshot \subseteq AllActive)
AllDone == snapshot \cap AllActive = {}

(* A later poll, from the timer; past the deadline it gives up. *)
WaitPolls ==
  /\ stack = <<>>
  /\ waiter = "polling"
  /\ waiter' = IF AllDone THEN "drained" ELSE "timedOut"
  /\ UNCHANGED <<laneVars, gatewayDraining, status, taskGeneration, stack, snapshot>>
-----------------------------------------------------------------------------
(* What the JavaScript engine does on its own once it runs queue code. *)
Engine == PumpStartsTask \/ PumpReturns \/ ResetDrainsLane

Next ==
  \/ \E c \in Cmd : EnqueueCommandInLane(c) \/ RefuseCommand(c) \/ TaskSettles(c)
  \/ \E l \in Lane : ClearCommandLane(l)
  \/ \E l \in Lane, n \in 0..MaxCap : SetCommandLaneConcurrency(l, n)
  \/ MarkGatewayDraining
  \/ ResetAllLanes
  \/ Engine
  \/ TaskSuspends
  \/ TaskThrows
  \/ WaitForActiveTasks
  \/ WaitPolls

Spec == Init /\ [][Next]_vars

(* Synchronous code runs to its end (Engine; TaskSuspends needs strong      *)
(* fairness because the prefix may call the queue any finite number of      *)
(* times first), tasks terminate and the event loop, which serves callbacks *)
(* in order, eventually runs their continuation; a task that awaits an      *)
(* inner command does enqueue it.                                           *)
Fairness ==
  /\ WF_vars(Engine)
  /\ SF_vars(TaskSuspends)
  /\ \A c \in Cmd : SF_vars(TaskSettles(c))
  /\ \A p \in Cmd : \A c \in Cmd :
       Inner[p] = c => SF_vars(EnqueueCommandInLane(c) \/ RefuseCommand(c))

FairSpec == Spec /\ Fairness
=============================================================================
