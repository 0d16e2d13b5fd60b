------------------------ MODULE CommandQueueProperties ------------------------
(***************************************************************************)
(* What callers of the command queue may rely on, and the inductive        *)
(* invariant that explains why they may.                                   *)
(***************************************************************************)
EXTENDS CommandQueue

(* The type of every variable; a lane's cap is never below one. *)
TypeOK ==
  /\ queue \in [Lane -> Seq(Cmd)]
  /\ active \in [Lane -> SUBSET Cmd]
  /\ maxConcurrent \in [Lane -> Nat \ {0}]
  /\ draining \in [Lane -> BOOLEAN]
  /\ generation \in [Lane -> Nat]
  /\ gatewayDraining \in BOOLEAN
  /\ status \in [Cmd -> Status]
  /\ taskGeneration \in [Cmd -> Nat]
  /\ stack \in Seq(Frame)
  /\ waiter \in {"none", "polling", "drained", "timedOut"}
  /\ snapshot \in SUBSET Cmd

(* No lost wake-up: whenever control is back in the event loop, a lane with *)
(* a waiting command has all its slots in use.  Nothing polls the lanes, so *)
(* a command left behind with a free slot would wait for an unrelated call  *)
(* (the comment at command-queue.ts:240-242 fears exactly this).            *)
NoLostWakeup == stack = <<>> => \A l \in Lane : ~Runnable(l)

(* The slots in use are exactly the running tasks that started since the    *)
(* last reset: no completion, throw, reset or stale completion leaks a slot *)
(* or frees one that a task still holds.                                    *)
CurrentTasks(l) == {c \in Cmd : /\ LaneOf[c] = l /\ status[c] = "running"
                                /\ taskGeneration[c] = generation[l]}
ActiveIsExact == \A l \in Lane : active[l] = CurrentTasks(l)

(* A command waits in its own lane, once, exactly while its promise is      *)
(* neither started nor settled: no caller is left with a promise nobody     *)
(* will settle.                                                             *)
QueueIsExact ==
  /\ \A l \in Lane : \A i \in DOMAIN queue[l] :
       /\ LaneOf[queue[l][i]] = l
       /\ status[queue[l][i]] = "queued"
       /\ \A j \in DOMAIN queue[l] : queue[l][i] = queue[l][j] => i = j
  /\ \A c \in Cmd : status[c] = "queued" =>
       \E i \in DOMAIN queue[LaneOf[c]] : queue[LaneOf[c]][i] = c

(* waitForActiveTasks() says "drained" only when each task of its snapshot  *)
(* has settled, or was written off by a reset.                              *)
DrainedMeansFinished ==
  waiter = "drained" =>
    \A c \in snapshot : status[c] = "running" =>
                          taskGeneration[c] # generation[LaneOf[c]]

(* The inductive invariant behind these.  A runnable lane always has a      *)
(* pump() loop of its own on the stack, or resetAllLanes() still has it on  *)
(* its list; the draining flag is up only while a pump() loop of the lane   *)
(* is on the stack, so a refused drainLane() leaves the work to that loop.  *)
HasPump(l) == \E i \in DOMAIN stack : stack[i] = PumpFrame(l)
ResetPending(l) == \E i \in DOMAIN stack : stack[i].op = "reset" /\ l \in stack[i].lanes
WakeupIsOwned == \A l \in Lane : Runnable(l) => HasPump(l) \/ ResetPending(l)
DrainingIsOwned == \A l \in Lane : draining[l] => HasPump(l)
TaskFramesRun ==
  \A i \in DOMAIN stack : stack[i].op = "task" =>
    /\ status[stack[i].cmd] = "running"
    /\ \A j \in DOMAIN stack : stack[j] = stack[i] => i = j
GenerationsBounded == \A c \in Cmd : taskGeneration[c] <= generation[LaneOf[c]]
SnapshotStarted == \A c \in snapshot : status[c] \in {"running"} \cup Ran

StackInv == WakeupIsOwned /\ DrainingIsOwned
BookInv == ActiveIsExact /\ QueueIsExact /\ TaskFramesRun
WaitInv == GenerationsBounded /\ SnapshotStarted /\ DrainedMeansFinished
IInv == TypeOK /\ StackInv /\ BookInv /\ WaitInv

(* A promise settles once and keeps its outcome; a command that was cleared *)
(* or refused never runs.                                                   *)
SettledForever ==
  [][\A c \in Cmd : status[c] \in Settled => status'[c] = status[c]]_vars

(* A task starts only while the tasks really executing since the last reset *)
(* (by their own status, not by the lane's counter) stay within the cap,    *)
(* however many pump() loops of the lane are nested.                        *)
StartsWithinCap ==
  [][\A c \in Cmd : status[c] # "running" /\ status'[c] = "running" =>
       Cardinality(CurrentTasks(LaneOf[c])') <= maxConcurrent[LaneOf[c]]]_vars

(* Every accepted command settles: it runs to its end or is cleared. *)
EveryCommandSettles ==
  \A c \in Cmd : status[c] = "queued" ~> status[c] \in Settled
=============================================================================
