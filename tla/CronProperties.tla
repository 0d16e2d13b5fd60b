--------------------------- MODULE CronProperties ---------------------------
(***************************************************************************)
(* What the cron scheduler promises.                                       *)
(***************************************************************************)
EXTENDS CronService

TypeOK ==
  /\ now \in 0..MaxTime
  /\ IsStore(disk)
  /\ cur \in Inst
  /\ DOMAIN mem = Inst /\ \A i \in Inst : IsStore(mem[i])
  /\ timer \in [Inst -> Nat \cup {None}]
  /\ tick \in [Inst -> {"idle", "collect", "run", "finally"}]
  /\ batch \in [Inst -> SUBSET Job]
  /\ attached \in [Inst -> BOOLEAN]
  /\ boot \in [Inst -> {"none", "clear", "plan", "catchup", "settle", "up"}]
  /\ missed \in [Inst -> SUBSET Job] /\ deferred \in [Inst -> SUBSET Job]
  /\ runs \subseteq RunRecord
  /\ manuals \in 0..MaxManual
  /\ forfeited \subseteq Job

(* No hot reload has left a stopped instance that may still be at work.     *)
Alone == \A i \in Inst \ {cur} : boot[i] = "none"

(* A job never has two executions in progress, whichever of a tick, the     *)
(* start-up catch-up and cron.run started them: the running marker that is  *)
(* persisted before the lock is released keeps "timer ticks that            *)
(* force-reload from disk" out (cron/service/ops.ts:416-417).               *)
OneExecution == \A r, q \in runs : r.job = q.job /\ Live(r) /\ Live(q) => r = q

(* The same, as long as one instance serves the store and the marker is not  *)
(* forfeited: disabling a job clears it (ops.ts:302), a forced run of a      *)
(* disabled job keeps none, and one older than STUCK_RUN_MS is taken for     *)
(* left over (jobs.ts:341-381).                                              *)
NoDoubleRun ==
  Alone => \A r, q \in runs :
             r.job = q.job /\ Live(r) /\ Live(q) => r = q \/ r.job \in forfeited

(* No operation swallows a slot: a past-due slot of an enabled job is only  *)
(* replaced when a run of that job has just been recorded or had already    *)
(* executed it, when the job itself is edited, or when start-up postpones   *)
(* it (#13992, #16156, #17852).                                             *)
JobEdited(j) == UpdateSchedule(j) \/ \E b \in BOOLEAN : UpdateEnabled(j, b)
SlotKept(j) ==
  j \in DOMAIN disk /\ j \in DOMAIN disk' /\ Due(disk[j], now) =>
    \/ disk'[j].next = disk[j].next
    \/ \E r \in runs \ runs' : r.job = j /\ ~Live(r)
    \/ AlreadyExecuted(disk[j])
    \/ JobEdited(j)
    \/ \E i \in Inst : j \in deferred[i]
SlotsAreExecuted == [][\A j \in Job : SlotKept(j)]_vars

(* The same, as long as one instance serves the store (one that was stopped *)
(* leaves its successor with a stale table), and without the two operations *)
(* that recompute the whole table: add() and the end of start().            *)
TickKeepsSlots ==
  [][Alone => \/ \A j \in Job : SlotKept(j)
              \/ \E j \in Job : AddJob(j)
              \/ \E i \in Inst : BootSettles(i)]_vars

(* No job is wedged: a running marker on disk belongs to a run in progress, *)
(* to a result about to be applied, or to a job some worker will take.      *)
MarkerOwned ==
  Serving => \A j \in DOMAIN disk : disk[j].running # None => Reserved(j)

(* The scheduler never sleeps through a slot: between ticks the timer of a  *)
(* started service fires no later than the earliest slot, or one refire gap *)
(* from now for a slot already past.                                        *)
TimerCoversSlots ==
  boot[cur] = "up" /\ tick[cur] = "idle" =>
    \A j \in DOMAIN mem[cur] :
      mem[cur][j].enabled /\ mem[cur][j].next # None =>
        timer[cur] # None /\ timer[cur] <= Later(mem[cur][j].next, now + 1)

(* No job waits for ever: once start-up is over, a slot that is due is       *)
(* executed, or its job is removed or disabled.  The tick that finds the    *)
(* job must end, its timer must be set again, and no marker may stay behind *)
(* (#12025, and the re-arming of cron/service/timer.ts:567-583).            *)
EveryDueJobRuns ==
  \A j \in Job :
    [](boot[cur] = "up" /\ j \in DOMAIN disk /\ Due(disk[j], now)
       => <>(j \notin DOMAIN disk \/ ~Due(disk[j], now)))

(* A one-shot that succeeded is over: neither a tick nor start-up runs it   *)
(* again unless it was given a later time or a hot reload made two          *)
(* instances serve one store.                                               *)
OneShotOnce ==
  [][\A j \in DOMAIN disk :
       Alone /\ Kind[j] = "at" /\ disk[j].status = "ok" /\ disk[j].base <= disk[j].last =>
         \A r \in runs' \ runs : r.job = j => r.via = "manual" \/ ~Live(r)]_vars
=============================================================================
