----------------------------- MODULE CronService -----------------------------
(***************************************************************************)
(* The cron scheduler: cron/service/{ops,timer,store,locked}.ts.           *)
(*                                                                         *)
(* A service instance keeps the job table in memory and on disk.  What the *)
(* code does under locked() is one action here, because locked sections of *)
(* one store path exclude each other; in between, jobs execute, the timer  *)
(* fires and callers edit the table.  A cron config change stops one       *)
(* instance and starts another on the same store while the first may still *)
(* be executing jobs (gateway/server-reload-handlers.ts); a crash loses    *)
(* everything but the disk.                                                *)
(***************************************************************************)
EXTENDS CronJobs

CONSTANTS
  MaxInst,          \* bound: service instances ever created
  MaxConcurrent,    \* cron.maxConcurrentRuns
  MaxMissed,        \* maxMissedJobsPerRestart
  MaxTime,          \* bound: the clock stops here, at a moment that stands for all later ones
  MaxManual,        \* bound: manual runs
  Results,          \* bound: how executions end
  Ops,              \* bound: per job, the operations callers use
  Faults,           \* bound: "crash", "reload" or neither
  InitialJobs       \* the jobs created before the first start

ASSUME ServiceAssumption ==
  /\ MaxInst \in Nat \ {0}
  /\ MaxConcurrent \in Nat \ {0} /\ MaxMissed \in Nat
  /\ MaxTime \in Nat /\ MaxManual \in Nat
  /\ Ops \in [Job -> SUBSET {"add", "enable", "schedule", "other", "remove", "read", "run"}]
  /\ Results \subseteq Outcomes
  /\ Faults \subseteq {"crash", "reload"}
  /\ InitialJobs \subseteq Job

VARIABLES
  now,      \* the clock
  disk,     \* the persisted table
  cur,      \* the instance that serves callers
  mem,      \* per instance, state.store
  timer,    \* per instance, when state.timer fires, or None
  tick,     \* per instance, where onTimer() is; not "idle" means state.running
  batch,    \* per instance, due jobs no worker has taken yet
  attached, \* per instance, whether the batch's job objects are still in mem
  boot,     \* per instance, where start() is
  missed,   \* per instance, start-up candidates not executed yet
  deferred, \* per instance, missed jobs start-up postpones
  runs,     \* executions, until their result is applied
  manuals,  \* manual runs so far
  forfeited \* history: reserved jobs that have been disabled in the meantime, or
            \* whose marker has outlived STUCK_RUN_MS

Inst == 1..MaxInst   \* in order of creation

instVars == <<mem, timer, tick, batch, attached, boot, missed, deferred>>
state == <<now, disk, cur, instVars, runs, manuals>>
vars == <<state, forfeited>>

RunRecord == [job : Job, inst : Inst, via : {"tick", "catchup", "manual"}, n : Nat,
              forced : BOOLEAN, start : Nat, end : Nat \cup {None},
              outcome : Outcomes \cup {"executing"}]

NewRun(j, i, via, n, forced) ==
  [job |-> j, inst |-> i, via |-> via, n |-> n, forced |-> forced, start |-> now,
   end |-> None, outcome |-> "executing"]

Live(r) == r.outcome = "executing"
RunsOf(i, via) == {r \in runs : r.inst = i /\ r.via = via}

Created(j) == [enabled |-> TRUE, base |-> IF Kind[j] = "at" THEN now + 1 ELSE now,
               next |-> None, running |-> None, last |-> None,
               status |-> "none", errors |-> 0]
CreateJob(j) == [Created(j) EXCEPT !.next = NextRun(j, Created(j), now)]

Init ==
  /\ now = 0
  /\ disk = [j \in InitialJobs |-> CreateJob(j)]
  /\ cur = 1
  /\ mem = [i \in Inst |-> <<>>]
  /\ timer = [i \in Inst |-> None]
  /\ tick = [i \in Inst |-> "idle"]
  /\ batch = [i \in Inst |-> {}]
  /\ attached = [i \in Inst |-> FALSE]
  /\ boot = [i \in Inst |-> IF i = 1 THEN "clear" ELSE "none"]
  /\ missed = [i \in Inst |-> {}]
  /\ deferred = [i \in Inst |-> {}]
  /\ runs = {}
  /\ manuals = 0
  /\ forfeited = {}
-----------------------------------------------------------------------------
(* The table of instance i becomes s, in memory and, by persist(), on disk. *)
Save(i, s) == mem' = [mem EXCEPT ![i] = s] /\ disk' = s
TimerKept(i, s) == UNCHANGED timer
ArmTimer(i, s) == timer' = [timer EXCEPT ![i] = WakeAt(s, now)]
Marked(s, js) == [j \in DOMAIN s |-> IF j \in js THEN [s[j] EXCEPT !.running = now] ELSE s[j]]

NotCleared(s) == s
Cleared(s) == [s EXCEPT !.running = None]

(* start(): clear the markers a previous process left behind. *)
BootClear(i) ==
  /\ boot[i] = "clear"
  /\ Save(i, [j \in DOMAIN disk |-> Cleared(disk[j])])
  /\ boot' = [boot EXCEPT ![i] = "plan"]
  /\ missed' = [missed EXCEPT ![i] = {j \in DOMAIN disk : disk[j].running # None}]
  /\ UNCHANGED <<now, cur, timer, tick, batch, attached, deferred, runs, manuals>>

(* planStartupCatchup: missed holds the interrupted jobs on entry, the      *)
(* oldest MaxMissed missed ones on exit.                                    *)
BootPlan(i) ==
  /\ boot[i] = "plan"
  /\ LET found == {j \in DOMAIN mem[i] \ missed[i] : Missed(j, mem[i][j], now)}
         slot(j) == IF mem[i][j].next = None THEN 0 ELSE mem[i][j].next
     IN \E first \in SUBSET found :
          /\ Cardinality(first) = Earlier(MaxMissed, Cardinality(found))
          /\ \A j \in first, k \in found \ first : slot(j) <= slot(k)
          /\ missed' = [missed EXCEPT ![i] = first]
          /\ deferred' = [deferred EXCEPT ![i] = found \ first]
          /\ boot' = [boot EXCEPT ![i] = IF found = {} THEN "settle" ELSE "catchup"]
          /\ IF found = {} THEN UNCHANGED <<mem, disk>> ELSE Save(i, Marked(mem[i], first))
  /\ UNCHANGED <<now, cur, timer, tick, batch, attached, runs, manuals>>

(* executeStartupCatchupPlan: one candidate after another. *)
BootRuns(i, j) ==
  /\ boot[i] = "catchup" /\ j \in missed[i]
  /\ \A r \in RunsOf(i, "catchup") : ~Live(r)
  /\ missed' = [missed EXCEPT ![i] = @ \ {j}]
  /\ runs' = runs \cup {NewRun(j, i, "catchup", 0, FALSE)}
  /\ UNCHANGED <<now, disk, cur, mem, timer, tick, batch, attached, boot, deferred,
                 manuals>>

(* applyStartupCatchupOutcomes: deferred jobs are spread over the next ticks. *)
Staggered(s, js) ==
  LET live == {j \in js \cap DOMAIN s : s[j].enabled}
      due(j) == IF s[j].next = None THEN 0 ELSE s[j].next
  IN [j \in DOMAIN s |->
        IF j \in live
        THEN [s[j] EXCEPT !.next = now + Cardinality({k \in live : due(k) <= due(j)})]
        ELSE s[j]]

BootApplies(i) ==
  /\ boot[i] = "catchup" /\ missed[i] = {}
  /\ LET done == RunsOf(i, "catchup")
     IN /\ \A r \in done : ~Live(r)
        /\ Save(i, ForMaintenance(Staggered(WithResults(disk, done), deferred[i]), now, FALSE))
        /\ runs' = runs \ done
  /\ boot' = [boot EXCEPT ![i] = "settle"]
  /\ attached' = [attached EXCEPT ![i] = FALSE]
  /\ deferred' = [deferred EXCEPT ![i] = {}]
  /\ UNCHANGED <<now, cur, timer, tick, batch, missed, manuals>>

(* The last section of start(). *)
BootSettles(i) ==
  /\ boot[i] = "settle"
  /\ LET s == RecomputeNextRuns(disk, now) IN Save(i, s) /\ ArmTimer(i, s)
  /\ boot' = [boot EXCEPT ![i] = "up"]
  /\ attached' = [attached EXCEPT ![i] = FALSE]
  /\ UNCHANGED <<now, cur, tick, batch, missed, deferred, runs, manuals>>
-----------------------------------------------------------------------------
(* onTimer(), up to its first await.  While a tick is in progress the timer *)
(* is only re-armed.  MaxTime stands for every later moment: a timer set    *)
(* for a time past it fires there.                                          *)
TimerFires(i) ==
  /\ timer[i] # None /\ (timer[i] <= now \/ now = MaxTime)
  /\ timer' = [timer EXCEPT ![i] = now + MaxDelay]
  /\ tick' = [tick EXCEPT ![i] = IF @ = "idle" THEN "collect" ELSE @]
  /\ UNCHANGED <<now, disk, cur, mem, batch, attached, boot, missed, deferred, runs,
                 manuals>>

(* Its first locked section: reserve the due jobs. *)
CollectDue(i) ==
  /\ tick[i] = "collect"
  /\ LET due == {j \in DOMAIN disk : Runnable(disk[j], now)}
     IN /\ Save(i, IF due = {} THEN ForMaintenance(disk, now, TRUE) ELSE Marked(disk, due))
        /\ batch' = [batch EXCEPT ![i] = due]
        /\ attached' = [attached EXCEPT ![i] = due # {}]
        /\ tick' = [tick EXCEPT ![i] = IF due = {} THEN "finally" ELSE "run"]
  /\ UNCHANGED <<now, cur, timer, boot, missed, deferred, runs, manuals>>

(* A worker takes the next job of the batch: runDueJob refreshes the marker *)
(* of the job object it holds, which is in memory unless that was reloaded. *)
WorkerStarts(i, j) ==
  /\ tick[i] = "run" /\ j \in batch[i]
  /\ Cardinality({r \in RunsOf(i, "tick") : Live(r)}) < MaxConcurrent
  /\ batch' = [batch EXCEPT ![i] = @ \ {j}]
  /\ runs' = runs \cup {NewRun(j, i, "tick", 0, FALSE)}
  /\ mem' = IF attached[i] THEN [mem EXCEPT ![i] = Marked(@, {j})] ELSE mem
  /\ UNCHANGED <<now, disk, cur, timer, tick, attached, boot, missed, deferred,
                 manuals>>

(* executeJobCoreWithTimeout returns, throws or times out. *)
RunEnds(r) ==
  /\ Live(r)
  /\ \E outcome \in Results :
       runs' = (runs \ {r}) \cup {[r EXCEPT !.outcome = outcome, !.end = now]}
  /\ UNCHANGED <<now, disk, cur, instVars, manuals>>

(* The second locked section, after all workers returned. *)
ApplyOutcomes(i) ==
  /\ tick[i] = "run" /\ batch[i] = {}
  /\ LET done == RunsOf(i, "tick")
     IN /\ \A r \in done : ~Live(r)
        /\ Save(i, ForMaintenance(WithResults(disk, done), now, FALSE))
        /\ runs' = runs \ done
  /\ attached' = [attached EXCEPT ![i] = FALSE]
  /\ tick' = [tick EXCEPT ![i] = "finally"]
  /\ UNCHANGED <<now, cur, timer, batch, boot, missed, deferred, manuals>>

(* The finally block, after the session reaper: it re-arms the timer of a   *)
(* service that was stopped in the meantime, too.                           *)
TickEnds(i) ==
  /\ tick[i] = "finally"
  /\ tick' = [tick EXCEPT ![i] = "idle"]
  /\ ArmTimer(i, mem[i])
  /\ UNCHANGED <<now, disk, cur, mem, batch, attached, boot, missed, deferred, runs,
                 manuals>>
-----------------------------------------------------------------------------
(* Callers reach the current instance; start() queued its first locked      *)
(* section before any of them.                                              *)
Serving == boot[cur] \in {"plan", "catchup", "settle", "up"}
Serves(op, j) == Serving /\ op \in Ops[j]
Edited(s) == Save(cur, s) /\ ArmTimer(cur, s)
EditFrame == <<now, cur, tick, batch, attached, boot, missed, deferred, runs, manuals>>
Reserved(j) ==   \* executing, about to be, or its result not yet applied
  \/ \E r \in runs : r.job = j
  \/ \E i \in Inst : j \in batch[i] \/ (boot[i] = "catchup" /\ j \in missed[i])

(* Ids are never reused; in the model those of InitialJobs are taken. *)
AddJob(j) ==
  /\ Serves("add", j)
  /\ j \notin DOMAIN disk /\ ~Reserved(j)
  /\ j \notin InitialJobs
  /\ Edited(RecomputeNextRuns([k \in DOMAIN mem[cur] \cup {j} |->
                                 IF k = j THEN CreateJob(j) ELSE mem[cur][k]], now))
  /\ UNCHANGED EditFrame

UpdateEnabled(j, value) ==
  /\ Serves("enable", j) /\ j \in DOMAIN mem[cur]
  /\ LET s == [mem[cur][j] EXCEPT !.enabled = value]
         t == IF value THEN [s EXCEPT !.next = NextRun(j, s, now)]
              ELSE [s EXCEPT !.next = None, !.running = None]
     IN Edited([mem[cur] EXCEPT ![j] = t])
  /\ UNCHANGED EditFrame

(* A new time for a one-shot job, a new anchor for an "every" job. *)
UpdateSchedule(j) ==
  /\ Serves("schedule", j) /\ j \in DOMAIN mem[cur]
  /\ LET s == [mem[cur][j] EXCEPT !.base = IF Kind[j] = "at" THEN now + 1 ELSE now]
         t == IF s.enabled THEN [s EXCEPT !.next = NextRun(j, s, now)]
              ELSE [s EXCEPT !.next = None, !.running = None]
     IN Edited([mem[cur] EXCEPT ![j] = t])
  /\ UNCHANGED EditFrame

(* An edit of anything else only repairs a missing slot of that job. *)
UpdateOther(j) ==
  /\ Serves("other", j) /\ j \in DOMAIN mem[cur]
  /\ LET s == mem[cur][j]
     IN Edited([mem[cur] EXCEPT ![j] =
                  IF s.enabled /\ s.next = None THEN [s EXCEPT !.next = NextRun(j, s, now)] ELSE s])
  /\ UNCHANGED EditFrame

RemoveJob(j) ==
  /\ Serves("remove", j) /\ j \in DOMAIN mem[cur]
  /\ Edited([k \in DOMAIN mem[cur] \ {j} |-> mem[cur][k]])
  /\ UNCHANGED EditFrame

(* status() and list(). *)
Read ==
  /\ \E j \in Job : Serves("read", j)
  /\ LET s == ForMaintenance(mem[cur], now, FALSE)
     IN IF s = mem[cur] THEN UNCHANGED <<mem, disk>> ELSE Save(cur, s)
  /\ UNCHANGED <<now, cur, timer, tick, batch, attached, boot, missed, deferred, runs,
                 manuals>>

(* inspectManualRunDisposition: its normalisation stays in memory. *)
InspectManualRun ==
  /\ \E j \in Job : Serves("run", j)
  /\ mem' = [mem EXCEPT ![cur] = ForMaintenance(@, now, FALSE)]
  /\ UNCHANGED <<now, disk, cur, timer, tick, batch, attached, boot, missed, deferred,
                 runs, manuals>>

(* prepareManualRun, when the job may run; enqueueRun() lets only as many   *)
(* manual runs go on as lane "cron" has slots.                              *)
PrepareManualRun(j, forced) ==
  /\ Serves("run", j) /\ manuals < MaxManual
  /\ Cardinality({r \in runs : r.via = "manual"}) < MaxConcurrent
  /\ LET s == ForMaintenance(mem[cur], now, FALSE)
     IN /\ j \in DOMAIN s
        /\ Unmarked(s[j])
        /\ forced \/ Due(s[j], now)
        /\ Save(cur, Marked(s, {j}))
        /\ runs' = runs \cup {NewRun(j, cur, "manual", manuals, forced)}
  /\ manuals' = manuals + 1
  /\ UNCHANGED <<now, cur, timer, tick, batch, attached, boot, missed, deferred>>

(* finishPreparedManualRun: apply the result to the copy in memory, reload, *)
(* put the job's new state back over what the reload brought.               *)
FinishManualRun(r) ==
  /\ r.via = "manual" /\ ~Live(r)
  /\ LET i == r.inst
         j == r.job
         s == mem[i][j]
         after == ApplyJobResult(j, s, r)
         rest == [k \in DOMAIN disk \ {j} |-> disk[k]]
         merged == IF Deletes(j, r) THEN rest
                   ELSE [k \in DOMAIN disk |->
                           IF k = j THEN [after EXCEPT !.base = disk[j].base] ELSE disk[k]]
         t == ForMaintenance(merged, now, TRUE)
     IN IF j \in DOMAIN mem[i]
        THEN /\ Save(i, t) /\ ArmTimer(i, t)
             /\ attached' = [attached EXCEPT ![i] = FALSE]
        ELSE UNCHANGED <<mem, disk, timer, attached>>
  /\ runs' = runs \ {r}
  /\ UNCHANGED <<now, cur, tick, batch, boot, missed, deferred, manuals>>
-----------------------------------------------------------------------------
(* A change of the cron configuration: stop() only clears the timer.        *)
HotReload ==
  /\ "reload" \in Faults /\ boot[cur] # "clear" /\ cur + 1 \in Inst
  /\ timer' = [timer EXCEPT ![cur] = None]
  /\ boot' = [boot EXCEPT ![cur + 1] = "clear"]
  /\ cur' = cur + 1
  /\ UNCHANGED <<now, disk, mem, tick, batch, attached, missed, deferred, runs, manuals>>

(* The process dies and is started again. *)
Crash ==
  /\ "crash" \in Faults
  /\ cur + 1 \in Inst
  /\ cur' = cur + 1
  /\ mem' = [i \in Inst |-> <<>>]
  /\ timer' = [i \in Inst |-> None]
  /\ tick' = [i \in Inst |-> "idle"]
  /\ batch' = [i \in Inst |-> {}]
  /\ attached' = [i \in Inst |-> FALSE]
  /\ boot' = [i \in Inst |-> IF i = cur + 1 THEN "clear" ELSE "none"]
  /\ missed' = [i \in Inst |-> {}]
  /\ deferred' = [i \in Inst |-> {}]
  /\ runs' = {}
  /\ UNCHANGED <<now, disk, manuals>>

TimePasses ==
  /\ now < MaxTime
  /\ now' = now + 1
  /\ UNCHANGED <<disk, cur, instVars, runs, manuals>>

Service(i) ==
  \/ BootClear(i) \/ BootPlan(i) \/ BootApplies(i) \/ BootSettles(i)
  \/ \E j \in Job : BootRuns(i, j) \/ WorkerStarts(i, j)
  \/ CollectDue(i) \/ ApplyOutcomes(i) \/ TickEnds(i)

(* A marker that normalizeJobTickState would clear does not protect a job.   *)
Unprotected(j) ==
  \E s \in {disk, mem[cur]} :
    j \in DOMAIN s /\ (~s[j].enabled \/ Normalized(s[j], now) # s[j])

Step ==
  \/ \E i \in Inst : Service(i) \/ TimerFires(i)
  \/ \E r \in runs : RunEnds(r) \/ FinishManualRun(r)
  \/ \E j \in Job : \/ AddJob(j) \/ UpdateSchedule(j) \/ UpdateOther(j) \/ RemoveJob(j)
                    \/ \E b \in BOOLEAN : UpdateEnabled(j, b) \/ PrepareManualRun(j, b)
  \/ Read \/ InspectManualRun
  \/ HotReload \/ Crash
  \/ TimePasses

Next ==
  /\ Step
  /\ forfeited' = {j \in Job : Reserved(j)' /\ (j \in forfeited \/ Unprotected(j)')}

Spec == Init /\ [][Next]_vars

(* Timers fire, locked sections get their turn, workers go on, and every    *)
(* execution ends: executeJobCoreWithTimeout races it against the job's     *)
(* timeout.  Nobody has to call anything.                                   *)
Fairness ==
  /\ \A i \in Inst : WF_state(TimerFires(i)) /\ WF_state(Service(i))
  /\ WF_state(\E r \in runs : RunEnds(r))
  /\ WF_state(\E r \in runs : FinishManualRun(r))
  /\ WF_state(TimePasses)

FairSpec == Spec /\ Fairness
=============================================================================
