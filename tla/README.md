# TLA+ specifications of the Octopus engine

This directory holds machine-checked models of the parts of this repository
whose correctness depends on the order in which things happen. The modules are
translated from the TypeScript under `src/`; every definition that models code
is listed in `PROJECT.json` ("map") with the lines it stands for. TLC checks the
models on small instances, TLAPS proves theorems about them for all instances.

Paths below are relative to `src/packages/engine/src/` unless they start with
`apps/` or `packages/`.

## 1. Inventory

Octopus is an enterprise server (`apps/server`) around an agent engine
(`packages/engine`). Everything in the engine runs in one Node.js process: code
between two awaits is atomic, and all interleaving comes from awaits, timers,
callbacks, restarts and the files several instances share.

| Component | State | Operations | What is hard |
|---|---|---|---|
| Command queue `process/command-queue.ts` | per lane: queue, active task ids, cap, `draining`, generation; `gatewayDraining` | enqueue, pump, settle, clear, set concurrency, mark draining, reset all, wait for active | the pump is re-entered by tasks that enqueue, clear or throw synchronously; stale completions after a reset; lost wake-ups |
| Agent runs on lanes `agents/pi-embedded-runner/{run,compact,lanes}.ts` | none of its own | a run nests a session lane and a shared lane | deadlock between lanes; two runs on one session; clearing in the middle |
| Cron scheduler `cron/service/*` | job table in memory and on disk, timer, running tick, running markers | start, tick, cron.run, add, update, remove, list/status, stop | locked sections with executions in between; crash, hot reload, catch-up, retries, one-shots |
| Follow-up queue `auto-reply/reply/queue/*` | per session: items, dropped count and summaries, `draining` | enqueue with drop policy, drain, collect, clear | the queue changes during an awaited run; clearing during a drain |
| Outbound delivery queue `infra/outbound/delivery-queue.ts` | one file per entry, retry counters | enqueue, ack, fail, recover | crash between send and ack; recovery beside live deliveries |
| Heartbeat `infra/heartbeat-wake.ts`, `infra/heartbeat-runner.ts` | pending wakes per target, timer, running flag, handler generation; per runner its agents and slot timer | request, timer, set handler; run, reload, stop, switch | handler replaced while a batch is in flight; retry delay against new requests; nobody sets the slot timer again |
| Exec approvals `gateway/exec-approval-manager.ts` | pending records with timers | register, resolve, expire, consume | timeout racing a decision; the grace period |
| Subagent registry and announce queue `agents/subagent-*.ts` | run records, announce queues | register, complete, announce, recover | exactly-once announcement; restart |
| Session locks `agents/session-write-lock.ts`, `config/sessions/store.ts` | lock files, held locks | acquire, release, stale removal | stale detection racing a new owner |
| Channel manager `gateway/server-channels.ts`, health monitor `gateway/channel-health-monitor.ts` | per account: task, abort controller, restart attempts, manually stopped | start, stop, log out, automatic restart, check | a check and its use are an await apart; two restarts wait for one instance; a stop meets a backoff |
| ACP manager, config reload, node registry, process supervisor, gateway lock | see `PROJECT.json` | | debouncing, timeouts |
| Async agents `apps/server/src/services/AsyncAgentRegistry.ts` | tasks in memory and in the database | create, complete, fail, cancel, time out, restore | late completion after cancellation; writes out of order |

Interaction: a chat message becomes an agent run; while one is active for its
session it goes to the follow-up queue. A run is a command on its session's
lane whose task is a command on a shared lane. The cron scheduler starts agent
runs on the shared lane `cron`; a manual `cron.run` is itself a command of that
lane. Answers leave through the delivery queue. A config change replaces the
cron service and sets the caps of the shared lanes.

The enterprise server runs the engine inside its own process: background agents call
the engine's `agent` method and hear of the run on the engine's event bus. Heartbeat
runs are agent runs, too, and give way while requests are in flight. A run writes
its session under the session's lock file, which other processes (the command line)
honour. The health monitor, a config reload and clients start and stop channels
through the channel manager.

What makes each component correct is stated by the properties of section 3; what
can go wrong, at which line, by the hazards in `PROJECT.json`.

## 2. Modules

| Module | Role |
|---|---|
| `CommandQueue` | the queue, action by action, with its call stack |
| `CommandQueueProperties` | type invariant, inductive invariant, safety, liveness |
| `LaneScheduler` | abstract specification: each lane is a work-conserving FIFO executor with a cap |
| `CommandQueueRefinement` | the refinement mapping from `CommandQueue` to `LaneScheduler` |
| `CommandQueueProofs` | its theorems |
| `LaneNesting` | agent runs and manual cron runs on top of `CommandQueueProperties` |
| `CronJobs` | the job table: schedules, retry and recompute functions |
| `CronService` | the scheduler: start-up, ticks, callers, reload, crash |
| `CronProperties`, `CronProofs` | what the scheduler promises; theorems |
| `FollowupQueue` | the queue of messages that arrive while an agent is busy |
| `FollowupQueueProperties`, `FollowupQueueProofs` | what it promises the sender; theorems |
| `DeliveryQueue` | the write-ahead queue of outbound messages, its recovery and its properties |
| `DeliveryQueueProofs` | nothing is forgotten; attempts are bounded, finished entries stay finished |
| `SessionWriteLock` | the lock file of a session, several processes |
| `SessionProofs` | theorems about who may use a session: `LaneNesting` inside a process, `SessionWriteLock` across processes |
| `ChannelManager`, `ChannelProperties` | one channel account under manager, monitor, reload and clients |
| `ChannelProofs` | its theorems |
| `AsyncAgents`, `AsyncAgentsProofs` | background tasks of the enterprise server; theorems |
| `HeartbeatWake` | wake requests, their timer and their batches |
| `HeartbeatRunner`, `HeartbeatProofs` | the runners on top of the wake requests; theorems |
| `MC*` | values of the constants for TLC |

In the modules that model code, an operator pair such as `HasRoom` and
`HasRoomOffByOne` is a definition and a plausible wrong version of it; the wrong
version is used nowhere. `PROJECT.json` ("mutants") names, for every property, one
that the property detects when it takes the place of the original.

### 2.1 Command queue

`queue`, `active`, `maxConcurrent`, `draining`, `generation` are the fields of
`LaneState`; `active` holds the commands whose task ids are in `activeTaskIds`.
JavaScript runs synchronous code to its end, but that code nests: a pump calls a
task, the task calls `enqueueCommandInLane` on any lane, which calls `drainLane`,
which pumps. The variable `stack` is this call stack; its frames are a pump of
a lane, a task before its first await, and the loop of `resetAllLanes`. A step is
what the code does between two calls, so every re-entrance is explored.
`taskGeneration` is the local variable a task's closure keeps. `waiter` and
`snapshot` are one call of `waitForActiveTasks`.

Lanes that do not exist yet are lanes in their initial state. Waiting times,
warnings and probe logging are left out. Each command is issued at most once;
the commands a task issues are given by the constant `Inner`.

`markGatewayDraining`, `resetAllLanes` and `waitForActiveTasks` have no caller in
this repository besides the queue's tests. They are modelled because they are
exported and documented there; `LaneNesting` does not use them.

### 2.2 Lane nesting

`runEmbeddedPiAgent` and `compactEmbeddedPiSession` do
`enqueueSession(() => enqueueGlobal(body))`. For a run `r` the commands are
`Outer(r)` on its session's lane and `Body(r)` on the lane `resolveGlobalLane`
names. A manual cron run has a third, `Slot(r)`, on lane `cron`. The module
instantiates the queue and says only who calls it and when; `UsesTheQueue` says
that every step is a step of `CommandQueue`.

### 2.3 Cron scheduler

`locked()` serialises sections of one store path, also across instances in one
process, so a locked section is one action. Between sections executions run
(`runs`), the clock advances (`now`), the timer fires and callers arrive. Per
service instance: `mem` (`state.store`), `timer`, `tick` (which part of `onTimer` is
next), `batch`, `boot` (which part of `start()` is next), `missed`, `deferred`.
`disk` is the file. `attached` says whether the job objects a tick holds are still
those in `mem`, since a forced reload replaces them and a later marker refresh is
then lost.

Time is in ticks: refire gap, first backoff and stagger are one tick; the
slot distance, the timer clamp and the stuck limit are constants. A schedule of
kind `cron` is a grid with strict `nextRun` and `previousRuns`. `MaxTime` ends the
clock and stands for all later moments, so a timer set beyond it fires there.
An execution ends with one of the outcomes in `Results` at any time. `Ops` gives the
operations callers may ask of each job. Job ids are never reused. Failing disk
writes, throwing schedule expressions, alerts and paging are not modelled, nor a
manual run still queued on lane `cron` during a hot reload. `forfeited` is a history
variable: the jobs that are executing, or about to be, and have lost the protection
of their running marker meanwhile (section 6).

### 2.4 Follow-up queue

One session's queue. A queue is an object in a map (`current`); a drain keeps a
reference to its object and goes on with it after `clearFollowupQueue` has taken it
out of the map, so the model has several objects (`queues`) and a drain for each
(`drain`). A drain awaits the debounce delay and the run it started; between two
awaits everything is one step: `DebounceEnds`, `RunEnds`, `RunFails`. A drain that ends
starts the next one in the same step. `TurnEnds` is `finalizeWithFollowup`, the only
other place that starts a drain; `callback` says whether an enqueue may restart one.
`judged` holds the messages between the reading of `isActive` and the enqueue, which
are an await apart. `recent`, `ran` and `accounted` are the history the properties
compare; `recent` is also the cache of message ids, whose expiry is left out.
`dropped` stands for `droppedCount` and `summaryLines`.

### 2.5 Delivery queue

`json`, `marker` and `failedDir` are the files `{id}.json`, `{id}.delivered` and
`failed/{id}.json`; they survive `Crash`. `live[d]` is a call of
`deliverOutboundPayloads`, `recovery` the loop of `recoverPendingDeliveries` with the
list it read at start-up. `ackDelivery` and `failDelivery` take one step for each
file operation and are shared by both callers, as in the code. A send succeeds,
fails, is aborted (live only), fails for good (recovery only), or swallows payload errors
(best effort). Whether a backoff or the time budget has run out is open. The
temporary files of atomic writes and file operations that fail are left out.

### 2.6 Session lock

`file` is the lock file, named by the call whose `open(path, "wx")` made it, with
whether its payload is written and whether it is old by now. `held` is `HELD_LOCKS`
of each process, `count` its reference count, `closing` the entries that were taken
out of the map and whose file is removed one await later. A call goes through
`call[c]`: opens, writes, registers, or reads, judges and removes what somebody else
left; every file operation is a step of its own. `RemovesReleased`, `Removes` and
`CleanerRemoves` remove what is at the path by then, as the code does. `Faults` names
what may go wrong: a crash, SIGTERM (which removes the files of all entries while
the runs go on), a failing write, the watchdog, ageing. One model call is one
acquisition; `allowReentrant: false`, recycled process ids and the in-process queue of
`config/sessions/store.ts` are left out.

The code does not promise that a holder keeps its file under all circumstances.
`forfeit` is the history of entries that lost it in one of the ways the code allows:
the file was taken by a step that had judged another one, by one that went by its
age or met it unwritten at start-up, by SIGTERM, or by the watchdog.
`HolderHasFile` says there is no other way.

### 2.7 Channel manager

One account. An instance is the tracked promise that `startChannelInternal` stores,
with its tail: `running`, asleep in its `backoff`, or `restarting` inside the nested
`startChannelInternal`. `entry` is the account's entry in `store.tasks` and
`store.aborts`, which are written together. Promise continuations run in the
order in which they became ready (`micro`); requests, timers and the ends of
plugins wait until there is none. That is what most of the properties rest on:
`startChannelInternal` looks for a task before an await and stores its own after it,
and nothing but a microtask fits in between.

Two restarts (monitor and reload) may wait for the end of one instance, and both
go on to start. `overlap` records this; the properties except it, and
`Channels.cfg` does not follow behaviours beyond it (`NotOverlapped`). `held` says that
a client stopped the account and nobody started it since. Why they hold is stated
in `EntryIsExact`, `WaitersStopped`, `TurnsAreOrdered` and `RestartsAreCounted`, which the
proofs rest on. `isConfigured` is
synchronous and there is no `stopAccount` hook, as in all channels of this repository.

### 2.8 Background agents of the enterprise server

A task, its call and its run share a name. `memory` is the registry's map, `db` the
rows, `writes` the upserts nobody awaits, which may land in any order. `call` is how
far `runBackground` and `callAgent` are, `listeners` the subscriptions to the engine's
event bus, oldest first, `tracked` the set `trackedRunIds` that all calls share,
`restore` and `stale` the `restoreFromDB` that `index.ts` starts without awaiting it.
`Crash` keeps the rows and nothing else.

The bus calls the listeners one after another, and the first one that sees the end
of any tracked run takes it as its own and stops tracking that run; so the ends
reach the listeners one to one, though not in the right pairs (section 6).

### 2.9 Heartbeat

`HeartbeatWake` is the module state of `heartbeat-wake.ts`: `pending`, `timer` with its
kind, `scheduled`, `running`, the registered `handler` with its generation. A batch is
one execution of the timer callback; up to `MaxBatches` exist, because a replaced
handler's batch may still await its run. `turn` names the batch whose code runs now.
`HeartbeatRunner` adds the runner: `armed` is its slot timer, `due` that a slot has come,
`agents` that the configuration gives it some. Delays are left out: a timer may fire
at any moment, so the cooldown after a busy reply is the difference between a
`retry` and a `normal` timer. All agents of a runner are taken together.

## 3. Runs

| Run | Shows |
|---|---|
| `queue` | no lost wake-up, truthful drain report, settled once and in the end, implements `LaneScheduler`; synchronous throws, clearing, draining, one reset |
| `nesting` | a chat run, a timer run and a manual run with a job timeout: one run per session, no deadlock, every step is one of the queue |
| `cron_edits` | an interval job and a one-shot while jobs are run by hand, added, enabled, rescheduled, edited, removed, with a crash: no double run, the timer covers all slots, a tick swallows none, a finished one-shot stays finished |
| `cron_handover` | hot reload and crash: no marker without owner, every due slot is executed in the end |
| `followup` | run at most once, in order, no unexplained loss, attended messages leave; redelivery, failure, clear, overflow, mixed settings |
| `followup_overflow` (violation) | an overflow during a run loses a third message |
| `delivery` | two deliveries, recovery and two crashes: nothing forgotten, attempts bounded, finished entries stay finished |
| `session_lock` | two calls of the gateway and one of another process, all faults: a holder keeps its file, waiting ends |
| `channels` | a client, the monitor and a reload: one instance, tracked, crash loop capped, automatic restarts honour a stop, calls return, the account comes back |
| `agents` | two tasks of one user with a quota of one and a crash: quota, no zombie rows, rows agree, ended tasks stay ended, tasks end |
| `agents_events` (violation) | the end of one run completes another task |
| `heartbeat` | two runners one after the other: heartbeats go on, batches do not overlap, wakes are taken and not weakened, the cooldown holds |

Five more configurations lie beside them; each reproduces a behaviour of section 6
that contradicts a wish rather than a bound of a run. `tlc -config X.cfg M`:
`LaneNesting_manual` (`MCLaneNesting`), `Cron_boot` and `Cron_reload` (`MCCron`),
`Channels_stop` (`MCChannels`), `Heartbeat_switch` (`MCHeartbeat`). TLC finds each of their
properties violated.

`CHECK_DEADLOCK FALSE` is set where the model legitimately stops: all commands
are settled, the clock has reached its bound and nothing is left to do, all
deliveries, calls or tasks are finished, or an account is stopped and nobody starts it.

Bounds. All runs use two or three commands, messages, calls or tasks and two lanes,
jobs, instances or runners: every hazard needs at most two actors on one lane, job,
entry or file and one more beside them.

- Queue: caps up to 2 allow raising and lowering a cap around active tasks; one
  reset suffices, because only the difference between current and older
  generations matters.
- Cron: `MaxTime` 2 or 3 with a slot distance of 2 lets a job run, come due again
  during another execution, and lets a one-shot fail and retry. `StuckAfter` is
  above `MaxTime`: no execution is declared stuck (section 6). `MaxInst` 2 is one crash
  or one reload, `MaxManual` 1 one manual run. `Results` has two outcomes in
  `cron_edits` (a skipped run is stored like a successful one, a permanent failure
  like an exhausted transient one) and all four in `cron_handover`. `EditOps` gives
  the interval job enabling and disabling, also during its own execution, and the
  one-shot adding, rescheduling, other edits and `cron.run`; it leaves out enabling a
  one-shot that start-up has deferred (section 6). `HandoverOps` reads and removes the
  one job of the liveness run, whose cost grows with the fairness conditions. The
  operations left out of a run are covered by the theorems, which hold for any `Ops`
  (of one-shots that are enabled again: section 5).
- Follow-up: three messages with a cap of one or two fill the queue while one is
  being run; two queue objects are a cleared one a drain still holds and its
  successor; one redelivery, failure, clear and turn at a time each meet every
  state of the queue.
- Delivery: one retry and two crashes reach the limit with and without an
  interrupted attempt; one of the two deliveries is best effort.
- Session lock: `Call` bounds the acquisitions. Three calls let two of one process
  share while one of another process judges, waits or takes over; each fault may
  happen whenever its guard allows.
- Channels: two instances are a running one and its successor, a third could exist
  only after `overlap`. `MaxRestartAttempts` 2 tells a first restart from the last.
- Agents: two tasks under a quota of one, one crash. Two calls suffice for a wrong
  pairing of events.
- Heartbeat: two runners are one restart; two batches are the replaced one that
  hangs and the present one; two targets let a wake for one session and one for
  all agents wait together.

## 4. Fairness

Weak fairness says that code on the stack, a due timer or a settled promise goes
on. Strong fairness is used where the event loop serves a callback in the end
although others keep coming: the action is enabled again and again, not all the
time.

- Queue: synchronous code runs to its end, tasks terminate (agent runs have
  timeouts; strong, because callers can keep the stack busy). Nothing is assumed
  of callers.
- Lane nesting: the same, and a manual run whose slot was granted goes on to call
  the agent.
- Cron: Node fires timers that are due, promise chains of `locked()` advance,
  workers continue, executions end (`executeJobCoreWithTimeout` has a default timeout
  of 10 or 60 minutes), time passes.
- Follow-up: the debounce timer fires, runs end (they have timeouts) and turns end.
  Nothing is assumed of the messages that arrive.
- Session lock: file operations and retry timers go on, holders release, files
  age, the cleaner goes on once it began. Crashes and signals are never forced.
- Channels: microtasks run; a plugin that was aborted ends, backoffs elapse, the
  monitor's interval fires, logout returns, time passes. These are macrotasks, which
  are disabled while `micro` is not empty, hence strong. Nothing makes a user act, an
  account crash or the configuration change.
- Agents: calls are answered, runs of the engine end, upserts land, restoration
  goes on. Nothing makes a user post or cancel.
- Heartbeat: the wake timer fires, code on the stack goes on, and a run ends as
  long as its runner is the registered one; a run that a restart interrupted may
  hang for ever.

No liveness is claimed of the delivery queue: what recovery leaves undone waits
for the next start.

## 5. Proofs

The theorems hold for all values of the constants that satisfy the assumptions
named in the modules: any finite sets of commands, runs, deliveries, calls, tasks
or targets, any limits, any number of crashes. Each follows one pattern: the
property is not inductive, an invariant next to the model says why it holds, TLC
has checked that invariant on the run's instance, and the proof has a lemma for
each action.

- `CommandQueueProofs`. `NoLostWakeup` needs to know who will do the work: whenever a lane
  is runnable, a pump of it is on the stack or a reset still has to drain it
  (`WakeupIsOwned`), and a raised `draining` flag belongs to a pump on the stack
  (`DrainingIsOwned`). `ActiveIsExact` and `QueueIsExact` need `TaskFramesRun`. All of it is
  `IInv`; `DrainedIsTrue`, `SettlesOnce` and `CapHolds` follow, and
  `QueueImplementsScheduler`: every step of the queue is a step of `LaneScheduler` or
  leaves its variables unchanged.
- `SessionProofs`, lanes. `RunsUseTheQueue`: every step of the runs is a step of the
  queue; the only steps that are not literally one are the ends of a session's
  and of a slot's command, which wait for the command they await. `SessionsRunOnce`
  follows from `NestInv`: the cap of a session's lane stays one, its slot is taken by the
  command that executes (`SessionsAreSerial`), and a body waits or executes only under
  that command (`BodyHoldsSession`, itself a theorem).
- `CronProofs`. The lemmas at the start say what the functions on the job table return:
  an enabled job without a slot is a one-shot that is over (`Slotted`), the two
  recompute functions keep everything but slots and stale markers (`Tended`), results
  change only the jobs they are for (`Settled`). `TimerIsArmed` needs no more than that: between
  ticks, what changes a table without setting the timer gives no job an earlier slot,
  because no enabled job was without one. The rest is about one instance on the store (`Alone`; only a crash ends its absence).
  `NeverTwice` needs to know who may claim a job (an execution, the batch of a tick,
  the list of start-up) and that a claim has left its marker both on disk and in the
  copy in memory, so whoever selects jobs passes it by (`ClaimsExclusive`). A claimed job
  that is disabled, or whose marker is older than `STUCK_RUN_MS`, is not protected;
  `ForfeitsKnown` says that the history variable `forfeited` names all of these.
  `MarkersBacked` is the converse, a marker belongs to a claim, from which
  `NoMarkerIsLeft` follows; callers write back the copy in memory, so both need
  `MemoryAgrees`: the same jobs with the same slots. `SlotsSurvive` follows from
  `Settled` and `MemoryAgrees`. `OneShotsEnd` has two hypotheses on the constants: nobody
  enables one-shots again (`NoReenable`, else section 6) and no execution outlives
  `STUCK_RUN_MS` (`NeverStale`). A one-shot that succeeded is then disabled in every
  table, and a disabled one is in no batch and on no start-up list
  (`OneShotsRest`): the result that disabled it was its only claim. Edits, reloads and
  crashes are unrestricted otherwise.
- `DeliveryQueueProofs`. An acknowledgement removes the file whatever became of the send,
  so `NothingForgotten` needs `CallsAreHonest`: a call is at its acknowledgement only if the
  delivery arrived or was given up, and a failure report puts back only what it read.
  The live call and the recovery may overwrite each other's retry count.
  `AttemptsAreCounted` says what each copy of an entry (in its file, on
  recovery's list, about to be written) has counted, so the bound holds
  (`RetriesAreBounded`). `RetiredIsGone` says that nobody holds a finished entry to put
  back, unless the scan met it while its call was at work (`RetiredForever`).
- `FollowupQueueProofs`. `MessagesRunOnce` needs `PlacedOnce`: an accepted message is in one
  queue object or what one drain is running, or was run. A drain takes out by
  position what it ran, so what is left of it in the list must stand at the front,
  however many were dropped there meanwhile (`Took`). `MessagesAreKept` needs
  `DrainsTheirOwn`: undisturbed, the only drain is that of the session's queue, the front
  of the list is what it ran and the lines it told are the dropped ones.
  `MessagesRunInOrder` adds `WaitsInLine`: what waits in the session's queue is in the
  order of acceptance and behind all that was run, and a run takes the first of
  it. The order is told by positions (`Precedes`), not by what a recursive operator
  selects, which these provers cannot reason about. The lemmas
  on sequences at the start say what appending, joining and dropping a prefix do.
- `SessionProofs`, lock file, under `HasStarttime`: `OwnersHaveFile` extends `HolderHasFile` to
  calls that have made their file but not registered it; `NamesAreTried` says that what
  was judged stale stays out of use, so a removal that hits the judged file hurts
  nobody; `EntriesAreExact` says that the count of an entry is the number of its
  sharers. `OneEntryAtATime` is the mutual exclusion that follows.
- `AsyncAgentsProofs`. `QuotaHolds` needs to know that restoration brings no open task
  back (`LeftOverIsListed`, `DeadAreClosed`), which needs that all writes under way are of this
  process (`WritersLive`); `DbAgrees` needs `SavesAreExact`.
- `ChannelProofs`, up to `overlap`. `OneInstance` and `LiveIsTracked` follow from `EntryIsExact`:
  the entry is the one instance that runs or sleeps, and besides it there is at
  most one that is about to start its successor, alone among the continuations.
  That needs their order (`TurnsAreOrdered`: of the stops that resume together at most
  one goes on to start, and it comes last) and that who waits has stopped the
  account (`WaitersStopped`); with it an instance between two starts was not stopped
  (`AutoRestartHonoursStop`). `RestartsAreCounted` bounds a crash loop. What the
  monitor remembers has no part in it.
- `HeartbeatProofs`. `KeepsBeating` speaks of the moments between callbacks;
  `AlwaysNextBeat` holds within them, too, and needs that a registered handler's runner
  lives and that timers are kept. `BatchHoldsFlag` explains `OneBatchAtATime`,
  `CoolingIsRetry` the cooldown.

Only model-checked: liveness (the prover has no fairness or ENABLED reasoning here)
and `MarkerOwned` after a hot reload. The lemma
`SameCardinality` in `SessionProofs` is needed because an instance of a module brings
its own copy of `Cardinality`.

## 6. Findings and limits

Two violation runs reproduce disagreements between code and stated intent;
`PROJECT.json` ("findings") quotes the lines.

- `followup_overflow`: a drain removes by position what it ran, after an await in
  which an overflow may have removed the head.
- `agents_events`: a listener keeps the events of every run in `trackedRunIds`, which
  all calls share, although its comment says it only handles its own run's.

Five configurations show behaviours that a maintainer should know of:

- `LaneNesting_manual`: `cron.run` of a job without timeout occupies the slot of lane
  `cron` that its own agent needs (cap 1 by default) and never ends, though
  `cron/service.issue-regressions.test.ts:1495` expects queued manual runs to finish.
- `Cron_boot`: a slot that comes due during the start-up catch-up is advanced by the
  recompute at the end of `start()`, although `cron/service/timer.ts:982-984` says such
  slots are preserved and "should execute on a future tick".
- `Cron_reload`: after a hot reload the old instance's execution goes on, the new one
  clears its marker as stale (`cron/service/ops.ts:104`) and runs the job again, although
  the marker is there so that "timer ticks that force-reload from disk cannot start
  the same job concurrently" (ops.ts:416-417).
- `Channels_stop`: a stop that finds neither a task nor an abort controller is not
  recorded, so the health monitor starts an account a client has stopped
  (`gateway/server-channels.ts:117`: "so we don't auto-restart them").
- `Heartbeat_switch`: a wake that is answered while heartbeats are switched off does
  not set the slot timer again, and switching them on does not either; the code
  otherwise takes care that "heartbeats keep firing" (`infra/heartbeat-runner.ts:1185-1186`).

Properties with an exception, recorded by a history variable:

- `NoUnexplainedLoss` and `RunsInOrder` except behaviours after a step that may lose a
  message (`disturbed`): an overflow during a run, a clear during a drain, a
  summary sent in place of the head item. `NothingIsLost` is the same without it.
- `RetiredStaysRetired` excepts entries the recovery scan met while their live call
  was at work (`overlapped`).
- `NothingForgotten` counts an aborted delivery as settled and, because the code
  acknowledges it, a best-effort delivery whose errors no `onError` reports (`given`).
  The comment at `infra/outbound/deliver.ts:485-488` describes the opposite for callers
  that pass `onError`; recovery does not.
- `HolderHasFile` excepts `forfeit` (2.6), the channel properties `overlap` (2.7),
  `DbAgrees` tasks with two upserts under way or met by restoration (`mixed`),
  `OneBatchAtATime` what follows the end of a replaced handler's batch (`overtaken`),
  `KeepsBeating` behaviours in which heartbeats were switched off (`silenced`).
- `NoDoubleRun`, `TickKeepsSlots` and `OneShotOnce` speak of one instance on a store
  (`Alone`), `TickKeepsSlots` not of `add()` and the end of `start()`.
- `NoDoubleRun` excepts jobs whose marker is `forfeited` while they are claimed: disabling
  a job clears the marker of its execution (`cron/service/ops.ts:302`), a forced
  `cron.run` of a disabled job keeps none, and one older than `STUCK_RUN_MS` is taken for
  left over (`cron/service/jobs.ts:341-381`). In each case `cron.run`, or after enabling a
  tick, may start a second execution.

Known and not covered by a property:

- Cron: a reload followed by an edit writes back a marker nobody
  owns; a one-shot that start-up deferred and that a tick has finished repeats when it
  was enabled again meanwhile (`timer.ts:974`); an execution that outlives its timeout
  or, without timeout, two hours.
- Session lock: on a platform without `/proc` start times (`HasStarttime` FALSE) a second
  call of the process takes a lock that is written but not registered yet for an
  orphan. Release, judgement and cleanup remove by path. SIGTERM releases all
  locks while the runs go on.
- Follow-up: the restart loop of a queue that holds only dropped messages, a message
  queued after its turn has ended.
- Agents: a coordinator's slot is free as soon as the engine has accepted the run, so
  `maxConcurrentCoordinators` does not limit running tasks; DELETE does not reach the
  run; the status `timeout` is never set; a forced cleanup leaves its task open.
- Heartbeat: wakes in the batch of a stopped runner are answered "disabled" and are
  gone; a busy reply that meets a normal timer takes its shorter delay.

Not modelled, besides the components with that status in `PROJECT.json`: failing disk
and database writes outside the session lock, the distributed cron lock that no
code consults, the cache expiry of message ids. Most of the repository's lines are
outside any module: user interfaces, prompts, tools, model providers, chat protocols,
configuration schemas, deployment. They transform data or talk to services; their
order of steps carries no state that another component relies on.

## 7. Plan

1. Done: command queue, lane nesting, cron scheduler, follow-up queue, delivery queue,
   session lock, channel manager, background agents, heartbeat; theorems for all.
2. The subagent registry and its announce queue, which shares the follow-up queue's
   helpers and backs off after failures; `ExecApprovals` (expiry against a decision).
3. The session store's in-process queue on top of the session lock; the ACP manager.
4. Abstract specifications: one execution per slot for the cron scheduler,
   at-least-once delivery for the delivery queue, a mutex for the session lock.
5. Theorems: what the cron scheduler keeps while a stopped instance is still at work.
6. Runs stay few: a new module gets one passing run, or joins an existing one.
