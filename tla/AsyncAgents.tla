----------------------------- MODULE AsyncAgents -----------------------------
(***************************************************************************)
(* Background agent tasks of the enterprise server: the registry in memory *)
(* and its fire-and-forget copies in the database                          *)
(* (services/AsyncAgentRegistry.ts), the calls that run them               *)
(* (EngineAdapter.callAgentAsync and callAgent), and the event bus of the  *)
(* engine inside the same process (infra/agent-events.ts, which calls its  *)
(* listeners one after the other).                                         *)
(*                                                                         *)
(* A task is one call and one run of the engine; task, call and run share  *)
(* their name here.  A run is what the engine does; a listener is what the *)
(* call registered on the bus to hear of it.                               *)
(***************************************************************************)
EXTENDS Naturals, Sequences, FiniteSets, SequencesExt

CONSTANTS
  Tasks, Users,
  Owner,             \* the user of each task
  MaxTasksPerUser,   \* agents.maxAsyncTasksPerUser
  MaxCoordinators,   \* agents.maxConcurrentCoordinators
  MaxCrashes         \* bound: crashes of the process

ASSUME AgentsAssumption ==
  /\ Owner \in [Tasks -> Users]
  /\ {MaxTasksPerUser, MaxCoordinators} \subseteq Nat \ {0}
  /\ MaxCrashes \in Nat
  /\ IsFiniteSet(Tasks)

VARIABLES
  memory,     \* status of the tasks in the registry's map
  db,         \* status of the rows of agentTask
  writes,     \* upserts under way: [task, status]
  call,       \* how far runBackground and callAgent have come
  active,     \* the tasks that activeCoordinatorTasks counts
  late,       \* calls not settled when backgroundAfterMs had passed
  tracked,    \* trackedRunIds, shared by all calls
  listeners,  \* the calls that listen on the bus, oldest first
  run,        \* the engine's runs
  restore,    \* restoreFromDB: "scanning", "marking", "loading" or "done"
  stale,      \* rows it read as left over and has not marked yet
  crashes,
  mixed       \* history: tasks with two writes under way at once, or that
              \* restoreFromDB took for left over

process == <<call, active, late, tracked, listeners, run>>
database == <<db, writes, mixed>>
restoring == <<restore, stale>>
vars == <<memory, database, process, restoring, crashes>>

Open == {"pending", "running"}
Ended == {"completed", "failed", "cancelled"}

TypeOK ==
  /\ memory \in [Tasks -> {"none"} \cup Open \cup Ended]
  /\ db \in [Tasks -> {"none", "pending"} \cup Ended]
  /\ writes \subseteq [task : Tasks, status : {"pending"} \cup Ended]
  /\ call \in [Tasks -> {"idle", "compacting", "calling", "accepted", "lost", "dead"}]
  /\ active \subseteq Tasks /\ late \subseteq Tasks /\ tracked \subseteq Tasks
  /\ listeners \in Seq(Tasks)
  /\ run \in [Tasks -> {"none", "going", "ended"}]
  /\ restore \in {"scanning", "marking", "loading", "done"}
  /\ stale \subseteq Tasks
  /\ crashes \in 0..MaxCrashes
  /\ mixed \subseteq Tasks

(* The first start, on an empty table, is over.                            *)
Init ==
  /\ memory = [t \in Tasks |-> "none"] /\ db = [t \in Tasks |-> "none"]
  /\ writes = {} /\ mixed = {}
  /\ call = [t \in Tasks |-> "idle"] /\ active = {} /\ late = {}
  /\ tracked = {} /\ listeners = <<>> /\ run = [t \in Tasks |-> "none"]
  /\ restore = "done" /\ stale = {}
  /\ crashes = 0

-----------------------------------------------------------------------------
(* The registry.                                                           *)

Writing(t) == \E w \in writes : w.task = t

PutUnsaved(t, s) ==
  /\ memory' = [memory EXCEPT ![t] = s]
  /\ writes' = IF s = "pending" THEN writes \cup {[task |-> t, status |-> s]} ELSE writes
  /\ UNCHANGED <<db, mixed>>

(* Put(t, s): the task has status s in memory, and persistTask starts an   *)
(* upsert of what it has now.                                              *)
Put(t, s) ==
  /\ memory' = [memory EXCEPT ![t] = s]
  /\ writes' = writes \cup {[task |-> t, status |-> s]}
  /\ mixed' = IF Writing(t) THEN mixed \cup {t} ELSE mixed
  /\ UNCHANGED db

PutIfKnown(t, s) == IF memory[t] = "none" THEN UNCHANGED <<memory, database>> ELSE Put(t, s)

PutInMemory(t, s) == memory' = [memory EXCEPT ![t] = s] /\ UNCHANGED database

RunningOf(u) == {t \in Tasks : Owner[t] = u /\ memory[t] = "running"}
OpenOf(u) == {t \in Tasks : Owner[t] = u /\ memory[t] \in Open}
CountsRunning(t) == Cardinality(RunningOf(Owner[t])) < MaxTasksPerUser
HasQuota(t) == Cardinality(OpenOf(Owner[t])) < MaxTasksPerUser

AlwaysRunning(status) == "running"
Progressed(status) == IF status = "pending" THEN "running" ELSE status

(* The route's DELETE.  It does not reach the call: its cancelled flag     *)
(* stays false, and the engine's run goes on.  Cancelling again writes the  *)
(* same once more and is left out.                                         *)
Cancel(t) ==
  /\ memory[t] \in Open
  /\ Put(t, "cancelled")
  /\ UNCHANGED <<process, restoring, crashes>>

-----------------------------------------------------------------------------
(* callAgentAsync and callAgent.                                           *)

(* POST: the checks of both limits, create, and runBackground up to its    *)
(* first await.  A refused request changes nothing.                        *)
Post(t) ==
  /\ call[t] = "idle"
  /\ Cardinality(active) < MaxCoordinators
  /\ HasQuota(t)
  /\ Put(t, "pending")
  /\ active' = active \cup {t}
  /\ call' = [call EXCEPT ![t] = "compacting"]
  /\ UNCHANGED <<late, tracked, listeners, run, restoring, crashes>>

(* maybeCompact is over and the event bus imported; nothing looks at the   *)
(* call between its two awaits.                                            *)
Listens(t) ==
  /\ call[t] = "compacting"
  /\ call' = [call EXCEPT ![t] = "calling"]
  /\ tracked' = tracked \cup {t}
  /\ listeners' = Append(listeners, t)
  /\ UNCHANGED <<memory, database, active, late, run, restoring, crashes>>

(* The agent method answers as soon as it has accepted the run, which      *)
(* settles callAgent: the coordinator's place is free again.               *)
Accepted(t) ==
  /\ call[t] = "calling"
  /\ call' = [call EXCEPT ![t] = "accepted"]
  /\ run' = [run EXCEPT ![t] = "going"]
  /\ tracked' = tracked \cup {t}
  /\ active' = active \ {t}
  /\ UNCHANGED <<memory, database, late, listeners, restoring, crashes>>

(* The listeners when t has unsubscribed; a call subscribes once.          *)
Without(t) ==
  IF t \in Range(listeners)
  THEN RemoveAt(listeners, CHOOSE i \in DOMAIN listeners : listeners[i] = t)
  ELSE listeners

(* The agent method fails for good.  The catch of runBackground spares a   *)
(* completed or cancelled task; the one of a call that outlived            *)
(* backgroundAfterMs does not look.                                        *)
Rejected(t) ==
  /\ call[t] = "calling"
  /\ call' = [call EXCEPT ![t] = "lost"]
  /\ tracked' = tracked \ {t}
  /\ listeners' = Without(t)
  /\ active' = active \ {t}
  /\ IF t \in late \/ (t \in active /\ memory[t] \notin {"completed", "cancelled"})
     THEN PutIfKnown(t, "failed")
     ELSE UNCHANGED <<memory, database>>
  /\ UNCHANGED <<late, run, restoring, crashes>>

(* backgroundAfterMs passes before the call is settled.                    *)
GoesToBackground(t) ==
  /\ call[t] = "calling" /\ t \in active
  /\ active' = active \ {t} /\ late' = late \cup {t}
  /\ UNCHANGED <<memory, database, call, tracked, listeners, run, restoring, crashes>>

(* The forced cleanup after thirty minutes: the call hears no more.        *)
ForcedCleanup(t) ==
  /\ t \in Range(listeners) /\ call[t] = "accepted"
  /\ listeners' = Without(t)
  /\ call' = [call EXCEPT ![t] = "lost"]
  /\ UNCHANGED <<memory, database, active, late, tracked, run, restoring, crashes>>

-----------------------------------------------------------------------------
(* The engine emits events.  A listener takes those of every tracked run.  *)

Progress(r) ==
  /\ run[r] = "going" /\ r \in tracked
  /\ memory' = [t \in Tasks |-> IF t \in Range(listeners) /\ memory[t] # "none"
                                THEN Progressed(memory[t]) ELSE memory[t]]
  /\ UNCHANGED <<database, process, restoring, crashes>>

NoneListens == <<>>
OthersListen == Tail(listeners)

(* The end of a run, good or bad.  The first listener takes it as its own, *)
(* and stops tracking the run, so that the others ignore it.               *)
RunEnds(r) ==
  /\ run[r] = "going"
  /\ run' = [run EXCEPT ![r] = "ended"]
  /\ IF r \notin tracked \/ listeners = <<>>
     THEN UNCHANGED <<memory, database, active, tracked, listeners>>
     ELSE LET t == Head(listeners)
          IN  /\ \E s \in {"completed", "failed"} : PutIfKnown(t, s)
              /\ active' = active \ {t}
              /\ tracked' = tracked \ {r}
              /\ listeners' = OthersListen
  /\ UNCHANGED <<call, late, restoring, crashes>>

-----------------------------------------------------------------------------
(* The database and the process.                                           *)

(* Upserts travel on separate connections: they land in any order.         *)
WriteLands(w) ==
  /\ w \in writes
  /\ writes' = writes \ {w}
  /\ db' = [db EXCEPT ![w.task] = w.status]
  /\ UNCHANGED <<memory, process, restoring, crashes, mixed>>

(* restoreFromDB runs beside the requests: nobody awaits it.               *)
OnlyRunning == {"running"}
LeftOver == {"pending", "running"}

RestoreScans ==
  /\ restore = "scanning"
  /\ stale' = {t \in Tasks : db[t] \in LeftOver}
  /\ restore' = "marking"
  /\ mixed' = mixed \cup {t \in stale' : memory[t] # "none"}
  /\ UNCHANGED <<memory, db, writes, process, crashes>>

RestoreMarks ==
  /\ restore = "marking" /\ stale # {}
  /\ \E t \in stale : stale' = stale \ {t} /\ db' = [db EXCEPT ![t] = "failed"]
  /\ UNCHANGED <<memory, writes, mixed, process, restore, crashes>>

RestoreLoads ==
  /\ restore = "marking" /\ stale = {}
  /\ restore' = "done"
  /\ memory' = [t \in Tasks |-> IF memory[t] = "none" THEN db[t] ELSE memory[t]]
  /\ UNCHANGED <<database, process, stale, crashes>>

(* The cleanup timer drops tasks that ended a day ago.                     *)
Expires(t) ==
  /\ restore = "done" /\ memory[t] \in Ended
  /\ PutInMemory(t, "none")
  /\ UNCHANGED <<process, restoring, crashes>>

(* The engine's runs, the registry and the writes under way die with the   *)
(* process; a write that landed just before is one that landed.            *)
Crash ==
  /\ crashes < MaxCrashes
  /\ crashes' = crashes + 1
  /\ memory' = [t \in Tasks |-> "none"]
  /\ writes' = {}
  /\ call' = [t \in Tasks |-> IF call[t] = "idle" THEN "idle" ELSE "dead"]
  /\ run' = [t \in Tasks |-> "none"]
  /\ active' = {} /\ late' = {} /\ tracked' = {} /\ listeners' = <<>>
  /\ restore' = "scanning" /\ stale' = {}
  /\ mixed' = {}
  /\ UNCHANGED db

Next ==
  \/ \E t \in Tasks :
       \/ Post(t) \/ Listens(t) \/ Accepted(t) \/ Rejected(t)
       \/ GoesToBackground(t) \/ ForcedCleanup(t) \/ Cancel(t)
       \/ Progress(t) \/ RunEnds(t) \/ Expires(t)
  \/ \E w \in writes : WriteLands(w)
  \/ RestoreScans \/ RestoreMarks \/ RestoreLoads
  \/ Crash

Spec == Init /\ [][Next]_vars

(* Promises settle, the engine answers and its runs end, the database      *)
(* answers.  Nothing makes a user post or cancel.                          *)
Fairness ==
  /\ \A t \in Tasks : /\ WF_vars(Listens(t))
                      /\ WF_vars(Accepted(t) \/ Rejected(t)) /\ WF_vars(RunEnds(t))
  /\ WF_vars(\E w \in writes : WriteLands(w))
  /\ WF_vars(RestoreScans) /\ WF_vars(RestoreMarks) /\ WF_vars(RestoreLoads)

FairSpec == Spec /\ Fairness
-----------------------------------------------------------------------------
(* A task that has ended is never open again: it does not come back into   *)
(* the user's quota, and the stream that told its end was right to close.  *)
EndedStaysEnded ==
  [][\A t \in Tasks : memory[t] \in Ended => memory'[t] \in Ended \cup {"none"}]_vars

(* No user has more open tasks than the limit, whatever the database,      *)
(* a restart and late answers put into the registry.                       *)
QuotaHolds == \A u \in Users : Cardinality(OpenOf(u)) <= MaxTasksPerUser

(* Once restoreFromDB is through, no row says that a task of an earlier    *)
(* process is still open ("marks running/pending tasks as failed").        *)
NoZombies ==
  restore = "done" => \A t \in Tasks : call[t] = "dead" => db[t] \notin Open

(* When no write of a task is under way its row says what memory says,     *)
(* unless two of its writes were under way at once or restoreFromDB took   *)
(* it for left over.                                                       *)
DbAgrees ==
  \A t \in Tasks \ mixed : memory[t] # "none" /\ ~Writing(t) =>
    IF memory[t] = "running" THEN db[t] = "pending" ELSE db[t] = memory[t]

(* A task is completed by the end of its own run ("only handles events of  *)
(* this run").  The listener takes the end of any tracked run.             *)
OwnRunEnds ==
  \A t \in Tasks : memory[t] = "completed" /\ call[t] # "dead" => run[t] = "ended"

(* Every open task ends, as long as no call was rejected or cleaned up by  *)
(* force: the ends of runs reach the listeners one to one, if not in the   *)
(* right pairs.                                                            *)
EveryTaskEnds ==
  \A t \in Tasks : memory[t] \in Open ~>
    (memory[t] \notin Open \/ \E u \in Tasks : call[u] = "lost")
-----------------------------------------------------------------------------
(* Why QuotaHolds, NoZombies, DbAgrees and EndedStaysEnded hold.           *)

Saved(status) == IF status = "running" THEN "pending" ELSE status

(* A task that nobody posted has left no trace.                            *)
Untouched == \A t \in Tasks : call[t] = "idle" => memory[t] = "none" /\ db[t] = "none"

(* The writes under way are of calls of this process; until restoreFromDB  *)
(* is through, no task with a write has left the memory.                   *)
WritersLive ==
  \A w \in writes : /\ call[w.task] \notin {"idle", "dead"}
                    /\ restore # "done" => memory[w.task] # "none"

(* Listeners are of calls of this process, too.                            *)
ListenersLive == \A i \in DOMAIN listeners : call[listeners[i]] \notin {"idle", "dead"}

(* restoreFromDB has on its list what it could otherwise load as pending,  *)
(* and nothing on it that is known to the memory and not noted as mixed.   *)
LeftOverIsListed ==
  \A t \in Tasks :
    /\ restore = "marking" /\ memory[t] = "none" /\ db[t] = "pending" => t \in stale
    /\ t \in stale => restore = "marking" /\ call[t] # "idle" /\ (memory[t] = "none" \/ t \in mixed)

(* A task of an earlier process is only known by what its row says.        *)
DeadAreClosed ==
  \A t \in Tasks : call[t] = "dead" =>
    /\ memory[t] \notin Open /\ (restore # "done" => memory[t] = "none")
    /\ restore = "done" => db[t] # "pending"

(* The one write under way, or else the row, says what memory says.        *)
SavesAreExact ==
  \A t \in Tasks \ mixed : memory[t] # "none" =>
    IF Writing(t) THEN \A w \in writes : w.task = t => w.status = Saved(memory[t])
    ELSE db[t] = Saved(memory[t])

AgentsInv ==
  /\ TypeOK /\ Untouched /\ WritersLive /\ ListenersLive
  /\ LeftOverIsListed /\ DeadAreClosed /\ SavesAreExact /\ QuotaHolds
=============================================================================
