--------------------------- MODULE ChannelManager ---------------------------
(***************************************************************************)
(* One account of one channel under the gateway's channel manager          *)
(* (gateway/server-channels.ts) and under those who start and stop it: the *)
(* gateway methods a client calls (Users), the health monitor and the      *)
(* config reload, which both stop and then start (Restarters).  Accounts   *)
(* share no entry of the manager's maps, so one account stands for all.    *)
(*                                                                         *)
(* The plugin has no stopAccount hook and a synchronous isConfigured, as    *)
(* every channel of the repository does.                                   *)
(*                                                                         *)
(* The manager runs on one JavaScript thread.  A macrotask (a request, a   *)
(* timer, the end of a plugin's promise) runs only when the microtasks of  *)
(* the one before are done: micro is the queue of continuations that are   *)
(* ready, and every other action waits until it is empty.                  *)
(***************************************************************************)
EXTENDS Naturals, Sequences, FiniteSets, SequencesExt

CONSTANTS
  Users,               \* clients that call start, stop and logout
  Restarters,          \* a subset of {"monitor", "reload"}
  MaxRestartAttempts,  \* MAX_RESTART_ATTEMPTS
  MaxPerHour,          \* the monitor's maxRestartsPerHour
  Instances,           \* startAccount promises with their tails; their
                       \* number bounds how many exist at one time
  Nobody

ASSUME ManagerAssumption ==
  /\ Restarters \subseteq {"monitor", "reload"}
  /\ IsFiniteSet(Users) /\ Users \cap {"monitor", "reload"} = {}
  /\ Instances \cap (Users \cup Restarters) = {} /\ Nobody \notin Instances
  /\ {MaxRestartAttempts, MaxPerHour} \subseteq Nat \ {0}

Callers == Users \cup Restarters

VARIABLES
  inst,      \* where the tracked promise of an instance stands
  aborted,   \* the instances whose AbortController was aborted
  entry,     \* the instance in store.tasks and store.aborts, or Nobody
  manual,    \* manuallyStopped has the account
  attempts,  \* restartAttempts of the account, up to the first over the limit
  running,   \* the running field of the account's runtime snapshot
  usable,    \* the configuration: "yes", "disabled" or "unconfigured"
  call,      \* what each caller is doing
  next,      \* what it does once its stopChannel returns
  waits,     \* the instance a stopping caller awaits
  micro,     \* continuations that are ready, in order
  seen,      \* the monitor's snapshot of running
  recent,    \* restarts the monitor recorded in the last hour
  cooldown,  \* the monitor's last restart is less than cooldownMs old
  \* history, read by no action:
  held,      \* a user stopped the account and nobody started it since
  autos,     \* automatic restarts since restartAttempts was last cleared
  overlap    \* two restarts went on from the end of one instance

status == <<manual, attempts, running>>
monitor == <<seen, recent, cooldown>>
history == <<held, autos, overlap>>
vars == <<inst, aborted, entry, status, usable, call, next, waits, micro, monitor, history>>

Live == {i \in Instances : inst[i] = "running"}
Free == {i \in Instances : inst[i] = "none"}

TypeOK ==
  /\ inst \in [Instances -> {"none", "running", "backoff", "restarting"}]
  /\ aborted \subseteq Instances
  /\ entry \in Instances \cup {Nobody}
  /\ manual \in BOOLEAN /\ running \in BOOLEAN
  /\ attempts \in 0..(MaxRestartAttempts + 1)
  /\ usable \in {"yes", "disabled", "unconfigured"}
  /\ call \in [Callers -> {"idle", "judging", "stopping", "stopped", "starting",
                           "checking", "logout"}]
  /\ next \in [Callers -> {"idle", "starting", "logout"}]
  /\ waits \in [Callers -> Instances \cup {Nobody}]
  /\ micro \in Seq(Callers \cup Instances)
  /\ seen \in BOOLEAN /\ cooldown \in BOOLEAN /\ recent \in 0..MaxPerHour
  /\ held \in BOOLEAN /\ overlap \in BOOLEAN /\ autos \in Nat

Init ==
  /\ inst = [i \in Instances |-> "none"] /\ aborted = {} /\ entry = Nobody
  /\ manual = FALSE /\ attempts = 0 /\ running = FALSE
  /\ usable = "yes"
  /\ call = [c \in Callers |-> "idle"] /\ next = [c \in Callers |-> "idle"]
  /\ waits = [c \in Callers |-> Nobody]
  /\ micro = <<>>
  /\ seen = FALSE /\ recent = 0 /\ cooldown = FALSE
  /\ held = FALSE /\ autos = 0 /\ overlap = FALSE

-----------------------------------------------------------------------------

(* The end of an instance's tracked promise: its finally deletes its own   *)
(* entries only, and the stops that await it become ready.                 *)
Settle(i, insts, ent, rest) ==
  LET W == {c \in Callers : waits[c] = i}
  IN  /\ inst' = [insts EXCEPT ![i] = "none"]
      /\ aborted' = aborted \ {i}
      /\ entry' = ent
      /\ waits' = [c \in Callers |-> IF c \in W THEN Nobody ELSE waits[c]]
      /\ call' = [c \in Callers |-> IF c \in W THEN "stopped" ELSE call[c]]
      /\ \E w \in SetToSeqs(W) : micro' = rest \o w
      /\ overlap' = (overlap \/ Cardinality(W \cap Restarters) > 1)
      /\ UNCHANGED next

Without(i) == IF entry = i THEN Nobody ELSE entry

(* A call of startChannel returns; the monitor then records a restart,     *)
(* whether or not the call started anything.                               *)
StartReturns(c, rest) ==
  /\ call' = [call EXCEPT ![c] = "idle"]
  /\ micro' = rest
  /\ IF c = "monitor" THEN recent' = recent + 1 /\ cooldown' = TRUE
                      ELSE UNCHANGED <<recent, cooldown>>
  /\ UNCHANGED <<next, waits, seen>>

(* startChannelInternal from the isConfigured answer on, for a caller.     *)
Launch(c, rest) ==
  /\ \E i \in Free : inst' = [inst EXCEPT ![i] = "running"] /\ entry' = i
  /\ manual' = FALSE /\ attempts' = 0 /\ running' = TRUE
  /\ held' = FALSE /\ autos' = 0
  /\ StartReturns(c, rest)
  /\ UNCHANGED <<aborted, usable, overlap>>

Unconfigured(c, rest) ==
  /\ running' = FALSE
  /\ StartReturns(c, rest)
  /\ UNCHANGED <<inst, aborted, entry, manual, attempts, usable, history>>

Answered(c, rest) ==
  IF usable = "unconfigured" THEN Unconfigured(c, rest) ELSE Launch(c, rest)

IgnoresTask == FALSE
HasTask == entry # Nobody     \* store.tasks.has

(* The first part of startChannelInternal, up to its await.  The monitor   *)
(* calls resetRestartAttempts just before.                                 *)
StartChannel(c, rest) ==
  /\ ~HasTask /\ usable # "disabled"
  /\ call' = [call EXCEPT ![c] = "checking"]
  /\ micro' = Append(rest, c)
  /\ attempts' = IF c = "monitor" THEN 0 ELSE attempts
  /\ autos' = IF c = "monitor" THEN 0 ELSE autos
  /\ UNCHANGED <<inst, aborted, entry, manual, running, usable, next, waits,
                 monitor, held, overlap>>

StartRefused(c, rest) ==
  /\ HasTask \/ usable = "disabled"
  /\ running' = (running /\ HasTask)
  /\ attempts' = IF c = "monitor" THEN 0 ELSE attempts
  /\ autos' = IF c = "monitor" THEN 0 ELSE autos
  /\ StartReturns(c, rest)
  /\ UNCHANGED <<inst, aborted, entry, manual, usable, held, overlap>>

Start(c, rest) == StartChannel(c, rest) \/ StartRefused(c, rest)

NothingRuns == ~running
NothingToStop == entry = Nobody

NoAbort == aborted
Abort == aborted \cup {entry}

(* stopChannel up to its await of the task it found.  Aborting an instance *)
(* that sleeps before a restart makes its sleep reject.                    *)
StopChannel(c, then) ==
  /\ IF NothingToStop
     THEN /\ call' = [call EXCEPT ![c] = then]
          /\ micro' = IF then = "starting" THEN <<c>> ELSE <<>>
          /\ UNCHANGED <<manual, aborted, waits, next>>
     ELSE /\ manual' = TRUE
          /\ next' = [next EXCEPT ![c] = then]
          /\ aborted' = Abort
          /\ waits' = [waits EXCEPT ![c] = entry]
          /\ call' = [call EXCEPT ![c] = "stopping"]
          /\ micro' = IF inst[entry] = "backoff" THEN <<entry>> ELSE <<>>
  /\ UNCHANGED <<inst, entry, attempts, running, usable, monitor, autos, overlap>>

-----------------------------------------------------------------------------
(* Continuations.                                                          *)

(* stopChannel after its await: it deletes the entries whatever they hold. *)
Stopped(c, rest) ==
  /\ call[c] = "stopped"
  /\ entry' = Nobody /\ running' = FALSE
  /\ call' = [call EXCEPT ![c] = next[c]]
  /\ micro' = IF next[c] = "starting" THEN Append(rest, c) ELSE rest
  /\ next' = [next EXCEPT ![c] = "idle"]
  /\ UNCHANGED <<inst, aborted, manual, attempts, usable, waits, monitor, history>>

(* The sleep of an instance rejected: its catch swallows it.               *)
BackoffAborted(i, rest) ==
  /\ inst[i] = "backoff"
  /\ Settle(i, inst, Without(i), rest)
  /\ UNCHANGED <<status, usable, monitor, held, autos>>

Emptied(i, j) == Nobody
Kept(i, j) == j          \* the finally of i deletes no entry of its successor

ClearedAttempts == 0
KeptAttempts == attempts     \* preserveRestartAttempts

Counted == IF autos > MaxRestartAttempts + 1 THEN autos ELSE autos + 1

(* The nested startChannelInternal of an instance, after its await: it     *)
(* keeps restartAttempts and manuallyStopped.                              *)
Relaunch(i, rest) ==
  /\ inst[i] = "restarting"
  /\ IF usable = "unconfigured"
     THEN /\ running' = FALSE
          /\ Settle(i, inst, Without(i), rest)
          /\ UNCHANGED <<attempts, autos>>
     ELSE /\ running' = TRUE /\ attempts' = KeptAttempts /\ autos' = Counted
          /\ \E j \in Free : Settle(i, [inst EXCEPT ![j] = "running"], Kept(i, j), rest)
  /\ UNCHANGED <<manual, usable, monitor, held>>

Resume ==
  /\ micro # <<>>
  /\ LET x == Head(micro) rest == Tail(micro)
     IN  \/ /\ x \in Callers
            /\ \/ Stopped(x, rest)
               \/ call[x] = "starting" /\ Start(x, rest)
               \/ call[x] = "checking" /\ Answered(x, rest)
         \/ x \in Instances /\ (BackoffAborted(x, rest) \/ Relaunch(x, rest))

-----------------------------------------------------------------------------
(* Macrotasks.                                                             *)

(* The plugin's promise ends: a crash, a return or the abort.  The tail    *)
(* counts an attempt unless the account was stopped, and sleeps.           *)
PluginEnds(i) ==
  /\ micro = <<>> /\ inst[i] = "running"
  /\ running' = FALSE
  /\ attempts' = IF manual \/ attempts > MaxRestartAttempts THEN attempts ELSE attempts + 1
  /\ IF manual \/ attempts' > MaxRestartAttempts \/ i \in aborted
     THEN Settle(i, inst, Without(i), <<>>)
     ELSE /\ inst' = [inst EXCEPT ![i] = "backoff"]
          /\ UNCHANGED <<aborted, entry, call, next, waits, micro, overlap>>
  /\ UNCHANGED <<manual, usable, monitor, held, autos>>

(* The backoff is over: the instance gives up its entries and starts the   *)
(* account again, unless it was stopped, is started or is disabled.        *)
BackoffElapses(i) ==
  /\ micro = <<>> /\ inst[i] = "backoff"
  /\ IF manual \/ Without(i) # Nobody \/ usable = "disabled"
     THEN /\ Settle(i, inst, Without(i), <<>>)
          /\ running' = (running /\ (manual \/ Without(i) # Nobody))
     ELSE /\ inst' = [inst EXCEPT ![i] = "restarting"]
          /\ entry' = Nobody
          /\ micro' = <<i>>
          /\ UNCHANGED <<aborted, running, call, next, waits, overlap>>
  /\ UNCHANGED <<manual, attempts, usable, monitor, held, autos>>

UserStart(u) ==
  /\ micro = <<>> /\ call[u] = "idle"
  /\ call' = [call EXCEPT ![u] = "starting"] /\ micro' = <<u>>
  /\ held' = FALSE
  /\ UNCHANGED <<inst, aborted, entry, status, usable, next, waits, monitor, autos, overlap>>

UserStop(u) ==
  /\ micro = <<>> /\ call[u] = "idle"
  /\ \E then \in {"idle", "logout"} : StopChannel(u, then)
  /\ held' = TRUE

(* channels.logout after the plugin's logout: markChannelLoggedOut.        *)
LoggedOut(u) ==
  /\ micro = <<>> /\ call[u] = "logout"
  /\ running' = FALSE /\ call' = [call EXCEPT ![u] = "idle"]
  /\ UNCHANGED <<inst, aborted, entry, manual, attempts, usable, next, waits, micro,
                 monitor, history>>

(* The hot reload's restartChannel.                                        *)
ReloadRestart ==
  /\ micro = <<>> /\ "reload" \in Restarters /\ call["reload"] = "idle"
  /\ StopChannel("reload", "starting")
  /\ UNCHANGED held

ConfigEdit ==
  /\ micro = <<>>
  /\ usable' \in {"yes", "disabled", "unconfigured"} \ {usable}
  /\ UNCHANGED <<inst, aborted, entry, status, call, next, waits, micro, monitor, history>>

(* runCheck takes one snapshot for all accounts; it may restart others     *)
(* before it judges this one.                                              *)
MonitorCheck ==
  /\ micro = <<>> /\ "monitor" \in Restarters /\ call["monitor"] = "idle"
  /\ seen' = running /\ call' = [call EXCEPT !["monitor"] = "judging"]
  /\ UNCHANGED <<inst, aborted, entry, status, usable, next, waits, micro,
                 recent, cooldown, history>>

SkipsGivenUp == manual \/ usable # "yes" \/ cooldown \/ recent >= MaxPerHour
                \/ attempts > MaxRestartAttempts
MonitorSkips == manual \/ usable # "yes" \/ cooldown \/ recent >= MaxPerHour

MonitorPass ==
  /\ micro = <<>> /\ "monitor" \in Restarters /\ call["monitor"] = "judging"
  /\ MonitorSkips \/ seen        \* a running account may be healthy
  /\ call' = [call EXCEPT !["monitor"] = "idle"]
  /\ UNCHANGED <<inst, aborted, entry, status, usable, next, waits, micro, monitor, history>>

MonitorRestart ==
  /\ micro = <<>> /\ "monitor" \in Restarters /\ call["monitor"] = "judging"
  /\ ~MonitorSkips
  /\ IF seen THEN StopChannel("monitor", "starting")
     ELSE /\ call' = [call EXCEPT !["monitor"] = "starting"] /\ micro' = <<"monitor">>
          /\ UNCHANGED <<inst, aborted, entry, status, usable, next, waits, monitor, autos, overlap>>
  /\ UNCHANGED held

TimePasses ==
  /\ micro = <<>>
  /\ \/ cooldown /\ cooldown' = FALSE /\ UNCHANGED recent
     \/ recent > 0 /\ recent' = recent - 1 /\ UNCHANGED cooldown
  /\ UNCHANGED <<inst, aborted, entry, status, usable, call, next, waits, micro, seen, history>>

Next ==
  \/ Resume
  \/ \E i \in Instances : PluginEnds(i) \/ BackoffElapses(i)
  \/ \E u \in Users : UserStart(u) \/ UserStop(u) \/ LoggedOut(u)
  \/ ReloadRestart \/ ConfigEdit
  \/ MonitorCheck \/ MonitorPass \/ MonitorRestart \/ TimePasses

Spec == Init /\ [][Next]_vars

(* The event loop gets to every timer, promise and interval that is due; a *)
(* plugin ends when it is aborted.  Nothing makes a user act, an account   *)
(* crash or the configuration change.                                      *)
Fairness ==
  /\ WF_vars(Resume)
  /\ SF_vars(\E i \in aborted : PluginEnds(i))
  /\ SF_vars(\E i \in Instances : BackoffElapses(i))
  /\ SF_vars(\E u \in Users : LoggedOut(u))
  /\ SF_vars(MonitorCheck \/ MonitorPass \/ MonitorRestart)
  /\ SF_vars(TimePasses)

FairSpec == Spec /\ Fairness
=============================================================================
