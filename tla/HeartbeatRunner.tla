--------------------------- MODULE HeartbeatRunner ---------------------------
(***************************************************************************)
(* The heartbeat runners of one process (infra/heartbeat-runner.ts,        *)
(* startHeartbeatRunner) on top of the wake-ups, with the switch of the    *)
(* gateway method set-heartbeats.  A runner keeps a timer for the slot     *)
(* that is due next; the timer asks for a wake of all agents, and nothing  *)
(* but the handling of a wake or a new configuration sets it again.        *)
(*                                                                         *)
(* A runner's agents are taken together: it has some or none, and due says *)
(* that the next slot of one of them has come.  A run of an agent that     *)
(* throws is answered like one that ends; only the reply "requests in      *)
(* flight" differs.                                                        *)
(***************************************************************************)
EXTENDS HeartbeatWake

VARIABLES
  enabled,    \* heartbeatsEnabled
  life,       \* "new", "live" or "stopped", per runner
  agents,     \* it has agents with a heartbeat
  due,        \* the slot due next has come
  armed,      \* its timer is set
  cooling,    \* history: a retry timer was set or kept for a busy reply
  overtaken,  \* history: a batch of a replaced handler has ended
  silenced    \* history: heartbeats have been switched off

runner == <<life, agents, due, armed>>
history == <<cooling, overtaken, silenced>>
vars == <<wake, enabled, runner, history>>

TypeOK ==
  /\ WakeTypeOK
  /\ {enabled, cooling, overtaken, silenced} \subseteq BOOLEAN
  /\ life \in [Runners -> {"new", "live", "stopped"}]
  /\ {agents, due, armed} \subseteq [Runners -> BOOLEAN]

Init ==
  /\ WakeInit
  /\ enabled = TRUE
  /\ life = [r \in Runners |-> "new"]
  /\ agents = [r \in Runners |-> FALSE]
  /\ due = [r \in Runners |-> FALSE] /\ armed = [r \in Runners |-> FALSE]
  /\ cooling = FALSE /\ overtaken = FALSE /\ silenced = FALSE

(* scheduleNext of the runner r, whose slots are as given                  *)
ScheduleNext(r) ==
  armed' = IF life[r] = "live" THEN [armed EXCEPT ![r] = agents[r]] ELSE armed

-----------------------------------------------------------------------------
(* The handler: run, for the wake in hand of batch b.                      *)

Off(r) == life[r] = "stopped" \/ ~enabled \/ ~agents[r]
NotDue(r, w) == w.target = Everyone /\ w.reason = "interval" /\ ~due[r]

InHand(b) == turn = b /\ batch[b].todo # <<>>

RunsNothing(b) ==
  LET r == batch[b].runner
  IN  /\ InHand(b)
      /\ \/ Off(r) /\ UNCHANGED armed
         \/ ~Off(r) /\ NotDue(r, Head(batch[b].todo)) /\ ScheduleNext(r)
      /\ Answered(b)
      /\ UNCHANGED <<enabled, life, agents, due, history>>

StartsRun(b) ==
  /\ InHand(b)
  /\ ~Off(batch[b].runner) /\ ~NotDue(batch[b].runner, Head(batch[b].todo))
  /\ Awaits(b)
  /\ UNCHANGED <<enabled, runner, history>>

(* advanceAgentSchedule, on the agents the run took from state.agents:     *)
(* after a change of configuration these are not the runner's any more.    *)
Outdated(r) == [b \in Batches |-> [batch[b] EXCEPT !.fresh = @ /\ batch[b].runner # r]]
Advanced(b) == IF batch[b].fresh THEN [due EXCEPT ![batch[b].runner] = FALSE] ELSE due

(* Quiet hours, an empty HEARTBEAT.md: skipped at once.                    *)
SkipsRun(b) ==
  LET r == batch[b].runner
  IN  /\ InHand(b) /\ ~Off(r) /\ ~NotDue(r, Head(batch[b].todo))
      /\ due' = [due EXCEPT ![r] = FALSE]
      /\ ScheduleNext(r)
      /\ Answered(b)
      /\ UNCHANGED <<enabled, life, agents, history>>

NotRescheduled(r) == UNCHANGED armed
AfterRun(r) == ScheduleNext(r)

RunEnds(b) ==
  /\ EventLoopFree /\ batch[b].awaits
  /\ due' = Advanced(b)
  /\ AfterRun(batch[b].runner)
  /\ Answered(b)
  /\ UNCHANGED <<enabled, life, agents, history>>

(* Requests are in flight: for a wake of all agents the runner leaves its  *)
(* timer alone and counts on the retry.                                    *)
RequestsInFlight(b) ==
  LET r == batch[b].runner
      w == Head(batch[b].todo)
  IN  /\ \/ InHand(b) /\ ~Off(r) /\ ~NotDue(r, w)
         \/ EventLoopFree /\ batch[b].awaits
      /\ IF w.target = Everyone
         THEN UNCHANGED <<due, armed>>
         ELSE /\ due' = IF batch[b].awaits THEN Advanced(b) ELSE [due EXCEPT ![r] = FALSE]
              /\ ScheduleNext(r)
      /\ AnsweredBusy(b)
      /\ cooling' = (timer' = "retry")
      /\ UNCHANGED <<enabled, life, agents, overtaken, silenced>>

-----------------------------------------------------------------------------
(* Cron jobs, hooks, finished commands ask for a wake.                     *)
Requests(w) ==
  /\ EventLoopFree /\ w.reason # "interval"
  /\ Request(w)
  /\ UNCHANGED <<enabled, runner, history>>

SlotTimerFires(r) ==
  /\ EventLoopFree /\ armed[r]
  /\ armed' = [armed EXCEPT ![r] = FALSE]
  /\ due' = [due EXCEPT ![r] = TRUE]
  /\ Request([target |-> Everyone, reason |-> "interval"])
  /\ UNCHANGED <<enabled, life, agents, history>>

WakeTimerFires ==
  /\ TimerFires
  /\ cooling' = (cooling /\ turn' = Idle)
  /\ UNCHANGED <<enabled, runner, overtaken, silenced>>

WakeBatchEnds(b) ==
  /\ BatchEnds(b)
  /\ overtaken' = (overtaken \/ batch[b].runner # handler)
  /\ UNCHANGED <<enabled, runner, cooling, silenced>>

(* Start-up, or a restart of the gateway in its process, which has stopped *)
(* the runner before.                                                      *)
StartHeartbeatRunner(r) ==
  /\ EventLoopFree
  /\ life[r] = "new" /\ \A q \in 1..(r - 1) : life[q] = "stopped"
  /\ life' = [life EXCEPT ![r] = "live"]
  /\ \E some \in BOOLEAN : /\ agents' = [agents EXCEPT ![r] = some]
                           /\ armed' = [armed EXCEPT ![r] = some]
  /\ SetHandler(r)
  /\ cooling' = FALSE
  /\ UNCHANGED <<enabled, due, overtaken, silenced>>

(* Nothing looks at the slots of a stopped runner again.                   *)
Stop(r) ==
  /\ EventLoopFree /\ life[r] = "live"
  /\ life' = [life EXCEPT ![r] = "stopped"]
  /\ armed' = [armed EXCEPT ![r] = FALSE]
  /\ agents' = [agents EXCEPT ![r] = FALSE] /\ due' = [due EXCEPT ![r] = FALSE]
  /\ handler' = Disposed(r)
  /\ batch' = Outdated(r)
  /\ UNCHANGED <<pending, timer, scheduled, running, turn, enabled, history>>

(* A hot reload: the agents become new objects, with other intervals.      *)
UpdateConfig(r) ==
  /\ EventLoopFree /\ life[r] = "live"
  /\ \E some, come \in BOOLEAN : /\ agents' = [agents EXCEPT ![r] = some]
                                 /\ armed' = [armed EXCEPT ![r] = some]
                                 /\ due' = [due EXCEPT ![r] = some /\ come]
  /\ batch' = Outdated(r)
  /\ UNCHANGED <<handler, pending, timer, scheduled, running, turn, enabled, life, history>>

SetHeartbeatsEnabled(value) ==
  /\ EventLoopFree
  /\ enabled' = value
  /\ silenced' = (silenced \/ ~value)
  /\ UNCHANGED <<wake, runner, cooling, overtaken>>

Next ==
  \/ \E b \in Batches :
       \/ RunsNothing(b) \/ StartsRun(b) \/ SkipsRun(b) \/ RunEnds(b)
       \/ RequestsInFlight(b) \/ WakeBatchEnds(b)
  \/ WakeTimerFires
  \/ \E r \in Runners :
       \/ SlotTimerFires(r) \/ StartHeartbeatRunner(r) \/ Stop(r) \/ UpdateConfig(r)
  \/ \E w \in Wakes : Requests(w)
  \/ \E value \in BOOLEAN : SetHeartbeatsEnabled(value)

Spec == Init /\ [][Next]_vars

(* Code on the stack goes on and timers fire.  A run of the agent ends as  *)
(* long as its runner is the present one; one that a restart interrupted   *)
(* may hang for ever.                                                      *)
Fairness ==
  /\ WF_vars(WakeTimerFires)
  /\ \A b \in Batches :
       /\ WF_vars(RunsNothing(b) \/ StartsRun(b) \/ WakeBatchEnds(b))
       /\ WF_vars(batch[b].runner = handler /\ RunEnds(b))

FairSpec == Spec /\ Fairness
-----------------------------------------------------------------------------
Waits(t) == \E i \in DOMAIN pending : pending[i].target = t
ReasonFor(p, t) == {p[i].reason : i \in {j \in DOMAIN p : p[j].target = t}}

(* While heartbeats are switched on, a runner that has agents has a source *)
(* of its next heartbeat: its own timer, or a wake for all agents that is waiting with *)
(* a timer or a batch to come to it, or in the hands of this runner.       *)
HasNextBeat(r) ==
  \/ armed[r]
  \/ Waits(Everyone) /\ (timer # "none" \/ running)
  \/ \E b \in Batches : /\ batch[b].runner = r
                        /\ \E i \in DOMAIN batch[b].todo : batch[b].todo[i].target = Everyone

SchedulerAlive == \A r \in Runners :
  enabled /\ handler = r /\ agents[r] /\ EventLoopFree => HasNextBeat(r)

(* SchedulerAlive, unless heartbeats have been switched off before.        *)
KeepsBeating == silenced \/ SchedulerAlive

(* A wake that waits is handed over as long as some runner is registered,  *)
(* even when the batch of a replaced runner hangs.                         *)
WakesAreTaken ==
  \A t \in Targets : Waits(t) ~> (~Waits(t) \/ handler = 0)

(* While a wake waits, its reason never gives way to a weaker one.         *)
NoDowngrade ==
  [][\A t \in Targets : \A old \in ReasonFor(pending, t), new \in ReasonFor(pending', t) :
       Priority(new) >= Priority(old)]_vars

(* One handler is not called twice at once, unless the end of a batch of   *)
(* its predecessor has cleared the flag.                                   *)
OneBatchAtATime ==
  overtaken \/ \A b, c \in Batches :
                 batch[b].runner = batch[c].runner /\ batch[b].runner # 0 => b = c

(* A retry timer that is set is a hard minimum delay: until it fires no    *)
(* request, no end of a batch and no sooner timer starts a batch.          *)
CooldownHolds == [][cooling /\ turn' # turn /\ EventLoopFree /\ pending' = <<>> /\ pending # <<>>
                    => timer = "retry"]_vars
-----------------------------------------------------------------------------
(* Why the safety properties hold.                                         *)

TargetsApart ==
  \A i, j \in DOMAIN pending : pending[i].target = pending[j].target => i = j

HandlerLives == (handler # 0 => life[handler] = "live") /\ (silenced \/ enabled)

(* A batch is of a runner that has been started; one in hand or awaited    *)
(* has work.                                                               *)
BatchesOfRunners ==
  /\ \A b \in Batches : /\ batch[b].runner # 0 => life[batch[b].runner] # "new"
                        /\ batch[b].awaits => batch[b].runner # 0 /\ batch[b].todo # <<>>
  /\ turn # Idle => batch[turn].runner # 0

(* The present handler's batch holds the flag, until a replaced one ends.  *)
BatchHoldsFlag ==
  overtaken \/ \A b \in Batches : handler # 0 /\ batch[b].runner = handler => running

CoolingIsRetry == cooling => timer = "retry" \/ handler = 0

(* SchedulerAlive holds within callbacks, too.                             *)
AlwaysNextBeat ==
  silenced \/ \A r \in Runners : handler = r /\ agents[r] => HasNextBeat(r)

HeartInv ==
  /\ TypeOK /\ TargetsApart /\ HandlerLives /\ BatchesOfRunners
  /\ BatchHoldsFlag /\ OneBatchAtATime /\ CoolingIsRetry /\ AlwaysNextBeat
=============================================================================
