---------------------------- MODULE HeartbeatWake ----------------------------
(***************************************************************************)
(* Wake-ups of the heartbeat (infra/heartbeat-wake.ts): requests collected *)
(* per target, one timer that hands them to the present handler, the       *)
(* cooldown after a reply that requests are in flight.                     *)
(*                                                                         *)
(* Delays are left out: a timer fires at any moment.  A timer that is set  *)
(* stays set when another is asked for; that the code replaces a later     *)
(* timer by a sooner one of the same kind changes only its delay, and all  *)
(* its callers ask for 250 ms or less where a retry waits for 1000.        *)
(*                                                                         *)
(* JavaScript runs one callback to its first await: turn names the batch   *)
(* whose code is on the stack or next in the microtask queue, and nothing  *)
(* else happens before it awaits a run of the agent.                       *)
(***************************************************************************)
EXTENDS Naturals, Sequences, SequencesExt

CONSTANTS
  Targets,      \* pairs of agent and session that wakes name
  Everyone,     \* the target of a wake that names none
  MaxRunners,   \* bound: runners are started one after the other, 1, 2, ...
  MaxBatches,   \* bound: batches under way at the same time
  CallerReasons \* bound: the reasons of wakes other than the runner's own

ASSUME WakeAssumption ==
  /\ Everyone \in Targets
  /\ {MaxRunners, MaxBatches} \subseteq Nat \ {0}
  /\ CallerReasons \subseteq {"wake", "hook"}

VARIABLES
  handler,    \* the runner whose handler is registered, or 0
  pending,    \* pendingWakes: one wake per target, in order of insertion
  timer,      \* "none", "normal" or "retry"
  scheduled,
  running,
  batch,      \* what each batch has left to hand over; its head is in hand
  turn        \* the batch that runs now, or Idle

wake == <<handler, pending, timer, scheduled, running, batch, turn>>

Runners == 1..MaxRunners
Batches == 1..MaxBatches
Wakes == [target : {Everyone}, reason : {"interval"}] \cup [target : Targets, reason : CallerReasons]
Idle == 0
NoBatch == [runner |-> 0, todo |-> <<>>, awaits |-> FALSE, fresh |-> FALSE]

WakeTypeOK ==
  /\ handler \in 0..MaxRunners
  /\ pending \in Seq(Wakes)
  /\ timer \in {"none", "normal", "retry"}
  /\ scheduled \in BOOLEAN /\ running \in BOOLEAN
  /\ batch \in [Batches -> [runner : 0..MaxRunners, todo : Seq(Wakes),
                            awaits : BOOLEAN, fresh : BOOLEAN]]
  /\ turn \in Batches \cup {Idle}

WakeInit ==
  /\ handler = 0 /\ pending = <<>> /\ timer = "none"
  /\ scheduled = FALSE /\ running = FALSE
  /\ batch = [b \in Batches |-> NoBatch]
  /\ turn = Idle

Priority(reason) ==
  CASE reason = "interval" -> 1 [] reason = "wake" -> 2 [] reason = "hook" -> 3

(* The waiting wakes with w among them: the last of the highest priority   *)
(* stands for its target.                                                  *)
LastWins(p, w) ==
  IF \E i \in DOMAIN p : p[i].target = w.target
  THEN [i \in DOMAIN p |-> IF p[i].target = w.target THEN w ELSE p[i]]
  ELSE Append(p, w)

Queued(p, w) ==
  IF \E i \in DOMAIN p : p[i].target = w.target
  THEN [i \in DOMAIN p |->
          IF p[i].target = w.target /\ Priority(w.reason) >= Priority(p[i].reason) THEN w ELSE p[i]]
  ELSE Append(p, w)

Replaced(t, kind) == kind
Scheduled(t, kind) == IF t = "none" THEN kind ELSE t

EventLoopFree == turn = Idle

(* requestHeartbeatNow                                                     *)
Request(w) ==
  /\ pending' = Queued(pending, w)
  /\ timer' = Scheduled(timer, "normal")
  /\ UNCHANGED <<handler, scheduled, running, batch, turn>>

NeverBusy == FALSE
Busy == running

TimerFires ==
  /\ EventLoopFree /\ timer # "none"
  /\ \/ /\ handler = 0
        /\ timer' = "none" /\ scheduled' = FALSE
        /\ UNCHANGED <<pending, running, batch, turn>>
     \/ /\ handler # 0 /\ Busy
        /\ scheduled' = TRUE
        /\ UNCHANGED <<timer, pending, running, batch, turn>>
     \/ /\ handler # 0 /\ ~Busy
        /\ timer' = "none" /\ scheduled' = FALSE /\ running' = TRUE
        /\ pending' = <<>>
        /\ \E b \in Batches :
             /\ batch[b] = NoBatch /\ \A c \in 1..(b - 1) : batch[c] # NoBatch
             /\ batch' = [batch EXCEPT ![b] = [NoBatch EXCEPT !.runner = handler, !.todo = pending]]
             /\ turn' = b
  /\ UNCHANGED handler

(* The handler has answered the wake in hand of batch b.                   *)
Answered(b) ==
  /\ batch' = [batch EXCEPT ![b].todo = Tail(@), ![b].awaits = FALSE]
  /\ turn' = b
  /\ UNCHANGED <<handler, pending, timer, scheduled, running>>

AnsweredBusy(b) ==
  /\ batch' = [batch EXCEPT ![b].todo = Tail(@), ![b].awaits = FALSE]
  /\ turn' = b
  /\ pending' = Queued(pending, Head(batch[b].todo))
  /\ timer' = Scheduled(timer, "retry")
  /\ UNCHANGED <<handler, scheduled, running>>

(* The handler awaits a run of the agent.                                  *)
Awaits(b) ==
  /\ batch' = [batch EXCEPT ![b].awaits = TRUE, ![b].fresh = TRUE]
  /\ turn' = Idle
  /\ UNCHANGED <<handler, pending, timer, scheduled, running>>

BatchEnds(b) ==
  /\ turn = b /\ batch[b].todo = <<>>
  /\ running' = FALSE
  /\ timer' = IF pending # <<>> \/ scheduled THEN Scheduled(timer, "normal") ELSE timer
  /\ batch' = [batch EXCEPT ![b] = NoBatch]
  /\ turn' = Idle
  /\ UNCHANGED <<handler, pending, scheduled>>

StillRunning == running
NotRunning == FALSE

(* setHeartbeatWakeHandler for the runner r                                *)
SetHandler(r) ==
  /\ handler' = r
  /\ running' = NotRunning /\ scheduled' = FALSE
  /\ timer' = IF pending # <<>> THEN "normal" ELSE "none"
  /\ UNCHANGED <<pending, batch, turn>>

(* The disposer of r's registration: it spares a newer one.                *)
Disposed(r) == IF handler = r THEN 0 ELSE handler
=============================================================================
