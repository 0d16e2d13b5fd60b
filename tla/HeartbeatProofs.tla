--------------------------- MODULE HeartbeatProofs ---------------------------
(***************************************************************************)
(* The heartbeat goes on, wakes keep their reasons, batches of one handler *)
(* do not overlap and cooldowns hold: proofs for any targets, and any      *)
(* number of runners and batches.                                          *)
(***************************************************************************)
EXTENDS HeartbeatRunner, TLAPS

Apart(p) == \A i, j \in DOMAIN p : p[i].target = p[j].target => i = j

LEMMA RunnersAreNumbers == 0 \notin Runners /\ 0 \notin Batches /\ 0..MaxRunners = {0} \cup Runners
  BY WakeAssumption DEF Runners, Batches

(* What queueing the wake w does to the waiting wakes p: q waits then.       *)
Merges(p, w, q) ==
  /\ q \in Seq(Wakes) /\ q # <<>>
  /\ \A i \in DOMAIN p : i \in DOMAIN q /\ q[i].target = p[i].target
  /\ \E i \in DOMAIN q : q[i].target = w.target
  /\ Apart(p) => Apart(q)
  /\ \A i \in DOMAIN q :
       \/ i \in DOMAIN p /\ q[i] = p[i]
       \/ i \in DOMAIN p /\ q[i] = w /\ Priority(w.reason) >= Priority(p[i].reason)
       \/ q[i] = w /\ \A j \in DOMAIN p : p[j].target # w.target

LEMMA QueuedMerges ==
  ASSUME NEW p \in Seq(Wakes), NEW w \in Wakes
  PROVE  Merges(p, w, Queued(p, w))
<1> DEFINE q == Queued(p, w)
<1> SUFFICES Merges(p, w, q)
  OBVIOUS
<1>1. CASE \E i \in DOMAIN p : p[i].target = w.target
  <2> DEFINE f == [i \in DOMAIN p |->
          IF p[i].target = w.target /\ Priority(w.reason) >= Priority(p[i].reason) THEN w ELSE p[i]]
  <2>1. q = f
    BY <1>1 DEF Queued
  <2>2. f \in Seq(Wakes) /\ DOMAIN f = DOMAIN p
    BY <1>1
  <2>3. \A i \in DOMAIN p :
          f[i] = IF p[i].target = w.target /\ Priority(w.reason) >= Priority(p[i].reason) THEN w ELSE p[i]
    OBVIOUS
  <2> HIDE DEF f
  <2>4. \A i \in DOMAIN p : f[i].target = p[i].target
    BY <2>3
  <2>5. f # <<>>
    BY <1>1, <2>2
  <2> QED
    BY <1>1, <2>1, <2>2, <2>3, <2>4, <2>5 DEF Apart, Merges
<1>2. CASE ~\E i \in DOMAIN p : p[i].target = w.target
  <2>1. q = Append(p, w)
    BY <1>2 DEF Queued
  <2>2. /\ q \in Seq(Wakes) /\ q # <<>> /\ DOMAIN q = 1..(Len(p) + 1)
        /\ q[Len(p) + 1] = w /\ \A i \in 1..Len(p) : q[i] = p[i]
    BY <2>1
  <2>3. DOMAIN p = 1..Len(p) /\ Len(p) \in Nat
    OBVIOUS
  <2> HIDE DEF q
  <2>4. \A i \in DOMAIN q : i = Len(p) + 1 \/ i \in DOMAIN p
    BY <2>2, <2>3
  <2>5. Apart(p) => Apart(q)
    BY <1>2, <2>2, <2>3, <2>4 DEF Apart
  <2> QED
    BY <1>2, <2>2, <2>3, <2>4, <2>5 DEF Merges
<1> QED
  BY <1>1, <1>2

(* No waiting reason gives way to a weaker one when a wake is queued.        *)
LEMMA QueuedKeepsReasons ==
  ASSUME NEW p \in Seq(Wakes), NEW w \in Wakes, Apart(p), NEW t \in Targets,
         NEW old \in ReasonFor(p, t), NEW new \in ReasonFor(Queued(p, w), t)
  PROVE  Priority(new) >= Priority(old)
<1> DEFINE q == Queued(p, w)
<1>1. PICK i \in DOMAIN p : p[i].target = t /\ p[i].reason = old
  BY DEF ReasonFor
<1>2. PICK j \in DOMAIN q : q[j].target = t /\ q[j].reason = new
  BY DEF ReasonFor
<1>3. Merges(p, w, q)
  BY QueuedMerges
<1> HIDE DEF q
<1>4. i = j
  BY <1>1, <1>2, <1>3 DEF Apart, Merges
<1>5. q[i] = p[i] \/ Priority(q[i].reason) >= Priority(p[i].reason)
  BY <1>1, <1>2, <1>3, <1>4 DEF Merges
<1>6. Priority(old) \in Nat
  <2>1. p[i] \in Wakes
    OBVIOUS
  <2>2. p[i].reason \in {"interval"} \cup CallerReasons
    BY <2>1 DEF Wakes
  <2>3. old \in {"interval", "wake", "hook"}
    BY <1>1, <2>2, WakeAssumption
  <2>4. CASE old = "interval"
    BY <2>4 DEF Priority
  <2>5. CASE old = "wake"
    BY <2>5 DEF Priority
  <2>6. CASE old = "hook"
    BY <2>6 DEF Priority
  <2> QED
    BY <2>3, <2>4, <2>5, <2>6
<1> HIDE DEF q
<1> QED
  BY <1>1, <1>2, <1>4, <1>5, <1>6
-----------------------------------------------------------------------------
BatchRecords == [runner : 0..MaxRunners, todo : Seq(Wakes), awaits : BOOLEAN, fresh : BOOLEAN]

(* Steps that leave the runners of the batches alone.                        *)
LEMMA SameBatches ==
  ASSUME HeartInv, \A c \in Batches : batch'[c].runner = batch[c].runner,
         UNCHANGED <<handler, running>>, overtaken' = overtaken
  PROVE  BatchHoldsFlag' /\ OneBatchAtATime'
  BY DEF HeartInv, BatchHoldsFlag, OneBatchAtATime

(* The handler has answered the wake in hand of the batch b.                 *)
LEMMA AnswerKeeps ==
  ASSUME HeartInv, NEW b \in Batches, batch[b].todo # <<>>, batch[b].runner # 0,
         batch' = [batch EXCEPT ![b].todo = Tail(@), ![b].awaits = FALSE], turn' = b,
         UNCHANGED <<handler, running, life>>, overtaken' = overtaken
  PROVE  /\ batch' \in [Batches -> BatchRecords] /\ turn' \in Batches \cup {Idle}
         /\ \A c \in Batches : c # b => batch'[c] = batch[c]
         /\ BatchesOfRunners' /\ BatchHoldsFlag' /\ OneBatchAtATime'
<1>1. /\ batch \in [Batches -> BatchRecords] /\ batch[b] \in BatchRecords
      /\ batch[b].todo \in Seq(Wakes)
  BY DEF HeartInv, TypeOK, WakeTypeOK, BatchRecords
<1>2. \A c \in Batches :
        batch'[c] = IF c = b THEN [batch[b] EXCEPT !.todo = Tail(batch[b].todo), !.awaits = FALSE]
                    ELSE batch[c]
  BY <1>1
<1>3. batch' \in [Batches -> BatchRecords]
  <2>1. Tail(batch[b].todo) \in Seq(Wakes)
    BY <1>1
  <2>2. [batch[b] EXCEPT !.todo = Tail(batch[b].todo), !.awaits = FALSE] \in BatchRecords
    BY <1>1, <2>1 DEF BatchRecords
  <2> QED
    BY <1>1, <2>2
<1>4. /\ \A c \in Batches : batch'[c].runner = batch[c].runner
      /\ batch'[b].awaits = FALSE
      /\ \A c \in Batches : c # b => batch'[c] = batch[c]
  BY <1>1, <1>2 DEF BatchRecords
<1>5. BatchesOfRunners'
  <2>1. \A c \in Batches : batch'[c].runner # 0 => life[batch'[c].runner] # "new"
    BY <1>4 DEF HeartInv, BatchesOfRunners
  <2>2. \A c \in Batches : batch'[c].awaits => batch'[c].runner # 0 /\ batch'[c].todo # <<>>
    BY <1>4 DEF HeartInv, BatchesOfRunners
  <2> QED
    BY <1>4, <2>1, <2>2 DEF BatchesOfRunners, Idle
<1> QED
  BY <1>3, <1>4, <1>5, SameBatches

(* ScheduleNext of a runner that still lives sets its timer.                 *)
LEMMA ScheduleNextArms ==
  ASSUME TypeOK, NEW r \in Runners, ScheduleNext(r)
  PROVE  /\ armed' \in [Runners -> BOOLEAN]
         /\ life[r] = "live" /\ agents[r] => armed'[r]
         /\ \A q \in Runners : armed[q] /\ agents[q] => armed'[q]
<1>1. armed \in [Runners -> BOOLEAN] /\ agents \in [Runners -> BOOLEAN]
  BY DEF TypeOK
<1>2. CASE life[r] = "live"
  BY <1>1, <1>2 DEF ScheduleNext
<1>3. CASE life[r] # "live"
  BY <1>1, <1>3 DEF ScheduleNext
<1> QED
  BY <1>2, <1>3

(* A wake is queued and a timer set for it.                                  *)
LEMMA PendingGrows ==
  ASSUME HeartInv, NEW w \in Wakes, NEW kind \in {"normal", "retry"},
         pending' = Queued(pending, w), timer' = Scheduled(timer, kind)
  PROVE  /\ pending' \in Seq(Wakes) /\ TargetsApart' /\ Waits(w.target)'
         /\ \A t \in Targets : Waits(t) => Waits(t)'
         /\ timer' \in {"normal", "retry"} /\ (timer = "retry" => timer' = "retry")
<1>1. pending \in Seq(Wakes)
  BY DEF HeartInv, TypeOK, WakeTypeOK
<1>2. Merges(pending, w, pending')
  BY <1>1, QueuedMerges
<1>3. Apart(pending) <=> TargetsApart
  BY DEF Apart, TargetsApart
<1>4. Apart(pending)' <=> TargetsApart'
  BY DEF Apart, TargetsApart
<1>5. TargetsApart'
  BY <1>2, <1>3, <1>4 DEF Merges, HeartInv
<1>6. Waits(w.target)' /\ \A t \in Targets : Waits(t) => Waits(t)'
  BY <1>2 DEF Merges, Waits
<1> QED
  BY <1>2, <1>5, <1>6 DEF Merges, HeartInv, TypeOK, WakeTypeOK, Scheduled

(* Steps that leave alone what the next beat may come from.                  *)
LEMMA SameBeat ==
  ASSUME HeartInv, silenced => silenced', UNCHANGED <<handler, agents, running>>,
         \A c \in Batches : batch'[c].runner = batch[c].runner /\ batch'[c].todo = batch[c].todo,
         \A q \in Runners : armed[q] /\ agents[q] => armed'[q],
         \A t \in Targets : Waits(t) => Waits(t)', timer # "none" => timer' # "none"
  PROVE  AlwaysNextBeat'
<1> SUFFICES ASSUME ~silenced, NEW r \in Runners, handler = r, agents[r]
             PROVE  HasNextBeat(r)'
  BY DEF AlwaysNextBeat
<1>1. HasNextBeat(r)
  BY DEF HeartInv, AlwaysNextBeat
<1>2. CASE armed[r]
  BY <1>2 DEF HasNextBeat
<1>3. CASE Waits(Everyone) /\ (timer # "none" \/ running)
  BY <1>3, WakeAssumption DEF HasNextBeat
<1>4. CASE \E c \in Batches :
             /\ batch[c].runner = r
             /\ \E i \in DOMAIN batch[c].todo : batch[c].todo[i].target = Everyone
  BY <1>4 DEF HasNextBeat
<1> QED
  BY <1>1, <1>2, <1>3, <1>4 DEF HasNextBeat

(* The handler goes on with the next wake of a batch; its runner is the      *)
(* present one and beats, or another one whose answer costs nobody a beat.   *)
LEMMA AnsweredKeepsBeat ==
  ASSUME HeartInv, NEW b \in Batches, silenced' = silenced,
         UNCHANGED <<handler, agents, running>>,
         \A c \in Batches : c # b => batch'[c] = batch[c],
         \A c \in Batches : batch'[c].runner = batch[c].runner,
         \A q \in Runners : armed[q] /\ agents[q] => armed'[q],
         \A t \in Targets : Waits(t) => Waits(t)', timer # "none" => timer' # "none",
         ~silenced /\ batch[b].runner = handler /\ handler \in Runners /\ agents[handler] => HasNextBeat(handler)'
  PROVE  AlwaysNextBeat'
<1> SUFFICES ASSUME ~silenced, NEW r \in Runners, handler = r, agents[r], batch[b].runner # r
             PROVE  HasNextBeat(r)'
  BY DEF AlwaysNextBeat
<1>1. HasNextBeat(r)
  BY DEF HeartInv, AlwaysNextBeat
<1>2. CASE armed[r]
  BY <1>2 DEF HasNextBeat
<1>3. CASE Waits(Everyone) /\ (timer # "none" \/ running)
  BY <1>3, WakeAssumption DEF HasNextBeat
<1>4. CASE \E c \in Batches :
             /\ batch[c].runner = r
             /\ \E i \in DOMAIN batch[c].todo : batch[c].todo[i].target = Everyone
  <2>1. PICK c \in Batches :
             /\ batch[c].runner = r
             /\ \E i \in DOMAIN batch[c].todo : batch[c].todo[i].target = Everyone
    BY <1>4
  <2>2. c # b /\ batch'[c] = batch[c]
    BY <2>1
  <2> QED
    BY <2>1, <2>2 DEF HasNextBeat
<1> QED
  BY <1>1, <1>2, <1>3, <1>4 DEF HasNextBeat
-----------------------------------------------------------------------------
LEMMA InHandFacts ==
  ASSUME HeartInv, NEW b \in Batches, InHand(b) \/ (EventLoopFree /\ batch[b].awaits)
  PROVE  /\ batch[b].todo # <<>> /\ batch[b].todo \in Seq(Wakes) /\ Head(batch[b].todo) \in Wakes
         /\ batch[b].runner # 0 /\ batch[b].runner \in Runners
         /\ \A c \in Batches : c = b => batch[c].runner = batch[b].runner
<1>1. batch[b] \in BatchRecords
  BY DEF HeartInv, TypeOK, WakeTypeOK, BatchRecords
<1>2. batch[b].todo # <<>> /\ batch[b].runner # 0
  BY RunnersAreNumbers DEF InHand, HeartInv, BatchesOfRunners, Idle
<1> QED
  BY <1>1, <1>2, RunnersAreNumbers DEF BatchRecords

(* The runner r may leave the wake in hand when it sets its timer instead.   *)
LEMMA AnsweredKeeps ==
  ASSUME HeartInv, NEW b \in Batches, batch[b].todo # <<>>, batch[b].runner \in Runners,
         Answered(b), TypeOK', UNCHANGED <<enabled, life, agents, history>>,
         ScheduleNext(batch[b].runner) \/ (Off(batch[b].runner) /\ UNCHANGED armed)
  PROVE  HeartInv'
<1> DEFINE r == batch[b].runner
<1>1. /\ UNCHANGED <<handler, pending, timer, scheduled, running, life, agents, enabled, cooling,
                     overtaken, silenced>>
      /\ turn' = b /\ batch' = [batch EXCEPT ![b].todo = Tail(@), ![b].awaits = FALSE]
  BY DEF Answered, history
<1>2. r # 0
  BY RunnersAreNumbers
<1>3. /\ \A c \in Batches : c # b => batch'[c] = batch[c]
      /\ BatchesOfRunners' /\ BatchHoldsFlag' /\ OneBatchAtATime'
  BY <1>1, <1>2, AnswerKeeps
<1>4. TargetsApart' /\ HandlerLives' /\ CoolingIsRetry'
  BY <1>1 DEF HeartInv, TargetsApart, HandlerLives, CoolingIsRetry
<1>5. /\ \A q \in Runners : armed[q] /\ agents[q] => armed'[q]
      /\ ~silenced /\ r = handler /\ agents[r] => armed'[r]
  <2>1. CASE ScheduleNext(r)
    BY <2>1, <1>2, ScheduleNextArms DEF HeartInv, HandlerLives
  <2>2. CASE Off(r) /\ UNCHANGED armed
    <3>1. ~silenced /\ r = handler /\ agents[r] => FALSE
      BY <2>2, <1>2 DEF Off, HeartInv, HandlerLives
    <3> QED
      BY <2>2, <3>1
  <2> QED
    BY <2>1, <2>2
<1>6. \A c \in Batches : batch'[c].runner = batch[c].runner
  BY <1>1, <1>3 DEF HeartInv, TypeOK, WakeTypeOK
<1>7. AlwaysNextBeat'
  <2>1. \A t \in Targets : Waits(t) => Waits(t)'
    BY <1>1 DEF Waits
  <2>2. ~silenced /\ r = handler /\ handler \in Runners /\ agents[handler] => HasNextBeat(handler)'
    BY <1>1, <1>5 DEF HasNextBeat
  <2> QED
    BY <1>1, <1>3, <1>5, <1>6, <2>1, <2>2, AnsweredKeepsBeat
<1> QED
  BY <1>3, <1>4, <1>7 DEF HeartInv

LEMMA RunsNothingKeeps ==
  ASSUME HeartInv, NEW b \in Batches, RunsNothing(b)
  PROVE  HeartInv'
<1> DEFINE r == batch[b].runner
<1>1. /\ InHand(b) /\ Answered(b) /\ UNCHANGED <<enabled, life, agents, due, history>>
      /\ ScheduleNext(r) \/ (Off(r) /\ UNCHANGED armed)
  BY DEF RunsNothing
<1>2. batch[b].todo # <<>> /\ r \in Runners /\ r # 0
  BY <1>1, InHandFacts
<1>3. /\ batch' \in [Batches -> BatchRecords] /\ turn' \in Batches \cup {Idle}
  BY <1>1, <1>2, AnswerKeeps DEF Answered, history
<1>4. armed' \in [Runners -> BOOLEAN]
  BY <1>1, <1>2, ScheduleNextArms DEF HeartInv, TypeOK
<1>5. TypeOK'
  BY <1>1, <1>3, <1>4 DEF HeartInv, TypeOK, WakeTypeOK, Answered, history, BatchRecords
<1> QED
  BY <1>1, <1>2, <1>5, AnsweredKeeps

LEMMA SkipsRunKeeps ==
  ASSUME HeartInv, NEW b \in Batches, SkipsRun(b)
  PROVE  HeartInv'
<1> DEFINE r == batch[b].runner
<1>1. /\ InHand(b) /\ Answered(b) /\ UNCHANGED <<enabled, life, agents, history>>
      /\ due' = [due EXCEPT ![r] = FALSE] /\ ScheduleNext(r)
  BY DEF SkipsRun
<1>2. batch[b].todo # <<>> /\ r \in Runners /\ r # 0
  BY <1>1, InHandFacts
<1>3. /\ batch' \in [Batches -> BatchRecords] /\ turn' \in Batches \cup {Idle}
  BY <1>1, <1>2, AnswerKeeps DEF Answered, history
<1>4. armed' \in [Runners -> BOOLEAN] /\ due' \in [Runners -> BOOLEAN]
  BY <1>1, <1>2, ScheduleNextArms DEF HeartInv, TypeOK
<1>5. TypeOK'
  BY <1>1, <1>3, <1>4 DEF HeartInv, TypeOK, WakeTypeOK, Answered, history, BatchRecords
<1> QED
  BY <1>1, <1>2, <1>5, AnsweredKeeps

LEMMA AdvancedType == ASSUME HeartInv, NEW b \in Batches PROVE Advanced(b) \in [Runners -> BOOLEAN]
  BY DEF HeartInv, TypeOK, Advanced

LEMMA RunEndsKeeps ==
  ASSUME HeartInv, NEW b \in Batches, RunEnds(b)
  PROVE  HeartInv'
<1> DEFINE r == batch[b].runner
<1>1. /\ EventLoopFree /\ batch[b].awaits /\ Answered(b)
      /\ UNCHANGED <<enabled, life, agents, history>>
      /\ due' = Advanced(b) /\ ScheduleNext(r)
  BY DEF RunEnds, AfterRun
<1>2. batch[b].todo # <<>> /\ r \in Runners /\ r # 0
  BY <1>1, InHandFacts
<1>3. /\ batch' \in [Batches -> BatchRecords] /\ turn' \in Batches \cup {Idle}
  BY <1>1, <1>2, AnswerKeeps DEF Answered, history
<1>4. armed' \in [Runners -> BOOLEAN] /\ due' \in [Runners -> BOOLEAN]
  BY <1>1, <1>2, ScheduleNextArms, AdvancedType DEF HeartInv
<1>5. TypeOK'
  BY <1>1, <1>3, <1>4 DEF HeartInv, TypeOK, WakeTypeOK, Answered, history, BatchRecords
<1> QED
  BY <1>1, <1>2, <1>5, AnsweredKeeps

LEMMA StartsRunKeeps ==
  ASSUME HeartInv, NEW b \in Batches, StartsRun(b)
  PROVE  HeartInv'
<1>1. /\ InHand(b) /\ turn' = Idle
      /\ batch' = [batch EXCEPT ![b].awaits = TRUE, ![b].fresh = TRUE]
      /\ UNCHANGED <<handler, pending, timer, scheduled, running, enabled, life, agents, due, armed,
                     cooling, overtaken, silenced>>
  BY DEF StartsRun, Awaits, runner, history
<1>2. batch[b].todo # <<>> /\ batch[b].runner # 0
  BY <1>1, InHandFacts
<1>3. /\ \A c \in Batches :
            batch'[c] = IF c = b THEN [batch[b] EXCEPT !.awaits = TRUE, !.fresh = TRUE] ELSE batch[c]
      /\ batch \in [Batches -> BatchRecords]
  BY <1>1 DEF HeartInv, TypeOK, WakeTypeOK, BatchRecords
<1>4. \A c \in Batches :
        /\ batch'[c].runner = batch[c].runner /\ batch'[c].todo = batch[c].todo
        /\ c # b => batch'[c] = batch[c]
  BY <1>3 DEF BatchRecords
<1>5. TypeOK'
  <2>1. batch' \in [Batches -> BatchRecords]
    <3>1. [batch[b] EXCEPT !.awaits = TRUE, !.fresh = TRUE] \in BatchRecords
      BY <1>3 DEF BatchRecords
    <3> QED
      BY <1>1, <1>3, <3>1
  <2> QED
    BY <1>1, <2>1 DEF HeartInv, TypeOK, WakeTypeOK, BatchRecords
<1>6. BatchesOfRunners'
  <2>1. \A c \in Batches : batch'[c].runner # 0 => life[batch'[c].runner] # "new"
    BY <1>4 DEF HeartInv, BatchesOfRunners
  <2>2. ASSUME NEW c \in Batches, batch'[c].awaits PROVE batch'[c].runner # 0 /\ batch'[c].todo # <<>>
    <3>1. CASE c = b
      BY <1>2, <1>4, <3>1
    <3>2. CASE c # b
      BY <1>4, <2>2, <3>2 DEF HeartInv, BatchesOfRunners
    <3> QED
      BY <3>1, <3>2
  <2> QED
    BY <1>1, <2>1, <2>2 DEF BatchesOfRunners
<1>7. BatchHoldsFlag' /\ OneBatchAtATime'
  BY <1>1, <1>4, SameBatches
<1>8. TargetsApart' /\ HandlerLives' /\ CoolingIsRetry'
  BY <1>1 DEF HeartInv, TargetsApart, HandlerLives, CoolingIsRetry
<1>9. AlwaysNextBeat'
  <2>1. \A t \in Targets : Waits(t) => Waits(t)'
    BY <1>1 DEF Waits
  <2> QED
    BY <1>1, <1>4, <2>1, SameBeat
<1> QED
  BY <1>5, <1>6, <1>7, <1>8, <1>9 DEF HeartInv
LEMMA RequestsInFlightKeeps ==
  ASSUME HeartInv, NEW b \in Batches, RequestsInFlight(b)
  PROVE  HeartInv'
<1> DEFINE r == batch[b].runner
<1>0. PICK w \in Wakes : w = Head(batch[b].todo)
  BY InHandFacts DEF RequestsInFlight
<1>1. /\ InHand(b) \/ (EventLoopFree /\ batch[b].awaits)
      /\ batch' = [batch EXCEPT ![b].todo = Tail(@), ![b].awaits = FALSE] /\ turn' = b
      /\ pending' = Queued(pending, w) /\ timer' = Scheduled(timer, "retry")
      /\ cooling' = (timer' = "retry")
      /\ UNCHANGED <<handler, scheduled, running, enabled, life, agents, overtaken, silenced>>
  BY <1>0 DEF RequestsInFlight, AnsweredBusy
<1>2. batch[b].todo # <<>> /\ r \in Runners /\ r # 0
  BY <1>1, InHandFacts
<1>3. /\ batch' \in [Batches -> BatchRecords] /\ turn' \in Batches \cup {Idle}
      /\ \A c \in Batches : c # b => batch'[c] = batch[c]
      /\ BatchesOfRunners' /\ BatchHoldsFlag' /\ OneBatchAtATime'
  BY <1>1, <1>2, AnswerKeeps
<1>4. /\ pending' \in Seq(Wakes) /\ TargetsApart' /\ Waits(w.target)'
      /\ \A t \in Targets : Waits(t) => Waits(t)'
      /\ timer' \in {"normal", "retry"}
  BY <1>1, PendingGrows
<1>5. /\ due' \in [Runners -> BOOLEAN] /\ armed' \in [Runners -> BOOLEAN]
      /\ \A q \in Runners : armed[q] /\ agents[q] => armed'[q]
      /\ w.target # Everyone /\ life[r] = "live" /\ agents[r] => armed'[r]
  <2>1. CASE w.target = Everyone
    BY <1>0, <2>1 DEF RequestsInFlight, HeartInv, TypeOK
  <2>2. CASE w.target # Everyone
    <3>1. ScheduleNext(r) /\ (due' = Advanced(b) \/ due' = [due EXCEPT ![r] = FALSE])
      BY <1>0, <2>2 DEF RequestsInFlight
    <3>2. due' \in [Runners -> BOOLEAN]
      BY <1>2, <3>1, AdvancedType DEF HeartInv, TypeOK
    <3> QED
      BY <1>2, <3>1, <3>2, ScheduleNextArms DEF HeartInv
  <2> QED
    BY <2>1, <2>2
<1>6. TypeOK'
  BY <1>1, <1>3, <1>4, <1>5 DEF HeartInv, TypeOK, WakeTypeOK, BatchRecords
<1>7. HandlerLives' /\ CoolingIsRetry'
  BY <1>1 DEF HeartInv, HandlerLives, CoolingIsRetry
<1>8. \A c \in Batches : batch'[c].runner = batch[c].runner
  BY <1>1, <1>3 DEF HeartInv, TypeOK, WakeTypeOK
<1>9. AlwaysNextBeat'
  <2>1. ~silenced /\ r = handler /\ handler \in Runners /\ agents[handler] => HasNextBeat(handler)'
    <3>1. CASE w.target = Everyone
      BY <1>1, <1>4, <3>1 DEF HasNextBeat
    <3>2. CASE w.target # Everyone
      BY <1>1, <1>2, <1>5, <3>2 DEF HasNextBeat, HeartInv, HandlerLives
    <3> QED
      BY <3>1, <3>2
  <2> QED
    BY <1>1, <1>3, <1>4, <1>5, <1>8, <2>1, AnsweredKeepsBeat
<1> QED
  BY <1>3, <1>4, <1>6, <1>7, <1>9 DEF HeartInv

LEMMA BatchEndsKeeps ==
  ASSUME HeartInv, NEW b \in Batches, WakeBatchEnds(b)
  PROVE  HeartInv'
<1>1. /\ turn = b /\ batch[b].todo = <<>> /\ running' = FALSE /\ turn' = Idle
      /\ timer' = IF pending # <<>> \/ scheduled THEN Scheduled(timer, "normal") ELSE timer
      /\ batch' = [batch EXCEPT ![b] = NoBatch]
      /\ overtaken' = (overtaken \/ batch[b].runner # handler)
      /\ UNCHANGED <<handler, pending, scheduled, enabled, life, agents, due, armed, cooling, silenced>>
  BY DEF WakeBatchEnds, BatchEnds, runner
<1>2. NoBatch \in BatchRecords /\ NoBatch.runner = 0 /\ NoBatch.awaits = FALSE
  BY RunnersAreNumbers DEF NoBatch, BatchRecords
<1>3. /\ \A c \in Batches : batch'[c] = IF c = b THEN NoBatch ELSE batch[c]
      /\ batch' \in [Batches -> BatchRecords]
  BY <1>1, <1>2 DEF HeartInv, TypeOK, WakeTypeOK, BatchRecords
<1>4. batch[b].runner # 0
  BY <1>1, RunnersAreNumbers DEF HeartInv, BatchesOfRunners, Idle
<1>5. /\ timer' \in {"none", "normal", "retry"} /\ (timer = "retry" => timer' = "retry")
      /\ pending # <<>> => timer' # "none"
  BY <1>1 DEF HeartInv, TypeOK, WakeTypeOK, Scheduled
<1>6. TypeOK'
  BY <1>1, <1>3, <1>5 DEF HeartInv, TypeOK, WakeTypeOK, BatchRecords
<1>7. TargetsApart' /\ HandlerLives' /\ CoolingIsRetry'
  BY <1>1, <1>5 DEF HeartInv, TargetsApart, HandlerLives, CoolingIsRetry
<1>8. BatchesOfRunners'
  BY <1>1, <1>2, <1>3 DEF HeartInv, BatchesOfRunners
<1>9. OneBatchAtATime'
  BY <1>1, <1>2, <1>3 DEF HeartInv, OneBatchAtATime
<1>10. BatchHoldsFlag'
  <2> SUFFICES ASSUME ~overtaken', NEW c \in Batches, handler # 0, batch'[c].runner = handler
               PROVE  FALSE
    BY <1>1 DEF BatchHoldsFlag
  <2>1. c # b /\ batch[c].runner = handler /\ batch[b].runner = handler /\ ~overtaken
    BY <1>1, <1>2, <1>3
  <2> QED
    BY <2>1 DEF HeartInv, OneBatchAtATime
<1>11. AlwaysNextBeat'
  <2> SUFFICES ASSUME ~silenced, NEW r \in Runners, handler = r, agents[r]
               PROVE  HasNextBeat(r)'
    BY <1>1 DEF AlwaysNextBeat
  <2>1. HasNextBeat(r)
    BY DEF HeartInv, AlwaysNextBeat
  <2>2. CASE armed[r]
    BY <1>1, <2>2 DEF HasNextBeat
  <2>3. CASE Waits(Everyone)
    <3>1. Waits(Everyone)' /\ pending # <<>>
      BY <1>1, <2>3 DEF Waits
    <3> QED
      BY <1>5, <3>1 DEF HasNextBeat
  <2>4. CASE \E c \in Batches :
               /\ batch[c].runner = r
               /\ \E i \in DOMAIN batch[c].todo : batch[c].todo[i].target = Everyone
    <3>1. PICK c \in Batches :
               /\ batch[c].runner = r
               /\ \E i \in DOMAIN batch[c].todo : batch[c].todo[i].target = Everyone
      BY <2>4
    <3>2. c # b
      BY <1>1, <3>1
    <3> QED
      BY <1>3, <3>1, <3>2 DEF HasNextBeat
  <2> QED
    BY <2>1, <2>2, <2>3, <2>4 DEF HasNextBeat
<1> QED
  BY <1>6, <1>7, <1>8, <1>9, <1>10, <1>11 DEF HeartInv

(* Requests, the runner's own and those of others.                           *)
LEMMA RequestKeeps ==
  ASSUME HeartInv, NEW w \in Wakes, Request(w), TypeOK',
         UNCHANGED <<enabled, life, agents, history>>,
         \A q \in Runners : armed[q] /\ agents[q] => armed'[q] \/ w.target = Everyone
  PROVE  HeartInv'
<1>1. /\ pending' = Queued(pending, w) /\ timer' = Scheduled(timer, "normal")
      /\ UNCHANGED <<handler, running, batch, turn, cooling, overtaken, silenced>>
  BY DEF Request, history
<1>2. /\ pending' \in Seq(Wakes) /\ TargetsApart' /\ Waits(w.target)'
      /\ \A t \in Targets : Waits(t) => Waits(t)'
      /\ timer' \in {"normal", "retry"} /\ (timer = "retry" => timer' = "retry")
  BY <1>1, PendingGrows
<1>3. HandlerLives' /\ CoolingIsRetry' /\ BatchesOfRunners' /\ BatchHoldsFlag' /\ OneBatchAtATime'
  BY <1>1, <1>2 DEF HeartInv, HandlerLives, CoolingIsRetry, BatchesOfRunners, BatchHoldsFlag, OneBatchAtATime
<1>4. AlwaysNextBeat'
  <2>1. CASE w.target = Everyone
    BY <1>2, <2>1 DEF AlwaysNextBeat, HasNextBeat
  <2>2. CASE w.target # Everyone
    BY <1>1, <1>2, <2>2, SameBeat
  <2> QED
    BY <2>1, <2>2
<1> QED
  BY <1>2, <1>3, <1>4 DEF HeartInv

LEMMA RequestsKeeps ==
  ASSUME HeartInv, NEW w \in Wakes, Requests(w)
  PROVE  HeartInv'
<1>1. Request(w) /\ UNCHANGED <<enabled, life, agents, due, armed, history>>
  BY DEF Requests, runner
<1>2. pending' \in Seq(Wakes) /\ timer' \in {"normal", "retry"}
  BY <1>1, PendingGrows DEF Request
<1>3. TypeOK'
  BY <1>1, <1>2 DEF HeartInv, TypeOK, WakeTypeOK, Request, history
<1> QED
  BY <1>1, <1>3, RequestKeeps

LEMMA SlotTimerKeeps ==
  ASSUME HeartInv, NEW r \in Runners, SlotTimerFires(r)
  PROVE  HeartInv'
<1> DEFINE w == [target |-> Everyone, reason |-> "interval"]
<1>1. /\ Request(w) /\ UNCHANGED <<enabled, life, agents, history>>
      /\ armed' = [armed EXCEPT ![r] = FALSE] /\ due' = [due EXCEPT ![r] = TRUE]
  BY DEF SlotTimerFires
<1>2. w \in Wakes /\ w.target = Everyone
  BY DEF Wakes
<1> HIDE DEF w
<1>3. pending' \in Seq(Wakes) /\ timer' \in {"normal", "retry"}
  BY <1>1, <1>2, PendingGrows DEF Request
<1>4. TypeOK'
  BY <1>1, <1>3 DEF HeartInv, TypeOK, WakeTypeOK, Request, history
<1> QED
  BY <1>1, <1>2, <1>4, RequestKeeps
LEMMA WakeTimerKeeps ==
  ASSUME HeartInv, WakeTimerFires
  PROVE  HeartInv'
<1>1. /\ turn = Idle /\ timer # "none"
      /\ cooling' = (cooling /\ turn' = Idle)
      /\ UNCHANGED <<handler, enabled, life, agents, due, armed, overtaken, silenced>>
  BY DEF WakeTimerFires, TimerFires, EventLoopFree, runner
<1>2. HandlerLives'
  BY <1>1 DEF HeartInv, HandlerLives
<1>3. CASE /\ handler = 0 /\ timer' = "none" /\ scheduled' = FALSE
           /\ UNCHANGED <<pending, running, batch, turn>>
  <2>1. TypeOK'
    BY <1>1, <1>3 DEF HeartInv, TypeOK, WakeTypeOK
  <2>2. AlwaysNextBeat' /\ CoolingIsRetry'
    BY <1>1, <1>3, RunnersAreNumbers DEF AlwaysNextBeat, CoolingIsRetry
  <2>3. TargetsApart' /\ BatchesOfRunners' /\ BatchHoldsFlag' /\ OneBatchAtATime'
    BY <1>1, <1>3 DEF HeartInv, TargetsApart, BatchesOfRunners, BatchHoldsFlag, OneBatchAtATime
  <2> QED
    BY <1>2, <2>1, <2>2, <2>3 DEF HeartInv
<1>4. CASE scheduled' = TRUE /\ UNCHANGED <<timer, pending, running, batch, turn>>
  <2>1. TypeOK'
    BY <1>1, <1>4 DEF HeartInv, TypeOK, WakeTypeOK
  <2>2. \A t \in Targets : Waits(t) => Waits(t)'
    BY <1>4 DEF Waits
  <2>3. AlwaysNextBeat'
    BY <1>1, <1>4, <2>2, SameBeat
  <2>4. /\ TargetsApart' /\ BatchesOfRunners' /\ BatchHoldsFlag' /\ OneBatchAtATime'
        /\ CoolingIsRetry'
    BY <1>1, <1>4
       DEF HeartInv, TargetsApart, BatchesOfRunners, BatchHoldsFlag, OneBatchAtATime, CoolingIsRetry
  <2> QED
    BY <1>2, <2>1, <2>3, <2>4 DEF HeartInv
<1>5. CASE /\ handler # 0 /\ ~running
           /\ timer' = "none" /\ scheduled' = FALSE /\ running' = TRUE /\ pending' = <<>>
           /\ \E b \in Batches :
                /\ batch[b] = NoBatch /\ turn' = b
                /\ batch' = [batch EXCEPT ![b] = [NoBatch EXCEPT !.runner = handler, !.todo = pending]]
  <2>1. PICK b \in Batches :
             /\ batch[b] = NoBatch /\ turn' = b
             /\ batch' = [batch EXCEPT ![b] = [NoBatch EXCEPT !.runner = handler, !.todo = pending]]
    BY <1>5
  <2> DEFINE new == [NoBatch EXCEPT !.runner = handler, !.todo = pending]
  <2>2. batch' = [batch EXCEPT ![b] = new]
    BY <2>1
  <2>3. /\ new \in BatchRecords /\ new.runner = handler /\ new.todo = pending /\ new.awaits = FALSE
        /\ batch[b].runner = 0
    <3>1. NoBatch \in BatchRecords /\ NoBatch.runner = 0 /\ NoBatch.awaits = FALSE
      BY RunnersAreNumbers DEF NoBatch, BatchRecords
    <3>2. handler \in 0..MaxRunners /\ pending \in Seq(Wakes)
      BY DEF HeartInv, TypeOK, WakeTypeOK
    <3> QED
      BY <2>1, <3>1, <3>2 DEF BatchRecords
  <2>4. /\ \A c \in Batches : batch'[c] = IF c = b THEN new ELSE batch[c]
        /\ batch' \in [Batches -> BatchRecords]
    <3> HIDE DEF new
    <3> QED
      BY <2>1, <2>2, <2>3 DEF HeartInv, TypeOK, WakeTypeOK, BatchRecords
  <2> HIDE DEF new
  <2>5. TypeOK'
    <3>1. pending' \in Seq(Wakes) /\ turn' \in Batches \cup {Idle} /\ cooling' \in BOOLEAN
      BY <1>1, <1>5, <2>1
    <3> QED
      BY <1>1, <1>5, <2>4, <3>1 DEF HeartInv, TypeOK, WakeTypeOK, BatchRecords
  <2>6. TargetsApart' /\ CoolingIsRetry'
    <3>1. turn' # Idle
      BY <2>1, RunnersAreNumbers DEF Idle
    <3>2. ~cooling'
      BY <1>1, <3>1
    <3> QED
      BY <1>5, <3>2 DEF TargetsApart, CoolingIsRetry
  <2>7. BatchesOfRunners'
    <3>1. \A c \in Batches : batch'[c].runner # 0 => life[batch'[c].runner] # "new"
      BY <1>5, <2>3, <2>4 DEF HeartInv, BatchesOfRunners, HandlerLives
    <3>2. \A c \in Batches : batch'[c].awaits => batch'[c].runner # 0 /\ batch'[c].todo # <<>>
      BY <2>3, <2>4 DEF HeartInv, BatchesOfRunners
    <3>3. batch'[b].runner # 0
      BY <1>5, <2>3, <2>4
    <3> QED
      BY <1>1, <2>1, <3>1, <3>2, <3>3 DEF BatchesOfRunners
  <2>8. BatchHoldsFlag'
    BY <1>5 DEF BatchHoldsFlag
  <2>9. OneBatchAtATime'
    <3>1. ~overtaken => \A c \in Batches : batch[c].runner # handler
      BY <1>5 DEF HeartInv, BatchHoldsFlag
    <3> QED
      BY <1>1, <2>3, <2>4, <3>1 DEF HeartInv, OneBatchAtATime
  <2>10. AlwaysNextBeat'
    <3> SUFFICES ASSUME ~silenced, NEW r \in Runners, handler = r, agents[r]
                 PROVE  HasNextBeat(r)'
      BY <1>1 DEF AlwaysNextBeat
    <3>1. HasNextBeat(r)
      BY DEF HeartInv, AlwaysNextBeat
    <3>2. CASE armed[r]
      BY <1>1, <3>2 DEF HasNextBeat
    <3>3. CASE Waits(Everyone)
      <4>1. \E i \in DOMAIN batch'[b].todo : batch'[b].todo[i].target = Everyone
        BY <2>3, <2>4, <3>3 DEF Waits
      <4> QED
        BY <2>3, <2>4, <4>1 DEF HasNextBeat
    <3>4. CASE \E c \in Batches :
                 /\ batch[c].runner = r
                 /\ \E i \in DOMAIN batch[c].todo : batch[c].todo[i].target = Everyone
      <4>1. PICK c \in Batches :
                 /\ batch[c].runner = r
                 /\ \E i \in DOMAIN batch[c].todo : batch[c].todo[i].target = Everyone
        BY <3>4
      <4>2. c # b
        BY <1>5, <2>3, <4>1
      <4> QED
        BY <2>4, <4>1, <4>2 DEF HasNextBeat
    <3> QED
      BY <3>1, <3>2, <3>3, <3>4 DEF HasNextBeat
  <2> QED
    BY <1>2, <2>5, <2>6, <2>7, <2>8, <2>9, <2>10 DEF HeartInv
<1> QED
  BY <1>3, <1>4, <1>5 DEF WakeTimerFires, TimerFires, Busy

LEMMA StartKeeps ==
  ASSUME HeartInv, NEW r \in Runners, StartHeartbeatRunner(r)
  PROVE  HeartInv'
<1>1. /\ life[r] = "new" /\ life' = [life EXCEPT ![r] = "live"]
      /\ handler' = r /\ running' = FALSE /\ scheduled' = FALSE /\ cooling' = FALSE
      /\ timer' = IF pending # <<>> THEN "normal" ELSE "none"
      /\ UNCHANGED <<pending, batch, turn, enabled, due, overtaken, silenced>>
  BY DEF StartHeartbeatRunner, SetHandler, NotRunning
<1>2. PICK some \in BOOLEAN : agents' = [agents EXCEPT ![r] = some] /\ armed' = [armed EXCEPT ![r] = some]
  BY DEF StartHeartbeatRunner
<1>3. /\ \A q \in Runners : life'[q] = IF q = r THEN "live" ELSE life[q]
      /\ agents'[r] = some /\ armed'[r] = some
  BY <1>1, <1>2 DEF HeartInv, TypeOK
<1>4. TypeOK'
  <2>1. handler' \in 0..MaxRunners
    BY <1>1, RunnersAreNumbers
  <2> QED
    BY <1>1, <1>2, <2>1 DEF HeartInv, TypeOK, WakeTypeOK
<1>5. \A c \in Batches : batch[c].runner \in {0} \cup Runners /\ batch[c].runner # r
  <2>1. \A c \in Batches : batch[c].runner \in {0} \cup Runners
    BY RunnersAreNumbers DEF HeartInv, TypeOK, WakeTypeOK
  <2> QED
    BY <1>1, <2>1, RunnersAreNumbers DEF HeartInv, BatchesOfRunners
<1>6. BatchesOfRunners'
  BY <1>1, <1>3, <1>5 DEF HeartInv, BatchesOfRunners
<1>7. BatchHoldsFlag' /\ OneBatchAtATime'
  BY <1>1, <1>5 DEF HeartInv, BatchHoldsFlag, OneBatchAtATime
<1>8. TargetsApart' /\ CoolingIsRetry' /\ HandlerLives'
  BY <1>1, <1>3 DEF HeartInv, TargetsApart, CoolingIsRetry, HandlerLives
<1>9. AlwaysNextBeat'
  BY <1>1, <1>3 DEF AlwaysNextBeat, HasNextBeat
<1> QED
  BY <1>4, <1>6, <1>7, <1>8, <1>9 DEF HeartInv

(* A stop or a new configuration makes the batches of the runner outdated.   *)
LEMMA OutdatedFacts ==
  ASSUME HeartInv, NEW r \in Runners, batch' = Outdated(r)
  PROVE  /\ batch' \in [Batches -> BatchRecords]
         /\ \A c \in Batches : /\ batch'[c].runner = batch[c].runner
                               /\ batch'[c].todo = batch[c].todo
                               /\ batch'[c].awaits = batch[c].awaits
<1>1. batch \in [Batches -> BatchRecords]
  BY DEF HeartInv, TypeOK, WakeTypeOK, BatchRecords
<1> QED
  BY <1>1 DEF Outdated, BatchRecords

LEMMA StopKeeps ==
  ASSUME HeartInv, NEW r \in Runners, Stop(r)
  PROVE  HeartInv'
<1>1. /\ life[r] = "live" /\ life' = [life EXCEPT ![r] = "stopped"]
      /\ handler' = (IF handler = r THEN 0 ELSE handler) /\ batch' = Outdated(r)
      /\ UNCHANGED <<pending, timer, scheduled, running, turn, enabled, cooling, overtaken, silenced>>
      /\ armed' = [armed EXCEPT ![r] = FALSE] /\ agents' = [agents EXCEPT ![r] = FALSE]
      /\ due' = [due EXCEPT ![r] = FALSE]
  BY DEF Stop, Disposed, history
<1>2. /\ batch' \in [Batches -> BatchRecords]
      /\ \A c \in Batches : /\ batch'[c].runner = batch[c].runner
                            /\ batch'[c].todo = batch[c].todo
                            /\ batch'[c].awaits = batch[c].awaits
  BY <1>1, OutdatedFacts
<1>3. /\ \A q \in Runners : life'[q] = IF q = r THEN "stopped" ELSE life[q]
      /\ \A q \in Runners : q # r => agents'[q] = agents[q] /\ armed'[q] = armed[q]
      /\ agents'[r] = FALSE
  BY <1>1 DEF HeartInv, TypeOK
<1>4. \A c \in Batches : batch[c].runner \in {0} \cup Runners
  BY RunnersAreNumbers DEF HeartInv, TypeOK, WakeTypeOK
<1>5. handler \in {0} \cup Runners
  BY RunnersAreNumbers DEF HeartInv, TypeOK, WakeTypeOK
<1>6. TypeOK'
  <2>1. handler' \in 0..MaxRunners
    BY <1>1, <1>5, RunnersAreNumbers
  <2> QED
    BY <1>1, <1>2, <2>1 DEF HeartInv, TypeOK, WakeTypeOK, BatchRecords
<1>7. BatchesOfRunners'
  <2>1. \A c \in Batches : batch'[c].runner # 0 => life'[batch'[c].runner] # "new"
    BY <1>2, <1>3, <1>4 DEF HeartInv, BatchesOfRunners
  <2>2. \A c \in Batches : batch'[c].awaits => batch'[c].runner # 0 /\ batch'[c].todo # <<>>
    BY <1>2 DEF HeartInv, BatchesOfRunners
  <2>3. turn # Idle => batch'[turn].runner # 0
    BY <1>2 DEF HeartInv, BatchesOfRunners, TypeOK, WakeTypeOK
  <2> QED
    BY <1>1, <2>1, <2>2, <2>3 DEF BatchesOfRunners
<1>8. BatchHoldsFlag' /\ OneBatchAtATime'
  BY <1>1, <1>2 DEF HeartInv, BatchHoldsFlag, OneBatchAtATime
<1>9. TargetsApart' /\ CoolingIsRetry' /\ HandlerLives'
  BY <1>1, <1>3, <1>5 DEF HeartInv, TargetsApart, CoolingIsRetry, HandlerLives
<1>10. AlwaysNextBeat'
  <2>1. CASE handler = r
    BY <1>1, <2>1, RunnersAreNumbers DEF AlwaysNextBeat
  <2>2. CASE handler # r
    <3>1. \A t \in Targets : Waits(t) => Waits(t)'
      BY <1>1 DEF Waits
    <3> SUFFICES ASSUME ~silenced, NEW q \in Runners, handler = q, agents[q]
                 PROVE  HasNextBeat(q)'
      BY <1>1, <1>3, <2>2 DEF AlwaysNextBeat
    <3>2. HasNextBeat(q)
      BY DEF HeartInv, AlwaysNextBeat
    <3>3. armed[q] => armed'[q]
      BY <1>3, <2>2
    <3> QED
      BY <1>1, <1>2, <3>1, <3>2, <3>3, WakeAssumption DEF HasNextBeat
  <2> QED
    BY <2>1, <2>2
<1> QED
  BY <1>6, <1>7, <1>8, <1>9, <1>10 DEF HeartInv

LEMMA UpdateConfigKeeps ==
  ASSUME HeartInv, NEW r \in Runners, UpdateConfig(r)
  PROVE  HeartInv'
<1>1. /\ batch' = Outdated(r)
      /\ UNCHANGED <<handler, pending, timer, scheduled, running, turn, enabled, life, cooling,
                     overtaken, silenced>>
  BY DEF UpdateConfig, history
<1>2. PICK some \in BOOLEAN, come \in BOOLEAN :
           /\ agents' = [agents EXCEPT ![r] = some] /\ armed' = [armed EXCEPT ![r] = some]
           /\ due' = [due EXCEPT ![r] = some /\ come]
  BY DEF UpdateConfig
<1>3. /\ batch' \in [Batches -> BatchRecords]
      /\ \A c \in Batches : /\ batch'[c].runner = batch[c].runner
                            /\ batch'[c].todo = batch[c].todo
                            /\ batch'[c].awaits = batch[c].awaits
  BY <1>1, OutdatedFacts
<1>4. /\ \A q \in Runners : q # r => agents'[q] = agents[q] /\ armed'[q] = armed[q]
      /\ agents'[r] = armed'[r]
  BY <1>2 DEF HeartInv, TypeOK
<1>5. TypeOK'
  BY <1>1, <1>2, <1>3 DEF HeartInv, TypeOK, WakeTypeOK, BatchRecords
<1>6. BatchesOfRunners'
  BY <1>1, <1>3 DEF HeartInv, BatchesOfRunners, TypeOK, WakeTypeOK
<1>7. BatchHoldsFlag' /\ OneBatchAtATime'
  BY <1>1, <1>3 DEF HeartInv, BatchHoldsFlag, OneBatchAtATime
<1>8. TargetsApart' /\ CoolingIsRetry' /\ HandlerLives'
  BY <1>1 DEF HeartInv, TargetsApart, CoolingIsRetry, HandlerLives
<1>9. AlwaysNextBeat'
  <2>1. \A t \in Targets : Waits(t) => Waits(t)'
    BY <1>1 DEF Waits
  <2> SUFFICES ASSUME ~silenced, NEW q \in Runners, handler = q, agents'[q]
               PROVE  HasNextBeat(q)'
    BY <1>1 DEF AlwaysNextBeat
  <2>2. CASE q = r
    BY <1>4, <2>2 DEF HasNextBeat
  <2>3. CASE q # r
    <3>1. HasNextBeat(q) /\ (armed[q] => armed'[q])
      BY <1>4, <2>3 DEF HeartInv, AlwaysNextBeat
    <3> QED
      BY <1>1, <1>3, <2>1, <3>1, WakeAssumption DEF HasNextBeat
  <2> QED
    BY <2>2, <2>3
<1> QED
  BY <1>5, <1>6, <1>7, <1>8, <1>9 DEF HeartInv

LEMMA SwitchKeeps ==
  ASSUME HeartInv, NEW value \in BOOLEAN, SetHeartbeatsEnabled(value)
  PROVE  HeartInv'
<1>1. /\ enabled' = value /\ silenced' = (silenced \/ ~value)
      /\ UNCHANGED <<handler, pending, timer, scheduled, running, batch, turn, life, agents, due, armed,
                     cooling, overtaken>>
  BY DEF SetHeartbeatsEnabled, wake, runner
<1>2. TypeOK'
  BY <1>1 DEF HeartInv, TypeOK, WakeTypeOK
<1>3. \A t \in Targets : Waits(t) => Waits(t)'
  BY <1>1 DEF Waits
<1>4. AlwaysNextBeat'
  BY <1>1, <1>3, SameBeat
<1>5. /\ TargetsApart' /\ HandlerLives' /\ BatchesOfRunners' /\ BatchHoldsFlag'
      /\ OneBatchAtATime' /\ CoolingIsRetry'
  BY <1>1 DEF HeartInv, TargetsApart, HandlerLives, BatchesOfRunners, BatchHoldsFlag,
              OneBatchAtATime, CoolingIsRetry
<1> QED
  BY <1>2, <1>4, <1>5 DEF HeartInv

LEMMA StutterKeeps == HeartInv /\ UNCHANGED vars => HeartInv'
<1> SUFFICES ASSUME HeartInv, UNCHANGED vars PROVE HeartInv'
  OBVIOUS
<1>1. UNCHANGED <<handler, pending, timer, scheduled, running, batch, turn, enabled, life, agents, due,
                  armed, cooling, overtaken, silenced>>
  BY DEF vars, wake, runner, history
<1>2. TypeOK'
  BY <1>1 DEF HeartInv, TypeOK, WakeTypeOK
<1>3. \A t \in Targets : Waits(t) => Waits(t)'
  BY <1>1 DEF Waits
<1>4. AlwaysNextBeat'
  BY <1>1, <1>3, SameBeat
<1>5. /\ TargetsApart' /\ HandlerLives' /\ BatchesOfRunners' /\ BatchHoldsFlag'
      /\ OneBatchAtATime' /\ CoolingIsRetry'
  BY <1>1 DEF HeartInv, TargetsApart, HandlerLives, BatchesOfRunners, BatchHoldsFlag,
              OneBatchAtATime, CoolingIsRetry
<1> QED
  BY <1>2, <1>4, <1>5 DEF HeartInv

LEMMA InitHolds == Init => HeartInv
<1> SUFFICES ASSUME Init PROVE HeartInv
  OBVIOUS
<1>1. /\ handler = 0 /\ pending = <<>> /\ timer = "none" /\ scheduled = FALSE /\ running = FALSE
      /\ batch = [b \in Batches |-> NoBatch] /\ turn = Idle /\ enabled = TRUE
      /\ cooling = FALSE /\ overtaken = FALSE /\ silenced = FALSE
  BY DEF Init, WakeInit
<1>2. NoBatch \in BatchRecords /\ NoBatch.runner = 0 /\ NoBatch.awaits = FALSE
  BY RunnersAreNumbers DEF NoBatch, BatchRecords
<1>3. handler \in 0..MaxRunners
  BY <1>1, RunnersAreNumbers
<1>4. TypeOK
  <2>1. batch \in [Batches -> BatchRecords] /\ pending \in Seq(Wakes)
    BY <1>1, <1>2
  <2>2. WakeTypeOK
    BY <1>1, <1>3, <2>1 DEF WakeTypeOK, BatchRecords
  <2>3. /\ life \in [Runners -> {"new", "live", "stopped"}]
        /\ agents \in [Runners -> BOOLEAN] /\ due \in [Runners -> BOOLEAN]
        /\ armed \in [Runners -> BOOLEAN]
    BY DEF Init
  <2> QED
    BY <1>1, <2>2, <2>3 DEF TypeOK
<1>5. TargetsApart /\ HandlerLives /\ BatchesOfRunners /\ BatchHoldsFlag /\ OneBatchAtATime
      /\ CoolingIsRetry
  BY <1>1, <1>2 DEF TargetsApart, HandlerLives, BatchesOfRunners, BatchHoldsFlag, OneBatchAtATime,
                    CoolingIsRetry
<1>6. AlwaysNextBeat
  BY <1>1, RunnersAreNumbers DEF AlwaysNextBeat
<1> QED
  BY <1>4, <1>5, <1>6 DEF HeartInv
-----------------------------------------------------------------------------
(* HeartInv is an invariant.                                                 *)
THEOREM HeartInvariant == Spec => []HeartInv
<1>1. HeartInv /\ [Next]_vars => HeartInv'
  <2> SUFFICES ASSUME HeartInv, [Next]_vars PROVE HeartInv'
    OBVIOUS
  <2>1. ASSUME NEW b \in Batches,
               \/ RunsNothing(b) \/ StartsRun(b) \/ SkipsRun(b) \/ RunEnds(b)
               \/ RequestsInFlight(b) \/ WakeBatchEnds(b)
        PROVE  HeartInv'
    BY <2>1, RunsNothingKeeps, StartsRunKeeps, SkipsRunKeeps, RunEndsKeeps, RequestsInFlightKeeps,
       BatchEndsKeeps
  <2>2. ASSUME NEW r \in Runners,
               \/ SlotTimerFires(r) \/ StartHeartbeatRunner(r) \/ Stop(r) \/ UpdateConfig(r)
        PROVE  HeartInv'
    BY <2>2, SlotTimerKeeps, StartKeeps, StopKeeps, UpdateConfigKeeps
  <2> QED
    BY <2>1, <2>2, WakeTimerKeeps, RequestsKeeps, SwitchKeeps, StutterKeeps DEF Next
<1> QED
  BY <1>1, InitHolds, PTL DEF Spec

(* While heartbeats were never switched off, a runner with agents always has *)
(* a source of its next heartbeat.                                           *)
THEOREM HeartbeatGoesOn == Spec => []KeepsBeating
<1>1. HeartInv => KeepsBeating
  BY DEF HeartInv, AlwaysNextBeat, KeepsBeating, SchedulerAlive
<1> QED
  BY <1>1, HeartInvariant, PTL

(* Batches of one handler do not overlap.                                    *)
THEOREM BatchesAreSerial == Spec => []OneBatchAtATime
<1>1. HeartInv => OneBatchAtATime
  BY DEF HeartInv
<1> QED
  BY <1>1, HeartInvariant, PTL
(* No waiting wake loses its reason to a weaker one.                         *)
THEOREM ReasonsAreKept == Spec => NoDowngrade
<1>1. ASSUME HeartInv, [Next]_vars, NEW t \in Targets,
             NEW old \in ReasonFor(pending, t), NEW new \in ReasonFor(pending', t)
      PROVE  Priority(new) >= Priority(old)
  <2>1. pending \in Seq(Wakes) /\ Apart(pending)
    BY <1>1 DEF HeartInv, TypeOK, WakeTypeOK, TargetsApart, Apart
  <2>2. \/ pending' = pending \/ pending' = <<>> \/ \E w \in Wakes : pending' = Queued(pending, w)
    <3>1. ASSUME NEW b \in Batches,
                 \/ RunsNothing(b) \/ StartsRun(b) \/ SkipsRun(b) \/ RunEnds(b) \/ WakeBatchEnds(b)
          PROVE  pending' = pending
      BY <3>1 DEF RunsNothing, StartsRun, SkipsRun, RunEnds, WakeBatchEnds, BatchEnds, Answered, Awaits
    <3>2. ASSUME NEW b \in Batches, RequestsInFlight(b)
          PROVE  \E w \in Wakes : pending' = Queued(pending, w)
      <4>1. Head(batch[b].todo) \in Wakes
        BY <1>1, <3>2, InHandFacts DEF RequestsInFlight
      <4> QED
        BY <3>2, <4>1 DEF RequestsInFlight, AnsweredBusy
    <3>3. ASSUME NEW r \in Runners, SlotTimerFires(r)
          PROVE  \E w \in Wakes : pending' = Queued(pending, w)
      <4>1. [target |-> Everyone, reason |-> "interval"] \in Wakes
        BY DEF Wakes
      <4> QED
        BY <3>3, <4>1 DEF SlotTimerFires, Request
    <3>4. ASSUME NEW r \in Runners, StartHeartbeatRunner(r) \/ Stop(r) \/ UpdateConfig(r)
          PROVE  pending' = pending
      BY <3>4 DEF StartHeartbeatRunner, Stop, UpdateConfig, SetHandler
    <3>5. CASE WakeTimerFires
      BY <3>5 DEF WakeTimerFires, TimerFires
    <3>6. ASSUME NEW w \in Wakes, Requests(w) PROVE pending' = Queued(pending, w)
      BY <3>6 DEF Requests, Request
    <3>7. CASE (\E value \in BOOLEAN : SetHeartbeatsEnabled(value)) \/ UNCHANGED vars
      BY <3>7 DEF SetHeartbeatsEnabled, vars, wake
    <3> QED
      BY <1>1, <3>1, <3>2, <3>3, <3>4, <3>5, <3>6, <3>7 DEF Next
  <2>3. CASE pending' = pending
    <3>1. old = new
      BY <1>1, <2>1, <2>3 DEF ReasonFor, Apart
    <3>2. Priority(old) \in Nat
      <4>1. old \in {"interval", "wake", "hook"}
        <5>1. PICK i \in DOMAIN pending : old = pending[i].reason
          BY <1>1 DEF ReasonFor
        <5>2. pending[i] \in Wakes
          BY <2>1
        <5>3. old \in {"interval"} \cup CallerReasons
          BY <5>1, <5>2 DEF Wakes
        <5> QED
          BY <5>3, WakeAssumption
      <4> QED
        BY <4>1 DEF Priority
    <3> QED
      BY <3>1, <3>2
  <2>4. CASE pending' = <<>>
    BY <1>1, <2>4 DEF ReasonFor
  <2>5. CASE \E w \in Wakes : pending' = Queued(pending, w)
    BY <1>1, <2>1, <2>5, QueuedKeepsReasons
  <2> QED
    BY <2>2, <2>3, <2>4, <2>5
<1>2. HeartInv /\ [Next]_vars =>
        [\A t \in Targets : \A old \in ReasonFor(pending, t), new \in ReasonFor(pending', t) :
           Priority(new) >= Priority(old)]_vars
  BY <1>1
<1> QED
  BY <1>2, HeartInvariant, PTL DEF Spec, NoDowngrade

(* A retry cooldown delays every batch.                                      *)
THEOREM CooldownIsKept == Spec => CooldownHolds
<1>1. HeartInv /\ [Next]_vars =>
        [cooling /\ turn' # turn /\ EventLoopFree /\ pending' = <<>> /\ pending # <<>>
           => timer = "retry"]_vars
  <2> SUFFICES ASSUME HeartInv, Next, cooling, EventLoopFree, pending' = <<>>, pending # <<>>,
                      timer # "retry"
               PROVE  turn' = turn
    OBVIOUS
  <2>1. handler = 0
    BY DEF HeartInv, CoolingIsRetry
  <2>2. CASE WakeTimerFires
    BY <2>1, <2>2 DEF WakeTimerFires, TimerFires
  <2>3. ASSUME NEW b \in Batches,
               \/ RunsNothing(b) \/ StartsRun(b) \/ SkipsRun(b) \/ RunEnds(b) \/ WakeBatchEnds(b)
        PROVE  FALSE
    BY <2>3 DEF RunsNothing, StartsRun, SkipsRun, RunEnds, WakeBatchEnds, BatchEnds, Answered, Awaits
  <2>4. ASSUME NEW b \in Batches, RequestsInFlight(b) PROVE FALSE
    <3>1. PICK w \in Wakes : pending' = Queued(pending, w)
      <4>1. Head(batch[b].todo) \in Wakes
        BY <2>4, InHandFacts DEF RequestsInFlight
      <4> QED
        BY <2>4, <4>1 DEF RequestsInFlight, AnsweredBusy
    <3>2. Merges(pending, w, pending')
      BY <3>1, QueuedMerges DEF HeartInv, TypeOK, WakeTypeOK
    <3> QED
      BY <3>2 DEF Merges
  <2>5. CASE \/ \E r \in Runners : SlotTimerFires(r) \/ StartHeartbeatRunner(r) \/ Stop(r) \/ UpdateConfig(r)
             \/ \E w \in Wakes : Requests(w)
             \/ \E value \in BOOLEAN : SetHeartbeatsEnabled(value)
    BY <2>5 DEF SlotTimerFires, StartHeartbeatRunner, Stop, UpdateConfig, SetHandler, Requests, Request,
                SetHeartbeatsEnabled, wake
  <2> QED
    BY <2>2, <2>3, <2>4, <2>5 DEF Next
<1> QED
  BY <1>1, HeartInvariant, PTL DEF Spec, CooldownHolds
=============================================================================
