------------------------------ MODULE CronJobs ------------------------------
(***************************************************************************)
(* The cron job table and the functions on it: cron/service/jobs.ts and    *)
(* the pure parts of cron/service/timer.ts.  Time is counted in ticks: the *)
(* refire gap, the retry backoff and the catch-up stagger are one tick     *)
(* each, the other delays are constants.                                   *)
(***************************************************************************)
EXTENDS Integers, FiniteSets

CONSTANTS
  Job,
  Kind,            \* schedule.kind of each job
  DeleteAfterRun,  \* job.deleteAfterRun of each job
  Period,          \* everyMs, or the distance between the slots of a cron expression
  MaxAttempts,     \* retries of a one-shot job after transient errors
  StuckAfter,      \* STUCK_RUN_MS
  MaxDelay,        \* MAX_TIMER_DELAY_MS
  None             \* undefined

ASSUME CronAssumption ==
  /\ IsFiniteSet(Job)
  /\ Kind \in [Job -> {"every", "at", "cron"}]
  /\ DeleteAfterRun \in [Job -> BOOLEAN]
  /\ Period \in Nat \ {0} /\ StuckAfter \in Nat /\ MaxDelay \in Nat \ {0}
  /\ MaxAttempts \in Nat
  /\ None \notin Int

(* What executeJobCore may return; the last two are recorded as "error". *)
Outcomes == {"ok", "skipped", "transient", "permanent"}
StatusOf(outcome) == IF outcome \in {"transient", "permanent"} THEN "error" ELSE outcome

(* job.enabled, job.schedule (the time of an "at" job, the anchor of an     *)
(* "every" job) and job.state; errors is consecutiveErrors, cut off where   *)
(* the retries of a one-shot job end.                                       *)
JobState == [enabled : BOOLEAN, base : Nat, next : Nat \cup {None},
             running : Nat \cup {None}, last : Nat \cup {None},
             status : {"none", "ok", "skipped", "error"}, errors : 0..(MaxAttempts + 1)]

IsStore(s) == DOMAIN s \subseteq Job /\ \A j \in DOMAIN s : s[j] \in JobState

Later(a, b) == IF a < b THEN b ELSE a
Earlier(a, b) == IF a < b THEN a ELSE b
-----------------------------------------------------------------------------
(* The slot grid of an "every" job: the first step from the anchor that is  *)
(* not before now.                                                          *)
GridNext(base, now) ==
  IF now < base THEN base
  ELSE base + Period * Later(1, (now - base + Period - 1) \div Period)

(* croner's nextRun and previousRuns are strict. *)
CronNext(now) == Period * (now \div Period + 1)
CronPrevious(now) == IF now = 0 THEN None ELSE Period * ((now - 1) \div Period)

(* A one-shot that succeeded for its current time has no next run. *)
NeverFinished(s) == FALSE
Finished(s) == s.status = "ok" /\ s.base <= s.last

(* computeJobNextRunAtMs *)
NextRun(j, s, now) ==
  CASE ~s.enabled -> None
    [] s.enabled /\ Kind[j] = "every" ->
         IF s.last # None /\ s.last + Period > now THEN s.last + Period
         ELSE GridNext(s.base, now)
    [] s.enabled /\ Kind[j] = "at" ->
         IF Finished(s) THEN None ELSE s.base
    [] s.enabled /\ Kind[j] = "cron" -> CronNext(now)

(* normalizeJobTickState *)
Normalized(s, now) ==
  IF ~s.enabled THEN [s EXCEPT !.next = None, !.running = None]
  ELSE IF s.running # None /\ now - s.running > StuckAfter
       THEN [s EXCEPT !.running = None] ELSE s

(* recomputeNextRuns: every missing or past-due slot is computed anew. *)
RecomputeNextRuns(store, now) ==
  [j \in DOMAIN store |->
     LET s == Normalized(store[j], now)
     IN IF s.enabled /\ (s.next = None \/ now >= s.next)
        THEN [s EXCEPT !.next = NextRun(j, s, now)] ELSE s]

(* recomputeNextRunsForMaintenance: only a missing slot, or with            *)
(* recomputeExpired a slot that has been executed, is computed anew.        *)
Expired(s, now) ==
  s.next # None /\ now >= s.next /\ s.running = None
AlreadyExecuted(s) == s.last # None /\ s.last >= s.next

AdvanceAll(store, now, recomputeExpired) == RecomputeNextRuns(store, now)
ForMaintenance(store, now, recomputeExpired) ==
  [j \in DOMAIN store |->
     LET s == Normalized(store[j], now)
     IN IF s.enabled /\ \/ s.next = None
                        \/ recomputeExpired /\ Expired(s, now) /\ AlreadyExecuted(s)
        THEN [s EXCEPT !.next = NextRun(j, s, now)] ELSE s]

(* isErrorBackoffPending: the backoff of one tick has not elapsed. *)
BackoffPending(j, s, now) ==
  Kind[j] # "at" /\ s.status = "error" /\ s.last # None /\ now < s.last + 1

(* isRunnableJob, as a tick calls it ... *)
Due(s, now) == s.enabled /\ s.next # None /\ now >= s.next
AnyMarker(s) == TRUE
Unmarked(s) == s.running = None
Runnable(s, now) == Due(s, now) /\ Unmarked(s)

(* ... and as start-up calls it, which also replays a cron slot that passed *)
(* since the last run and leaves finished one-shots alone.                  *)
Missed(j, s, now) ==
  /\ s.enabled /\ s.running = None
  /\ IF Kind[j] = "at" /\ s.status # "none"
     THEN /\ s.status = "error" /\ s.next # None /\ s.last # None
          /\ s.next > s.last /\ now >= s.next
     ELSE \/ Due(s, now)
          \/ /\ Kind[j] = "cron"
             /\ s.next # None => ~BackoffPending(j, s, now)
             /\ s.last # None /\ CronPrevious(now) # None
             /\ CronPrevious(now) > s.last

(* nextWakeAtMs and the delay armTimer() gives the timer. *)
WakeTimes(store) ==
  {store[j].next : j \in {k \in DOMAIN store : store[k].enabled /\ store[k].next # None}}
LastOf(times) == CHOOSE t \in times : \A u \in times : t >= u
FirstOf(times) == CHOOSE t \in times : \A u \in times : t <= u
WakeAt(store, now) ==
  IF WakeTimes(store) = {} THEN None
  ELSE LET n == FirstOf(WakeTimes(store))
       IN IF n <= now THEN now + 1 ELSE Earlier(n, now + MaxDelay)
-----------------------------------------------------------------------------
(* A result to apply: job, start and end times, outcome, and whether it was *)
(* a forced manual run.                                                     *)

(* The next slot after a finished run; a forced run of an "every" job keeps *)
(* the rhythm of the previous one.                                          *)
NaturalNext(j, s, r) ==
  IF r.forced /\ Kind[j] = "every"
  THEN NextRun(j, s, r.end)
  ELSE NextRun(j, [s EXCEPT !.last = r.start, !.status = StatusOf(r.outcome)], r.end)

(* applyJobResult *)
Deletes(j, r) == Kind[j] = "at" /\ DeleteAfterRun[j] /\ r.outcome = "ok"

NextAfter(j, s, r) ==
  CASE Kind[j] = "at" -> r.end + 1
    [] Kind[j] # "at" /\ ~s.enabled -> None
    [] Kind[j] # "at" /\ s.enabled ->
         IF StatusOf(r.outcome) = "error" \/ Kind[j] = "cron"
         THEN Later(NaturalNext(j, s, r), r.end + 1)
         ELSE NaturalNext(j, s, r)

KeepsMarker(s) == s.running
ClearsMarker(s) == None

AlwaysStays(j, retries) == TRUE
Stays(j, retries) == Kind[j] = "at" => retries

ApplyJobResult(j, s, r) ==
  LET failed == StatusOf(r.outcome) = "error"
      errors == IF failed THEN Earlier(s.errors + 1, MaxAttempts + 1) ELSE 0
      retries == r.outcome = "transient" /\ errors <= MaxAttempts
      stays == Stays(j, retries)
  IN [s EXCEPT !.running = ClearsMarker(s), !.last = r.start,
               !.status = StatusOf(r.outcome), !.errors = errors,
               !.enabled = s.enabled /\ stays,
               !.next = IF stays THEN NextAfter(j, s, r) ELSE None]

(* applyOutcomeToStoredJob for each result: one for a job that is gone is   *)
(* dropped, a finished one-shot may leave the store.                        *)
WithResults(store, rs) ==
  LET ran(j) == {r \in rs : r.job = j}
      gone == {j \in DOMAIN store : \E r \in ran(j) : Deletes(j, r)}
  IN [j \in DOMAIN store \ gone |->
        IF ran(j) = {} THEN store[j]
        ELSE ApplyJobResult(j, store[j], CHOOSE r \in ran(j) : TRUE)]
=============================================================================
