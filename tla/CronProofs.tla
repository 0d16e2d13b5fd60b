----------------------------- MODULE CronProofs -----------------------------
(***************************************************************************)
(* Proofs about the cron scheduler, in this order: what the functions on    *)
(* the job table return, what each action leaves in the tables, that every  *)
(* step keeps types, timer, instances and markers, and the theorems.        *)
(***************************************************************************)
EXTENDS CronProperties, FiniteSetTheorems, WellFoundedInduction, TLAPS

USE DEF Later, Earlier

-----------------------------------------------------------------------------
(* The functions on jobs and stores. *)

LEMMA HasMinimum ==
  ASSUME NEW T \in SUBSET Nat, T # {}
  PROVE  \E x \in T : \A y \in T : x <= y
<1> DEFINE R == OpToRel(<, Nat)
<1>1. IsWellFoundedOn(R, Nat)
  BY NatLessThanWellFounded
<1>2. \E x \in T : \A y \in T : ~(<<y, x>> \in R)
  <2> HIDE DEF R
  <2> QED
    BY <1>1, WFMin
<1>3. PICK x \in T : \A y \in T : ~(<<y, x>> \in R)
  BY <1>2
<1>4. \A y \in T : ~(y < x)
  <2> TAKE y \in T
  <2>1. <<y, x>> \in R <=> y < x
    BY DEF OpToRel
  <2> QED
    BY <1>3, <2>1, Zenon
<1> QED
  BY <1>4

LEMMA GridIsNat ==
  ASSUME NEW base \in Nat, NEW t \in Nat
  PROVE  GridNext(base, t) \in Nat
<1> DEFINE d == (t - base + Period - 1) \div Period
<1>1. Period \in Nat \ {0}
  BY CronAssumption
<1>2. CASE t < base
  BY <1>2 DEF GridNext
<1>3. CASE ~(t < base)
  <2>1. t - base + Period - 1 \in Int
    BY <1>1
  <2>2. d \in Int
    BY <1>1, <2>1
  <2> HIDE DEF d
  <2>3. Later(1, d) \in Nat
    BY <2>2
  <2> DEFINE m == Later(1, d)
  <2>4. Period * m \in Nat
    <3> HIDE DEF m
    <3> QED
      BY <1>1, <2>3 DEF m
  <2> QED
    BY <1>3, <2>4 DEF GridNext, d
<1> QED
  BY <1>2, <1>3

LEMMA CronNextIsNat ==
  ASSUME NEW t \in Nat
  PROVE  CronNext(t) \in Nat
<1> DEFINE d == t \div Period
<1>1. Period \in Nat \ {0}
  BY CronAssumption
<1>2. d \in Nat
  BY <1>1
<1> HIDE DEF d
<1>3. Period * (d + 1) \in Nat
  BY <1>1, <1>2
<1> QED
  BY <1>3 DEF CronNext, d

LEMMA NextRunType ==
  ASSUME NEW j \in Job, NEW s \in JobState, NEW t \in Nat
  PROVE  /\ NextRun(j, s, t) \in Nat \cup {None}
         /\ s.enabled /\ NextRun(j, s, t) = None => Kind[j] = "at" /\ Finished(s)
<1>1. /\ s.enabled \in BOOLEAN /\ s.base \in Nat /\ s.last \in Nat \cup {None}
      /\ Kind[j] \in {"every", "at", "cron"}
  BY CronAssumption DEF JobState
<1>2. CASE ~s.enabled
  BY <1>1, <1>2 DEF NextRun
<1>3. CASE s.enabled /\ Kind[j] = "every"
  <2>1. NextRun(j, s, t) = IF s.last # None /\ s.last + Period > t THEN s.last + Period
                           ELSE GridNext(s.base, t)
    BY <1>3 DEF NextRun
  <2>2. GridNext(s.base, t) \in Nat
    BY <1>1, GridIsNat
  <2> QED
    BY <1>1, <1>3, <2>1, <2>2, CronAssumption
<1>4. CASE s.enabled /\ Kind[j] = "at"
  <2>1. NextRun(j, s, t) = IF Finished(s) THEN None ELSE s.base
    BY <1>4 DEF NextRun
  <2> QED
    BY <1>1, <1>4, <2>1, CronAssumption
<1>5. CASE s.enabled /\ Kind[j] = "cron"
  <2>1. NextRun(j, s, t) = CronNext(t)
    BY <1>5 DEF NextRun
  <2> QED
    BY <1>5, <2>1, CronNextIsNat, CronAssumption
<1> QED
  BY <1>1, <1>2, <1>3, <1>4, <1>5

LEMMA NormalizedFacts ==
  ASSUME NEW s \in JobState, NEW t \in Nat
  PROVE  /\ Normalized(s, t) \in JobState
         /\ [Normalized(s, t) EXCEPT !.running = None, !.next = None]
              = [s EXCEPT !.running = None, !.next = None]
         /\ s.enabled => Normalized(s, t).next = s.next
         /\ Normalized(s, t).running \in {s.running, None}
         /\ s.enabled /\ Normalized(s, t) = s => Normalized(s, t).running = s.running
BY DEF Normalized, JobState

(* What stays of a job when only its slot and its marker are maintained.    *)
SameJob(s, u) ==
  /\ u.enabled = s.enabled /\ u.base = s.base /\ u.last = s.last /\ u.status = s.status

(* An enabled job without a slot is a one-shot that is over.                *)
Slotted(S) ==
  \A j \in DOMAIN S : S[j].enabled /\ S[j].next = None => Kind[j] = "at" /\ Finished(S[j])

(* A one-shot that succeeded is disabled.                                   *)
Off(S) == \A j \in DOMAIN S : Kind[j] = "at" /\ S[j].status = "ok" => ~S[j].enabled

(* U is S after one of the two recompute functions.                         *)
Tended(S, U, t) ==
  /\ IsStore(U) /\ Slotted(U) /\ DOMAIN U = DOMAIN S
  /\ \A j \in DOMAIN S :
       /\ SameJob(S[j], U[j])
       /\ U[j].running = Normalized(S[j], t).running

Reslotted(j, s, t) ==
  LET n == Normalized(s, t) IN [n EXCEPT !.next = NextRun(j, n, t)]

LEMMA ReslottedFacts ==
  ASSUME NEW j \in Job, NEW s \in JobState, NEW t \in Nat
  PROVE  /\ Reslotted(j, s, t) \in JobState /\ SameJob(s, Reslotted(j, s, t))
         /\ Reslotted(j, s, t).running = Normalized(s, t).running
         /\ Reslotted(j, s, t).enabled /\ Reslotted(j, s, t).next = None =>
              Kind[j] = "at" /\ Finished(Reslotted(j, s, t))
<1> DEFINE n == Normalized(s, t)
           u == [n EXCEPT !.next = NextRun(j, n, t)]
<1>1. /\ n \in JobState /\ n.enabled = s.enabled /\ n.base = s.base /\ n.last = s.last
      /\ n.status = s.status
  BY NormalizedFacts DEF Normalized, JobState
<1> HIDE DEF n
<1>2. /\ NextRun(j, n, t) \in Nat \cup {None}
      /\ n.enabled /\ NextRun(j, n, t) = None => Kind[j] = "at" /\ Finished(n)
  BY <1>1, NextRunType
<1>3. u \in JobState /\ u.next = NextRun(j, n, t) /\ u.running = n.running /\ SameJob(n, u)
  BY <1>1, <1>2 DEF JobState, SameJob
<1>4. u = Reslotted(j, s, t) /\ n = Normalized(s, t)
  BY DEF n, Reslotted
<1> HIDE DEF u
<1>5. /\ u \in JobState /\ SameJob(s, u) /\ u.running = n.running
      /\ u.enabled /\ u.next = None => Kind[j] = "at" /\ Finished(u)
  BY <1>1, <1>2, <1>3 DEF SameJob, Finished
<1> QED
  BY <1>4, <1>5, Zenon

LEMMA NormalizedTends ==
  ASSUME NEW s \in JobState, NEW t \in Nat, NEW u, u = Normalized(s, t)
  PROVE  u \in JobState /\ SameJob(s, u) /\ (u.enabled => u.next = s.next)
BY NormalizedFacts DEF Normalized, JobState, SameJob

LEMMA RecomputeTends ==
  ASSUME NEW S, IsStore(S), NEW t \in Nat
  PROVE  Tended(S, RecomputeNextRuns(S, t), t)
<1> DEFINE U == RecomputeNextRuns(S, t)
<1>1. DOMAIN U = DOMAIN S
  BY DEF RecomputeNextRuns
<1>2. ASSUME NEW j \in DOMAIN S
      PROVE  /\ U[j] \in JobState /\ SameJob(S[j], U[j])
             /\ U[j].running = Normalized(S[j], t).running
             /\ U[j].enabled /\ U[j].next = None => Kind[j] = "at" /\ Finished(U[j])
  <2>1. j \in Job /\ S[j] \in JobState
    BY DEF IsStore
  <2>2. \/ U[j] = Reslotted(j, S[j], t)
        \/ /\ U[j] = Normalized(S[j], t)
           /\ ~(U[j].enabled /\ U[j].next = None)
    BY DEF RecomputeNextRuns, Reslotted
  <2> HIDE DEF U
  <2>3. CASE U[j] = Reslotted(j, S[j], t)
    BY <2>1, <2>3, ReslottedFacts
  <2>4. CASE U[j] = Normalized(S[j], t) /\ ~(U[j].enabled /\ U[j].next = None)
    BY <2>1, <2>4, NormalizedTends
  <2> QED
    BY <2>2, <2>3, <2>4
<1> HIDE DEF U
<1>3. Tended(S, U, t)
  BY <1>1, <1>2 DEF Tended, IsStore, Slotted
<1> QED
  BY <1>3 DEF U

(* The maintenance recomputation leaves every slot it finds, except with    *)
(* recomputeExpired that of a job that has been executed since.             *)
LEMMA MaintenanceTends ==
  ASSUME NEW S, IsStore(S), NEW t \in Nat, NEW expired \in BOOLEAN
  PROVE  LET U == ForMaintenance(S, t, expired)
         IN /\ Tended(S, U, t)
            /\ \A j \in DOMAIN S :
                 S[j].enabled /\ S[j].next # None =>
                   U[j].next = S[j].next \/ (expired /\ AlreadyExecuted(S[j]))
<1> DEFINE U == ForMaintenance(S, t, expired)
<1>1. DOMAIN U = DOMAIN S
  BY DEF ForMaintenance
<1>2. ASSUME NEW j \in DOMAIN S
      PROVE  /\ U[j] \in JobState /\ SameJob(S[j], U[j])
             /\ U[j].running = Normalized(S[j], t).running
             /\ U[j].enabled /\ U[j].next = None => Kind[j] = "at" /\ Finished(U[j])
             /\ S[j].enabled /\ S[j].next # None =>
                  U[j].next = S[j].next \/ (expired /\ AlreadyExecuted(S[j]))
  <2> DEFINE n == Normalized(S[j], t)
  <2>1. j \in Job /\ S[j] \in JobState
    BY DEF IsStore
  <2>2. SameJob(S[j], n) /\ (n.enabled => n.next = S[j].next)
    BY <2>1, NormalizedTends
  <2>3. \/ /\ U[j] = Reslotted(j, S[j], t) /\ n.enabled
           /\ n.next = None \/ (expired /\ AlreadyExecuted(n))
        \/ U[j] = n /\ ~(U[j].enabled /\ U[j].next = None)
    BY DEF ForMaintenance, Reslotted
  <2> HIDE DEF U
  <2>4. CASE /\ U[j] = Reslotted(j, S[j], t) /\ n.enabled
             /\ n.next = None \/ (expired /\ AlreadyExecuted(n))
    <3>1. AlreadyExecuted(n) /\ n.enabled => AlreadyExecuted(S[j])
      BY <2>2 DEF AlreadyExecuted, SameJob
    <3>2. S[j].enabled /\ S[j].next # None => expired /\ AlreadyExecuted(S[j])
      BY <2>2, <2>4, <3>1
    <3> QED
      BY <2>1, <2>4, <3>2, ReslottedFacts
  <2>5. CASE U[j] = n /\ ~(U[j].enabled /\ U[j].next = None)
    BY <2>1, <2>2, <2>5, NormalizedTends DEF SameJob
  <2> QED
    BY <2>3, <2>4, <2>5
<1> HIDE DEF U
<1>3. Tended(S, U, t)
  BY <1>1, <1>2 DEF Tended, IsStore, Slotted
<1>4. Tended(S, U, t) /\ \A j \in DOMAIN S : S[j].enabled /\ S[j].next # None =>
        U[j].next = S[j].next \/ (expired /\ AlreadyExecuted(S[j]))
  BY <1>2, <1>3
<1> QED
  BY <1>4 DEF U

(* The record of an execution whose result can be applied.                  *)
Ended(r) == r \in RunRecord /\ ~Live(r) /\ r.end # None

LEMMA NextAfterType ==
  ASSUME NEW j \in Job, NEW s \in JobState, NEW r, Ended(r)
  PROVE  /\ NextAfter(j, s, r) \in Nat \cup {None}
         /\ s.enabled => NextAfter(j, s, r) # None
<1> DEFINE u == [s EXCEPT !.last = r.start, !.status = StatusOf(r.outcome)]
<1>1. /\ r.start \in Nat /\ r.end \in Nat /\ r.outcome \in Outcomes /\ r.forced \in BOOLEAN
      /\ StatusOf(r.outcome) \in {"ok", "skipped", "error"}
  BY DEF Ended, RunRecord, Live, Outcomes, StatusOf
<1>2. u \in JobState /\ u.enabled = s.enabled /\ s.enabled \in BOOLEAN
  BY <1>1 DEF JobState
<1>3. CASE Kind[j] = "at"
  BY <1>1, <1>3, CronAssumption DEF NextAfter
<1>4. CASE Kind[j] # "at" /\ ~s.enabled
  BY <1>4 DEF NextAfter
<1>5. CASE Kind[j] # "at" /\ s.enabled
  <2>1. NaturalNext(j, s, r) \in {NextRun(j, s, r.end), NextRun(j, u, r.end)}
    BY DEF NaturalNext
  <2> HIDE DEF u
  <2>2. /\ NextRun(j, s, r.end) \in Nat \cup {None} /\ NextRun(j, s, r.end) # None
        /\ NextRun(j, u, r.end) \in Nat \cup {None} /\ NextRun(j, u, r.end) # None
    BY <1>1, <1>2, <1>5, NextRunType
  <2>3. NaturalNext(j, s, r) \in Nat
    BY <2>1, <2>2
  <2>4. NextAfter(j, s, r) \in {Later(NaturalNext(j, s, r), r.end + 1), NaturalNext(j, s, r)}
    BY <1>5 DEF NextAfter
  <2> QED
    BY <1>1, <2>3, <2>4, CronAssumption
<1> QED
  BY <1>2, <1>3, <1>4, <1>5

LEMMA ApplyFacts ==
  ASSUME NEW j \in Job, NEW s \in JobState, NEW r, Ended(r)
  PROVE  LET u == ApplyJobResult(j, s, r)
         IN /\ u \in JobState /\ u.running = None
            /\ u.enabled => u.next # None /\ s.enabled
            /\ Kind[j] = "at" /\ u.status = "ok" => ~u.enabled
<1> DEFINE failed == StatusOf(r.outcome) = "error"
           errors == IF failed THEN Earlier(s.errors + 1, MaxAttempts + 1) ELSE 0
           retries == r.outcome = "transient" /\ errors <= MaxAttempts
           stays == Stays(j, retries)
           next == IF stays THEN NextAfter(j, s, r) ELSE None
           u == [s EXCEPT !.running = ClearsMarker(s), !.last = r.start,
                          !.status = StatusOf(r.outcome), !.errors = errors,
                          !.enabled = s.enabled /\ stays, !.next = next]
<1>1. /\ r.start \in Nat /\ StatusOf(r.outcome) \in {"ok", "skipped", "error"}
  BY DEF Ended, RunRecord, Live, Outcomes, StatusOf
<1>2. /\ s.errors \in 0..(MaxAttempts + 1) /\ s.enabled \in BOOLEAN /\ MaxAttempts \in Nat
  BY CronAssumption DEF JobState
<1>3. errors \in 0..(MaxAttempts + 1)
  BY <1>2
<1>4. stays \in BOOLEAN
  BY DEF Stays
<1>5. ApplyJobResult(j, s, r) = u
  BY DEF ApplyJobResult
<1>6. Kind[j] = "at" /\ StatusOf(r.outcome) = "ok" => ~stays
  BY DEF Stays, StatusOf
<1> HIDE DEF stays, errors
<1>7. next \in Nat \cup {None} /\ (s.enabled /\ stays => next # None)
  BY NextAfterType
<1> HIDE DEF next
<1>8. u \in JobState
  BY <1>1, <1>2, <1>3, <1>4, <1>7 DEF JobState, ClearsMarker
<1>9. /\ u.running = None /\ u.enabled = (s.enabled /\ stays) /\ u.next = next
      /\ u.status = StatusOf(r.outcome)
  BY DEF JobState, ClearsMarker
<1> HIDE DEF u
<1>10. /\ u \in JobState /\ u.running = None /\ (u.enabled => u.next # None /\ s.enabled)
       /\ Kind[j] = "at" /\ u.status = "ok" => ~u.enabled
  BY <1>6, <1>7, <1>8, <1>9
<1> QED
  BY <1>5, <1>10

LEMMA WithResultsFacts ==
  ASSUME NEW S, IsStore(S), NEW rs, \A r \in rs : Ended(r)
  PROVE  LET U == WithResults(S, rs)
         IN /\ IsStore(U) /\ DOMAIN U \subseteq DOMAIN S
            /\ \A j \in DOMAIN S :
                 (\A r \in rs : r.job # j) => j \in DOMAIN U /\ U[j] = S[j]
            /\ \A j \in DOMAIN U :
                 (\E r \in rs : r.job = j) =>
                   /\ U[j].running = None /\ (U[j].enabled => U[j].next # None /\ S[j].enabled)
                   /\ Kind[j] = "at" /\ U[j].status = "ok" => ~U[j].enabled
<1> DEFINE ran(j) == {r \in rs : r.job = j}
           gone == {j \in DOMAIN S : \E r \in ran(j) : Deletes(j, r)}
           U == WithResults(S, rs)
           result(j) == CHOOSE r \in ran(j) : TRUE
<1>1. U = [j \in DOMAIN S \ gone |->
             IF ran(j) = {} THEN S[j] ELSE ApplyJobResult(j, S[j], result(j))]
  BY DEF WithResults
<1> HIDE DEF U
<1>2. DOMAIN U = DOMAIN S \ gone
  BY <1>1
<1>3. ASSUME NEW j \in DOMAIN S, \A r \in rs : r.job # j
      PROVE  j \in DOMAIN U /\ U[j] = S[j]
  <2>1. ran(j) = {}
    BY <1>3
  <2> QED
    BY <1>1, <2>1
<1>4. ASSUME NEW j \in DOMAIN U, \E r \in rs : r.job = j
      PROVE  /\ U[j] \in JobState /\ U[j].running = None
             /\ U[j].enabled => U[j].next # None /\ S[j].enabled
             /\ Kind[j] = "at" /\ U[j].status = "ok" => ~U[j].enabled
  <2>1. ran(j) # {}
    BY <1>4
  <2>2. Ended(result(j))
    BY <2>1
  <2>3. U[j] = ApplyJobResult(j, S[j], result(j))
    BY <1>1, <1>2, <2>1
  <2>4. j \in Job /\ S[j] \in JobState
    BY <1>2 DEF IsStore
  <2> HIDE DEF result
  <2> QED
    BY <2>2, <2>3, <2>4, ApplyFacts
<1>5. \A j \in DOMAIN U : U[j] \in JobState
  BY <1>2, <1>3, <1>4 DEF IsStore
<1>6. /\ IsStore(U) /\ DOMAIN U \subseteq DOMAIN S
      /\ \A j \in DOMAIN S : (\A r \in rs : r.job # j) => j \in DOMAIN U /\ U[j] = S[j]
      /\ \A j \in DOMAIN U :
           (\E r \in rs : r.job = j) =>
             /\ U[j].running = None /\ (U[j].enabled => U[j].next # None /\ S[j].enabled)
             /\ Kind[j] = "at" /\ U[j].status = "ok" => ~U[j].enabled
  BY <1>2, <1>3, <1>4, <1>5 DEF IsStore
<1> QED
  BY <1>6 DEF U

LEMMA StaggeredFacts ==
  ASSUME NEW S, IsStore(S), NEW js, now \in Nat
  PROVE  /\ IsStore(Staggered(S, js)) /\ DOMAIN Staggered(S, js) = DOMAIN S
         /\ \A j \in DOMAIN S :
              /\ SameJob(S[j], Staggered(S, js)[j])
              /\ Staggered(S, js)[j].running = S[j].running
              /\ j \notin js => Staggered(S, js)[j] = S[j]
              /\ Staggered(S, js)[j].next # None \/ Staggered(S, js)[j] = S[j]
<1> DEFINE live == {j \in js \cap DOMAIN S : S[j].enabled}
           due(j) == IF S[j].next = None THEN 0 ELSE S[j].next
           place(j) == {k \in live : due(k) <= due(j)}
           U == Staggered(S, js)
<1>1. U = [j \in DOMAIN S |->
             IF j \in live THEN [S[j] EXCEPT !.next = now + Cardinality(place(j))] ELSE S[j]]
  BY DEF Staggered
<1> HIDE DEF U
<1>2. \A j \in DOMAIN S : Cardinality(place(j)) \in Nat
  <2> TAKE j \in DOMAIN S
  <2>1. place(j) \in SUBSET Job
    BY DEF IsStore
  <2> HIDE DEF place
  <2>2. IsFiniteSet(place(j))
    BY <2>1, FS_Subset, CronAssumption
  <2> QED
    BY <2>2, FS_CardinalityType
<1> HIDE DEF place
<1>3. ASSUME NEW j \in DOMAIN S
      PROVE  /\ U[j] \in JobState /\ SameJob(S[j], U[j]) /\ U[j].running = S[j].running
             /\ j \notin js => U[j] = S[j]
             /\ U[j].next # None \/ U[j] = S[j]
  <2>1. S[j] \in JobState
    BY DEF IsStore
  <2>2. CASE j \in live
    <3>1. U[j] = [S[j] EXCEPT !.next = now + Cardinality(place(j))]
      BY <1>1, <2>2
    <3>2. now + Cardinality(place(j)) \in Nat
      BY <1>2
    <3>3. now + Cardinality(place(j)) # None
      BY <3>2, CronAssumption
    <3>4. j \in js
      BY <2>2
    <3> QED
      BY <2>1, <3>1, <3>2, <3>3, <3>4 DEF JobState, SameJob
  <2>3. CASE j \notin live
    BY <1>1, <2>1, <2>3 DEF SameJob
  <2> QED
    BY <2>2, <2>3
<1>4. IsStore(U) /\ DOMAIN U = DOMAIN S
  BY <1>1, <1>3 DEF IsStore
<1> QED
  BY <1>3, <1>4 DEF U

LEMMA MarkedFacts ==
  ASSUME NEW S, IsStore(S), NEW js, now \in Nat
  PROVE  /\ IsStore(Marked(S, js)) /\ DOMAIN Marked(S, js) = DOMAIN S
         /\ \A j \in DOMAIN S :
              /\ SameJob(S[j], Marked(S, js)[j])
              /\ Marked(S, js)[j].next = S[j].next
              /\ Marked(S, js)[j].running = IF j \in js THEN now ELSE S[j].running
BY DEF Marked, IsStore, JobState, SameJob

LEMMA CreateJobFacts ==
  ASSUME NEW j \in Job, now \in Nat
  PROVE  /\ CreateJob(j) \in JobState /\ CreateJob(j).running = None
         /\ CreateJob(j).enabled /\ CreateJob(j).next # None
<1>1. Created(j) \in JobState
  BY CronAssumption DEF Created, JobState
<1>2. Created(j).enabled /\ Created(j).running = None /\ ~Finished(Created(j))
  BY DEF Created, Finished
<1>3. NextRun(j, Created(j), now) \in Nat \cup {None} /\ NextRun(j, Created(j), now) # None
  BY <1>1, <1>2, NextRunType
<1> HIDE DEF Created
<1> QED
  BY <1>1, <1>2, <1>3 DEF CreateJob, JobState

(* nextWakeAtMs is the earliest slot, and the timer is never set past it.   *)
LEMMA WakeCovers ==
  ASSUME NEW S, IsStore(S), NEW t \in Nat
  PROVE  /\ WakeAt(S, t) \in Nat \cup {None}
         /\ \A j \in DOMAIN S :
              S[j].enabled /\ S[j].next # None =>
                WakeAt(S, t) # None /\ WakeAt(S, t) <= Later(S[j].next, t + 1)
<1> DEFINE T == WakeTimes(S)
           n == FirstOf(T)
<1>1. T \in SUBSET Nat /\ MaxDelay \in Nat \ {0}
  BY CronAssumption DEF WakeTimes, IsStore, JobState
<1>2. \A j \in DOMAIN S : S[j].enabled /\ S[j].next # None => S[j].next \in T
  BY DEF WakeTimes
<1>3. WakeAt(S, t) = IF T = {} THEN None
                     ELSE IF n <= t THEN t + 1 ELSE Earlier(n, t + MaxDelay)
  BY DEF WakeAt
<1> HIDE DEF T
<1>4. CASE T = {}
  BY <1>2, <1>3, <1>4
<1>5. CASE T # {}
  <2>1. n \in T /\ \A u \in T : n <= u
    <3>1. \E x \in T : \A y \in T : x <= y
      BY <1>1, <1>5, HasMinimum
    <3> QED
      BY <3>1 DEF FirstOf
  <2> HIDE DEF n
  <2>2. n \in Nat
    BY <1>1, <2>1
  <2>3. WakeAt(S, t) = IF n <= t THEN t + 1 ELSE Earlier(n, t + MaxDelay)
    BY <1>3, <1>5
  <2>4. WakeAt(S, t) \in Nat
    BY <1>1, <2>2, <2>3
  <2>5. \A u \in T : WakeAt(S, t) <= Later(u, t + 1)
    BY <1>1, <2>1, <2>2, <2>3
  <2> QED
    BY <1>2, <2>4, <2>5, CronAssumption
<1> QED
  BY <1>4, <1>5

-----------------------------------------------------------------------------
(* The tables, in memory and on disk.                                       *)

StateOK ==
  /\ now \in 0..MaxTime
  /\ cur \in Inst
  /\ timer \in [Inst -> Nat \cup {None}]
  /\ tick \in [Inst -> {"idle", "collect", "run", "finally"}]
  /\ batch \in [Inst -> SUBSET Job]
  /\ attached \in [Inst -> BOOLEAN]
  /\ boot \in [Inst -> {"none", "clear", "plan", "catchup", "settle", "up"}]
  /\ missed \in [Inst -> SUBSET Job] /\ deferred \in [Inst -> SUBSET Job]
  /\ runs \subseteq RunRecord
  /\ manuals \in 0..MaxManual
  /\ \A r \in runs : Live(r) \/ Ended(r)

GoodStore(S) == IsStore(S) /\ Slotted(S)
StoresOK == GoodStore(disk) /\ DOMAIN mem = Inst /\ \A i \in Inst : GoodStore(mem[i])

CoreInv == StateOK /\ StoresOK

LEMMA NowIsNat ==
  ASSUME StateOK
  PROVE  now \in Nat /\ MaxTime \in Nat /\ Inst \subseteq Nat
BY ServiceAssumption DEF StateOK, Inst

LEMMA SlottedKept ==
  ASSUME NEW S, Slotted(S), NEW U, DOMAIN U \subseteq DOMAIN S,
         \A j \in DOMAIN U : SameJob(S[j], U[j]) /\ U[j].next = S[j].next
  PROVE  Slotted(U)
BY DEF Slotted, SameJob, Finished

LEMMA SaveKeeps ==
  ASSUME StoresOK, NEW i \in Inst, NEW S, GoodStore(S), Save(i, S)
  PROVE  StoresOK' /\ mem'[i] = S /\ disk' = S
BY DEF StoresOK, Save, GoodStore, IsStore, Slotted

LEMMA MarkedIsGood ==
  ASSUME StateOK, NEW S, GoodStore(S), NEW js
  PROVE  GoodStore(Marked(S, js))
<1>1. now \in Nat
  BY NowIsNat
<1> QED
  BY <1>1, MarkedFacts, SlottedKept DEF GoodStore

(* What the recompute functions do to a good store.                         *)
LEMMA RecomputedIsGood ==
  ASSUME StateOK, NEW S, GoodStore(S)
  PROVE  /\ GoodStore(RecomputeNextRuns(S, now)) /\ Tended(S, RecomputeNextRuns(S, now), now)
BY NowIsNat, RecomputeTends DEF GoodStore, Tended

LEMMA MaintainedIsGood ==
  ASSUME StateOK, NEW S, IsStore(S), NEW expired \in BOOLEAN
  PROVE  /\ GoodStore(ForMaintenance(S, now, expired))
         /\ Tended(S, ForMaintenance(S, now, expired), now)
         /\ \A j \in DOMAIN S :
              S[j].enabled /\ S[j].next # None =>
                \/ ForMaintenance(S, now, expired)[j].next = S[j].next
                \/ expired /\ AlreadyExecuted(S[j])
BY NowIsNat, MaintenanceTends DEF GoodStore, Tended

(* list(), status() and cron.run see the slots as they are.                 *)
LEMMA MaintenanceKeepsSlots ==
  ASSUME StateOK, NEW S, GoodStore(S), NEW j \in DOMAIN S, S[j].enabled
  PROVE  ForMaintenance(S, now, FALSE)[j].next = S[j].next
<1> DEFINE n == Normalized(S[j], now)
           U == ForMaintenance(S, now, FALSE)
<1>1. CASE S[j].next # None
  BY <1>1, MaintainedIsGood DEF GoodStore
<1>2. CASE S[j].next = None
  <2>1. j \in Job /\ S[j] \in JobState /\ Kind[j] = "at" /\ Finished(S[j])
    BY <1>2 DEF GoodStore, IsStore, Slotted
  <2>2. n \in JobState /\ SameJob(S[j], n) /\ n.next = None
    <3>1. n \in JobState /\ SameJob(S[j], n) /\ (n.enabled => n.next = S[j].next)
      BY <2>1, NormalizedTends, NowIsNat
    <3> HIDE DEF n
    <3> QED
      BY <1>2, <3>1 DEF SameJob
  <2>3. U[j] \in {n, [n EXCEPT !.next = NextRun(j, n, now)]}
    BY DEF ForMaintenance
  <2> HIDE DEF n, U
  <2>4. NextRun(j, n, now) = None
    BY <2>1, <2>2 DEF NextRun, Finished, SameJob
  <2>5. U[j].next = None
    BY <2>2, <2>3, <2>4 DEF JobState
  <2> QED
    BY <1>2, <2>5 DEF U
<1> QED
  BY <1>1, <1>2

(* A marker survives unless its job is disabled or it has become stale.     *)
LEMMA MarkerSurvives ==
  ASSUME NEW S, IsStore(S), NEW t \in Nat, NEW U, Tended(S, U, t), NEW j \in DOMAIN S
  PROVE  /\ S[j].enabled /\ Normalized(S[j], t) = S[j] => U[j].running = S[j].running
         /\ U[j].running # None => S[j].running # None
BY NormalizedFacts DEF Tended, IsStore

(* The table once the results rs have been applied to S; the jobs in        *)
(* postponed are given another slot.                                        *)
Settled(S, U, rs, postponed) ==
  /\ DOMAIN U \subseteq DOMAIN S
  /\ \A j \in DOMAIN S :
       (\A r \in rs : r.job # j) =>
         /\ j \in DOMAIN U /\ SameJob(S[j], U[j])
         /\ U[j].running = Normalized(S[j], now).running
         /\ S[j].enabled /\ S[j].next # None => U[j].next = S[j].next \/ j \in postponed
  /\ \A j \in DOMAIN U :
       (\E r \in rs : r.job = j) =>
         /\ U[j].running = None
         /\ Kind[j] = "at" /\ U[j].status = "ok" => ~U[j].enabled

LEMMA MaintenanceSettles ==
  ASSUME StateOK, NEW S, IsStore(S), NEW rs, NEW postponed, NEW W, IsStore(W),
         NEW expired \in BOOLEAN,
         \A j \in DOMAIN S : expired /\ AlreadyExecuted(S[j]) => j \in postponed,
         DOMAIN W \subseteq DOMAIN S,
         \A j \in DOMAIN S :
           (\A r \in rs : r.job # j) =>
             /\ j \in DOMAIN W /\ SameJob(S[j], W[j]) /\ W[j].running = S[j].running
             /\ S[j].next # None =>
                  W[j].next # None /\ (W[j].next = S[j].next \/ j \in postponed),
         \A j \in DOMAIN W :
           (\E r \in rs : r.job = j) =>
             /\ W[j].running = None
             /\ Kind[j] = "at" /\ W[j].status = "ok" => ~W[j].enabled
  PROVE  /\ GoodStore(ForMaintenance(W, now, expired))
         /\ Settled(S, ForMaintenance(W, now, expired), rs, postponed)
<1> DEFINE U == ForMaintenance(W, now, expired)
<1>1. /\ GoodStore(U) /\ Tended(W, U, now) /\ now \in Nat
      /\ \A j \in DOMAIN W :
           W[j].enabled /\ W[j].next # None =>
             U[j].next = W[j].next \/ (expired /\ AlreadyExecuted(W[j]))
  BY MaintainedIsGood, NowIsNat
<1> HIDE DEF U
<1>2. DOMAIN U = DOMAIN W
  BY <1>1 DEF Tended
<1>3. ASSUME NEW j \in DOMAIN S, \A r \in rs : r.job # j
      PROVE  /\ j \in DOMAIN U /\ SameJob(S[j], U[j])
             /\ U[j].running = Normalized(S[j], now).running
             /\ S[j].enabled /\ S[j].next # None => U[j].next = S[j].next \/ j \in postponed
  <2>1. /\ j \in DOMAIN W /\ SameJob(S[j], W[j]) /\ W[j].running = S[j].running
        /\ S[j].next # None => W[j].next # None /\ (W[j].next = S[j].next \/ j \in postponed)
    BY <1>3
  <2>2. S[j] \in JobState /\ W[j] \in JobState
    BY <2>1 DEF IsStore
  <2>3. Normalized(W[j], now).running = Normalized(S[j], now).running
    BY <2>1, <2>2 DEF Normalized, SameJob, JobState
  <2>4. U[j].running = Normalized(W[j], now).running /\ SameJob(S[j], U[j])
    BY <1>1, <2>1 DEF Tended, SameJob
  <2>5. W[j].next = S[j].next => (AlreadyExecuted(W[j]) <=> AlreadyExecuted(S[j]))
    BY <2>1 DEF AlreadyExecuted, SameJob
  <2>6. S[j].enabled /\ S[j].next # None => U[j].next = S[j].next \/ j \in postponed
    BY <1>1, <2>1, <2>5 DEF SameJob
  <2> QED
    BY <1>2, <2>1, <2>3, <2>4, <2>6
<1>4. ASSUME NEW j \in DOMAIN U, \E r \in rs : r.job = j
      PROVE  U[j].running = None /\ (Kind[j] = "at" /\ U[j].status = "ok" => ~U[j].enabled)
  BY <1>1, <1>2, <1>4, MarkerSurvives DEF Tended, SameJob
<1>5. GoodStore(U) /\ Settled(S, U, rs, postponed)
  BY <1>1, <1>2, <1>3, <1>4 DEF Settled
<1> QED
  BY <1>5 DEF U

-----------------------------------------------------------------------------
(* What each action leaves in the tables.                                   *)

LEMMA BootClearStore ==
  ASSUME CoreInv, NEW i \in Inst, BootClear(i)
  PROVE  LET U == [j \in DOMAIN disk |-> Cleared(disk[j])]
         IN GoodStore(U) /\ Save(i, U) /\ \A j \in DOMAIN U : U[j].running = None
<1> DEFINE U == [j \in DOMAIN disk |-> Cleared(disk[j])]
<1>1. \A j \in DOMAIN disk :
        /\ U[j] \in JobState /\ SameJob(disk[j], U[j]) /\ U[j].next = disk[j].next
        /\ U[j].running = None
  BY DEF CoreInv, StoresOK, GoodStore, IsStore, Cleared, JobState, SameJob
<1>2. DOMAIN U = DOMAIN disk /\ Save(i, U)
  BY DEF BootClear
<1> HIDE DEF U
<1>3. GoodStore(U)
  BY <1>1, <1>2, SlottedKept DEF CoreInv, StoresOK, GoodStore, IsStore
<1> QED
  BY <1>1, <1>2, <1>3 DEF U

LEMMA BootPlanStore ==
  ASSUME CoreInv, NEW i \in Inst, BootPlan(i)
  PROVE  \/ boot'[i] = "settle" /\ missed'[i] = {} /\ UNCHANGED <<mem, disk>>
         \/ /\ boot'[i] = "catchup"
            /\ \A j \in missed'[i] : j \in DOMAIN mem[i] /\ mem[i][j].running = None
            /\ GoodStore(Marked(mem[i], missed'[i])) /\ Save(i, Marked(mem[i], missed'[i]))
<1> DEFINE found == {j \in DOMAIN mem[i] \ missed[i] : Missed(j, mem[i][j], now)}
<1>1. PICK first \in SUBSET found :
        /\ missed' = [missed EXCEPT ![i] = first]
        /\ boot' = [boot EXCEPT ![i] = IF found = {} THEN "settle" ELSE "catchup"]
        /\ IF found = {} THEN UNCHANGED <<mem, disk>> ELSE Save(i, Marked(mem[i], first))
  BY DEF BootPlan
<1>2. missed'[i] = first /\ boot'[i] = IF found = {} THEN "settle" ELSE "catchup"
  BY <1>1 DEF CoreInv, StateOK
<1>3. \A j \in first : j \in DOMAIN mem[i] /\ mem[i][j].running = None
  BY DEF Missed
<1>4. GoodStore(Marked(mem[i], first))
  BY MarkedIsGood DEF CoreInv, StoresOK
<1> HIDE DEF found
<1> QED
  BY <1>1, <1>2, <1>3, <1>4

(* The results a tick or the start-up catch-up of instance i has collected. *)
LEMMA DoneAreEnded ==
  ASSUME CoreInv, NEW i \in Inst, NEW via, \A r \in RunsOf(i, via) : ~Live(r)
  PROVE  \A r \in RunsOf(i, via) : Ended(r)
BY DEF CoreInv, StateOK, RunsOf

LEMMA BootAppliesStore ==
  ASSUME CoreInv, NEW i \in Inst, BootApplies(i)
  PROVE  \E U : /\ GoodStore(U) /\ Save(i, U)
                /\ Settled(disk, U, RunsOf(i, "catchup"), deferred[i])
<1> DEFINE done == RunsOf(i, "catchup")
           V == WithResults(disk, done)
           W == Staggered(V, deferred[i])
           U == ForMaintenance(W, now, FALSE)
<1>1. (\A r \in done : Ended(r)) /\ Save(i, U)
  BY DoneAreEnded DEF BootApplies
<1> HIDE DEF done
<1>2. /\ IsStore(V) /\ DOMAIN V \subseteq DOMAIN disk
      /\ \A j \in DOMAIN disk : (\A r \in done : r.job # j) => j \in DOMAIN V /\ V[j] = disk[j]
      /\ \A j \in DOMAIN V :
           (\E r \in done : r.job = j) =>
             V[j].running = None /\ (Kind[j] = "at" /\ V[j].status = "ok" => ~V[j].enabled)
  BY <1>1, WithResultsFacts DEF CoreInv, StoresOK, GoodStore
<1> HIDE DEF V
<1>3. /\ IsStore(W) /\ DOMAIN W = DOMAIN V
      /\ \A j \in DOMAIN V :
           /\ SameJob(V[j], W[j]) /\ W[j].running = V[j].running
           /\ j \notin deferred[i] => W[j] = V[j]
           /\ W[j].next # None \/ W[j] = V[j]
  BY <1>2, StaggeredFacts, NowIsNat DEF CoreInv
<1> HIDE DEF W
<1>4. \A j \in DOMAIN disk :
        (\A r \in done : r.job # j) =>
          /\ j \in DOMAIN W /\ SameJob(disk[j], W[j]) /\ W[j].running = disk[j].running
          /\ disk[j].next # None =>
               W[j].next # None /\ (W[j].next = disk[j].next \/ j \in deferred[i])
  BY <1>2, <1>3
<1>5. \A j \in DOMAIN W :
        (\E r \in done : r.job = j) =>
          W[j].running = None /\ (Kind[j] = "at" /\ W[j].status = "ok" => ~W[j].enabled)
  BY <1>2, <1>3 DEF SameJob
<1>6. GoodStore(U) /\ Settled(disk, U, done, deferred[i])
  BY <1>2, <1>3, <1>4, <1>5, MaintenanceSettles DEF CoreInv, StoresOK, GoodStore
<1> HIDE DEF U
<1> QED
  BY <1>1, <1>6 DEF done

LEMMA ApplyOutcomesStore ==
  ASSUME CoreInv, NEW i \in Inst, ApplyOutcomes(i)
  PROVE  \E U : /\ GoodStore(U) /\ Save(i, U)
                /\ Settled(disk, U, RunsOf(i, "tick"), {})
<1> DEFINE done == RunsOf(i, "tick")
           W == WithResults(disk, done)
           U == ForMaintenance(W, now, FALSE)
<1>1. (\A r \in done : Ended(r)) /\ Save(i, U)
  BY DoneAreEnded DEF ApplyOutcomes
<1> HIDE DEF done
<1>2. /\ IsStore(W) /\ DOMAIN W \subseteq DOMAIN disk
      /\ \A j \in DOMAIN disk : (\A r \in done : r.job # j) => j \in DOMAIN W /\ W[j] = disk[j]
      /\ \A j \in DOMAIN W :
           (\E r \in done : r.job = j) =>
             W[j].running = None /\ (Kind[j] = "at" /\ W[j].status = "ok" => ~W[j].enabled)
  BY <1>1, WithResultsFacts DEF CoreInv, StoresOK, GoodStore
<1> HIDE DEF W
<1>3. GoodStore(U) /\ Settled(disk, U, done, {})
  BY <1>2, MaintenanceSettles DEF CoreInv, StoresOK, GoodStore, SameJob
<1> HIDE DEF U
<1> QED
  BY <1>1, <1>3 DEF done

LEMMA BootSettlesStore ==
  ASSUME CoreInv, NEW i \in Inst, BootSettles(i)
  PROVE  \E U : /\ GoodStore(U) /\ Save(i, U) /\ ArmTimer(i, U)
                /\ Tended(disk, U, now)
BY RecomputedIsGood DEF BootSettles, CoreInv, StoresOK

LEMMA CollectDueStore ==
  ASSUME CoreInv, NEW i \in Inst, CollectDue(i)
  PROVE  LET due == batch'[i]
         IN \/ /\ due = {} /\ tick'[i] = "finally"
               /\ \E U : /\ GoodStore(U) /\ Save(i, U) /\ Tended(disk, U, now)
                         /\ \A j \in DOMAIN disk :
                              disk[j].enabled /\ disk[j].next # None =>
                                U[j].next = disk[j].next \/ AlreadyExecuted(disk[j])
            \/ /\ tick'[i] = "run"
               /\ \A j \in due : j \in DOMAIN disk /\ disk[j].running = None
               /\ GoodStore(Marked(disk, due)) /\ Save(i, Marked(disk, due))
<1> DEFINE due == {j \in DOMAIN disk : Runnable(disk[j], now)}
<1>1. /\ Save(i, IF due = {} THEN ForMaintenance(disk, now, TRUE) ELSE Marked(disk, due))
      /\ batch' = [batch EXCEPT ![i] = due]
      /\ tick' = [tick EXCEPT ![i] = IF due = {} THEN "finally" ELSE "run"]
  BY DEF CollectDue
<1>2. \A j \in due : j \in DOMAIN disk /\ disk[j].running = None
  BY DEF Runnable, Unmarked
<1> HIDE DEF due
<1>3. batch'[i] = due /\ tick'[i] = IF due = {} THEN "finally" ELSE "run"
  BY <1>1 DEF CoreInv, StateOK
<1>4. GoodStore(Marked(disk, due))
  BY MarkedIsGood DEF CoreInv, StoresOK
<1>5. /\ GoodStore(ForMaintenance(disk, now, TRUE))
      /\ Tended(disk, ForMaintenance(disk, now, TRUE), now)
      /\ \A j \in DOMAIN disk :
           disk[j].enabled /\ disk[j].next # None =>
             \/ ForMaintenance(disk, now, TRUE)[j].next = disk[j].next
             \/ AlreadyExecuted(disk[j])
  BY MaintainedIsGood DEF CoreInv, StoresOK, GoodStore
<1> QED
  BY <1>1, <1>2, <1>3, <1>4, <1>5, Zenon

(* An edit of one job of S: its marker goes only if it ends up disabled.    *)
EditOf(S, U, j) ==
  /\ j \in DOMAIN S /\ DOMAIN U = DOMAIN S
  /\ \A k \in DOMAIN S \ {j} : U[k] = S[k]
  /\ U[j].running # None => U[j].running = S[j].running
  /\ U[j].enabled => U[j].running = S[j].running

LEMMA EditIsGood ==
  ASSUME NEW S, GoodStore(S), NEW j \in DOMAIN S, NEW s \in JobState,
         s.running \in {S[j].running, None}, s.enabled => s.running = S[j].running,
         s.enabled /\ s.next = None => Kind[j] = "at" /\ Finished(s)
  PROVE  LET U == [S EXCEPT ![j] = s] IN GoodStore(U) /\ EditOf(S, U, j)
BY DEF GoodStore, IsStore, Slotted, EditOf

LEMMA UpdateEnabledStore ==
  ASSUME CoreInv, NEW j \in Job, NEW value \in BOOLEAN, UpdateEnabled(j, value)
  PROVE  \E U : GoodStore(U) /\ Edited(U) /\ EditOf(mem[cur], U, j)
<1> DEFINE s == [mem[cur][j] EXCEPT !.enabled = value]
           t == IF value THEN [s EXCEPT !.next = NextRun(j, s, now)]
                ELSE [s EXCEPT !.next = None, !.running = None]
           U == [mem[cur] EXCEPT ![j] = t]
<1>1. j \in DOMAIN mem[cur] /\ Edited(U)
  BY DEF UpdateEnabled
<1>2. GoodStore(mem[cur]) /\ mem[cur][j] \in JobState
  BY <1>1 DEF CoreInv, StateOK, StoresOK, GoodStore, IsStore
<1>3. /\ s \in JobState /\ s.enabled = value /\ s.running = mem[cur][j].running
      /\ s.status = mem[cur][j].status
  BY <1>2 DEF JobState
<1> HIDE DEF s
<1>4. NextRun(j, s, now) \in Nat \cup {None}
      /\ (value /\ NextRun(j, s, now) = None => Kind[j] = "at" /\ Finished(s))
  BY <1>3, NextRunType, NowIsNat DEF CoreInv
<1>5. /\ t \in JobState /\ t.running \in {mem[cur][j].running, None}
      /\ t.enabled = value /\ (value => t.running = mem[cur][j].running)
      /\ value => t.next = NextRun(j, s, now) /\ (Finished(s) => Finished(t))
  BY <1>3, <1>4 DEF JobState, Finished
<1> HIDE DEF t
<1>6. GoodStore(U) /\ EditOf(mem[cur], U, j)
  BY <1>1, <1>2, <1>4, <1>5, EditIsGood
<1> QED
  BY <1>1, <1>6

LEMMA UpdateScheduleStore ==
  ASSUME CoreInv, NEW j \in Job, UpdateSchedule(j)
  PROVE  \E U : GoodStore(U) /\ Edited(U) /\ EditOf(mem[cur], U, j)
<1> DEFINE s == [mem[cur][j] EXCEPT !.base = IF Kind[j] = "at" THEN now + 1 ELSE now]
           t == IF s.enabled THEN [s EXCEPT !.next = NextRun(j, s, now)]
                ELSE [s EXCEPT !.next = None, !.running = None]
           U == [mem[cur] EXCEPT ![j] = t]
<1>1. j \in DOMAIN mem[cur] /\ Edited(U)
  BY DEF UpdateSchedule
<1>2. GoodStore(mem[cur]) /\ mem[cur][j] \in JobState /\ now \in Nat
  BY <1>1, NowIsNat DEF CoreInv, StateOK, StoresOK, GoodStore, IsStore
<1>3. s \in JobState /\ s.running = mem[cur][j].running /\ s.enabled \in BOOLEAN
  BY <1>2 DEF JobState
<1> HIDE DEF s
<1>4. NextRun(j, s, now) \in Nat \cup {None}
      /\ (s.enabled /\ NextRun(j, s, now) = None => Kind[j] = "at" /\ Finished(s))
  BY <1>2, <1>3, NextRunType
<1>5. /\ t \in JobState /\ t.running \in {mem[cur][j].running, None}
      /\ t.enabled = s.enabled /\ (s.enabled => t.running = mem[cur][j].running)
      /\ s.enabled => t.next = NextRun(j, s, now) /\ (Finished(s) => Finished(t))
  BY <1>3, <1>4 DEF JobState, Finished
<1> HIDE DEF t
<1>6. GoodStore(U) /\ EditOf(mem[cur], U, j)
  BY <1>1, <1>2, <1>4, <1>5, EditIsGood
<1> QED
  BY <1>1, <1>6

LEMMA UpdateOtherStore ==
  ASSUME CoreInv, NEW j \in Job, UpdateOther(j)
  PROVE  \E U : GoodStore(U) /\ Edited(U) /\ EditOf(mem[cur], U, j)
<1> DEFINE s == mem[cur][j]
           t == IF s.enabled /\ s.next = None THEN [s EXCEPT !.next = NextRun(j, s, now)] ELSE s
           U == [mem[cur] EXCEPT ![j] = t]
<1>1. j \in DOMAIN mem[cur] /\ Edited(U)
  BY DEF UpdateOther
<1>2. GoodStore(mem[cur]) /\ s \in JobState /\ now \in Nat
  BY <1>1, NowIsNat DEF CoreInv, StateOK, StoresOK, GoodStore, IsStore
<1>3. /\ NextRun(j, s, now) \in Nat \cup {None}
      /\ s.enabled /\ NextRun(j, s, now) = None => Kind[j] = "at" /\ Finished(s)
  BY <1>2, NextRunType
<1>4. /\ t \in JobState /\ t.running = s.running /\ t.enabled = s.enabled
      /\ t.next = IF s.enabled /\ s.next = None THEN NextRun(j, s, now) ELSE s.next
      /\ Finished(s) => Finished(t)
  BY <1>2, <1>3 DEF JobState, Finished
<1> HIDE DEF t
<1>5. t.enabled /\ t.next = None => Kind[j] = "at" /\ Finished(t)
  BY <1>3, <1>4
<1>6. GoodStore(U) /\ EditOf(mem[cur], U, j)
  BY <1>1, <1>2, <1>4, <1>5, EditIsGood
<1> QED
  BY <1>1, <1>6

LEMMA RemoveJobStore ==
  ASSUME CoreInv, NEW j \in Job, RemoveJob(j)
  PROVE  \E U : /\ GoodStore(U) /\ Edited(U) /\ DOMAIN U = DOMAIN mem[cur] \ {j}
                /\ \A k \in DOMAIN U : U[k] = mem[cur][k]
<1> DEFINE U == [k \in DOMAIN mem[cur] \ {j} |-> mem[cur][k]]
<1>1. Edited(U) /\ DOMAIN U = DOMAIN mem[cur] \ {j} /\ \A k \in DOMAIN U : U[k] = mem[cur][k]
  BY DEF RemoveJob
<1>2. GoodStore(mem[cur])
  BY DEF CoreInv, StateOK, StoresOK
<1> HIDE DEF U
<1>3. GoodStore(U)
  BY <1>1, <1>2 DEF GoodStore, IsStore, Slotted
<1> QED
  BY <1>1, <1>3

LEMMA AddJobStore ==
  ASSUME CoreInv, NEW j \in Job, AddJob(j)
  PROVE  \E S, U : /\ GoodStore(U) /\ Edited(U) /\ IsStore(S) /\ Tended(S, U, now)
                   /\ DOMAIN S = DOMAIN mem[cur] \cup {j}
                   /\ \A k \in DOMAIN mem[cur] \ {j} : S[k] = mem[cur][k]
                   /\ S[j].running = None
<1> DEFINE S == [k \in DOMAIN mem[cur] \cup {j} |-> IF k = j THEN CreateJob(j) ELSE mem[cur][k]]
<1>1. Edited(RecomputeNextRuns(S, now))
  BY DEF AddJob
<1>2. GoodStore(mem[cur])
  BY DEF CoreInv, StateOK, StoresOK
<1>3. /\ CreateJob(j) \in JobState /\ CreateJob(j).running = None
      /\ CreateJob(j).enabled /\ CreateJob(j).next # None
  BY CreateJobFacts, NowIsNat DEF CoreInv
<1>4. /\ DOMAIN S = DOMAIN mem[cur] \cup {j} /\ S[j] = CreateJob(j)
      /\ \A k \in DOMAIN mem[cur] \ {j} : S[k] = mem[cur][k]
  OBVIOUS
<1> HIDE DEF S
<1>5. GoodStore(S)
  BY <1>2, <1>3, <1>4 DEF GoodStore, IsStore, Slotted
<1> QED
  BY <1>1, <1>3, <1>4, <1>5, RecomputedIsGood DEF CoreInv, GoodStore

LEMMA ReadStore ==
  ASSUME CoreInv, Read
  PROVE  \/ UNCHANGED <<mem, disk>>
         \/ \E U : /\ GoodStore(U) /\ Save(cur, U) /\ Tended(mem[cur], U, now)
                   /\ \A j \in DOMAIN mem[cur] :
                        mem[cur][j].enabled => U[j].next = mem[cur][j].next
<1> DEFINE U == ForMaintenance(mem[cur], now, FALSE)
<1>1. GoodStore(mem[cur])
  BY DEF CoreInv, StateOK, StoresOK
<1>2. GoodStore(U) /\ Tended(mem[cur], U, now)
  BY <1>1, MaintainedIsGood DEF CoreInv, GoodStore
<1>3. \A j \in DOMAIN mem[cur] : mem[cur][j].enabled => U[j].next = mem[cur][j].next
  BY <1>1, MaintenanceKeepsSlots DEF CoreInv
<1> QED
  BY <1>1, <1>2, <1>3 DEF Read

LEMMA InspectStore ==
  ASSUME CoreInv, InspectManualRun
  PROVE  \E U : /\ GoodStore(U) /\ mem' = [mem EXCEPT ![cur] = U] /\ Tended(mem[cur], U, now)
                /\ \A j \in DOMAIN mem[cur] :
                     mem[cur][j].enabled => U[j].next = mem[cur][j].next
<1> DEFINE U == ForMaintenance(mem[cur], now, FALSE)
<1>1. GoodStore(mem[cur])
  BY DEF CoreInv, StateOK, StoresOK
<1>2. GoodStore(U) /\ Tended(mem[cur], U, now)
  BY <1>1, MaintainedIsGood DEF CoreInv, GoodStore
<1>3. \A j \in DOMAIN mem[cur] : mem[cur][j].enabled => U[j].next = mem[cur][j].next
  BY <1>1, MaintenanceKeepsSlots DEF CoreInv
<1> QED
  BY <1>1, <1>2, <1>3 DEF InspectManualRun

LEMMA PrepareManualRunStore ==
  ASSUME CoreInv, NEW j \in Job, NEW forced \in BOOLEAN, PrepareManualRun(j, forced)
  PROVE  \E S : /\ GoodStore(S) /\ Tended(mem[cur], S, now)
                /\ j \in DOMAIN S /\ S[j].running = None
                /\ GoodStore(Marked(S, {j})) /\ Save(cur, Marked(S, {j}))
                /\ \A k \in DOMAIN mem[cur] :
                     mem[cur][k].enabled => S[k].next = mem[cur][k].next
<1> DEFINE S == ForMaintenance(mem[cur], now, FALSE)
<1>1. j \in DOMAIN S /\ S[j].running = None /\ Save(cur, Marked(S, {j}))
  BY DEF PrepareManualRun, Unmarked
<1>2. /\ GoodStore(S) /\ Tended(mem[cur], S, now)
      /\ \A k \in DOMAIN mem[cur] : mem[cur][k].enabled => S[k].next = mem[cur][k].next
  BY MaintainedIsGood, MaintenanceKeepsSlots DEF CoreInv, StateOK, StoresOK, GoodStore
<1> HIDE DEF S
<1>3. GoodStore(Marked(S, {j}))
  BY <1>2, MarkedIsGood DEF CoreInv
<1> QED
  BY <1>1, <1>2, <1>3

LEMMA FinishManualRunStore ==
  ASSUME CoreInv, NEW r \in runs, FinishManualRun(r)
  PROVE  /\ r.inst \in Inst
         /\ \/ /\ r.job \notin DOMAIN mem[r.inst]
               /\ UNCHANGED <<mem, disk, timer, attached>>
            \/ /\ r.job \in DOMAIN mem[r.inst]
               /\ \E U : /\ GoodStore(U) /\ Save(r.inst, U) /\ ArmTimer(r.inst, U)
                         /\ Settled(disk, U, {r}, {k \in DOMAIN disk : AlreadyExecuted(disk[k])})
               /\ attached' = [attached EXCEPT ![r.inst] = FALSE]
<1> DEFINE i == r.inst
           j == r.job
           after == ApplyJobResult(j, mem[i][j], r)
           rest == [k \in DOMAIN disk \ {j} |-> disk[k]]
           put == [after EXCEPT !.base = disk[j].base]
           W == IF Deletes(j, r) THEN rest
                ELSE [k \in DOMAIN disk |-> IF k = j THEN put ELSE disk[k]]
           U == ForMaintenance(W, now, TRUE)
           executed == {k \in DOMAIN disk : AlreadyExecuted(disk[k])}
<1>1. i \in Inst /\ j \in Job /\ Ended(r)
  BY DEF CoreInv, StateOK, RunRecord, FinishManualRun
<1>2. \/ j \notin DOMAIN mem[i] /\ UNCHANGED <<mem, disk, timer, attached>>
      \/ /\ j \in DOMAIN mem[i] /\ Save(i, U) /\ ArmTimer(i, U)
         /\ attached' = [attached EXCEPT ![i] = FALSE]
  BY DEF FinishManualRun
<1>3. ASSUME j \in DOMAIN mem[i]
      PROVE  GoodStore(U) /\ Settled(disk, U, {r}, executed)
  <2>1. mem[i][j] \in JobState /\ IsStore(disk)
    BY <1>1, <1>3 DEF CoreInv, StoresOK, GoodStore, IsStore
  <2>2. /\ after \in JobState /\ after.running = None
        /\ Kind[j] = "at" /\ after.status = "ok" => ~after.enabled
    BY <1>1, <2>1, ApplyFacts
  <2> HIDE DEF after
  <2>3. j \in DOMAIN disk =>
          /\ put \in JobState /\ put.running = None
          /\ put.status = after.status /\ put.enabled = after.enabled
    BY <2>1, <2>2 DEF JobState, IsStore
  <2> HIDE DEF put
  <2>4. /\ DOMAIN W \subseteq DOMAIN disk
        /\ \A k \in DOMAIN disk \ {j} : k \in DOMAIN W /\ W[k] = disk[k]
        /\ j \in DOMAIN W => W[j] = put
    OBVIOUS
  <2> HIDE DEF W
  <2>5. /\ IsStore(W)
        /\ j \in DOMAIN W =>
             W[j].running = None /\ (Kind[j] = "at" /\ W[j].status = "ok" => ~W[j].enabled)
    BY <2>1, <2>2, <2>3, <2>4 DEF IsStore
  <2>6. \A k \in DOMAIN disk :
          (\A q \in {r} : q.job # k) =>
            /\ k \in DOMAIN W /\ SameJob(disk[k], W[k]) /\ W[k].running = disk[k].running
            /\ disk[k].next # None =>
                 W[k].next # None /\ (W[k].next = disk[k].next \/ k \in executed)
    BY <2>4 DEF SameJob
  <2>7. \A k \in DOMAIN W :
          (\E q \in {r} : q.job = k) =>
            W[k].running = None /\ (Kind[k] = "at" /\ W[k].status = "ok" => ~W[k].enabled)
    BY <2>5
  <2>8. \A k \in DOMAIN disk : AlreadyExecuted(disk[k]) => k \in executed
    OBVIOUS
  <2> HIDE DEF executed
  <2> QED
    BY <2>1, <2>4, <2>5, <2>6, <2>7, <2>8, MaintenanceSettles DEF CoreInv
<1> QED
  BY <1>1, <1>2, <1>3

LEMMA WorkerStartsStore ==
  ASSUME CoreInv, NEW i \in Inst, NEW j \in Job, WorkerStarts(i, j)
  PROVE  /\ disk' = disk
         /\ \/ mem' = mem
            \/ /\ GoodStore(Marked(mem[i], {j}))
               /\ mem' = [mem EXCEPT ![i] = Marked(mem[i], {j})]
BY MarkedIsGood DEF WorkerStarts, CoreInv, StateOK, StoresOK

-----------------------------------------------------------------------------
(* Every step keeps the types and the tables.                               *)

LEMMA ArmTimerSets ==
  ASSUME StateOK, NEW S, GoodStore(S), NEW i \in Inst, ArmTimer(i, S)
  PROVE  /\ timer' \in [Inst -> Nat \cup {None}]
         /\ timer'[i] = WakeAt(S, now) /\ \A k \in Inst \ {i} : timer'[k] = timer[k]
<1>1. WakeAt(S, now) \in Nat \cup {None}
  BY NowIsNat, WakeCovers DEF GoodStore
<1> QED
  BY <1>1 DEF ArmTimer, StateOK

LEMMA NewRunType ==
  ASSUME StateOK, NEW j \in Job, NEW i \in Inst, NEW via \in {"tick", "catchup", "manual"},
         NEW n \in Nat, NEW forced \in BOOLEAN
  PROVE  /\ NewRun(j, i, via, n, forced) \in RunRecord /\ Live(NewRun(j, i, via, n, forced))
         /\ NewRun(j, i, via, n, forced).job = j /\ NewRun(j, i, via, n, forced).inst = i
BY NowIsNat DEF NewRun, RunRecord, Live

LEMMA BootActionsKeepCore ==
  ASSUME CoreInv, NEW i \in Inst,
         \/ BootClear(i) \/ BootPlan(i) \/ BootApplies(i) \/ BootSettles(i)
         \/ \E j \in Job : BootRuns(i, j)
  PROVE  CoreInv'
<1>1. CASE BootClear(i)
  <2>1. StoresOK'
    BY <1>1, BootClearStore, SaveKeeps DEF CoreInv
  <2>2. {k \in DOMAIN disk : disk[k].running # None} \subseteq Job
    BY DEF CoreInv, StoresOK, GoodStore, IsStore
  <2>3. StateOK'
    BY <1>1, <2>2 DEF BootClear, CoreInv, StateOK
  <2> QED
    BY <2>1, <2>3 DEF CoreInv
<1>2. CASE BootPlan(i)
  <2>1. StoresOK'
    BY <1>2, BootPlanStore, SaveKeeps DEF CoreInv, StoresOK
  <2> DEFINE found == {k \in DOMAIN mem[i] \ missed[i] : Missed(k, mem[i][k], now)}
  <2>2. PICK first \in SUBSET found :
          /\ missed' = [missed EXCEPT ![i] = first]
          /\ deferred' = [deferred EXCEPT ![i] = found \ first]
          /\ boot' = [boot EXCEPT ![i] = IF found = {} THEN "settle" ELSE "catchup"]
    BY <1>2 DEF BootPlan
  <2>3. found \subseteq Job
    BY DEF CoreInv, StoresOK, GoodStore, IsStore
  <2> HIDE DEF found
  <2>4. UNCHANGED <<now, cur, timer, tick, batch, attached, runs, manuals>>
    BY <1>2 DEF BootPlan
  <2>5. StateOK'
    BY <2>2, <2>3, <2>4 DEF CoreInv, StateOK
  <2> QED
    BY <2>1, <2>5 DEF CoreInv
<1>3. ASSUME NEW j \in Job, BootRuns(i, j)
      PROVE  CoreInv'
  <2>1. NewRun(j, i, "catchup", 0, FALSE) \in RunRecord
        /\ Live(NewRun(j, i, "catchup", 0, FALSE))
    BY NewRunType DEF CoreInv
  <2>2. StateOK'
    BY <1>3, <2>1 DEF BootRuns, CoreInv, StateOK
  <2> QED
    BY <1>3, <2>2 DEF BootRuns, CoreInv, StoresOK
<1>4. CASE BootApplies(i)
  <2>1. StoresOK'
    BY <1>4, BootAppliesStore, SaveKeeps DEF CoreInv
  <2>2. StateOK'
    BY <1>4 DEF BootApplies, CoreInv, StateOK
  <2> QED
    BY <2>1, <2>2 DEF CoreInv
<1>5. CASE BootSettles(i)
  <2>1. StoresOK'
    BY <1>5, BootSettlesStore, SaveKeeps DEF CoreInv
  <2>2. timer' \in [Inst -> Nat \cup {None}]
    BY <1>5, BootSettlesStore, ArmTimerSets DEF CoreInv
  <2>3. StateOK'
    BY <1>5, <2>2 DEF BootSettles, CoreInv, StateOK
  <2> QED
    BY <2>1, <2>3 DEF CoreInv
<1> QED
  BY <1>1, <1>2, <1>3, <1>4, <1>5

LEMMA TickActionsKeepCore ==
  ASSUME CoreInv, NEW i \in Inst,
         \/ TimerFires(i) \/ CollectDue(i) \/ ApplyOutcomes(i) \/ TickEnds(i)
         \/ \E j \in Job : WorkerStarts(i, j)
  PROVE  CoreInv'
<1>1. CASE TimerFires(i)
  <2>1. now + MaxDelay \in Nat
    BY NowIsNat, CronAssumption DEF CoreInv
  <2>2. StateOK'
    BY <1>1, <2>1 DEF TimerFires, CoreInv, StateOK
  <2> QED
    BY <1>1, <2>2 DEF TimerFires, CoreInv, StoresOK
<1>2. CASE CollectDue(i)
  <2>1. StoresOK'
    BY <1>2, CollectDueStore, SaveKeeps DEF CoreInv
  <2> DEFINE due == {k \in DOMAIN disk : Runnable(disk[k], now)}
  <2>2. due \subseteq Job
    BY DEF CoreInv, StoresOK, GoodStore, IsStore
  <2>3. /\ batch' = [batch EXCEPT ![i] = due]
        /\ attached' = [attached EXCEPT ![i] = due # {}]
        /\ tick' = [tick EXCEPT ![i] = IF due = {} THEN "finally" ELSE "run"]
        /\ UNCHANGED <<now, cur, timer, boot, missed, deferred, runs, manuals>>
    BY <1>2 DEF CollectDue
  <2> HIDE DEF due
  <2>4. StateOK'
    BY <2>2, <2>3 DEF CoreInv, StateOK
  <2> QED
    BY <2>1, <2>4 DEF CoreInv
<1>3. ASSUME NEW j \in Job, WorkerStarts(i, j)
      PROVE  CoreInv'
  <2>1. NewRun(j, i, "tick", 0, FALSE) \in RunRecord /\ Live(NewRun(j, i, "tick", 0, FALSE))
    BY NewRunType DEF CoreInv
  <2>2. StateOK'
    BY <1>3, <2>1 DEF WorkerStarts, CoreInv, StateOK
  <2>3. StoresOK'
    BY <1>3, WorkerStartsStore DEF CoreInv, StoresOK
  <2> QED
    BY <2>2, <2>3 DEF CoreInv
<1>4. CASE ApplyOutcomes(i)
  <2>1. StoresOK'
    BY <1>4, ApplyOutcomesStore, SaveKeeps DEF CoreInv
  <2>2. StateOK'
    BY <1>4 DEF ApplyOutcomes, CoreInv, StateOK
  <2> QED
    BY <2>1, <2>2 DEF CoreInv
<1>5. CASE TickEnds(i)
  <2>1. timer' \in [Inst -> Nat \cup {None}]
    BY <1>5, ArmTimerSets DEF TickEnds, CoreInv, StoresOK
  <2>2. StateOK'
    BY <1>5, <2>1 DEF TickEnds, CoreInv, StateOK
  <2> QED
    BY <1>5, <2>2 DEF TickEnds, CoreInv, StoresOK
<1> QED
  BY <1>1, <1>2, <1>3, <1>4, <1>5

LEMMA EditsKeepCore ==
  ASSUME CoreInv, NEW S, GoodStore(S), Edited(S), UNCHANGED EditFrame
  PROVE  CoreInv'
<1>1. Save(cur, S) /\ ArmTimer(cur, S) /\ cur \in Inst
  BY DEF Edited, CoreInv, StateOK
<1>2. StoresOK'
  BY <1>1, SaveKeeps DEF CoreInv
<1>3. timer' \in [Inst -> Nat \cup {None}]
  BY <1>1, ArmTimerSets DEF CoreInv
<1>4. StateOK'
  BY <1>3 DEF EditFrame, CoreInv, StateOK
<1> QED
  BY <1>2, <1>4 DEF CoreInv

(* The edits of the table: add(), update() and remove().                    *)
Edits(j) ==
  \/ AddJob(j) \/ UpdateSchedule(j) \/ UpdateOther(j) \/ RemoveJob(j)
  \/ \E b \in BOOLEAN : UpdateEnabled(j, b)

LEMMA EditStore ==
  ASSUME CoreInv, NEW j \in Job, Edits(j)
  PROVE  (\E U : GoodStore(U) /\ Edited(U)) /\ UNCHANGED EditFrame /\ Serving
<1>1. UNCHANGED EditFrame /\ Serving
  BY Zenon DEF Edits, AddJob, UpdateSchedule, UpdateOther, RemoveJob, UpdateEnabled, Serves
<1>2. \E U : GoodStore(U) /\ Edited(U)
  <2>1. CASE AddJob(j)
    BY <2>1, AddJobStore
  <2>2. CASE UpdateSchedule(j)
    BY <2>2, UpdateScheduleStore
  <2>3. CASE UpdateOther(j)
    BY <2>3, UpdateOtherStore
  <2>4. CASE RemoveJob(j)
    BY <2>4, RemoveJobStore
  <2>5. ASSUME NEW b \in BOOLEAN, UpdateEnabled(j, b)
        PROVE  \E U : GoodStore(U) /\ Edited(U)
    BY <2>5, UpdateEnabledStore
  <2> QED
    BY <2>1, <2>2, <2>3, <2>4, <2>5 DEF Edits
<1> QED
  BY <1>1, <1>2

LEMMA ManualActionsKeepCore ==
  ASSUME CoreInv,
         \/ Read \/ InspectManualRun
         \/ \E j \in Job, b \in BOOLEAN : PrepareManualRun(j, b)
         \/ \E r \in runs : FinishManualRun(r) \/ RunEnds(r)
  PROVE  CoreInv'
<1>1. CASE Read
  <2>1. StoresOK'
    BY <1>1, ReadStore, SaveKeeps DEF CoreInv, StateOK, StoresOK
  <2>2. StateOK'
    BY <1>1 DEF Read, CoreInv, StateOK
  <2> QED
    BY <2>1, <2>2 DEF CoreInv
<1>2. CASE InspectManualRun
  <2>1. StoresOK'
    BY <1>2, InspectStore DEF InspectManualRun, CoreInv, StateOK, StoresOK
  <2>2. StateOK'
    BY <1>2 DEF InspectManualRun, CoreInv, StateOK
  <2> QED
    BY <2>1, <2>2 DEF CoreInv
<1>3. ASSUME NEW j \in Job, NEW b \in BOOLEAN, PrepareManualRun(j, b)
      PROVE  CoreInv'
  <2>1. StoresOK'
    BY <1>3, PrepareManualRunStore, SaveKeeps DEF CoreInv, StateOK
  <2>2. NewRun(j, cur, "manual", manuals, b) \in RunRecord
        /\ Live(NewRun(j, cur, "manual", manuals, b))
    BY NewRunType, ServiceAssumption DEF CoreInv, StateOK
  <2>3. /\ runs' = runs \cup {NewRun(j, cur, "manual", manuals, b)}
        /\ manuals' = manuals + 1 /\ manuals < MaxManual
        /\ UNCHANGED <<now, cur, timer, tick, batch, attached, boot, missed, deferred>>
    BY <1>3 DEF PrepareManualRun
  <2>4. StateOK'
    BY <2>2, <2>3, ServiceAssumption DEF CoreInv, StateOK
  <2> QED
    BY <2>1, <2>4 DEF CoreInv
<1>4. ASSUME NEW r \in runs, FinishManualRun(r)
      PROVE  CoreInv'
  <2>1. StoresOK'
    BY <1>4, FinishManualRunStore, SaveKeeps DEF CoreInv, StoresOK
  <2>2. timer' \in [Inst -> Nat \cup {None}]
    BY <1>4, FinishManualRunStore, ArmTimerSets DEF CoreInv, StateOK
  <2>3. attached' \in [Inst -> BOOLEAN]
    BY <1>4, FinishManualRunStore DEF CoreInv, StateOK
  <2>4. runs' = runs \ {r} /\ UNCHANGED <<now, cur, tick, batch, boot, missed, deferred, manuals>>
    BY <1>4 DEF FinishManualRun
  <2>5. StateOK'
    BY <2>2, <2>3, <2>4 DEF CoreInv, StateOK
  <2> QED
    BY <2>1, <2>5 DEF CoreInv
<1>5. ASSUME NEW r \in runs, RunEnds(r)
      PROVE  CoreInv'
  <2>1. PICK outcome \in Results :
          runs' = (runs \ {r}) \cup {[r EXCEPT !.outcome = outcome, !.end = now]}
    BY <1>5 DEF RunEnds
  <2>2. outcome \in Outcomes /\ now \in Nat /\ r \in RunRecord
    BY ServiceAssumption, NowIsNat DEF CoreInv, StateOK
  <2>3. Ended([r EXCEPT !.outcome = outcome, !.end = now])
    <3> DEFINE q == [r EXCEPT !.outcome = outcome, !.end = now]
    <3>1. q \in RunRecord /\ q.outcome = outcome /\ q.end = now
      BY <2>2 DEF RunRecord
    <3>2. outcome # "executing" /\ now # None
      BY <2>2, CronAssumption DEF Outcomes
    <3> HIDE DEF q
    <3>3. Ended(q)
      BY <3>1, <3>2 DEF Ended, Live
    <3> QED
      BY <3>3 DEF q
  <2>4. UNCHANGED <<now, disk, cur, instVars, manuals>>
    BY <1>5 DEF RunEnds
  <2>5. StateOK'
    BY <2>1, <2>3, <2>4 DEF CoreInv, StateOK, instVars, Ended
  <2> QED
    BY <2>4, <2>5 DEF CoreInv, StoresOK, instVars
<1> QED
  BY <1>1, <1>2, <1>3, <1>4, <1>5

LEMMA FaultsKeepCore ==
  ASSUME CoreInv, HotReload \/ Crash \/ TimePasses
  PROVE  CoreInv'
<1>1. CASE HotReload
  BY <1>1 DEF HotReload, CoreInv, StateOK, StoresOK
<1>2. CASE Crash
  <2>1. StateOK'
    BY <1>2 DEF Crash, CoreInv, StateOK
  <2>2. GoodStore(<<>>)
    BY DEF GoodStore, IsStore, Slotted
  <2>3. StoresOK'
    BY <1>2, <2>2 DEF Crash, CoreInv, StoresOK
  <2> QED
    BY <2>1, <2>3 DEF CoreInv
<1>3. CASE TimePasses
  <2>1. StateOK'
    BY <1>3, ServiceAssumption DEF TimePasses, CoreInv, StateOK, instVars
  <2> QED
    BY <1>3, <2>1 DEF TimePasses, CoreInv, StoresOK, instVars
<1> QED
  BY <1>1, <1>2, <1>3


LEMMA StepKeepsCore ==
  ASSUME CoreInv, Step
  PROVE  CoreInv'
<1>1. ASSUME NEW i \in Inst, Service(i) \/ TimerFires(i)
      PROVE  CoreInv'
  BY <1>1, BootActionsKeepCore, TickActionsKeepCore DEF Service
<1>2. ASSUME NEW j \in Job, Edits(j)
      PROVE  CoreInv'
  BY <1>2, EditStore, EditsKeepCore
<1>3. CASE \/ Read \/ InspectManualRun
           \/ \E j \in Job, b \in BOOLEAN : PrepareManualRun(j, b)
           \/ \E r \in runs : FinishManualRun(r) \/ RunEnds(r)
  BY <1>3, ManualActionsKeepCore
<1>4. CASE HotReload \/ Crash \/ TimePasses
  BY <1>4, FaultsKeepCore
<1> QED
  BY <1>1, <1>2, <1>3, <1>4, Zenon DEF Step, Edits

-----------------------------------------------------------------------------
(* The timer covers every slot.                                             *)

(* A timer set for w wakes the scheduler in time for the slots of S.        *)
Covered(S, w, t) ==
  \A j \in DOMAIN S :
    S[j].enabled /\ S[j].next # None => w # None /\ w <= Later(S[j].next, t + 1)

AtRest == boot[cur] = "up" /\ tick[cur] = "idle"

LEMMA CoversIffCovered ==
  TimerCoversSlots <=> (AtRest => Covered(mem[cur], timer[cur], now))
BY DEF TimerCoversSlots, AtRest, Covered

LEMMA ArmedIsCovered ==
  ASSUME CoreInv, NEW S, GoodStore(S), ArmTimer(cur, S), mem'[cur] = S,
         UNCHANGED <<now, cur>>
  PROVE  TimerCoversSlots'
<1>1. timer'[cur] = WakeAt(S, now) /\ now \in Nat
  BY ArmTimerSets, NowIsNat DEF CoreInv, StateOK
<1>2. \A j \in DOMAIN S :
        S[j].enabled /\ S[j].next # None =>
          timer'[cur] # None /\ timer'[cur] <= Later(S[j].next, now + 1)
  BY <1>1, WakeCovers DEF GoodStore
<1> QED
  BY <1>2 DEF TimerCoversSlots

LEMMA QuietIsCovered ==
  ASSUME CoreInv, TimerCoversSlots, AtRest' => AtRest, cur' = cur,
         timer'[cur] = timer[cur], now' \in Nat, now <= now',
         DOMAIN mem'[cur] = DOMAIN mem[cur],
         \A j \in DOMAIN mem[cur] :
           /\ mem'[cur][j].enabled = mem[cur][j].enabled
           /\ mem[cur][j].enabled => mem'[cur][j].next = mem[cur][j].next
  PROVE  TimerCoversSlots'
<1> SUFFICES ASSUME AtRest', NEW j \in DOMAIN mem[cur],
                    mem'[cur][j].enabled, mem'[cur][j].next # None
             PROVE  timer[cur] # None /\ timer[cur] <= Later(mem[cur][j].next, now' + 1)
  BY DEF TimerCoversSlots, AtRest
<1>1. timer[cur] # None /\ timer[cur] <= Later(mem[cur][j].next, now + 1)
  BY DEF TimerCoversSlots, AtRest
<1>2. mem[cur][j].next \in Nat /\ now \in Nat /\ timer[cur] \in Nat
  BY <1>1, NowIsNat DEF CoreInv, StateOK, StoresOK, GoodStore, IsStore, JobState
<1> QED
  BY <1>1, <1>2

LEMMA SaveSets ==
  ASSUME CoreInv, NEW i \in Inst, NEW S, Save(i, S)
  PROVE  mem'[i] = S /\ disk' = S /\ \A k \in Inst \ {i} : mem'[k] = mem[k]
BY DEF Save, CoreInv, StoresOK

(* An instance at work leaves the memory of the others alone.               *)
LEMMA OthersUntouched ==
  ASSUME CoreInv, NEW i \in Inst, Service(i) \/ TimerFires(i), NEW k \in Inst \ {i}
  PROVE  /\ mem'[k] = mem[k] /\ timer'[k] = timer[k] /\ tick'[k] = tick[k]
         /\ boot'[k] = boot[k] /\ UNCHANGED <<now, cur>>
<1>1. CASE BootClear(i) \/ BootApplies(i) \/ BootSettles(i)
  BY <1>1, SaveSets DEF BootClear, BootApplies, BootSettles, ArmTimer, CoreInv, StateOK
<1>2. CASE BootPlan(i)
  <2>1. mem'[k] = mem[k]
    BY <1>2, BootPlanStore, SaveSets
  <2>2. boot'[k] = boot[k]
    <3>1. PICK s : boot' = [boot EXCEPT ![i] = s]
      BY <1>2 DEF BootPlan
    <3> QED
      BY <3>1 DEF CoreInv, StateOK
  <2> QED
    BY <1>2, <2>1, <2>2 DEF BootPlan
<1>3. CASE \E j \in Job : BootRuns(i, j)
  BY <1>3 DEF BootRuns
<1>4. ASSUME NEW j \in Job, WorkerStarts(i, j)
      PROVE  /\ mem'[k] = mem[k] /\ timer'[k] = timer[k] /\ tick'[k] = tick[k]
             /\ boot'[k] = boot[k] /\ UNCHANGED <<now, cur>>
  BY <1>4 DEF WorkerStarts, CoreInv, StoresOK
<1>5. CASE CollectDue(i) \/ ApplyOutcomes(i)
  BY <1>5, SaveSets DEF CollectDue, ApplyOutcomes, CoreInv, StateOK
<1>6. CASE TickEnds(i) \/ TimerFires(i)
  BY <1>6 DEF TickEnds, TimerFires, ArmTimer, CoreInv, StateOK
<1> QED
  BY <1>1, <1>2, <1>3, <1>4, <1>5, <1>6 DEF Service

LEMMA ServiceCovers ==
  ASSUME CoreInv, TimerCoversSlots, NEW i \in Inst, Service(i) \/ TimerFires(i)
  PROVE  TimerCoversSlots'
<1>1. CASE i # cur
  BY <1>1, OthersUntouched DEF TimerCoversSlots, CoreInv, StateOK
<1>2. CASE i = cur
  <2>1. CASE BootClear(i) \/ BootPlan(i) \/ BootApplies(i) \/ \E j \in Job : BootRuns(i, j)
    <3>1. boot'[cur] # "up" /\ cur' = cur
      <4>1. CASE BootClear(i)
        BY <1>2, <4>1 DEF BootClear, CoreInv, StateOK
      <4>2. CASE BootPlan(i)
        BY <1>2, <4>2, BootPlanStore DEF BootPlan
      <4>3. CASE BootApplies(i)
        BY <1>2, <4>3 DEF BootApplies, CoreInv, StateOK
      <4>4. CASE \E j \in Job : BootRuns(i, j)
        BY <1>2, <4>4 DEF BootRuns
      <4> QED
        BY <2>1, <4>1, <4>2, <4>3, <4>4
    <3> QED
      BY <3>1 DEF TimerCoversSlots
  <2>2. CASE BootSettles(i)
    <3>1. PICK U : GoodStore(U) /\ Save(i, U) /\ ArmTimer(i, U)
      BY <2>2, BootSettlesStore
    <3>2. UNCHANGED <<now, cur>>
      BY <2>2 DEF BootSettles
    <3> QED
      BY <1>2, <3>1, <3>2, SaveSets, ArmedIsCovered
  <2>3. CASE CollectDue(i) \/ ApplyOutcomes(i) \/ TimerFires(i) \/ \E j \in Job : WorkerStarts(i, j)
    <3>1. tick'[cur] # "idle" /\ cur' = cur
      BY <1>2, <2>3 DEF CollectDue, ApplyOutcomes, TimerFires, WorkerStarts, CoreInv, StateOK
    <3> QED
      BY <3>1 DEF TimerCoversSlots
  <2>4. CASE TickEnds(i)
    <3>1. ArmTimer(cur, mem[cur]) /\ mem' = mem /\ UNCHANGED <<now, cur>>
      BY <1>2, <2>4 DEF TickEnds
    <3> QED
      BY <3>1, ArmedIsCovered DEF CoreInv, StateOK, StoresOK
  <2> QED
    BY <2>1, <2>2, <2>3, <2>4 DEF Service
<1> QED
  BY <1>1, <1>2

LEMMA CallersCover ==
  ASSUME CoreInv, TimerCoversSlots,
         \/ Read \/ InspectManualRun
         \/ \E j \in Job : Edits(j) \/ \E b \in BOOLEAN : PrepareManualRun(j, b)
  PROVE  TimerCoversSlots'
<1>1. /\ cur \in Inst /\ now \in Nat /\ GoodStore(mem[cur])
  BY NowIsNat DEF CoreInv, StateOK, StoresOK
<1>2. CASE Read
  <2>1. UNCHANGED <<now, cur, timer, tick, boot>>
    BY <1>2 DEF Read
  <2>2. CASE UNCHANGED <<mem, disk>>
    BY <2>1, <2>2 DEF TimerCoversSlots
  <2>3. ASSUME NEW U, Save(cur, U), Tended(mem[cur], U, now),
               \A j \in DOMAIN mem[cur] : mem[cur][j].enabled => U[j].next = mem[cur][j].next
        PROVE  TimerCoversSlots'
    BY <1>1, <2>1, <2>3, SaveSets, QuietIsCovered DEF Tended, SameJob, AtRest
  <2> QED
    BY <1>2, <2>2, <2>3, ReadStore
<1>3. CASE InspectManualRun
  <2>1. UNCHANGED <<now, cur, timer, tick, boot>>
    BY <1>3 DEF InspectManualRun
  <2>2. PICK U : /\ mem' = [mem EXCEPT ![cur] = U] /\ Tended(mem[cur], U, now)
                 /\ \A j \in DOMAIN mem[cur] :
                      mem[cur][j].enabled => U[j].next = mem[cur][j].next
    BY <1>3, InspectStore
  <2>3. mem'[cur] = U
    BY <1>1, <2>2 DEF CoreInv, StoresOK
  <2> QED
    BY <1>1, <2>1, <2>2, <2>3, QuietIsCovered DEF Tended, SameJob, AtRest
<1>4. ASSUME NEW j \in Job, Edits(j)
      PROVE  TimerCoversSlots'
  <2>1. PICK U : GoodStore(U) /\ Edited(U)
    BY <1>4, EditStore
  <2>2. UNCHANGED <<now, cur>>
    BY <1>4, EditStore DEF EditFrame
  <2> QED
    BY <1>1, <2>1, <2>2, SaveSets, ArmedIsCovered DEF Edited
<1>5. ASSUME NEW j \in Job, NEW b \in BOOLEAN, PrepareManualRun(j, b)
      PROVE  TimerCoversSlots'
  <2>1. UNCHANGED <<now, cur, timer, tick, boot>>
    BY <1>5 DEF PrepareManualRun
  <2>2. PICK S : /\ GoodStore(S) /\ Tended(mem[cur], S, now) /\ Save(cur, Marked(S, {j}))
                 /\ \A k \in DOMAIN mem[cur] :
                      mem[cur][k].enabled => S[k].next = mem[cur][k].next
    BY <1>5, PrepareManualRunStore
  <2>3. mem'[cur] = Marked(S, {j}) /\ DOMAIN S = DOMAIN mem[cur]
    BY <1>1, <2>2, SaveSets DEF Tended
  <2>4. /\ DOMAIN Marked(S, {j}) = DOMAIN S
        /\ \A k \in DOMAIN S : /\ Marked(S, {j})[k].enabled = S[k].enabled
                               /\ Marked(S, {j})[k].next = S[k].next
    BY <1>1, <2>2, MarkedFacts DEF GoodStore, SameJob
  <2>5. \A k \in DOMAIN mem[cur] : S[k].enabled = mem[cur][k].enabled
    BY <2>2 DEF Tended, SameJob
  <2>6. /\ DOMAIN mem'[cur] = DOMAIN mem[cur]
        /\ \A k \in DOMAIN mem[cur] :
             /\ mem'[cur][k].enabled = mem[cur][k].enabled
             /\ mem[cur][k].enabled => mem'[cur][k].next = mem[cur][k].next
    BY <2>2, <2>3, <2>4, <2>5
  <2> QED
    BY <1>1, <2>1, <2>6, QuietIsCovered DEF AtRest
<1> QED
  BY <1>2, <1>3, <1>4, <1>5

LEMMA RunsAndFaultsCover ==
  ASSUME CoreInv, TimerCoversSlots,
         \/ \E r \in runs : FinishManualRun(r) \/ RunEnds(r)
         \/ HotReload \/ Crash \/ TimePasses
  PROVE  TimerCoversSlots'
<1>1. ASSUME NEW r \in runs, FinishManualRun(r)
      PROVE  TimerCoversSlots'
  <2>1. UNCHANGED <<now, cur, tick, boot>> /\ r.inst \in Inst
    BY <1>1, FinishManualRunStore DEF FinishManualRun
  <2>2. CASE UNCHANGED <<mem, timer>>
    BY <2>1, <2>2 DEF TimerCoversSlots
  <2>3. ASSUME NEW U, GoodStore(U), Save(r.inst, U), ArmTimer(r.inst, U)
        PROVE  TimerCoversSlots'
    <3>1. CASE r.inst = cur
      BY <2>1, <2>3, <3>1, SaveSets, ArmedIsCovered
    <3>2. CASE r.inst # cur
      <4>1. mem'[cur] = mem[cur] /\ timer'[cur] = timer[cur]
        BY <2>1, <2>3, <3>2, SaveSets, ArmTimerSets DEF CoreInv, StateOK
      <4> QED
        BY <2>1, <4>1 DEF TimerCoversSlots
    <3> QED
      BY <3>1, <3>2
  <2> QED
    BY <1>1, <2>2, <2>3, FinishManualRunStore
<1>2. CASE \E r \in runs : RunEnds(r)
  BY <1>2 DEF RunEnds, instVars, TimerCoversSlots
<1>3. CASE HotReload \/ Crash
  <2>1. boot'[cur'] = "clear"
    BY <1>3 DEF HotReload, Crash, CoreInv, StateOK
  <2> QED
    BY <2>1 DEF TimerCoversSlots
<1>4. CASE TimePasses
  <2>1. now' = now + 1 /\ UNCHANGED <<cur, mem, timer, tick, boot>> /\ now \in Nat
    BY <1>4, NowIsNat DEF TimePasses, instVars, CoreInv
  <2> QED
    BY <2>1, QuietIsCovered DEF AtRest
<1> QED
  BY <1>1, <1>2, <1>3, <1>4

LEMMA StepCovers ==
  ASSUME CoreInv, TimerCoversSlots, Step
  PROVE  TimerCoversSlots'
BY ServiceCovers, CallersCover, RunsAndFaultsCover, Zenon DEF Step, Edits

LEMMA InitCore ==
  ASSUME Init
  PROVE  CoreInv /\ TimerCoversSlots
<1>1. InitialJobs \subseteq Job /\ 1 \in Inst /\ now = 0 /\ now \in Nat
  BY ServiceAssumption DEF Init, Inst
<1>2. StateOK
  BY <1>1, ServiceAssumption DEF Init, StateOK
<1>3. GoodStore(disk)
  <2>1. DOMAIN disk = InitialJobs /\ \A j \in InitialJobs : disk[j] = CreateJob(j)
    BY DEF Init
  <2>2. \A j \in Job : CreateJob(j) \in JobState /\ CreateJob(j).next # None
    BY <1>1, CreateJobFacts
  <2> QED
    BY <1>1, <2>1, <2>2 DEF GoodStore, IsStore, Slotted
<1>4. GoodStore(<<>>)
  BY DEF GoodStore, IsStore, Slotted
<1>5. StoresOK
  BY <1>3, <1>4 DEF Init, StoresOK
<1>6. TimerCoversSlots
  BY <1>1 DEF Init, TimerCoversSlots
<1> QED
  BY <1>2, <1>5, <1>6 DEF CoreInv

(* TypeOK. *)
LEMMA CoreIsTyped ==
  ASSUME CoreInv, forfeited \subseteq Job
  PROVE  TypeOK
BY DEF CoreInv, StateOK, StoresOK, GoodStore, TypeOK

LEMMA Stutter ==
  ASSUME CoreInv, TimerCoversSlots, UNCHANGED vars
  PROVE  CoreInv' /\ TimerCoversSlots'
BY DEF vars, state, instVars, CoreInv, StateOK, StoresOK, TimerCoversSlots

-----------------------------------------------------------------------------
(* The instances, in the order of their creation.                           *)

Dormant(i) ==
  /\ timer[i] = None /\ tick[i] = "idle"
  /\ batch[i] = {} /\ missed[i] = {} /\ deferred[i] = {}
  /\ \A r \in runs : r.inst # i

(* Nothing is at work for an instance that does not exist or has yet to     *)
(* take its first lock, and a batch belongs to a tick.                      *)
InstancesInOrder ==
  /\ boot[cur] # "none"
  /\ \A i \in Inst : i > cur => boot[i] = "none"
  /\ \A i \in Inst : boot[i] \in {"none", "clear"} => Dormant(i)
  /\ \A i \in Inst : tick[i] # "run" => batch[i] = {}

LEMMA ServiceFrame ==
  ASSUME CoreInv, NEW i \in Inst, Service(i) \/ TimerFires(i), NEW k \in Inst \ {i}
  PROVE  batch'[k] = batch[k] /\ missed'[k] = missed[k] /\ deferred'[k] = deferred[k]
<1>1. CASE BootClear(i) \/ BootApplies(i) \/ BootSettles(i)
  BY <1>1 DEF BootClear, BootApplies, BootSettles, CoreInv, StateOK
<1>2. CASE BootPlan(i)
  <2>1. PICK s, t : missed' = [missed EXCEPT ![i] = s] /\ deferred' = [deferred EXCEPT ![i] = t]
    BY <1>2 DEF BootPlan
  <2> QED
    BY <1>2, <2>1 DEF BootPlan, CoreInv, StateOK
<1>3. CASE \E j \in Job : BootRuns(i, j) \/ WorkerStarts(i, j)
  BY <1>3 DEF BootRuns, WorkerStarts, CoreInv, StateOK
<1>4. CASE CollectDue(i)
  <2>1. PICK s : batch' = [batch EXCEPT ![i] = s]
    BY <1>4 DEF CollectDue
  <2> QED
    BY <1>4, <2>1 DEF CollectDue, CoreInv, StateOK
<1>5. CASE ApplyOutcomes(i) \/ TickEnds(i) \/ TimerFires(i)
  BY <1>5 DEF ApplyOutcomes, TickEnds, TimerFires
<1> QED
  BY <1>1, <1>2, <1>3, <1>4, <1>5 DEF Service

LEMMA ServiceRuns ==
  ASSUME CoreInv, NEW i \in Inst, Service(i) \/ TimerFires(i)
  PROVE  \A r \in runs' : r \in runs \/ r.inst = i
<1>1. ASSUME NEW j \in Job, BootRuns(i, j) \/ WorkerStarts(i, j)
      PROVE  \A r \in runs' : r \in runs \/ r.inst = i
  <2>1. NewRun(j, i, "catchup", 0, FALSE).inst = i /\ NewRun(j, i, "tick", 0, FALSE).inst = i
    BY DEF NewRun
  <2> QED
    BY <1>1, <2>1 DEF BootRuns, WorkerStarts
<1>2. CASE BootApplies(i) \/ ApplyOutcomes(i)
  BY <1>2 DEF BootApplies, ApplyOutcomes
<1>3. CASE \/ BootClear(i) \/ BootPlan(i) \/ BootSettles(i)
           \/ CollectDue(i) \/ TickEnds(i) \/ TimerFires(i)
  BY <1>3 DEF BootClear, BootPlan, BootSettles, CollectDue, TickEnds, TimerFires
<1> QED
  BY <1>1, <1>2, <1>3 DEF Service

LEMMA ServiceAwake ==
  ASSUME CoreInv, InstancesInOrder, NEW i \in Inst, Service(i) \/ TimerFires(i)
  PROVE  /\ boot[i] # "none" /\ boot'[i] \notin {"none", "clear"}
         /\ tick'[i] # "run" => batch'[i] = {}
<1>1. CASE BootClear(i) \/ BootApplies(i) \/ BootSettles(i)
  BY <1>1 DEF BootClear, BootApplies, BootSettles, CoreInv, StateOK, InstancesInOrder
<1>2. CASE BootPlan(i)
  BY <1>2, BootPlanStore DEF BootPlan, InstancesInOrder
<1>3. ASSUME NEW j \in Job, BootRuns(i, j) \/ WorkerStarts(i, j)
      PROVE  /\ boot[i] # "none" /\ boot'[i] \notin {"none", "clear"}
             /\ tick'[i] # "run" => batch'[i] = {}
  BY <1>3 DEF BootRuns, WorkerStarts, CoreInv, StateOK, InstancesInOrder, Dormant
<1>4. CASE CollectDue(i)
  <2>1. tick'[i] # "run" => batch'[i] = {}
    BY <1>4, CollectDueStore
  <2>2. tick[i] = "collect" /\ boot' = boot
    BY <1>4 DEF CollectDue
  <2> QED
    BY <2>1, <2>2 DEF CoreInv, StateOK, InstancesInOrder, Dormant
<1>5. CASE ApplyOutcomes(i) \/ TickEnds(i)
  BY <1>5 DEF ApplyOutcomes, TickEnds, CoreInv, StateOK, InstancesInOrder, Dormant
<1>6. CASE TimerFires(i)
  BY <1>6 DEF TimerFires, CoreInv, StateOK, InstancesInOrder, Dormant
<1> QED
  BY <1>1, <1>2, <1>3, <1>4, <1>5, <1>6 DEF Service

LEMMA ServiceKeepsOrder ==
  ASSUME CoreInv, InstancesInOrder, NEW i \in Inst, Service(i) \/ TimerFires(i)
  PROVE  InstancesInOrder'
<1>1. /\ \A k \in Inst \ {i} :
           /\ timer'[k] = timer[k] /\ tick'[k] = tick[k] /\ boot'[k] = boot[k]
           /\ batch'[k] = batch[k] /\ missed'[k] = missed[k] /\ deferred'[k] = deferred[k]
      /\ \A r \in runs' : r \in runs \/ r.inst = i
      /\ boot[i] # "none" /\ boot'[i] \notin {"none", "clear"}
      /\ tick'[i] # "run" => batch'[i] = {}
  BY OthersUntouched, ServiceFrame, ServiceRuns, ServiceAwake
<1>2. cur' = cur /\ cur \in Inst
  BY DEF Service, BootClear, BootPlan, BootRuns, BootApplies, BootSettles, TimerFires,
         CollectDue, WorkerStarts, ApplyOutcomes, TickEnds, CoreInv, StateOK
<1> QED
  BY <1>1, <1>2 DEF InstancesInOrder, Dormant

(* Whatever changes at most the timer of an instance that is up, and        *)
(* executions of instances that are.                                        *)
LEMMA CallersKeepOrder ==
  ASSUME CoreInv, InstancesInOrder,
         UNCHANGED <<cur, tick, batch, boot, missed, deferred>>,
         \A k \in Inst : boot[k] \in {"none", "clear"} =>
           timer'[k] = timer[k] /\ \A r \in runs' : r.inst # k
  PROVE  InstancesInOrder'
BY DEF InstancesInOrder, Dormant

LEMMA StepKeepsOrder ==
  ASSUME CoreInv, InstancesInOrder, Step
  PROVE  InstancesInOrder'
<1> USE DEF CoreInv, StateOK
<1>1. ASSUME NEW i \in Inst, Service(i) \/ TimerFires(i)
      PROVE  InstancesInOrder'
  BY <1>1, ServiceKeepsOrder
<1>2. ASSUME NEW r \in runs, RunEnds(r)
      PROVE  InstancesInOrder'
  <2>1. PICK outcome : runs' = (runs \ {r}) \cup {[r EXCEPT !.outcome = outcome, !.end = now]}
    BY <1>2 DEF RunEnds
  <2>2. \A q \in runs' : \E p \in runs : q.inst = p.inst
    BY <2>1 DEF RunRecord
  <2> QED
    BY <1>2, <2>2, CallersKeepOrder DEF RunEnds, instVars, InstancesInOrder, Dormant
<1>3. ASSUME NEW r \in runs, FinishManualRun(r)
      PROVE  InstancesInOrder'
  <2>1. \A k \in Inst \ {r.inst} : timer'[k] = timer[k]
    BY <1>3, FinishManualRunStore, ArmTimerSets
  <2>2. runs' = runs \ {r} /\ UNCHANGED <<cur, tick, batch, boot, missed, deferred>>
    BY <1>3 DEF FinishManualRun
  <2> QED
    BY <2>1, <2>2, CallersKeepOrder DEF InstancesInOrder, Dormant
<1>4. ASSUME NEW j \in Job, Edits(j)
      PROVE  InstancesInOrder'
  <2>1. PICK U : GoodStore(U) /\ ArmTimer(cur, U) /\ UNCHANGED EditFrame /\ Serving
    BY <1>4, EditStore DEF Edited
  <2>2. \A k \in Inst \ {cur} : timer'[k] = timer[k]
    BY <2>1, ArmTimerSets
  <2> QED
    BY <2>1, <2>2, CallersKeepOrder DEF EditFrame, Serving, InstancesInOrder, Dormant
<1>5. ASSUME NEW j \in Job, NEW b \in BOOLEAN, PrepareManualRun(j, b)
      PROVE  InstancesInOrder'
  <2>1. \A r \in runs' : r \in runs \/ r.inst = cur
    BY <1>5, NewRunType, ServiceAssumption DEF PrepareManualRun
  <2> QED
    BY <1>5, <2>1, CallersKeepOrder DEF PrepareManualRun, Serves, Serving, InstancesInOrder, Dormant
<1>6. CASE Read \/ InspectManualRun
  BY <1>6, CallersKeepOrder DEF Read, InspectManualRun, InstancesInOrder, Dormant
<1>7. CASE HotReload
  BY <1>7 DEF HotReload, Inst, InstancesInOrder, Dormant
<1>8. CASE Crash
  <2>1. /\ cur' = cur + 1 /\ runs' = {}
        /\ boot' = [i \in Inst |-> IF i = cur + 1 THEN "clear" ELSE "none"]
        /\ \A i \in Inst : /\ timer'[i] = None /\ tick'[i] = "idle" /\ batch'[i] = {}
                           /\ missed'[i] = {} /\ deferred'[i] = {}
    BY <1>8 DEF Crash
  <2>2. cur + 1 \in Inst
    BY <1>8 DEF Crash
  <2> QED
    BY <2>1, <2>2 DEF Inst, InstancesInOrder, Dormant
<1>9. CASE TimePasses
  BY <1>9 DEF TimePasses, instVars, InstancesInOrder, Dormant
<1> QED
  BY <1>1, <1>2, <1>3, <1>4, <1>5, <1>6, <1>7, <1>8, <1>9, Zenon DEF Step, Edits

-----------------------------------------------------------------------------
(* One instance serves the store: markers and claims belong together.       *)

(* The three ways a job can be claimed.                                     *)
Executes(j) == \E r \in runs : r.job = j
Queued(j) == j \in batch[cur]
Planned(j) == boot[cur] = "catchup" /\ j \in missed[cur]

Solo(j) ==
  /\ \A r, q \in runs : r.job = j /\ q.job = j => r = q
  /\ ~(Executes(j) /\ Queued(j)) /\ ~(Executes(j) /\ Planned(j)) /\ ~(Queued(j) /\ Planned(j))

(* The marker is there for whoever looks at the job, in memory or on disk.  *)
Guarded(j) == \A S \in {disk, mem[cur]} : j \in DOMAIN S => S[j].running # None

ForfeitsKnown == \A j \in Job : Reserved(j) /\ Unprotected(j) => j \in forfeited

(* A claimed job whose marker is not forfeited has one claim and a marker.  *)
ClaimsExclusive == \A j \in Job \ forfeited : Reserved(j) => Solo(j) /\ Guarded(j)

(* A marker is there for a claim.                                           *)
MarkersBacked ==
  boot[cur] # "clear" =>
    \A S \in {disk, mem[cur]} : \A j \in DOMAIN S : S[j].running # None => Reserved(j)

(* Memory and disk hold the same jobs, with the same slots while enabled.   *)
MemoryAgrees ==
  boot[cur] # "clear" =>
    /\ DOMAIN mem[cur] = DOMAIN disk
    /\ \A j \in DOMAIN disk :
         /\ SameJob(disk[j], mem[cur][j])
         /\ disk[j].enabled => mem[cur][j].next = disk[j].next

HereInv ==
  /\ CoreInv /\ InstancesInOrder /\ ForfeitsKnown
  /\ Alone /\ ClaimsExclusive /\ MarkersBacked /\ MemoryAgrees

(* What a step has to show of the next state; Next settles forfeited.       *)
HereStep ==
  /\ \A j \in Job \ forfeited : Reserved(j)' /\ ~Unprotected(j)' => Solo(j)' /\ Guarded(j)'
  /\ MarkersBacked' /\ MemoryAgrees'

LEMMA AllHere ==
  ASSUME HereInv
  PROVE  /\ cur \in Inst /\ now \in Nat /\ GoodStore(disk) /\ GoodStore(mem[cur])
         /\ \A i \in Inst \ {cur} : Dormant(i)
         /\ \A r \in runs : r.inst = cur /\ r.job \in Job
         /\ \A j \in Job : Reserved(j) <=> Executes(j) \/ Queued(j) \/ Planned(j)
<1>1. /\ cur \in Inst /\ now \in Nat /\ GoodStore(disk) /\ GoodStore(mem[cur])
      /\ \A r \in runs : r.inst \in Inst /\ r.job \in Job
  BY NowIsNat DEF HereInv, CoreInv, StateOK, StoresOK, RunRecord
<1>2. \A i \in Inst \ {cur} : Dormant(i) /\ boot[i] = "none"
  BY DEF HereInv, Alone, InstancesInOrder
<1>3. \A r \in runs : r.inst = cur
  BY <1>1, <1>2 DEF Dormant
<1>4. \A j \in Job : Reserved(j) <=> Executes(j) \/ Queued(j) \/ Planned(j)
  BY <1>1, <1>2 DEF Reserved, Executes, Queued, Planned, Dormant
<1> QED
  BY <1>1, <1>2, <1>3, <1>4

(* The marker of a claimed job stands until its job is disabled or it has   *)
(* grown stale.                                                             *)
LEMMA ClaimIsHeld ==
  ASSUME HereInv, NEW j \in Job \ forfeited, Reserved(j)
  PROVE  /\ Solo(j)
         /\ \A S \in {disk, mem[cur]} :
              j \in DOMAIN S =>
                S[j].running # None /\ S[j].enabled /\ Normalized(S[j], now) = S[j]
BY DEF HereInv, ClaimsExclusive, ForfeitsKnown, Guarded, Unprotected

LEMMA SavedHere ==
  ASSUME HereInv, NEW U, Save(cur, U), cur' = cur,
         \A j \in Job \ forfeited :
           Reserved(j)' /\ (j \in DOMAIN U => U[j].enabled) =>
             Solo(j)' /\ (j \in DOMAIN U => U[j].running # None),
         \A j \in DOMAIN U : U[j].running # None => Reserved(j)'
  PROVE  HereStep
<1>1. disk' = U /\ mem'[cur] = U
  BY SaveSets, AllHere DEF HereInv
<1>2. ASSUME NEW j \in Job \ forfeited, Reserved(j)', ~Unprotected(j)'
      PROVE  Solo(j)' /\ Guarded(j)'
  <2>1. j \in DOMAIN U => U[j].enabled
    BY <1>1, <1>2 DEF Unprotected
  <2> QED
    BY <1>1, <1>2, <2>1 DEF Guarded
<1>3. MarkersBacked'
  BY <1>1 DEF MarkersBacked
<1>4. MemoryAgrees'
  BY <1>1 DEF MemoryAgrees, SameJob
<1> QED
  BY <1>2, <1>3, <1>4 DEF HereStep

(* The claims stay, and the saved table keeps the markers of S.             *)
LEMMA MaintainedHere ==
  ASSUME HereInv, boot[cur] # "clear", NEW S \in {disk, mem[cur]}, NEW U, IsStore(U),
         Save(cur, U), cur' = cur,
         \A j \in Job : (Reserved(j)' <=> Reserved(j)) /\ (Solo(j) => Solo(j)'),
         \A j \in DOMAIN U :
           \/ /\ j \in DOMAIN S
              /\ U[j].running # None => S[j].running # None
              /\ S[j].enabled /\ Normalized(S[j], now) = S[j] /\ U[j].enabled =>
                   U[j].running = S[j].running
           \/ U[j].running = None /\ ~Reserved(j)
  PROVE  HereStep
<1>1. ASSUME NEW j \in Job \ forfeited, Reserved(j)', j \in DOMAIN U => U[j].enabled
      PROVE  Solo(j)' /\ (j \in DOMAIN U => U[j].running # None)
  <2>1. /\ Reserved(j) /\ Solo(j)
        /\ j \in DOMAIN S =>
             S[j].running # None /\ S[j].enabled /\ Normalized(S[j], now) = S[j]
    BY <1>1, ClaimIsHeld
  <2> QED
    BY <1>1, <2>1
<1>2. ASSUME NEW j \in DOMAIN U, U[j].running # None
      PROVE  Reserved(j)'
  <2>1. j \in DOMAIN S /\ S[j].running # None
    BY <1>2
  <2> QED
    BY <2>1 DEF HereInv, MarkersBacked, IsStore
<1> QED
  BY <1>1, <1>2, SavedHere

LEMMA SameClaims ==
  ASSUME UNCHANGED <<cur, runs, batch, boot, missed>>, NEW j
  PROVE  /\ Reserved(j)' <=> Reserved(j)
         /\ Solo(j)' <=> Solo(j)
BY DEF Reserved, Solo, Executes, Queued, Planned

LEMMA EditsHere ==
  ASSUME HereInv, NEW j \in Job, Edits(j)
  PROVE  HereStep
<1>1. UNCHANGED <<now, cur, runs, batch, boot, missed>> /\ boot[cur] # "clear"
  BY EditStore DEF EditFrame, Serving, HereInv
<1>2. \A k \in Job : (Reserved(k)' <=> Reserved(k)) /\ (Solo(k) => Solo(k)')
  BY <1>1, SameClaims
<1>3. IsStore(mem[cur]) /\ now \in Nat /\ CoreInv
  BY AllHere DEF GoodStore, HereInv
<1>4. CASE \/ UpdateSchedule(j) \/ UpdateOther(j)
           \/ \E b \in BOOLEAN : UpdateEnabled(j, b)
  <2>1. PICK U : GoodStore(U) /\ Edited(U) /\ EditOf(mem[cur], U, j)
    BY <1>3, <1>4, UpdateScheduleStore, UpdateOtherStore, UpdateEnabledStore
  <2>2. \A k \in DOMAIN U :
          /\ k \in DOMAIN mem[cur]
          /\ U[k].running # None => mem[cur][k].running # None
          /\ U[k].enabled => U[k].running = mem[cur][k].running
    BY <2>1 DEF EditOf, GoodStore, IsStore
  <2> QED
    BY <1>1, <1>2, <2>1, <2>2, MaintainedHere DEF Edited, GoodStore
<1>5. CASE RemoveJob(j)
  <2>1. PICK U : /\ GoodStore(U) /\ Edited(U) /\ DOMAIN U = DOMAIN mem[cur] \ {j}
                 /\ \A k \in DOMAIN U : U[k] = mem[cur][k]
    BY <1>3, <1>5, RemoveJobStore
  <2> QED
    BY <1>1, <1>2, <2>1, MaintainedHere DEF Edited, GoodStore
<1>6. CASE AddJob(j)
  <2>1. PICK S, U : /\ GoodStore(U) /\ Edited(U) /\ IsStore(S) /\ Tended(S, U, now)
                    /\ DOMAIN S = DOMAIN mem[cur] \cup {j}
                    /\ \A k \in DOMAIN mem[cur] \ {j} : S[k] = mem[cur][k]
                    /\ S[j].running = None
    BY <1>3, <1>6, AddJobStore
  <2>2. ~Reserved(j)
    BY <1>6 DEF AddJob
  <2>3. \A k \in DOMAIN U :
          /\ k \in DOMAIN S
          /\ U[k].running # None => S[k].running # None
          /\ S[k].enabled /\ Normalized(S[k], now) = S[k] => U[k].running = S[k].running
    BY <1>3, <2>1, MarkerSurvives DEF Tended
  <2>4. \A k \in DOMAIN U :
          \/ /\ k \in DOMAIN mem[cur]
             /\ U[k].running # None => mem[cur][k].running # None
             /\ mem[cur][k].enabled /\ Normalized(mem[cur][k], now) = mem[cur][k] /\ U[k].enabled =>
                  U[k].running = mem[cur][k].running
          \/ U[k].running = None /\ ~Reserved(k)
    <3> TAKE k \in DOMAIN U
    <3>1. CASE k = j
      BY <2>1, <2>2, <2>3, <3>1
    <3>2. CASE k # j
      BY <2>1, <2>3, <3>2
    <3> QED
      BY <3>1, <3>2
  <2> QED
    BY <1>1, <1>2, <2>1, <2>4, MaintainedHere DEF Edited, GoodStore
<1> QED
  BY <1>4, <1>5, <1>6 DEF Edits

LEMMA ReadsHere ==
  ASSUME HereInv, Read \/ InspectManualRun
  PROVE  HereStep
<1>1. UNCHANGED <<now, cur, runs, batch, boot, missed>> /\ boot[cur] # "clear"
  BY DEF Read, InspectManualRun, Serves, Serving
<1>2. \A k \in Job : (Reserved(k)' <=> Reserved(k)) /\ (Solo(k) => Solo(k)')
  BY <1>1, SameClaims
<1>3. IsStore(mem[cur]) /\ now \in Nat /\ CoreInv /\ cur \in Inst /\ IsStore(disk)
  BY AllHere DEF GoodStore, HereInv
<1>4. ASSUME NEW U, Tended(mem[cur], U, now)
      PROVE  \A k \in DOMAIN U :
               /\ k \in DOMAIN mem[cur]
               /\ U[k].running # None => mem[cur][k].running # None
               /\ mem[cur][k].enabled /\ Normalized(mem[cur][k], now) = mem[cur][k] =>
                    U[k].running = mem[cur][k].running
  BY <1>3, <1>4, MarkerSurvives DEF Tended
<1>5. CASE Read
  <2>1. CASE UNCHANGED <<mem, disk>>
    <3>1. \A j \in Job \ forfeited : Reserved(j)' => Solo(j)' /\ Guarded(j)'
      BY <1>1, <1>2, <2>1 DEF HereInv, ClaimsExclusive, Guarded
    <3>2. MarkersBacked'
      BY <1>1, <1>2, <1>3, <2>1 DEF HereInv, MarkersBacked, IsStore
    <3>3. MemoryAgrees'
      BY <1>1, <2>1 DEF HereInv, MemoryAgrees
    <3> QED
      BY <3>1, <3>2, <3>3 DEF HereStep
  <2>2. ASSUME NEW U, GoodStore(U), Save(cur, U), Tended(mem[cur], U, now)
        PROVE  HereStep
    BY <1>1, <1>2, <1>4, <2>2, MaintainedHere DEF GoodStore
  <2> QED
    BY <1>3, <1>5, <2>1, <2>2, ReadStore
<1>6. CASE InspectManualRun
  <2>1. PICK U : /\ mem' = [mem EXCEPT ![cur] = U] /\ Tended(mem[cur], U, now)
                 /\ \A j \in DOMAIN mem[cur] :
                      mem[cur][j].enabled => U[j].next = mem[cur][j].next
    BY <1>3, <1>6, InspectStore
  <2>2. mem'[cur] = U /\ disk' = disk
    BY <1>3, <1>6, <2>1 DEF InspectManualRun, CoreInv, StoresOK
  <2>3. \A j \in Job \ forfeited : Reserved(j)' => Solo(j)' /\ Guarded(j)'
    <3> SUFFICES ASSUME NEW j \in Job \ forfeited, Reserved(j)
                 PROVE  Solo(j)' /\ Guarded(j)'
      BY <1>2
    <3>1. /\ Solo(j) /\ (j \in DOMAIN disk => disk[j].running # None)
          /\ j \in DOMAIN mem[cur] =>
               /\ mem[cur][j].running # None /\ mem[cur][j].enabled
               /\ Normalized(mem[cur][j], now) = mem[cur][j]
      BY ClaimIsHeld
    <3>2. j \in DOMAIN U => U[j].running # None
      BY <1>4, <2>1, <3>1
    <3> QED
      BY <1>1, <1>2, <2>2, <3>1, <3>2 DEF Guarded
  <2>4. MarkersBacked'
    <3>1. \A j \in DOMAIN disk : disk[j].running # None => Reserved(j)'
      BY <1>1, <1>2, <1>3 DEF HereInv, MarkersBacked, IsStore
    <3>2. \A j \in DOMAIN U : U[j].running # None => Reserved(j)'
      BY <1>1, <1>2, <1>3, <1>4, <2>1 DEF HereInv, MarkersBacked, IsStore
    <3> QED
      BY <1>1, <2>2, <3>1, <3>2 DEF MarkersBacked
  <2>5. MemoryAgrees'
    BY <1>1, <2>1, <2>2 DEF HereInv, MemoryAgrees, Tended, SameJob
  <2> QED
    BY <2>3, <2>4, <2>5 DEF HereStep
<1> QED
  BY <1>5, <1>6

(* Steps of the current instance that leave the tables alone, and those of  *)
(* the environment.                                                         *)
LEMMA TablesKeptHere ==
  ASSUME HereInv, UNCHANGED <<cur, mem, disk>>, boot'[cur] = "clear" => boot[cur] = "clear",
         boot[cur] = "clear" => boot'[cur] = "clear",
         \A j \in Job : (Reserved(j)' <=> Reserved(j)) /\ (Solo(j) => Solo(j)')
  PROVE  HereStep
<1>1. \A j \in Job \ forfeited : Reserved(j)' => Solo(j)' /\ Guarded(j)'
  BY DEF HereInv, ClaimsExclusive, Guarded
<1>2. MarkersBacked'
  BY AllHere DEF HereInv, MarkersBacked, GoodStore, IsStore
<1>3. MemoryAgrees'
  BY DEF HereInv, MemoryAgrees
<1> QED
  BY <1>1, <1>2, <1>3 DEF HereStep

LEMMA QuietHere ==
  ASSUME HereInv, TimerFires(cur) \/ TickEnds(cur) \/ TimePasses
  PROVE  HereStep
<1>1. UNCHANGED <<cur, runs, batch, boot, missed, mem, disk>>
  BY DEF TimerFires, TickEnds, TimePasses, instVars
<1> QED
  BY <1>1, SameClaims, TablesKeptHere

LEMMA RunEndsHere ==
  ASSUME HereInv, NEW r \in runs, RunEnds(r)
  PROVE  HereStep
<1>1. PICK outcome : runs' = (runs \ {r}) \cup {[r EXCEPT !.outcome = outcome, !.end = now]}
  BY DEF RunEnds
<1> DEFINE q == [r EXCEPT !.outcome = outcome, !.end = now]
<1>2. q.job = r.job
  BY DEF HereInv, CoreInv, StateOK, RunRecord
<1> HIDE DEF q
<1>3. runs' = (runs \ {r}) \cup {q}
  BY <1>1 DEF q
<1>4. UNCHANGED <<cur, batch, boot, missed, mem, disk>>
  BY DEF RunEnds, instVars
<1>5. \A j \in Job : Executes(j)' <=> Executes(j)
  BY <1>2, <1>3 DEF Executes
<1>6. \A j \in Job : Reserved(j)' <=> Reserved(j)
  BY <1>4, <1>5 DEF Reserved, Executes
<1>7. \A j \in Job : Solo(j) => Solo(j)'
  BY <1>2, <1>3, <1>4, <1>5 DEF Solo, Queued, Planned
<1> QED
  BY <1>4, <1>6, <1>7, TablesKeptHere

LEMMA BootRunsHere ==
  ASSUME HereInv, NEW j \in Job, BootRuns(cur, j)
  PROVE  HereStep
<1> DEFINE q == NewRun(j, cur, "catchup", 0, FALSE)
<1>1. /\ Planned(j) /\ runs' = runs \cup {q} /\ missed' = [missed EXCEPT ![cur] = @ \ {j}]
      /\ UNCHANGED <<cur, batch, boot, mem, disk>>
  BY DEF BootRuns, Planned
<1>2. q.job = j
  BY DEF NewRun
<1> HIDE DEF q
<1>3. /\ missed'[cur] = missed[cur] \ {j}
      /\ \A i \in Inst \ {cur} : missed'[i] = missed[i]
  BY <1>1, AllHere DEF HereInv, CoreInv, StateOK
<1>4. \A k \in Job : /\ Executes(k)' <=> Executes(k) \/ k = j
                     /\ Queued(k)' <=> Queued(k)
                     /\ Planned(k)' <=> Planned(k) /\ k # j
  BY <1>1, <1>2, <1>3 DEF Executes, Queued, Planned
<1>5. \A k \in Job : Reserved(k)' <=> Reserved(k)
  <2>1. \A k \in Job : Reserved(k)' <=> Executes(k)' \/ Queued(k)' \/ Planned(k)'
    BY <1>1, <1>3, AllHere DEF Reserved, Executes, Queued, Planned, Dormant
  <2> QED
    BY <1>1, <1>4, <2>1, AllHere
<1>6. \A k \in Job : Solo(k) => Solo(k)'
  BY <1>1, <1>2, <1>4 DEF Solo, Executes
<1> QED
  BY <1>1, <1>5, <1>6, TablesKeptHere

LEMMA BootClearHere ==
  ASSUME HereInv, BootClear(cur)
  PROVE  HereStep
<1> DEFINE U == [j \in DOMAIN disk |-> Cleared(disk[j])]
<1>1. GoodStore(U) /\ Save(cur, U) /\ \A j \in DOMAIN U : U[j].running = None
  BY BootClearStore, AllHere DEF HereInv
<1> HIDE DEF U
<1>2. /\ boot' = [boot EXCEPT ![cur] = "plan"] /\ boot[cur] = "clear"
      /\ UNCHANGED <<cur, runs, batch>>
      /\ \A i \in Inst \ {cur} : missed'[i] = missed[i]
  BY DEF BootClear, HereInv, CoreInv, StateOK
<1>3. Dormant(cur) /\ \A i \in Inst \ {cur} : Dormant(i)
  BY <1>2, AllHere DEF HereInv, InstancesInOrder
<1>4. boot'[cur] = "plan"
  BY <1>2, AllHere DEF HereInv, CoreInv, StateOK
<1>5. \A j \in Job : ~Reserved(j)'
  <2>1. runs' = {} /\ \A i \in Inst : batch'[i] = {}
    BY <1>2, <1>3, AllHere DEF Dormant
  <2>2. \A i \in Inst : boot'[i] = "catchup" => missed'[i] = {}
    BY <1>2, <1>3, <1>4 DEF Dormant
  <2> QED
    BY <2>1, <2>2 DEF Reserved
<1> QED
  BY <1>1, <1>2, <1>5, SavedHere

LEMMA BootSettlesHere ==
  ASSUME HereInv, BootSettles(cur)
  PROVE  HereStep
<1>1. PICK U : GoodStore(U) /\ Save(cur, U) /\ Tended(disk, U, now)
  BY BootSettlesStore, AllHere DEF HereInv
<1>2. /\ boot' = [boot EXCEPT ![cur] = "up"] /\ boot[cur] = "settle"
      /\ UNCHANGED <<cur, runs, batch, missed>>
  BY DEF BootSettles
<1>3. boot'[cur] = "up" /\ \A i \in Inst \ {cur} : boot'[i] = boot[i]
  BY <1>2, AllHere DEF HereInv, CoreInv, StateOK
<1>4. \A k \in Job : (Reserved(k)' <=> Reserved(k)) /\ (Solo(k) => Solo(k)')
  BY <1>2, <1>3 DEF Reserved, Solo, Executes, Queued, Planned
<1>5. \A k \in DOMAIN U :
        /\ k \in DOMAIN disk
        /\ U[k].running # None => disk[k].running # None
        /\ disk[k].enabled /\ Normalized(disk[k], now) = disk[k] => U[k].running = disk[k].running
  BY <1>1, MarkerSurvives, AllHere DEF Tended, GoodStore
<1> QED
  BY <1>1, <1>2, <1>4, <1>5, MaintainedHere DEF GoodStore

LEMMA BootPlanHere ==
  ASSUME HereInv, BootPlan(cur)
  PROVE  HereStep
<1> DEFINE new == missed'[cur]
<1>1. /\ boot[cur] = "plan" /\ UNCHANGED <<now, cur, runs, batch>>
      /\ cur \in Inst /\ CoreInv
  BY AllHere DEF BootPlan, HereInv
<1>2. \A i \in Inst \ {cur} : /\ boot'[i] = boot[i] /\ missed'[i] = missed[i]
                              /\ batch'[i] = batch[i] /\ Dormant(i)
  BY <1>1, AllHere, OthersUntouched, ServiceFrame DEF Service
<1>3. \A j \in Job : /\ Executes(j)' <=> Executes(j)
                     /\ Queued(j)' <=> Queued(j)
                     /\ Planned(j)' <=> boot'[cur] = "catchup" /\ j \in new
                     /\ ~Planned(j)
  BY <1>1 DEF Executes, Queued, Planned
<1>4. \A j \in Job : Reserved(j)' <=> Executes(j)' \/ Queued(j)' \/ Planned(j)'
  BY <1>1, <1>2, <1>3 DEF Reserved, Executes, Queued, Planned, Dormant
<1>5. CASE boot'[cur] = "settle" /\ new = {} /\ UNCHANGED <<mem, disk>>
  <2>1. \A j \in Job : (Reserved(j)' <=> Reserved(j)) /\ (Solo(j) => Solo(j)')
    BY <1>1, <1>3, <1>4, <1>5, AllHere DEF Solo, Executes
  <2> QED
    BY <1>1, <1>5, <2>1, TablesKeptHere
<1>6. CASE /\ boot'[cur] = "catchup"
           /\ \A j \in new : j \in DOMAIN mem[cur] /\ mem[cur][j].running = None
           /\ GoodStore(Marked(mem[cur], new)) /\ Save(cur, Marked(mem[cur], new))
  <2> DEFINE U == Marked(mem[cur], new)
  <2>1. /\ DOMAIN U = DOMAIN mem[cur] /\ now # None
        /\ \A j \in DOMAIN U : U[j].running = IF j \in new THEN now ELSE mem[cur][j].running
    BY <1>1, AllHere, MarkedFacts, CronAssumption DEF GoodStore
  <2>2. ASSUME NEW j \in Job \ forfeited, Reserved(j)'
        PROVE  Solo(j)' /\ (j \in DOMAIN U => U[j].running # None)
    <3> HIDE DEF U
    <3>1. CASE j \in new
      <4>1. ~Reserved(j)
        BY <1>6, <3>1, ClaimIsHeld
      <4>2. ~Executes(j) /\ ~Queued(j)
        BY <4>1, AllHere
      <4> QED
        BY <1>1, <1>3, <2>1, <3>1, <4>2 DEF Solo, Executes
    <3>2. CASE j \notin new
      <4>1. Reserved(j)
        BY <1>3, <1>4, <2>2, <3>2, AllHere
      <4>2. Solo(j) /\ (j \in DOMAIN mem[cur] => mem[cur][j].running # None)
        BY <4>1, ClaimIsHeld
      <4> QED
        BY <1>1, <1>3, <2>1, <3>2, <4>2 DEF Solo, Executes
    <3> QED
      BY <3>1, <3>2
  <2>3. ASSUME NEW j \in DOMAIN U, U[j].running # None
        PROVE  Reserved(j)'
    <3>1. j \in Job
      BY <2>1, AllHere DEF GoodStore, IsStore
    <3>2. j \in new \/ Reserved(j)
      BY <1>1, <2>1, <2>3 DEF HereInv, MarkersBacked
    <3> QED
      BY <1>3, <1>4, <1>6, <3>1, <3>2, AllHere
  <2> QED
    BY <1>1, <1>6, <2>2, <2>3, SavedHere
<1> QED
  BY <1>1, <1>5, <1>6, BootPlanStore

LEMMA CollectDueHere ==
  ASSUME HereInv, CollectDue(cur)
  PROVE  HereStep
<1> DEFINE due == batch'[cur]
<1>1. /\ tick[cur] = "collect" /\ UNCHANGED <<now, cur, runs, boot, missed>>
      /\ cur \in Inst /\ CoreInv
  BY AllHere DEF CollectDue, HereInv
<1>2. boot[cur] # "clear" /\ batch[cur] = {}
  BY <1>1 DEF HereInv, InstancesInOrder, Dormant
<1>3. \A i \in Inst \ {cur} : batch'[i] = batch[i] /\ Dormant(i)
  BY <1>1, AllHere, ServiceFrame DEF Service
<1>4. \A j \in Job : /\ Executes(j)' <=> Executes(j)
                     /\ Queued(j)' <=> j \in due
                     /\ Planned(j)' <=> Planned(j)
                     /\ ~Queued(j)
  BY <1>1, <1>2 DEF Executes, Queued, Planned
<1>5. \A j \in Job : Reserved(j)' <=> Executes(j)' \/ Queued(j)' \/ Planned(j)'
  BY <1>1, <1>3, <1>4 DEF Reserved, Executes, Queued, Planned, Dormant
<1>6. CASE /\ due = {}
           /\ \E U : GoodStore(U) /\ Save(cur, U) /\ Tended(disk, U, now)
  <2>1. PICK U : GoodStore(U) /\ Save(cur, U) /\ Tended(disk, U, now)
    BY <1>6
  <2>2. \A j \in Job : (Reserved(j)' <=> Reserved(j)) /\ (Solo(j) => Solo(j)')
    BY <1>1, <1>4, <1>5, <1>6, AllHere DEF Solo, Executes
  <2>3. \A k \in DOMAIN U :
          /\ k \in DOMAIN disk
          /\ U[k].running # None => disk[k].running # None
          /\ disk[k].enabled /\ Normalized(disk[k], now) = disk[k] =>
               U[k].running = disk[k].running
    BY <2>1, MarkerSurvives, AllHere DEF Tended, GoodStore
  <2> QED
    BY <1>1, <1>2, <2>1, <2>2, <2>3, MaintainedHere DEF GoodStore
<1>7. CASE /\ \A j \in due : j \in DOMAIN disk /\ disk[j].running = None
           /\ GoodStore(Marked(disk, due)) /\ Save(cur, Marked(disk, due))
  <2> DEFINE U == Marked(disk, due)
  <2>1. /\ DOMAIN U = DOMAIN disk /\ now # None
        /\ \A j \in DOMAIN U : U[j].running = IF j \in due THEN now ELSE disk[j].running
    BY <1>1, AllHere, MarkedFacts, CronAssumption DEF GoodStore
  <2>2. ASSUME NEW j \in Job \ forfeited, Reserved(j)'
        PROVE  Solo(j)' /\ (j \in DOMAIN U => U[j].running # None)
    <3> HIDE DEF U
    <3>1. CASE j \in due
      <4>1. ~Reserved(j)
        BY <1>7, <3>1, ClaimIsHeld
      <4>2. ~Executes(j) /\ ~Planned(j)
        BY <4>1, AllHere
      <4> QED
        BY <1>1, <1>4, <2>1, <3>1, <4>2 DEF Solo, Executes
    <3>2. CASE j \notin due
      <4>1. Reserved(j)
        BY <1>4, <1>5, <2>2, <3>2, AllHere
      <4>2. Solo(j) /\ (j \in DOMAIN disk => disk[j].running # None)
        BY <4>1, ClaimIsHeld
      <4> QED
        BY <1>1, <1>4, <2>1, <3>2, <4>2 DEF Solo, Executes
    <3> QED
      BY <3>1, <3>2
  <2>3. ASSUME NEW j \in DOMAIN U, U[j].running # None
        PROVE  Reserved(j)'
    <3>1. j \in Job
      BY <2>1, AllHere DEF GoodStore, IsStore
    <3>2. j \in due \/ Reserved(j)
      BY <1>2, <2>1, <2>3 DEF HereInv, MarkersBacked
    <3> QED
      BY <1>4, <1>5, <3>1, <3>2, AllHere
  <2> QED
    BY <1>1, <1>7, <2>2, <2>3, SavedHere
<1> QED
  <2>1. \/ due = {} /\ \E U : GoodStore(U) /\ Save(cur, U) /\ Tended(disk, U, now)
        \/ /\ \A j \in due : j \in DOMAIN disk /\ disk[j].running = None
           /\ GoodStore(Marked(disk, due)) /\ Save(cur, Marked(disk, due))
    BY <1>1, CollectDueStore
  <2> QED
    BY <1>6, <1>7, <2>1

LEMMA WorkerStartsHere ==
  ASSUME HereInv, NEW j \in Job, WorkerStarts(cur, j)
  PROVE  HereStep
<1> DEFINE q == NewRun(j, cur, "tick", 0, FALSE)
<1>1. /\ tick[cur] = "run" /\ Queued(j) /\ runs' = runs \cup {q}
      /\ batch' = [batch EXCEPT ![cur] = @ \ {j}]
      /\ UNCHANGED <<cur, boot, missed>>
  BY DEF WorkerStarts, Queued
<1>2. q.job = j
  BY DEF NewRun
<1> HIDE DEF q
<1>3. /\ batch'[cur] = batch[cur] \ {j} /\ cur \in Inst /\ now \in Nat /\ now # None
      /\ \A i \in Inst \ {cur} : batch'[i] = batch[i]
  BY <1>1, AllHere, CronAssumption DEF HereInv, CoreInv, StateOK
<1>4. \A k \in Job : /\ Executes(k)' <=> Executes(k) \/ k = j
                     /\ Queued(k)' <=> Queued(k) /\ k # j
                     /\ Planned(k)' <=> Planned(k)
  BY <1>1, <1>2, <1>3 DEF Executes, Queued, Planned
<1>5. \A k \in Job : Reserved(k)' <=> Reserved(k)
  <2>1. \A k \in Job : Reserved(k)' <=> Executes(k)' \/ Queued(k)' \/ Planned(k)'
    BY <1>1, <1>3, AllHere DEF Reserved, Executes, Queued, Planned, Dormant
  <2> QED
    BY <1>1, <1>4, <2>1, AllHere
<1>6. \A k \in Job : Solo(k) => Solo(k)'
  BY <1>1, <1>2, <1>4 DEF Solo, Executes
<1>7. boot[cur] # "clear" /\ disk' = disk
  BY <1>1, <1>3 DEF WorkerStarts, HereInv, InstancesInOrder, Dormant
<1>8. /\ DOMAIN mem'[cur] = DOMAIN mem[cur]
      /\ \A k \in DOMAIN mem[cur] :
           /\ SameJob(mem[cur][k], mem'[cur][k]) /\ mem'[cur][k].next = mem[cur][k].next
           /\ k # j => mem'[cur][k].running = mem[cur][k].running
           /\ mem[cur][k].running # None => mem'[cur][k].running # None
  <2>1. CASE mem' = mem
    BY <2>1 DEF SameJob
  <2>2. CASE mem' = [mem EXCEPT ![cur] = Marked(mem[cur], {j})]
    <3>1. mem'[cur] = Marked(mem[cur], {j})
      BY <1>3, <2>2 DEF HereInv, CoreInv, StoresOK
    <3> QED
      BY <1>3, <3>1, AllHere, MarkedFacts DEF GoodStore
  <2> QED
    BY <1>3, <2>1, <2>2, WorkerStartsStore DEF HereInv
<1>9. \A k \in Job \ forfeited : Reserved(k)' => Solo(k)' /\ Guarded(k)'
  <2> SUFFICES ASSUME NEW k \in Job \ forfeited, Reserved(k)
               PROVE  Solo(k)' /\ Guarded(k)'
    BY <1>5
  <2>1. /\ Solo(k) /\ (k \in DOMAIN disk => disk[k].running # None)
        /\ k \in DOMAIN mem[cur] => mem[cur][k].running # None
    BY ClaimIsHeld
  <2> QED
    BY <1>1, <1>6, <1>7, <1>8, <2>1 DEF Guarded
<1>10. MarkersBacked'
  <2>1. \A k \in DOMAIN disk : disk[k].running # None => Reserved(k)'
    BY <1>5, <1>7, AllHere DEF HereInv, MarkersBacked, GoodStore, IsStore
  <2>2. \A k \in DOMAIN mem'[cur] : mem'[cur][k].running # None => Reserved(k)'
    <3> TAKE k \in DOMAIN mem'[cur]
    <3>1. k \in DOMAIN mem[cur] /\ k \in Job
      BY <1>8, AllHere DEF GoodStore, IsStore
    <3>2. CASE k = j
      BY <1>1, <1>5, <3>2, AllHere
    <3>3. CASE k # j
      BY <1>5, <1>7, <1>8, <3>1, <3>3 DEF HereInv, MarkersBacked
    <3> QED
      BY <3>2, <3>3
  <2> QED
    BY <1>1, <1>7, <2>1, <2>2 DEF MarkersBacked
<1>11. MemoryAgrees'
  BY <1>1, <1>7, <1>8 DEF HereInv, MemoryAgrees, SameJob
<1> QED
  BY <1>9, <1>10, <1>11 DEF HereStep

LEMMA PrepareManualRunHere ==
  ASSUME HereInv, NEW j \in Job, NEW forced \in BOOLEAN, PrepareManualRun(j, forced)
  PROVE  HereStep
<1> DEFINE q == NewRun(j, cur, "manual", manuals, forced)
<1>1. /\ runs' = runs \cup {q} /\ UNCHANGED <<now, cur, batch, boot, missed>>
      /\ boot[cur] # "clear" /\ CoreInv
  BY DEF PrepareManualRun, Serves, Serving, HereInv
<1>2. q.job = j
  BY DEF NewRun
<1> HIDE DEF q
<1>3. PICK S : /\ GoodStore(S) /\ Tended(mem[cur], S, now)
               /\ j \in DOMAIN S /\ S[j].running = None
               /\ Save(cur, Marked(S, {j}))
  BY <1>1, PrepareManualRunStore
<1> DEFINE U == Marked(S, {j})
<1>4. /\ DOMAIN U = DOMAIN S /\ now # None
      /\ \A k \in DOMAIN U : U[k].running = IF k = j THEN now ELSE S[k].running
  BY <1>3, AllHere, MarkedFacts, CronAssumption DEF GoodStore
<1>5. Save(cur, U)
  BY <1>3
<1> HIDE DEF U
<1>6. /\ DOMAIN S = DOMAIN mem[cur]
      /\ \A k \in DOMAIN S :
           /\ k \in Job
           /\ S[k].running # None => mem[cur][k].running # None
           /\ mem[cur][k].enabled /\ Normalized(mem[cur][k], now) = mem[cur][k] =>
                S[k].running = mem[cur][k].running
  BY <1>3, AllHere, MarkerSurvives DEF Tended, GoodStore, IsStore
<1>7. \A k \in Job : /\ Executes(k)' <=> Executes(k) \/ k = j
                     /\ Queued(k)' <=> Queued(k)
                     /\ Planned(k)' <=> Planned(k)
                     /\ Reserved(k)' <=> Reserved(k) \/ k = j
  BY <1>1, <1>2 DEF Executes, Queued, Planned, Reserved
<1>8. ASSUME NEW k \in Job \ forfeited, Reserved(k)'
      PROVE  Solo(k)' /\ (k \in DOMAIN U => U[k].running # None)
  <2>1. CASE k = j
    <3>1. ~Reserved(j)
      BY <1>3, <1>6, <2>1, ClaimIsHeld
    <3>2. ~Executes(j) /\ ~Queued(j) /\ ~Planned(j)
      BY <3>1, AllHere
    <3> QED
      BY <1>1, <1>2, <1>4, <1>7, <2>1, <3>2 DEF Solo, Executes
  <2>2. CASE k # j
    <3>1. Reserved(k)
      BY <1>7, <1>8, <2>2
    <3>2. /\ Solo(k)
          /\ k \in DOMAIN mem[cur] =>
               /\ mem[cur][k].running # None /\ mem[cur][k].enabled
               /\ Normalized(mem[cur][k], now) = mem[cur][k]
      BY <3>1, ClaimIsHeld
    <3> QED
      BY <1>1, <1>2, <1>4, <1>6, <1>7, <2>2, <3>2 DEF Solo, Executes
  <2> QED
    BY <2>1, <2>2
<1>9. ASSUME NEW k \in DOMAIN U, U[k].running # None
      PROVE  Reserved(k)'
  <2>1. k = j \/ Reserved(k)
    BY <1>1, <1>4, <1>6, <1>9 DEF HereInv, MarkersBacked
  <2> QED
    BY <1>4, <1>6, <1>7, <2>1
<1> QED
  BY <1>1, <1>5, <1>8, <1>9, SavedHere

(* Applying the results rs of the current instance: their jobs lose their   *)
(* markers and the other claims stay.                                       *)
LEMMA ResultsHere ==
  ASSUME HereInv, boot[cur] # "clear", boot'[cur] = "catchup" => boot[cur] = "catchup",
         NEW rs \in SUBSET runs, runs' = runs \ rs,
         UNCHANGED <<now, cur, batch, missed>>,
         \A i \in Inst \ {cur} : boot'[i] = boot[i],
         boot'[cur] = boot[cur] \/ missed[cur] = {},
         NEW U, NEW postponed, GoodStore(U), Save(cur, U), Settled(disk, U, rs, postponed)
  PROVE  HereStep
<1>1. \A j \in Job : /\ Executes(j)' <=> \E r \in runs \ rs : r.job = j
                     /\ Queued(j)' <=> Queued(j)
                     /\ Planned(j)' <=> Planned(j)
  BY DEF Executes, Queued, Planned
<1>2. \A j \in Job : Reserved(j)' <=> Executes(j)' \/ Queued(j)' \/ Planned(j)'
  BY <1>1, AllHere DEF Reserved, Executes, Queued, Planned, Dormant
<1>3. \A j \in Job : Reserved(j)' => Reserved(j)
  BY <1>1, <1>2, AllHere DEF Executes
<1>4. \A j \in DOMAIN disk :
        (\A r \in rs : r.job # j) =>
          /\ U[j].running # None => disk[j].running # None
          /\ disk[j].enabled /\ Normalized(disk[j], now) = disk[j] =>
               U[j].running = disk[j].running
  <2> TAKE j \in DOMAIN disk
  <2> HAVE \A r \in rs : r.job # j
  <2>1. disk[j] \in JobState /\ U[j].running = Normalized(disk[j], now).running /\ now \in Nat
    BY AllHere DEF Settled, GoodStore, IsStore
  <2> QED
    BY <2>1, NormalizedFacts
<1>5. ASSUME NEW j \in Job \ forfeited, Reserved(j)'
      PROVE  Solo(j)' /\ (j \in DOMAIN U => U[j].running # None)
  <2>1. /\ Reserved(j) /\ Solo(j)
        /\ j \in DOMAIN disk =>
             /\ disk[j].running # None /\ disk[j].enabled
             /\ Normalized(disk[j], now) = disk[j]
    BY <1>3, <1>5, ClaimIsHeld
  <2>2. \A r \in rs : r.job # j
    BY <1>1, <1>2, <1>5, <2>1 DEF Solo, Executes
  <2>3. j \in DOMAIN U => U[j].running # None
    BY <1>4, <2>1, <2>2 DEF Settled
  <2>4. Solo(j)'
    BY <1>1, <2>1 DEF Solo, Executes
  <2> QED
    BY <2>3, <2>4
<1>6. ASSUME NEW j \in DOMAIN U, U[j].running # None
      PROVE  Reserved(j)'
  <2>1. j \in DOMAIN disk /\ j \in Job /\ \A r \in rs : r.job # j
    BY <1>6 DEF Settled, GoodStore, IsStore
  <2>2. Reserved(j)
    BY <1>4, <1>6, <2>1 DEF HereInv, MarkersBacked
  <2> QED
    BY <1>1, <1>2, <2>1, <2>2, AllHere DEF Executes
<1> QED
  BY <1>5, <1>6, SavedHere

LEMMA AppliesHere ==
  ASSUME HereInv, BootApplies(cur) \/ ApplyOutcomes(cur)
  PROVE  HereStep
<1>1. CoreInv /\ cur \in Inst
  BY AllHere DEF HereInv
<1>2. CASE BootApplies(cur)
  <2>1. PICK U : /\ GoodStore(U) /\ Save(cur, U)
                 /\ Settled(disk, U, RunsOf(cur, "catchup"), deferred[cur])
    BY <1>1, <1>2, BootAppliesStore
  <2>2. /\ boot[cur] = "catchup" /\ missed[cur] = {} /\ boot' = [boot EXCEPT ![cur] = "settle"]
        /\ runs' = runs \ RunsOf(cur, "catchup") /\ UNCHANGED <<now, cur, batch, missed>>
    BY <1>2 DEF BootApplies
  <2>3. boot'[cur] = "settle" /\ \A i \in Inst \ {cur} : boot'[i] = boot[i]
    BY <1>1, <2>2 DEF CoreInv, StateOK
  <2>4. RunsOf(cur, "catchup") \in SUBSET runs
    BY DEF RunsOf
  <2> QED
    BY <2>1, <2>2, <2>3, <2>4, ResultsHere
<1>3. CASE ApplyOutcomes(cur)
  <2>1. PICK U : /\ GoodStore(U) /\ Save(cur, U) /\ Settled(disk, U, RunsOf(cur, "tick"), {})
    BY <1>1, <1>3, ApplyOutcomesStore
  <2>2. /\ tick[cur] = "run" /\ runs' = runs \ RunsOf(cur, "tick")
        /\ UNCHANGED <<now, cur, batch, boot, missed>>
    BY <1>3 DEF ApplyOutcomes
  <2>3. boot[cur] # "clear"
    BY <1>1, <2>2 DEF HereInv, InstancesInOrder, Dormant
  <2>4. RunsOf(cur, "tick") \in SUBSET runs
    BY DEF RunsOf
  <2> QED
    BY <2>1, <2>2, <2>3, <2>4, ResultsHere
<1> QED
  BY <1>2, <1>3

LEMMA FinishManualRunHere ==
  ASSUME HereInv, NEW r \in runs, FinishManualRun(r)
  PROVE  HereStep
<1>1. /\ runs' = runs \ {r} /\ UNCHANGED <<now, cur, batch, boot, missed>>
      /\ r.inst = cur /\ r.job \in Job /\ CoreInv
  BY AllHere DEF FinishManualRun, HereInv
<1>2. boot[cur] # "clear"
  BY <1>1, AllHere DEF HereInv, InstancesInOrder, Dormant
<1>3. CASE r.job \notin DOMAIN mem[cur] /\ UNCHANGED <<mem, disk>>
  <2>1. r.job \notin DOMAIN disk /\ r.job \notin DOMAIN mem[cur]
    BY <1>2, <1>3 DEF HereInv, MemoryAgrees
  <2>2. \A j \in Job : (Reserved(j)' => Reserved(j)) /\ (Solo(j) => Solo(j)')
    BY <1>1 DEF Reserved, Solo, Executes, Queued, Planned
  <2>3. \A j \in Job \ {r.job} : Reserved(j) => Reserved(j)'
    BY <1>1 DEF Reserved
  <2>4. \A j \in Job \ forfeited : Reserved(j)' => Solo(j)' /\ Guarded(j)'
    BY <1>1, <1>3, <2>2 DEF HereInv, ClaimsExclusive, Guarded
  <2>5. MarkersBacked'
    BY <1>1, <1>3, <2>1, <2>3, AllHere DEF HereInv, MarkersBacked, GoodStore, IsStore
  <2>6. MemoryAgrees'
    BY <1>1, <1>3 DEF HereInv, MemoryAgrees
  <2> QED
    BY <2>4, <2>5, <2>6 DEF HereStep
<1>4. ASSUME NEW U, GoodStore(U), Save(cur, U),
             Settled(disk, U, {r}, {k \in DOMAIN disk : AlreadyExecuted(disk[k])})
      PROVE  HereStep
  <2>1. {r} \in SUBSET runs
    OBVIOUS
  <2> DEFINE executed == {k \in DOMAIN disk : AlreadyExecuted(disk[k])}
  <2>2. Settled(disk, U, {r}, executed)
    BY <1>4
  <2> HIDE DEF executed
  <2> QED
    BY <1>1, <1>2, <1>4, <2>1, <2>2, ResultsHere
<1> QED
  BY <1>1, <1>3, <1>4, FinishManualRunStore

LEMMA CrashHere ==
  ASSUME Crash
  PROVE  HereStep
<1>1. runs' = {} /\ \A i \in Inst : batch'[i] = {} /\ missed'[i] = {}
  BY DEF Crash
<1>2. \A j : ~Reserved(j)'
  BY <1>1 DEF Reserved
<1>3. boot'[cur'] = "clear"
  BY DEF Crash
<1> QED
  BY <1>2, <1>3 DEF HereStep, MarkersBacked, MemoryAgrees

LEMMA StepKeepsHere ==
  ASSUME HereInv, Step, Alone'
  PROVE  HereStep
<1>1. ASSUME NEW i \in Inst, Service(i) \/ TimerFires(i)
      PROVE  HereStep
  <2>1. i = cur
    <3>1. boot[i] # "none"
      BY <1>1, ServiceAwake DEF HereInv
    <3> QED
      BY <3>1 DEF HereInv, Alone
  <2> QED
    BY <1>1, <2>1, BootClearHere, BootPlanHere, BootRunsHere, AppliesHere, BootSettlesHere,
       CollectDueHere, WorkerStartsHere, QuietHere DEF Service
<1>2. CASE HotReload
  <2>1. cur \in Inst /\ boot[cur] # "none" /\ cur' = cur + 1 /\ boot'[cur] = boot[cur]
    BY <1>2, AllHere DEF HotReload, HereInv, InstancesInOrder, CoreInv, StateOK, Inst
  <2>2. cur # cur'
    BY <2>1 DEF Inst
  <2> QED
    BY <2>1, <2>2 DEF Alone
<1>3. CASE Crash
  BY <1>3, CrashHere
<1>4. CASE TimePasses \/ Read \/ InspectManualRun
  BY <1>4, QuietHere, ReadsHere
<1>5. ASSUME NEW r \in runs, RunEnds(r) \/ FinishManualRun(r)
      PROVE  HereStep
  BY <1>5, RunEndsHere, FinishManualRunHere
<1>6. ASSUME NEW j \in Job, Edits(j) \/ \E b \in BOOLEAN : PrepareManualRun(j, b)
      PROVE  HereStep
  BY <1>6, EditsHere, PrepareManualRunHere
<1> QED
  BY <1>1, <1>2, <1>3, <1>4, <1>5, <1>6, Zenon DEF Step, Edits

(* Only a crash leaves one instance alone again.                            *)
LEMMA AloneAgain ==
  ASSUME CoreInv, InstancesInOrder, Step, ~Alone, Alone'
  PROVE  Crash
<1> SUFFICES ASSUME ~Crash
             PROVE  FALSE
  OBVIOUS
<1>1. PICK k \in Inst \ {cur} : boot[k] # "none"
  BY DEF Alone
<1>2. cur \in Inst /\ cur \in Int
  BY NowIsNat DEF CoreInv, StateOK
<1>3. ASSUME NEW i \in Inst, Service(i) \/ TimerFires(i)
      PROVE  FALSE
  <2>1. boot'[k] # "none"
    BY <1>1, <1>3, OthersUntouched, ServiceAwake
  <2>2. cur' = cur
    BY <1>3 DEF Service, BootClear, BootPlan, BootRuns, BootApplies, BootSettles, TimerFires,
                CollectDue, WorkerStarts, ApplyOutcomes, TickEnds
  <2> QED
    BY <1>1, <2>1, <2>2 DEF Alone
<1>4. CASE HotReload
  <2>1. boot[cur] # "none" /\ cur' = cur + 1 /\ boot'[cur] = boot[cur]
    BY <1>2, <1>4 DEF HotReload, InstancesInOrder, CoreInv, StateOK
  <2> QED
    BY <1>2, <2>1 DEF Alone
<1>5. CASE UNCHANGED <<cur, boot>>
  BY <1>1, <1>5 DEF Alone
<1>6. CASE \/ \E r \in runs : RunEnds(r) \/ FinishManualRun(r)
           \/ \E j \in Job : Edits(j) \/ \E b \in BOOLEAN : PrepareManualRun(j, b)
           \/ Read \/ InspectManualRun \/ TimePasses
  <2>1. UNCHANGED <<cur, boot>>
    BY <1>6, EditStore DEF EditFrame, RunEnds, FinishManualRun, PrepareManualRun, Read,
                           InspectManualRun, TimePasses, instVars
  <2> QED
    BY <1>5, <2>1
<1> QED
  BY <1>3, <1>4, <1>6, Zenon DEF Step, Edits

(* The inductive invariant: the types and the tables, who is at work for    *)
(* which instance, the timer; while one instance serves the store, markers  *)
(* and claims belong together and memory agrees with disk.                  *)
CronInv ==
  /\ CoreInv /\ InstancesInOrder /\ TimerCoversSlots
  /\ forfeited \subseteq Job /\ ForfeitsKnown
  /\ Alone => ClaimsExclusive /\ MarkersBacked /\ MemoryAgrees

LEMMA InitInv ==
  ASSUME Init
  PROVE  CronInv
<1>1. 1 \in Inst /\ Inst \subseteq Nat
  BY ServiceAssumption DEF Inst
<1>2. /\ runs = {} /\ forfeited = {} /\ cur = 1 /\ boot[cur] = "clear"
      /\ \A i \in Inst : batch[i] = {} /\ missed[i] = {}
  BY <1>1 DEF Init
<1>3. \A j : ~Reserved(j)
  BY <1>2 DEF Reserved
<1>4. InstancesInOrder
  BY <1>1 DEF Init, InstancesInOrder, Dormant, Inst
<1>5. ForfeitsKnown /\ ClaimsExclusive /\ MarkersBacked /\ MemoryAgrees
  BY <1>2, <1>3 DEF ForfeitsKnown, ClaimsExclusive, MarkersBacked, MemoryAgrees
<1> QED
  BY <1>2, <1>4, <1>5, InitCore DEF CronInv

LEMMA NextKeepsInv ==
  ASSUME CronInv, Next
  PROVE  CronInv'
<1>1. Step /\ forfeited' = {j \in Job : Reserved(j)' /\ (j \in forfeited \/ Unprotected(j)')}
  BY DEF Next
<1>2. CoreInv' /\ InstancesInOrder' /\ TimerCoversSlots'
  BY <1>1, StepKeepsCore, StepKeepsOrder, StepCovers DEF CronInv
<1>3. (forfeited \subseteq Job)' /\ ForfeitsKnown'
  BY <1>1 DEF ForfeitsKnown
<1>4. ASSUME Alone'
      PROVE  (ClaimsExclusive /\ MarkersBacked /\ MemoryAgrees)'
  <2>1. HereStep
    <3>1. CASE Alone
      BY <1>1, <1>4, <3>1, StepKeepsHere DEF CronInv, HereInv
    <3>2. CASE ~Alone
      BY <1>1, <1>4, <3>2, AloneAgain, CrashHere DEF CronInv
    <3> QED
      BY <3>1, <3>2
  <2>2. ClaimsExclusive'
    BY <1>1, <2>1 DEF HereStep, ClaimsExclusive
  <2> QED
    BY <2>1, <2>2 DEF HereStep
<1> QED
  BY <1>2, <1>3, <1>4 DEF CronInv

LEMMA StutterKeepsInv ==
  ASSUME CronInv, UNCHANGED vars
  PROVE  CronInv'
<1> USE DEF vars, state, instVars
<1>1. CoreInv' /\ TimerCoversSlots'
  BY Stutter DEF CronInv
<1>2. InstancesInOrder'
  BY DEF CronInv, InstancesInOrder, Dormant
<1>3. (forfeited \subseteq Job)' /\ ForfeitsKnown'
  BY DEF CronInv, ForfeitsKnown, Reserved, Unprotected
<1>4. (Alone => ClaimsExclusive /\ MarkersBacked /\ MemoryAgrees)'
  BY DEF CronInv, Alone, ClaimsExclusive, MarkersBacked, MemoryAgrees, Reserved, Solo, Guarded,
         Executes, Queued, Planned
<1> QED
  BY <1>1, <1>2, <1>3, <1>4 DEF CronInv

(* The strengthening the theorems rest on: who claims a job has left a      *)
(* marker that every reader of the table sees, unless it is forfeited.      *)
THEOREM CronInvariant == Spec => []CronInv
<1>1. Init => CronInv
  BY InitInv
<1>2. CronInv /\ [Next]_vars => CronInv'
  BY NextKeepsInv, StutterKeepsInv
<1> QED
  BY <1>1, <1>2, PTL DEF Spec

-----------------------------------------------------------------------------
(* The theorems.                                                            *)

(* TypeOK: the table, the timers and the executions keep their types.       *)
THEOREM TypeCorrect == Spec => []TypeOK
<1>1. CronInv => TypeOK
  BY CoreIsTyped DEF CronInv
<1> QED
  BY <1>1, CronInvariant, PTL

(* The scheduler never sleeps through a slot, whatever callers, hot reloads *)
(* and crashes do to the table (armTimer, cron/service/timer.ts).           *)
THEOREM TimerIsArmed == Spec => []TimerCoversSlots
<1>1. CronInv => TimerCoversSlots
  BY DEF CronInv
<1> QED
  BY <1>1, CronInvariant, PTL

(* A tick, the start-up catch-up and cron.run never execute a job side by   *)
(* side while its marker is not forfeited.                                  *)
THEOREM NeverTwice == Spec => []NoDoubleRun
<1>1. CronInv => NoDoubleRun
  <2> SUFFICES ASSUME CronInv, Alone, NEW r \in runs, NEW q \in runs, r.job = q.job,
                      r.job \notin forfeited
               PROVE  r = q
    BY DEF NoDoubleRun
  <2>1. r.job \in Job \ forfeited /\ Reserved(r.job)
    BY DEF CronInv, CoreInv, StateOK, RunRecord, Reserved
  <2>2. Solo(r.job)
    BY <2>1 DEF CronInv, ClaimsExclusive
  <2> QED
    BY <2>2 DEF Solo
<1> QED
  BY <1>1, CronInvariant, PTL

(* No job is wedged by a marker nobody is going to clear, as long as one    *)
(* instance serves the store.                                               *)
THEOREM NoMarkerIsLeft == Spec => [](Alone => MarkerOwned)
<1>1. CronInv => (Alone => MarkerOwned)
  BY DEF CronInv, MarkersBacked, MarkerOwned, Serving
<1> QED
  BY <1>1, CronInvariant, PTL

-----------------------------------------------------------------------------
(* Slots.                                                                   *)

(* A result was recorded for every job of rs.                               *)
LEMMA SettledKeepsSlots ==
  ASSUME CoreInv, NEW i \in Inst, NEW rs \in SUBSET runs, \A r \in rs : ~Live(r),
         runs' = runs \ rs, NEW U, disk' = U, NEW postponed, Settled(disk, U, rs, postponed),
         \A j \in postponed : j \in deferred[i] \/ AlreadyExecuted(disk[j]),
         NEW j \in Job
  PROVE  SlotKept(j)
<1> SUFFICES ASSUME j \in DOMAIN disk, disk[j].enabled, disk[j].next # None
             PROVE  \/ U[j].next = disk[j].next
                    \/ \E r \in runs \ runs' : r.job = j /\ ~Live(r)
                    \/ AlreadyExecuted(disk[j])
                    \/ j \in deferred[i]
  BY DEF SlotKept, Due
<1>1. CASE \E r \in rs : r.job = j
  BY <1>1
<1>2. CASE \A r \in rs : r.job # j
  BY <1>2 DEF Settled
<1> QED
  BY <1>1, <1>2

(* Saving a table made from the copy in memory.                             *)
LEMMA SavedKeepsSlots ==
  ASSUME HereInv, boot[cur] # "clear", NEW U, disk' = U, NEW j \in Job,
         \A k \in DOMAIN U \cap DOMAIN mem[cur] :
           k = j /\ mem[cur][k].enabled =>
             U[k].next = mem[cur][k].next \/ JobEdited(k) \/ mem[cur][k].next = None
  PROVE  SlotKept(j)
<1> SUFFICES ASSUME j \in DOMAIN disk, j \in DOMAIN U, disk[j].enabled, disk[j].next # None
             PROVE  U[j].next = disk[j].next \/ JobEdited(j)
  BY DEF SlotKept, Due
<1>1. /\ j \in DOMAIN mem[cur] /\ mem[cur][j].enabled
      /\ mem[cur][j].next = disk[j].next
  BY DEF HereInv, MemoryAgrees, SameJob
<1> QED
  BY <1>1

LEMMA ServiceKeepsSlots ==
  ASSUME HereInv, Service(cur) \/ TimerFires(cur), ~BootSettles(cur), NEW j \in Job
  PROVE  SlotKept(j)
<1>1. CoreInv /\ cur \in Inst /\ GoodStore(disk) /\ GoodStore(mem[cur]) /\ now \in Nat
  BY AllHere DEF HereInv
<1>2. CASE disk' = disk
  BY <1>2 DEF SlotKept
<1>3. CASE BootClear(cur)
  <2>1. disk' = [k \in DOMAIN disk |-> Cleared(disk[k])]
    BY <1>3 DEF BootClear, Save
  <2>2. \A k \in DOMAIN disk : disk[k] \in JobState
    BY <1>1 DEF GoodStore, IsStore
  <2> QED
    BY <2>1, <2>2 DEF SlotKept, Cleared, JobState
<1>4. CASE BootPlan(cur)
  <2>1. CASE disk' = disk
    BY <2>1 DEF SlotKept
  <2>2. CASE Save(cur, Marked(mem[cur], missed'[cur]))
    <3> DEFINE U == Marked(mem[cur], missed'[cur])
    <3>1. disk' = U
      BY <2>2 DEF Save
    <3>2. \A k \in DOMAIN mem[cur] : U[k].next = mem[cur][k].next
      BY <1>1, MarkedFacts DEF GoodStore
    <3> HIDE DEF U
    <3>3. boot[cur] # "clear"
      BY <1>4 DEF BootPlan
    <3> QED
      BY <3>1, <3>2, <3>3, SavedKeepsSlots
  <2> QED
    BY <1>1, <1>4, <2>1, <2>2, BootPlanStore
<1>5. CASE BootApplies(cur)
  <2>1. PICK U : Save(cur, U) /\ Settled(disk, U, RunsOf(cur, "catchup"), deferred[cur])
    BY <1>1, <1>5, BootAppliesStore
  <2>2. /\ disk' = U /\ runs' = runs \ RunsOf(cur, "catchup")
        /\ \A r \in RunsOf(cur, "catchup") : ~Live(r)
    BY <1>5, <2>1 DEF BootApplies, Save
  <2>3. RunsOf(cur, "catchup") \in SUBSET runs
    BY DEF RunsOf
  <2> QED
    BY <1>1, <2>1, <2>2, <2>3, SettledKeepsSlots
<1>6. CASE ApplyOutcomes(cur)
  <2>1. PICK U : Save(cur, U) /\ Settled(disk, U, RunsOf(cur, "tick"), {})
    BY <1>1, <1>6, ApplyOutcomesStore
  <2>2. /\ disk' = U /\ runs' = runs \ RunsOf(cur, "tick")
        /\ \A r \in RunsOf(cur, "tick") : ~Live(r)
    BY <1>6, <2>1 DEF ApplyOutcomes, Save
  <2>3. RunsOf(cur, "tick") \in SUBSET runs
    BY DEF RunsOf
  <2> QED
    BY <1>1, <2>1, <2>2, <2>3, SettledKeepsSlots
<1>7. CASE CollectDue(cur)
  <2>1. ASSUME NEW U, Save(cur, U),
               \A k \in DOMAIN disk :
                 disk[k].enabled /\ disk[k].next # None =>
                   U[k].next = disk[k].next \/ AlreadyExecuted(disk[k])
        PROVE  SlotKept(j)
    BY <2>1 DEF Save, SlotKept, Due
  <2>2. CASE Save(cur, Marked(disk, batch'[cur]))
    <3>1. \A k \in DOMAIN disk : Marked(disk, batch'[cur])[k].next = disk[k].next
      BY <1>1, MarkedFacts DEF GoodStore
    <3> QED
      BY <2>1, <2>2, <3>1
  <2> QED
    BY <1>1, <1>7, <2>1, <2>2, CollectDueStore
<1>8. CASE \/ \E k \in Job : BootRuns(cur, k) \/ WorkerStarts(cur, k)
           \/ TickEnds(cur) \/ TimerFires(cur)
  BY <1>2, <1>8 DEF BootRuns, WorkerStarts, TickEnds, TimerFires
<1> QED
  BY <1>3, <1>4, <1>5, <1>6, <1>7, <1>8 DEF Service

LEMMA EditsKeepSlots ==
  ASSUME HereInv, NEW k \in Job, Edits(k), ~AddJob(k), NEW j \in Job
  PROVE  SlotKept(j)
<1>1. CoreInv /\ boot[cur] # "clear"
  BY EditStore DEF Serving, HereInv
<1>2. ASSUME NEW U, Edited(U), EditOf(mem[cur], U, k), JobEdited(k)
      PROVE  SlotKept(j)
  BY <1>1, <1>2, SavedKeepsSlots DEF Edited, Save, EditOf
<1>3. CASE UpdateSchedule(k)
  BY <1>1, <1>2, <1>3, UpdateScheduleStore DEF JobEdited
<1>4. ASSUME NEW b \in BOOLEAN, UpdateEnabled(k, b)
      PROVE  SlotKept(j)
  BY <1>1, <1>2, <1>4, UpdateEnabledStore DEF JobEdited
<1>5. CASE UpdateOther(k)
  <2> DEFINE s == mem[cur][k]
             t == IF s.enabled /\ s.next = None THEN [s EXCEPT !.next = NextRun(k, s, now)] ELSE s
             U == [mem[cur] EXCEPT ![k] = t]
  <2>1. disk' = U
    BY <1>5 DEF UpdateOther, Edited, Save
  <2>2. \A i \in DOMAIN mem[cur] : mem[cur][i].next # None => U[i].next = mem[cur][i].next
    OBVIOUS
  <2> HIDE DEF U
  <2> QED
    BY <1>1, <2>1, <2>2, SavedKeepsSlots
<1>6. CASE RemoveJob(k)
  <2>1. PICK U : /\ Edited(U) /\ DOMAIN U = DOMAIN mem[cur] \ {k}
                 /\ \A i \in DOMAIN U : U[i] = mem[cur][i]
    BY <1>1, <1>6, RemoveJobStore
  <2> QED
    BY <1>1, <2>1, SavedKeepsSlots DEF Edited, Save
<1> QED
  BY <1>3, <1>4, <1>5, <1>6 DEF Edits

LEMMA CallsKeepSlots ==
  ASSUME HereInv, NEW j \in Job,
         \/ Read \/ InspectManualRun
         \/ \E k \in Job, b \in BOOLEAN : PrepareManualRun(k, b)
         \/ \E r \in runs : RunEnds(r) \/ FinishManualRun(r)
         \/ HotReload \/ Crash \/ TimePasses
  PROVE  SlotKept(j)
<1>1. CoreInv /\ cur \in Inst /\ GoodStore(mem[cur]) /\ now \in Nat
  BY AllHere DEF HereInv
<1>2. CASE disk' = disk
  BY <1>2 DEF SlotKept
<1>3. CASE Read
  <2>1. boot[cur] # "clear"
    BY <1>3 DEF Read, Serves, Serving
  <2>2. ASSUME NEW U, Save(cur, U),
               \A k \in DOMAIN mem[cur] : mem[cur][k].enabled => U[k].next = mem[cur][k].next
        PROVE  SlotKept(j)
    BY <2>1, <2>2, SavedKeepsSlots DEF Save
  <2> QED
    BY <1>1, <1>2, <1>3, <2>2, ReadStore
<1>4. ASSUME NEW k \in Job, NEW b \in BOOLEAN, PrepareManualRun(k, b)
      PROVE  SlotKept(j)
  <2>1. boot[cur] # "clear"
    BY <1>4 DEF PrepareManualRun, Serves, Serving
  <2>2. PICK S : /\ GoodStore(S) /\ Tended(mem[cur], S, now) /\ Save(cur, Marked(S, {k}))
                 /\ \A i \in DOMAIN mem[cur] :
                      mem[cur][i].enabled => S[i].next = mem[cur][i].next
    BY <1>1, <1>4, PrepareManualRunStore
  <2> DEFINE U == Marked(S, {k})
  <2>3. disk' = U
    BY <2>2 DEF Save
  <2>4. \A i \in DOMAIN S : U[i].next = S[i].next
    BY <1>1, <2>2, MarkedFacts DEF GoodStore
  <2>5. DOMAIN S = DOMAIN mem[cur]
    BY <2>2 DEF Tended
  <2> HIDE DEF U
  <2> QED
    BY <2>1, <2>2, <2>3, <2>4, <2>5, SavedKeepsSlots
<1>5. ASSUME NEW r \in runs, FinishManualRun(r)
      PROVE  SlotKept(j)
  <2> DEFINE executed == {k \in DOMAIN disk : AlreadyExecuted(disk[k])}
  <2>1. \/ disk' = disk
        \/ \E U : disk' = U /\ Settled(disk, U, {r}, executed)
    BY <1>1, <1>5, FinishManualRunStore DEF Save
  <2>2. {r} \in SUBSET runs /\ ~Live(r) /\ runs' = runs \ {r}
    BY <1>5 DEF FinishManualRun
  <2>3. \A k \in executed : AlreadyExecuted(disk[k])
    OBVIOUS
  <2> HIDE DEF executed
  <2> QED
    BY <1>1, <1>2, <2>1, <2>2, <2>3, SettledKeepsSlots
<1>6. CASE \/ InspectManualRun \/ \E r \in runs : RunEnds(r)
           \/ HotReload \/ Crash \/ TimePasses
  BY <1>2, <1>6 DEF InspectManualRun, RunEnds, HotReload, Crash, TimePasses
<1> QED
  BY <1>3, <1>4, <1>5, <1>6

(* No operation swallows a slot, but for the two that recompute the table.  *)
THEOREM SlotsSurvive == Spec => TickKeepsSlots
<1>1. CronInv /\ [Next]_vars => [Alone => \/ \A j \in Job : SlotKept(j)
                                          \/ \E j \in Job : AddJob(j)
                                          \/ \E i \in Inst : BootSettles(i)]_vars
  <2> SUFFICES ASSUME CronInv, Step, Alone, NEW j \in Job,
                      \A k \in Job : ~AddJob(k), \A i \in Inst : ~BootSettles(i)
               PROVE  SlotKept(j)
    BY DEF Next
  <2>1. HereInv
    BY DEF CronInv, HereInv
  <2>2. ASSUME NEW i \in Inst, Service(i) \/ TimerFires(i)
        PROVE  SlotKept(j)
    <3>1. i = cur
      <4>1. boot[i] # "none"
        BY <2>1, <2>2, ServiceAwake DEF HereInv
      <4> QED
        BY <4>1 DEF Alone
    <3> QED
      BY <2>1, <2>2, <3>1, ServiceKeepsSlots
  <2>3. ASSUME NEW k \in Job, Edits(k)
        PROVE  SlotKept(j)
    BY <2>1, <2>3, EditsKeepSlots
  <2>4. CASE \/ Read \/ InspectManualRun
             \/ \E k \in Job, b \in BOOLEAN : PrepareManualRun(k, b)
             \/ \E r \in runs : RunEnds(r) \/ FinishManualRun(r)
             \/ HotReload \/ Crash \/ TimePasses
    BY <2>1, <2>4, CallsKeepSlots
  <2> QED
    BY <2>2, <2>3, <2>4, Zenon DEF Step, Edits
<1> QED
  BY <1>1, CronInvariant, PTL DEF Spec, TickKeepsSlots
-----------------------------------------------------------------------------
(* One-shots.                                                               *)

(* Nobody switches a one-shot on again, and no marker outlives              *)
(* STUCK_RUN_MS.                                                            *)
NoReenable == \A j \in Job : Kind[j] = "at" => "enable" \notin Ops[j]
NeverStale == MaxTime <= StuckAfter

(* Wherever it is looked up, a one-shot that succeeded is disabled.         *)
OneShotsOff == Off(disk) /\ \A i \in Inst : Off(mem[i])

LEMMA TendedOff ==
  ASSUME NEW S, NEW U, NEW t, Off(S), Tended(S, U, t)
  PROVE  Off(U)
BY DEF Off, Tended, SameJob

LEMMA SettledOff ==
  ASSUME NEW S, NEW U, NEW rs, NEW postponed, Off(S), Settled(S, U, rs, postponed)
  PROVE  Off(U)
<1> SUFFICES ASSUME NEW j \in DOMAIN U, Kind[j] = "at", U[j].status = "ok"
             PROVE  ~U[j].enabled
  BY DEF Off
<1>1. j \in DOMAIN S
  BY DEF Settled
<1>2. CASE \E r \in rs : r.job = j
  BY <1>2 DEF Settled
<1>3. CASE \A r \in rs : r.job # j
  BY <1>1, <1>3 DEF Settled, SameJob, Off
<1> QED
  BY <1>2, <1>3

LEMMA MarkedOff ==
  ASSUME StateOK, NEW S, GoodStore(S), NEW js, Off(S)
  PROVE  Off(Marked(S, js))
<1>1. now \in Nat
  BY NowIsNat
<1> QED
  BY <1>1, MarkedFacts DEF Off, SameJob, GoodStore

LEMMA SaveOff ==
  ASSUME CoreInv, OneShotsOff, NEW i \in Inst, NEW U, Off(U), Save(i, U)
  PROVE  OneShotsOff'
BY SaveSets DEF OneShotsOff, Off

LEMMA ServiceOff ==
  ASSUME CoreInv, OneShotsOff, NEW i \in Inst, Service(i) \/ TimerFires(i)
  PROVE  OneShotsOff'
<1>1. StateOK /\ GoodStore(disk) /\ GoodStore(mem[i]) /\ Off(disk) /\ Off(mem[i])
  BY DEF CoreInv, StoresOK, OneShotsOff
<1>2. CASE BootClear(i)
  <2> DEFINE U == [j \in DOMAIN disk |-> Cleared(disk[j])]
  <2>1. \A j \in DOMAIN disk : SameJob(disk[j], U[j])
    BY <1>1 DEF GoodStore, IsStore, JobState, Cleared, SameJob
  <2>2. DOMAIN U = DOMAIN disk /\ Save(i, U)
    BY <1>2 DEF BootClear
  <2> HIDE DEF U
  <2>3. Off(U)
    BY <1>1, <2>1, <2>2 DEF Off, SameJob
  <2> QED
    BY <2>2, <2>3, SaveOff
<1>3. CASE BootPlan(i)
  <2>1. \/ UNCHANGED <<mem, disk>>
        \/ Save(i, Marked(mem[i], missed'[i]))
    BY <1>3, BootPlanStore
  <2> QED
    BY <1>1, <2>1, MarkedOff, SaveOff DEF OneShotsOff
<1>4. CASE BootApplies(i)
  BY <1>1, <1>4, BootAppliesStore, SettledOff, SaveOff
<1>5. CASE BootSettles(i)
  BY <1>1, <1>5, BootSettlesStore, TendedOff, SaveOff
<1>6. CASE CollectDue(i)
  <2>1. \/ \E U : Save(i, U) /\ Tended(disk, U, now)
        \/ Save(i, Marked(disk, batch'[i]))
    BY <1>6, CollectDueStore
  <2> QED
    BY <1>1, <2>1, MarkedOff, TendedOff, SaveOff
<1>7. CASE ApplyOutcomes(i)
  BY <1>1, <1>7, ApplyOutcomesStore, SettledOff, SaveOff
<1>8. ASSUME NEW j \in Job, WorkerStarts(i, j)
      PROVE  OneShotsOff'
  <2>1. Off(Marked(mem[i], {j}))
    BY <1>1, MarkedOff
  <2>2. disk' = disk /\ (mem' = mem \/ mem' = [mem EXCEPT ![i] = Marked(mem[i], {j})])
    BY <1>8, WorkerStartsStore
  <2> QED
    BY <2>1, <2>2 DEF OneShotsOff, CoreInv, StoresOK
<1>9. CASE (\E j \in Job : BootRuns(i, j)) \/ TickEnds(i) \/ TimerFires(i)
  BY <1>9 DEF BootRuns, TickEnds, TimerFires, OneShotsOff
<1> QED
  BY <1>2, <1>3, <1>4, <1>5, <1>6, <1>7, <1>8, <1>9 DEF Service

(* An edit that leaves job.enabled and the record of the last run alone.    *)
LEMMA UpdateKeepsEnabled ==
  ASSUME CoreInv, NEW j \in Job, UpdateSchedule(j) \/ UpdateOther(j)
  PROVE  \E s \in JobState :
           /\ j \in DOMAIN mem[cur] /\ Edited([mem[cur] EXCEPT ![j] = s])
           /\ s.enabled = mem[cur][j].enabled /\ s.status = mem[cur][j].status
<1>1. GoodStore(mem[cur]) /\ now \in Nat
  BY NowIsNat DEF CoreInv, StateOK, StoresOK
<1>2. CASE UpdateSchedule(j)
  <2> DEFINE s == [mem[cur][j] EXCEPT !.base = IF Kind[j] = "at" THEN now + 1 ELSE now]
             t == IF s.enabled THEN [s EXCEPT !.next = NextRun(j, s, now)]
                  ELSE [s EXCEPT !.next = None, !.running = None]
  <2>1. j \in DOMAIN mem[cur] /\ Edited([mem[cur] EXCEPT ![j] = t])
    BY <1>2 DEF UpdateSchedule
  <2>2. mem[cur][j] \in JobState
    BY <1>1, <2>1 DEF GoodStore, IsStore
  <2>3. /\ s \in JobState /\ s.enabled = mem[cur][j].enabled /\ s.status = mem[cur][j].status
    BY <1>1, <2>2 DEF JobState
  <2> HIDE DEF s
  <2>4. NextRun(j, s, now) \in Nat \cup {None}
    BY <1>1, <2>3, NextRunType
  <2>5. t \in JobState /\ t.enabled = s.enabled /\ t.status = s.status
    BY <2>3, <2>4 DEF JobState
  <2> HIDE DEF t
  <2> QED
    BY <2>1, <2>3, <2>5
<1>3. CASE UpdateOther(j)
  <2> DEFINE s == mem[cur][j]
             t == IF s.enabled /\ s.next = None THEN [s EXCEPT !.next = NextRun(j, s, now)] ELSE s
  <2>1. j \in DOMAIN mem[cur] /\ Edited([mem[cur] EXCEPT ![j] = t])
    BY <1>3 DEF UpdateOther
  <2>2. s \in JobState
    BY <1>1, <2>1 DEF GoodStore, IsStore
  <2>3. NextRun(j, s, now) \in Nat \cup {None}
    BY <1>1, <2>2, NextRunType
  <2>4. t \in JobState /\ t.enabled = s.enabled /\ t.status = s.status
    BY <2>2, <2>3 DEF JobState
  <2> HIDE DEF t
  <2> QED
    BY <2>1, <2>4
<1> QED
  BY <1>2, <1>3

LEMMA EditsOff ==
  ASSUME CoreInv, OneShotsOff, NoReenable, NEW j \in Job, Edits(j)
  PROVE  OneShotsOff'
<1>1. /\ cur \in Inst /\ now \in Nat /\ StateOK
      /\ GoodStore(mem[cur]) /\ Off(mem[cur])
  BY NowIsNat DEF CoreInv, StateOK, StoresOK, OneShotsOff
<1>2. \A U : Edited(U) /\ Off(U) => OneShotsOff'
  BY <1>1, SaveOff DEF Edited
<1>3. CASE AddJob(j)
  <2> DEFINE S == [k \in DOMAIN mem[cur] \cup {j} |->
                     IF k = j THEN CreateJob(j) ELSE mem[cur][k]]
             U == RecomputeNextRuns(S, now)
  <2>1. Edited(U)
    BY <1>3 DEF AddJob
  <2>2. CreateJob(j) \in JobState /\ CreateJob(j).status = "none"
    <3>1. CreateJob(j) \in JobState
      BY <1>1, CreateJobFacts
    <3> QED
      BY <3>1 DEF CreateJob, Created, JobState
  <2>3. IsStore(S) /\ Off(S)
    BY <1>1, <2>2 DEF GoodStore, IsStore, Off
  <2> HIDE DEF S
  <2>4. Off(U)
    BY <1>1, <2>3, RecomputeTends, TendedOff
  <2> QED
    BY <1>2, <2>1, <2>4
<1>4. ASSUME NEW s \in JobState, j \in DOMAIN mem[cur], Edited([mem[cur] EXCEPT ![j] = s]),
             s.enabled => mem[cur][j].enabled, s.status = mem[cur][j].status
      PROVE  OneShotsOff'
  <2>1. Off([mem[cur] EXCEPT ![j] = s])
    BY <1>1, <1>4 DEF Off
  <2> QED
    BY <1>2, <1>4, <2>1
<1>5. CASE UpdateSchedule(j) \/ UpdateOther(j)
  BY <1>4, <1>5, UpdateKeepsEnabled
<1>6. CASE RemoveJob(j)
  BY <1>1, <1>2, <1>6, RemoveJobStore DEF Off
<1>7. ASSUME NEW b \in BOOLEAN, UpdateEnabled(j, b)
      PROVE  OneShotsOff'
  <2>1. PICK U : Edited(U) /\ EditOf(mem[cur], U, j)
    BY <1>7, UpdateEnabledStore
  <2>2. Kind[j] # "at"
    BY <1>7 DEF UpdateEnabled, Serves, NoReenable
  <2>3. Off(U)
    BY <1>1, <2>1, <2>2 DEF Off, EditOf
  <2> QED
    BY <1>2, <2>1, <2>3
<1> QED
  BY <1>3, <1>5, <1>6, <1>7 DEF Edits

LEMMA StepKeepsOff ==
  ASSUME CoreInv, OneShotsOff, NoReenable, Step
  PROVE  OneShotsOff'
<1>1. /\ cur \in Inst /\ StateOK /\ GoodStore(mem[cur]) /\ Off(mem[cur]) /\ Off(disk)
  BY DEF CoreInv, StateOK, StoresOK, OneShotsOff
<1>2. ASSUME NEW r \in runs, FinishManualRun(r)
      PROVE  OneShotsOff'
  <2>1. /\ r.inst \in Inst
        /\ \/ UNCHANGED <<mem, disk>>
           \/ \E U : /\ Save(r.inst, U)
                     /\ Settled(disk, U, {r}, {k \in DOMAIN disk : AlreadyExecuted(disk[k])})
    BY <1>2, FinishManualRunStore
  <2> QED
    BY <1>1, <2>1, SettledOff, SaveOff DEF OneShotsOff
<1>3. ASSUME NEW j \in Job, NEW b \in BOOLEAN, PrepareManualRun(j, b)
      PROVE  OneShotsOff'
  <2>1. PICK S : GoodStore(S) /\ Tended(mem[cur], S, now) /\ Save(cur, Marked(S, {j}))
    BY <1>3, PrepareManualRunStore
  <2>2. Off(Marked(S, {j}))
    BY <1>1, <2>1, TendedOff, MarkedOff
  <2> QED
    BY <1>1, <2>1, <2>2, SaveOff
<1>4. CASE Read
  <2>1. \/ UNCHANGED <<mem, disk>>
        \/ \E U : Save(cur, U) /\ Tended(mem[cur], U, now)
    BY <1>4, ReadStore
  <2> QED
    BY <1>1, <2>1, TendedOff, SaveOff DEF OneShotsOff
<1>5. CASE InspectManualRun
  <2>1. PICK U : mem' = [mem EXCEPT ![cur] = U] /\ Tended(mem[cur], U, now)
    BY <1>5, InspectStore
  <2>2. Off(U)
    BY <1>1, <2>1, TendedOff
  <2> QED
    BY <1>5, <2>1, <2>2 DEF InspectManualRun, OneShotsOff, CoreInv, StoresOK
<1>6. CASE Crash
  BY <1>1, <1>6 DEF Crash, OneShotsOff, Off
<1>7. CASE (\E r \in runs : RunEnds(r)) \/ HotReload \/ TimePasses
  BY <1>7 DEF RunEnds, HotReload, TimePasses, instVars, OneShotsOff
<1> QED
  BY <1>2, <1>3, <1>4, <1>5, <1>6, <1>7, ServiceOff, EditsOff, Zenon DEF Step, Edits

(* What a step may do to a one-shot: it is not enabled, and only its own    *)
(* result disables it; while it is disabled nobody puts it in a batch.      *)
OneShotKept(j) ==
  j \in DOMAIN disk' /\ ~AddJob(j) =>
    /\ j \in DOMAIN disk
    /\ disk'[j].enabled => disk[j].enabled
    /\ ~disk'[j].enabled => /\ Queued(j)' => Queued(j)
                            /\ Planned(j)' => Planned(j)
                            /\ disk[j].enabled => Executes(j)

LEMMA SettledKeepsOneShot ==
  ASSUME NEW j \in Job, NEW rs \in SUBSET runs, NEW U, disk' = U, NEW postponed,
         Settled(disk, U, rs, postponed),
         j \in DOMAIN U => (U[j].enabled => disk[j].enabled),
         Queued(j)' => Queued(j), Planned(j)' => Planned(j)
  PROVE  OneShotKept(j)
<1> SUFFICES ASSUME j \in DOMAIN U
             PROVE  /\ j \in DOMAIN disk
                    /\ ~U[j].enabled /\ disk[j].enabled => Executes(j)
  BY DEF OneShotKept
<1>1. j \in DOMAIN disk
  BY DEF Settled
<1>2. CASE \E r \in rs : r.job = j
  BY <1>1, <1>2 DEF Executes
<1>3. CASE \A r \in rs : r.job # j
  BY <1>1, <1>3 DEF Settled, SameJob
<1> QED
  BY <1>2, <1>3

(* A result never enables its job.                                          *)
LEMMA ResultsNeverEnable ==
  ASSUME CoreInv, NEW i \in Inst, BootApplies(i) \/ ApplyOutcomes(i)
  PROVE  \A j \in DOMAIN disk' : disk'[j].enabled => disk[j].enabled
<1>1. PICK via \in {"catchup", "tick"} :
        /\ \A r \in RunsOf(i, via) : ~Live(r)
        /\ \/ disk' = ForMaintenance(WithResults(disk, RunsOf(i, via)), now, FALSE)
           \/ disk' = ForMaintenance(Staggered(WithResults(disk, RunsOf(i, via)), deferred[i]),
                                     now, FALSE)
  BY DEF BootApplies, ApplyOutcomes, Save
<1> DEFINE W == WithResults(disk, RunsOf(i, via))
           V == Staggered(W, deferred[i])
<1>2. \A r \in RunsOf(i, via) : Ended(r)
  BY <1>1, DoneAreEnded
<1>3. IsStore(W) /\ DOMAIN W \subseteq DOMAIN disk /\ now \in Nat /\ StateOK
  BY <1>2, WithResultsFacts, NowIsNat DEF CoreInv, StoresOK, GoodStore
<1>4. \A j \in DOMAIN W : W[j].enabled => disk[j].enabled
  <2> TAKE j \in DOMAIN W
  <2>1. CASE \E r \in RunsOf(i, via) : r.job = j
    BY <1>2, <2>1, WithResultsFacts DEF CoreInv, StoresOK, GoodStore
  <2>2. CASE \A r \in RunsOf(i, via) : r.job # j
    BY <1>2, <1>3, <2>2, WithResultsFacts DEF CoreInv, StoresOK, GoodStore
  <2> QED
    BY <2>1, <2>2
<1> HIDE DEF W
<1>5. /\ IsStore(V) /\ DOMAIN V = DOMAIN W
      /\ \A j \in DOMAIN V : V[j].enabled => disk[j].enabled
  BY <1>3, <1>4, StaggeredFacts DEF SameJob
<1> HIDE DEF V
<1>6. Tended(W, disk', now) \/ Tended(V, disk', now)
  BY <1>1, <1>3, <1>5, MaintainedIsGood DEF W, V
<1> QED
  BY <1>4, <1>5, <1>6 DEF Tended, SameJob

LEMMA ServiceKeepsOneShot ==
  ASSUME HereInv, Service(cur) \/ TimerFires(cur), NEW j \in Job
  PROVE  OneShotKept(j)
<1>1. CoreInv /\ cur \in Inst /\ GoodStore(disk) /\ GoodStore(mem[cur]) /\ now \in Nat
  BY AllHere DEF HereInv
<1>2. CASE BootClear(cur)
  <2>1. disk' = [k \in DOMAIN disk |-> Cleared(disk[k])] /\ UNCHANGED <<cur, batch>>
    BY <1>2 DEF BootClear, Save
  <2>2. \A k \in DOMAIN disk : disk'[k].enabled = disk[k].enabled
    BY <1>1, <2>1 DEF GoodStore, IsStore, Cleared, JobState
  <2>3. boot'[cur] = "plan"
    BY <1>1, <1>2 DEF BootClear, CoreInv, StateOK
  <2> QED
    BY <2>1, <2>2, <2>3 DEF OneShotKept, Queued, Planned
<1>3. CASE BootPlan(cur)
  <2> DEFINE found == {k \in DOMAIN mem[cur] \ missed[cur] : Missed(k, mem[cur][k], now)}
  <2>1. PICK first \in SUBSET found :
          /\ missed' = [missed EXCEPT ![cur] = first]
          /\ boot' = [boot EXCEPT ![cur] = IF found = {} THEN "settle" ELSE "catchup"]
          /\ IF found = {} THEN UNCHANGED <<mem, disk>> ELSE Save(cur, Marked(mem[cur], first))
    BY <1>3 DEF BootPlan
  <2>2. /\ missed'[cur] = first /\ UNCHANGED <<cur, batch>>
        /\ boot'[cur] = IF found = {} THEN "settle" ELSE "catchup"
    BY <1>1, <1>3, <2>1 DEF BootPlan, CoreInv, StateOK
  <2>3. \A k \in first : mem[cur][k].enabled
    BY DEF Missed
  <2> HIDE DEF found
  <2>4. CASE found = {}
    BY <2>1, <2>2, <2>4 DEF OneShotKept, Queued, Planned
  <2>5. CASE found # {}
    <3> DEFINE U == Marked(mem[cur], first)
    <3>1. disk' = U
      BY <2>1, <2>5 DEF Save
    <3>2. DOMAIN U = DOMAIN mem[cur] /\ \A k \in DOMAIN U : U[k].enabled = mem[cur][k].enabled
      BY <1>1, MarkedFacts DEF GoodStore, SameJob
    <3> HIDE DEF U
    <3>3. /\ DOMAIN mem[cur] = DOMAIN disk
          /\ \A k \in DOMAIN disk : mem[cur][k].enabled = disk[k].enabled
      BY <1>3 DEF BootPlan, HereInv, MemoryAgrees, SameJob
    <3> QED
      BY <2>2, <2>3, <3>1, <3>2, <3>3 DEF OneShotKept, Queued, Planned
  <2> QED
    BY <2>4, <2>5
<1>4. CASE BootApplies(cur)
  <2>1. PICK U : disk' = U /\ Settled(disk, U, RunsOf(cur, "catchup"), deferred[cur])
    BY <1>1, <1>4, BootAppliesStore DEF Save
  <2>2. RunsOf(cur, "catchup") \in SUBSET runs
    BY DEF RunsOf
  <2>3. boot'[cur] = "settle" /\ UNCHANGED <<cur, batch>>
    BY <1>1, <1>4 DEF BootApplies, CoreInv, StateOK
  <2>4. (Queued(j)' => Queued(j)) /\ ~Planned(j)'
    BY <2>3 DEF Queued, Planned
  <2> QED
    BY <1>1, <1>4, <2>1, <2>2, <2>4, SettledKeepsOneShot, ResultsNeverEnable
<1>5. CASE BootSettles(cur)
  <2>1. Tended(disk, disk', now)
    BY <1>1, <1>5, BootSettlesStore DEF Save
  <2>2. boot'[cur] = "up" /\ UNCHANGED <<cur, batch>>
    BY <1>1, <1>5 DEF BootSettles, CoreInv, StateOK
  <2> QED
    BY <2>1, <2>2 DEF OneShotKept, Tended, SameJob, Queued, Planned
<1>6. CASE CollectDue(cur)
  <2> DEFINE due == {k \in DOMAIN disk : Runnable(disk[k], now)}
  <2>1. batch'[cur] = due /\ UNCHANGED <<cur, boot, missed>>
    BY <1>1, <1>6 DEF CollectDue, CoreInv, StateOK
  <2>2. \A k \in due : disk[k].enabled
    BY DEF Runnable, Due
  <2>3. DOMAIN disk' = DOMAIN disk /\ \A k \in DOMAIN disk : SameJob(disk[k], disk'[k])
    <3>1. \A js : /\ DOMAIN Marked(disk, js) = DOMAIN disk
                  /\ \A k \in DOMAIN disk : SameJob(disk[k], Marked(disk, js)[k])
      BY <1>1, MarkedFacts DEF GoodStore
    <3>2. Tended(disk, disk', now) \/ disk' = Marked(disk, batch'[cur])
      BY <1>1, <1>6, CollectDueStore DEF Save
    <3> QED
      BY <3>1, <3>2 DEF Tended
  <2> HIDE DEF due
  <2> QED
    BY <2>1, <2>2, <2>3 DEF OneShotKept, SameJob, Queued, Planned
<1>7. CASE ApplyOutcomes(cur)
  <2>1. PICK U : disk' = U /\ Settled(disk, U, RunsOf(cur, "tick"), {})
    BY <1>1, <1>7, ApplyOutcomesStore DEF Save
  <2>2. RunsOf(cur, "tick") \in SUBSET runs
    BY DEF RunsOf
  <2>3. (Queued(j)' => Queued(j)) /\ (Planned(j)' => Planned(j))
    BY <1>7 DEF ApplyOutcomes, Queued, Planned
  <2> QED
    BY <1>1, <1>7, <2>1, <2>2, <2>3, SettledKeepsOneShot, ResultsNeverEnable
<1>8. ASSUME NEW k \in Job, BootRuns(cur, k) \/ WorkerStarts(cur, k)
      PROVE  OneShotKept(j)
  BY <1>1, <1>8 DEF BootRuns, WorkerStarts, OneShotKept, Queued, Planned, CoreInv, StateOK
<1>9. CASE TickEnds(cur) \/ TimerFires(cur)
  BY <1>9 DEF TickEnds, TimerFires, OneShotKept, Queued, Planned
<1> QED
  BY <1>2, <1>3, <1>4, <1>5, <1>6, <1>7, <1>8, <1>9 DEF Service

LEMMA EditsKeepOneShot ==
  ASSUME HereInv, NoReenable, NEW k \in Job, Edits(k), NEW j \in Job, Kind[j] = "at"
  PROVE  OneShotKept(j)
<1>1. /\ CoreInv /\ cur \in Inst /\ now \in Nat /\ boot[cur] # "clear"
      /\ UNCHANGED <<cur, batch, boot, missed>>
  BY AllHere, EditStore DEF HereInv, EditFrame, Serving
<1>2. /\ DOMAIN mem[cur] = DOMAIN disk
      /\ \A i \in DOMAIN disk : mem[cur][i].enabled = disk[i].enabled
  BY <1>1 DEF HereInv, MemoryAgrees, SameJob
<1>3. ASSUME NEW U, Edited(U),
             j \in DOMAIN U =>
               j \in DOMAIN mem[cur] /\ (U[j].enabled = mem[cur][j].enabled)
      PROVE  OneShotKept(j)
  BY <1>1, <1>2, <1>3 DEF Edited, Save, OneShotKept, Queued, Planned
<1>4. CASE AddJob(k)
  <2>1. CASE k = j
    BY <1>4, <2>1 DEF OneShotKept
  <2>2. CASE k # j
    <3>1. PICK S, U : /\ GoodStore(U) /\ Edited(U) /\ IsStore(S) /\ Tended(S, U, now)
                      /\ DOMAIN S = DOMAIN mem[cur] \cup {k}
                      /\ \A i \in DOMAIN mem[cur] \ {k} : S[i] = mem[cur][i]
                      /\ S[k].running = None
      BY <1>1, <1>4, AddJobStore, Zenon
    <3>2. j \in DOMAIN U => j \in DOMAIN mem[cur] /\ (U[j].enabled = mem[cur][j].enabled)
      BY <2>2, <3>1 DEF Tended, SameJob
    <3> QED
      BY <1>3, <3>1, <3>2
  <2> QED
    BY <2>1, <2>2
<1>5. CASE UpdateSchedule(k) \/ UpdateOther(k)
  <2>1. PICK s \in JobState :
          /\ k \in DOMAIN mem[cur] /\ Edited([mem[cur] EXCEPT ![k] = s])
          /\ s.enabled = mem[cur][k].enabled
    BY <1>1, <1>5, UpdateKeepsEnabled
  <2> DEFINE U == [mem[cur] EXCEPT ![k] = s]
  <2>2. j \in DOMAIN U => j \in DOMAIN mem[cur] /\ (U[j].enabled = mem[cur][j].enabled)
    BY <2>1
  <2> QED
    BY <1>3, <2>1, <2>2
<1>6. CASE RemoveJob(k)
  <2>1. PICK U : /\ Edited(U) /\ DOMAIN U = DOMAIN mem[cur] \ {k}
                 /\ \A i \in DOMAIN U : U[i] = mem[cur][i]
    BY <1>1, <1>6, RemoveJobStore
  <2> QED
    BY <1>3, <2>1
<1>7. ASSUME NEW b \in BOOLEAN, UpdateEnabled(k, b)
      PROVE  OneShotKept(j)
  <2>1. PICK U : Edited(U) /\ EditOf(mem[cur], U, k)
    BY <1>1, <1>7, UpdateEnabledStore
  <2>2. k # j
    BY <1>7 DEF UpdateEnabled, Serves, NoReenable
  <2>3. j \in DOMAIN U => j \in DOMAIN mem[cur] /\ (U[j].enabled = mem[cur][j].enabled)
    BY <2>1, <2>2 DEF EditOf
  <2> QED
    BY <1>3, <2>1, <2>3
<1> QED
  BY <1>4, <1>5, <1>6, <1>7 DEF Edits

LEMMA CallsKeepOneShot ==
  ASSUME HereInv, NEW j \in Job,
         \/ Read \/ InspectManualRun \/ TimePasses
         \/ \E k \in Job, b \in BOOLEAN : PrepareManualRun(k, b)
         \/ \E r \in runs : RunEnds(r) \/ FinishManualRun(r)
  PROVE  OneShotKept(j)
<1>1. /\ CoreInv /\ cur \in Inst /\ now \in Nat /\ GoodStore(mem[cur])
      /\ UNCHANGED <<cur, batch, boot, missed>>
  BY AllHere DEF HereInv, Read, InspectManualRun, TimePasses, PrepareManualRun, RunEnds,
                 FinishManualRun, instVars
<1>2. (Queued(j)' => Queued(j)) /\ (Planned(j)' => Planned(j))
  BY <1>1 DEF Queued, Planned
<1>3. boot[cur] # "clear" =>
        /\ DOMAIN mem[cur] = DOMAIN disk
        /\ \A i \in DOMAIN disk : mem[cur][i].enabled = disk[i].enabled
  BY DEF HereInv, MemoryAgrees, SameJob
<1>4. CASE disk' = disk
  BY <1>2, <1>4 DEF OneShotKept
<1>5. CASE Read
  <2>1. boot[cur] # "clear"
    BY <1>5 DEF Read, Serves, Serving
  <2>2. disk' = disk \/ Tended(mem[cur], disk', now)
    BY <1>1, <1>5, ReadStore DEF Save
  <2> QED
    BY <1>2, <1>3, <1>4, <2>1, <2>2 DEF OneShotKept, Tended, SameJob
<1>6. ASSUME NEW k \in Job, NEW b \in BOOLEAN, PrepareManualRun(k, b)
      PROVE  OneShotKept(j)
  <2>1. boot[cur] # "clear"
    BY <1>6 DEF PrepareManualRun, Serves, Serving
  <2>2. PICK S : GoodStore(S) /\ Tended(mem[cur], S, now) /\ disk' = Marked(S, {k})
    BY <1>1, <1>6, PrepareManualRunStore DEF Save
  <2>3. DOMAIN disk' = DOMAIN S /\ \A i \in DOMAIN S : SameJob(S[i], disk'[i])
    BY <1>1, <2>2, MarkedFacts DEF GoodStore
  <2> QED
    BY <1>2, <1>3, <2>1, <2>2, <2>3 DEF OneShotKept, Tended, SameJob
<1>7. ASSUME NEW r \in runs, FinishManualRun(r)
      PROVE  OneShotKept(j)
  <2> DEFINE after == ApplyJobResult(r.job, mem[cur][r.job], r)
             W == IF Deletes(r.job, r) THEN [k \in DOMAIN disk \ {r.job} |-> disk[k]]
                  ELSE [k \in DOMAIN disk |-> IF k = r.job
                                              THEN [after EXCEPT !.base = disk[r.job].base]
                                              ELSE disk[k]]
             executed == {k \in DOMAIN disk : AlreadyExecuted(disk[k])}
  <2>1. r.inst = cur /\ r.job \in Job /\ Ended(r)
    BY <1>1, <1>7, AllHere DEF CoreInv, StateOK, FinishManualRun
  <2>2. \/ disk' = disk
        \/ r.job \in DOMAIN mem[cur] /\ disk' = ForMaintenance(W, now, TRUE)
    BY <1>7, <2>1 DEF FinishManualRun, Save
  <2>3. ASSUME r.job \in DOMAIN mem[cur], disk' = ForMaintenance(W, now, TRUE),
               j \in DOMAIN disk'
        PROVE  disk'[j].enabled => disk[j].enabled
    <3>1. boot[cur] # "clear"
      BY <1>1, <2>1 DEF HereInv, InstancesInOrder, Dormant
    <3>2. mem[cur][r.job] \in JobState
      BY <1>1, <2>3 DEF GoodStore, IsStore
    <3>3. after \in JobState /\ (after.enabled => mem[cur][r.job].enabled)
      BY <2>1, <3>2, ApplyFacts
    <3> HIDE DEF after
    <3>4. DOMAIN disk' = DOMAIN W /\ SameJob(W[j], disk'[j])
      <4> DEFINE n == Normalized(W[j], now)
      <4>1. disk'[j] \in {n, [n EXCEPT !.next = NextRun(j, n, now)]} /\ DOMAIN disk' = DOMAIN W
        BY <2>3 DEF ForMaintenance
      <4>2. /\ j \in DOMAIN disk /\ disk[j] \in JobState
            /\ r.job \in DOMAIN disk => disk[r.job] \in JobState
        BY <4>1, AllHere, <2>3 DEF GoodStore, IsStore
      <4>3. W[j] \in JobState
        BY <3>3, <4>1, <4>2, <2>3 DEF JobState
      <4> HIDE DEF W
      <4>4. n \in JobState /\ SameJob(W[j], n)
        BY <1>1, <4>3, NormalizedTends
      <4> HIDE DEF n
      <4> QED
        BY <4>1, <4>4 DEF SameJob, JobState
    <3>5. j \in DOMAIN disk /\ (W[j].enabled => disk[j].enabled)
      BY <1>3, <2>3, <3>1, <3>3, <3>4 DEF JobState
    <3> HIDE DEF W
    <3> QED
      BY <3>4, <3>5 DEF SameJob
  <2>4. disk' = disk \/ \E U : disk' = U /\ Settled(disk, U, {r}, executed)
    BY <1>1, <1>7, FinishManualRunStore DEF Save
  <2>5. {r} \in SUBSET runs
    OBVIOUS
  <2> HIDE DEF W, executed
  <2> QED
    BY <1>2, <1>4, <2>2, <2>3, <2>4, <2>5, SettledKeepsOneShot
<1>8. CASE InspectManualRun \/ TimePasses \/ \E r \in runs : RunEnds(r)
  BY <1>4, <1>8 DEF InspectManualRun, TimePasses, RunEnds
<1> QED
  BY <1>5, <1>6, <1>7, <1>8

(* A one-shot whose marker is forfeited is disabled already, and a disabled *)
(* one is in no batch and among no start-up candidates.                     *)
OneShotsRest ==
  Alone =>
    \A j \in Job :
      Kind[j] = "at" /\ j \in DOMAIN disk =>
        /\ j \in forfeited => ~disk[j].enabled
        /\ ~disk[j].enabled => ~Queued(j) /\ ~Planned(j)

(* The only way to forfeit the marker of a one-shot is to be disabled.      *)
OneShotsForfeit ==
  Alone =>
    \A j \in Job :
      Kind[j] = "at" /\ j \in DOMAIN disk /\ Reserved(j) /\ Unprotected(j) => ~disk[j].enabled

LEMMA ForfeitsAreDisabled ==
  ASSUME NeverStale
  PROVE  CronInv => OneShotsForfeit
<1> SUFFICES ASSUME CronInv, Alone, NEW j \in Job, j \in DOMAIN disk, Reserved(j), Unprotected(j)
             PROVE  ~disk[j].enabled
  BY DEF OneShotsForfeit
<1>1. HereInv
  BY DEF CronInv, HereInv
<1>2. boot[cur] # "clear"
  BY <1>1, AllHere DEF HereInv, InstancesInOrder, Dormant, Executes, Queued, Planned
<1>3. PICK S \in {disk, mem[cur]} :
        j \in DOMAIN S /\ (~S[j].enabled \/ Normalized(S[j], now) # S[j])
  BY DEF Unprotected
<1>4. S[j].enabled = disk[j].enabled
  BY <1>1, <1>2, <1>3 DEF HereInv, MemoryAgrees, SameJob
<1>5. S[j] \in JobState /\ now \in 0..MaxTime
  BY <1>1, <1>3, AllHere DEF GoodStore, IsStore, HereInv, CoreInv, StateOK
<1>6. S[j].enabled => Normalized(S[j], now) = S[j]
  BY <1>5, CronAssumption, ServiceAssumption DEF Normalized, NeverStale, JobState
<1> QED
  BY <1>3, <1>4, <1>6

LEMMA NextKeepsRest ==
  ASSUME NoReenable, CronInv, OneShotsRest, OneShotsForfeit', Next
  PROVE  OneShotsRest'
<1>1. Step /\ forfeited' = {j \in Job : Reserved(j)' /\ (j \in forfeited \/ Unprotected(j)')}
  BY DEF Next
<1>2. CASE Crash
  <2>1. /\ runs' = {} /\ cur' \in Inst
        /\ \A i \in Inst : batch'[i] = {} /\ missed'[i] = {}
    BY <1>2 DEF Crash
  <2>2. \A j : ~Reserved(j)'
    BY <2>1 DEF Reserved
  <2>3. \A j : ~Queued(j)' /\ ~Planned(j)'
    BY <2>1 DEF Queued, Planned
  <2>4. forfeited' = {}
    BY <1>1, <2>2
  <2> QED
    BY <2>3, <2>4 DEF OneShotsRest
<1>3. ASSUME ~Crash, Alone', NEW j \in Job, Kind[j] = "at", j \in DOMAIN disk'
      PROVE  /\ j \in forfeited' => ~disk'[j].enabled
             /\ ~disk'[j].enabled => ~Queued(j)' /\ ~Planned(j)'
  <2>1. Alone /\ HereInv
    BY <1>1, <1>3, AloneAgain DEF CronInv, HereInv
  <2>2. CASE AddJob(j)
    <3>1. UNCHANGED <<runs, batch, boot, missed, cur>> /\ ~Reserved(j)
      BY <2>2 DEF AddJob, EditFrame
    <3>2. ~Reserved(j)' /\ ~Queued(j)' /\ ~Planned(j)'
      BY <2>1, <3>1, AllHere DEF Reserved, Queued, Planned
    <3> QED
      BY <1>1, <3>2
  <2>3. CASE ~AddJob(j)
    <3>1. OneShotKept(j)
      <4>1. ASSUME NEW i \in Inst, Service(i) \/ TimerFires(i)
            PROVE  OneShotKept(j)
        <5>1. i = cur
          BY <2>1, <4>1, ServiceAwake DEF HereInv, Alone
        <5> QED
          BY <2>1, <4>1, <5>1, ServiceKeepsOneShot
      <4>2. ASSUME NEW k \in Job, Edits(k)
            PROVE  OneShotKept(j)
        BY <1>3, <2>1, <4>2, EditsKeepOneShot
      <4>3. ~HotReload
        <5>1. cur \in Inst /\ boot[cur] # "none"
          BY <2>1, AllHere DEF HereInv, InstancesInOrder
        <5>2. HotReload => cur' = cur + 1 /\ boot'[cur] = boot[cur]
          BY <2>1, <5>1 DEF HotReload, HereInv, CoreInv, StateOK, Inst
        <5>3. cur # cur + 1
          BY <5>1 DEF Inst
        <5> QED
          BY <1>3, <5>1, <5>2, <5>3 DEF Alone
      <4>4. CASE \/ Read \/ InspectManualRun \/ TimePasses
                 \/ \E k \in Job, b \in BOOLEAN : PrepareManualRun(k, b)
                 \/ \E r \in runs : RunEnds(r) \/ FinishManualRun(r)
        BY <2>1, <4>4, CallsKeepOneShot
      <4> QED
        BY <1>1, <1>3, <4>1, <4>2, <4>3, <4>4, Zenon DEF Step, Edits
    <3>2. j \in forfeited => ~disk'[j].enabled
      BY <1>3, <2>1, <2>3, <3>1 DEF OneShotKept, OneShotsRest
    <3>3. j \in forfeited' => ~disk'[j].enabled
      BY <1>1, <1>3, <3>2 DEF OneShotsForfeit
    <3>4. ASSUME ~disk'[j].enabled
          PROVE  ~Queued(j)' /\ ~Planned(j)'
      <4>1. j \in DOMAIN disk /\ (Queued(j)' => Queued(j)) /\ (Planned(j)' => Planned(j))
        BY <1>3, <2>3, <3>1, <3>4 DEF OneShotKept
      <4>2. CASE ~disk[j].enabled
        BY <1>3, <2>1, <4>1, <4>2 DEF OneShotsRest
      <4>3. CASE disk[j].enabled
        <5>1. Executes(j) /\ j \notin forfeited
          BY <1>3, <2>1, <2>3, <3>1, <3>4, <4>1, <4>3 DEF OneShotKept, OneShotsRest
        <5>2. Solo(j)
          BY <2>1, <5>1, AllHere DEF HereInv, ClaimsExclusive
        <5> QED
          BY <4>1, <5>1, <5>2 DEF Solo
      <4> QED
        BY <4>2, <4>3
    <3> QED
      BY <3>3, <3>4
  <2> QED
    BY <2>2, <2>3
<1> QED
  BY <1>2, <1>3 DEF OneShotsRest

LEMMA StutterKeepsRest ==
  ASSUME UNCHANGED vars
  PROVE  /\ OneShotsRest => OneShotsRest'
         /\ OneShotsOff => OneShotsOff'
BY DEF vars, state, instVars, OneShotsRest, OneShotsOff, Alone, Queued, Planned

(* A tick or start-up has no claim on a one-shot that succeeded.            *)
LEMMA FinishedIsNotStarted ==
  ASSUME CronInv, OneShotsOff, OneShotsRest, Alone, Step,
         NEW j \in DOMAIN disk, Kind[j] = "at", disk[j].status = "ok",
         NEW r \in runs' \ runs, r.job = j
  PROVE  r.via = "manual" \/ ~Live(r)
<1>1. ~Queued(j) /\ ~Planned(j) /\ HereInv
  BY DEF OneShotsOff, Off, OneShotsRest, CronInv, HereInv, CoreInv, StoresOK, GoodStore, IsStore
<1>2. ASSUME NEW i \in Inst, Service(i) \/ TimerFires(i)
      PROVE  FALSE
  <2>1. i = cur
    BY <1>1, <1>2, ServiceAwake DEF HereInv, Alone
  <2>2. ASSUME NEW k \in Job, NEW via, runs' = runs \cup {NewRun(k, i, via, 0, FALSE)}
        PROVE  k = j
    BY <2>2 DEF NewRun
  <2>3. ~\E k \in Job : BootRuns(i, k) \/ WorkerStarts(i, k)
    BY <1>1, <2>1, <2>2 DEF BootRuns, WorkerStarts, Queued, Planned
  <2>4. runs' \subseteq runs
    BY <1>2, <2>3 DEF Service, TimerFires, BootClear, BootPlan, BootApplies, BootSettles,
                      CollectDue, ApplyOutcomes, TickEnds
  <2> QED
    BY <2>4
<1>3. ASSUME NEW q \in runs, RunEnds(q)
      PROVE  ~Live(r)
  <2>1. PICK outcome \in Results :
          runs' = (runs \ {q}) \cup {[q EXCEPT !.outcome = outcome, !.end = now]}
    BY <1>3 DEF RunEnds
  <2>2. q \in RunRecord /\ outcome # "executing"
    BY <2>1, ServiceAssumption DEF CronInv, CoreInv, StateOK, Outcomes
  <2> QED
    BY <2>1, <2>2 DEF Live, RunRecord
<1>4. ASSUME NEW k \in Job, NEW b \in BOOLEAN, PrepareManualRun(k, b)
      PROVE  r.via = "manual"
  BY <1>4 DEF PrepareManualRun, NewRun
<1>5. CASE \/ \E q \in runs : FinishManualRun(q)
           \/ \E k \in Job : Edits(k)
           \/ Read \/ InspectManualRun \/ HotReload \/ Crash \/ TimePasses
  <2>1. runs' \subseteq runs
    BY <1>1, <1>5, EditStore DEF HereInv, EditFrame, FinishManualRun, Read, InspectManualRun,
                                 HotReload, Crash, TimePasses
  <2> QED
    BY <2>1
<1> QED
  BY <1>2, <1>3, <1>4, <1>5, Zenon DEF Step, Edits

(* A one-shot that succeeded is over, as long as nobody switches one-shots  *)
(* on again and no execution outlives STUCK_RUN_MS.                         *)
THEOREM OneShotsEnd ==
  ASSUME NoReenable, NeverStale
  PROVE  Spec => OneShotOnce
<1>1. Init => OneShotsOff /\ OneShotsRest
  <2> SUFFICES ASSUME Init
               PROVE  OneShotsOff /\ OneShotsRest
    OBVIOUS
  <2>1. 1 \in Inst /\ InitialJobs \subseteq Job /\ now \in Nat
    BY ServiceAssumption DEF Init, Inst
  <2>2. \A j \in InitialJobs : CreateJob(j).status = "none"
    BY <2>1, CreateJobFacts DEF CreateJob, Created, JobState
  <2>3. OneShotsOff
    BY <2>2 DEF Init, OneShotsOff, Off
  <2>4. OneShotsRest
    BY <2>1 DEF Init, OneShotsRest, Queued, Planned
  <2> QED
    BY <2>3, <2>4
<1>2. CronInv /\ OneShotsOff /\ [Next]_vars => OneShotsOff'
  BY StepKeepsOff, StutterKeepsRest DEF CronInv, Next
<1>3. CronInv => OneShotsForfeit
  BY ForfeitsAreDisabled
<1>4. CronInv /\ OneShotsRest /\ OneShotsForfeit' /\ [Next]_vars => OneShotsRest'
  BY NextKeepsRest, StutterKeepsRest
<1>5. CronInv /\ OneShotsOff /\ OneShotsRest /\ [Next]_vars =>
        [\A j \in DOMAIN disk :
           Alone /\ Kind[j] = "at" /\ disk[j].status = "ok" /\ disk[j].base <= disk[j].last =>
             \A r \in runs' \ runs : r.job = j => r.via = "manual" \/ ~Live(r)]_vars
  BY FinishedIsNotStarted DEF Next
<1> QED
  BY <1>1, <1>2, <1>3, <1>4, <1>5, CronInvariant, PTL DEF Spec, OneShotOnce
=============================================================================
