-------------------------- MODULE AsyncAgentsProofs --------------------------
(***************************************************************************)
(* The quota of a user, the rows that a restart leaves, and the agreement   *)
(* of rows and memory: proofs for any finite set of tasks, any limits and   *)
(* any number of crashes.                                                   *)
(***************************************************************************)
EXTENDS AsyncAgents, SequenceTheorems, FiniteSetTheorems, TLAPS

Upserts == [task : Tasks, status : {"pending"} \cup Ended]

LEMMA UpsertsAreRecords ==
  ASSUME NEW v \in Upserts, NEW w \in Upserts, v.task = w.task, v.status = w.status
  PROVE  v = w
  BY DEF Upserts

LEMMA AroundAnItem ==
  ASSUME NEW S, NEW s \in Seq(S), NEW k \in DOMAIN s
  PROVE  LET r == SubSeq(s, 1, k - 1) \o SubSeq(s, k + 1, Len(s))
         IN r \in Seq(S) /\ \A i \in DOMAIN r : \E j \in DOMAIN s : r[i] = s[j]
<1> DEFINE before == SubSeq(s, 1, k - 1)
           after == SubSeq(s, k + 1, Len(s))
<1>1. k \in 1..Len(s) /\ Len(s) \in Nat /\ \A i \in 1..Len(s) : s[i] \in S
  OBVIOUS
<1>2. /\ before \in Seq(S) /\ Len(before) = k - 1
      /\ \A i \in 1..(k - 1) : before[i] = s[i]
  BY <1>1, SubSeqProperties
<1>3. /\ after \in Seq(S) /\ Len(after) = Len(s) - k
      /\ \A i \in 1..(Len(s) - k) : after[i] = s[k + i]
  <2>1. \A i \in (k + 1)..Len(s) : s[i] \in S
    BY <1>1
  <2>2. /\ after \in Seq(S) /\ Len(after) = IF k + 1 <= Len(s) THEN Len(s) - (k + 1) + 1 ELSE 0
        /\ \A i \in 1..(Len(s) - (k + 1) + 1) : after[i] = s[k + 1 + i - 1]
    BY <1>1, <2>1, SubSeqProperties
  <2> HIDE DEF after
  <2> QED
    BY <1>1, <2>2
<1> DEFINE whole == before \o after
<1>4. /\ whole \in Seq(S) /\ Len(whole) = Len(s) - 1
      /\ \A i \in 1..(Len(s) - 1) :
           whole[i] = IF i <= k - 1 THEN before[i] ELSE after[i - (k - 1)]
  <2>1. /\ before \o after \in Seq(S) /\ Len(before \o after) = Len(before) + Len(after)
        /\ \A i \in 1..(Len(before) + Len(after)) :
             (before \o after)[i] = IF i <= Len(before) THEN before[i] ELSE after[i - Len(before)]
    BY <1>2, <1>3, ConcatProperties
  <2>2. Len(before) = k - 1 /\ Len(before) + Len(after) = Len(s) - 1
    <3> HIDE DEF before, after
    <3> QED
      BY <1>1, <1>2, <1>3
  <2> QED
    BY <2>1, <2>2, Zenon
<1>5. \A i \in 1..(Len(s) - 1) : \E j \in 1..Len(s) : whole[i] = s[j]
  <2> HIDE DEF before, after, whole
  <2> TAKE i \in 1..(Len(s) - 1)
  <2>1. CASE i <= k - 1
    BY <1>1, <1>2, <1>4, <2>1
  <2>2. CASE i > k - 1
    <3>1. i - (k - 1) \in 1..(Len(s) - k) /\ k + (i - (k - 1)) = i + 1 /\ i + 1 \in 1..Len(s)
      BY <1>1, <2>2
    <3>2. whole[i] = IF i <= k - 1 THEN before[i] ELSE after[i - (k - 1)]
      BY <1>4
    <3>3. whole[i] = after[i - (k - 1)]
      <4>1. ~(i <= k - 1)
        BY <1>1, <2>2
      <4> QED
        BY <3>2, <4>1
    <3> QED
      BY <1>3, <3>1, <3>3
  <2> QED
    BY <1>1, <2>1, <2>2
<1>6. DOMAIN whole = 1..(Len(s) - 1) /\ DOMAIN s = 1..Len(s)
  <2> HIDE DEF whole
  <2> QED
    BY <1>4
<1> QED
  BY <1>4, <1>5, <1>6

(* A listener that unsubscribes leaves the others listening.                 *)
LEMMA WithoutListener ==
  ASSUME listeners \in Seq(Tasks), NEW t
  PROVE  /\ Without(t) \in Seq(Tasks)
         /\ \A i \in DOMAIN Without(t) : \E j \in DOMAIN listeners : Without(t)[i] = listeners[j]
<1>1. CASE t \notin Range(listeners)
  BY <1>1 DEF Without
<1>2. CASE t \in Range(listeners)
  <2>1. PICK k \in DOMAIN listeners :
             k = CHOOSE i \in DOMAIN listeners : listeners[i] = t
    BY <1>2 DEF Range
  <2>2. Without(t) = SubSeq(listeners, 1, k - 1) \o SubSeq(listeners, k + 1, Len(listeners))
    BY <1>2, <2>1 DEF Without, RemoveAt
  <2> DEFINE r == SubSeq(listeners, 1, k - 1) \o SubSeq(listeners, k + 1, Len(listeners))
  <2>3. r \in Seq(Tasks) /\ \A i \in DOMAIN r : \E j \in DOMAIN listeners : r[i] = listeners[j]
    BY AroundAnItem
  <2>4. Without(t) = r
    BY <2>2
  <2> HIDE DEF r
  <2> QED
    BY <2>3, <2>4
<1> QED
  BY <1>1, <1>2

(* As long as no further task becomes open, nobody comes over his quota.     *)
LEMMA NoNewOpen ==
  ASSUME QuotaHolds, \A t \in Tasks : memory'[t] \in Open => memory[t] \in Open
  PROVE  QuotaHolds'
<1> SUFFICES ASSUME NEW u \in Users PROVE Cardinality(OpenOf(u))' <= MaxTasksPerUser
  BY DEF QuotaHolds
<1>1. OpenOf(u)' \subseteq OpenOf(u)
  BY DEF OpenOf
<1>2. IsFiniteSet(OpenOf(u))
  BY AgentsAssumption, FS_Subset DEF OpenOf
<1>3. Cardinality(OpenOf(u)') <= Cardinality(OpenOf(u))
  BY <1>1, <1>2, FS_Subset
<1>4. /\ Cardinality(OpenOf(u)') \in Nat /\ Cardinality(OpenOf(u)) \in Nat
  BY <1>1, <1>2, FS_Subset, FS_CardinalityType
<1> QED
  BY <1>3, <1>4, AgentsAssumption DEF QuotaHolds

(* Steps that touch neither the memory, nor the rows, nor restoreFromDB.     *)
LEMMA QuietKeeps ==
  ASSUME AgentsInv, TypeOK', UNCHANGED <<memory, database, restoring>>, ListenersLive',
         \A t \in Tasks : /\ call'[t] = "idle" <=> call[t] = "idle"
                          /\ call'[t] = "dead" <=> call[t] = "dead"
  PROVE  AgentsInv'
<1>1. UNCHANGED <<memory, db, writes, mixed, restore, stale>>
  BY DEF database, restoring
<1>2. Untouched' /\ LeftOverIsListed' /\ DeadAreClosed'
  BY <1>1 DEF AgentsInv, Untouched, LeftOverIsListed, DeadAreClosed, Open
<1>3. WritersLive'
  BY <1>1 DEF AgentsInv, WritersLive, TypeOK
<1>4. SavesAreExact'
  BY <1>1 DEF AgentsInv, SavesAreExact, Writing
<1>5. QuotaHolds'
  BY <1>1, NoNewOpen DEF AgentsInv
<1> QED
  BY <1>2, <1>3, <1>4, <1>5 DEF AgentsInv

(* Put of a task with a call of this process, which nobody's restore lists   *)
(* without knowing it.                                                       *)
LEMMA PutKeeps ==
  ASSUME AgentsInv, TypeOK', NEW t \in Tasks, NEW s \in {"pending"} \cup Ended, Put(t, s),
         UNCHANGED restoring, ListenersLive', QuotaHolds', call[t] # "dead",
         call'[t] \notin {"idle", "dead"}, call[t] = "idle" \/ memory[t] # "none",
         \A u \in Tasks : /\ u # t /\ call'[u] = "idle" => call[u] = "idle"
                          /\ call'[u] = "dead" <=> call[u] = "dead"
                          /\ call'[u] = "idle" => call[u] = "idle"
  PROVE  AgentsInv'
<1>1. /\ UNCHANGED <<restore, stale, db>>
      /\ memory' = [memory EXCEPT ![t] = s]
      /\ writes' = writes \cup {[task |-> t, status |-> s]}
      /\ mixed' = IF Writing(t) THEN mixed \cup {t} ELSE mixed
  BY DEF restoring, Put
<1>2. \A u \in Tasks : memory'[u] = IF u = t THEN s ELSE memory[u]
  BY <1>1 DEF AgentsInv, TypeOK
<1>3. s # "none" /\ s # "running" /\ Saved(s) = s
  BY DEF Ended, Saved
<1>4. Untouched'
  BY <1>1, <1>2 DEF AgentsInv, Untouched
<1>5. WritersLive'
  <2> SUFFICES ASSUME NEW w \in writes'
               PROVE  /\ call'[w.task] \notin {"idle", "dead"}
                      /\ restore # "done" => memory'[w.task] # "none"
    BY <1>1 DEF WritersLive
  <2>1. w \in writes \/ w.task = t
    BY <1>1
  <2>2. CASE w.task = t
    BY <1>2, <1>3, <2>2
  <2>3. CASE w \in writes
    BY <1>2, <1>3, <2>3 DEF AgentsInv, WritersLive, TypeOK
  <2> QED
    BY <2>1, <2>2, <2>3
<1>6. LeftOverIsListed'
  <2>1. t \in stale => t \in mixed'
    BY <1>1 DEF AgentsInv, LeftOverIsListed
  <2> QED
    BY <1>1, <1>2, <1>3, <2>1 DEF AgentsInv, LeftOverIsListed
<1>7. DeadAreClosed'
  BY <1>1, <1>2 DEF AgentsInv, DeadAreClosed
<1>8. SavesAreExact'
  <2> SUFFICES ASSUME NEW u \in Tasks, u \notin mixed', memory'[u] # "none"
               PROVE  IF Writing(u)' THEN \A w \in writes' : w.task = u => w.status = Saved(memory'[u])
                      ELSE db'[u] = Saved(memory'[u])
    BY DEF SavesAreExact
  <2>1. CASE u = t
    <3>1. ~Writing(t)
      BY <1>1, <2>1
    <3>2. Writing(t)'
      <4>1. [task |-> t, status |-> s] \in writes'
        BY <1>1
      <4>2. \E w \in writes' : w.task = t
        BY <4>1, Zenon
      <4> QED
        BY <4>2 DEF Writing
    <3>3. \A w \in writes' : w.task = t => w.status = s
      BY <1>1, <3>1 DEF Writing
    <3> QED
      BY <1>2, <1>3, <2>1, <3>2, <3>3
  <2>2. CASE u # t
    <3>1. u \notin mixed /\ memory'[u] = memory[u] /\ db'[u] = db[u]
      BY <1>1, <1>2, <2>2
    <3>2. \A w : w.task = u => (w \in writes' <=> w \in writes)
      BY <1>1, <2>2
    <3>3. Writing(u)' <=> Writing(u)
      BY <3>2 DEF Writing
    <3> QED
      BY <3>1, <3>2, <3>3 DEF AgentsInv, SavesAreExact
  <2> QED
    BY <2>1, <2>2
<1> QED
  BY <1>4, <1>5, <1>6, <1>7, <1>8 DEF AgentsInv

LEMMA InitHolds == Init => AgentsInv
<1> SUFFICES ASSUME Init PROVE AgentsInv
  OBVIOUS
<1>1. TypeOK /\ Untouched /\ WritersLive /\ ListenersLive /\ LeftOverIsListed /\ DeadAreClosed
      /\ SavesAreExact
  BY AgentsAssumption
     DEF Init, TypeOK, Untouched, WritersLive, ListenersLive, LeftOverIsListed, DeadAreClosed,
         SavesAreExact, Open, Ended
<1>2. \A u \in Users : OpenOf(u) = {}
  BY DEF Init, OpenOf, Open
<1>3. QuotaHolds
  BY <1>2, FS_EmptySet, AgentsAssumption DEF QuotaHolds
<1> QED
  BY <1>1, <1>3 DEF AgentsInv
-----------------------------------------------------------------------------
(* A post adds one open task, to a user who has room for it.                 *)
LEMMA PostKeepsQuota ==
  ASSUME AgentsInv, NEW t \in Tasks, Post(t)
  PROVE  QuotaHolds'
<1> SUFFICES ASSUME NEW u \in Users PROVE Cardinality(OpenOf(u))' <= MaxTasksPerUser
  BY DEF QuotaHolds
<1>1. \A v \in Tasks : memory'[v] = IF v = t THEN "pending" ELSE memory[v]
  BY DEF Post, Put, AgentsInv, TypeOK
<1>2. IsFiniteSet(OpenOf(u)) /\ Cardinality(OpenOf(u)) \in Nat
  BY AgentsAssumption, FS_Subset, FS_CardinalityType DEF OpenOf
<1>3. MaxTasksPerUser \in Nat
  BY AgentsAssumption
<1>4. CASE u = Owner[t]
  <2>1. OpenOf(u)' \subseteq OpenOf(u) \cup {t}
    BY <1>1 DEF OpenOf
  <2>2. /\ IsFiniteSet(OpenOf(u) \cup {t})
        /\ Cardinality(OpenOf(u) \cup {t}) <= Cardinality(OpenOf(u)) + 1
    <3>1. /\ IsFiniteSet(OpenOf(u) \cup {t})
          /\ Cardinality(OpenOf(u) \cup {t})
               = IF t \in OpenOf(u) THEN Cardinality(OpenOf(u)) ELSE Cardinality(OpenOf(u)) + 1
      BY <1>2, FS_AddElement, Zenon
    <3> QED
      BY <1>2, <3>1
  <2>3. /\ Cardinality(OpenOf(u)') <= Cardinality(OpenOf(u) \cup {t})
        /\ Cardinality(OpenOf(u)') \in Nat /\ Cardinality(OpenOf(u) \cup {t}) \in Nat
    BY <2>1, <2>2, FS_Subset, FS_CardinalityType
  <2>4. Cardinality(OpenOf(u)) < MaxTasksPerUser
    BY <1>4 DEF Post, HasQuota
  <2> QED
    BY <1>2, <1>3, <2>2, <2>3, <2>4
<1>5. CASE u # Owner[t]
  <2>1. OpenOf(u)' = OpenOf(u)
    BY <1>1, <1>5 DEF OpenOf
  <2> QED
    BY <2>1 DEF AgentsInv, QuotaHolds
<1> QED
  BY <1>4, <1>5

LEMMA PostKeeps ==
  ASSUME AgentsInv, NEW t \in Tasks, Post(t)
  PROVE  AgentsInv'
<1>1. /\ call[t] = "idle" /\ call' = [call EXCEPT ![t] = "compacting"]
      /\ Put(t, "pending") /\ UNCHANGED <<restoring, listeners>>
  BY DEF Post
<1>2. \A u \in Tasks : call'[u] = IF u = t THEN "compacting" ELSE call[u]
  BY <1>1 DEF AgentsInv, TypeOK
<1>3. TypeOK'
  BY DEF AgentsInv, TypeOK, Post, Put, Open, restoring
<1>4. ListenersLive'
  BY <1>1, <1>2 DEF AgentsInv, TypeOK, ListenersLive
<1> QED
  BY <1>1, <1>2, <1>3, <1>4, PostKeepsQuota, PutKeeps

LEMMA ListensKeeps ==
  ASSUME AgentsInv, NEW t \in Tasks, Listens(t)
  PROVE  AgentsInv'
<1>1. \A u \in Tasks : call'[u] = IF u = t THEN "calling" ELSE call[u]
  BY DEF Listens, AgentsInv, TypeOK
<1>2. TypeOK'
  BY DEF AgentsInv, TypeOK, Listens, database, restoring
<1>3. ListenersLive'
  <2>1. listeners' = Append(listeners, t) /\ listeners \in Seq(Tasks)
    BY DEF Listens, AgentsInv, TypeOK
  <2>2. \A i \in DOMAIN listeners' : listeners'[i] = t \/ (i \in DOMAIN listeners /\ listeners'[i] = listeners[i])
    BY <2>1
  <2> QED
    BY <1>1, <2>1, <2>2 DEF AgentsInv, ListenersLive
<1> QED
  BY <1>1, <1>2, <1>3, QuietKeeps DEF Listens

LEMMA AcceptedKeeps ==
  ASSUME AgentsInv, NEW t \in Tasks, Accepted(t)
  PROVE  AgentsInv'
<1>1. \A u \in Tasks : call'[u] = IF u = t THEN "accepted" ELSE call[u]
  BY DEF Accepted, AgentsInv, TypeOK
<1>2. TypeOK'
  BY DEF AgentsInv, TypeOK, Accepted, database, restoring
<1>3. ListenersLive'
  BY <1>1 DEF Accepted, AgentsInv, ListenersLive, TypeOK
<1> QED
  BY <1>1, <1>2, <1>3, QuietKeeps DEF Accepted

LEMMA BackgroundKeeps ==
  ASSUME AgentsInv, NEW t \in Tasks, GoesToBackground(t)
  PROVE  AgentsInv'
<1>1. TypeOK'
  BY DEF AgentsInv, TypeOK, GoesToBackground, database, restoring
<1>2. ListenersLive'
  BY DEF GoesToBackground, AgentsInv, ListenersLive
<1> QED
  BY <1>1, <1>2, QuietKeeps DEF GoesToBackground

LEMMA CleanupKeeps ==
  ASSUME AgentsInv, NEW t \in Tasks, ForcedCleanup(t)
  PROVE  AgentsInv'
<1>1. /\ listeners \in Seq(Tasks) /\ listeners' = Without(t)
      /\ \A u \in Tasks : call'[u] = IF u = t THEN "lost" ELSE call[u]
  BY DEF ForcedCleanup, AgentsInv, TypeOK
<1>2. TypeOK'
  BY <1>1, WithoutListener DEF AgentsInv, TypeOK, ForcedCleanup, database, restoring
<1>3. ListenersLive'
  BY <1>1, WithoutListener DEF AgentsInv, ListenersLive
<1> QED
  BY <1>1, <1>2, <1>3, QuietKeeps DEF ForcedCleanup

LEMMA RejectedKeeps ==
  ASSUME AgentsInv, NEW t \in Tasks, Rejected(t)
  PROVE  AgentsInv'
<1>1. /\ listeners \in Seq(Tasks) /\ listeners' = Without(t) /\ call[t] = "calling"
      /\ \A u \in Tasks : call'[u] = IF u = t THEN "lost" ELSE call[u]
      /\ UNCHANGED restoring
  BY DEF Rejected, AgentsInv, TypeOK
<1>2. ListenersLive'
  BY <1>1, WithoutListener DEF AgentsInv, ListenersLive
<1>3. CASE UNCHANGED <<memory, database>>
  <2>1. TypeOK'
    BY <1>1, <1>3, WithoutListener DEF AgentsInv, TypeOK, Rejected, database, restoring
  <2> QED
    BY <1>1, <1>2, <1>3, <2>1, QuietKeeps
<1>4. CASE Put(t, "failed") /\ memory[t] # "none"
  <2>1. TypeOK'
    BY <1>1, <1>4, WithoutListener DEF AgentsInv, TypeOK, Rejected, Put, Ended, restoring
  <2>2. \A u \in Tasks : memory'[u] \in Open => memory[u] \in Open
    BY <1>4 DEF Put, AgentsInv, TypeOK, Open
  <2>3. QuotaHolds'
    BY <2>2, NoNewOpen DEF AgentsInv
  <2> QED
    BY <1>1, <1>2, <1>4, <2>1, <2>3, PutKeeps DEF Ended
<1> QED
  BY <1>3, <1>4 DEF Rejected, PutIfKnown

LEMMA CancelKeeps ==
  ASSUME AgentsInv, NEW t \in Tasks, Cancel(t)
  PROVE  AgentsInv'
<1>1. /\ memory[t] \in Open /\ Put(t, "cancelled")
      /\ UNCHANGED <<call, active, late, tracked, listeners, run, restoring, crashes>>
  BY DEF Cancel, process
<1>2. call[t] \notin {"idle", "dead"} /\ memory[t] # "none"
  BY <1>1 DEF AgentsInv, Untouched, DeadAreClosed, Open
<1>3. TypeOK'
  BY <1>1 DEF AgentsInv, TypeOK, Put, Ended, restoring
<1>4. \A u \in Tasks : memory'[u] \in Open => memory[u] \in Open
  BY <1>1 DEF Put, AgentsInv, TypeOK, Open
<1>5. QuotaHolds'
  BY <1>4, NoNewOpen DEF AgentsInv
<1>6. ListenersLive'
  BY <1>1 DEF AgentsInv, ListenersLive
<1> QED
  BY <1>1, <1>2, <1>3, <1>5, <1>6, PutKeeps DEF Ended

LEMMA RunEndsKeeps ==
  ASSUME AgentsInv, NEW r \in Tasks, RunEnds(r)
  PROVE  AgentsInv'
<1>1. UNCHANGED <<call, late, restoring, crashes>> /\ run' = [run EXCEPT ![r] = "ended"]
  BY DEF RunEnds
<1>2. CASE UNCHANGED <<memory, database, active, tracked, listeners>>
  <2>1. TypeOK' /\ ListenersLive'
    BY <1>1, <1>2 DEF AgentsInv, TypeOK, ListenersLive, database, restoring
  <2> QED
    BY <1>1, <1>2, <2>1, QuietKeeps
<1>3. CASE /\ listeners # <<>> /\ listeners' = Tail(listeners)
           /\ \E s \in {"completed", "failed"} : PutIfKnown(Head(listeners), s)
           /\ active' = active \ {Head(listeners)} /\ tracked' = tracked \ {r}
  <2> DEFINE t == Head(listeners)
  <2>1. /\ listeners \in Seq(Tasks) /\ t \in Tasks /\ t = listeners[1] /\ 1 \in DOMAIN listeners
        /\ listeners' \in Seq(Tasks)
        /\ \A i \in DOMAIN listeners' : i + 1 \in DOMAIN listeners /\ listeners'[i] = listeners[i + 1]
    BY <1>3 DEF AgentsInv, TypeOK
  <2>2. ListenersLive' /\ call[t] \notin {"idle", "dead"}
    BY <1>1, <2>1 DEF AgentsInv, ListenersLive
  <2>3. CASE UNCHANGED <<memory, database>>
    <3>1. TypeOK'
      BY <1>1, <1>3, <2>1, <2>3 DEF AgentsInv, TypeOK, database, restoring
    <3> QED
      BY <1>1, <2>2, <2>3, <3>1, QuietKeeps
  <2>4. ASSUME NEW s \in {"completed", "failed"}, Put(t, s), memory[t] # "none"
        PROVE  AgentsInv'
    <3> HIDE DEF t
    <3>1. TypeOK'
      <4>1. writes' \subseteq Upserts /\ mixed' \subseteq Tasks /\ db' = db
            /\ memory' \in [Tasks -> {"none"} \cup Open \cup Ended]
        BY <2>1, <2>4 DEF AgentsInv, TypeOK, Put, Upserts, Ended
      <4>2. run' \in [Tasks -> {"none", "going", "ended"}] /\ active' \subseteq Tasks
            /\ tracked' \subseteq Tasks
        BY <1>1, <1>3 DEF AgentsInv, TypeOK
      <4> QED
        BY <1>1, <2>1, <4>1, <4>2 DEF AgentsInv, TypeOK, Upserts, restoring
    <3>2. \A u \in Tasks : memory'[u] \in Open => memory[u] \in Open
      BY <2>4 DEF Put, AgentsInv, TypeOK, Open
    <3>3. QuotaHolds'
      BY <3>2, NoNewOpen DEF AgentsInv
    <3> QED
      BY <1>1, <2>1, <2>2, <2>4, <3>1, <3>3, PutKeeps DEF Ended
  <2> QED
    BY <1>3, <2>3, <2>4 DEF PutIfKnown
<1> QED
  BY <1>2, <1>3 DEF RunEnds, OthersListen
-----------------------------------------------------------------------------
(* Progress of a run changes pending to running, which is saved alike.       *)
LEMMA ProgressKeeps ==
  ASSUME AgentsInv, NEW r \in Tasks, Progress(r)
  PROVE  AgentsInv'
<1>1. UNCHANGED <<db, writes, mixed, call, active, late, tracked, listeners, run, restore, stale, crashes>>
  BY DEF Progress, database, process, restoring
<1>2. /\ memory' \in [Tasks -> {"none"} \cup Open \cup Ended]
      /\ \A t \in Tasks : memory'[t] = memory[t] \/ (memory[t] = "pending" /\ memory'[t] = "running")
  BY DEF Progress, Progressed, AgentsInv, TypeOK, Open
<1>3. \A t \in Tasks :
        /\ memory'[t] \in Open <=> memory[t] \in Open
        /\ memory'[t] = "none" <=> memory[t] = "none"
        /\ Saved(memory'[t]) = Saved(memory[t])
  BY <1>2 DEF Open, Saved
<1>4. TypeOK' /\ ListenersLive' /\ Untouched' /\ LeftOverIsListed' /\ DeadAreClosed'
  BY <1>1, <1>2, <1>3
     DEF AgentsInv, TypeOK, ListenersLive, Untouched, LeftOverIsListed, DeadAreClosed
<1>5. WritersLive'
  BY <1>1, <1>3 DEF AgentsInv, WritersLive, TypeOK
<1>6. SavesAreExact'
  BY <1>1, <1>3 DEF AgentsInv, SavesAreExact, Writing
<1>7. QuotaHolds'
  BY <1>3, NoNewOpen DEF AgentsInv
<1> QED
  BY <1>4, <1>5, <1>6, <1>7 DEF AgentsInv

LEMMA WriteLandsKeeps ==
  ASSUME AgentsInv, NEW w \in writes, WriteLands(w)
  PROVE  AgentsInv'
<1>1. /\ UNCHANGED <<memory, mixed, call, active, late, tracked, listeners, run, restore, stale, crashes>>
      /\ writes' = writes \ {w} /\ db' = [db EXCEPT ![w.task] = w.status]
  BY DEF WriteLands, process, restoring
<1>2. w \in Upserts /\ w.task \in Tasks /\ w.status \in {"pending"} \cup Ended
  BY DEF AgentsInv, TypeOK, Upserts
<1>3. \A t \in Tasks : db'[t] = IF t = w.task THEN w.status ELSE db[t]
  BY <1>1, <1>2 DEF AgentsInv, TypeOK
<1>4. call[w.task] \notin {"idle", "dead"} /\ (restore # "done" => memory[w.task] # "none")
  BY DEF AgentsInv, WritersLive
<1>5. TypeOK' /\ ListenersLive'
  BY <1>1, <1>2 DEF AgentsInv, TypeOK, ListenersLive
<1>6. Untouched' /\ DeadAreClosed'
  BY <1>1, <1>3, <1>4 DEF AgentsInv, Untouched, DeadAreClosed
<1>7. WritersLive'
  BY <1>1 DEF AgentsInv, WritersLive
<1>8. LeftOverIsListed'
  BY <1>1, <1>3, <1>4 DEF AgentsInv, LeftOverIsListed
<1>9. SavesAreExact'
  <2> SUFFICES ASSUME NEW t \in Tasks, t \notin mixed, memory[t] # "none"
               PROVE  IF Writing(t)' THEN \A v \in writes' : v.task = t => v.status = Saved(memory[t])
                      ELSE db'[t] = Saved(memory[t])
    BY <1>1 DEF SavesAreExact
  <2>1. CASE t = w.task
    <3>1. \A v \in writes : v.task = t => v.status = Saved(memory[t])
      <4>1. Writing(t)
        BY <2>1 DEF Writing
      <4> QED
        BY <4>1 DEF AgentsInv, SavesAreExact
    <3>2. w.status = Saved(memory[t])
      BY <2>1, <3>1
    <3>3. ASSUME NEW v \in writes, v.task = t PROVE v = w
      BY <1>2, <2>1, <3>1, <3>2, <3>3, UpsertsAreRecords DEF AgentsInv, TypeOK, Upserts
    <3>4. ~Writing(t)'
      BY <1>1, <3>3 DEF Writing
    <3> QED
      BY <1>3, <2>1, <3>2, <3>4
  <2>2. CASE t # w.task
    <3>1. \A v : v.task = t => (v \in writes' <=> v \in writes)
      BY <1>1, <2>2
    <3>2. Writing(t)' <=> Writing(t)
      BY <3>1 DEF Writing
    <3> QED
      BY <1>3, <2>2, <3>1, <3>2 DEF AgentsInv, SavesAreExact
  <2> QED
    BY <2>1, <2>2
<1>10. QuotaHolds'
  BY <1>1, NoNewOpen DEF AgentsInv
<1> QED
  BY <1>5, <1>6, <1>7, <1>8, <1>9, <1>10 DEF AgentsInv

LEMMA RestoreScansKeeps ==
  ASSUME AgentsInv, RestoreScans
  PROVE  AgentsInv'
<1>1. /\ UNCHANGED <<memory, db, writes, call, active, late, tracked, listeners, run, crashes>>
      /\ restore = "scanning" /\ restore' = "marking"
      /\ stale' = {t \in Tasks : db[t] = "pending"}
      /\ mixed' = mixed \cup {t \in stale' : memory[t] # "none"}
  <2>1. \A t \in Tasks : db[t] \in LeftOver <=> db[t] = "pending"
    BY DEF AgentsInv, TypeOK, Ended, LeftOver
  <2> QED
    BY <2>1 DEF RestoreScans, process
<1>2. TypeOK' /\ ListenersLive' /\ Untouched' /\ LeftOverIsListed' /\ DeadAreClosed'
  BY <1>1
     DEF AgentsInv, TypeOK, ListenersLive, Untouched, LeftOverIsListed, DeadAreClosed
<1>3. WritersLive'
  BY <1>1 DEF AgentsInv, WritersLive
<1>4. SavesAreExact'
  BY <1>1 DEF AgentsInv, SavesAreExact, Writing
<1>5. QuotaHolds'
  BY <1>1, NoNewOpen DEF AgentsInv
<1> QED
  BY <1>2, <1>3, <1>4, <1>5 DEF AgentsInv

LEMMA RestoreMarksKeeps ==
  ASSUME AgentsInv, RestoreMarks
  PROVE  AgentsInv'
<1>1. PICK t \in stale : stale' = stale \ {t} /\ db' = [db EXCEPT ![t] = "failed"]
  BY DEF RestoreMarks
<1>2. UNCHANGED <<memory, writes, mixed, call, active, late, tracked, listeners, run, restore, crashes>>
  BY DEF RestoreMarks, process
<1>3. t \in Tasks /\ \A u \in Tasks : db'[u] = IF u = t THEN "failed" ELSE db[u]
  BY <1>1 DEF AgentsInv, TypeOK
<1>4. TypeOK' /\ ListenersLive' /\ Untouched' /\ LeftOverIsListed' /\ DeadAreClosed'
  BY <1>1, <1>2, <1>3
     DEF AgentsInv, TypeOK, ListenersLive, Untouched, LeftOverIsListed, DeadAreClosed, Ended
<1>5. WritersLive'
  BY <1>2 DEF AgentsInv, WritersLive
<1>6. SavesAreExact'
  BY <1>1, <1>2, <1>3 DEF AgentsInv, SavesAreExact, Writing, LeftOverIsListed
<1>7. QuotaHolds'
  BY <1>2, NoNewOpen DEF AgentsInv
<1> QED
  BY <1>4, <1>5, <1>6, <1>7 DEF AgentsInv

(* Rows are loaded when none of them is pending that memory does not know.   *)
LEMMA RestoreLoadsKeeps ==
  ASSUME AgentsInv, RestoreLoads
  PROVE  AgentsInv'
<1>1. /\ UNCHANGED <<db, writes, mixed, call, active, late, tracked, listeners, run, stale, crashes>>
      /\ restore = "marking" /\ stale = {} /\ restore' = "done"
  BY DEF RestoreLoads, database, process
<1>2. /\ \A t \in Tasks : memory'[t] = IF memory[t] = "none" THEN db[t] ELSE memory[t]
      /\ memory' \in [Tasks -> {"none"} \cup Open \cup Ended]
  BY DEF RestoreLoads, AgentsInv, TypeOK, Open
<1>3. \A t \in Tasks : memory[t] = "none" => db[t] \in {"none"} \cup Ended /\ Saved(db[t]) = db[t]
  BY <1>1 DEF AgentsInv, LeftOverIsListed, TypeOK, Ended, Saved
<1>4. \A t \in Tasks : memory[t] = "none" => ~Writing(t)
  BY <1>1 DEF AgentsInv, WritersLive, Writing
<1>5. TypeOK' /\ ListenersLive' /\ Untouched' /\ LeftOverIsListed'
  BY <1>1, <1>2
     DEF AgentsInv, TypeOK, ListenersLive, Untouched, LeftOverIsListed
<1>6. DeadAreClosed'
  BY <1>1, <1>2, <1>3 DEF AgentsInv, DeadAreClosed, Open, Ended
<1>7. WritersLive'
  BY <1>1 DEF AgentsInv, WritersLive
<1>8. SavesAreExact'
  BY <1>1, <1>2, <1>3, <1>4 DEF AgentsInv, SavesAreExact, Writing
<1>9. QuotaHolds'
  <2>1. \A t \in Tasks : memory'[t] \in Open => memory[t] \in Open
    BY <1>2, <1>3 DEF Open, Ended
  <2> QED
    BY <2>1, NoNewOpen DEF AgentsInv
<1> QED
  BY <1>5, <1>6, <1>7, <1>8, <1>9 DEF AgentsInv

LEMMA ExpiresKeeps ==
  ASSUME AgentsInv, NEW t \in Tasks, Expires(t)
  PROVE  AgentsInv'
<1>1. /\ UNCHANGED <<db, writes, mixed, call, active, late, tracked, listeners, run, restore, stale, crashes>>
      /\ restore = "done"
  BY DEF Expires, PutInMemory, database, process, restoring
<1>2. /\ \A u \in Tasks : memory'[u] = IF u = t THEN "none" ELSE memory[u]
      /\ memory' \in [Tasks -> {"none"} \cup Open \cup Ended]
  BY DEF Expires, PutInMemory, AgentsInv, TypeOK
<1>3. TypeOK' /\ ListenersLive' /\ Untouched' /\ LeftOverIsListed' /\ DeadAreClosed'
  BY <1>1, <1>2
     DEF AgentsInv, TypeOK, ListenersLive, Untouched, LeftOverIsListed, DeadAreClosed, Open
<1>4. WritersLive'
  BY <1>1 DEF AgentsInv, WritersLive
<1>5. SavesAreExact'
  BY <1>1, <1>2 DEF AgentsInv, SavesAreExact, Writing
<1>6. QuotaHolds'
  <2>1. \A u \in Tasks : memory'[u] \in Open => memory[u] \in Open
    BY <1>2 DEF Open
  <2> QED
    BY <2>1, NoNewOpen DEF AgentsInv
<1> QED
  BY <1>3, <1>4, <1>5, <1>6 DEF AgentsInv

LEMMA CrashKeeps ==
  ASSUME AgentsInv, Crash
  PROVE  AgentsInv'
<1>1. \A t \in Tasks : memory'[t] = "none" /\ db'[t] = db[t]
                      /\ call'[t] = IF call[t] = "idle" THEN "idle" ELSE "dead"
  BY DEF Crash
<1>2. restore' = "scanning" /\ stale' = {} /\ writes' = {} /\ listeners' = <<>>
  BY DEF Crash
<1>3. TypeOK'
  BY AgentsAssumption DEF Crash, AgentsInv, TypeOK
<1>4. Untouched' /\ LeftOverIsListed' /\ DeadAreClosed' /\ ListenersLive' /\ WritersLive'
  BY <1>1, <1>2
     DEF AgentsInv, Untouched, LeftOverIsListed, DeadAreClosed, ListenersLive, WritersLive, Open
<1>5. SavesAreExact'
  BY <1>1 DEF SavesAreExact
<1>6. QuotaHolds'
  BY <1>1, NoNewOpen DEF AgentsInv, Open
<1> QED
  BY <1>3, <1>4, <1>5, <1>6 DEF AgentsInv
-----------------------------------------------------------------------------
(* AgentsInv is an invariant.                                                *)
THEOREM AgentsInvariant == Spec => []AgentsInv
<1>1. AgentsInv /\ [Next]_vars => AgentsInv'
  <2> SUFFICES ASSUME AgentsInv, [Next]_vars PROVE AgentsInv'
    OBVIOUS
  <2>1. ASSUME NEW t \in Tasks,
               \/ Post(t) \/ Listens(t) \/ Accepted(t) \/ Rejected(t)
               \/ GoesToBackground(t) \/ ForcedCleanup(t) \/ Cancel(t)
               \/ Progress(t) \/ RunEnds(t) \/ Expires(t)
        PROVE  AgentsInv'
    BY <2>1, PostKeeps, ListensKeeps, AcceptedKeeps, RejectedKeeps, BackgroundKeeps,
       CleanupKeeps, CancelKeeps, ProgressKeeps, RunEndsKeeps, ExpiresKeeps
  <2>2. CASE UNCHANGED vars
    <3>1. /\ UNCHANGED <<memory, database, restoring>>
          /\ UNCHANGED <<call, active, late, tracked, listeners, run, crashes>>
      BY <2>2 DEF vars, process
    <3>2. TypeOK' /\ ListenersLive'
      BY <3>1 DEF AgentsInv, TypeOK, ListenersLive, database, restoring
    <3> QED
      BY <3>1, <3>2, QuietKeeps
  <2> QED
    BY <2>1, <2>2, WriteLandsKeeps, RestoreScansKeeps, RestoreMarksKeeps, RestoreLoadsKeeps,
       CrashKeeps DEF Next
<1> QED
  BY <1>1, InitHolds, PTL DEF Spec

(* No user has more open tasks than the limit, whatever a restart, late      *)
(* answers and expired tasks do to the registry.                             *)
THEOREM QuotaIsKept == Spec => []QuotaHolds
<1>1. AgentsInv => QuotaHolds
  BY DEF AgentsInv
<1> QED
  BY <1>1, AgentsInvariant, PTL

(* restoreFromDB leaves no row of an earlier process open.                   *)
THEOREM RestoreClosesRows == Spec => []NoZombies
<1>1. AgentsInv => NoZombies
  BY DEF AgentsInv, NoZombies, DeadAreClosed, TypeOK, Open, Ended
<1> QED
  BY <1>1, AgentsInvariant, PTL

(* Memory and row agree when no write is under way, for the tasks whose      *)
(* writes did not overlap and that restoreFromDB did not take for left over. *)
THEOREM RowsAgree == Spec => []DbAgrees
<1>1. AgentsInv => DbAgrees
  BY DEF AgentsInv, DbAgrees, SavesAreExact, Saved
<1> QED
  BY <1>1, AgentsInvariant, PTL

(* A task that has ended does not become open again.                         *)
THEOREM EndIsFinal == Spec => EndedStaysEnded
<1>1. AgentsInv /\ [Next]_vars =>
        [\A t \in Tasks : memory[t] \in Ended => memory'[t] \in Ended \cup {"none"}]_vars
  <2> SUFFICES ASSUME AgentsInv, Next, NEW t \in Tasks, memory[t] \in Ended
               PROVE  memory'[t] \in Ended \cup {"none"}
    BY DEF EndedStaysEnded
  <2>1. ASSUME NEW u \in Tasks, NEW s \in Ended, PutIfKnown(u, s) \/ Put(u, s)
        PROVE  memory'[t] \in Ended
    BY <2>1 DEF PutIfKnown, Put, AgentsInv, TypeOK
  <2>2. ASSUME NEW u \in Tasks,
               \/ Post(u) \/ Listens(u) \/ Accepted(u) \/ Rejected(u)
               \/ GoesToBackground(u) \/ ForcedCleanup(u) \/ Cancel(u)
               \/ Progress(u) \/ RunEnds(u) \/ Expires(u)
        PROVE  memory'[t] \in Ended \cup {"none"}
    <3>1. CASE Post(u)
      <4>1. memory[u] = "none" /\ Put(u, "pending")
        BY <3>1 DEF Post, AgentsInv, Untouched
      <4> QED
        BY <4>1 DEF Put, AgentsInv, TypeOK, Ended
    <3>2. CASE Listens(u) \/ Accepted(u) \/ GoesToBackground(u) \/ ForcedCleanup(u)
      BY <3>2 DEF Listens, Accepted, GoesToBackground, ForcedCleanup
    <3>3. CASE Rejected(u) \/ Cancel(u)
      BY <2>1, <3>3 DEF Rejected, Cancel, Ended
    <3>4. CASE Progress(u)
      BY <3>4 DEF Progress, Progressed, Ended
    <3>5. CASE RunEnds(u)
      <4>1. CASE listeners = <<>> \/ u \notin tracked
        BY <3>5, <4>1 DEF RunEnds
      <4>2. CASE ~(listeners = <<>> \/ u \notin tracked)
        <5>1. Head(listeners) \in Tasks
          BY <4>2 DEF AgentsInv, TypeOK
        <5>2. \E s \in {"completed", "failed"} : PutIfKnown(Head(listeners), s)
          BY <3>5, <4>2 DEF RunEnds
        <5> QED
          BY <2>1, <5>1, <5>2 DEF Ended
      <4> QED
        BY <4>1, <4>2
    <3>6. CASE Expires(u)
      BY <3>6 DEF Expires, PutInMemory, AgentsInv, TypeOK
    <3> QED
      BY <2>2, <3>1, <3>2, <3>3, <3>4, <3>5, <3>6
  <2>3. CASE (\E w \in writes : WriteLands(w)) \/ RestoreScans \/ RestoreMarks
    BY <2>3 DEF WriteLands, RestoreScans, RestoreMarks
  <2>4. CASE RestoreLoads \/ Crash
    BY <2>4 DEF RestoreLoads, Crash, Ended
  <2> QED
    BY <2>2, <2>3, <2>4 DEF Next
<1> QED
  BY <1>1, AgentsInvariant, PTL DEF Spec, EndedStaysEnded
=============================================================================
