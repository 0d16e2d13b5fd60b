------------------------- MODULE DeliveryQueueProofs -------------------------
(***************************************************************************)
(* No accepted delivery is forgotten, the attempts on it are bounded, and   *)
(* one that was retired stays so: proofs for any set of deliveries, any     *)
(* number of retries and any number of crashes.                             *)
(***************************************************************************)
EXTENDS DeliveryQueue, TLAPS

(* ToSet of a sequence that grows by one element. *)
LEMMA ToSetAppend ==
  ASSUME NEW S, NEW s \in Seq(S), NEW x \in S
  PROVE  ToSet(Append(s, x)) = ToSet(s) \cup {x}
<1> DEFINE t == Append(s, x)
<1>1. /\ Len(t) = Len(s) + 1 /\ Len(s) \in Nat
      /\ DOMAIN s = 1..Len(s) /\ DOMAIN t = 1..Len(t)
      /\ t[Len(s) + 1] = x /\ \A i \in 1..Len(s) : t[i] = s[i]
  OBVIOUS
<1> HIDE DEF t
<1>2. DOMAIN t = DOMAIN s \cup {Len(s) + 1}
  BY <1>1
<1>3. ToSet(t) = ToSet(s) \cup {x}
  BY <1>1, <1>2 DEF ToSet
<1> QED
  BY <1>3 DEF t

(* The initial state satisfies the invariant. *)
LEMMA InitEstablishes == Init => IInv
  BY DEF Init, IInv, CallsAreHonest, NothingForgotten, At, Rest, Calls, Listed, Step, ToSet

(* Writing an entry before the send keeps the invariant. *)
LEMMA EnqueueKeeps ==
  ASSUME IInv, NEW d \in Deliveries, EnqueueDelivery(d)
  PROVE  IInv'
<1>1. json' \in [Deliveries -> Entries \cup {NoFile}] /\ json'[d] # NoFile
  <2>1. NewEntry \in Entries
    BY DEF NewEntry, Entries
  <2> QED
    BY <2>1, NoFileAssumption DEF EnqueueDelivery, IInv
<1>2. live' \in [Deliveries -> Calls]
  BY DEF EnqueueDelivery, IInv, At, Calls, Step
<1>3. enqueued' \in Seq(Deliveries) /\ ToSet(enqueued') = ToSet(enqueued) \cup {d}
  BY ToSetAppend DEF EnqueueDelivery, IInv
<1>4. CallsAreHonest'
  BY DEF EnqueueDelivery, IInv, CallsAreHonest, At, Id
<1>5. NothingForgotten'
  <2>1. \A e \in Deliveries \ {d} : json'[e] = json[e]
    BY DEF EnqueueDelivery, IInv
  <2>2. ToSet(enqueued) \subseteq Deliveries
    BY DEF IInv, ToSet
  <2> QED
    BY <1>1, <1>3, <2>1, <2>2 DEF EnqueueDelivery, IInv, NothingForgotten
<1> QED
  BY <1>1, <1>2, <1>3, <1>4, <1>5 DEF EnqueueDelivery, IInv

(* A call that goes on without an entry keeps the invariant. *)
LEMMA UnqueuedKeeps ==
  ASSUME IInv, NEW d \in Deliveries, DeliverUnqueued(d)
  PROVE  IInv'
<1>1. live' \in [Deliveries -> Calls]
  BY DEF DeliverUnqueued, IInv, At, Calls, Step
<1>2. CallsAreHonest'
  BY DEF DeliverUnqueued, IInv, CallsAreHonest, At, Id
<1> QED
  BY <1>1, <1>2 DEF DeliverUnqueued, IInv, NothingForgotten, files, history

(* The end of a send is either good news, or leads to failDelivery. *)
LEMMA LiveSendKeeps ==
  ASSUME IInv, NEW d \in Deliveries, LiveSends(d)
  PROVE  IInv'
<1>1. PICK r \in Results(d, d \in Observed) \cup {Result("acking", FALSE, TRUE)} :
           /\ live' = [live EXCEPT ![d] = At(r.next)]
           /\ Happened(d, r)
  BY DEF LiveSends
<1>2. /\ r.next \in {"acking", "failing"}
      /\ r.next = "acking" => r.sent \/ r.given
  BY DEF Results, Swallows, Result
<1>3. /\ sent \cup given \subseteq sent' \cup given'
      /\ r.next = "acking" => d \in sent' \cup given'
  BY <1>1, <1>2 DEF Happened
<1>4. live' \in [Deliveries -> Calls]
  BY <1>1, <1>2 DEF IInv, At, Calls, Step
<1>5. CallsAreHonest'
  <2>1. \A e \in Deliveries : live'[e] = IF e = d THEN At(r.next) ELSE live[e]
    BY <1>1 DEF IInv
  <2> QED
    BY <1>2, <1>3, <2>1 DEF LiveSends, IInv, CallsAreHonest, At, Id
<1> QED
  BY <1>3, <1>4, <1>5 DEF LiveSends, IInv, NothingForgotten, files, history

(* The file operations of a call that is honest: an entry leaves the queue   *)
(* only when its delivery arrived or was given up.                           *)
LEMMA SettleKeeps ==
  ASSUME IInv, NEW d, NEW c, Settle(d, c),
         c.step = "acking" => d \in sent \cup given,
         c.step = "writing" => c.read \in Entries,
         UNCHANGED <<enqueued, sent, given>>
  PROVE  /\ json' \in [Deliveries -> Entries \cup {NoFile}]
         /\ NothingForgotten'
<1> USE DEF IInv
<1>1. CASE c.step = "acking" /\ AckRenames(d)
  <2>1. \A e \in Deliveries : json'[e] = json[e] \/ e = d
    BY <1>1 DEF AckRenames
  <2>2. ToSet(enqueued) \subseteq Deliveries
    BY DEF ToSet
  <2>3. json' \in [Deliveries -> Entries \cup {NoFile}] /\ failedDir' = failedDir
    BY <1>1 DEF AckRenames
  <2> QED
    BY <1>1, <2>1, <2>2, <2>3 DEF NothingForgotten
<1>2. CASE c.step = "unlinking" /\ AckUnlinks(d)
  BY <1>2 DEF AckUnlinks, NothingForgotten
<1>3. CASE c.step = "failing" /\ UNCHANGED <<files, acked>>
  BY <1>3 DEF files, NothingForgotten
<1>4. CASE c.step = "writing" /\ FailWrites(d, c)
  <2>1. Counted(c.read) \in Entries
    BY <1>4 DEF Counted, Entries
  <2>2. json' \in [Deliveries -> Entries \cup {NoFile}] /\ failedDir' = failedDir
    BY <1>4, <2>1 DEF FailWrites
  <2>3. \A e \in Deliveries : json'[e] = json[e] \/ json'[e] # NoFile
    BY <1>4, <2>1, NoFileAssumption DEF FailWrites
  <2>4. ToSet(enqueued) \subseteq Deliveries
    BY DEF ToSet
  <2> QED
    BY <2>2, <2>3, <2>4 DEF NothingForgotten
<1> QED
  BY <1>1, <1>2, <1>3, <1>4 DEF Settle

(* What a call does next is harmless unless it has read an entry. *)
LEMMA StepAfterFacts ==
  ASSUME IInv, NEW d \in Deliveries, NEW c
  PROVE  /\ StepAfter(d, c) \in Calls
         /\ StepAfter(d, c).step # "acking"
         /\ StepAfter(d, c).step = "writing" => StepAfter(d, c).read \in Entries
  BY DEF StepAfter, At, IInv, Calls, Step

LEMMA LiveSettleKeeps ==
  ASSUME IInv, NEW d \in Deliveries, LiveSettles(d)
  PROVE  IInv'
<1> DEFINE next == StepAfter(d, live[d])
<1>1. /\ next \in Calls
      /\ next.step # "acking" /\ (next.step = "writing" => next.read \in Entries)
  BY StepAfterFacts
<1>2. live' = [live EXCEPT ![d] = next]
  BY DEF LiveSettles
<1>3. Settle(d, live[d]) /\ UNCHANGED <<enqueued, sent, given, recovery>>
  BY DEF LiveSettles, history
<1>4. /\ live[d].step = "acking" => d \in sent \cup given
      /\ live[d].step = "writing" => live[d].read \in Entries
  BY DEF IInv, CallsAreHonest
<1>5. json' \in [Deliveries -> Entries \cup {NoFile}] /\ NothingForgotten'
  BY <1>3, <1>4, SettleKeeps
<1> HIDE DEF next
<1>6. live' \in [Deliveries -> Calls]
  BY <1>1, <1>2 DEF IInv
<1>7. CallsAreHonest'
  <2>1. \A e \in Deliveries : live'[e] = IF e = d THEN next ELSE live[e]
    BY <1>2 DEF IInv
  <2> QED
    BY <1>1, <1>3, <2>1 DEF IInv, CallsAreHonest, Id
<1> QED
  BY <1>3, <1>5, <1>6, <1>7 DEF IInv

(* Steps of the recovery loop that touch no file and start no acknowledgement. *)
LEMMA LoopKeeps ==
  ASSUME IInv, UNCHANGED <<json, failedDir, live, enqueued, sent, given>>,
         recovery' \in [at : Calls, entry : Listed \cup {NoFile}, todo : SUBSET Listed],
         recovery'.entry = NoFile <=> recovery'.at.step \in {"scan", "next", "off"},
         recovery'.at.step \notin {"acking", "writing"}
  PROVE  IInv'
  BY DEF IInv, CallsAreHonest, NothingForgotten, Id

LEMMA ScanKeeps ==
  ASSUME IInv, RecoveryScans
  PROVE  IInv'
<1> DEFINE found == {d \in ToSet(enqueued) : json[d] # NoFile}
<1>1. ToSet(enqueued) \subseteq Deliveries
  BY DEF IInv, ToSet
<1>2. \A d \in found : json[d] \in Entries
  BY <1>1 DEF IInv
<1>3. \A d \in found : Entry(d) \in Listed
  BY <1>1, <1>2 DEF Entry, Listed, Entries
<1>4. recovery' = [at |-> At("next"), entry |-> NoFile, todo |-> {Entry(d) : d \in found}]
  BY DEF RecoveryScans, Rest
<1> HIDE DEF found
<1>5. {Entry(d) : d \in found} \in SUBSET Listed
  BY <1>3
<1>6. At("next") \in Calls /\ At("next").step = "next"
  BY DEF At, Calls, Step
<1> QED
  BY <1>4, <1>5, <1>6, LoopKeeps DEF RecoveryScans

LEMMA StopKeeps ==
  ASSUME IInv, RecoveryStops
  PROVE  IInv'
<1>1. recovery' = [at |-> At("off"), entry |-> NoFile, todo |-> {}]
  BY DEF RecoveryStops, Rest
<1>2. At("off") \in Calls /\ At("off").step = "off"
  BY DEF At, Calls, Step
<1> QED
  BY <1>1, <1>2, LoopKeeps DEF RecoveryStops, files, history

LEMMA TakeKeeps ==
  ASSUME IInv, NEW e \in recovery.todo,
         RecoveryGivesUp(e) \/ RecoveryDefers(e) \/ RecoveryStarts(e)
  PROVE  IInv'
<1>1. e \in Listed /\ recovery.todo \ {e} \in SUBSET Listed
  BY DEF IInv
<1>2. e # NoFile
  BY <1>1, ListedAssumption DEF Listed
<1>3. /\ At("moving") \in Calls /\ At("moving").step = "moving"
      /\ At("sending") \in Calls /\ At("sending").step = "sending"
      /\ At("next").step = "next"
  BY DEF At, Calls, Step
<1>4. CASE RecoveryGivesUp(e)
  BY <1>1, <1>2, <1>3, <1>4, LoopKeeps DEF RecoveryGivesUp, Takes, files, history
<1>5. CASE RecoveryDefers(e)
  <2>1. /\ recovery' = [recovery EXCEPT !.todo = recovery.todo \ {e}]
        /\ recovery.at = At("next")
    BY <1>5 DEF RecoveryDefers, IsNext
  <2> QED
    BY <1>1, <1>3, <1>5, <2>1, LoopKeeps DEF RecoveryDefers, files, history, IInv
<1>6. CASE RecoveryStarts(e)
  BY <1>1, <1>2, <1>3, <1>6, LoopKeeps DEF RecoveryStarts, Takes, files
<1> QED
  BY <1>4, <1>5, <1>6

LEMMA RecoverySendKeeps ==
  ASSUME IInv, RecoverySends
  PROVE  IInv'
<1>1. PICK r \in Results(Id, FALSE) \cup {Result("moving", FALSE, FALSE)} :
           /\ recovery' = Proceed(At(r.next))
           /\ Happened(Id, r)
  BY DEF RecoverySends
<1>2. /\ r.next \in {"acking", "failing", "moving"}
      /\ r.next = "acking" => r.sent \/ r.given
  BY DEF Results, Swallows, Result
<1>3. /\ sent \cup given \subseteq sent' \cup given'
      /\ r.next = "acking" => Id \in sent' \cup given'
  BY <1>1, <1>2 DEF Happened
<1>4. /\ At(r.next) \in Calls /\ At(r.next).step = r.next
  BY <1>2 DEF At, Calls, Step
<1>5. /\ recovery' \in [at : Calls, entry : Listed \cup {NoFile}, todo : SUBSET Listed]
      /\ recovery'.at.step = r.next /\ recovery'.entry = recovery.entry
  BY <1>1, <1>4 DEF Proceed, IInv
<1>6. recovery.entry # NoFile
  BY DEF RecoverySends, IInv, At
<1>7. CallsAreHonest'
  BY <1>2, <1>3, <1>5 DEF RecoverySends, IInv, CallsAreHonest, Id
<1> QED
  BY <1>2, <1>3, <1>5, <1>6, <1>7 DEF RecoverySends, IInv, NothingForgotten, files, history

LEMMA RecoverySettleKeeps ==
  ASSUME IInv, RecoverySettles
  PROVE  IInv'
<1> DEFINE next == StepAfter(Id, recovery.at)
<1>1. recovery.entry \in Listed /\ Id \in Deliveries
  BY DEF RecoverySettles, IInv, Id, Listed
<1>2. /\ next \in Calls /\ next.step # "acking"
      /\ next.step = "writing" => next.read \in Entries
      /\ next = At("done") \/ next.step \in {"unlinking", "writing"}
  BY <1>1, StepAfterFacts DEF StepAfter, At
<1>3. /\ recovery.at.step = "acking" => Id \in sent \cup given
      /\ recovery.at.step = "writing" => recovery.at.read \in Entries
  BY DEF IInv, CallsAreHonest
<1>4. json' \in [Deliveries -> Entries \cup {NoFile}] /\ NothingForgotten'
  BY <1>3, SettleKeeps DEF RecoverySettles, history
<1>5. recovery' = IF next = At("done") THEN EntryDone ELSE Proceed(next)
  BY DEF RecoverySettles
<1> HIDE DEF next
<1>6. /\ recovery' \in [at : Calls, entry : Listed \cup {NoFile}, todo : SUBSET Listed]
      /\ recovery'.entry = NoFile <=> recovery'.at.step \in {"scan", "next", "off"}
      /\ recovery'.at.step # "acking"
      /\ recovery'.at.step = "writing" => recovery'.at.read \in Entries
  <2>1. CASE next = At("done")
    BY <1>5, <2>1 DEF EntryDone, IInv, At, Calls, Step
  <2>2. CASE next # At("done")
    BY <1>1, <1>2, <1>5, <2>2 DEF Proceed, IInv, RecoverySettles
  <2> QED
    BY <2>1, <2>2
<1> QED
  BY <1>4, <1>6 DEF RecoverySettles, IInv, CallsAreHonest, history

LEMMA MoveKeeps ==
  ASSUME IInv, RecoveryMoves
  PROVE  IInv'
<1>1. /\ recovery' \in [at : Calls, entry : Listed \cup {NoFile}, todo : SUBSET Listed]
      /\ recovery'.entry = NoFile /\ recovery'.at.step = "next"
  BY DEF RecoveryMoves, EntryDone, IInv, At, Calls, Step
<1>2. json' \in [Deliveries -> Entries \cup {NoFile}]
  BY DEF RecoveryMoves, IInv
<1>3. NothingForgotten'
  <2>1. ToSet(enqueued) \subseteq Deliveries
    BY DEF IInv, ToSet
  <2>2. \A d \in Deliveries : json'[d] = json[d] \/ d \in failedDir'
    BY DEF RecoveryMoves, IInv
  <2>3. failedDir \subseteq failedDir'
    BY DEF RecoveryMoves
  <2> QED
    BY <2>1, <2>2, <2>3 DEF RecoveryMoves, IInv, NothingForgotten, history
<1> QED
  BY <1>1, <1>2, <1>3 DEF RecoveryMoves, IInv, CallsAreHonest, history

(* A crash forgets the calls, and with them every duty but the files. *)
LEMMA CrashKeeps ==
  ASSUME IInv, Crash
  PROVE  IInv'
<1>1. live' \in [Deliveries -> Calls]
      /\ \A d \in Deliveries : live'[d].step \in {"new", "done"}
  BY DEF Crash, At, Calls, Step
<1>2. recovery' \in [at : Calls, entry : Listed \cup {NoFile}, todo : SUBSET Listed]
      /\ recovery'.entry = NoFile /\ recovery'.at.step = "scan"
  BY DEF Crash, Rest, At, Calls, Step
<1> QED
  BY <1>1, <1>2 DEF Crash, IInv, CallsAreHonest, NothingForgotten, files

(* IInv is an invariant of the delivery queue. *)
THEOREM InductiveInvariant == Spec => []IInv
<1>1. Init => IInv
  BY InitEstablishes
<1>2. IInv /\ [Next]_vars => IInv'
  <2> SUFFICES ASSUME IInv, [Next]_vars PROVE IInv'
    OBVIOUS
  <2>1. CASE \E d \in Deliveries : Live(d)
    BY <2>1, EnqueueKeeps, UnqueuedKeeps, LiveSendKeeps, LiveSettleKeeps DEF Live
  <2>2. CASE Recovery
    BY <2>2, ScanKeeps, StopKeeps, TakeKeeps, RecoverySendKeeps, RecoverySettleKeeps,
       MoveKeeps DEF Recovery
  <2>3. CASE Crash
    BY <2>3, CrashKeeps
  <2>4. CASE UNCHANGED vars
    BY <2>4 DEF vars, IInv, CallsAreHonest, NothingForgotten, Id
  <2> QED
    BY <2>1, <2>2, <2>3, <2>4 DEF Next
<1> QED
  BY <1>1, <1>2, PTL DEF Spec

(* No accepted delivery is forgotten, wherever crashes fall. *)
THEOREM NoDeliveryIsForgotten == Spec => []NothingForgotten
  BY InductiveInvariant, PTL DEF IInv

-----------------------------------------------------------------------------
(* How often recovery tries a delivery, and that a delivery which was       *)
(* retired is neither put back nor tried again.                             *)

(* What the parts of the invariant speak of stays as it is when the          *)
(* recovery loop does not move.                                              *)
LEMMA LoopStands ==
  ASSUME UNCHANGED recovery, NEW d
  PROVE  /\ Listing(d)' = Listing(d) /\ Working(d)' = Working(d)
         /\ Untaken(d)' = Untaken(d) /\ Unrecorded(d)' = Unrecorded(d)
         /\ Id' = Id
  BY DEF Listing, Working, Untaken, Unrecorded, Id, At

(* A delivery that recovery has not come to is not in its hands.             *)
LEMMA UntakenIsUnrecorded ==
  ASSUME IInv, ListIsExact, NEW d, Untaken(d)
  PROVE  ~Working(d) /\ Unrecorded(d) = 0
  BY DEF IInv, ListIsExact, Untaken, Listing, Working, Unrecorded, At

LEMMA InitCounts == Init => AttemptInv
  BY BoundAssumption
     DEF Init, AttemptInv, ListIsExact, AttemptsAreCounted, AttemptsAreBounded,
         Listing, Working, Untaken, Unrecorded, At, Rest

LEMMA EnqueueCounts ==
  ASSUME IInv, AttemptInv, NEW d \in Deliveries, EnqueueDelivery(d)
  PROVE  AttemptInv'
<1> USE DEF AttemptInv
<1>1. /\ UNCHANGED <<recovery, attempts, interrupted>>
      /\ live[d] = At("new") /\ live' = [live EXCEPT ![d] = At("sending")]
      /\ json' = [json EXCEPT ![d] = NewEntry]
  BY DEF EnqueueDelivery
<1>2. \A e \in Deliveries : /\ e # d => live'[e] = live[e] /\ json'[e] = json[e]
                            /\ live'[d] = At("sending") /\ json'[d] = NewEntry
  BY <1>1 DEF IInv
<1>3. ListIsExact'
  BY <1>1, <1>2, LoopStands DEF ListIsExact, At
<1>4. AttemptsAreCounted'
  <2>1. attempts[d] = 0 /\ interrupted[d] \in Nat /\ Unrecorded(d) \in Nat
    BY <1>1 DEF AttemptsAreCounted, Unrecorded, At
  <2> QED
    BY <1>1, <1>2, <2>1, LoopStands DEF AttemptsAreCounted, At, NewEntry
<1> QED
  BY <1>1, <1>3, <1>4 DEF AttemptsAreBounded

(* A live call that goes on to a step in which it has read nothing.          *)
LEMMA LiveMoveCounts ==
  ASSUME IInv, AttemptInv, NEW d \in Deliveries, NEW next, next.step # "new",
         next.step # "writing", live' = [live EXCEPT ![d] = next],
         UNCHANGED <<json, recovery, attempts, interrupted>>
  PROVE  AttemptInv'
<1>1. \A e \in Deliveries : live'[e] = IF e = d THEN next ELSE live[e]
  BY DEF IInv
<1>2. ListIsExact'
  BY <1>1, LoopStands DEF AttemptInv, ListIsExact
<1>3. AttemptsAreCounted'
  BY <1>1, LoopStands DEF AttemptInv, AttemptsAreCounted
<1> QED
  BY <1>2, <1>3 DEF AttemptInv, AttemptsAreBounded

LEMMA LiveSettleCounts ==
  ASSUME IInv, AttemptInv, NEW d \in Deliveries, LiveSettles(d)
  PROVE  AttemptInv'
<1> DEFINE c == live[d]
           next == StepAfter(d, c)
<1>1. /\ UNCHANGED <<recovery, attempts, interrupted>>
      /\ live' = [live EXCEPT ![d] = next] /\ Settle(d, c)
  BY DEF LiveSettles, history
<1>2. next.step # "new" /\ c.step # "new"
  BY <1>1 DEF StepAfter, At, Settle
<1>3. \A e \in Deliveries : live'[e] = IF e = d THEN next ELSE live[e]
  BY <1>1 DEF IInv
<1>4. CASE c.step = "acking" /\ AckRenames(d)
  <2>1. next.step # "writing"
    BY <1>4 DEF StepAfter, At
  <2>2. \A e \in Deliveries : json'[e] = json[e] \/ json'[e] = NoFile
    BY <1>4 DEF AckRenames, IInv
  <2> HIDE DEF next, c
  <2>3. ListIsExact'
    BY <1>1, <1>2, <1>3, <2>2, LoopStands DEF AttemptInv, ListIsExact
  <2>4. AttemptsAreCounted'
    BY <1>1, <1>2, <1>3, <2>1, <2>2, LoopStands DEF AttemptInv, AttemptsAreCounted
  <2> QED
    BY <1>1, <2>3, <2>4 DEF AttemptInv, AttemptsAreBounded
<1>5. CASE c.step = "unlinking" /\ AckUnlinks(d)
  <2>1. next.step # "writing" /\ UNCHANGED json
    BY <1>5 DEF StepAfter, At, AckUnlinks
  <2> QED
    BY <1>1, <1>2, <2>1, LiveMoveCounts
<1>6. CASE c.step = "failing" /\ UNCHANGED <<files, acked>>
  <2>1. CASE json[d] = NoFile
    <3>1. next.step # "writing" /\ UNCHANGED json
      BY <1>6, <2>1 DEF StepAfter, At, files
    <3> QED
      BY <1>1, <1>2, <3>1, LiveMoveCounts
  <2>2. CASE json[d] # NoFile
    <3>1. next = [step |-> "writing", read |-> json[d]] /\ UNCHANGED json
      BY <1>6, <2>2 DEF StepAfter, files
    <3>2. ListIsExact'
      BY <1>1, <1>2, <1>3, <3>1, LoopStands DEF AttemptInv, ListIsExact
    <3>3. attempts[d] <= json[d].retryCount + interrupted[d] + IF Untaken(d) THEN 0 ELSE 1
      <4>1. attempts[d] <= json[d].retryCount + interrupted[d] + Unrecorded(d)
        BY <2>2 DEF AttemptInv, AttemptsAreCounted
      <4>2. json[d].retryCount \in Nat /\ interrupted[d] \in Nat /\ attempts[d] \in Nat
        BY <2>2 DEF AttemptInv, AttemptsAreCounted, IInv, Entries
      <4>3. Unrecorded(d) \in {0, 1} /\ (Untaken(d) => Unrecorded(d) = 0)
        BY UntakenIsUnrecorded DEF Unrecorded, AttemptInv
      <4> QED
        BY <4>1, <4>2, <4>3
    <3> HIDE DEF next, c
    <3>4. AttemptsAreCounted'
      BY <1>1, <1>3, <3>1, <3>3, LoopStands DEF AttemptInv, AttemptsAreCounted, At
    <3> QED
      BY <1>1, <3>2, <3>4 DEF AttemptInv, AttemptsAreBounded
  <2> QED
    BY <2>1, <2>2
<1>7. CASE c.step = "writing" /\ FailWrites(d, c)
  <2>1. next.step # "writing"
    BY <1>7 DEF StepAfter, At
  <2>2. /\ json' = [json EXCEPT ![d] = Counted(c.read)] /\ c.read \in Entries
    BY <1>7 DEF FailWrites, IInv, CallsAreHonest
  <2>3. attempts[d] <= Counted(c.read).retryCount + interrupted[d] + Unrecorded(d)
    <3>1. attempts[d] <= c.read.retryCount + interrupted[d] + IF Untaken(d) THEN 0 ELSE 1
      BY <1>7 DEF AttemptInv, AttemptsAreCounted
    <3>2. c.read.retryCount \in Nat /\ interrupted[d] \in Nat /\ attempts[d] \in Nat
      BY <2>2 DEF AttemptInv, AttemptsAreCounted, Entries
    <3>3. Unrecorded(d) \in Nat
      BY DEF Unrecorded
    <3> QED
      BY <3>1, <3>2, <3>3 DEF Counted
  <2>4. \A e \in Deliveries : json'[e] = IF e = d THEN Counted(c.read) ELSE json[e]
    BY <2>2 DEF IInv
  <2> HIDE DEF next, c
  <2>5. ListIsExact'
    BY <1>1, <1>2, <1>3, <2>4, LoopStands DEF AttemptInv, ListIsExact
  <2>6. AttemptsAreCounted'
    BY <1>1, <1>2, <1>3, <2>1, <2>3, <2>4, LoopStands DEF AttemptInv, AttemptsAreCounted
  <2> QED
    BY <1>1, <2>5, <2>6 DEF AttemptInv, AttemptsAreBounded
<1> QED
  BY <1>1, <1>4, <1>5, <1>6, <1>7 DEF Settle

LEMMA ScanCounts ==
  ASSUME IInv, AttemptInv, RecoveryScans
  PROVE  AttemptInv'
<1> DEFINE found == {d \in ToSet(enqueued) : json[d] # NoFile}
<1>1. ToSet(enqueued) \subseteq Deliveries
  BY DEF IInv, ToSet
<1>2. /\ recovery' = [at |-> At("next"), entry |-> NoFile, todo |-> {Entry(d) : d \in found}]
      /\ recovery.at = At("scan")
      /\ UNCHANGED <<json, live, attempts, interrupted>>
  BY DEF RecoveryScans, Rest
<1>3. \A d : ~Working(d)' /\ Unrecorded(d)' = 0 /\ Unrecorded(d) = 0 /\ Untaken(d)
  BY <1>2 DEF Working, Unrecorded, Untaken, IInv, At
<1>4. \A d : Listing(d)' => d \in found
  BY <1>2 DEF Listing, Entry
<1>5. ListIsExact'
  BY <1>1, <1>2, <1>3, <1>4 DEF AttemptInv, ListIsExact, Entry
<1>6. AttemptsAreCounted'
  <2>1. \A e \in recovery'.todo : attempts[e.id] <= e.retryCount + interrupted[e.id]
    <3>1. \A d \in found : attempts[d] <= json[d].retryCount + interrupted[d]
      <4> SUFFICES ASSUME NEW d \in found PROVE attempts[d] <= json[d].retryCount + interrupted[d]
        OBVIOUS
      <4>1. attempts[d] <= json[d].retryCount + interrupted[d] + Unrecorded(d)
        BY <1>1 DEF AttemptInv, AttemptsAreCounted
      <4>2. json[d].retryCount \in Nat /\ interrupted[d] \in Nat /\ Unrecorded(d) = 0
        BY <1>1, <1>3 DEF AttemptInv, AttemptsAreCounted, IInv, Entries
      <4> QED
        BY <4>1, <4>2
    <3> QED
      BY <1>2, <3>1 DEF Entry
  <2>2. recovery'.at.step # "writing"
    BY <1>2 DEF At
  <2>3. \A d \in Deliveries : interrupted[d] \in Nat /\ attempts[d] \in Nat
    BY DEF AttemptInv, AttemptsAreCounted
  <2>4. \A d \in Deliveries : live[d].step = "writing" => live[d].read.retryCount \in Nat
    BY DEF IInv, CallsAreHonest, Entries
  <2>5. \A d \in Deliveries : live[d].step = "writing" =>
          attempts[d] <= live[d].read.retryCount + interrupted[d] + IF Untaken(d)' THEN 0 ELSE 1
    BY <1>3, <2>3, <2>4 DEF AttemptInv, AttemptsAreCounted
  <2> HIDE DEF found
  <2> QED
    BY <1>2, <1>3, <2>1, <2>2, <2>5 DEF AttemptInv, AttemptsAreCounted
<1> QED
  BY <1>2, <1>5, <1>6 DEF AttemptInv, AttemptsAreBounded

(* The recovery loop moves on within its list: nothing new is listed, what   *)
(* it leaves unrecorded it had left unrecorded before, and it may take       *)
(* entries away.                                                             *)
LEMMA LoopCounts ==
  ASSUME IInv, AttemptInv, UNCHANGED <<live, attempts, interrupted>>,
         \A d \in Deliveries : json'[d] = json[d] \/ json'[d] = NoFile,
         recovery'.todo \subseteq recovery.todo, recovery'.at # At("scan"),
         recovery'.at.step = "writing" =>
           attempts[Id'] <= recovery'.at.read.retryCount + interrupted[Id'] + 1,
         \A d \in Deliveries : Working(d)' => (Working(d) \/ Listing(d)) /\ ~Listing(d)',
         \A d \in Deliveries : json'[d] # NoFile => Unrecorded(d) <= Unrecorded(d)'
  PROVE  AttemptInv'
<1>1. \A d \in Deliveries : Listing(d)' => Listing(d)
  BY DEF Listing
<1>2. \A e \in recovery'.todo : e.id \in Deliveries /\ e \in recovery.todo
  BY DEF IInv, Listed
<1>3. ListIsExact'
  <2>1. \A e \in recovery'.todo : Listing(e.id)'
    BY DEF Listing
  <2> QED
    BY <1>1, <1>2, <2>1 DEF AttemptInv, ListIsExact
<1>4. \A d \in Deliveries : Untaken(d)' => Untaken(d)
  BY <1>1 DEF Untaken
<1>5. \A d \in Deliveries : /\ interrupted[d] \in Nat /\ attempts[d] \in Nat
                            /\ Unrecorded(d) \in Nat /\ Unrecorded(d)' \in Nat
  BY DEF AttemptInv, AttemptsAreCounted, Unrecorded
<1>6. \A d \in Deliveries : json'[d] # NoFile =>
        attempts[d] <= json'[d].retryCount + interrupted[d] + Unrecorded(d)'
  <2> SUFFICES ASSUME NEW d \in Deliveries, json'[d] # NoFile
               PROVE  attempts[d] <= json[d].retryCount + interrupted[d] + Unrecorded(d)'
    OBVIOUS
  <2>1. attempts[d] <= json[d].retryCount + interrupted[d] + Unrecorded(d)
    BY DEF AttemptInv, AttemptsAreCounted
  <2>2. json[d].retryCount \in Nat
    BY DEF IInv, Entries
  <2> QED
    BY <1>5, <2>1, <2>2
<1>7. \A d \in Deliveries : live[d].step = "writing" =>
        attempts[d] <= live[d].read.retryCount + interrupted[d] + IF Untaken(d)' THEN 0 ELSE 1
  <2> SUFFICES ASSUME NEW d \in Deliveries, live[d].step = "writing"
               PROVE  attempts[d] <= live[d].read.retryCount + interrupted[d]
                                       + IF Untaken(d)' THEN 0 ELSE 1
    OBVIOUS
  <2>1. attempts[d] <= live[d].read.retryCount + interrupted[d] + IF Untaken(d) THEN 0 ELSE 1
    BY DEF AttemptInv, AttemptsAreCounted
  <2>2. live[d].read.retryCount \in Nat
    BY DEF IInv, CallsAreHonest, Entries
  <2> QED
    BY <1>4, <1>5, <2>1, <2>2
<1>8. AttemptsAreCounted'
  BY <1>2, <1>6, <1>7 DEF AttemptInv, AttemptsAreCounted
<1> QED
  BY <1>3, <1>8 DEF AttemptInv, AttemptsAreBounded

LEMMA StopCounts ==
  ASSUME IInv, AttemptInv, RecoveryStops
  PROVE  AttemptInv'
<1>1. recovery' = [at |-> At("off"), entry |-> NoFile, todo |-> {}] /\ recovery.at = At("next")
  BY DEF RecoveryStops, Rest
<1>2. \A d : ~Working(d) /\ ~Working(d)'
  BY <1>1 DEF Working, IInv, At
<1> QED
  BY <1>1, <1>2, LoopCounts DEF RecoveryStops, files, history, At, Unrecorded

(* An entry that is set aside, for good or until the next start.             *)
LEMMA AsideCounts ==
  ASSUME IInv, AttemptInv, NEW e \in recovery.todo, RecoveryGivesUp(e) \/ RecoveryDefers(e)
  PROVE  AttemptInv'
<1>1. e \in Listed /\ e # NoFile
  BY ListedAssumption DEF IInv
<1>2. /\ recovery'.todo = recovery.todo \ {e}
      /\ \/ recovery'.entry = e /\ recovery'.at = At("moving")
         \/ recovery'.entry = recovery.entry /\ recovery'.at = recovery.at
      /\ recovery.at = At("next") /\ UNCHANGED <<json, live, attempts, interrupted>>
  BY DEF RecoveryGivesUp, RecoveryDefers, Takes, IsNext, files, history, IInv
<1>3. \A d : ~Working(d)
  BY <1>2 DEF Working, IInv, At
<1>4. \A d : Working(d)' => d = e.id
  BY <1>2, <1>3 DEF Working, Id
<1>5. Listing(e.id) /\ ~Listing(e.id)'
  BY <1>2 DEF Listing, AttemptInv, ListIsExact
<1> QED
  BY <1>2, <1>3, <1>4, <1>5, LoopCounts DEF At, Unrecorded

LEMMA StartCounts ==
  ASSUME IInv, AttemptInv, NEW e \in recovery.todo, RecoveryStarts(e)
  PROVE  AttemptInv'
<1>1. e \in Listed /\ e # NoFile /\ e.id \in Deliveries /\ e.retryCount \in Nat
  BY ListedAssumption DEF IInv, Listed
<1>2. /\ recovery' = [at |-> At("sending"), entry |-> e, todo |-> recovery.todo \ {e}]
      /\ recovery.at = At("next") /\ UNCHANGED <<json, live, interrupted>>
      /\ attempts' = [attempts EXCEPT ![e.id] = @ + 1]
      /\ e.retryCount < MaxRetries
  BY <1>1, BoundAssumption DEF RecoveryStarts, Takes, IsNext, Exhausted, files
<1>3. \A d : /\ ~Working(d) /\ Unrecorded(d) = 0
             /\ Working(d)' <=> d = e.id
             /\ Unrecorded(d)' = IF d = e.id THEN 1 ELSE 0
  BY <1>1, <1>2 DEF Working, Unrecorded, Id, IInv, At
<1>4. Listing(e.id) /\ ~Listing(e.id)' /\ (\A d : Listing(d)' => Listing(d))
      /\ \A d : d # e.id => (Untaken(d)' <=> Untaken(d))
  BY <1>2 DEF Listing, AttemptInv, ListIsExact, Untaken, At
<1>5. ListIsExact'
  <2>1. \A f \in recovery'.todo : Listing(f.id)' /\ f \in recovery.todo
    BY <1>2 DEF Listing
  <2> QED
    BY <1>1, <1>2, <1>3, <1>4, <2>1 DEF AttemptInv, ListIsExact
<1>6. \A d \in Deliveries :
        /\ attempts[d] \in Nat /\ interrupted[d] \in Nat
        /\ attempts'[d] = attempts[d] + IF d = e.id THEN 1 ELSE 0
        /\ json[d] # NoFile => json[d].retryCount \in Nat
        /\ live[d].step = "writing" => live[d].read.retryCount \in Nat
  BY <1>2 DEF AttemptInv, AttemptsAreCounted, IInv, CallsAreHonest, Entries
<1>7. attempts[e.id] <= e.retryCount + interrupted[e.id]
  BY DEF AttemptInv, AttemptsAreCounted
<1>8. AttemptsAreCounted'
  <2>1. attempts' \in [Deliveries -> Nat]
    BY <1>1, <1>2, <1>6 DEF AttemptInv, AttemptsAreCounted
  <2>2. \A d \in Deliveries : live[d].step = "new" => attempts'[d] = 0
    BY <1>1, <1>4, <1>6 DEF AttemptInv, AttemptsAreCounted, ListIsExact
  <2>3. \A d \in Deliveries : json[d] # NoFile =>
          attempts'[d] <= json[d].retryCount + interrupted[d] + Unrecorded(d)'
    BY <1>3, <1>6 DEF AttemptInv, AttemptsAreCounted
  <2>4. \A d \in Deliveries : live[d].step = "writing" =>
          attempts'[d] <= live[d].read.retryCount + interrupted[d] + IF Untaken(d)' THEN 0 ELSE 1
    <3> SUFFICES ASSUME NEW d \in Deliveries, live[d].step = "writing"
                 PROVE  attempts'[d] <= live[d].read.retryCount + interrupted[d]
                                          + IF Untaken(d)' THEN 0 ELSE 1
      OBVIOUS
    <3>1. attempts[d] <= live[d].read.retryCount + interrupted[d] + IF Untaken(d) THEN 0 ELSE 1
      BY DEF AttemptInv, AttemptsAreCounted
    <3>2. CASE d = e.id
      <4>1. Untaken(d) /\ ~Untaken(d)'
        BY <1>2, <1>4, <3>2 DEF Untaken, At
      <4> QED
        BY <1>6, <3>1, <3>2, <4>1
    <3>3. CASE d # e.id
      BY <1>4, <1>6, <3>1, <3>3
    <3> QED
      BY <3>2, <3>3
  <2>5. \A f \in recovery'.todo : f.id # e.id /\ f.id \in Deliveries /\ f \in recovery.todo
    BY <1>2 DEF AttemptInv, ListIsExact, IInv, Listed
  <2>6. \A f \in recovery'.todo : attempts'[f.id] <= f.retryCount + interrupted[f.id]
    BY <1>6, <2>5 DEF AttemptInv, AttemptsAreCounted, IInv, Listed
  <2>7. recovery'.at.step # "writing"
    BY <1>2 DEF At
  <2> QED
    BY <1>2, <2>1, <2>2, <2>3, <2>4, <2>6, <2>7 DEF AttemptInv, AttemptsAreCounted
<1>9. AttemptsAreBounded'
  BY <1>1, <1>2, <1>6, <1>7, BoundAssumption DEF AttemptInv, AttemptsAreBounded
<1> QED
  BY <1>5, <1>8, <1>9 DEF AttemptInv

LEMMA SendCounts ==
  ASSUME IInv, AttemptInv, RecoverySends
  PROVE  AttemptInv'
<1>1. PICK r \in Results(Id, FALSE) \cup {Result("moving", FALSE, FALSE)} :
           recovery' = Proceed(At(r.next))
  BY DEF RecoverySends
<1>2. r.next \in {"acking", "failing", "moving"}
  BY DEF Results, Swallows, Result
<1>3. /\ recovery'.at = At(r.next) /\ recovery'.entry = recovery.entry
      /\ recovery'.todo = recovery.todo /\ recovery.at = At("sending")
  BY <1>1 DEF Proceed, IInv, RecoverySends
<1>4. \A d : (Working(d)' <=> Working(d)) /\ (Listing(d)' <=> Listing(d))
             /\ Unrecorded(d)' = Unrecorded(d)
  BY <1>2, <1>3 DEF Working, Listing, Unrecorded, Id, At
<1>5. \A d \in Deliveries : Working(d) => ~Listing(d)
  BY DEF AttemptInv, ListIsExact, Listing
<1>6. \A d : Unrecorded(d) \in Nat
  BY DEF Unrecorded
<1>7. UNCHANGED <<json, live, attempts, interrupted>>
  BY DEF RecoverySends, files, history
<1>8. recovery'.at # At("scan") /\ recovery'.at.step # "writing"
  BY <1>2, <1>3 DEF At
<1> QED
  BY <1>3, <1>4, <1>5, <1>6, <1>7, <1>8, LoopCounts

(* The loop's own file operations.  While it works on an entry it may count  *)
(* an attempt of the entry, or take the entry away.                          *)
LEMMA RecoverySettleCounts ==
  ASSUME IInv, AttemptInv, RecoverySettles
  PROVE  AttemptInv'
<1> DEFINE c == recovery.at
           next == StepAfter(Id, c)
<1>1. /\ UNCHANGED <<live, attempts, interrupted>> /\ Settle(Id, c)
      /\ recovery' = IF next = At("done") THEN EntryDone ELSE Proceed(next)
      /\ recovery.entry \in Listed /\ recovery.entry # NoFile /\ Id \in Deliveries
  BY DEF RecoverySettles, history, IInv, Id, Listed
<1>2. /\ recovery'.todo = recovery.todo
      /\ next = At("done") => recovery'.entry = NoFile /\ recovery'.at = At("next")
      /\ next # At("done") => recovery'.entry = recovery.entry /\ recovery'.at = next
  BY <1>1 DEF EntryDone, Proceed, IInv
<1>3. /\ Working(Id) /\ ~Listing(Id) /\ \A d : Working(d) => d = Id
      /\ \A d : Listing(d)' <=> Listing(d)
      /\ \A d : Working(d)' => d = Id
  BY <1>1, <1>2 DEF Working, Listing, AttemptInv, ListIsExact, Id
<1>4. c # At("unlinking") \/ c.step = "unlinking"
  BY DEF At
<1>5. Id' = Id \/ recovery'.entry = NoFile
  BY <1>2 DEF Id
<1>6. c.step # "scan" /\ c.step # "next"
  BY <1>1 DEF Settle
<1>7. next.step # "scan"
  BY DEF StepAfter, At
<1>8. CASE json' # json \/ c.step \in {"acking", "writing"}
  <2>1. (c.step = "acking" /\ AckRenames(Id)) \/ (c.step = "writing" /\ FailWrites(Id, c))
    BY <1>1, <1>8 DEF Settle, AckUnlinks, files
  <2>2. next.step # "writing"
    BY <2>1 DEF StepAfter, At
  <2>3. /\ \A d \in Deliveries : d # Id => json'[d] = json[d]
        /\ json'[Id] # NoFile =>
             c.step = "writing" /\ json'[Id] = Counted(c.read) /\ c.read \in Entries
    BY <1>1, <2>1 DEF AckRenames, FailWrites, IInv, CallsAreHonest
  <2>4. json'[Id] # NoFile => attempts[Id] <= json'[Id].retryCount + interrupted[Id]
    <3> SUFFICES ASSUME json'[Id] # NoFile
                 PROVE  attempts[Id] <= Counted(c.read).retryCount + interrupted[Id]
      BY <2>3
    <3>1. attempts[Id] <= c.read.retryCount + interrupted[Id] + 1
      BY <2>3 DEF AttemptInv, AttemptsAreCounted
    <3>2. c.read.retryCount \in Nat /\ interrupted[Id] \in Nat /\ attempts[Id] \in Nat
      BY <1>1, <2>3 DEF Entries, AttemptInv, AttemptsAreCounted
    <3> QED
      BY <3>1, <3>2 DEF Counted
  <2>5. \A d : /\ Unrecorded(d)' \in Nat /\ Unrecorded(d) \in Nat
               /\ d # Id => Unrecorded(d)' = Unrecorded(d)
    BY <1>3 DEF Unrecorded
  <2>6. \A d \in Deliveries : Untaken(d)' <=> Untaken(d)
    BY <1>2, <1>3, <1>6, <1>7 DEF Untaken, At
  <2>7. json[Id] # NoFile => live[Id].step # "new"
    BY <1>1 DEF AttemptInv, ListIsExact
  <2>8. live[Id].step # "new"
    BY <1>1, <1>3 DEF AttemptInv, ListIsExact
  <2> HIDE DEF next, c
  <2>9. ListIsExact'
    BY <1>1, <1>2, <1>3, <2>3, <2>8 DEF AttemptInv, ListIsExact
  <2>10. recovery'.at.step # "writing"
    BY <1>2, <2>2 DEF At
  <2>11. \A d \in Deliveries : json'[d] # NoFile =>
           attempts[d] <= json'[d].retryCount + interrupted[d] + Unrecorded(d)'
    <3> SUFFICES ASSUME NEW d \in Deliveries, json'[d] # NoFile
                 PROVE  attempts[d] <= json'[d].retryCount + interrupted[d] + Unrecorded(d)'
      OBVIOUS
    <3>1. CASE d # Id
      BY <2>3, <2>5, <3>1 DEF AttemptInv, AttemptsAreCounted
    <3>2. CASE d = Id
      <4>1. json'[d].retryCount \in Nat /\ interrupted[d] \in Nat /\ attempts[d] \in Nat
        BY <2>3, <3>2 DEF Counted, Entries, AttemptInv, AttemptsAreCounted
      <4> QED
        BY <2>4, <2>5, <3>2, <4>1
    <3> QED
      BY <3>1, <3>2
  <2>12. AttemptsAreCounted'
    BY <1>1, <1>2, <2>6, <2>10, <2>11 DEF AttemptInv, AttemptsAreCounted
  <2> QED
    BY <1>1, <2>9, <2>12 DEF AttemptInv, AttemptsAreBounded
<1>9. CASE c.step = "unlinking" \/ (c.step = "failing" /\ json[Id] = NoFile)
  <2>1. next = At("done") /\ json' = json
    BY <1>1, <1>9 DEF StepAfter, Settle, AckUnlinks, At, files
  <2>2. \A d : ~Working(d)' /\ Unrecorded(d)' = 0
    BY <1>2, <2>1 DEF Working, Unrecorded
  <2>3. \A d \in Deliveries : json[d] # NoFile => Unrecorded(d) = 0
    BY <1>3, <1>9 DEF Unrecorded
  <2> QED
    BY <1>1, <1>2, <2>1, <2>2, <2>3, LoopCounts DEF At
<1>10. CASE c.step = "failing" /\ json[Id] # NoFile
  <2>1. next = [step |-> "writing", read |-> json[Id]] /\ json' = json
    BY <1>1, <1>10 DEF StepAfter, Settle, files
  <2>2. /\ recovery'.at = [step |-> "writing", read |-> json[Id]]
        /\ recovery'.entry = recovery.entry /\ Id' = Id
    BY <1>2, <2>1 DEF At, Id
  <2>3. \A d : /\ Working(d)' <=> Working(d)
               /\ Unrecorded(d)' = Unrecorded(d) /\ Unrecorded(d) \in {0, 1}
    BY <1>10, <2>2 DEF Working, Unrecorded
  <2>4. attempts[Id] <= json[Id].retryCount + interrupted[Id] + 1
    <3>1. attempts[Id] <= json[Id].retryCount + interrupted[Id] + Unrecorded(Id)
      BY <1>1, <1>10 DEF AttemptInv, AttemptsAreCounted
    <3>2. /\ json[Id].retryCount \in Nat
          /\ interrupted[Id] \in Nat /\ attempts[Id] \in Nat
      BY <1>1, <1>10 DEF AttemptInv, AttemptsAreCounted, IInv, Entries
    <3> QED
      BY <2>3, <3>1, <3>2
  <2> HIDE DEF next, c
  <2>5. \A d \in Deliveries : Working(d)' => (Working(d) \/ Listing(d)) /\ ~Listing(d)'
    BY <1>3, <2>3
  <2> QED
    BY <1>1, <1>2, <2>1, <2>2, <2>3, <2>4, <2>5, LoopCounts DEF At
<1> QED
  BY <1>1, <1>8, <1>9, <1>10 DEF Settle

LEMMA MoveCounts ==
  ASSUME IInv, AttemptInv, RecoveryMoves
  PROVE  AttemptInv'
<1>1. /\ recovery'.at = At("next") /\ recovery'.entry = NoFile
      /\ recovery'.todo = recovery.todo /\ recovery.at = At("moving")
      /\ UNCHANGED <<live, attempts, interrupted>>
  BY DEF RecoveryMoves, EntryDone, IInv, history
<1>2. \A d \in Deliveries : json'[d] = json[d] \/ json'[d] = NoFile
  BY DEF RecoveryMoves, IInv
<1>3. \A d : ~Working(d)' /\ Unrecorded(d)' = 0
  BY <1>1 DEF Working, Unrecorded
<1>4. \A d \in Deliveries : json'[d] # NoFile => Unrecorded(d) = 0
  BY DEF RecoveryMoves, Unrecorded, Working, IInv
<1> QED
  BY <1>1, <1>2, <1>3, <1>4, LoopCounts DEF At

(* A crash counts the attempt it cuts short.                                 *)
LEMMA CrashCounts ==
  ASSUME IInv, AttemptInv, Crash
  PROVE  AttemptInv'
<1>1. /\ recovery' = [at |-> At("scan"), entry |-> NoFile, todo |-> {}]
      /\ UNCHANGED <<json, attempts>>
      /\ live' = [d \in Deliveries |-> IF live[d] = At("new") THEN At("new") ELSE At("done")]
  BY DEF Crash, Rest, files
<1>2. \A d \in Deliveries :
        /\ live'[d].step = "new" => live[d].step = "new"
        /\ live'[d].step # "writing"
  BY <1>1 DEF At
<1>3. \A d : ~Working(d)' /\ ~Listing(d)' /\ Unrecorded(d)' = 0
  BY <1>1 DEF Working, Listing, Unrecorded
<1>4. \A d \in Deliveries : interrupted[d] \in Nat
  BY DEF AttemptInv, AttemptsAreCounted
<1>5. /\ interrupted' \in [Deliveries -> Nat]
      /\ \A d \in Deliveries : interrupted'[d] = interrupted[d] + Unrecorded(d)
  <2>1. CASE recovery.entry = NoFile \/ recovery.at.step = "unlinking"
    BY <1>4, <2>1 DEF Crash, Unrecorded, Working, AttemptInv, AttemptsAreCounted
  <2>2. CASE ~(recovery.entry = NoFile \/ recovery.at.step = "unlinking")
    <3>1. interrupted' = [interrupted EXCEPT ![Id] = @ + 1] /\ Id \in Deliveries
      BY <2>2 DEF Crash, IInv, Id, Listed
    <3> QED
      BY <1>4, <2>2, <3>1 DEF Unrecorded, Working, AttemptInv, AttemptsAreCounted
  <2> QED
    BY <2>1, <2>2
<1>6. ListIsExact'
  BY <1>1, <1>2, <1>3 DEF AttemptInv, ListIsExact
<1>7. AttemptsAreCounted'
  <2>1. \A d \in Deliveries : json[d] # NoFile =>
          attempts[d] <= json[d].retryCount + interrupted'[d] + Unrecorded(d)'
    <3> SUFFICES ASSUME NEW d \in Deliveries, json[d] # NoFile
                 PROVE  attempts[d] <= json[d].retryCount + interrupted'[d] + Unrecorded(d)'
      OBVIOUS
    <3>1. attempts[d] <= json[d].retryCount + interrupted[d] + Unrecorded(d)
      BY DEF AttemptInv, AttemptsAreCounted
    <3>2. json[d].retryCount \in Nat /\ Unrecorded(d) \in Nat /\ attempts[d] \in Nat
      BY DEF IInv, Entries, Unrecorded, AttemptInv, AttemptsAreCounted
    <3> QED
      BY <1>3, <1>4, <1>5, <3>1, <3>2
  <2>2. recovery'.at.step # "writing"
    BY <1>1 DEF At
  <2> QED
    BY <1>1, <1>2, <1>5, <2>1, <2>2 DEF AttemptInv, AttemptsAreCounted
<1>8. AttemptsAreBounded'
  <2> SUFFICES ASSUME NEW d \in Deliveries PROVE attempts[d] <= MaxRetries + interrupted'[d]
    BY <1>1 DEF AttemptsAreBounded
  <2>1. attempts[d] <= MaxRetries + interrupted[d] /\ attempts[d] \in Nat
        /\ Unrecorded(d) \in Nat
    BY DEF AttemptInv, AttemptsAreBounded, AttemptsAreCounted, Unrecorded
  <2> QED
    BY <1>4, <1>5, <2>1, BoundAssumption
<1> QED
  BY <1>6, <1>7, <1>8 DEF AttemptInv

(* AttemptInv is an invariant of the delivery queue.                         *)
THEOREM AttemptsInvariant == Spec => []AttemptInv
<1>1. IInv /\ AttemptInv /\ [Next]_vars => AttemptInv'
  <2> SUFFICES ASSUME IInv, AttemptInv, [Next]_vars PROVE AttemptInv'
    OBVIOUS
  <2>1. CASE \E d \in Deliveries : Live(d)
    <3> SUFFICES ASSUME NEW d \in Deliveries, Live(d) PROVE AttemptInv'
      BY <2>1
    <3>1. CASE EnqueueDelivery(d)
      BY <3>1, EnqueueCounts
    <3>2. CASE DeliverUnqueued(d)
      <4>1. At("done").step # "new" /\ At("done").step # "writing"
        BY DEF At
      <4> QED
        BY <3>2, <4>1, LiveMoveCounts DEF DeliverUnqueued, files, history
    <3>3. CASE LiveSends(d)
      <4>1. PICK r \in Results(d, d \in Observed) \cup {Result("acking", FALSE, TRUE)} :
                 live' = [live EXCEPT ![d] = At(r.next)]
        BY <3>3 DEF LiveSends
      <4>2. At(r.next).step # "new" /\ At(r.next).step # "writing"
        BY DEF Results, Swallows, Result, At
      <4> QED
        BY <3>3, <4>1, <4>2, LiveMoveCounts DEF LiveSends, files, history
    <3>4. CASE LiveSettles(d)
      BY <3>4, LiveSettleCounts
    <3> QED
      BY <3>1, <3>2, <3>3, <3>4 DEF Live
  <2>2. CASE Recovery
    BY <2>2, ScanCounts, StopCounts, AsideCounts, StartCounts, SendCounts,
       RecoverySettleCounts, MoveCounts DEF Recovery
  <2>3. CASE Crash
    BY <2>3, CrashCounts
  <2>4. CASE UNCHANGED vars
    BY <2>4, LoopStands
       DEF vars, AttemptInv, ListIsExact, AttemptsAreCounted, AttemptsAreBounded
  <2> QED
    BY <2>1, <2>2, <2>3, <2>4 DEF Next
<1> QED
  BY <1>1, InitCounts, InductiveInvariant, PTL DEF Spec

(* Recovery tries a delivery MAX_RETRIES times, plus once for every crash    *)
(* that cuts an attempt short, although the live call and the recovery may   *)
(* overwrite each other's count.                                             *)
THEOREM RetriesAreBounded == Spec => []AttemptsAreBounded
  BY AttemptsInvariant, PTL DEF AttemptInv
-----------------------------------------------------------------------------
(* What a step of the live call of x does to a retired delivery d.           *)
LEMMA LiveRetires ==
  ASSUME IInv, AttemptInv, RetiredIsGone, NEW x \in Deliveries, Live(x)
  PROVE  RetiredIsGone'
<1>1. /\ UNCHANGED <<recovery, overlapped>>
      /\ \A d \in Deliveries : d # x => live'[d] = live[d] /\ json'[d] = json[d]
      /\ failedDir' = failedDir /\ acked \subseteq acked' /\ acked' \subseteq acked \cup {x}
  BY DEF Live, EnqueueDelivery, DeliverUnqueued, LiveSends, LiveSettles, Settle, AckRenames,
         AckUnlinks, FailWrites, files, history, IInv
<1>2. SUFFICES ASSUME x \notin overlapped
               PROVE  /\ Listing(x) \/ Working(x) => live'[x].step = "done"
                      /\ x \in acked' \cup failedDir =>
                           /\ json'[x] = NoFile /\ ~Listing(x)
                           /\ live'[x].step \in {"unlinking", "done"}
                           /\ Working(x) => recovery.at.step = "unlinking"
  BY <1>1, LoopStands DEF RetiredIsGone
<1>3. CASE EnqueueDelivery(x) \/ DeliverUnqueued(x)
  <2>1. ~Listing(x) /\ ~Working(x) /\ x \notin acked \cup failedDir /\ acked' = acked
    BY <1>2, <1>3
       DEF EnqueueDelivery, DeliverUnqueued, AttemptInv, ListIsExact, RetiredIsGone, At, files
  <2> QED
    BY <2>1
<1>4. CASE LiveSends(x)
  <2>1. live[x].step = "sending" /\ acked' = acked
    BY <1>4 DEF LiveSends, At
  <2> QED
    BY <1>2, <2>1 DEF RetiredIsGone
<1>5. CASE LiveSettles(x)
  <2>1. live' = [live EXCEPT ![x] = StepAfter(x, live[x])] /\ Settle(x, live[x])
    BY <1>5 DEF LiveSettles
  <2>2. live'[x] = StepAfter(x, live[x])
    BY <2>1 DEF IInv
  <2>3. ~Listing(x) /\ ~Working(x)
    BY <1>2, <2>1 DEF RetiredIsGone, Settle
  <2>4. CASE live[x].step = "acking" /\ AckRenames(x)
    BY <1>2, <2>2, <2>3, <2>4 DEF AckRenames, StepAfter, At, RetiredIsGone, IInv
  <2>5. CASE live[x].step = "unlinking" /\ AckUnlinks(x)
    BY <1>2, <2>2, <2>3, <2>5 DEF AckUnlinks, StepAfter, At, RetiredIsGone
  <2>6. CASE live[x].step \in {"failing", "writing"}
    <3>1. x \notin acked \cup failedDir /\ acked' = acked
      BY <1>2, <2>1, <2>6 DEF RetiredIsGone, Settle, FailWrites
    <3> QED
      BY <2>3, <3>1
  <2> QED
    BY <2>1, <2>4, <2>5, <2>6 DEF Settle
<1> QED
  BY <1>3, <1>4, <1>5 DEF Live

(* Recovery, whose list was made when no live call of the listed was at work. *)
LEMMA RecoveryRetires ==
  ASSUME IInv, AttemptInv, RetiredIsGone, Recovery
  PROVE  RetiredIsGone'
<1>1. CASE RecoveryScans
  <2>1. ToSet(enqueued) \subseteq Deliveries
    BY DEF IInv, ToSet
  <2> DEFINE found == {d \in ToSet(enqueued) : json[d] # NoFile}
  <2>2. /\ recovery' = [at |-> At("next"), entry |-> NoFile, todo |-> {Entry(d) : d \in found}]
        /\ overlapped' = overlapped \cup {d \in found : InProgress(d)}
        /\ UNCHANGED <<json, live, acked, failedDir>>
    BY <1>1 DEF RecoveryScans, Rest
  <2>3. \A d : ~Working(d)' /\ (Listing(d)' => d \in found)
    BY <2>2 DEF Working, Listing, Entry
  <2>4. \A d \in found : live[d].step # "new"
    BY <2>1 DEF AttemptInv, ListIsExact
  <2> QED
    BY <2>1, <2>2, <2>3, <2>4 DEF RetiredIsGone, InProgress
<1>2. CASE RecoveryStops \/ \E e \in recovery.todo :
             RecoveryGivesUp(e) \/ RecoveryDefers(e) \/ RecoveryStarts(e)
  <2>1. /\ UNCHANGED <<json, live, acked, failedDir, overlapped>>
        /\ recovery'.todo \subseteq recovery.todo
        /\ recovery'.entry = NoFile \/ recovery'.entry \in recovery.todo
    BY <1>2 DEF RecoveryStops, RecoveryGivesUp, RecoveryDefers, RecoveryStarts, Takes, Rest,
                IsNext, files, history, IInv, At
  <2>2. \A d : Listing(d)' \/ Working(d)' => Listing(d)
    BY <2>1 DEF Listing, Working, Id
  <2> QED
    BY <2>1, <2>2 DEF RetiredIsGone
<1>3. CASE RecoverySends
  <2>1. /\ UNCHANGED <<json, live, acked, failedDir, overlapped>>
        /\ recovery'.todo = recovery.todo /\ recovery'.entry = recovery.entry
        /\ recovery.at.step = "sending"
    BY <1>3 DEF RecoverySends, Proceed, files, history, IInv, At
  <2>2. \A d : (Listing(d)' <=> Listing(d)) /\ (Working(d)' <=> Working(d))
    BY <2>1 DEF Listing, Working, Id
  <2> QED
    BY <2>1, <2>2 DEF RetiredIsGone
<1>4. CASE RecoverySettles \/ RecoveryMoves
  <2>1. /\ UNCHANGED <<live, overlapped>> /\ recovery'.todo = recovery.todo
        /\ recovery'.entry = NoFile \/ recovery'.entry = recovery.entry
        /\ Id \in Deliveries /\ recovery.entry # NoFile
    <3>1. recovery.entry \in Listed /\ recovery.entry # NoFile
      BY <1>4 DEF RecoverySettles, RecoveryMoves, IInv, At
    <3>2. Id \in Deliveries
      BY <3>1 DEF Id, Listed
    <3>3. UNCHANGED <<live, overlapped>>
      BY <1>4 DEF RecoverySettles, RecoveryMoves, history
    <3> QED
      BY <1>4, <3>1, <3>2, <3>3 DEF RecoverySettles, RecoveryMoves, Proceed, EntryDone, IInv
  <2>2. \A d : (Listing(d)' <=> Listing(d)) /\ (Working(d)' => Working(d) /\ d = Id)
    BY <2>1 DEF Listing, Working, Id
  <2>3. Working(Id) /\ ~Listing(Id)
    BY <2>1 DEF Working, Listing, AttemptInv, ListIsExact
  <2>4. /\ \A d \in Deliveries : d # Id => json'[d] = json[d]
        /\ acked' \subseteq acked \cup {Id} /\ failedDir' \subseteq failedDir \cup {Id}
    BY <1>4, <2>1 DEF RecoverySettles, RecoveryMoves, Settle, AckRenames, AckUnlinks,
                      FailWrites, files, IInv
  <2>5. SUFFICES ASSUME NEW d \in Deliveries \ overlapped, d = Id,
                        d \in acked' \cup failedDir'
                 PROVE  /\ json'[d] = NoFile
                        /\ Working(d)' => recovery'.at.step = "unlinking"
    <3>1. acked' \cup failedDir' \subseteq Deliveries
      BY <2>1, <2>4 DEF RetiredIsGone
    <3>2. SUFFICES ASSUME NEW d \in Deliveries \ overlapped
                   PROVE  /\ Listing(d)' \/ Working(d)' => live[d].step = "done"
                          /\ d \in acked' \cup failedDir' =>
                               /\ json'[d] = NoFile /\ ~Listing(d)'
                               /\ live[d].step \in {"unlinking", "done"}
                               /\ Working(d)' => recovery'.at.step = "unlinking"
      BY <2>1, <3>1 DEF RetiredIsGone
    <3>3. CASE d # Id
      BY <2>2, <2>4, <3>3 DEF RetiredIsGone
    <3>4. CASE d = Id
      <4>1. live[d].step = "done" /\ ~Listing(d)'
        BY <2>2, <2>3, <3>4 DEF RetiredIsGone
      <4> QED
        BY <3>4, <4>1
    <3> QED
      BY <3>3, <3>4
  <2>6. CASE RecoveryMoves
    BY <2>1, <2>5, <2>6 DEF RecoveryMoves, EntryDone, Working, IInv, At, RetiredIsGone
  <2>7. CASE RecoverySettles
    <3> DEFINE next == StepAfter(Id, recovery.at)
    <3>1. /\ Settle(Id, recovery.at)
          /\ recovery' = IF next = At("done") THEN EntryDone ELSE Proceed(next)
      BY <2>7 DEF RecoverySettles
    <3>2. next = At("done") => recovery'.entry = NoFile
      BY <3>1 DEF EntryDone
    <3>3. next # At("done") => recovery'.at = next
      BY <3>1 DEF Proceed, IInv
    <3>4. CASE Id \in acked \cup failedDir
      <4>1. json[Id] = NoFile /\ recovery.at.step = "unlinking"
        BY <2>1, <2>3, <2>5, <3>4 DEF RetiredIsGone
      <4>2. next = At("done") /\ json' = json
        BY <3>1, <4>1 DEF StepAfter, Settle, AckUnlinks
      <4> QED
        BY <2>5, <3>2, <4>1, <4>2 DEF Working
    <3>5. CASE Id \notin acked \cup failedDir
      <4>1. json[Id] # NoFile /\ recovery.at.step = "acking" /\ json'[Id] = NoFile
        BY <2>1, <2>5, <3>1, <3>5 DEF Settle, AckRenames, AckUnlinks, FailWrites, files, IInv
      <4>2. next = At("unlinking") /\ next # At("done") /\ next.step = "unlinking"
        BY <4>1 DEF StepAfter, At
      <4> QED
        BY <2>5, <3>3, <4>1, <4>2
    <3> QED
      BY <3>4, <3>5
  <2> QED
    BY <1>4, <2>6, <2>7
<1> QED
  BY <1>1, <1>2, <1>3, <1>4 DEF Recovery

(* RetiredIsGone is an invariant of the delivery queue.                      *)
THEOREM RetiredInvariant == Spec => []RetiredIsGone
<1>1. Init => RetiredIsGone
  BY DEF Init, RetiredIsGone, Listing, Working, Rest
<1>2. IInv /\ AttemptInv /\ RetiredIsGone /\ [Next]_vars => RetiredIsGone'
  <2> SUFFICES ASSUME IInv, AttemptInv, RetiredIsGone, [Next]_vars PROVE RetiredIsGone'
    OBVIOUS
  <2>1. CASE \E d \in Deliveries : Live(d)
    BY <2>1, LiveRetires
  <2>2. CASE Recovery
    BY <2>2, RecoveryRetires
  <2>3. CASE Crash
    <3>1. \A d : ~Listing(d)' /\ ~Working(d)'
      BY <2>3 DEF Crash, Rest, Listing, Working
    <3>2. \A d \in Deliveries : live[d].step \in {"unlinking", "done"} => live'[d].step = "done"
      BY <2>3 DEF Crash, At
    <3> QED
      BY <2>3, <3>1, <3>2 DEF Crash, RetiredIsGone, files
  <2>4. CASE UNCHANGED vars
    BY <2>4, LoopStands DEF vars, RetiredIsGone
  <2> QED
    BY <2>1, <2>2, <2>3, <2>4 DEF Next
<1> QED
  BY <1>1, <1>2, InductiveInvariant, AttemptsInvariant, PTL DEF Spec

(* Once acknowledged or moved to failed/, a delivery is neither put back nor *)
(* tried again, unless the scan met it while its live call was at work.      *)
THEOREM RetiredForever == Spec => RetiredStaysRetired
<1>1. RetiredIsGone /\ RetiredIsGone' /\ AttemptInv /\ [Next]_vars =>
        [\A d \in (acked \cup failedDir) \ overlapped' :
           json'[d] = NoFile /\ attempts'[d] = attempts[d]]_vars
  <2> SUFFICES ASSUME RetiredIsGone, RetiredIsGone', AttemptInv, Next,
                      NEW d \in (acked \cup failedDir) \ overlapped'
               PROVE  json'[d] = NoFile /\ attempts'[d] = attempts[d]
    BY DEF vars
  <2>1. /\ acked \subseteq acked' /\ failedDir \subseteq failedDir'
        /\ overlapped \subseteq overlapped'
        /\ \/ UNCHANGED attempts
           \/ \E e \in recovery.todo : attempts' = [attempts EXCEPT ![e.id] = @ + 1]
    <3>1. CASE \E x \in Deliveries : Live(x)
      BY <3>1 DEF Live, EnqueueDelivery, DeliverUnqueued, LiveSends, LiveSettles, Settle,
                  AckRenames, AckUnlinks, FailWrites, files, history
    <3>2. CASE Recovery
      BY <3>2 DEF Recovery, RecoveryScans, RecoveryStops, RecoveryGivesUp, RecoveryDefers,
                  RecoveryStarts, RecoverySends, RecoverySettles, RecoveryMoves, Settle,
                  AckRenames, AckUnlinks, FailWrites, files, history
    <3>3. CASE Crash
      BY <3>3 DEF Crash, files
    <3> QED
      BY <3>1, <3>2, <3>3 DEF Next
  <2>2. d \in Deliveries \ overlapped /\ ~Listing(d) /\ json'[d] = NoFile
    BY <2>1 DEF RetiredIsGone
  <2>3. \A e \in recovery.todo : e.id # d
    BY <2>2 DEF Listing
  <2> QED
    BY <2>1, <2>2, <2>3 DEF AttemptInv, AttemptsAreCounted
<1> QED
  BY <1>1, AttemptsInvariant, RetiredInvariant, PTL DEF Spec, RetiredStaysRetired
=============================================================================
