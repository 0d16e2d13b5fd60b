------------------------- MODULE FollowupQueueProofs -------------------------
(***************************************************************************)
(* The follow-up queue runs no message twice, runs them in the order of     *)
(* their acceptance, and loses one only by the steps that its properties    *)
(* except: proofs for any messages, origins, settings and numbers of queue  *)
(* objects, failures, redeliveries and clears.                              *)
(***************************************************************************)
EXTENDS FollowupQueueProperties, SequenceTheorems, TLAPS

AllSettings ==
  [mode : {"collect", "followup"}, cap : Nat \ {0}, drop : {"old", "new", "summarize"}]

QueueStates == [items : Seq(Messages), dropped : Seq(Messages), draining : BOOLEAN,
                lastRun : BOOLEAN, set : AllSettings \cup {None}]
DrainStates == [at : {"idle", "waiting", "running"}, kind : {"none", "batch", "summary", "item"},
                sent : Seq(Messages), lines : Seq(Messages), forced : BOOLEAN]

Typed ==
  /\ queues \in [QueueObjects -> QueueStates] /\ drain \in [QueueObjects -> DrainStates]
  /\ current \in QueueObjects \cup {None}
  /\ judged \subseteq Messages
  /\ recent \in Seq(Messages) /\ ran \in Seq(Messages)
  /\ disturbed \in BOOLEAN

Inv == Typed /\ DrainsAreMarked /\ PlacedOnce /\ DrainsTheirOwn /\ NoUnexplainedLoss

-----------------------------------------------------------------------------
(* Sequences.                                                              *)

LEMMA EmptyHasNone == ToSet(<<>>) = {} /\ IsInjective(<<>>)
  BY DEF ToSet, IsInjective

LEMMA Elements ==
  ASSUME NEW S, NEW s \in Seq(S)
  PROVE  /\ \A x : x \in ToSet(s) <=> \E k \in 1..Len(s) : s[k] = x
         /\ ToSet(s) \subseteq S
  BY LenProperties, ElementOfSeq DEF ToSet

LEMMA AppendedSet ==
  ASSUME NEW S, NEW s \in Seq(S), NEW e \in S
  PROVE  /\ Append(s, e) \in Seq(S) /\ Append(s, e) # <<>>
         /\ ToSet(Append(s, e)) = ToSet(s) \cup {e}
         /\ IsInjective(s) /\ e \notin ToSet(s) => IsInjective(Append(s, e))
<1> DEFINE t == Append(s, e)
<1>1. /\ t \in Seq(S) /\ t # <<>> /\ Len(t) = Len(s) + 1
      /\ \A i \in 1..Len(s) : t[i] = s[i]
      /\ t[Len(s) + 1] = e
  BY AppendProperties
<1>2. DOMAIN t = 1..(Len(s) + 1) /\ DOMAIN s = 1..Len(s) /\ Len(s) \in Nat
  BY <1>1, LenProperties
<1> HIDE DEF t
<1>3. \A k \in DOMAIN t : k \in DOMAIN s \/ k = Len(s) + 1
  BY <1>2
<1>4. ToSet(t) = ToSet(s) \cup {e}
  BY <1>1, <1>2, <1>3 DEF ToSet
<1>5. IsInjective(s) /\ e \notin ToSet(s) => IsInjective(t)
  BY <1>1, <1>2, <1>3 DEF ToSet, IsInjective
<1> QED
  BY <1>1, <1>4, <1>5 DEF t

LEMMA DroppedFirst ==
  ASSUME NEW S, NEW s \in Seq(S), NEW n \in Nat, NEW t, t = SubSeq(s, n + 1, Len(s))
  PROVE  /\ t \in Seq(S) /\ Len(t) = (IF n < Len(s) THEN Len(s) - n ELSE 0)
         /\ \A k \in 1..Len(t) : k + n \in 1..Len(s) /\ t[k] = s[k + n]
         /\ ToSet(t) \subseteq ToSet(s)
<1>1. Len(s) \in Nat /\ DOMAIN s = 1..Len(s) /\ \A i \in (n + 1)..Len(s) : s[i] \in S
  BY LenProperties, ElementOfSeq
<1>2. /\ t \in Seq(S)
      /\ Len(t) = IF n + 1 <= Len(s) THEN Len(s) - (n + 1) + 1 ELSE 0
      /\ \A i \in 1..(Len(s) - (n + 1) + 1) : t[i] = s[(n + 1) + i - 1]
  BY <1>1, SubSeqProperties
<1>3. Len(t) = IF n < Len(s) THEN Len(s) - n ELSE 0
  BY <1>1, <1>2
<1>4. DOMAIN t = 1..Len(t)
  BY <1>2, LenProperties
<1>5. \A k \in 1..Len(t) : k + n \in 1..Len(s) /\ t[k] = s[k + n]
  <2> TAKE k \in 1..Len(t)
  <2>1. Len(s) \in Nat /\ n < Len(s) /\ Len(t) = Len(s) - n
    <3>1. Len(s) \in Nat
      BY <1>1
    <3>2. CASE n < Len(s)
      BY <1>3, <3>1, <3>2
    <3>3. CASE ~(n < Len(s))
      <4>1. Len(t) = 0
        BY <1>3, <3>3
      <4> QED
        BY <4>1
    <3> QED
      BY <3>2, <3>3
  <2>2. /\ k \in 1..(Len(s) - (n + 1) + 1) /\ (n + 1) + k - 1 = k + n
        /\ k + n \in 1..Len(s)
    BY <2>1
  <2> QED
    BY <1>2, <2>2
<1>6. ToSet(t) \subseteq ToSet(s)
  BY <1>1, <1>4, <1>5 DEF ToSet
<1> QED
  BY <1>2, <1>3, <1>5, <1>6

LEMMA DroppedFirstKeeps ==
  ASSUME NEW S, NEW s \in Seq(S), NEW n \in Nat, NEW t, t = SubSeq(s, n + 1, Len(s)),
         IsInjective(s)
  PROVE  IsInjective(t)
<1>1. DOMAIN s = 1..Len(s) /\ DOMAIN t = 1..Len(t)
  BY DroppedFirst, LenProperties
<1>2. \A k \in 1..Len(t) : k + n \in 1..Len(s) /\ t[k] = s[k + n]
  BY DroppedFirst
<1>3. Len(t) \in Nat
  BY DroppedFirst, LenProperties
<1> SUFFICES ASSUME NEW a \in 1..Len(t), NEW b \in 1..Len(t), t[a] = t[b]
             PROVE  a = b
  BY <1>1 DEF IsInjective
<1>4. s[a + n] = s[b + n] /\ a + n \in DOMAIN s /\ b + n \in DOMAIN s
  BY <1>1, <1>2
<1>5. a + n = b + n
  BY <1>4 DEF IsInjective
<1> QED
  BY <1>3, <1>5

LEMMA DroppedFirstSplits ==
  ASSUME NEW S, NEW s \in Seq(S), NEW n \in Nat, NEW t, t = SubSeq(s, n + 1, Len(s)),
         NEW x \in ToSet(s), x \notin ToSet(t)
  PROVE  \E k \in 1..Len(s) : k <= n /\ s[k] = x
<1>1. DOMAIN s = 1..Len(s) /\ DOMAIN t = 1..Len(t)
  BY DroppedFirst, LenProperties
<1>2. Len(s) \in Nat
  OBVIOUS
<1>3. n < Len(s) => Len(t) = Len(s) - n
  BY DroppedFirst
<1>4. \A k \in 1..Len(t) : t[k] = s[k + n]
  BY DroppedFirst
<1>5. PICK k \in 1..Len(s) : s[k] = x
  BY <1>1 DEF ToSet
<1>6. ASSUME ~(k <= n) PROVE FALSE
  <2>1. n < Len(s)
    BY <1>2, <1>6
  <2>2. k - n \in 1..Len(t) /\ (k - n) + n = k
    BY <1>2, <1>3, <1>6, <2>1
  <2>3. t[k - n] = x
    BY <1>4, <1>5, <2>2
  <2> QED
    BY <1>1, <2>2, <2>3 DEF ToSet
<1> QED
  BY <1>5, <1>6

LEMMA Joined ==
  ASSUME NEW S, NEW s \in Seq(S), NEW t \in Seq(S)
  PROVE  /\ s \o t \in Seq(S) /\ ToSet(s \o t) = ToSet(s) \cup ToSet(t)
         /\ IsInjective(s) /\ IsInjective(t) /\ ToSet(s) \cap ToSet(t) = {} => IsInjective(s \o t)
<1> DEFINE u == s \o t
<1>1. /\ u \in Seq(S) /\ Len(u) = Len(s) + Len(t)
      /\ \A i \in 1..(Len(s) + Len(t)) : u[i] = IF i <= Len(s) THEN s[i] ELSE t[i - Len(s)]
  BY ConcatProperties
<1>2. /\ DOMAIN s = 1..Len(s) /\ DOMAIN t = 1..Len(t) /\ DOMAIN u = 1..(Len(s) + Len(t))
      /\ Len(s) \in Nat /\ Len(t) \in Nat
  BY <1>1, LenProperties
<1> HIDE DEF u
<1>3. \A i \in DOMAIN u : \/ i \in DOMAIN s /\ u[i] = s[i]
                          \/ i - Len(s) \in DOMAIN t /\ u[i] = t[i - Len(s)] /\ ~(i <= Len(s))
  BY <1>1, <1>2
<1>4. \A i \in DOMAIN s : i \in DOMAIN u /\ u[i] = s[i]
  BY <1>1, <1>2
<1>5. \A i \in DOMAIN t : i + Len(s) \in DOMAIN u /\ u[i + Len(s)] = t[i]
  <2> TAKE i \in DOMAIN t
  <2>1. i + Len(s) \in 1..(Len(s) + Len(t)) /\ ~(i + Len(s) <= Len(s)) /\ (i + Len(s)) - Len(s) = i
    BY <1>2
  <2> QED
    BY <1>1, <1>2, <2>1
<1>6. ToSet(u) = ToSet(s) \cup ToSet(t)
  BY <1>3, <1>4, <1>5 DEF ToSet
<1>7. IsInjective(s) /\ IsInjective(t) /\ ToSet(s) \cap ToSet(t) = {} => IsInjective(u)
  <2> SUFFICES ASSUME IsInjective(s), IsInjective(t), ToSet(s) \cap ToSet(t) = {},
                      NEW a \in DOMAIN u, NEW b \in DOMAIN u, u[a] = u[b]
               PROVE  a = b
    BY DEF IsInjective
  <2>1. CASE a \in DOMAIN s /\ u[a] = s[a] /\ b \in DOMAIN s /\ u[b] = s[b]
    BY <2>1 DEF IsInjective
  <2>2. CASE /\ a - Len(s) \in DOMAIN t /\ u[a] = t[a - Len(s)]
             /\ b - Len(s) \in DOMAIN t /\ u[b] = t[b - Len(s)]
    <3>1. a - Len(s) = b - Len(s)
      BY <2>2 DEF IsInjective
    <3> QED
      BY <1>2, <3>1
  <2>3. CASE \/ a \in DOMAIN s /\ u[a] = s[a] /\ b - Len(s) \in DOMAIN t /\ u[b] = t[b - Len(s)]
             \/ b \in DOMAIN s /\ u[b] = s[b] /\ a - Len(s) \in DOMAIN t /\ u[a] = t[a - Len(s)]
    BY <2>3 DEF ToSet
  <2> QED
    BY <1>3, <2>1, <2>2, <2>3
<1> QED
  BY <1>1, <1>6, <1>7 DEF u

-----------------------------------------------------------------------------
(* What starting and ending a drain does.                                  *)

LEMMA States ==
  /\ Absent \in QueueStates /\ NotDraining \in DrainStates
  /\ \A f \in BOOLEAN : /\ Waiting(f) \in DrainStates /\ Waiting(f).at = "waiting"
                        /\ Waiting(f).sent = <<>> /\ Waiting(f).lines = <<>>
  /\ NotDraining.at = "idle" /\ NotDraining.sent = <<>> /\ NotDraining.lines = <<>>
  BY EmptySeq DEF Absent, NotDraining, Waiting, QueueStates, DrainStates

\* The objects and drains are qs and ds, but that the drain of c may have begun.
Begun(c, qs, ds) ==
  /\ queues' \in [QueueObjects -> QueueStates] /\ drain' \in [QueueObjects -> DrainStates]
  /\ \A o \in QueueObjects :
       /\ queues'[o].items = qs[o].items /\ queues'[o].dropped = qs[o].dropped
       /\ \/ drain'[o] = ds[o] /\ queues'[o].draining = qs[o].draining
          \/ /\ o = c /\ ~qs[o].draining /\ queues'[o].draining
             /\ drain'[o].at = "waiting" /\ drain'[o].sent = <<>> /\ drain'[o].lines = <<>>
             /\ current' = c
  /\ \/ current' = c
     \/ current' = None /\ c # None /\ ~qs[c].draining /\ IsDrained(qs[c])

LEMMA Schedules ==
  ASSUME NEW c \in QueueObjects \cup {None}, NEW qs \in [QueueObjects -> QueueStates],
         NEW ds \in [QueueObjects -> DrainStates], ScheduleFollowupDrain(c, qs, ds)
  PROVE  Begun(c, qs, ds)
<1>1. CASE ~CanBegin(c, qs)
  BY <1>1 DEF ScheduleFollowupDrain, Begun
<1>2. CASE CanBegin(c, qs)
  <2>1. c \in QueueObjects /\ c # None /\ ~qs[c].draining
    BY <1>2, NoneAssumption DEF CanBegin
  <2>2. CASE IsDrained(qs[c])
    BY <1>2, <2>1, <2>2 DEF ScheduleFollowupDrain, Begun
  <2>3. CASE ~IsDrained(qs[c])
    <3>1. /\ queues' = [qs EXCEPT ![c].draining = TRUE]
          /\ drain' = [ds EXCEPT ![c] = Waiting(FALSE)] /\ current' = c
      BY <1>2, <2>3 DEF ScheduleFollowupDrain
    <3>2. queues' \in [QueueObjects -> QueueStates]
      BY <2>1, <3>1 DEF QueueStates
    <3>3. drain' \in [QueueObjects -> DrainStates]
      BY <2>1, <3>1, States
    <3>4. \A o \in QueueObjects \ {c} : queues'[o] = qs[o] /\ drain'[o] = ds[o]
      BY <3>1
    <3>5. /\ queues'[c].items = qs[c].items /\ queues'[c].dropped = qs[c].dropped
          /\ queues'[c].draining /\ drain'[c] = Waiting(FALSE)
      BY <2>1, <3>1 DEF QueueStates
    <3> QED
      BY <2>1, <3>1, <3>2, <3>3, <3>4, <3>5, States DEF Begun
  <2> QED
    BY <2>2, <2>3
<1> QED
  BY <1>1, <1>2

\* The drain of o ends with its object as q, and the session's may have begun.
Ended(o, q) ==
  /\ queues' \in [QueueObjects -> QueueStates] /\ drain' \in [QueueObjects -> DrainStates]
  /\ queues'[o].items = q.items /\ queues'[o].dropped = q.dropped
  /\ \A p \in QueueObjects \ {o} :
       queues'[p].items = queues[p].items /\ queues'[p].dropped = queues[p].dropped
  /\ \A p \in QueueObjects :
       \/ p = o /\ drain'[p] = NotDraining /\ ~queues'[p].draining
       \/ p # o /\ drain'[p] = drain[p] /\ queues'[p].draining = queues[p].draining
       \/ /\ p = current /\ current' = p /\ queues'[p].draining
          /\ drain'[p].at = "waiting" /\ drain'[p].sent = <<>> /\ drain'[p].lines = <<>>
  /\ \/ current' = current
     \/ current' = None /\ IsDrained(q)
     \/ /\ current' = None /\ current \in QueueObjects \ {o}
        /\ ~queues[current].draining /\ IsDrained(queues[current])

LEMMA Ends ==
  ASSUME Typed, NEW o \in QueueObjects, NEW q \in QueueStates, DrainEnds(o, q)
  PROVE  Ended(o, q)
<1> DEFINE qs == [queues EXCEPT ![o] = Rested(q)]
           ds == [drain EXCEPT ![o] = NotDraining]
<1>1. Rested(q) \in QueueStates
  BY DEF Rested, QueueStates
<1>2. qs \in [QueueObjects -> QueueStates] /\ ds \in [QueueObjects -> DrainStates]
  BY <1>1, States DEF Typed
<1>3. /\ qs[o].items = q.items /\ qs[o].dropped = q.dropped /\ ~qs[o].draining
      /\ ds[o] = NotDraining
      /\ \A p \in QueueObjects \ {o} : qs[p] = queues[p] /\ ds[p] = drain[p]
  BY DEF Rested, QueueStates, Typed
<1>4. CASE IsDrained(q)
  <2>1. queues' = qs /\ drain' = ds /\ current' = None
    BY <1>4 DEF DrainEnds
  <2> QED
    BY <1>2, <1>3, <1>4, <2>1 DEF Ended
<1>5. CASE ~IsDrained(q)
  <2>1. ScheduleFollowupDrain(current, qs, ds)
    BY <1>5 DEF DrainEnds
  <2> HIDE DEF qs, ds
  <2>2. Begun(current, qs, ds)
    BY <1>2, <2>1, Schedules DEF Typed
  <2>3. ~IsDrained(qs[o])
    BY <1>3, <1>5 DEF IsDrained
  <2>4. \/ current' = current
        \/ /\ current' = None /\ current \in QueueObjects \ {o}
           /\ ~queues[current].draining /\ IsDrained(queues[current])
    BY <1>3, <2>2, <2>3 DEF Begun, Typed
  <2>5. \A p \in QueueObjects :
         \/ p = o /\ drain'[p] = NotDraining /\ ~queues'[p].draining
         \/ p # o /\ drain'[p] = drain[p] /\ queues'[p].draining = queues[p].draining
         \/ /\ p = current /\ current' = p /\ queues'[p].draining
            /\ drain'[p].at = "waiting" /\ drain'[p].sent = <<>> /\ drain'[p].lines = <<>>
    BY <1>3, <2>2 DEF Begun
  <2>6. /\ queues'[o].items = q.items /\ queues'[o].dropped = q.dropped
        /\ \A p \in QueueObjects \ {o} :
             queues'[p].items = queues[p].items /\ queues'[p].dropped = queues[p].dropped
    BY <1>3, <2>2 DEF Begun
  <2> QED
    BY <2>2, <2>4, <2>5, <2>6 DEF Ended, Begun
<1> QED
  BY <1>4, <1>5

-----------------------------------------------------------------------------
(* Kinds of steps.                                                         *)

\* Nothing is put anywhere.
LEMMA PlacedShrinks ==
  ASSUME PlacedOnce, recent' = recent, ran' = ran,
         \A o \in QueueObjects :
           /\ queues'[o].items = queues[o].items \/ queues'[o].items = <<>>
           /\ drain'[o] = drain[o] \/ drain'[o].sent = <<>>
  PROVE  PlacedOnce'
<1>1. \A o \in QueueObjects :
        /\ ToSet(queues'[o].items) \subseteq ToSet(queues[o].items)
        /\ ToSet(drain'[o].sent) \subseteq ToSet(drain[o].sent)
        /\ IsInjective(queues'[o].items) /\ IsInjective(drain'[o].sent)
  BY EmptyHasNone DEF PlacedOnce
<1>2. \A o \in QueueObjects : Own(o)' \subseteq Own(o)
  BY <1>1 DEF Own
<1>3. \A o \in QueueObjects : \A k \in DOMAIN queues'[o].items :
        queues'[o].items[k] \in ToSet(drain'[o].sent) => k <= Took(drain'[o])
  <2> TAKE o \in QueueObjects
  <2>1. CASE queues'[o].items = queues[o].items /\ drain'[o] = drain[o]
    BY <2>1 DEF PlacedOnce
  <2>2. CASE drain'[o].sent = <<>>
    BY <2>2, EmptyHasNone
  <2>3. CASE queues'[o].items = <<>>
    BY <2>3
  <2> QED
    BY <2>1, <2>2, <2>3
<1>4. \A o \in QueueObjects : Own(o)' \subseteq ToSet(recent') \ ToSet(ran')
  BY <1>2 DEF PlacedOnce
<1>5. \A o, p \in QueueObjects : o # p => Own(o)' \cap Own(p)' = {}
  BY <1>2 DEF PlacedOnce
<1> QED
  BY <1>1, <1>3, <1>4, <1>5 DEF PlacedOnce

\* Lost in terms of its members.
LEMMA NoneLost ==
  Lost = {} <=> \A m \in ToSet(recent) : Waits(m) \/ Pending(m) \/ m \in ToSet(ran) \cup accounted
  BY DEF Lost

\* What waits or is pending where it was, in an object still held.
LEMMA LossUnchanged ==
  ASSUME NoUnexplainedLoss, recent' = recent, ran' = ran, accounted \subseteq accounted',
         disturbed => disturbed',
         ASSUME ~disturbed' PROVE \A o \in Held :
           \A m \in ToSet(queues[o].items) \cup ToSet(queues[o].dropped) :
             \/ m \in accounted'
             \/ o \in Held' /\ queues'[o].items = queues[o].items /\ queues'[o].dropped = queues[o].dropped
  PROVE  NoUnexplainedLoss'
<1> SUFFICES ASSUME ~disturbed' PROVE Lost' = {}
  BY DEF NoUnexplainedLoss
<1>1. SUFFICES ASSUME NEW m \in ToSet(recent)
               PROVE  Waits(m)' \/ Pending(m)' \/ m \in ToSet(ran') \cup accounted'
  BY DEF Lost
<1>2. Waits(m) \/ Pending(m) \/ m \in ToSet(ran) \cup accounted
  BY NoneLost DEF NoUnexplainedLoss
<1>3. CASE Waits(m)
  BY <1>3 DEF Waits
<1>4. CASE Pending(m)
  BY <1>4 DEF Pending
<1> QED
  BY <1>2, <1>3, <1>4

\* Nothing that the argument is about changes.
LEMMA StepElsewhere ==
  ASSUME Inv, judged' \subseteq Messages,
         UNCHANGED <<queues, current, drain, recent, history>>
  PROVE  Inv'
<1>1. /\ queues' = queues /\ current' = current /\ drain' = drain /\ recent' = recent
      /\ ran' = ran /\ accounted' = accounted /\ disturbed' = disturbed
  BY DEF history
<1>2. Typed' /\ DrainsAreMarked' /\ PlacedOnce' /\ DrainsTheirOwn'
  BY <1>1 DEF Inv, Typed, DrainsAreMarked, PlacedOnce, DrainsTheirOwn, Own
<1>3. Held' = Held
  BY <1>1 DEF Held
<1>4. NoUnexplainedLoss'
  BY <1>1, <1>3 DEF Inv, NoUnexplainedLoss, Lost, Waits, Pending
<1> QED
  BY <1>2, <1>4 DEF Inv

LEMMA StepTurnEnds ==
  ASSUME Inv, TurnEnds
  PROVE  Inv'
<1>1. /\ judged' = judged /\ recent' = recent
      /\ ran' = ran /\ accounted' = accounted /\ disturbed' = disturbed
  BY DEF TurnEnds, history
<1>2. Begun(current, queues, drain)
  BY Schedules DEF TurnEnds, Inv, Typed
<1>3. Typed'
  BY <1>1, <1>2 DEF Inv, Typed, Begun
<1>4. DrainsAreMarked'
  BY <1>2 DEF Inv, DrainsAreMarked, Begun
<1>5. PlacedOnce'
  BY <1>1, <1>2, PlacedShrinks DEF Inv, Begun
<1>6. DrainsTheirOwn'
  <2> SUFFICES ASSUME ~disturbed, NEW o \in QueueObjects, drain'[o].at # "idle"
               PROVE  /\ o = current'
                      /\ drain'[o].at = "running" =>
                           /\ Took(drain'[o]) <= Len(queues'[o].items)
                           /\ \A k \in 1..Took(drain'[o]) : queues'[o].items[k] \in ToSet(drain'[o].sent)
                      /\ drain'[o].lines # <<>> => drain'[o].lines = queues'[o].dropped
    BY <1>1 DEF DrainsTheirOwn
  <2>1. CASE drain'[o] = drain[o]
    <3>1. o = current /\ queues[o].draining
      BY <2>1 DEF Inv, DrainsTheirOwn, DrainsAreMarked
    <3>2. current' = o
      BY <1>2, <3>1 DEF Begun
    <3> QED
      BY <1>2, <2>1, <3>2 DEF Inv, DrainsTheirOwn, Begun
  <2>2. CASE drain'[o] # drain[o]
    BY <1>2, <2>2 DEF Begun
  <2> QED
    BY <2>1, <2>2
<1>7. NoUnexplainedLoss'
  <2>1. ASSUME ~disturbed', NEW o \in Held, NEW m \in ToSet(queues[o].items) \cup ToSet(queues[o].dropped)
        PROVE  o \in Held' /\ queues'[o].items = queues[o].items /\ queues'[o].dropped = queues[o].dropped
    <3>1. o \in QueueObjects /\ ~IsDrained(queues[o])
      BY EmptyHasNone DEF Held, IsDrained
    <3>2. CASE drain[o].at # "idle"
      BY <1>2, <3>1, <3>2 DEF Begun, Held
    <3>3. CASE o = current
      BY <1>2, <3>1, <3>3 DEF Begun, Held
    <3> QED
      BY <1>2, <3>1, <3>2, <3>3 DEF Held, Begun
  <2> QED
    BY <1>1, <2>1, LossUnchanged DEF Inv
<1> QED
  BY <1>3, <1>4, <1>5, <1>6, <1>7 DEF Inv

LEMMA TargetQueue ==
  ASSUME Typed, ObjectAvailable, NEW m \in Messages, NEW s \in Settings[m]
  PROVE  /\ Target \in QueueObjects /\ Configured(s) \in QueueStates
         /\ s \in AllSettings /\ Configured(s).set = s
         /\ current # None => /\ Target = current
                              /\ Configured(s).items = queues[Target].items
                              /\ Configured(s).dropped = queues[Target].dropped
                              /\ Configured(s).draining = queues[Target].draining
         /\ current = None => /\ drain[Target].at = "idle"
                              /\ Configured(s).items = <<>> /\ Configured(s).dropped = <<>>
                              /\ ~Configured(s).draining
<1>1. s \in AllSettings
  BY SettingsAssumption DEF AllSettings
<1>2. CASE current # None
  <2>1. current \in QueueObjects /\ queues[current] \in QueueStates
    BY <1>2 DEF Typed
  <2> QED
    BY <1>1, <1>2, <2>1 DEF Target, Configured, QueueStates
<1>3. CASE current = None
  <2>1. \E o \in QueueObjects : drain[o].at = "idle"
    BY <1>3 DEF ObjectAvailable
  <2>2. Target \in QueueObjects /\ drain[Target].at = "idle"
    BY <1>3, <2>1 DEF Target
  <2>3. Created(s) \in QueueStates /\ Created(s).set = s /\ Created(s).items = <<>>
        /\ Created(s).dropped = <<>> /\ ~Created(s).draining
    BY <1>1, EmptySeq DEF Created, Absent, QueueStates
  <2> QED
    BY <1>1, <1>3, <2>2, <2>3 DEF Configured
<1> QED
  BY <1>2, <1>3

\* Only the settings of the session's queue change; or the queue is new.
LEMMA StepRetargets ==
  ASSUME Inv, ObjectAvailable, NEW m \in Messages, NEW s \in Settings[m],
         NEW q \in QueueStates, queues' = [queues EXCEPT ![Target] = q],
         q.items = Configured(s).items, q.dropped = Configured(s).dropped,
         q.draining = Configured(s).draining,
         current' = Target, drain' = drain, judged' \subseteq Messages, recent' = recent,
         ran' = ran, accounted' = accounted, disturbed' = disturbed
  PROVE  Inv'
<1> DEFINE t == Target
<1>1. /\ t \in QueueObjects
      /\ current # None => t = current /\ q.items = queues[t].items
                           /\ q.dropped = queues[t].dropped /\ q.draining = queues[t].draining
      /\ current = None => drain[t].at = "idle" /\ q.items = <<>> /\ q.dropped = <<>> /\ ~q.draining
  BY TargetQueue DEF Inv
<1>2. /\ queues' \in [QueueObjects -> QueueStates] /\ queues'[t] = q
      /\ \A o \in QueueObjects \ {t} : queues'[o] = queues[o]
  BY <1>1 DEF Inv, Typed
<1> HIDE DEF t
<1>3. current' = t
  BY DEF t
<1>4. Typed'
  BY <1>1, <1>2, <1>3 DEF Inv, Typed
<1>5. DrainsAreMarked'
  <2>1. q.draining \in BOOLEAN
    BY DEF QueueStates
  <2>2. q.draining = (drain[t].at # "idle")
    BY <1>1, <2>1 DEF Inv, DrainsAreMarked
  <2>3. \A o \in QueueObjects : queues'[o].draining = (drain'[o].at # "idle")
    BY <1>2, <2>2 DEF Inv, DrainsAreMarked
  <2> QED
    BY <2>3 DEF Inv, DrainsAreMarked
<1>6. \A o \in QueueObjects : queues'[o].items = queues[o].items \/ queues'[o].items = <<>>
  BY <1>1, <1>2
<1>7. PlacedOnce'
  BY <1>6, PlacedShrinks DEF Inv
<1>8. DrainsTheirOwn'
  <2> SUFFICES ASSUME ~disturbed, NEW o \in QueueObjects, drain[o].at # "idle"
               PROVE  o = t /\ queues'[o].items = queues[o].items /\ queues'[o].dropped = queues[o].dropped
    BY <1>3 DEF DrainsTheirOwn, Inv
  <2>1. o = current
    BY DEF Inv, DrainsTheirOwn
  <2> QED
    BY <1>1, <1>2, <2>1, NoneAssumption
<1>9. NoUnexplainedLoss'
  <2>1. ASSUME ~disturbed', NEW o \in Held, NEW x \in ToSet(queues[o].items) \cup ToSet(queues[o].dropped)
        PROVE  o \in Held' /\ queues'[o].items = queues[o].items /\ queues'[o].dropped = queues[o].dropped
    <3>1. o \in QueueObjects /\ o = current
      BY <2>1 DEF Held, Inv, DrainsTheirOwn
    <3>2. current # None
      BY <3>1, NoneAssumption
    <3> QED
      BY <1>1, <1>2, <1>3, <3>1, <3>2 DEF Held
  <2> QED
    BY <2>1, LossUnchanged DEF Inv
<1> QED
  BY <1>4, <1>5, <1>7, <1>8, <1>9 DEF Inv

LEMMA StepTurnedAway ==
  ASSUME Inv, NEW m \in Messages, NEW s \in Settings[m], SkipDuplicate(m, s) \/ RefuseNewest(m, s)
  PROVE  Inv'
<1>1. /\ ObjectAvailable /\ current' = Target /\ drain' = drain /\ judged' \subseteq Messages
      /\ recent' = recent /\ ran' = ran /\ accounted' = accounted /\ disturbed' = disturbed
  BY DEF SkipDuplicate, RefuseNewest, history, Inv, Typed
<1>2. Configured(s) \in QueueStates
  BY <1>1, TargetQueue DEF Inv
<1>3. CASE SkipDuplicate(m, s)
  <2>1. queues' = [queues EXCEPT ![Target] = Configured(s)]
    BY <1>3 DEF SkipDuplicate
  <2> QED
    BY <1>1, <1>2, <2>1, StepRetargets
<1>4. CASE RefuseNewest(m, s)
  <2> DEFINE q == [Configured(s) EXCEPT !.lastRun = TRUE]
  <2>1. queues' = [queues EXCEPT ![Target] = q]
    BY <1>4 DEF RefuseNewest
  <2>2. /\ q \in QueueStates /\ q.items = Configured(s).items /\ q.dropped = Configured(s).dropped
        /\ q.draining = Configured(s).draining
    BY <1>2 DEF QueueStates
  <2> HIDE DEF q
  <2> QED
    BY <1>1, <2>1, <2>2, StepRetargets
<1> QED
  BY <1>3, <1>4

(* A message is accepted.                                                  *)
LEMMA Accepted ==
  ASSUME Inv, NEW m \in Messages, NEW s \in Settings[m], EnqueueFollowupRun(m, s)
  PROVE  LET q == Configured(s)  t == Target
         IN  /\ t \in QueueObjects /\ q \in QueueStates
             /\ m \notin ToSet(recent) /\ m \notin ToSet(q.items)
             /\ AfterDrop(q).items \in Seq(Messages)
             /\ queues'[t].items = Append(AfterDrop(q).items, m)
             /\ queues'[t].dropped = AfterDrop(q).dropped
             /\ \A o \in QueueObjects \ {t} : /\ queues'[o].items = queues[o].items
                                              /\ queues'[o].dropped = queues[o].dropped
             /\ queues' \in [QueueObjects -> QueueStates] /\ drain' \in [QueueObjects -> DrainStates]
             /\ current' = t
             /\ \A o \in QueueObjects :
                  \/ /\ drain'[o] = drain[o]
                     /\ queues'[o].draining = IF o = t THEN q.draining ELSE queues[o].draining
                  \/ /\ o = t /\ ~q.draining /\ queues'[o].draining
                     /\ drain'[o].at = "waiting" /\ drain'[o].sent = <<>> /\ drain'[o].lines = <<>>
<1> DEFINE q == Configured(s)
           t == Target
           d == AfterDrop(q)
           r == [Pushed(m, d) EXCEPT !.lastRun = TRUE]
           qs == [queues EXCEPT ![t] = r]
<1>1. t \in QueueObjects /\ q \in QueueStates /\ q.set \in AllSettings
  BY TargetQueue DEF EnqueueFollowupRun, Inv
<1>2. m \notin ToSet(recent) /\ m \notin ToSet(q.items)
  BY DEF EnqueueFollowupRun, Duplicate
<1> HIDE DEF q
<1>3. /\ q.items \in Seq(Messages) /\ q.dropped \in Seq(Messages) /\ Len(q.items) \in Nat
      /\ q.set.cap \in Nat /\ Surplus(q) \in Nat
  <2>1. q.items \in Seq(Messages) /\ q.dropped \in Seq(Messages)
    BY <1>1 DEF QueueStates
  <2>2. q.set.cap \in Nat /\ Len(q.items) \in Nat
    BY <1>1, <2>1, LenProperties DEF AllSettings
  <2> QED
    BY <2>1, <2>2 DEF Surplus, IsFull
<1>4. Shed(q) \in Seq(Messages)
  <2>1. \A i \in 1..Surplus(q) : i <= Len(q.items) => q.items[i] \in Messages
    BY <1>3, ElementOfSeq
  <2>2. Surplus(q) <= Len(q.items)
    BY <1>1, <1>3 DEF Surplus, IsFull, AllSettings
  <2>3. \A i \in 1..Surplus(q) : q.items[i] \in Messages
    BY <1>3, <2>1, <2>2
  <2> QED
    BY <1>3, <2>3, SubSeqProperties DEF Shed
<1>5. /\ d \in QueueStates /\ d.draining = q.draining
  <2>1. SubSeq(q.items, Surplus(q) + 1, Len(q.items)) \in Seq(Messages)
    BY <1>3, DroppedFirst
  <2>2. q.dropped \o Shed(q) \in Seq(Messages)
    BY <1>3, <1>4, ConcatProperties
  <2> QED
    BY <1>1, <2>1, <2>2 DEF AfterDrop, QueueStates
<1> HIDE DEF d
<1>6. /\ r \in QueueStates /\ r.items = Append(d.items, m) /\ r.dropped = d.dropped
      /\ r.draining = q.draining /\ r.items # <<>> /\ d.items \in Seq(Messages)
  <2>1. d.items \in Seq(Messages)
    BY <1>5 DEF QueueStates
  <2>2. Append(d.items, m) \in Seq(Messages) /\ Append(d.items, m) # <<>>
    BY <2>1, AppendedSet
  <2> QED
    BY <1>5, <2>1, <2>2 DEF Pushed, QueueStates
<1> HIDE DEF r
<1>7. /\ qs \in [QueueObjects -> QueueStates] /\ qs[t] = r
      /\ \A o \in QueueObjects \ {t} : qs[o] = queues[o]
  BY <1>1, <1>6 DEF Inv, Typed
<1>8. \/ ScheduleFollowupDrain(t, qs, drain)
      \/ queues' = qs /\ current' = t /\ drain' = drain
  BY DEF EnqueueFollowupRun, q, d, r
<1> HIDE DEF qs, t
<1>9. Begun(t, qs, drain)
  <2>1. drain \in [QueueObjects -> DrainStates] /\ t \in QueueObjects \cup {None}
    BY <1>1 DEF Inv, Typed
  <2>2. CASE ScheduleFollowupDrain(t, qs, drain)
    BY <1>7, <2>1, <2>2, Schedules
  <2>3. CASE queues' = qs /\ current' = t /\ drain' = drain
    BY <1>7, <2>1, <2>3 DEF Begun
  <2> QED
    BY <1>8, <2>2, <2>3
<1>10. current' = t
  BY <1>6, <1>7, <1>9 DEF Begun, IsDrained
<1>11. \A o \in QueueObjects :
         \/ /\ drain'[o] = drain[o]
            /\ queues'[o].draining = IF o = t THEN q.draining ELSE queues[o].draining
         \/ /\ o = t /\ ~q.draining /\ queues'[o].draining
            /\ drain'[o].at = "waiting" /\ drain'[o].sent = <<>> /\ drain'[o].lines = <<>>
  BY <1>6, <1>7, <1>9 DEF Begun
<1>12. /\ queues'[t].items = Append(d.items, m) /\ queues'[t].dropped = d.dropped
       /\ \A o \in QueueObjects \ {t} : /\ queues'[o].items = queues[o].items
                                        /\ queues'[o].dropped = queues[o].dropped
       /\ queues' \in [QueueObjects -> QueueStates] /\ drain' \in [QueueObjects -> DrainStates]
  BY <1>1, <1>6, <1>7, <1>9 DEF Begun
<1> QED
  BY <1>1, <1>2, <1>6, <1>10, <1>11, <1>12 DEF d, t, q

LEMMA Sheds ==
  ASSUME NEW q \in QueueStates, q.set \in AllSettings
  PROVE  /\ Surplus(q) \in Nat
         /\ AfterDrop(q).items = SubSeq(q.items, Surplus(q) + 1, Len(q.items))
         /\ \A x \in ToSet(q.items) : x \in ToSet(AfterDrop(q).items) \/ x \in ToSet(Shed(q))
         /\ ToSet(q.dropped) \subseteq ToSet(AfterDrop(q).dropped)
         /\ q.set.drop = "summarize" => ToSet(Shed(q)) \subseteq ToSet(AfterDrop(q).dropped)
         /\ ~IsFull(q) => /\ ToSet(Shed(q)) = {}
                          /\ AfterDrop(q).items = q.items /\ AfterDrop(q).dropped = q.dropped
<1>1. /\ q.items \in Seq(Messages) /\ q.dropped \in Seq(Messages) /\ Len(q.items) \in Nat
      /\ q.set.cap \in Nat \ {0} /\ DOMAIN q.items = 1..Len(q.items)
  BY LenProperties DEF QueueStates, AllSettings
<1>2. /\ Surplus(q) \in Nat /\ Surplus(q) <= Len(q.items)
      /\ ~IsFull(q) => Surplus(q) = 0
  BY <1>1 DEF Surplus, IsFull
<1>3. \A i \in 1..Surplus(q) : q.items[i] \in Messages
  <2> TAKE i \in 1..Surplus(q)
  <2>1. i \in 1..Len(q.items)
    BY <1>1, <1>2
  <2> QED
    BY <1>1, <2>1, ElementOfSeq
<1>4. /\ Shed(q) \in Seq(Messages)
      /\ Len(Shed(q)) = IF 1 <= Surplus(q) THEN Surplus(q) - 1 + 1 ELSE 0
      /\ \A i \in 1..(Surplus(q) - 1 + 1) : Shed(q)[i] = q.items[1 + i - 1]
  BY <1>2, <1>3, SubSeqProperties DEF Shed
<1>5. Len(Shed(q)) = Surplus(q) /\ DOMAIN Shed(q) = 1..Surplus(q)
  <2>1. Len(Shed(q)) = Surplus(q)
    BY <1>2, <1>4
  <2> QED
    BY <1>4, <2>1, LenProperties
<1>6. \A i \in 1..Surplus(q) : Shed(q)[i] = q.items[i]
  <2> TAKE i \in 1..Surplus(q)
  <2>1. i \in 1..(Surplus(q) - 1 + 1) /\ 1 + i - 1 = i
    BY <1>2
  <2> QED
    BY <1>4, <2>1
<1>7. /\ AfterDrop(q).items = SubSeq(q.items, Surplus(q) + 1, Len(q.items))
      /\ AfterDrop(q).dropped = IF q.set.drop = "summarize" THEN q.dropped \o Shed(q) ELSE q.dropped
  BY DEF AfterDrop, QueueStates
<1>8. \A x \in ToSet(q.items) : x \in ToSet(AfterDrop(q).items) \/ x \in ToSet(Shed(q))
  <2> TAKE x \in ToSet(q.items)
  <2>1. \/ x \in ToSet(AfterDrop(q).items)
        \/ \E k \in 1..Len(q.items) : k <= Surplus(q) /\ q.items[k] = x
    <3> DEFINE u == SubSeq(q.items, Surplus(q) + 1, Len(q.items))
    <3>1. AfterDrop(q).items = u /\ u = SubSeq(q.items, Surplus(q) + 1, Len(q.items))
      BY <1>7
    <3> HIDE DEF u
    <3>2. SUFFICES ASSUME x \notin ToSet(u)
                   PROVE  \E k \in 1..Len(q.items) : k <= Surplus(q) /\ q.items[k] = x
      BY <3>1
    <3> QED
      <4>1. q.items \in Seq(Messages) /\ Surplus(q) \in Nat
        BY <1>1, <1>2
      <4> QED
        BY <3>1, <3>2, <4>1, DroppedFirstSplits
  <2>2. ASSUME NEW k \in 1..Len(q.items), k <= Surplus(q), q.items[k] = x
        PROVE  x \in ToSet(Shed(q))
    <3>1. k \in 1..Surplus(q)
      BY <1>1, <1>2, <2>2
    <3> QED
      BY <1>5, <1>6, <2>2, <3>1 DEF ToSet
  <2> QED
    BY <2>1, <2>2
<1>9. ToSet(q.dropped \o Shed(q)) = ToSet(q.dropped) \cup ToSet(Shed(q))
  BY <1>1, <1>4, Joined
<1>10. ASSUME ~IsFull(q)
       PROVE  /\ ToSet(Shed(q)) = {}
              /\ AfterDrop(q).items = q.items /\ AfterDrop(q).dropped = q.dropped
  <2>1. Surplus(q) = 0 /\ 0 + 1 = 1
    BY <1>2, <1>10
  <2>2. Len(Shed(q)) = 0
    BY <1>5, <2>1
  <2>3. Shed(q) = <<>>
    BY <1>4, <2>2, EmptySeq
  <2>4. AfterDrop(q).items = q.items
    BY <1>1, <1>7, <2>1, SubSeqFull
  <2>5. q.dropped \o <<>> = q.dropped
    BY <1>1, ConcatEmptySeq
  <2> QED
    BY <1>7, <2>3, <2>4, <2>5, EmptyHasNone
<1> QED
  BY <1>2, <1>7, <1>8, <1>9, <1>10

LEMMA StepAccepts ==
  ASSUME Inv, NEW m \in Messages, NEW s \in Settings[m], EnqueueFollowupRun(m, s)
  PROVE  Inv'
<1> DEFINE q == Configured(s)
           t == Target
           d == AfterDrop(q)
<1>1. /\ t \in QueueObjects /\ q \in QueueStates
      /\ m \notin ToSet(recent) /\ m \notin ToSet(q.items)
      /\ d.items \in Seq(Messages)
      /\ queues'[t].items = Append(d.items, m) /\ queues'[t].dropped = d.dropped
      /\ \A o \in QueueObjects \ {t} : /\ queues'[o].items = queues[o].items
                                       /\ queues'[o].dropped = queues[o].dropped
      /\ queues' \in [QueueObjects -> QueueStates] /\ drain' \in [QueueObjects -> DrainStates]
      /\ current' = t
      /\ \A o \in QueueObjects :
           \/ /\ drain'[o] = drain[o]
              /\ queues'[o].draining = IF o = t THEN q.draining ELSE queues[o].draining
           \/ /\ o = t /\ ~q.draining /\ queues'[o].draining
              /\ drain'[o].at = "waiting" /\ drain'[o].sent = <<>> /\ drain'[o].lines = <<>>
  BY Accepted
<1>2. /\ ObjectAvailable
      /\ recent' = Append(recent, m) /\ ran' = ran /\ judged' \subseteq Messages
      /\ accounted' = IF s.drop = "old" THEN accounted \cup ToSet(Shed(q)) ELSE accounted
      /\ disturbed' = (disturbed \/ (IsFull(q) /\ drain[t].at = "running"))
      /\ IsFull(q) => s.drop # "new"
  BY DEF EnqueueFollowupRun, Inv, Typed
<1>3. /\ s \in AllSettings /\ q.set = s
      /\ current # None => /\ t = current /\ q.items = queues[t].items
                           /\ q.dropped = queues[t].dropped /\ q.draining = queues[t].draining
      /\ current = None => drain[t].at = "idle" /\ q.items = <<>> /\ q.dropped = <<>> /\ ~q.draining
  BY <1>2, TargetQueue DEF Inv
<1> HIDE DEF q, t
<1>4. /\ Surplus(q) \in Nat
      /\ d.items = SubSeq(q.items, Surplus(q) + 1, Len(q.items))
      /\ \A x \in ToSet(q.items) : x \in ToSet(d.items) \/ x \in ToSet(Shed(q))
      /\ ToSet(q.dropped) \subseteq ToSet(d.dropped)
      /\ q.set.drop = "summarize" => ToSet(Shed(q)) \subseteq ToSet(d.dropped)
      /\ ~IsFull(q) => ToSet(Shed(q)) = {} /\ d.items = q.items /\ d.dropped = q.dropped
  BY <1>1, <1>3, Sheds
<1>5. q.items \in Seq(Messages)
  BY <1>1 DEF QueueStates
<1>6. /\ Len(d.items) \in Nat /\ ToSet(d.items) \subseteq ToSet(q.items)
      /\ \A k \in 1..Len(d.items) : k + Surplus(q) \in 1..Len(q.items) /\ d.items[k] = q.items[k + Surplus(q)]
      /\ IsInjective(q.items) => IsInjective(d.items)
  <2> DEFINE u == SubSeq(q.items, Surplus(q) + 1, Len(q.items))
  <2>0. u = SubSeq(q.items, Surplus(q) + 1, Len(q.items))
    OBVIOUS
  <2>2. d.items = u
    BY <1>4
  <2> HIDE DEF u, d
  <2>1. /\ u \in Seq(Messages) /\ ToSet(u) \subseteq ToSet(q.items)
        /\ \A k \in 1..Len(u) : k + Surplus(q) \in 1..Len(q.items) /\ u[k] = q.items[k + Surplus(q)]
        /\ IsInjective(q.items) => IsInjective(u)
    <3>1. q.items \in Seq(Messages) /\ Surplus(q) \in Nat
      BY <1>4, <1>5
    <3>2. /\ u \in Seq(Messages) /\ ToSet(u) \subseteq ToSet(q.items)
          /\ \A k \in 1..Len(u) : k + Surplus(q) \in 1..Len(q.items) /\ u[k] = q.items[k + Surplus(q)]
      <4>1. PICK n \in Nat : n = Surplus(q)
        BY <3>1
      <4>2. u = SubSeq(q.items, n + 1, Len(q.items))
        BY <2>0, <4>1
      <4>3. /\ u \in Seq(Messages) /\ ToSet(u) \subseteq ToSet(q.items)
            /\ \A k \in 1..Len(u) : k + n \in 1..Len(q.items) /\ u[k] = q.items[k + n]
        <5>1. u \in Seq(Messages)
          BY <3>1, <4>2, DroppedFirst
        <5>2. \A k \in 1..Len(u) : k + n \in 1..Len(q.items) /\ u[k] = q.items[k + n]
          BY <3>1, <4>2, DroppedFirst
        <5>3. DOMAIN u = 1..Len(u) /\ DOMAIN q.items = 1..Len(q.items)
          BY <3>1, <5>1, LenProperties
        <5>4. ToSet(u) \subseteq ToSet(q.items)
          BY <5>2, <5>3 DEF ToSet
        <5> QED
          BY <5>1, <5>2, <5>4
      <4> QED
        BY <4>1, <4>3
    <3>3. IsInjective(q.items) => IsInjective(u)
      BY <2>0, <3>1, DroppedFirstKeeps
    <3> QED
      BY <3>2, <3>3
  <2>3. Len(u) \in Nat
    BY <2>1, LenProperties
  <2> QED
    BY <2>1, <2>2, <2>3
<1> HIDE DEF d
<1>7. /\ ToSet(q.items) \subseteq ToSet(queues[t].items) /\ IsInjective(q.items)
  BY <1>1, <1>3, EmptyHasNone DEF Inv, PlacedOnce
<1>8. /\ queues'[t].items # <<>> /\ ToSet(queues'[t].items) = ToSet(d.items) \cup {m}
      /\ IsInjective(queues'[t].items)
  BY <1>1, <1>6, <1>7, AppendedSet
<1>9. /\ recent' \in Seq(Messages) /\ ToSet(recent') = ToSet(recent) \cup {m} /\ IsInjective(recent')
  BY <1>1, <1>2, AppendedSet DEF Inv, Typed, PlacedOnce
<1>10. Typed'
  BY <1>1, <1>2, <1>9 DEF Inv, Typed
<1>11. DrainsAreMarked'
  <2> SUFFICES ASSUME NEW o \in QueueObjects
               PROVE  /\ queues'[o].draining = (drain'[o].at # "idle")
                      /\ drain'[o].at # "running" => drain'[o].sent = <<>> /\ drain'[o].lines = <<>>
    BY DEF DrainsAreMarked
  <2>1. q.draining \in BOOLEAN /\ queues'[o].draining \in BOOLEAN
    BY <1>1 DEF QueueStates
  <2>2. q.draining = (drain[t].at # "idle")
    BY <1>1, <1>3, <2>1 DEF Inv, DrainsAreMarked
  <2> QED
    BY <1>1, <2>1, <2>2 DEF Inv, DrainsAreMarked
<1>12. DOMAIN queues'[t].items = 1..(Len(d.items) + 1) /\ queues'[t].items[Len(d.items) + 1] = m
       /\ \A k \in 1..Len(d.items) : queues'[t].items[k] = d.items[k]
       /\ Len(queues'[t].items) = Len(d.items) + 1
  <2>1. /\ Append(d.items, m) \in Seq(Messages) /\ Len(Append(d.items, m)) = Len(d.items) + 1
        /\ \A k \in 1..Len(d.items) : Append(d.items, m)[k] = d.items[k]
        /\ Append(d.items, m)[Len(d.items) + 1] = m
    BY <1>1, AppendProperties
  <2> QED
    BY <1>1, <2>1, LenProperties
<1>13. PlacedOnce'
  <2>1. \A o \in QueueObjects : /\ Own(o) \subseteq ToSet(recent) \ ToSet(ran)
                                /\ ToSet(drain'[o].sent) \subseteq ToSet(drain[o].sent)
                                /\ IsInjective(drain'[o].sent)
    BY <1>1, EmptyHasNone DEF Inv, PlacedOnce
  <2>2. \A o \in QueueObjects \ {t} : Own(o)' \subseteq Own(o)
    BY <1>1, <2>1 DEF Own
  <2>3. \A o \in QueueObjects : o = t => Own(o)' \subseteq Own(o) \cup {m}
    BY <1>1, <1>6, <1>7, <1>8, <2>1 DEF Own
  <2>4. m \notin ToSet(ran)
    BY <1>1 DEF Inv, PlacedOnce
  <2>5. \A o \in QueueObjects : Own(o)' \subseteq ToSet(recent') \ ToSet(ran')
    <3> TAKE o \in QueueObjects
    <3>1. Own(o)' \subseteq Own(o) \cup {m}
      BY <2>2, <2>3
    <3> QED
      BY <1>1, <1>2, <1>9, <2>1, <2>4, <3>1
  <2>6. \A o, p \in QueueObjects : o # p => Own(o)' \cap Own(p)' = {}
    <3> SUFFICES ASSUME NEW o \in QueueObjects, NEW p \in QueueObjects, o # p
                 PROVE  Own(o)' \cap Own(p)' = {}
      OBVIOUS
    <3>1. Own(o) \cap Own(p) = {} /\ m \notin Own(o) /\ m \notin Own(p)
      BY <1>1, <2>1 DEF Inv, PlacedOnce
    <3>2. /\ Own(o)' \subseteq Own(o) \/ (o = t /\ Own(o)' \subseteq Own(o) \cup {m})
          /\ Own(p)' \subseteq Own(p) \/ (p = t /\ Own(p)' \subseteq Own(p) \cup {m})
      BY <2>2, <2>3
    <3> QED
      BY <3>1, <3>2
  <2>7. \A o \in QueueObjects : \A k \in DOMAIN queues'[o].items :
          queues'[o].items[k] \in ToSet(drain'[o].sent) => k <= Took(drain'[o])
    <3> SUFFICES ASSUME NEW o \in QueueObjects, NEW k \in DOMAIN queues'[o].items,
                        queues'[o].items[k] \in ToSet(drain'[o].sent)
                 PROVE  k <= Took(drain'[o])
      OBVIOUS
    <3>1. drain'[o] = drain[o]
      BY <1>1, EmptyHasNone
    <3>2. CASE o # t
      BY <1>1, <3>1, <3>2 DEF Inv, PlacedOnce
    <3>3. CASE o = t
      <4>1. m \notin ToSet(drain[t].sent)
        BY <1>1, <2>1 DEF Own
      <4>2. k \in 1..Len(d.items) /\ d.items[k] \in ToSet(drain[t].sent)
        BY <1>6, <1>12, <3>1, <3>3, <4>1
      <4>3. /\ k + Surplus(q) \in 1..Len(q.items) /\ q.items[k + Surplus(q)] \in ToSet(drain[t].sent)
        BY <1>6, <4>2
      <4>4. q.items # <<>>
        BY <4>3
      <4>5. q.items = queues[t].items /\ DOMAIN q.items = 1..Len(q.items)
        BY <1>3, <1>5, <4>4, LenProperties
      <4>6. k + Surplus(q) <= Took(drain[t])
        BY <1>1, <4>3, <4>5 DEF Inv, PlacedOnce
      <4>7. Took(drain[t]) \in Nat
        <5>1. drain[t].sent \in Seq(Messages)
          BY <1>1 DEF Inv, Typed, DrainStates
        <5> QED
          BY <5>1, LenProperties DEF Took
      <4> QED
        BY <1>4, <3>1, <3>3, <4>2, <4>6, <4>7
    <3> QED
      BY <3>2, <3>3
  <2>8. IsInjective(ran') /\ ToSet(ran') \subseteq ToSet(recent')
    BY <1>2, <1>9 DEF Inv, PlacedOnce
  <2>9. \A o \in QueueObjects : IsInjective(queues'[o].items)
    BY <1>1, <1>8 DEF Inv, PlacedOnce
  <2> QED
    BY <1>9, <2>1, <2>5, <2>6, <2>7, <2>8, <2>9 DEF PlacedOnce
<1>14. DrainsTheirOwn'
  <2> SUFFICES ASSUME ~disturbed', NEW o \in QueueObjects, drain'[o].at # "idle"
               PROVE  /\ o = current'
                      /\ drain'[o].at = "running" =>
                           /\ Took(drain'[o]) <= Len(queues'[o].items)
                           /\ \A k \in 1..Took(drain'[o]) : queues'[o].items[k] \in ToSet(drain'[o].sent)
                      /\ drain'[o].lines # <<>> => drain'[o].lines = queues'[o].dropped
    BY DEF DrainsTheirOwn
  <2>1. ~disturbed /\ (IsFull(q) => drain[t].at # "running")
    BY <1>2
  <2>2. CASE drain'[o] # drain[o]
    BY <1>1, <2>2
  <2>3. CASE drain'[o] = drain[o]
    <3>1. o = current /\ o = t
      BY <1>3, <2>1, <2>3, NoneAssumption DEF Inv, DrainsTheirOwn
    <3>2. q.items = queues[t].items /\ q.dropped = queues[t].dropped
      BY <1>3, <3>1, NoneAssumption
    <3>3. CASE drain[t].at = "running"
      <4>1. d.items = queues[t].items /\ d.dropped = queues[t].dropped
        BY <1>4, <2>1, <3>2, <3>3
      <4>2. /\ Took(drain[t]) <= Len(queues[t].items)
            /\ \A k \in 1..Took(drain[t]) : queues[t].items[k] \in ToSet(drain[t].sent)
            /\ drain[t].lines # <<>> => drain[t].lines = queues[t].dropped
        BY <1>1, <2>1, <3>3 DEF Inv, DrainsTheirOwn
      <4>3. Took(drain[t]) \in Nat
        <5>1. drain[t].sent \in Seq(Messages)
          BY <1>1 DEF Inv, Typed, DrainStates
        <5> QED
          BY <5>1, LenProperties DEF Took
      <4>4. \A k \in 1..Took(drain[t]) : k \in 1..Len(d.items)
        BY <1>6, <4>1, <4>2, <4>3
      <4>5. Took(drain[t]) <= Len(queues'[t].items)
        BY <1>6, <1>12, <4>1, <4>2, <4>3
      <4>6. \A k \in 1..Took(drain[t]) : queues'[t].items[k] \in ToSet(drain[t].sent)
        BY <1>12, <4>1, <4>2, <4>4
      <4> QED
        BY <1>1, <2>3, <3>1, <4>1, <4>2, <4>5, <4>6
    <3>4. CASE drain[t].at # "running"
      BY <1>1, <2>3, <3>1, <3>4 DEF Inv, DrainsAreMarked
    <3> QED
      BY <3>3, <3>4
  <2> QED
    BY <2>2, <2>3
<1>15. NoUnexplainedLoss'
  <2> SUFFICES ASSUME ~disturbed', NEW x \in ToSet(recent')
               PROVE  Waits(x)' \/ Pending(x)' \/ x \in ToSet(ran') \cup accounted'
    BY DEF NoUnexplainedLoss, Lost
  <2>1. ~disturbed
    BY <1>2
  <2>2. t \in Held'
    BY <1>1 DEF Held
  <2>3. CASE x = m
    BY <1>8, <2>2, <2>3 DEF Waits
  <2>4. CASE x \in ToSet(recent)
    <3>1. Waits(x) \/ Pending(x) \/ x \in ToSet(ran) \cup accounted
      BY <2>1, <2>4, NoneLost DEF Inv, NoUnexplainedLoss
    <3>2. \A o \in Held : o = current /\ o = t /\ q.items = queues[t].items /\ q.dropped = queues[t].dropped
      BY <1>3, <2>1, NoneAssumption DEF Held, Inv, DrainsTheirOwn
    <3>3. CASE Waits(x)
      <4>1. x \in ToSet(q.items)
        BY <3>2, <3>3 DEF Waits
      <4>2. CASE x \in ToSet(d.items)
        BY <1>8, <2>2, <4>2 DEF Waits
      <4>3. CASE x \in ToSet(Shed(q))
        <5>1. IsFull(q) /\ s.drop \in {"old", "summarize"}
          BY <1>2, <1>3, <1>4, <4>3 DEF AllSettings
        <5>2. CASE s.drop = "old"
          BY <1>2, <4>3, <5>2
        <5>3. CASE s.drop = "summarize"
          BY <1>1, <1>3, <1>4, <2>2, <4>3, <5>3 DEF Pending
        <5> QED
          BY <5>1, <5>2, <5>3
      <4> QED
        BY <1>4, <4>1, <4>2, <4>3
    <3>4. CASE Pending(x)
      BY <1>1, <1>4, <2>2, <3>2, <3>4 DEF Pending
    <3> QED
      BY <1>2, <3>1, <3>3, <3>4
  <2> QED
    BY <1>9, <2>3, <2>4
<1> QED
  BY <1>10, <1>11, <1>13, <1>14, <1>15 DEF Inv
-----------------------------------------------------------------------------
(* The steps of a drain.                                                   *)

LEMMA Planned ==
  ASSUME NEW q \in QueueStates, NEW forced \in BOOLEAN, IsInjective(q.items),
         NEW d, d = Running(Plan(q, forced), forced)
  PROVE  /\ d \in DrainStates /\ d.at = "running" /\ d.kind = Plan(q, forced).kind
         /\ ToSet(d.sent) \subseteq ToSet(q.items) /\ IsInjective(d.sent)
         /\ \A k \in DOMAIN q.items : q.items[k] \in ToSet(d.sent) => k <= Took(d)
         /\ d.lines # <<>> => d.lines = q.dropped
         /\ HasWork(q, Plan(q, forced)) /\ d.kind # "summary" =>
              /\ Took(d) <= Len(q.items)
              /\ \A k \in 1..Took(d) : q.items[k] \in ToSet(d.sent)
<1> DEFINE p == Plan(q, forced)
<1>1. /\ q.items \in Seq(Messages) /\ q.dropped \in Seq(Messages)
      /\ Len(q.items) \in Nat /\ DOMAIN q.items = 1..Len(q.items)
  BY LenProperties DEF QueueStates
<1>2. Summary(q) \in {q.dropped, <<>>} /\ Summary(q) \in Seq(Messages)
  BY <1>1, EmptySeq DEF Summary
<1>3. \/ p = [kind |-> "batch", sent |-> q.items, lines |-> Summary(q)]
      \/ p = [kind |-> "summary", sent |-> <<>>, lines |-> Summary(q)]
      \/ p = [kind |-> "item", sent |-> First(q.items), lines |-> <<>>]
  BY DEF Plan
<1>4. /\ d.at = "running" /\ d.kind = p.kind /\ d.sent = p.sent /\ d.lines = p.lines
      /\ d = [at |-> "running", kind |-> p.kind, sent |-> p.sent, lines |-> p.lines, forced |-> forced]
  BY DEF Running
<1> HIDE DEF p
<1>5. CASE p = [kind |-> "batch", sent |-> q.items, lines |-> Summary(q)]
  <2>1. d.kind = "batch" /\ d.sent = q.items /\ d.lines = Summary(q)
    BY <1>4, <1>5
  <2>2. d \in DrainStates
    BY <1>1, <1>2, <1>4, <1>5 DEF DrainStates
  <2>3. Took(d) = Len(q.items)
    BY <2>1 DEF Took
  <2>4. \A k \in 1..Len(q.items) : q.items[k] \in ToSet(d.sent) /\ k <= Took(d)
    BY <1>1, <2>1, <2>3 DEF ToSet
  <2> QED
    BY <1>1, <1>2, <1>4, <2>1, <2>2, <2>3, <2>4 DEF p
<1>6. CASE p = [kind |-> "summary", sent |-> <<>>, lines |-> Summary(q)]
  <2>1. d.kind = "summary" /\ d.sent = <<>> /\ d.lines = Summary(q)
    BY <1>4, <1>6
  <2>2. d \in DrainStates
    BY <1>2, <1>4, <1>6, EmptySeq DEF DrainStates
  <2> QED
    BY <1>2, <1>4, <2>1, <2>2, EmptyHasNone DEF p
<1>7. CASE p = [kind |-> "item", sent |-> First(q.items), lines |-> <<>>]
  <2>1. d.kind = "item" /\ d.sent = First(q.items) /\ d.lines = <<>> /\ Took(d) = 1
    BY <1>4, <1>7 DEF Took
  <2>2. CASE q.items = <<>>
    <3>1. d.sent = <<>>
      BY <2>1, <2>2 DEF First
    <3>2. d \in DrainStates
      BY <1>4, <1>7, <2>1, <3>1, EmptySeq DEF DrainStates
    <3>3. ~HasWork(q, p)
      BY <1>4, <2>1, <2>2 DEF HasWork
    <3> QED
      BY <1>4, <2>1, <3>1, <3>2, <3>3, EmptyHasNone DEF p
  <2>3. CASE q.items # <<>>
    <3>1. 1 \in 1..Len(q.items) /\ Head(q.items) = q.items[1] /\ q.items[1] \in Messages
      BY <1>1, <2>3, HeadTailProperties, EmptySeq, ElementOfSeq
    <3>2. d.sent = <<q.items[1]>>
      BY <2>1, <2>3, <3>1 DEF First
    <3>3. /\ <<q.items[1]>> \in Seq(Messages) /\ ToSet(<<q.items[1]>>) = {q.items[1]}
          /\ IsInjective(<<q.items[1]>>)
      BY <3>1 DEF ToSet, IsInjective
    <3>4. d \in DrainStates
      BY <1>4, <1>7, <2>1, <3>2, <3>3, EmptySeq DEF DrainStates
    <3>5. \A k \in DOMAIN q.items : q.items[k] = q.items[1] => k = 1
      BY <1>1, <3>1 DEF IsInjective
    <3>6. ToSet(d.sent) \subseteq ToSet(q.items)
      BY <1>1, <3>1, <3>2, <3>3 DEF ToSet
    <3>7. /\ Took(d) <= Len(q.items)
          /\ \A k \in 1..Took(d) : q.items[k] \in ToSet(d.sent)
      BY <1>1, <2>1, <3>1, <3>2, <3>3
    <3>8. \A k \in DOMAIN q.items : q.items[k] \in ToSet(d.sent) => k <= Took(d)
      BY <2>1, <3>2, <3>3, <3>5
    <3> QED
      BY <1>4, <2>1, <3>2, <3>3, <3>4, <3>6, <3>7, <3>8 DEF p
  <2> QED
    BY <2>2, <2>3
<1> QED
  BY <1>3, <1>5, <1>6, <1>7

\* The drain of o ends and leaves its object as it is.
LEMMA StepEndsInPlace ==
  ASSUME Inv, NEW o \in QueueObjects, drain[o].at # "idle", Ended(o, queues[o]),
         judged' = judged, recent' = recent, ran' = ran, accounted' = accounted,
         disturbed' = disturbed
  PROVE  Inv'
<1>1. Typed'
  BY DEF Inv, Typed, Ended
<1>2. DrainsAreMarked'
  <2> SUFFICES ASSUME NEW p \in QueueObjects
               PROVE  /\ queues'[p].draining = (drain'[p].at # "idle")
                      /\ drain'[p].at # "running" => drain'[p].sent = <<>> /\ drain'[p].lines = <<>>
    BY DEF DrainsAreMarked
  <2>1. queues'[p].draining \in BOOLEAN
    BY DEF Ended, QueueStates
  <2>2. CASE p # o /\ drain'[p] = drain[p] /\ queues'[p].draining = queues[p].draining
    BY <2>2 DEF Inv, DrainsAreMarked
  <2>3. CASE drain'[p] = NotDraining /\ ~queues'[p].draining
    BY <2>1, <2>3, States
  <2>4. CASE /\ queues'[p].draining
             /\ drain'[p].at = "waiting" /\ drain'[p].sent = <<>> /\ drain'[p].lines = <<>>
    BY <2>1, <2>4
  <2> QED
    BY <2>2, <2>3, <2>4 DEF Ended
<1>3. PlacedOnce'
  <2>1. \A p \in QueueObjects :
          /\ queues'[p].items = queues[p].items
          /\ drain'[p] = drain[p] \/ drain'[p].sent = <<>>
    BY States DEF Ended
  <2> QED
    BY <2>1, PlacedShrinks DEF Inv
<1>4. DrainsTheirOwn'
  <2> SUFFICES ASSUME ~disturbed, NEW p \in QueueObjects, drain'[p].at # "idle"
               PROVE  p = current' /\ drain'[p].at = "waiting" /\ drain'[p].lines = <<>>
    BY DEF DrainsTheirOwn
  <2>1. o = current
    BY DEF Inv, DrainsTheirOwn
  <2>2. p # o => drain[p].at = "idle"
    BY <2>1 DEF Inv, DrainsTheirOwn
  <2> QED
    BY <2>1, <2>2, States DEF Ended
<1>5. NoUnexplainedLoss'
  <2>1. ASSUME ~disturbed', NEW p \in Held, NEW x \in ToSet(queues[p].items) \cup ToSet(queues[p].dropped)
        PROVE  p \in Held' /\ queues'[p].items = queues[p].items /\ queues'[p].dropped = queues[p].dropped
    <3>1. p = o /\ o = current
      BY <2>1 DEF Held, Inv, DrainsTheirOwn
    <3>2. ~IsDrained(queues[o])
      BY <3>1, EmptyHasNone DEF IsDrained
    <3>3. current' = current
      BY <3>1, <3>2 DEF Ended
    <3> QED
      BY <3>1, <3>3 DEF Held, Ended
  <2> QED
    BY <2>1, LossUnchanged DEF Inv
<1> QED
  BY <1>1, <1>2, <1>3, <1>4, <1>5 DEF Inv

LEMMA StepRunFails ==
  ASSUME Inv, NEW o \in QueueObjects, RunFails(o)
  PROVE  Inv'
<1>1. /\ drain[o].at # "idle" /\ DrainEnds(o, queues[o]) /\ queues[o] \in QueueStates
      /\ judged' = judged /\ recent' = recent
      /\ ran' = ran /\ accounted' = accounted /\ disturbed' = disturbed
  BY DEF RunFails, arrivals, history, Inv, Typed
<1>2. Ended(o, queues[o])
  BY <1>1, Ends DEF Inv
<1> QED
  BY <1>1, <1>2, StepEndsInPlace

\* A run starts.
LEMMA StepStarts ==
  ASSUME Inv, NEW o \in QueueObjects, drain[o].at = "waiting", NEW forced \in BOOLEAN,
         HasWork(queues[o], Plan(queues[o], forced)),
         drain' = [drain EXCEPT ![o] = Running(Plan(queues[o], forced), forced)],
         disturbed' = (disturbed \/ Plan(queues[o], forced).kind = "summary"),
         queues' = queues, current' = current, judged' = judged, recent' = recent,
         ran' = ran, accounted' = accounted
  PROVE  Inv'
<1> DEFINE q == queues[o]
           d == Running(Plan(q, forced), forced)
<1>0. q \in QueueStates /\ IsInjective(q.items)
  BY DEF Inv, Typed, PlacedOnce
<1>1. /\ d \in DrainStates /\ d.at = "running" /\ d.kind = Plan(q, forced).kind
      /\ ToSet(d.sent) \subseteq ToSet(q.items) /\ IsInjective(d.sent)
      /\ \A k \in DOMAIN q.items : q.items[k] \in ToSet(d.sent) => k <= Took(d)
      /\ d.lines # <<>> => d.lines = q.dropped
      /\ HasWork(q, Plan(q, forced)) /\ d.kind # "summary" =>
           /\ Took(d) <= Len(q.items)
           /\ \A k \in 1..Took(d) : q.items[k] \in ToSet(d.sent)
  <2>1. d = Running(Plan(q, forced), forced)
    OBVIOUS
  <2> HIDE DEF d, q
  <2>2. /\ d \in DrainStates /\ d.at = "running" /\ d.kind = Plan(q, forced).kind
        /\ ToSet(d.sent) \subseteq ToSet(q.items) /\ IsInjective(d.sent)
    BY <1>0, <2>1, Planned
  <2>3. /\ \A k \in DOMAIN q.items : q.items[k] \in ToSet(d.sent) => k <= Took(d)
        /\ d.lines # <<>> => d.lines = q.dropped
    BY <1>0, <2>1, Planned
  <2>4. HasWork(q, Plan(q, forced)) /\ d.kind # "summary" =>
          /\ Took(d) <= Len(q.items)
          /\ \A k \in 1..Took(d) : q.items[k] \in ToSet(d.sent)
    BY <1>0, <2>1, Planned
  <2> QED
    BY <2>2, <2>3, <2>4
<1>2. /\ drain'[o] = d /\ drain' \in [QueueObjects -> DrainStates]
      /\ \A p \in QueueObjects \ {o} : drain'[p] = drain[p]
  BY <1>1 DEF Inv, Typed
<1>3. ~disturbed' => ~disturbed /\ d.kind # "summary"
  BY <1>1
<1>4. disturbed' \in BOOLEAN
  BY DEF Inv, Typed
<1> HIDE DEF d
<1>5. Typed'
  BY <1>2, <1>4 DEF Inv, Typed
<1>6. DrainsAreMarked'
  BY <1>1, <1>2 DEF Inv, DrainsAreMarked
<1>7. PlacedOnce'
  <2>1. \A p \in QueueObjects : Own(p)' \subseteq Own(p)
    BY <1>1, <1>2 DEF Own
  <2>2. \A p \in QueueObjects :
          /\ IsInjective(drain'[p].sent)
          /\ \A k \in DOMAIN queues[p].items : queues[p].items[k] \in ToSet(drain'[p].sent) => k <= Took(drain'[p])
    BY <1>1, <1>2 DEF Inv, PlacedOnce
  <2> QED
    BY <2>1, <2>2 DEF Inv, PlacedOnce
<1>8. DrainsTheirOwn'
  <2> SUFFICES ASSUME ~disturbed', NEW p \in QueueObjects, drain'[p].at # "idle"
               PROVE  /\ p = current
                      /\ drain'[p].at = "running" =>
                           /\ Took(drain'[p]) <= Len(queues[p].items)
                           /\ \A k \in 1..Took(drain'[p]) : queues[p].items[k] \in ToSet(drain'[p].sent)
                      /\ drain'[p].lines # <<>> => drain'[p].lines = queues[p].dropped
    BY DEF DrainsTheirOwn
  <2>1. CASE p = o
    <3>1. o = current
      BY <1>3 DEF Inv, DrainsTheirOwn
    <3> QED
      BY <1>1, <1>2, <1>3, <2>1, <3>1
  <2>2. CASE p # o
    BY <1>2, <1>3, <2>2 DEF Inv, DrainsTheirOwn
  <2> QED
    BY <2>1, <2>2
<1>9. NoUnexplainedLoss'
  <2>1. \A p \in Held : p \in Held'
    BY <1>1, <1>2 DEF Held
  <2> QED
    BY <1>3, <2>1, LossUnchanged DEF Inv
<1> QED
  BY <1>5, <1>6, <1>7, <1>8, <1>9 DEF Inv

LEMMA StepDebounceEnds ==
  ASSUME Inv, NEW o \in QueueObjects, DebounceEnds(o)
  PROVE  Inv'
<1> DEFINE q == queues[o]
           forced == drain[o].forced \/ (q.set.mode = "collect" /\ CrossChannel(q.items))
           plan == Plan(q, forced)
<1>1. /\ drain[o].at = "waiting" /\ judged' = judged /\ recent' = recent
      /\ ran' = ran /\ accounted' = accounted
  BY DEF DebounceEnds, arrivals
<1>2. q \in QueueStates /\ forced \in BOOLEAN
  BY DEF Inv, Typed, DrainStates
<1>3. CASE HasWork(q, plan)
  <2>1. /\ drain' = [drain EXCEPT ![o] = Running(plan, forced)]
        /\ disturbed' = (disturbed \/ plan.kind = "summary")
        /\ queues' = queues /\ current' = current
    BY <1>3 DEF DebounceEnds
  <2> HIDE DEF forced
  <2> QED
    BY <1>1, <1>2, <1>3, <2>1, StepStarts
<1>4. CASE ~HasWork(q, plan)
  <2>1. DrainEnds(o, q) /\ disturbed' = disturbed
    BY <1>4 DEF DebounceEnds
  <2>2. Ended(o, queues[o])
    BY <1>2, <2>1, Ends DEF Inv
  <2> QED
    BY <1>1, <2>1, <2>2, StepEndsInPlace
<1> QED
  BY <1>3, <1>4
\* What is left of a list of which a drain d took its share.
LEMMA Taken ==
  ASSUME NEW r \in QueueStates, NEW d \in DrainStates, NEW q, q = AfterRun(r, d),
         IsInjective(r.items),
         \A k \in DOMAIN r.items : r.items[k] \in ToSet(d.sent) => k <= Took(d)
  PROVE  /\ q \in QueueStates /\ IsInjective(q.items)
         /\ ToSet(q.items) \subseteq ToSet(r.items) \ ToSet(d.sent)
         /\ \A x \in ToSet(r.items) \ ToSet(q.items) :
              \E k \in 1..Took(d) : r.items[k] = x
         /\ q.dropped = IF d.lines # <<>> THEN <<>> ELSE r.dropped
<1>1. /\ r.items \in Seq(Messages) /\ r.dropped \in Seq(Messages) /\ d.sent \in Seq(Messages)
      /\ DOMAIN r.items = 1..Len(r.items) /\ Len(r.items) \in Nat
  BY LenProperties DEF QueueStates, DrainStates
<1>2. Took(d) \in Nat
  BY <1>1, LenProperties DEF Took
<1>3. /\ q.items = SubSeq(r.items, Took(d) + 1, Len(r.items))
      /\ q.dropped = IF d.lines # <<>> THEN <<>> ELSE r.dropped
  BY DEF AfterRun, QueueStates
<1>4. PICK n \in Nat : n = Took(d)
  BY <1>2
<1>5. PICK w \in Seq(Messages) : w = r.items
  BY <1>1
<1>6. PICK u : u = SubSeq(w, n + 1, Len(w))
  OBVIOUS
<1>7. u \in Seq(Messages)
  BY <1>6, DroppedFirst
<1>8. \A k \in 1..Len(u) : k + n \in 1..Len(w) /\ u[k] = w[k + n]
  BY <1>6, DroppedFirst
<1>9. \A k \in 1..Len(u) : k + Took(d) \in 1..Len(r.items) /\ u[k] = r.items[k + Took(d)]
  BY <1>4, <1>5, <1>8
<1>10. IsInjective(u)
  <2>1. IsInjective(w) /\ w \in Seq(Messages)
    BY <1>5
  <2> QED
    BY <1>6, <2>1, DroppedFirstKeeps
<1>11. DOMAIN u = 1..Len(u) /\ Len(u) \in Nat
  BY <1>7, LenProperties
<1>12. ToSet(u) \subseteq ToSet(r.items)
  BY <1>1, <1>9, <1>11 DEF ToSet
<1>13. ASSUME NEW x \in ToSet(u), x \in ToSet(d.sent) PROVE FALSE
  <2>1. PICK k \in 1..Len(u) : u[k] = x
    BY <1>11 DEF ToSet
  <2>2. k + Took(d) <= Took(d)
    BY <1>1, <1>9, <1>13, <2>1
  <2> QED
    BY <1>2, <1>11, <2>2
<1>14. ASSUME NEW x \in ToSet(r.items), x \notin ToSet(u)
       PROVE  \E k \in 1..Took(d) : r.items[k] = x
  <2>1. x \in ToSet(w) /\ x \notin ToSet(u)
    BY <1>5, <1>14
  <2>2. \E k \in 1..Len(w) : k <= n /\ w[k] = x
    <3>1. w \in Seq(Messages) /\ n \in Nat
      OBVIOUS
    <3> QED
      BY <1>6, <2>1, <3>1, DroppedFirstSplits, ZenonT(40)
  <2>3. PICK k \in 1..Len(r.items) : k <= Took(d) /\ r.items[k] = x
    BY <1>4, <1>5, <2>2
  <2>4. k \in 1..Took(d)
    BY <1>1, <1>2, <2>3
  <2> QED
    BY <2>3, <2>4
<1>15. q \in QueueStates
  BY <1>1, <1>3, <1>4, <1>5, <1>6, <1>7, EmptySeq DEF AfterRun, QueueStates
<1>16. q.items = u
  BY <1>3, <1>4, <1>5, <1>6
<1> QED
  BY <1>3, <1>10, <1>12, <1>13, <1>14, <1>15, <1>16

\* A run is over: what it leaves in its object, and what begins again.
LEMMA RunOver ==
  ASSUME Inv, NEW o \in QueueObjects, RunEnds(o), NEW q, q = AfterRun(queues[o], drain[o])
  PROVE  /\ q \in QueueStates /\ IsInjective(q.items)
         /\ ToSet(q.items) \subseteq ToSet(queues[o].items) \ ToSet(drain[o].sent)
         /\ q.dropped = IF drain[o].lines # <<>> THEN <<>> ELSE queues[o].dropped
         /\ queues' \in [QueueObjects -> QueueStates] /\ drain' \in [QueueObjects -> DrainStates]
         /\ queues'[o].items = q.items /\ queues'[o].dropped = q.dropped
         /\ drain'[o].at # "running" /\ drain'[o].sent = <<>> /\ drain'[o].lines = <<>>
         /\ queues'[o].draining = (drain'[o].at # "idle")
         /\ drain'[o].at # "idle" /\ o = current => current' = o
         /\ current' \in {current, None} /\ (current = o /\ ~IsDrained(q) => current' = o)
         /\ \A p \in QueueObjects \ {o} :
              /\ queues'[p].items = queues[p].items /\ queues'[p].dropped = queues[p].dropped
              /\ \/ drain'[p] = drain[p] /\ queues'[p].draining = queues[p].draining
                 \/ /\ p = current /\ queues'[p].draining
                    /\ drain'[p].at = "waiting" /\ drain'[p].sent = <<>> /\ drain'[p].lines = <<>>
<1> DEFINE r == queues[o]
           d == drain[o]
<1>0. q = AfterRun(r, d)
  OBVIOUS
<1>1. /\ d.at = "running" /\ judged' = judged /\ recent' = recent /\ disturbed' = disturbed
      /\ ran' = ran \o d.sent /\ accounted' = accounted \cup ToSet(d.lines)
  BY DEF RunEnds, arrivals
<1>2. /\ r \in QueueStates /\ d \in DrainStates /\ IsInjective(r.items)
      /\ \A k \in DOMAIN r.items : r.items[k] \in ToSet(d.sent) => k <= Took(d)
  BY DEF Inv, Typed, PlacedOnce
<1>3. /\ q \in QueueStates /\ IsInjective(q.items)
      /\ ToSet(q.items) \subseteq ToSet(r.items) \ ToSet(d.sent)
      /\ q.dropped = IF d.lines # <<>> THEN <<>> ELSE r.dropped
  <2> HIDE DEF r, d
  <2>1. q \in QueueStates /\ IsInjective(q.items)
    BY <1>0, <1>2, Taken
  <2>2. ToSet(q.items) \subseteq ToSet(r.items) \ ToSet(d.sent)
    BY <1>0, <1>2, Taken
  <2>3. q.dropped = IF d.lines # <<>> THEN <<>> ELSE r.dropped
    BY <1>0, <1>2, Taken
  <2> QED
    BY <2>1, <2>2, <2>3
<1>4. \/ IsDrained(q) /\ Ended(o, q)
      \/ /\ queues' = [queues EXCEPT ![o] = q] /\ drain' = [drain EXCEPT ![o] = Waiting(d.forced)]
         /\ current' = current
  <2>1. CASE IsDrained(q)
    <3>1. DrainEnds(o, q)
      BY <1>0, <2>1 DEF RunEnds
    <3> QED
      BY <1>3, <2>1, <3>1, Ends DEF Inv
  <2>2. CASE ~IsDrained(q)
    BY <1>0, <2>2 DEF RunEnds
  <2> QED
    BY <2>1, <2>2
<1>5. d.forced \in BOOLEAN /\ queues[o].draining = q.draining /\ q.draining
  BY <1>0, <1>1, <1>2 DEF DrainStates, AfterRun, QueueStates, Inv, DrainsAreMarked
<1>6. /\ queues' \in [QueueObjects -> QueueStates] /\ drain' \in [QueueObjects -> DrainStates]
      /\ queues'[o].items = q.items /\ queues'[o].dropped = q.dropped
      /\ drain'[o].at # "running" /\ drain'[o].sent = <<>> /\ drain'[o].lines = <<>>
      /\ queues'[o].draining = (drain'[o].at # "idle")
      /\ drain'[o].at # "idle" /\ o = current => current' = o
      /\ current' \in {current, None} /\ (current = o /\ ~IsDrained(q) => current' = o)
  <2>1. CASE IsDrained(q) /\ Ended(o, q)
    <3>1. queues'[o].draining \in BOOLEAN
      BY <2>1 DEF Ended, QueueStates
    <3> QED
      BY <2>1, <3>1, States DEF Ended
  <2>2. CASE /\ queues' = [queues EXCEPT ![o] = q] /\ drain' = [drain EXCEPT ![o] = Waiting(d.forced)]
             /\ current' = current
    <3>1. queues'[o] = q /\ drain'[o] = Waiting(d.forced)
      BY <2>2 DEF Inv, Typed
    <3>2. queues' \in [QueueObjects -> QueueStates] /\ drain' \in [QueueObjects -> DrainStates]
      BY <1>3, <1>5, <2>2, States DEF Inv, Typed
    <3> QED
      BY <1>5, <2>2, <3>1, <3>2, States
  <2> QED
    BY <1>4, <2>1, <2>2
<1>7. \A p \in QueueObjects \ {o} :
        /\ queues'[p].items = queues[p].items /\ queues'[p].dropped = queues[p].dropped
        /\ \/ drain'[p] = drain[p] /\ queues'[p].draining = queues[p].draining
           \/ /\ p = current /\ queues'[p].draining
              /\ drain'[p].at = "waiting" /\ drain'[p].sent = <<>> /\ drain'[p].lines = <<>>
  <2> TAKE p \in QueueObjects \ {o}
  <2>1. CASE Ended(o, q)
    BY <2>1 DEF Ended
  <2>2. CASE /\ queues' = [queues EXCEPT ![o] = q] /\ drain' = [drain EXCEPT ![o] = Waiting(d.forced)]
             /\ current' = current
    <3>1. queues'[p] = queues[p] /\ drain'[p] = drain[p]
      BY <2>2 DEF Inv, Typed
    <3> QED
      BY <3>1
  <2> QED
    BY <1>4, <2>1, <2>2
<1> QED
  BY <1>3, <1>6, <1>7

LEMMA StepRunEnds ==
  ASSUME Inv, NEW o \in QueueObjects, RunEnds(o)
  PROVE  Inv'
<1> DEFINE r == queues[o]
           d == drain[o]
<1>0. PICK q : q = AfterRun(r, d)
  OBVIOUS
<1>1. /\ d.at = "running" /\ judged' = judged /\ recent' = recent /\ disturbed' = disturbed
      /\ ran' = ran \o d.sent /\ accounted' = accounted \cup ToSet(d.lines)
  BY DEF RunEnds, arrivals
<1>2. /\ r \in QueueStates /\ d \in DrainStates /\ IsInjective(r.items)
      /\ \A k \in DOMAIN r.items : r.items[k] \in ToSet(d.sent) => k <= Took(d)
  BY DEF Inv, Typed, PlacedOnce
<1>3. /\ q \in QueueStates /\ IsInjective(q.items)
      /\ ToSet(q.items) \subseteq ToSet(r.items) \ ToSet(d.sent)
      /\ \A x \in ToSet(r.items) \ ToSet(q.items) : \E k \in 1..Took(d) : r.items[k] = x
      /\ q.dropped = IF d.lines # <<>> THEN <<>> ELSE r.dropped
  <2>1. q \in QueueStates /\ IsInjective(q.items)
    BY <1>0, RunOver
  <2>2. ToSet(q.items) \subseteq ToSet(r.items) \ ToSet(d.sent)
    BY <1>0, RunOver
  <2>3. q.dropped = IF d.lines # <<>> THEN <<>> ELSE r.dropped
    BY <1>0, RunOver
  <2> HIDE DEF r, d
  <2>4. \A x \in ToSet(r.items) \ ToSet(q.items) : \E k \in 1..Took(d) : r.items[k] = x
    BY <1>0, <1>2, Taken, ZenonT(30)
  <2> QED
    BY <2>1, <2>2, <2>3, <2>4
<1>4. /\ queues' \in [QueueObjects -> QueueStates] /\ drain' \in [QueueObjects -> DrainStates]
      /\ queues'[o].items = q.items /\ queues'[o].dropped = q.dropped
      /\ drain'[o].at # "running" /\ drain'[o].sent = <<>> /\ drain'[o].lines = <<>>
      /\ queues'[o].draining = (drain'[o].at # "idle")
      /\ drain'[o].at # "idle" /\ o = current => current' = o
      /\ current' \in {current, None} /\ (current = o /\ ~IsDrained(q) => current' = o)
  BY <1>0, RunOver
<1>5. \A p \in QueueObjects \ {o} :
        /\ queues'[p].items = queues[p].items /\ queues'[p].dropped = queues[p].dropped
        /\ \/ drain'[p] = drain[p] /\ queues'[p].draining = queues[p].draining
           \/ /\ p = current /\ queues'[p].draining
              /\ drain'[p].at = "waiting" /\ drain'[p].sent = <<>> /\ drain'[p].lines = <<>>
  BY <1>0, RunOver
<1>6. /\ ToSet(d.sent) \subseteq ToSet(recent) \ ToSet(ran) /\ IsInjective(d.sent)
      /\ ran \in Seq(Messages) /\ d.sent \in Seq(Messages) /\ IsInjective(ran)
  BY <1>2 DEF Inv, Typed, PlacedOnce, Own, DrainStates
<1>7. ran' \in Seq(Messages) /\ ToSet(ran') = ToSet(ran) \cup ToSet(d.sent) /\ IsInjective(ran')
  <2> HIDE DEF d
  <2>1. ToSet(ran) \cap ToSet(d.sent) = {}
    BY <1>6
  <2>2. /\ ran \o d.sent \in Seq(Messages)
        /\ ToSet(ran \o d.sent) = ToSet(ran) \cup ToSet(d.sent)
    BY <1>6, Joined
  <2>3. IsInjective(ran \o d.sent)
    BY <1>6, <2>1, Joined
  <2> QED
    BY <1>1, <2>2, <2>3
<1>8. Typed'
  <2>1. current' \in QueueObjects \cup {None}
    BY <1>4 DEF Inv, Typed
  <2> QED
    BY <1>1, <1>4, <1>7, <2>1 DEF Inv, Typed
<1>9. DrainsAreMarked'
  <2> SUFFICES ASSUME NEW p \in QueueObjects
               PROVE  /\ queues'[p].draining = (drain'[p].at # "idle")
                      /\ drain'[p].at # "running" => drain'[p].sent = <<>> /\ drain'[p].lines = <<>>
    BY DEF DrainsAreMarked
  <2>1. CASE p = o
    BY <1>4, <2>1
  <2>2. CASE p # o
    <3>1. queues'[p].draining \in BOOLEAN
      BY <1>4 DEF QueueStates
    <3> QED
      BY <1>5, <2>2, <3>1 DEF Inv, DrainsAreMarked
  <2> QED
    BY <2>1, <2>2
<1>10. PlacedOnce'
  <2>1. \A p \in QueueObjects \ {o} : Own(p)' \subseteq Own(p) /\ IsInjective(drain'[p].sent)
    BY <1>5, EmptyHasNone DEF Own, Inv, PlacedOnce
  <2>2. \A p \in QueueObjects : p = o => Own(p)' \subseteq Own(p) \ ToSet(d.sent)
    BY <1>3, <1>4, EmptyHasNone DEF Own
  <2>3. \A p \in QueueObjects \ {o} : Own(p) \cap ToSet(d.sent) = {}
    BY DEF Own, Inv, PlacedOnce
  <2>4. \A p \in QueueObjects : Own(p)' \subseteq ToSet(recent') \ ToSet(ran')
    <3> TAKE p \in QueueObjects
    <3>1. Own(p)' \subseteq Own(p) \ ToSet(d.sent)
      BY <2>1, <2>2, <2>3
    <3> QED
      BY <1>1, <1>7, <3>1 DEF Inv, PlacedOnce
  <2>5. \A p \in QueueObjects : Own(p)' \subseteq Own(p)
    BY <2>1, <2>2
  <2>6. \A p \in QueueObjects :
          /\ IsInjective(queues'[p].items) /\ IsInjective(drain'[p].sent)
          /\ \A k \in DOMAIN queues'[p].items :
               queues'[p].items[k] \in ToSet(drain'[p].sent) => k <= Took(drain'[p])
    <3> TAKE p \in QueueObjects
    <3>1. CASE p = o
      BY <1>3, <1>4, <3>1, EmptyHasNone
    <3>2. CASE p # o
      BY <1>5, <3>2, EmptyHasNone DEF Inv, PlacedOnce
    <3> QED
      BY <3>1, <3>2
  <2>7. ToSet(ran') \subseteq ToSet(recent') /\ IsInjective(recent')
    BY <1>1, <1>6, <1>7 DEF Inv, PlacedOnce
  <2>8. \A p, w \in QueueObjects : p # w => Own(p)' \cap Own(w)' = {}
    BY <2>5 DEF Inv, PlacedOnce
  <2> QED
    BY <1>7, <2>4, <2>6, <2>7, <2>8 DEF PlacedOnce
<1>11. ~disturbed => o = current /\ \A p \in QueueObjects \ {o} : drain[p].at = "idle"
  BY <1>1 DEF Inv, DrainsTheirOwn
<1>12. DrainsTheirOwn'
  <2> SUFFICES ASSUME ~disturbed, NEW p \in QueueObjects, drain'[p].at # "idle"
               PROVE  p = current' /\ drain'[p].at # "running" /\ drain'[p].lines = <<>>
    BY <1>1 DEF DrainsTheirOwn
  <2>1. p = o
    BY <1>5, <1>11
  <2> QED
    BY <1>4, <1>11, <2>1
<1>13. NoUnexplainedLoss'
  <2> SUFFICES ASSUME ~disturbed, NEW x \in ToSet(recent)
               PROVE  Waits(x)' \/ Pending(x)' \/ x \in ToSet(ran') \cup accounted'
    BY <1>1 DEF NoUnexplainedLoss, Lost
  <2>1. Waits(x) \/ Pending(x) \/ x \in ToSet(ran) \cup accounted
    BY NoneLost DEF Inv, NoUnexplainedLoss
  <2>2. Held = {o}
    BY <1>11 DEF Held
  <2>3. ~IsDrained(q) => o \in Held'
    BY <1>4, <1>11 DEF Held
  <2>4. CASE Waits(x)
    <3>1. x \in ToSet(r.items)
      BY <2>2, <2>4 DEF Waits
    <3>2. CASE x \in ToSet(q.items)
      <4>1. ~IsDrained(q)
        BY <3>2, EmptyHasNone DEF IsDrained
      <4> QED
        BY <1>4, <2>3, <3>2, <4>1 DEF Waits
    <3>3. CASE x \notin ToSet(q.items)
      <4>1. PICK k \in 1..Took(d) : r.items[k] = x
        BY <1>3, <3>1, <3>3
      <4>2. x \in ToSet(d.sent)
        BY <1>1, <4>1 DEF Inv, DrainsTheirOwn
      <4> QED
        BY <1>7, <4>2
    <3> QED
      BY <3>2, <3>3
  <2>5. CASE Pending(x)
    <3>1. x \in ToSet(r.dropped)
      BY <2>2, <2>5 DEF Pending
    <3>2. CASE d.lines = <<>>
      <4>1. q.dropped = r.dropped /\ ~IsDrained(q)
        BY <1>3, <3>1, <3>2, EmptyHasNone DEF IsDrained
      <4> QED
        BY <1>4, <2>3, <3>1, <4>1 DEF Pending
    <3>3. CASE d.lines # <<>>
      <4>1. d.lines = r.dropped
        BY <1>1, <3>3 DEF Inv, DrainsTheirOwn
      <4> QED
        BY <1>1, <3>1, <4>1
    <3> QED
      BY <3>2, <3>3
  <2> QED
    BY <1>1, <1>7, <2>1, <2>4, <2>5
<1> QED
  BY <1>8, <1>9, <1>10, <1>12, <1>13 DEF Inv

LEMMA StepClear ==
  ASSUME Inv, ClearFollowupQueue
  PROVE  Inv'
<1>1. /\ drain' = drain /\ judged' = judged /\ recent' = recent /\ ran' = ran
      /\ current' = None
  BY DEF ClearFollowupQueue, arrivals
<1>2. CASE current = None
  <2>1. queues' = queues /\ accounted' = accounted /\ disturbed' = disturbed
    BY <1>2 DEF ClearFollowupQueue
  <2>2. judged' \subseteq Messages
    BY <1>1 DEF Inv, Typed
  <2> QED
    BY <1>1, <1>2, <2>1, <2>2, StepElsewhere DEF history
<1>3. CASE current # None
  <2> DEFINE q == queues[current]
             e == [q EXCEPT !.items = <<>>, !.dropped = <<>>, !.lastRun = FALSE]
  <2>1. /\ queues' = [queues EXCEPT ![current] = e]
        /\ accounted' = accounted \cup ToSet(q.items) \cup ToSet(q.dropped)
        /\ disturbed' = (disturbed \/ q.draining)
    BY <1>3 DEF ClearFollowupQueue
  <2>2. current \in QueueObjects /\ q \in QueueStates
    BY <1>3 DEF Inv, Typed
  <2>3. /\ e \in QueueStates /\ e.items = <<>> /\ e.dropped = <<>> /\ e.draining = q.draining
        /\ q.draining \in BOOLEAN
    BY <2>2, EmptySeq DEF QueueStates
  <2> HIDE DEF e
  <2>4. /\ queues' \in [QueueObjects -> QueueStates] /\ queues'[current] = e
        /\ \A p \in QueueObjects \ {current} : queues'[p] = queues[p]
    BY <2>1, <2>2, <2>3 DEF Inv, Typed
  <2>5. Typed'
    BY <1>1, <2>1, <2>3, <2>4 DEF Inv, Typed
  <2>6. DrainsAreMarked'
    BY <1>1, <2>2, <2>3, <2>4 DEF Inv, DrainsAreMarked
  <2>7. PlacedOnce'
    <3>1. \A p \in QueueObjects : queues'[p].items = queues[p].items \/ queues'[p].items = <<>>
      BY <2>3, <2>4
    <3> QED
      BY <1>1, <3>1, PlacedShrinks DEF Inv
  <2>8. ~disturbed' => ~disturbed /\ \A p \in QueueObjects : drain[p].at = "idle"
    BY <2>1, <2>2 DEF Inv, DrainsTheirOwn, DrainsAreMarked
  <2>9. DrainsTheirOwn'
    BY <1>1, <2>8 DEF DrainsTheirOwn
  <2>10. NoUnexplainedLoss'
    <3>1. ASSUME ~disturbed', NEW p \in Held, NEW x \in ToSet(queues[p].items) \cup ToSet(queues[p].dropped)
          PROVE  x \in accounted'
      BY <2>1, <2>8, <3>1 DEF Held
    <3> QED
      BY <1>1, <2>1, <3>1, LossUnchanged DEF Inv
  <2> QED
    BY <2>5, <2>6, <2>7, <2>9, <2>10 DEF Inv
<1> QED
  BY <1>2, <1>3

-----------------------------------------------------------------------------
(* The invariant holds.                                                    *)

LEMMA InvInit == Init => Inv
<1> SUFFICES ASSUME Init PROVE Inv
  OBVIOUS
<1>1. /\ queues = [o \in QueueObjects |-> Absent] /\ drain = [o \in QueueObjects |-> NotDraining]
      /\ current = None /\ judged = {} /\ recent = <<>> /\ ran = <<>> /\ disturbed = FALSE
  BY DEF Init
<1>2. Typed
  BY <1>1, States, EmptySeq DEF Typed
<1>3. \A o \in QueueObjects : queues[o].items = <<>> /\ ~queues[o].draining /\ drain[o] = NotDraining
                              /\ queues[o].draining = FALSE
  BY <1>1 DEF Absent
<1>4. DrainsAreMarked
  BY <1>3, States DEF DrainsAreMarked
<1>5. \A o \in QueueObjects : Own(o) = {}
  BY <1>3, States, EmptyHasNone DEF Own
<1>6. PlacedOnce
  BY <1>1, <1>3, <1>5, States, EmptyHasNone DEF PlacedOnce
<1>7. DrainsTheirOwn
  BY <1>3, States DEF DrainsTheirOwn
<1>8. NoUnexplainedLoss
  BY <1>1, EmptyHasNone DEF NoUnexplainedLoss, Lost
<1> QED
  BY <1>2, <1>4, <1>6, <1>7, <1>8 DEF Inv

LEMMA InvNext == Inv /\ [Next]_vars => Inv'
<1> SUFFICES ASSUME Inv, [Next]_vars PROVE Inv'
  OBVIOUS
<1>1. CASE UNCHANGED vars
  BY <1>1, StepElsewhere DEF vars, history, Inv, Typed
<1>2. ASSUME NEW m \in Messages, MeetsActiveRun(m) PROVE Inv'
  BY <1>2, StepElsewhere DEF MeetsActiveRun, Inv, Typed
<1>3. CASE TurnStarts
  BY <1>3, StepElsewhere DEF TurnStarts, Inv, Typed
<1>4. CASE TurnEnds
  BY <1>4, StepTurnEnds
<1>5. ASSUME NEW m \in Messages, NEW s \in Settings[m], Enqueue(m, s) PROVE Inv'
  BY <1>5, StepTurnedAway, StepAccepts DEF Enqueue
<1>6. ASSUME NEW o \in QueueObjects, Drain(o) \/ RunFails(o) PROVE Inv'
  BY <1>6, StepDebounceEnds, StepRunEnds, StepRunFails DEF Drain
<1>7. CASE ClearFollowupQueue
  BY <1>7, StepClear
<1> QED
  BY <1>1, <1>2, <1>3, <1>4, <1>5, <1>6, <1>7 DEF Next

(* In every reachable state an accepted message is in one queue object at    *)
(* most, or in what one drain is running, or was run; and while nothing that *)
(* may lose a message has happened, the only drain is that of the session's  *)
(* queue, which takes out of it what it ran (drain.ts:119-159).              *)
THEOREM QueueInvariant == Spec => []Inv
<1> QED
  BY InvInit, InvNext, PTL DEF Spec

(* No message is run twice, whatever is redelivered, retried, dropped from a *)
(* full queue or cleared, with any number of drains still at work on objects *)
(* that the map no longer holds (enqueue.ts:57-88, drain.ts:119-159).        *)
THEOREM MessagesRunOnce == Spec => []RunsOnce
<1>1. Inv => RunsOnce
  BY DEF Inv, PlacedOnce, RunsOnce
<1> QED
  BY <1>1, QueueInvariant, PTL

(* An accepted message waits, was run, was told in a summary, or was dropped *)
(* or cleared on request, unless the queue overflowed during a run, was      *)
(* cleared during a drain, or sent a summary in place of a message           *)
(* (drain.ts:119-159, queue-helpers.ts, state.ts).                           *)
THEOREM MessagesAreKept == Spec => []NoUnexplainedLoss
<1>1. Inv => NoUnexplainedLoss
  BY DEF Inv
<1> QED
  BY <1>1, QueueInvariant, PTL
-----------------------------------------------------------------------------
(* Messages are run in the order of their acceptance.                      *)

LEMMA PrecedesKept ==
  ASSUME Typed, NEW m \in Messages, recent' = Append(recent, m)
  PROVE  /\ \A x, y : Precedes(x, y) => Precedes(x, y)'
         /\ \A x \in ToSet(recent) : Precedes(x, m)'
<1>1. /\ recent \in Seq(Messages) /\ recent' \in Seq(Messages) /\ Len(recent) \in Nat
      /\ Len(recent') = Len(recent) + 1 /\ recent'[Len(recent) + 1] = m
      /\ \A i \in 1..Len(recent) : recent'[i] = recent[i]
  BY AppendProperties, LenProperties DEF Typed
<1>2. DOMAIN recent = 1..Len(recent) /\ DOMAIN recent' = 1..(Len(recent) + 1)
  BY <1>1, LenProperties
<1>3. \A i \in DOMAIN recent : i \in DOMAIN recent' /\ recent'[i] = recent[i] /\ i < Len(recent) + 1
  BY <1>1, <1>2
<1>4. \A x, y : Precedes(x, y) => Precedes(x, y)'
  BY <1>3 DEF Precedes
<1>5. ASSUME NEW x \in ToSet(recent) PROVE Precedes(x, m)'
  <2>1. PICK a \in DOMAIN recent : recent[a] = x
    BY <1>2 DEF ToSet
  <2>2. Len(recent) + 1 \in DOMAIN recent'
    BY <1>1, <1>2
  <2> QED
    BY <1>1, <1>3, <2>1, <2>2 DEF Precedes
<1> QED
  BY <1>4, <1>5

\* No message is accepted and none is run; the session's queue is what it was,
\* or empty; and a run in progress goes on.
LEMMA LineUnchanged ==
  ASSUME WaitsInLine, RunsInOrder, recent' = recent, ran' = ran, disturbed => disturbed',
         ~disturbed' /\ current' # None =>
           \/ current' = current /\ queues'[current'].items = queues[current].items
           \/ queues'[current'].items = <<>>,
         \A o \in QueueObjects : ~disturbed' /\ drain'[o].at = "running" =>
           drain'[o] = drain[o] /\ queues'[o].items = queues[o].items
  PROVE  WaitsInLine' /\ RunsInOrder'
<1>1. \A x, y : Precedes(x, y)' <=> Precedes(x, y)
  BY DEF Precedes
<1>2. RunsInOrder'
  BY <1>1 DEF RunsInOrder, InOrder
<1>3. ASSUME ~disturbed', current' # None
      PROVE  /\ InOrder(queues[current].items)'
             /\ \A m \in ToSet(ran), n \in ToSet(queues'[current'].items) : Precedes(m, n)'
  <2>1. CASE current' = current /\ queues'[current'].items = queues[current].items
    BY <1>1, <1>3, <2>1 DEF WaitsInLine, InOrder
  <2>2. CASE queues'[current'].items = <<>>
    BY <2>2, EmptyHasNone DEF InOrder
  <2> QED
    BY <1>3, <2>1, <2>2
<1>4. ASSUME ~disturbed', NEW o \in QueueObjects, drain'[o].at = "running"
      PROVE  /\ Len(drain'[o].sent) = Took(drain'[o])
             /\ \A k \in 1..Took(drain'[o]) : drain'[o].sent[k] = queues'[o].items[k]
  BY <1>4 DEF WaitsInLine
<1> QED
  BY <1>2, <1>3, <1>4 DEF WaitsInLine

LEMMA LineTurnedAway ==
  ASSUME Inv, WaitsInLine, RunsInOrder, NEW m \in Messages, NEW s \in Settings[m],
         SkipDuplicate(m, s) \/ RefuseNewest(m, s)
  PROVE  WaitsInLine' /\ RunsInOrder'
<1>1. /\ ObjectAvailable /\ current' = Target /\ drain' = drain
      /\ recent' = recent /\ ran' = ran /\ disturbed' = disturbed
  BY DEF SkipDuplicate, RefuseNewest, history
<1>2. /\ Target \in QueueObjects /\ Configured(s) \in QueueStates
      /\ current # None => Target = current /\ Configured(s).items = queues[Target].items
      /\ current = None => drain[Target].at = "idle" /\ Configured(s).items = <<>>
  BY <1>1, TargetQueue DEF Inv
<1>3. /\ queues'[Target].items = Configured(s).items
      /\ \A o \in QueueObjects \ {Target} : queues'[o] = queues[o]
  BY <1>2 DEF SkipDuplicate, RefuseNewest, QueueStates, Inv, Typed
<1>4. \A o \in QueueObjects : ~disturbed /\ drain[o].at = "running" => o = current
  BY DEF Inv, DrainsTheirOwn
<1>5. \A o \in QueueObjects : ~disturbed /\ drain[o].at = "running" =>
        queues'[o].items = queues[o].items
  BY <1>2, <1>3, <1>4, NoneAssumption
<1> QED
  BY <1>1, <1>2, <1>3, <1>5, LineUnchanged

LEMMA LineAccepts ==
  ASSUME Inv, WaitsInLine, RunsInOrder, NEW m \in Messages, NEW s \in Settings[m],
         EnqueueFollowupRun(m, s)
  PROVE  WaitsInLine' /\ RunsInOrder'
<1>0. PICK q, t : q = Configured(s) /\ t = Target
  OBVIOUS
<1>1. PICK u : u = AfterDrop(q).items
  OBVIOUS
<1>2. /\ t \in QueueObjects /\ q \in QueueStates /\ u \in Seq(Messages)
      /\ queues'[t].items = Append(u, m) /\ current' = t
      /\ \A o \in QueueObjects \ {t} : queues'[o].items = queues[o].items
      /\ \A o \in QueueObjects : drain'[o] = drain[o] \/ drain'[o].at = "waiting"
  BY <1>0, <1>1, Accepted
<1>3. /\ ObjectAvailable /\ recent' = Append(recent, m) /\ ran' = ran
      /\ disturbed' = (disturbed \/ (IsFull(q) /\ drain[t].at = "running"))
  BY <1>0 DEF EnqueueFollowupRun
<1>4. /\ q.set \in AllSettings
      /\ current # None => t = current /\ q.items = queues[t].items
      /\ current = None => q.items = <<>>
  BY <1>0, <1>3, TargetQueue DEF Inv
<1>5. /\ Surplus(q) \in Nat /\ u = SubSeq(q.items, Surplus(q) + 1, Len(q.items))
      /\ ~IsFull(q) => u = q.items
  BY <1>1, <1>2, <1>4, Sheds
<1>6. q.items \in Seq(Messages) /\ Len(q.items) \in Nat
  BY <1>2 DEF QueueStates
<1>7. /\ ToSet(u) \subseteq ToSet(q.items) /\ DOMAIN u = 1..Len(u) /\ Len(u) \in Nat
      /\ \A k \in DOMAIN u : k + Surplus(q) \in DOMAIN q.items /\ u[k] = q.items[k + Surplus(q)]
  <2>1. PICK w \in Seq(Messages), n \in Nat : w = q.items /\ n = Surplus(q)
    BY <1>5, <1>6
  <2>2. u = SubSeq(w, n + 1, Len(w))
    BY <1>5, <2>1
  <2>3. ToSet(u) \subseteq ToSet(w)
    BY <2>2, DroppedFirst
  <2>4. \A k \in 1..Len(u) : k + n \in 1..Len(w) /\ u[k] = w[k + n]
    BY <2>2, DroppedFirst
  <2>5. DOMAIN u = 1..Len(u) /\ Len(u) \in Nat /\ DOMAIN w = 1..Len(w)
    BY <1>2, LenProperties
  <2> QED
    BY <2>1, <2>3, <2>4, <2>5
<1>8. ~disturbed => /\ InOrder(q.items)
                    /\ \A x \in ToSet(ran), y \in ToSet(q.items) : Precedes(x, y)
  <2>1. CASE current = None
    BY <1>4, <2>1, EmptyHasNone DEF InOrder
  <2>2. CASE current # None
    BY <1>4, <2>2 DEF WaitsInLine
  <2> QED
    BY <2>1, <2>2
<1>9. ToSet(q.items) \cup ToSet(ran) \subseteq ToSet(recent)
  <2>1. CASE current = None
    BY <1>4, <2>1, EmptyHasNone DEF Inv, PlacedOnce
  <2>2. CASE current # None
    BY <1>2, <1>4, <2>2 DEF Inv, PlacedOnce, Own
  <2> QED
    BY <2>1, <2>2
<1>10. /\ \A x, y : Precedes(x, y) => Precedes(x, y)'
       /\ \A x \in ToSet(recent) : Precedes(x, m)'
  BY <1>3, PrecedesKept DEF Inv
<1>11. RunsInOrder'
  BY <1>3, <1>10 DEF RunsInOrder, InOrder
<1>12. /\ DOMAIN Append(u, m) = 1..(Len(u) + 1) /\ Append(u, m)[Len(u) + 1] = m
       /\ \A i \in 1..Len(u) : Append(u, m)[i] = u[i]
       /\ ToSet(Append(u, m)) = ToSet(u) \cup {m}
  <2>1. /\ Append(u, m) \in Seq(Messages) /\ Len(Append(u, m)) = Len(u) + 1
        /\ \A i \in 1..Len(u) : Append(u, m)[i] = u[i]
        /\ Append(u, m)[Len(u) + 1] = m
    BY <1>2, AppendProperties
  <2>2. DOMAIN Append(u, m) = 1..(Len(u) + 1)
    BY <2>1, LenProperties
  <2> QED
    BY <1>2, <2>1, <2>2, AppendedSet
<1>13. ASSUME ~disturbed
       PROVE  /\ InOrder(queues[current].items)'
              /\ \A x \in ToSet(ran), y \in ToSet(queues'[current'].items) : Precedes(x, y)'
  <2>1. PICK z : z = Append(u, m)
    OBVIOUS
  <2>2. ASSUME NEW i \in DOMAIN z, NEW j \in DOMAIN z, i < j PROVE Precedes(z[i], z[j])'
    <3>1. i \in DOMAIN u /\ z[i] = u[i] /\ u[i] \in ToSet(recent)
      <4>1. i \in 1..Len(u)
        BY <1>7, <1>12, <2>1, <2>2
      <4> QED
        BY <1>7, <1>9, <1>12, <2>1, <4>1 DEF ToSet
    <3>2. CASE j = Len(u) + 1
      BY <1>10, <1>12, <2>1, <3>1, <3>2
    <3>3. CASE j # Len(u) + 1
      <4>1. j \in DOMAIN u /\ z[j] = u[j]
        BY <1>7, <1>12, <2>1, <3>3
      <4>2. i + Surplus(q) < j + Surplus(q)
        BY <1>5, <1>7, <2>2, <3>1, <4>1
      <4>3. Precedes(q.items[i + Surplus(q)], q.items[j + Surplus(q)])
        BY <1>7, <1>8, <1>13, <3>1, <4>1, <4>2 DEF InOrder
      <4> QED
        BY <1>7, <1>10, <3>1, <4>1, <4>3
    <3> QED
      BY <3>2, <3>3
  <2>3. \A x \in ToSet(ran), y \in ToSet(z) : Precedes(x, y)'
    BY <1>7, <1>8, <1>9, <1>10, <1>12, <1>13, <2>1
  <2>4. queues'[current'].items = z
    BY <1>2, <2>1
  <2> QED
    BY <2>2, <2>3, <2>4 DEF InOrder
<1>14. ASSUME ~disturbed', NEW o \in QueueObjects, drain'[o].at = "running"
       PROVE  /\ Len(drain'[o].sent) = Took(drain'[o])
              /\ \A k \in 1..Took(drain'[o]) : drain'[o].sent[k] = queues'[o].items[k]
  <2>1. drain'[o] = drain[o] /\ ~disturbed
    BY <1>2, <1>3, <1>14
  <2>2. o = current /\ o = t /\ current # None
    BY <1>4, <1>14, <2>1, NoneAssumption DEF Inv, DrainsTheirOwn
  <2>3. u = queues[o].items
    BY <1>3, <1>4, <1>5, <1>14, <2>1, <2>2
  <2>4. Len(drain[o].sent) = Took(drain[o]) /\ Took(drain[o]) <= Len(u)
    BY <1>14, <2>1, <2>3 DEF WaitsInLine, Inv, DrainsTheirOwn
  <2>5. Len(drain[o].sent) \in Nat
    BY LenProperties DEF Inv, Typed, DrainStates
  <2>6. \A k \in 1..Took(drain[o]) : k \in 1..Len(u)
    BY <1>7, <2>4, <2>5
  <2>7. \A k \in 1..Took(drain[o]) : drain[o].sent[k] = queues'[o].items[k]
    BY <1>2, <1>12, <1>14, <2>1, <2>2, <2>3, <2>6 DEF WaitsInLine
  <2> QED
    BY <2>1, <2>4, <2>7
<1>15. current' # None /\ (~disturbed' => ~disturbed)
  BY <1>2, <1>3, NoneAssumption
<1> QED
  BY <1>3, <1>11, <1>13, <1>14, <1>15 DEF WaitsInLine

LEMMA LineStarts ==
  ASSUME Inv, WaitsInLine, RunsInOrder, NEW o \in QueueObjects, drain[o].at = "waiting",
         NEW forced \in BOOLEAN, HasWork(queues[o], Plan(queues[o], forced)),
         drain' = [drain EXCEPT ![o] = Running(Plan(queues[o], forced), forced)],
         disturbed' = (disturbed \/ Plan(queues[o], forced).kind = "summary"),
         queues' = queues, current' = current, recent' = recent, ran' = ran
  PROVE  WaitsInLine' /\ RunsInOrder'
<1>0. PICK q, p : q = queues[o] /\ p = Plan(q, forced)
  OBVIOUS
<1>1. /\ drain'[o] = Running(p, forced)
      /\ \A r \in QueueObjects \ {o} : drain'[r] = drain[r]
  BY <1>0 DEF Inv, Typed
<1>2. \A x, y : Precedes(x, y)' <=> Precedes(x, y)
  BY DEF Precedes
<1>3. p.kind # "summary" =>
        /\ Len(Running(p, forced).sent) = Took(Running(p, forced))
        /\ \A k \in 1..Took(Running(p, forced)) : Running(p, forced).sent[k] = q.items[k]
  <2>1. \/ p.kind = "batch" /\ p.sent = q.items
        \/ p.kind = "summary"
        \/ p.kind = "item" /\ p.sent = First(q.items)
    BY <1>0 DEF Plan
  <2>2. CASE p.kind = "batch" /\ p.sent = q.items
    BY <2>2 DEF Running, Took
  <2>3. CASE p.kind = "item" /\ p.sent = First(q.items)
    <3>1. q.items # <<>> /\ q.items \in Seq(Messages)
      BY <1>0, <2>3 DEF HasWork, Inv, Typed, QueueStates
    <3>2. First(q.items) = <<q.items[1]>>
      BY <3>1, HeadTailProperties DEF First
    <3>3. Len(<<q.items[1]>>) = 1 /\ <<q.items[1]>>[1] = q.items[1]
      OBVIOUS
    <3>4. Took(Running(p, forced)) = 1 /\ Running(p, forced).sent = <<q.items[1]>>
      BY <2>3, <3>2 DEF Running, Took
    <3> QED
      BY <3>3, <3>4
  <2> QED
    BY <2>1, <2>2, <2>3
<1>4. RunsInOrder'
  BY <1>2 DEF RunsInOrder, InOrder
<1>5. ~disturbed' => ~disturbed /\ p.kind # "summary"
  BY <1>0
<1>6. ASSUME ~disturbed', current # None
      PROVE  /\ InOrder(queues[current].items)'
             /\ \A x \in ToSet(ran), y \in ToSet(queues[current].items) : Precedes(x, y)'
  BY <1>2, <1>5, <1>6 DEF WaitsInLine, InOrder
<1>7. ASSUME ~disturbed', NEW r \in QueueObjects, drain'[r].at = "running"
      PROVE  /\ Len(drain'[r].sent) = Took(drain'[r])
             /\ \A k \in 1..Took(drain'[r]) : drain'[r].sent[k] = queues[r].items[k]
  <2>1. CASE r = o
    BY <1>0, <1>1, <1>3, <1>5, <1>7, <2>1
  <2>2. CASE r # o
    BY <1>1, <1>5, <1>7, <2>2 DEF WaitsInLine
  <2> QED
    BY <2>1, <2>2
<1> QED
  BY <1>4, <1>6, <1>7 DEF WaitsInLine

\* The drain of o ends and leaves its object as it is.
LEMMA LineEndsInPlace ==
  ASSUME Inv, WaitsInLine, RunsInOrder, NEW o \in QueueObjects, Ended(o, queues[o]),
         recent' = recent, ran' = ran, disturbed' = disturbed
  PROVE  WaitsInLine' /\ RunsInOrder'
<1>1. \A p \in QueueObjects : queues'[p].items = queues[p].items
  BY DEF Ended
<1>2. \A p \in QueueObjects : drain'[p].at = "running" => drain'[p] = drain[p]
  BY States DEF Ended
<1>3. current' # None => current' = current /\ current \in QueueObjects
  BY DEF Ended, Inv, Typed
<1> QED
  BY <1>1, <1>2, <1>3, LineUnchanged

LEMMA LineDebounceEnds ==
  ASSUME Inv, WaitsInLine, RunsInOrder, NEW o \in QueueObjects, DebounceEnds(o)
  PROVE  WaitsInLine' /\ RunsInOrder'
<1> DEFINE q == queues[o]
           forced == drain[o].forced \/ (q.set.mode = "collect" /\ CrossChannel(q.items))
           plan == Plan(q, forced)
<1>1. drain[o].at = "waiting" /\ recent' = recent /\ ran' = ran
  BY DEF DebounceEnds, arrivals
<1>2. q \in QueueStates /\ forced \in BOOLEAN
  BY DEF Inv, Typed, DrainStates
<1>3. CASE HasWork(q, plan)
  <2>1. /\ drain' = [drain EXCEPT ![o] = Running(plan, forced)]
        /\ disturbed' = (disturbed \/ plan.kind = "summary")
        /\ queues' = queues /\ current' = current
    BY <1>3 DEF DebounceEnds
  <2> HIDE DEF forced
  <2> QED
    BY <1>1, <1>2, <1>3, <2>1, LineStarts
<1>4. CASE ~HasWork(q, plan)
  <2>1. DrainEnds(o, q) /\ disturbed' = disturbed
    BY <1>4 DEF DebounceEnds
  <2>2. Ended(o, queues[o])
    BY <1>2, <2>1, Ends DEF Inv
  <2> QED
    BY <1>1, <2>1, <2>2, LineEndsInPlace
<1> QED
  BY <1>3, <1>4

LEMMA LineRunEnds ==
  ASSUME Inv, WaitsInLine, RunsInOrder, NEW o \in QueueObjects, RunEnds(o)
  PROVE  WaitsInLine' /\ RunsInOrder'
<1> SUFFICES ASSUME ~disturbed PROVE WaitsInLine' /\ RunsInOrder'
  BY DEF RunEnds, WaitsInLine, RunsInOrder
<1>0. PICK s, d, q, n : s = queues[o].items /\ d = drain[o].sent /\ n = Took(drain[o])
                        /\ q = AfterRun(queues[o], drain[o])
  OBVIOUS
<1>1. /\ drain[o].at = "running" /\ recent' = recent /\ ran' = ran \o d
      /\ disturbed' = disturbed
  BY <1>0 DEF RunEnds, arrivals
<1>2. /\ s \in Seq(Messages) /\ d \in Seq(Messages) /\ ran \in Seq(Messages)
      /\ Len(d) = n /\ n <= Len(s) /\ \A k \in 1..n : d[k] = s[k]
      /\ o = current /\ current # None
  BY <1>0, <1>1, NoneAssumption
     DEF Inv, Typed, QueueStates, DrainStates, WaitsInLine, DrainsTheirOwn
<1>3. /\ InOrder(s) /\ InOrder(ran)
      /\ \A x \in ToSet(ran), y \in ToSet(s) : Precedes(x, y)
  BY <1>0, <1>2 DEF WaitsInLine, RunsInOrder
<1>4. /\ n \in Nat /\ Len(s) \in Nat /\ Len(ran) \in Nat
      /\ DOMAIN s = 1..Len(s) /\ DOMAIN d = 1..n /\ DOMAIN ran = 1..Len(ran)
  BY <1>2, LenProperties
<1>5. \A x, y : Precedes(x, y)' <=> Precedes(x, y)
  BY <1>1 DEF Precedes
<1>6. /\ DOMAIN ran' = 1..(Len(ran) + n) /\ ToSet(ran') = ToSet(ran) \cup ToSet(d)
      /\ \A i \in 1..(Len(ran) + n) : ran'[i] = IF i <= Len(ran) THEN ran[i] ELSE d[i - Len(ran)]
  <2>1. /\ ran \o d \in Seq(Messages) /\ Len(ran \o d) = Len(ran) + n
        /\ \A i \in 1..(Len(ran) + n) : (ran \o d)[i] = IF i <= Len(ran) THEN ran[i] ELSE d[i - Len(ran)]
    BY <1>2, ConcatProperties
  <2>2. DOMAIN (ran \o d) = 1..(Len(ran) + n)
    BY <2>1, LenProperties
  <2>3. ToSet(ran \o d) = ToSet(ran) \cup ToSet(d)
    BY <1>2, Joined
  <2> QED
    BY <1>1, <2>1, <2>2, <2>3
<1>7. RunsInOrder'
  <2> SUFFICES ASSUME NEW i \in DOMAIN ran', NEW j \in DOMAIN ran', i < j
               PROVE  Precedes(ran'[i], ran'[j])
    BY <1>5 DEF RunsInOrder, InOrder
  <2>1. CASE j <= Len(ran)
    <3>1. i \in DOMAIN ran /\ j \in DOMAIN ran /\ ran'[i] = ran[i] /\ ran'[j] = ran[j]
      BY <1>4, <1>6, <2>1
    <3> QED
      BY <1>3, <3>1 DEF InOrder
  <2>2. CASE ~(j <= Len(ran))
    <3>1. /\ j - Len(ran) \in 1..n /\ j - Len(ran) \in DOMAIN s
          /\ ran'[j] = s[j - Len(ran)]
      <4>1. j - Len(ran) \in 1..n /\ j - Len(ran) \in DOMAIN s
        BY <1>2, <1>4, <1>6, <2>2
      <4> QED
        BY <1>2, <1>6, <2>2, <4>1
    <3>2. CASE i <= Len(ran)
      <4>1. i \in DOMAIN ran /\ ran'[i] = ran[i]
        BY <1>4, <1>6, <3>2
      <4> QED
        BY <1>3, <3>1, <4>1 DEF ToSet
    <3>3. CASE ~(i <= Len(ran))
      <4>1. i - Len(ran) \in 1..n /\ i - Len(ran) \in DOMAIN s /\ i - Len(ran) < j - Len(ran)
        BY <1>2, <1>4, <1>6, <3>3
      <4>2. ran'[i] = s[i - Len(ran)]
        BY <1>2, <1>6, <3>3, <4>1
      <4> QED
        BY <1>3, <3>1, <4>1, <4>2 DEF InOrder
    <3> QED
      BY <3>2, <3>3
  <2> QED
    BY <2>1, <2>2
<1>8. PICK u : u = SubSeq(s, n + 1, Len(s))
  OBVIOUS
<1>9. /\ u \in Seq(Messages) /\ DOMAIN u = 1..Len(u) /\ Len(u) \in Nat
      /\ \A k \in DOMAIN u : k + n \in DOMAIN s /\ u[k] = s[k + n]
      /\ ToSet(u) \subseteq ToSet(s)
  <2>1. u \in Seq(Messages) /\ ToSet(u) \subseteq ToSet(s)
    BY <1>2, <1>4, <1>8, DroppedFirst
  <2>2. \A k \in 1..Len(u) : k + n \in 1..Len(s) /\ u[k] = s[k + n]
    BY <1>2, <1>4, <1>8, DroppedFirst
  <2> QED
    BY <1>4, <2>1, <2>2, LenProperties
<1>10. /\ queues'[o].items = u /\ drain'[o].at # "running" /\ current' \in {current, None}
       /\ \A p \in QueueObjects \ {o} : drain'[p] = drain[p] \/ drain'[p].at = "waiting"
  <2>1. q.items = u
    BY <1>0, <1>8 DEF AfterRun, Inv, Typed, QueueStates
  <2> QED
    BY <1>0, <2>1, RunOver
<1>11. \A p \in QueueObjects : drain'[p].at # "running"
  BY <1>2, <1>10 DEF Inv, DrainsTheirOwn
<1>12. InOrder(u)'
  <2> SUFFICES ASSUME NEW i \in DOMAIN u, NEW j \in DOMAIN u, i < j PROVE Precedes(u[i], u[j])
    BY <1>5 DEF InOrder
  <2>1. i + n < j + n
    BY <1>4, <1>9
  <2> QED
    BY <1>3, <1>9, <2>1 DEF InOrder
<1>13. ASSUME NEW x \in ToSet(ran'), NEW y \in ToSet(u) PROVE Precedes(x, y)
  <2>1. CASE x \in ToSet(ran)
    BY <1>3, <1>9, <2>1
  <2>2. CASE x \in ToSet(d)
    <3>1. PICK k \in 1..n : d[k] = x
      BY <1>4, <2>2 DEF ToSet
    <3>2. PICK j \in DOMAIN u : u[j] = y
      BY DEF ToSet
    <3>3. k \in DOMAIN s /\ s[k] = x /\ j + n \in DOMAIN s /\ s[j + n] = y
      BY <1>2, <1>4, <1>9, <3>1, <3>2
    <3>4. k < j + n
      BY <1>4, <1>9, <3>1, <3>2
    <3> QED
      BY <1>3, <3>3, <3>4 DEF InOrder
  <2> QED
    BY <1>6, <2>1, <2>2
<1>14. current' # None => queues'[current'].items = u
  BY <1>2, <1>10
<1>15. WaitsInLine'
  BY <1>5, <1>11, <1>12, <1>13, <1>14 DEF WaitsInLine, InOrder
<1> QED
  BY <1>7, <1>15

LEMMA LineNext == Inv /\ WaitsInLine /\ RunsInOrder /\ [Next]_vars => WaitsInLine' /\ RunsInOrder'
<1> SUFFICES ASSUME Inv, WaitsInLine, RunsInOrder, [Next]_vars PROVE WaitsInLine' /\ RunsInOrder'
  OBVIOUS
<1>1. CASE UNCHANGED vars
  BY <1>1, LineUnchanged DEF vars
<1>2. ASSUME NEW m \in Messages, MeetsActiveRun(m) PROVE WaitsInLine' /\ RunsInOrder'
  BY <1>2, LineUnchanged DEF MeetsActiveRun, history
<1>3. CASE TurnStarts
  BY <1>3, LineUnchanged DEF TurnStarts, history
<1>4. CASE TurnEnds
  <2>1. recent' = recent /\ ran' = ran /\ disturbed' = disturbed
    BY <1>4 DEF TurnEnds, history
  <2>2. Begun(current, queues, drain)
    BY <1>4, Schedules DEF TurnEnds, Inv, Typed
  <2>3. current' # None => current' = current /\ current \in QueueObjects
    BY <2>2 DEF Begun, Inv, Typed
  <2>4. \A o \in QueueObjects :
          /\ queues'[o].items = queues[o].items
          /\ drain'[o].at = "running" => drain'[o] = drain[o]
    BY <2>2 DEF Begun
  <2> QED
    BY <2>1, <2>3, <2>4, LineUnchanged
<1>5. ASSUME NEW m \in Messages, NEW s \in Settings[m], Enqueue(m, s)
      PROVE  WaitsInLine' /\ RunsInOrder'
  BY <1>5, LineTurnedAway, LineAccepts DEF Enqueue
<1>6. ASSUME NEW o \in QueueObjects, Drain(o) PROVE WaitsInLine' /\ RunsInOrder'
  BY <1>6, LineDebounceEnds, LineRunEnds DEF Drain
<1>7. ASSUME NEW o \in QueueObjects, RunFails(o) PROVE WaitsInLine' /\ RunsInOrder'
  <2>1. /\ DrainEnds(o, queues[o]) /\ queues[o] \in QueueStates
        /\ recent' = recent /\ ran' = ran /\ disturbed' = disturbed
    BY <1>7 DEF RunFails, arrivals, history, Inv, Typed
  <2>2. Ended(o, queues[o])
    BY <2>1, Ends DEF Inv
  <2> QED
    BY <2>1, <2>2, LineEndsInPlace
<1>8. CASE ClearFollowupQueue
  <2>1. current' = None /\ recent' = recent /\ ran' = ran /\ drain' = drain
    BY <1>8 DEF ClearFollowupQueue, arrivals
  <2>2. disturbed => disturbed'
    BY <1>8 DEF ClearFollowupQueue
  <2>3. ASSUME NEW o \in QueueObjects, ~disturbed', drain'[o].at = "running" PROVE FALSE
    <3>1. o = current /\ current # None /\ queues[current].draining
      BY <2>1, <2>2, <2>3, NoneAssumption DEF Inv, DrainsTheirOwn, DrainsAreMarked
    <3> QED
      BY <1>8, <2>3, <3>1 DEF ClearFollowupQueue
  <2> QED
    BY <2>1, <2>2, <2>3, LineUnchanged
<1> QED
  BY <1>1, <1>2, <1>3, <1>4, <1>5, <1>6, <1>7, <1>8 DEF Next

(* While nothing that may lose a message has happened, messages are run in   *)
(* the order in which they were accepted, through batches, individual runs,  *)
(* failures and their retries, clears and new queue objects                  *)
(* (drain.ts:119-159, enqueue.ts:57-88): what waits in the session's queue   *)
(* is in that order and behind all that was run, and a run takes the first.  *)
THEOREM MessagesRunInOrder == Spec => []RunsInOrder
<1>1. Init => WaitsInLine /\ RunsInOrder
  BY States, EmptyHasNone DEF Init, WaitsInLine, RunsInOrder, InOrder
<1>2. Spec => [](WaitsInLine /\ RunsInOrder)
  BY <1>1, LineNext, QueueInvariant, PTL DEF Spec
<1> QED
  BY <1>2, PTL
=============================================================================
