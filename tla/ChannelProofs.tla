---------------------------- MODULE ChannelProofs ----------------------------
(***************************************************************************)
(* One account runs once, is the one the manager can stop, gives up after  *)
(* a bounded number of automatic restarts and does not restart itself      *)
(* after a stop: proofs for any clients, limits and number of instances,   *)
(* up to the first time two restarts go on from the end of one instance.   *)
(***************************************************************************)
EXTENDS ChannelProperties, FiniteSetTheorems, SequenceTheorems, TLAPS

Stages == {"idle", "judging", "stopping", "stopped", "starting", "checking", "logout"}

(* What the argument needs of the types.                                   *)
Typed ==
  /\ inst \in [Instances -> {"none", "running", "backoff", "restarting"}]
  /\ entry \in Instances \cup {Nobody}
  /\ attempts \in Nat /\ autos \in Nat
  /\ manual \in BOOLEAN /\ held \in BOOLEAN
  /\ call \in [Callers -> Stages]
  /\ next \in [Callers -> {"idle", "starting", "logout"}]
  /\ waits \in [Callers -> Instances \cup {Nobody}]
  /\ micro \in Seq(Callers \cup Instances)

Sound ==
  Typed /\ EntryIsExact /\ WaitersStopped /\ TurnsAreOrdered /\ RestartsAreCounted

Inv == overlap \/ Sound

LEMMA Sorts ==
  /\ Callers \cap Instances = {} /\ Nobody \notin Instances /\ Restarters \subseteq Callers
  /\ IsFiniteSet(Callers)
  /\ MaxRestartAttempts \in Nat /\ MaxRestartAttempts > 0
<1>1. IsFiniteSet({"monitor", "reload"})
  <2>1. IsFiniteSet({"monitor"}) /\ IsFiniteSet({"reload"})
    BY FS_Singleton
  <2>2. IsFiniteSet({"monitor"} \cup {"reload"})
    BY <2>1, FS_Union
  <2>3. {"monitor"} \cup {"reload"} = {"monitor", "reload"}
    OBVIOUS
  <2> QED
    BY <2>2, <2>3
<1>2. IsFiniteSet(Restarters)
  BY <1>1, FS_Subset, ManagerAssumption
<1>3. IsFiniteSet(Callers)
  BY <1>2, FS_Union, ManagerAssumption DEF Callers
<1> QED
  BY <1>3, ManagerAssumption DEF Callers

-----------------------------------------------------------------------------
(* The queue of continuations: what becomes of its order.                  *)

(* Only restarters go on to start after a stop.                            *)
OnlyRestartersGoOn == \A c \in Callers : next[c] = "starting" => c \in Restarters

LEMMA NoTurn ==
  ASSUME OnlyRestartersGoOn', micro' = <<>>
  PROVE  TurnsAreOrdered' /\ micro' \in Seq(Callers \cup Instances)
  BY DEF OnlyRestartersGoOn, TurnsAreOrdered

LEMMA TurnOfInstance ==
  ASSUME OnlyRestartersGoOn', NEW i \in Instances, micro' = <<i>>
  PROVE  TurnsAreOrdered' /\ micro' \in Seq(Callers \cup Instances)
<1>1. DOMAIN micro' = {1} /\ micro'[1] = i /\ micro' \in Seq(Callers \cup Instances)
  OBVIOUS
<1> QED
  BY <1>1, Sorts DEF OnlyRestartersGoOn, TurnsAreOrdered

LEMMA TurnOfCaller ==
  ASSUME OnlyRestartersGoOn', NEW c \in Callers, micro' = <<c>>,
         call'[c] \in {"starting", "checking"},
         call'[c] = "checking" => entry' = Nobody
  PROVE  TurnsAreOrdered' /\ micro' \in Seq(Callers \cup Instances)
<1>1. DOMAIN micro' = {1} /\ micro'[1] = c /\ micro' \in Seq(Callers \cup Instances)
  OBVIOUS
<1> QED
  BY <1>1, Sorts DEF OnlyRestartersGoOn, TurnsAreOrdered

(* An action that leaves micro empty, and touches next not or in one place. *)
LEMMA StillEmpty ==
  ASSUME Sound, micro = <<>>, micro' = micro, next' = next
  PROVE  TurnsAreOrdered' /\ micro' \in Seq(Callers \cup Instances)
  BY NoTurn DEF Sound, TurnsAreOrdered, OnlyRestartersGoOn

LEMMA Singles ==
  ASSUME NEW S, IsFiniteSet(S), ~(Cardinality(S) > 1), NEW a \in S, NEW b \in S
  PROVE  a = b
<1> SUFFICES ASSUME a # b PROVE FALSE
  OBVIOUS
<1>1. IsFiniteSet({a}) /\ Cardinality({a}) = 1
  BY FS_Singleton
<1>2. IsFiniteSet({a} \cup {b}) /\ Cardinality({a} \cup {b}) = 2
  <2>1. /\ IsFiniteSet({a} \cup {b})
        /\ Cardinality({a} \cup {b}) = IF b \in {a} THEN Cardinality({a}) ELSE Cardinality({a}) + 1
    BY <1>1, FS_AddElement, Zenon
  <2> QED
    BY <1>1, <2>1
<1>3. {a} \cup {b} \in SUBSET S
  OBVIOUS
<1>4. 2 <= Cardinality(S) /\ Cardinality(S) \in Nat
  BY <1>2, <1>3, FS_Subset, FS_CardinalityType
<1> QED
  BY <1>4

(* The end of an instance: who waited for it goes on, in some order, and   *)
(* of the restarters at most one.                                          *)
LEMMA SettledTurns ==
  ASSUME Sound, NEW i \in Instances, NEW insts, NEW ent, Settle(i, insts, ent, <<>>),
         entry = i \/ entry = Nobody, ~overlap',
         ent = Nobody \/ \A c \in Callers : waits[c] # i
  PROVE  /\ TurnsAreOrdered' /\ micro' \in Seq(Callers \cup Instances)
         /\ waits' = [c \in Callers |-> Nobody]
         /\ call' \in [Callers -> Stages] /\ next' = next
         /\ (\A c \in Callers : waits[c] # i) => micro' = <<>>
<1> DEFINE W == {c \in Callers : waits[c] = i}
<1>1. PICK w \in SetToSeqs(W) : micro' = <<>> \o w
  BY DEF Settle
<1>2. IsFiniteSet(W) /\ Cardinality(W) \in Nat
  BY Sorts, FS_Subset, FS_CardinalityType
<1>3. /\ w \in [1..Cardinality(W) -> W]
      /\ \A k, m \in 1..Cardinality(W) : k # m => w[k] # w[m]
  BY DEF SetToSeqs
<1>4. w \in Seq(Callers \cup Instances) /\ DOMAIN w = 1..Cardinality(W)
  BY <1>2, <1>3
<1>5. micro' = w
  BY <1>1, <1>4, ConcatEmptySeq
<1>6. /\ \A c \in Callers : waits'[c] = Nobody
      /\ waits' = [c \in Callers |-> Nobody]
  <2>1. waits' = [c \in Callers |-> IF c \in W THEN Nobody ELSE waits[c]]
    BY DEF Settle
  <2>2. \A c \in Callers : c \in W \/ waits[c] = Nobody
    BY Sorts DEF Sound, Typed, WaitersStopped
  <2> QED
    BY <2>1, <2>2
<1>7. call' = [c \in Callers |-> IF c \in W THEN "stopped" ELSE call[c]] /\ next' = next
      /\ entry' = ent
  BY DEF Settle
<1>8. call' \in [Callers -> Stages]
  BY <1>7 DEF Sound, Typed, Stages
<1>9. \A a, b \in W \cap Restarters : a = b
  <2>1. ~(Cardinality(W \cap Restarters) > 1)
    BY DEF Settle
  <2>2. IsFiniteSet(W \cap Restarters)
    BY <1>2, FS_Intersection
  <2> QED
    BY <2>1, <2>2, Singles
<1>10. (\A c \in Callers : waits[c] # i) => micro' = <<>>
  <2>1. SUFFICES ASSUME \A c \in Callers : waits[c] # i PROVE micro' = <<>>
    OBVIOUS
  <2>2. W = {}
    BY <2>1
  <2> HIDE DEF W
  <2>3. Cardinality(W) = 0
    BY <2>2, FS_EmptySet
  <2>4. Len(w) = 0
    BY <1>4, <2>3
  <2> QED
    BY <1>4, <1>5, <2>4, EmptySeq
<1>11. TurnsAreOrdered'
  <2>1. \A k \in DOMAIN micro' : micro'[k] \in W /\ call'[micro'[k]] = "stopped"
    BY <1>3, <1>4, <1>5, <1>7
  <2>2. DOMAIN micro' # {} => ent = Nobody
    BY <2>1
  <2>3. \A k, m \in DOMAIN micro' :
          micro'[k] = micro'[m] \/ {micro'[k], micro'[m]} \subseteq Restarters => k = m
    <3> TAKE k, m \in DOMAIN micro'
    <3>1. micro'[k] = micro'[m] => k = m
      BY <1>3, <1>4, <1>5
    <3>2. {micro'[k], micro'[m]} \subseteq Restarters => micro'[k] = micro'[m]
      BY <1>9, <2>1
    <3> QED
      BY <3>1, <3>2
  <2>4. \A c \in Callers : next'[c] = "starting" => c \in Restarters
    BY <1>7 DEF Sound, TurnsAreOrdered
  <2>5. \A k \in DOMAIN micro' : micro'[k] \notin Instances
    BY <2>1, Sorts
  <2> HIDE DEF W
  <2> QED
    BY <1>7, <2>1, <2>2, <2>3, <2>4, <2>5 DEF TurnsAreOrdered
<1> QED
  BY <1>4, <1>5, <1>6, <1>7, <1>8, <1>10, <1>11

(* The head of the queue runs: an instance, and a caller that is about to  *)
(* start, run alone.                                                       *)
LEMMA TurnTaken ==
  ASSUME Sound, micro # <<>>
  PROVE  /\ Head(micro) \in Callers \cup Instances /\ Head(micro) = micro[1]
         /\ Len(micro) \in Nat \ {0} /\ DOMAIN micro = 1..Len(micro)
         /\ Tail(micro) \in Seq(Callers \cup Instances)
         /\ Len(Tail(micro)) = Len(micro) - 1
         /\ \A k \in 1..Len(Tail(micro)) : Tail(micro)[k] = micro[k + 1]
         /\ \/ Head(micro) \in Instances
            \/ Head(micro) \in Callers /\ call[Head(micro)] \in {"starting", "checking"}
            => micro = <<Head(micro)>> /\ Tail(micro) = <<>>
<1>1. /\ Head(micro) \in Callers \cup Instances /\ Head(micro) = micro[1]
      /\ Tail(micro) \in Seq(Callers \cup Instances)
      /\ Len(Tail(micro)) = Len(micro) - 1
      /\ \A k \in 1..Len(Tail(micro)) : Tail(micro)[k] = micro[k + 1]
  BY HeadTailProperties DEF Sound, Typed
<1>2. Len(micro) \in Nat \ {0} /\ DOMAIN micro = 1..Len(micro)
  BY EmptySeq, LenProperties DEF Sound, Typed
<1>3. Len(micro) = 1 => Tail(micro) = <<>>
  <2>1. Tail(micro) # <<>> => Len(Tail(micro)) \in Nat \ {0}
    BY <1>1, EmptySeq, Zenon
  <2> QED
    BY <1>1, <2>1
<1>4. ASSUME \/ Head(micro) \in Instances
             \/ Head(micro) \in Callers /\ call[Head(micro)] \in {"starting", "checking"}
      PROVE  Len(micro) = 1
  <2>1. micro = <<micro[1]>> \/ 1 = Len(micro)
    BY <1>1, <1>2, <1>4 DEF Sound, TurnsAreOrdered
  <2> QED
    BY <2>1
<1>5. Len(micro) = 1 => micro = <<Head(micro)>>
  BY <1>1, <1>2 DEF Sound, Typed
<1> QED
  BY <1>1, <1>2, <1>3, <1>4, <1>5

(* Nobody waits once the entry is gone.                                    *)
LEMMA NobodyWaits ==
  ASSUME Sound, entry = Nobody
  PROVE  \A c \in Callers : waits[c] = Nobody
  BY Sorts DEF Sound, Typed, WaitersStopped

-----------------------------------------------------------------------------
(* Continuations.                                                          *)

LEMMA StoppedTurns ==
  ASSUME Sound, NEW x \in Callers, micro # <<>>, x = Head(micro), Stopped(x, Tail(micro))
  PROVE  TurnsAreOrdered' /\ micro' \in Seq(Callers \cup Instances)
<1> DEFINE rest == Tail(micro)
<1>1. /\ micro[1] = x /\ Len(micro) \in Nat \ {0} /\ DOMAIN micro = 1..Len(micro)
      /\ rest \in Seq(Callers \cup Instances) /\ Len(rest) = Len(micro) - 1
      /\ \A k \in 1..Len(rest) : rest[k] = micro[k + 1]
  BY TurnTaken
<1>2. /\ call[x] = "stopped" /\ entry' = Nobody
      /\ call' = [call EXCEPT ![x] = next[x]] /\ next' = [next EXCEPT ![x] = "idle"]
      /\ micro' = IF next[x] = "starting" THEN Append(rest, x) ELSE rest
  BY DEF Stopped
<1> HIDE DEF rest
<1>3. \A k \in 1..Len(rest) : k + 1 \in DOMAIN micro /\ k + 1 # 1 /\ micro # <<rest[k]>>
  <2> TAKE k \in 1..Len(rest)
  <2>1. Len(micro) # 1 /\ k + 1 \in 1..Len(micro) /\ k + 1 # 1
    BY <1>1
  <2>2. Len(<<rest[k]>>) = 1
    OBVIOUS
  <2> QED
    BY <1>1, <2>1, <2>2
<1>4. \A k \in 1..Len(rest) :
        /\ rest[k] \in Callers /\ rest[k] # x
        /\ call[rest[k]] \in {"stopped", "starting"}
        /\ call[rest[k]] = "starting" => k = Len(rest) /\ rest[k] \in Restarters /\ x \notin Restarters
  <2> TAKE k \in 1..Len(rest)
  <2>1. rest[k] = micro[k + 1] /\ rest[k] \in Callers \cup Instances
    BY <1>1, ElementOfSeq
  <2>2. rest[k] \in Callers
    BY <1>3, <2>1 DEF Sound, TurnsAreOrdered
  <2>3. /\ call[rest[k]] \in {"stopped", "starting", "checking"}
        /\ call[rest[k]] = "starting" => k + 1 = Len(micro) /\ rest[k] \in Restarters
        /\ call[rest[k]] # "checking"
    BY <1>3, <2>1, <2>2 DEF Sound, TurnsAreOrdered
  <2>4. 1 \in DOMAIN micro
    BY <1>1
  <2>5. micro[k + 1] # micro[1] /\ ~({micro[k + 1], micro[1]} \subseteq Restarters)
    BY <1>3, <2>4 DEF Sound, TurnsAreOrdered
  <2>6. rest[k] # x /\ ~(rest[k] \in Restarters /\ x \in Restarters)
    BY <1>1, <2>1, <2>5
  <2>7. k + 1 = Len(micro) => k = Len(rest)
    <3>1. Len(rest) = Len(micro) - 1 /\ Len(micro) \in Nat /\ k \in Int
      BY <1>1
    <3> QED
      BY <3>1
  <2> QED
    BY <2>2, <2>3, <2>6, <2>7
<1>5. \A k, m \in 1..Len(rest) :
        rest[k] = rest[m] \/ {rest[k], rest[m]} \subseteq Restarters => k = m
  <2> TAKE k, m \in 1..Len(rest)
  <2>1. micro[k + 1] = micro[m + 1] \/ {micro[k + 1], micro[m + 1]} \subseteq Restarters => k + 1 = m + 1
    BY <1>3 DEF Sound, TurnsAreOrdered
  <2> QED
    BY <1>1, <2>1
<1>6. \A k \in 1..Len(rest) : call'[rest[k]] = call[rest[k]]
  BY <1>2, <1>4 DEF Sound, Typed
<1>7. \A c \in Callers : next'[c] = "starting" => c \in Restarters
  BY <1>2 DEF Sound, Typed, TurnsAreOrdered
<1>8. DOMAIN rest = 1..Len(rest) /\ Len(rest) \in Nat
  BY <1>1, LenProperties
<1>9. CASE next[x] # "starting"
  <2>1. micro' = rest
    BY <1>2, <1>9
  <2>2. \A k \in DOMAIN micro' : micro'[k] \notin Instances
    BY <1>4, <1>8, <2>1, Sorts
  <2>3. \A k \in DOMAIN micro' :
          /\ call'[micro'[k]] \in {"stopped", "starting"}
          /\ call'[micro'[k]] = "starting" => k = Len(micro') /\ micro'[k] \in Restarters
    BY <1>4, <1>6, <1>8, <2>1
  <2>4. \A k, m \in DOMAIN micro' :
          micro'[k] = micro'[m] \/ {micro'[k], micro'[m]} \subseteq Restarters => k = m
    BY <1>5, <1>8, <2>1
  <2>5. micro' \in Seq(Callers \cup Instances)
    BY <1>1, <2>1
  <2> QED
    BY <1>2, <1>7, <2>2, <2>3, <2>4, <2>5 DEF TurnsAreOrdered
<1>10. CASE next[x] = "starting"
  <2>1. micro' = Append(rest, x) /\ x \in Restarters
    BY <1>2, <1>10 DEF Sound, TurnsAreOrdered
  <2>2. /\ micro' \in Seq(Callers \cup Instances) /\ Len(micro') = Len(rest) + 1
        /\ \A k \in 1..Len(rest) : micro'[k] = rest[k]
        /\ micro'[Len(rest) + 1] = x
    <3>1. x \in Callers \cup Instances /\ rest \in Seq(Callers \cup Instances)
      BY <1>1
    <3>2. /\ Append(rest, x) \in Seq(Callers \cup Instances) /\ Len(Append(rest, x)) = Len(rest) + 1
          /\ \A k \in 1..Len(rest) : Append(rest, x)[k] = rest[k]
          /\ Append(rest, x)[Len(rest) + 1] = x
      BY <3>1, AppendProperties
    <3> QED
      BY <2>1, <3>2
  <2>3. DOMAIN micro' = 1..(Len(rest) + 1)
    BY <2>2, LenProperties
  <2>4. \A k \in DOMAIN micro' : k \in 1..Len(rest) \/ (k = Len(micro') /\ micro'[k] = x)
    BY <1>8, <2>2, <2>3
  <2>5. call'[x] = "starting"
    BY <1>2, <1>10 DEF Sound, Typed
  <2>7. \A k \in 1..Len(rest) : call'[rest[k]] = "stopped"
    BY <1>4, <1>6, <2>1
  <2>8. \A k \in 1..Len(rest) : rest[k] \notin Restarters
    <3> TAKE k \in 1..Len(rest)
    <3>1. 1 \in DOMAIN micro
      BY <1>1
    <3>2. ~({micro[k + 1], micro[1]} \subseteq Restarters)
      BY <1>3, <3>1 DEF Sound, TurnsAreOrdered
    <3> QED
      BY <1>1, <2>1, <3>2
  <2>9. \A k \in DOMAIN micro' : micro'[k] \notin Instances
    BY <1>4, <2>2, <2>4, Sorts
  <2>10. \A k, m \in DOMAIN micro' :
           micro'[k] = micro'[m] \/ {micro'[k], micro'[m]} \subseteq Restarters => k = m
    BY <1>4, <1>5, <2>2, <2>4, <2>8
  <2>11. \A k \in DOMAIN micro' :
           /\ call'[micro'[k]] \in {"stopped", "starting"}
           /\ call'[micro'[k]] = "starting" => k = Len(micro') /\ micro'[k] \in Restarters
    BY <2>1, <2>2, <2>4, <2>5, <2>7
  <2> QED
    BY <1>2, <1>7, <2>2, <2>9, <2>10, <2>11 DEF TurnsAreOrdered
<1> QED
  BY <1>9, <1>10

LEMMA StepStopped ==
  ASSUME Sound, NEW x \in Callers, micro # <<>>, x = Head(micro), Stopped(x, Tail(micro))
  PROVE  Sound'
<1>1. TurnsAreOrdered' /\ micro' \in Seq(Callers \cup Instances)
  BY StoppedTurns
<1>2. micro[1] = x /\ 1 \in DOMAIN micro
  BY TurnTaken
<1>3. /\ entry = Nobody /\ \A i \in Instances : inst[i] # "restarting"
  <2>1. entry = Nobody
    BY <1>2 DEF Stopped, Sound, TurnsAreOrdered
  <2>2. \A i \in Instances : micro # <<i>>
    BY <1>2, Sorts
  <2> QED
    BY <2>1, <2>2 DEF Sound, EntryIsExact
<1>4. \A c \in Callers : waits[c] = Nobody
  BY <1>3, NobodyWaits
<1>5. Typed'
  <2>1. next[x] \in Stages
    BY DEF Sound, Typed, Stages
  <2>2. call' \in [Callers -> Stages] /\ next' \in [Callers -> {"idle", "starting", "logout"}]
    BY <2>1 DEF Sound, Typed, Stopped
  <2> QED
    BY <1>1, <2>2 DEF Sound, Typed, Stopped, history
<1>6. EntryIsExact'
  BY <1>3 DEF Sound, EntryIsExact, Stopped
<1>7. WaitersStopped'
  BY <1>4, Sorts DEF Sound, Typed, WaitersStopped, Stopped
<1>8. RestartsAreCounted'
  BY DEF Sound, RestartsAreCounted, Stopped, Live, history
<1> QED
  BY <1>1, <1>5, <1>6, <1>7, <1>8 DEF Sound

(* The tracked instance ends and no other exists.                          *)
LEMMA StepSettled ==
  ASSUME Sound, NEW i \in Instances, entry = i, Settle(i, inst, Nobody, <<>>), ~overlap',
         attempts' \in Nat, UNCHANGED <<manual, held, autos>>
  PROVE  Sound'
<1>1. /\ TurnsAreOrdered' /\ micro' \in Seq(Callers \cup Instances)
      /\ waits' = [c \in Callers |-> Nobody]
      /\ call' \in [Callers -> Stages] /\ next' = next
  BY SettledTurns
<1>2. inst' = [inst EXCEPT ![i] = "none"] /\ entry' = Nobody
  BY DEF Settle
<1>3. \A j \in Instances : inst'[j] = "none"
  BY <1>2, Sorts DEF Sound, Typed, EntryIsExact
<1>4. Typed'
  BY <1>1, <1>2, Sorts DEF Sound, Typed
<1>5. EntryIsExact'
  BY <1>2, <1>3 DEF EntryIsExact
<1>6. WaitersStopped'
  BY <1>1, <1>2 DEF WaitersStopped
<1>7. RestartsAreCounted'
  BY <1>3 DEF Sound, RestartsAreCounted, Live
<1> QED
  BY <1>1, <1>4, <1>5, <1>6, <1>7 DEF Sound

LEMMA StepBackoffAborted ==
  ASSUME Sound, NEW i \in Instances, micro # <<>>, i = Head(micro),
         BackoffAborted(i, Tail(micro)), ~overlap'
  PROVE  Sound'
<1>1. Tail(micro) = <<>>
  BY TurnTaken
<1>2. entry = i
  BY DEF BackoffAborted, Sound, EntryIsExact
<1>3. Settle(i, inst, Nobody, <<>>) /\ UNCHANGED <<attempts, manual, held, autos>>
  BY <1>1, <1>2 DEF BackoffAborted, Without, status
<1> QED
  BY <1>2, <1>3, StepSettled DEF Sound, Typed

LEMMA StepRelaunch ==
  ASSUME Sound, NEW i \in Instances, micro # <<>>, i = Head(micro),
         Relaunch(i, Tail(micro)), ~overlap'
  PROVE  Sound'
<1>1. Tail(micro) = <<>>
  BY TurnTaken
<1>2. /\ inst[i] = "restarting" /\ entry = Nobody /\ ~manual /\ ~held
      /\ \A c \in Callers : waits[c] # i
      /\ micro = <<i>>
  BY DEF Relaunch, Sound, EntryIsExact
<1>3. \A k \in Instances \ {i} : inst[k] = "none"
  <2>1. \A k \in Instances \ {i} : <<k>> # <<i>>
    OBVIOUS
  <2> QED
    BY <1>2, <2>1, Sorts DEF Sound, Typed, EntryIsExact
<1>4. autos <= attempts /\ attempts <= MaxRestartAttempts
  BY <1>2 DEF Sound, RestartsAreCounted
<1>5. UNCHANGED <<manual, held>>
  BY DEF Relaunch
<1>6. CASE usable = "unconfigured"
  <2>1. Settle(i, inst, Nobody, <<>>) /\ UNCHANGED <<attempts, autos>>
    BY <1>1, <1>2, <1>6 DEF Relaunch, Without
  <2>2. /\ TurnsAreOrdered' /\ micro' \in Seq(Callers \cup Instances)
        /\ waits' = [c \in Callers |-> Nobody]
        /\ call' \in [Callers -> Stages] /\ next' = next
    BY <1>2, <2>1, SettledTurns
  <2>3. inst' = [inst EXCEPT ![i] = "none"] /\ entry' = Nobody
    BY <2>1 DEF Settle
  <2>4. \A j \in Instances : inst'[j] = "none"
    BY <1>3, <2>3 DEF Sound, Typed
  <2>5. Typed'
    BY <1>5, <2>1, <2>2, <2>3, Sorts DEF Sound, Typed
  <2>6. EntryIsExact'
    BY <2>3, <2>4 DEF EntryIsExact
  <2>7. WaitersStopped'
    BY <2>2, <2>3 DEF WaitersStopped
  <2>8. RestartsAreCounted'
    BY <2>1, <2>4 DEF Sound, RestartsAreCounted, Live
  <2> QED
    BY <2>2, <2>5, <2>6, <2>7, <2>8 DEF Sound
<1>7. CASE usable # "unconfigured"
  <2>1. PICK j \in Free : Settle(i, [inst EXCEPT ![j] = "running"], j, <<>>)
    BY <1>1, <1>7 DEF Relaunch, Kept
  <2>2. j \in Instances /\ j # i
    BY <1>2 DEF Free
  <2>3. attempts' = attempts /\ autos' = Counted
    BY <1>7 DEF Relaunch, KeptAttempts
  <2>4. autos' \in Nat /\ autos' <= autos + 1
    BY <2>3 DEF Counted, Sound, Typed
  <2>5. /\ TurnsAreOrdered' /\ micro' \in Seq(Callers \cup Instances)
        /\ waits' = [c \in Callers |-> Nobody]
        /\ call' \in [Callers -> Stages] /\ next' = next
    BY <1>2, <2>1, SettledTurns
  <2>6. inst' = [[inst EXCEPT ![j] = "running"] EXCEPT ![i] = "none"] /\ entry' = j
    BY <2>1 DEF Settle
  <2>7. inst'[j] = "running" /\ \A k \in Instances \ {j} : inst'[k] = "none"
    BY <1>3, <2>2, <2>6 DEF Sound, Typed
  <2>8. Typed'
    BY <1>5, <2>2, <2>3, <2>4, <2>5, <2>6 DEF Sound, Typed
  <2>9. EntryIsExact'
    BY <2>2, <2>6, <2>7 DEF EntryIsExact
  <2>10. WaitersStopped'
    BY <1>2, <1>5, <2>5 DEF WaitersStopped
  <2>11. RestartsAreCounted'
    BY <1>4, <2>3, <2>4, <2>7, Sorts DEF Sound, Typed, RestartsAreCounted
  <2> QED
    BY <2>5, <2>8, <2>9, <2>10, <2>11 DEF Sound
<1> QED
  BY <1>6, <1>7

-----------------------------------------------------------------------------
(* A caller at its await of isConfigured, or before.                       *)

LEMMA CallerAlone ==
  ASSUME Sound, NEW c \in Callers, micro # <<>>, c = Head(micro),
         call[c] \in {"starting", "checking"}
  PROVE  /\ micro = <<c>> /\ Tail(micro) = <<>>
         /\ call[c] = "checking" => entry = Nobody
         /\ \A i \in Instances : inst[i] # "restarting"
         /\ \A d \in Callers : waits[d] # Nobody => inst[entry] # "backoff"
<1>1. micro = <<c>> /\ Tail(micro) = <<>>
  BY TurnTaken
<1>2. 1 \in DOMAIN micro /\ micro[1] = c
  BY TurnTaken
<1>3. \A i \in Instances : micro # <<i>>
  BY <1>2, Sorts
<1> QED
  BY <1>1, <1>2, <1>3, Sorts DEF Sound, Typed, TurnsAreOrdered, EntryIsExact, WaitersStopped

LEMMA StepLaunch ==
  ASSUME Sound, NEW c \in Callers, micro # <<>>, c = Head(micro),
         call[c] = "checking", Launch(c, Tail(micro))
  PROVE  Sound'
<1>1. /\ micro = <<c>> /\ Tail(micro) = <<>> /\ entry = Nobody
      /\ \A i \in Instances : inst[i] # "restarting"
  BY CallerAlone
<1>2. PICK i \in Free : inst' = [inst EXCEPT ![i] = "running"] /\ entry' = i
  BY DEF Launch
<1>3. /\ ~manual' /\ attempts' = 0 /\ ~held' /\ autos' = 0
      /\ manual' \in BOOLEAN /\ held' \in BOOLEAN
      /\ call' = [call EXCEPT ![c] = "idle"] /\ micro' = <<>> /\ next' = next /\ waits' = waits
  BY <1>1 DEF Launch, StartReturns
<1>4. i \in Instances /\ inst'[i] = "running" /\ \A j \in Instances \ {i} : inst'[j] = "none"
  BY <1>1, <1>2, Sorts DEF Free, Sound, Typed, EntryIsExact
<1>5. TurnsAreOrdered' /\ micro' \in Seq(Callers \cup Instances)
  BY <1>3, NoTurn DEF Sound, TurnsAreOrdered, OnlyRestartersGoOn
<1>6. \A d \in Callers : waits'[d] = Nobody
  BY <1>1, <1>3, NobodyWaits
<1>7. Typed'
  BY <1>2, <1>3, <1>4, <1>5 DEF Sound, Typed, Stages
<1>8. EntryIsExact'
  BY <1>2, <1>4 DEF EntryIsExact
<1>9. WaitersStopped'
  BY <1>3, <1>6 DEF WaitersStopped
<1>10. RestartsAreCounted'
  BY <1>3, <1>4, Sorts DEF RestartsAreCounted
<1> QED
  BY <1>5, <1>7, <1>8, <1>9, <1>10 DEF Sound

(* A step that touches no instance, no entry and nobody who waits.         *)
LEMMA StepAside ==
  ASSUME Sound, call' \in [Callers -> Stages],
         \A c \in Callers : call[c] = "stopping" => call'[c] = "stopping",
         \A i \in Instances : inst[i] # "restarting",
         inst' = inst, entry' = entry, manual' = manual, waits' = waits, next' = next,
         TurnsAreOrdered', micro' \in Seq(Callers \cup Instances),
         micro' = micro \/ \A d \in Callers : waits[d] # Nobody => inst[entry] # "backoff",
         (attempts' = attempts /\ autos' = autos) \/ (attempts' = 0 /\ autos' = 0),
         held' \in BOOLEAN, held' => held \/ entry = Nobody
  PROVE  Sound'
<1>1. Typed'
  BY DEF Sound, Typed
<1>2. EntryIsExact'
  BY DEF Sound, EntryIsExact
<1>3. WaitersStopped'
  BY DEF Sound, Typed, WaitersStopped
<1>4. RestartsAreCounted'
  BY Sorts DEF Sound, Typed, RestartsAreCounted, Live
<1> QED
  BY <1>1, <1>2, <1>3, <1>4 DEF Sound

LEMMA CallMoves ==
  ASSUME Sound, NEW c \in Callers, NEW stage \in Stages,
         call[c] # "stopping", call' = [call EXCEPT ![c] = stage]
  PROVE  /\ call' \in [Callers -> Stages]
         /\ \A d \in Callers : call[d] = "stopping" => call'[d] = "stopping"
  BY DEF Sound, Typed

LEMMA StepUnconfigured ==
  ASSUME Sound, NEW c \in Callers, micro # <<>>, c = Head(micro),
         call[c] = "checking", Unconfigured(c, Tail(micro))
  PROVE  Sound'
<1>1. /\ Tail(micro) = <<>> /\ \A i \in Instances : inst[i] # "restarting"
      /\ \A d \in Callers : waits[d] # Nobody => inst[entry] # "backoff"
  BY CallerAlone
<1>2. /\ call' = [call EXCEPT ![c] = "idle"] /\ micro' = <<>>
      /\ UNCHANGED <<inst, entry, manual, waits, next, attempts, held, autos>>
  BY <1>1 DEF Unconfigured, StartReturns, history
<1>3. TurnsAreOrdered' /\ micro' \in Seq(Callers \cup Instances)
  BY <1>2, NoTurn DEF Sound, TurnsAreOrdered, OnlyRestartersGoOn
<1>4. "idle" \in Stages /\ held' \in BOOLEAN
  BY <1>2 DEF Sound, Typed, Stages
<1>5. /\ call' \in [Callers -> Stages]
      /\ \A d \in Callers : call[d] = "stopping" => call'[d] = "stopping"
  BY <1>2, <1>4, CallMoves
<1> QED
  BY <1>1, <1>2, <1>3, <1>4, <1>5, StepAside

LEMMA StepStart ==
  ASSUME Sound, NEW c \in Callers, micro # <<>>, c = Head(micro),
         call[c] = "starting", Start(c, Tail(micro))
  PROVE  Sound'
<1>1. /\ Tail(micro) = <<>> /\ \A i \in Instances : inst[i] # "restarting"
      /\ \A d \in Callers : waits[d] # Nobody => inst[entry] # "backoff"
  BY CallerAlone
<1>2. /\ UNCHANGED <<inst, entry, manual, waits, next, held>>
      /\ (attempts' = attempts /\ autos' = autos) \/ (attempts' = 0 /\ autos' = 0)
  <2>1. CASE StartChannel(c, Tail(micro))
    BY <2>1 DEF StartChannel, monitor
  <2>2. CASE StartRefused(c, Tail(micro))
    BY <2>2 DEF StartRefused, StartReturns, monitor
  <2> QED
    BY <2>1, <2>2 DEF Start
<1>3. OnlyRestartersGoOn'
  BY <1>2 DEF Sound, TurnsAreOrdered, OnlyRestartersGoOn
<1>4. held' \in BOOLEAN /\ {"idle", "checking"} \subseteq Stages
  BY <1>2 DEF Sound, Typed, Stages
<1>5. CASE StartChannel(c, Tail(micro))
  <2>1. /\ call' = [call EXCEPT ![c] = "checking"] /\ micro' = <<c>> /\ entry' = Nobody
    <3>1. Append(<<>>, c) = <<c>>
      OBVIOUS
    <3>2. entry = Nobody /\ micro' = Append(<<>>, c)
      BY <1>1, <1>5 DEF StartChannel, HasTask
    <3> QED
      BY <1>2, <1>5, <3>1, <3>2 DEF StartChannel
  <2>2. call'[c] = "checking"
    BY <2>1 DEF Sound, Typed
  <2>3. TurnsAreOrdered' /\ micro' \in Seq(Callers \cup Instances)
    BY <1>3, <2>1, <2>2, TurnOfCaller
  <2>4. /\ call' \in [Callers -> Stages]
        /\ \A d \in Callers : call[d] = "stopping" => call'[d] = "stopping"
    BY <1>4, <2>1, CallMoves
  <2> QED
    BY <1>1, <1>2, <1>4, <2>3, <2>4, StepAside
<1>6. CASE StartRefused(c, Tail(micro))
  <2>1. call' = [call EXCEPT ![c] = "idle"] /\ micro' = <<>>
    BY <1>1, <1>6 DEF StartRefused, StartReturns
  <2>2. TurnsAreOrdered' /\ micro' \in Seq(Callers \cup Instances)
    BY <1>3, <2>1, NoTurn
  <2>3. /\ call' \in [Callers -> Stages]
        /\ \A d \in Callers : call[d] = "stopping" => call'[d] = "stopping"
    BY <1>4, <2>1, CallMoves
  <2> QED
    BY <1>1, <1>2, <1>4, <2>2, <2>3, StepAside
<1> QED
  BY <1>5, <1>6 DEF Start

LEMMA StepResume ==
  ASSUME Sound, Resume, ~overlap'
  PROVE  Sound'
<1>1. micro # <<>>
  BY DEF Resume
<1>2. CASE Head(micro) \in Callers /\ Stopped(Head(micro), Tail(micro))
  BY <1>1, <1>2, StepStopped
<1>3. CASE Head(micro) \in Callers /\ call[Head(micro)] = "starting" /\ Start(Head(micro), Tail(micro))
  BY <1>1, <1>3, StepStart
<1>4. CASE Head(micro) \in Callers /\ call[Head(micro)] = "checking" /\ Answered(Head(micro), Tail(micro))
  BY <1>1, <1>4, StepUnconfigured, StepLaunch DEF Answered
<1>5. CASE Head(micro) \in Instances /\ BackoffAborted(Head(micro), Tail(micro))
  BY <1>1, <1>5, StepBackoffAborted
<1>6. CASE Head(micro) \in Instances /\ Relaunch(Head(micro), Tail(micro))
  BY <1>1, <1>6, StepRelaunch
<1> QED
  BY <1>2, <1>3, <1>4, <1>5, <1>6 DEF Resume

-----------------------------------------------------------------------------
(* Macrotasks: no continuation is ready.                                   *)

LEMMA Quiet ==
  ASSUME Sound, micro = <<>>
  PROVE  /\ \A i \in Instances : inst[i] # "restarting"
         /\ \A d \in Callers : waits[d] # Nobody => inst[entry] # "backoff"
         /\ OnlyRestartersGoOn
<1>1. \A x : <<x>> # <<>>
  OBVIOUS
<1>2. \A i \in Instances : inst[i] # "restarting"
  BY <1>1 DEF Sound, EntryIsExact
<1>3. \A d \in Callers : waits[d] # Nobody => inst[entry] # "backoff"
  BY <1>1 DEF Sound, WaitersStopped
<1> QED
  BY <1>2, <1>3 DEF Sound, TurnsAreOrdered, OnlyRestartersGoOn

LEMMA StepPluginEnds ==
  ASSUME Sound, NEW i \in Instances, PluginEnds(i), ~overlap'
  PROVE  Sound'
<1>1. micro = <<>> /\ inst[i] = "running" /\ entry = i
  BY DEF PluginEnds, Sound, EntryIsExact
<1>2. UNCHANGED <<manual, held, autos>> /\ attempts' \in Nat
  BY DEF PluginEnds, Sound, Typed
<1>3. CASE Settle(i, inst, Without(i), <<>>)
  BY <1>1, <1>2, <1>3, StepSettled DEF Without
<1>4. CASE ~Settle(i, inst, Without(i), <<>>)
  <2>1. /\ ~manual /\ attempts' <= MaxRestartAttempts
        /\ inst' = [inst EXCEPT ![i] = "backoff"]
        /\ UNCHANGED <<entry, call, next, waits, micro>>
    BY <1>2, <1>4, Sorts DEF PluginEnds
  <2>2. attempts' = attempts + 1
    BY <2>1, Sorts DEF PluginEnds, Sound, Typed
  <2>3. TurnsAreOrdered' /\ micro' \in Seq(Callers \cup Instances)
    BY <1>1, <2>1, StillEmpty
  <2>4. \A d \in Callers : waits[d] = Nobody
    BY <2>1 DEF Sound, WaitersStopped
  <2>5. Typed'
    BY <1>2, <2>1, <2>3 DEF Sound, Typed
  <2>6. EntryIsExact'
    BY <1>1, <1>2, <2>1, Quiet, Sorts DEF Sound, Typed, EntryIsExact
  <2>7. WaitersStopped'
    BY <1>2, <2>1, <2>4 DEF Sound, WaitersStopped
  <2>8. autos <= attempts + 1
    <3>1. Live # {}
      BY <1>1 DEF Live
    <3> QED
      BY <3>1 DEF Sound, RestartsAreCounted
  <2>9. RestartsAreCounted'
    BY <1>2, <2>1, <2>2, <2>8, Sorts DEF Sound, Typed, RestartsAreCounted
  <2> QED
    BY <2>3, <2>5, <2>6, <2>7, <2>9 DEF Sound
<1> QED
  BY <1>3, <1>4

LEMMA StepBackoffElapses ==
  ASSUME Sound, NEW i \in Instances, BackoffElapses(i), ~overlap'
  PROVE  Sound'
<1>1. micro = <<>> /\ inst[i] = "backoff" /\ entry = i /\ i # Nobody
  BY Sorts DEF BackoffElapses, Sound, EntryIsExact
<1>2. UNCHANGED <<manual, held, autos, attempts>> /\ attempts' \in Nat
  BY DEF BackoffElapses, Sound, Typed
<1>3. CASE Settle(i, inst, Without(i), <<>>)
  BY <1>1, <1>2, <1>3, StepSettled DEF Without
<1>4. CASE ~Settle(i, inst, Without(i), <<>>)
  <2>1. /\ ~manual /\ inst' = [inst EXCEPT ![i] = "restarting"]
        /\ entry' = Nobody /\ micro' = <<i>>
        /\ UNCHANGED <<call, next, waits>>
    BY <1>4 DEF BackoffElapses
  <2>2. OnlyRestartersGoOn'
    BY <1>1, <2>1, Quiet DEF OnlyRestartersGoOn
  <2>3. TurnsAreOrdered' /\ micro' \in Seq(Callers \cup Instances)
    BY <2>1, <2>2, TurnOfInstance
  <2>4. \A d \in Callers : waits[d] = Nobody
    BY <2>1 DEF Sound, WaitersStopped
  <2>5. ~held
    BY <1>1, <2>1 DEF Sound, WaitersStopped
  <2>6. Typed'
    BY <1>2, <2>1, <2>3 DEF Sound, Typed
  <2>7. \A j \in Instances \ {i} : inst'[j] = "none"
    BY <1>1, <2>1, Quiet, Sorts DEF Sound, Typed, EntryIsExact
  <2>8. inst'[i] = "restarting"
    BY <2>1 DEF Sound, Typed
  <2>9. EntryIsExact'
    BY <1>2, <2>1, <2>4, <2>5, <2>7, <2>8, Sorts DEF EntryIsExact
  <2>10. WaitersStopped'
    BY <2>1, <2>4 DEF WaitersStopped
  <2>11. autos <= attempts /\ attempts <= MaxRestartAttempts
    BY <1>1 DEF Sound, RestartsAreCounted
  <2>12. RestartsAreCounted'
    BY <1>2, <2>7, <2>8, <2>11, Sorts DEF Sound, Typed, RestartsAreCounted, Live
  <2> QED
    BY <2>3, <2>6, <2>9, <2>10, <2>12 DEF Sound
<1> QED
  BY <1>3, <1>4

LEMMA StepStopChannel ==
  ASSUME Sound, NEW c \in Callers, NEW then \in {"idle", "starting", "logout"},
         micro = <<>>, call[c] \in {"idle", "judging"},
         then = "starting" => c \in Restarters,
         StopChannel(c, then), held' \in BOOLEAN
  PROVE  Sound'
<1>1. UNCHANGED <<inst, entry, attempts, autos>>
  BY DEF StopChannel
<1>2. then \in Stages
  BY DEF Stages
<1>3. CASE entry = Nobody
  <2>1. /\ call' = [call EXCEPT ![c] = then]
        /\ micro' = IF then = "starting" THEN <<c>> ELSE <<>>
        /\ UNCHANGED <<manual, waits, next>>
    BY <1>3 DEF StopChannel, NothingToStop
  <2>2. OnlyRestartersGoOn'
    BY <2>1, Quiet DEF OnlyRestartersGoOn
  <2>3. call'[c] = then
    BY <2>1 DEF Sound, Typed
  <2>4. TurnsAreOrdered' /\ micro' \in Seq(Callers \cup Instances)
    BY <2>1, <2>2, <2>3, NoTurn, TurnOfCaller
  <2>5. /\ call' \in [Callers -> Stages]
        /\ \A d \in Callers : call[d] = "stopping" => call'[d] = "stopping"
    BY <1>2, <2>1, CallMoves
  <2> QED
    BY <1>1, <1>3, <2>1, <2>4, <2>5, Quiet, StepAside
<1>4. CASE entry # Nobody
  <2>1. /\ manual' = TRUE
        /\ next' = [next EXCEPT ![c] = then]
        /\ waits' = [waits EXCEPT ![c] = entry]
        /\ call' = [call EXCEPT ![c] = "stopping"]
        /\ micro' = IF inst[entry] = "backoff" THEN <<entry>> ELSE <<>>
    BY <1>4 DEF StopChannel, NothingToStop
  <2>2. OnlyRestartersGoOn'
    BY <2>1, Quiet DEF OnlyRestartersGoOn, Sound, Typed
  <2>3. entry \in Instances
    BY <1>4 DEF Sound, Typed
  <2>4. TurnsAreOrdered' /\ micro' \in Seq(Callers \cup Instances)
    BY <2>1, <2>2, <2>3, NoTurn, TurnOfInstance
  <2>5. "stopping" \in Stages
    BY DEF Stages
  <2>6. Typed'
    BY <1>1, <2>1, <2>3, <2>4, <2>5 DEF Sound, Typed
  <2>7. EntryIsExact'
    BY <1>1, Quiet DEF Sound, EntryIsExact
  <2>8. WaitersStopped'
    BY <1>1, <2>1 DEF Sound, Typed, WaitersStopped
  <2>9. RestartsAreCounted'
    BY <1>1 DEF Sound, RestartsAreCounted, Live
  <2> QED
    BY <2>4, <2>6, <2>7, <2>8, <2>9 DEF Sound
<1> QED
  BY <1>3, <1>4

LEMMA StepGoStart ==
  ASSUME Sound, NEW c \in Callers, micro = <<>>, call[c] \in {"idle", "judging"},
         call' = [call EXCEPT ![c] = "starting"], micro' = <<c>>,
         inst' = inst, entry' = entry, manual' = manual, waits' = waits, next' = next,
         attempts' = attempts, autos' = autos,
         held' \in BOOLEAN, held' => held
  PROVE  Sound'
<1>1. OnlyRestartersGoOn'
  BY Quiet DEF OnlyRestartersGoOn
<1>2. call'[c] = "starting" /\ "starting" \in Stages
  BY DEF Sound, Typed, Stages
<1>3. TurnsAreOrdered' /\ micro' \in Seq(Callers \cup Instances)
  BY <1>1, <1>2, TurnOfCaller
<1>4. /\ call' \in [Callers -> Stages]
      /\ \A d \in Callers : call[d] = "stopping" => call'[d] = "stopping"
  BY <1>2, CallMoves
<1> QED
  BY <1>3, <1>4, Quiet, StepAside

LEMMA StepUsers ==
  ASSUME Sound, NEW u \in Users, UserStart(u) \/ UserStop(u) \/ LoggedOut(u)
  PROVE  Sound'
<1>1. u \in Callers
  BY DEF Callers
<1>2. CASE UserStart(u)
  <2>1. held' \in BOOLEAN /\ (held' => held)
    BY <1>2 DEF UserStart
  <2> QED
    BY <1>1, <1>2, <2>1, StepGoStart DEF UserStart, status
<1>3. CASE UserStop(u)
  <2>1. PICK then \in {"idle", "logout"} : StopChannel(u, then)
    BY <1>3 DEF UserStop
  <2>2. micro = <<>> /\ call[u] = "idle" /\ held' \in BOOLEAN
    BY <1>3 DEF UserStop
  <2> QED
    BY <1>1, <2>1, <2>2, StepStopChannel
<1>4. CASE LoggedOut(u)
  <2>1. /\ micro = <<>> /\ call[u] = "logout" /\ call' = [call EXCEPT ![u] = "idle"]
        /\ micro' = micro /\ inst' = inst /\ entry' = entry /\ manual' = manual
        /\ waits' = waits /\ next' = next /\ attempts' = attempts /\ held' = held /\ autos' = autos
    BY <1>4 DEF LoggedOut, history
  <2>2. /\ call' \in [Callers -> Stages]
        /\ \A d \in Callers : call[d] = "stopping" => call'[d] = "stopping"
    BY <1>1, <2>1, CallMoves DEF Stages
  <2>3. TurnsAreOrdered' /\ micro' \in Seq(Callers \cup Instances)
    BY <2>1, StillEmpty
  <2>4. held' \in BOOLEAN /\ (held' => held)
    BY <2>1 DEF Sound, Typed
  <2> QED
    BY <2>1, <2>2, <2>3, <2>4, Quiet, StepAside
<1> QED
  BY <1>2, <1>3, <1>4

LEMMA StepReload ==
  ASSUME Sound, ReloadRestart
  PROVE  Sound'
<1>1. "reload" \in Restarters /\ "reload" \in Callers
  BY Sorts DEF ReloadRestart
<1>2. /\ micro = <<>> /\ call["reload"] = "idle" /\ StopChannel("reload", "starting")
      /\ held' \in BOOLEAN
  BY DEF ReloadRestart, Sound, Typed
<1> QED
  BY <1>1, <1>2, StepStopChannel

LEMMA StepMonitor ==
  ASSUME Sound, MonitorCheck \/ MonitorPass \/ MonitorRestart
  PROVE  Sound'
<1>1. /\ "monitor" \in Restarters /\ "monitor" \in Callers /\ micro = <<>>
      /\ call["monitor"] \in {"idle", "judging"} /\ held' = held
  BY Sorts DEF MonitorCheck, MonitorPass, MonitorRestart, history
<1>2. held' \in BOOLEAN /\ (held' => held)
  BY <1>1 DEF Sound, Typed
<1>3. CASE MonitorRestart /\ seen
  BY <1>1, <1>2, <1>3, StepStopChannel DEF MonitorRestart
<1>4. CASE MonitorRestart /\ ~seen
  BY <1>1, <1>2, <1>4, StepGoStart DEF MonitorRestart, status
<1>5. CASE MonitorCheck \/ MonitorPass
  <2>1. /\ call' = [call EXCEPT !["monitor"] = "judging"] \/ call' = [call EXCEPT !["monitor"] = "idle"]
        /\ micro' = micro /\ inst' = inst /\ entry' = entry /\ manual' = manual
        /\ waits' = waits /\ next' = next /\ attempts' = attempts /\ autos' = autos
    BY <1>5 DEF MonitorCheck, MonitorPass, status, history
  <2>2. /\ call' \in [Callers -> Stages]
        /\ \A d \in Callers : call[d] = "stopping" => call'[d] = "stopping"
    BY <1>1, <2>1, CallMoves DEF Stages
  <2>3. TurnsAreOrdered' /\ micro' \in Seq(Callers \cup Instances)
    BY <1>1, <2>1, StillEmpty
  <2> QED
    BY <1>1, <1>2, <2>1, <2>2, <2>3, Quiet, StepAside
<1> QED
  BY <1>3, <1>4, <1>5

(* The configuration, the clock and what the monitor remembers are not     *)
(* part of the argument.                                                   *)
LEMMA StepElsewhere ==
  ASSUME Sound, UNCHANGED <<inst, entry, attempts, autos, manual, held, call, next, waits, micro>>
  PROVE  Sound'
<1>1. /\ inst' = inst /\ entry' = entry /\ attempts' = attempts /\ autos' = autos
      /\ manual' = manual /\ held' = held /\ call' = call /\ next' = next
      /\ waits' = waits /\ micro' = micro
  OBVIOUS
<1> QED
  BY <1>1 DEF Sound, Typed, EntryIsExact, WaitersStopped, TurnsAreOrdered, RestartsAreCounted, Live

-----------------------------------------------------------------------------

LEMMA InvInit == Init => Inv
<1> SUFFICES ASSUME Init PROVE Sound
  BY DEF Inv
<1>1. Typed
  BY EmptySeq DEF Init, Typed, Stages
<1>2. EntryIsExact /\ WaitersStopped /\ RestartsAreCounted
  BY Sorts DEF Init, EntryIsExact, WaitersStopped, RestartsAreCounted, Live
<1>3. TurnsAreOrdered
  BY DEF Init, TurnsAreOrdered
<1> QED
  BY <1>1, <1>2, <1>3 DEF Sound

LEMMA InvNext ==
  ASSUME Inv, [Next]_vars
  PROVE  Inv'
<1>1. overlap => overlap'
  <2> USE DEF history
  <2>1. CASE Resume
    BY <2>1 DEF Resume, Stopped, Start, StartChannel, StartRefused, Answered, Unconfigured, Launch,
                BackoffAborted, Relaunch, Settle
  <2>2. CASE \E i \in Instances : PluginEnds(i) \/ BackoffElapses(i)
    BY <2>2 DEF PluginEnds, BackoffElapses, Settle
  <2>3. CASE \E u \in Users : UserStart(u) \/ UserStop(u) \/ LoggedOut(u)
    BY <2>3 DEF UserStart, UserStop, LoggedOut, StopChannel
  <2>4. CASE ReloadRestart \/ ConfigEdit \/ TimePasses
    BY <2>4 DEF ReloadRestart, ConfigEdit, TimePasses, StopChannel
  <2>5. CASE MonitorCheck \/ MonitorPass \/ MonitorRestart
    BY <2>5 DEF MonitorCheck, MonitorPass, MonitorRestart, StopChannel
  <2>6. CASE UNCHANGED vars
    BY <2>6 DEF vars
  <2> QED
    BY <2>1, <2>2, <2>3, <2>4, <2>5, <2>6 DEF Next
<1> SUFFICES ASSUME Sound, ~overlap' PROVE Sound'
  BY <1>1 DEF Inv
<1>2. CASE Resume
  BY <1>2, StepResume
<1>3. CASE \E i \in Instances : PluginEnds(i) \/ BackoffElapses(i)
  BY <1>3, StepPluginEnds, StepBackoffElapses
<1>4. CASE \E u \in Users : UserStart(u) \/ UserStop(u) \/ LoggedOut(u)
  BY <1>4, StepUsers
<1>5. CASE ReloadRestart
  BY <1>5, StepReload
<1>6. CASE MonitorCheck \/ MonitorPass \/ MonitorRestart
  BY <1>6, StepMonitor
<1>7. CASE ConfigEdit \/ TimePasses \/ UNCHANGED vars
  BY <1>7, StepElsewhere DEF ConfigEdit, TimePasses, vars, status, history
<1> QED
  BY <1>2, <1>3, <1>4, <1>5, <1>6, <1>7 DEF Next

(* The entry of the maps is the instance that runs or sleeps, or none; who *)
(* waits has stopped it; continuations take their turns; restarts count.   *)
THEOREM ManagerInvariant == Spec => []Inv
<1> QED
  BY InvInit, InvNext, PTL DEF Spec

(* One account runs once: whoever gets between the look for a task and its *)
(* entry in startChannelInternal, no second instance of it is created.     *)
THEOREM AccountsRunOnce == Spec => []OneInstance
<1>1. Inv => OneInstance
  <2> SUFFICES ASSUME Sound PROVE Cardinality(Live) <= 1
    BY DEF Inv, OneInstance
  <2>1. Live = {} \/ Live = {entry}
    BY DEF Sound, EntryIsExact, Live
  <2>2. CASE Live = {}
    <3>1. Cardinality(Live) = 0
      BY <2>2, FS_EmptySet
    <3> QED
      BY <3>1
  <2>3. CASE Live = {entry}
    <3>1. Cardinality({entry}) = 1
      BY FS_Singleton
    <3> QED
      BY <2>3, <3>1
  <2> QED
    BY <2>1, <2>2, <2>3
<1> QED
  BY <1>1, ManagerInvariant, PTL

(* The instance that runs is the one the manager's maps hold, so a later   *)
(* stopChannel finds its task and its abort controller.                    *)
THEOREM RunsAreTracked == Spec => []LiveIsTracked
<1>1. Inv => LiveIsTracked
  BY DEF Inv, LiveIsTracked, Sound, EntryIsExact, Live
<1> QED
  BY <1>1, ManagerInvariant, PTL

(* A crash loop ends: restarts since attempts were cleared are bounded.    *)
THEOREM CrashLoopsEnd == Spec => []CrashLoopIsCapped
<1>1. Inv => CrashLoopIsCapped
  BY DEF Inv, CrashLoopIsCapped, Sound, RestartsAreCounted
<1> QED
  BY <1>1, ManagerInvariant, PTL

(* No instance starts its own successor after a user stopped the account:  *)
(* an instance that is past its last look at manuallyStopped was not       *)
(* stopped, and nothing stops it before it has started the next.           *)
THEOREM StopEndsTheLoop == Spec => AutoRestartHonoursStop
<1>1. Inv /\ held /\ ~overlap => \A i \in Instances : inst[i] # "restarting"
  BY DEF Inv, Sound, EntryIsExact
<1>2. Inv /\ [Next]_vars =>
        [held /\ ~overlap /\ NewInstance =>
           \A i \in Instances : inst[i] = "restarting" => inst'[i] = "restarting"]_vars
  BY <1>1
<1> QED
  BY <1>2, ManagerInvariant, PTL DEF Spec, AutoRestartHonoursStop
=============================================================================
