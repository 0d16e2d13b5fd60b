------------------------- MODULE CommandQueueProofs -------------------------
(***************************************************************************)
(* Machine-checked proofs about CommandQueue, for every set of commands    *)
(* and lanes, every cap and any number of resets.                          *)
(***************************************************************************)
EXTENDS CommandQueueRefinement, SequenceTheorems, FiniteSetTheorems, TLAPS

(* The frames left after a return are the frames below the innermost one.  *)
LEMMA PopFacts ==
  ASSUME NEW S, NEW s \in Seq(S), s # <<>>
  PROVE  /\ SubSeq(s, 1, Len(s) - 1) \in Seq(S)
         /\ Len(SubSeq(s, 1, Len(s) - 1)) = Len(s) - 1
         /\ \A i \in 1..(Len(s) - 1) : SubSeq(s, 1, Len(s) - 1)[i] = s[i]
         /\ s[Len(s)] \in S
         /\ Len(s) \in Nat \ {0}
<1>1. Len(s) \in Nat \ {0} /\ \A i \in 1..Len(s) : s[i] \in S
  OBVIOUS
<1>2. \A i \in 1..(Len(s) - 1) : s[i] \in S
  BY <1>1
<1> DEFINE n == Len(s) - 1
           t == SubSeq(s, 1, n)
<1>3. n \in Int /\ 1 \in Int
  BY <1>1
<1> HIDE DEF n
<1>4. \A i \in 1..n : s[i] \in S
  BY <1>2 DEF n
<1>5. /\ t \in Seq(S)
      /\ Len(t) = IF 1 <= n THEN n - 1 + 1 ELSE 0
      /\ \A i \in 1..(n - 1 + 1) : t[i] = s[1 + i - 1]
  BY ONLY <1>3, <1>4, SubSeqProperties
<1> HIDE DEF t
<1>6. n \in Nat
  BY <1>1 DEF n
<1>7. Len(t) = n /\ \A i \in 1..n : t[i] = s[i]
  BY ONLY <1>5, <1>6
<1>8. QED
  BY <1>1, <1>5, <1>7 DEF n, t

(* A seq grows by one frame and keeps the frames it had. *)
LEMMA PushFacts ==
  ASSUME NEW S, NEW s \in Seq(S), NEW x \in S
  PROVE  /\ Append(s, x) \in Seq(S)
         /\ Append(s, x) # <<>>
         /\ Len(Append(s, x)) = Len(s) + 1
         /\ \A i \in 1..Len(s) : Append(s, x)[i] = s[i]
         /\ Append(s, x)[Len(s) + 1] = x
         /\ DOMAIN Append(s, x) = 1..(Len(s) + 1)
         /\ DOMAIN s = 1..Len(s)
         /\ Len(s) \in Nat
  BY AppendProperties, LenProperties

LEMMA FrameTypes ==
  ASSUME NEW l \in Lane, NEW c \in Cmd, NEW S \in SUBSET Lane
  PROVE  PumpFrame(l) \in Frame /\ TaskFrame(c) \in Frame /\ ResetFrame(S) \in Frame
  BY DEF PumpFrame, TaskFrame, ResetFrame, Frame

(* Reading a frame back by its kind. *)
LEMMA FrameKinds ==
  ASSUME NEW f \in Frame
  PROVE  /\ f.op = "pump" => f.lane \in Lane /\ f = PumpFrame(f.lane)
         /\ f.op = "task" => f.cmd \in Cmd /\ f = TaskFrame(f.cmd)
         /\ f.op = "reset" => f.lanes \in SUBSET Lane /\ f = ResetFrame(f.lanes)
         /\ \A l : f = PumpFrame(l) => f.op = "pump" /\ f.lane = l
         /\ \A c : f = TaskFrame(c) => f.op = "task" /\ f.cmd = c
         /\ f.op \in {"pump", "task", "reset"}
  BY DEF PumpFrame, TaskFrame, ResetFrame, Frame

(* The stack at a return: the frame that returns and the ones below it. *)
LEMMA ReturnFacts ==
  ASSUME TypeOK, stack # <<>>
  PROVE  /\ Top \in Frame
         /\ Pop \in Seq(Frame)
         /\ Len(stack) \in Nat \ {0}
         /\ DOMAIN stack = 1..Len(stack)
         /\ DOMAIN Pop = 1..(Len(stack) - 1)
         /\ Len(Pop) = Len(stack) - 1
         /\ \A i \in DOMAIN Pop : i \in DOMAIN stack /\ Pop[i] = stack[i] /\ i # Len(stack)
         /\ \A i \in DOMAIN stack : i \in DOMAIN Pop \/ i = Len(stack)
<1>1. stack \in Seq(Frame)
  BY DEF TypeOK
<1>2. Len(stack) \in Nat /\ DOMAIN stack = 1..Len(stack)
  BY <1>1, LenProperties
<1>3. /\ Pop \in Seq(Frame) /\ Len(Pop) = Len(stack) - 1
      /\ \A i \in 1..(Len(stack) - 1) : Pop[i] = stack[i]
      /\ Top \in Frame
      /\ Len(stack) \in Nat \ {0}
  BY <1>1, PopFacts DEF Pop, Top
<1>4. DOMAIN Pop = 1..Len(Pop)
  BY <1>3, LenProperties
<1>5. QED
  BY <1>2, <1>3, <1>4

LEMMA DrainLaneType ==
  ASSUME NEW l \in Lane, NEW stk \in Seq(Frame), draining \in [Lane -> BOOLEAN],
         DrainLane(l, stk)
  PROVE  stack' \in Seq(Frame) /\ draining' \in [Lane -> BOOLEAN]
<1>1. PumpFrame(l) \in Frame
  BY DEF PumpFrame, Frame
<1>2. QED
  BY <1>1, PushFacts DEF DrainLane

(* What drainLane(l) does to a stack on which every raised draining flag is *)
(* owned: the lane ends up with a pump() loop, and nothing else changes.    *)
LEMMA DrainLaneFacts ==
  ASSUME NEW l \in Lane, NEW stk \in Seq(Frame), draining \in [Lane -> BOOLEAN],
         DrainLane(l, stk),
         \A k \in Lane : draining[k] => \E i \in DOMAIN stk : stk[i] = PumpFrame(k)
  PROVE  /\ stack' \in Seq(Frame)
         /\ draining' \in [Lane -> BOOLEAN]
         /\ \A i \in DOMAIN stk : i \in DOMAIN stack' /\ stack'[i] = stk[i]
         /\ \A i \in DOMAIN stack' : (i \in DOMAIN stk) \/ stack'[i] = PumpFrame(l)
         /\ HasPump(l)'
         /\ DrainingIsOwned'
<1>1. PumpFrame(l) \in Frame
  BY DEF PumpFrame, Frame
<1>2. CASE draining[l]
  <2>1. stack' = stk /\ draining' = draining
    BY <1>2 DEF DrainLane
  <2>2. QED
    BY <2>1, <1>2 DEF HasPump, DrainingIsOwned
<1>3. CASE ~draining[l]
  <2>1. stack' = Append(stk, PumpFrame(l))
    BY <1>3 DEF DrainLane
  <2>2. draining' = [draining EXCEPT ![l] = TRUE]
    BY DEF DrainLane
  <2>3. /\ stack' \in Seq(Frame)
        /\ \A i \in 1..Len(stk) : stack'[i] = stk[i]
        /\ stack'[Len(stk) + 1] = PumpFrame(l)
        /\ DOMAIN stack' = 1..(Len(stk) + 1)
        /\ DOMAIN stk = 1..Len(stk)
        /\ Len(stk) \in Nat
    BY <1>1, <2>1, PushFacts
  <2>4. HasPump(l)'
    BY <2>3 DEF HasPump
  <2>5. \A i \in DOMAIN stk : i \in DOMAIN stack' /\ stack'[i] = stk[i]
    BY <2>3
  <2>6. \A i \in DOMAIN stack' : (i \in DOMAIN stk) \/ stack'[i] = PumpFrame(l)
    BY <2>3
  <2>7. DrainingIsOwned'
    <3>1. SUFFICES ASSUME NEW k \in Lane, draining'[k]
                   PROVE  HasPump(k)'
      BY DEF DrainingIsOwned
    <3>2. k = l \/ draining[k]
      BY <2>2, <3>1
    <3>3. QED
      BY <2>4, <2>5, <3>2 DEF HasPump
  <2>8. QED
    BY <2>2, <2>3, <2>4, <2>5, <2>6, <2>7
<1>4. QED
  BY <1>2, <1>3

-----------------------------------------------------------------------------
LEMMA InitType == Init => TypeOK
<1>1. SUFFICES ASSUME Init PROVE TypeOK
  OBVIOUS
<1>2. queue \in [Lane -> Seq(Cmd)] /\ stack \in Seq(Frame)
  BY <1>1, EmptySeq DEF Init
<1>3. active \in [Lane -> SUBSET Cmd] /\ snapshot \in SUBSET Cmd
  BY <1>1 DEF Init
<1>4. maxConcurrent \in [Lane -> Nat \ {0}] /\ generation \in [Lane -> Nat]
      /\ taskGeneration \in [Cmd -> Nat]
  BY <1>1 DEF Init
<1>5. draining \in [Lane -> BOOLEAN] /\ gatewayDraining \in BOOLEAN
  BY <1>1 DEF Init
<1>6. status \in [Cmd -> Status] /\ waiter \in {"none", "polling", "drained", "timedOut"}
  BY <1>1 DEF Init, Status
<1>7. QED
  BY <1>2, <1>3, <1>4, <1>5, <1>6 DEF TypeOK

(* One step of any operation keeps the types. *)
LEMMA FinishTaskType ==
  ASSUME TypeOK, NEW c \in Cmd, NEW outcome \in Ran, NEW stk \in Seq(Frame),
         FinishTask(c, outcome, stk)
  PROVE  TypeOK'
<1>1. LaneOf[c] \in Lane
  BY CmdAssumption
<1>2. PumpFrame(LaneOf[c]) \in Frame
  BY <1>1 DEF PumpFrame, Frame
<1>3. stack' \in Seq(Frame)
  BY <1>2, PushFacts DEF FinishTask, CompleteTask, Current
<1>4. status' \in [Cmd -> Status]
  BY DEF FinishTask, CompleteTask, Current, TypeOK, Status, Settled
<1>5. active' \in [Lane -> SUBSET Cmd]
  BY <1>1 DEF FinishTask, CompleteTask, Current, TypeOK
<1>6. QED
  BY <1>3, <1>4, <1>5 DEF FinishTask, CompleteTask, Current, TypeOK, waitVars

LEMMA StepType == TypeOK /\ [Next]_vars => TypeOK'
<1> SUFFICES ASSUME TypeOK, [Next]_vars PROVE TypeOK'
  OBVIOUS
<1>1. ASSUME NEW c \in Cmd, EnqueueCommandInLane(c) PROVE TypeOK'
  <2>1. LaneOf[c] \in Lane
    BY CmdAssumption
  <2>2. stack' \in Seq(Frame) /\ draining' \in [Lane -> BOOLEAN]
    BY <1>1, <2>1, DrainLaneType DEF EnqueueCommandInLane, TypeOK
  <2>3. queue' \in [Lane -> Seq(Cmd)]
    BY <1>1, <2>1, PushFacts DEF EnqueueCommandInLane, TypeOK, Push
  <2>4. status' \in [Cmd -> Status]
    BY <1>1 DEF EnqueueCommandInLane, TypeOK, Status
  <2>5. QED
    BY <1>1, <2>2, <2>3, <2>4 DEF EnqueueCommandInLane, TypeOK, waitVars
<1>2. ASSUME NEW c \in Cmd, RefuseCommand(c) PROVE TypeOK'
  BY <1>2 DEF RefuseCommand, TypeOK, laneVars, waitVars, Status, Settled, NeverRan
<1>3. ASSUME NEW c \in Cmd, TaskSettles(c) PROVE TypeOK'
  BY <1>3, FinishTaskType DEF TaskSettles, TypeOK
<1>4. ASSUME NEW l \in Lane, ClearCommandLane(l) PROVE TypeOK'
  <2>1. queue' \in [Lane -> Seq(Cmd)]
    BY <1>4, EmptySeq DEF ClearCommandLane, Left, Removed, TypeOK
  <2>2. status' \in [Cmd -> Status]
    BY <1>4 DEF ClearCommandLane, Left, Removed, TypeOK, Status, Settled, NeverRan
  <2>3. QED
    BY <1>4, <2>1, <2>2 DEF ClearCommandLane, Left, Removed, TypeOK, waitVars
<1>5. ASSUME NEW l \in Lane, NEW n \in 0..MaxCap, SetCommandLaneConcurrency(l, n)
      PROVE TypeOK'
  <2>1. stack' \in Seq(Frame) /\ draining' \in [Lane -> BOOLEAN]
    BY <1>5, DrainLaneType DEF SetCommandLaneConcurrency, TypeOK
  <2>2. AtLeastOne(n) \in Nat \ {0}
    BY BoundAssumption DEF AtLeastOne
  <2>3. QED
    BY <1>5, <2>1, <2>2 DEF SetCommandLaneConcurrency, TypeOK, waitVars
<1>6. CASE MarkGatewayDraining
  BY <1>6 DEF MarkGatewayDraining, TypeOK, laneVars, waitVars
<1>7. CASE ResetAllLanes
  <2>1. ResetFrame({l \in Lane : queue[l] # <<>>}) \in Frame
    BY DEF ResetFrame, Frame
  <2>2. stack' \in Seq(Frame)
    BY <1>7, <2>1, PushFacts DEF ResetAllLanes, LanesToDrain, TypeOK
  <2>3. generation' \in [Lane -> Nat] /\ active' \in [Lane -> SUBSET Cmd]
    BY <1>7 DEF ResetAllLanes, LanesToDrain, TypeOK
  <2>4. draining' \in [Lane -> BOOLEAN] /\ gatewayDraining' \in BOOLEAN
    BY <1>7 DEF ResetAllLanes, LanesToDrain
  <2>5. QED
    BY <1>7, <2>2, <2>3, <2>4 DEF ResetAllLanes, LanesToDrain, TypeOK, waitVars
<1>8. CASE ResetDrainsLane
  <2>1. stack # <<>> /\ Top.op = "reset"
    BY <1>8 DEF ResetDrainsLane, Running
  <2>2. Top \in Frame /\ Pop \in Seq(Frame)
    BY <2>1, ReturnFacts
  <2>3. Top.lanes \in SUBSET Lane
    BY <2>1, <2>2, FrameKinds
  <2>4. PICK l \in Top.lanes :
          DrainLane(l, IF Top.lanes = {l} THEN Pop
                       ELSE Append(Pop, ResetFrame(Top.lanes \ {l})))
    BY <1>8 DEF ResetDrainsLane
  <2>5. ResetFrame(Top.lanes \ {l}) \in Frame
    BY <2>3 DEF ResetFrame, Frame
  <2>6. Append(Pop, ResetFrame(Top.lanes \ {l})) \in Seq(Frame)
    BY <2>2, <2>5, PushFacts
  <2>7. stack' \in Seq(Frame) /\ draining' \in [Lane -> BOOLEAN]
    BY <2>2, <2>3, <2>4, <2>6, DrainLaneType DEF TypeOK
  <2>8. QED
    BY <1>8, <2>7 DEF ResetDrainsLane, TypeOK, waitVars
<1>9. CASE PumpStartsTask
  <2> DEFINE l == Top.lane
             c == Head(queue[l])
  <2>1. stack # <<>> /\ Top.op = "pump"
    BY <1>9 DEF PumpStartsTask, Running
  <2>2. l \in Lane
    BY <2>1, ReturnFacts, FrameKinds
  <2>3. queue[l] \in Seq(Cmd) /\ queue[l] # <<>>
    BY <1>9, <2>2 DEF PumpStartsTask, TypeOK, Runnable
  <2>4. c \in Cmd /\ Tail(queue[l]) \in Seq(Cmd)
    BY <2>3, HeadTailProperties
  <2>5. TaskFrame(c) \in Frame
    BY <2>4 DEF TaskFrame, Frame
  <2>6. stack' \in Seq(Frame)
    BY <1>9, <2>5, PushFacts DEF PumpStartsTask, TypeOK
  <2>7. queue' \in [Lane -> Seq(Cmd)] /\ active' \in [Lane -> SUBSET Cmd]
    BY <1>9, <2>2, <2>4 DEF PumpStartsTask, TypeOK
  <2>8. status' \in [Cmd -> Status] /\ taskGeneration' \in [Cmd -> Nat]
    BY <1>9, <2>2, <2>4 DEF PumpStartsTask, TypeOK, Status
  <2>9. QED
    BY <1>9, <2>6, <2>7, <2>8 DEF PumpStartsTask, TypeOK, waitVars
<1>10. CASE PumpReturns
  <2>1. stack # <<>>
    BY <1>10 DEF PumpReturns, ClearsDraining, Running
  <2>2. Pop \in Seq(Frame)
    BY <2>1, ReturnFacts
  <2>3. draining' \in [Lane -> BOOLEAN]
    BY <1>10 DEF PumpReturns, ClearsDraining, TypeOK
  <2>4. QED
    BY <1>10, <2>2, <2>3 DEF PumpReturns, ClearsDraining, TypeOK, waitVars
<1>11. CASE TaskSuspends
  <2>1. Pop \in Seq(Frame)
    BY <1>11, ReturnFacts DEF TaskSuspends, Running
  <2>2. QED
    BY <1>11, <2>1 DEF TaskSuspends, TypeOK, laneVars, waitVars
<1>12. CASE TaskThrows
  <2>1. stack # <<>> /\ Top.op = "task"
    BY <1>12 DEF TaskThrows, Running
  <2>2. Top.cmd \in Cmd /\ Pop \in Seq(Frame)
    BY <2>1, ReturnFacts, FrameKinds
  <2>3. QED
    BY <1>12, <2>2, FinishTaskType DEF TaskThrows, Ran
<1>13. CASE WaitForActiveTasks
  <2>1. snapshot' \in SUBSET Cmd
    BY <1>13 DEF WaitForActiveTasks, TypeOK, AllActive
  <2>2. QED
    BY <1>13, <2>1 DEF WaitForActiveTasks, TypeOK, laneVars
<1>14. CASE WaitPolls
  BY <1>14 DEF WaitPolls, AllDone, TypeOK, laneVars
<1>15. CASE UNCHANGED vars
  BY <1>15 DEF vars, TypeOK
<1>16. QED
  BY <1>1, <1>2, <1>3, <1>4, <1>5, <1>6, <1>7, <1>8, <1>9, <1>10, <1>11, <1>12,
     <1>13, <1>14, <1>15 DEF Next, Engine

(* Every variable keeps the type its declaration in the code gives it. *)
THEOREM TypeCorrect == Spec => []TypeOK
  BY InitType, StepType, PTL DEF Spec
-----------------------------------------------------------------------------
(* A step that leaves the lanes' own state alone and returns from a frame   *)
(* that is not a pump() keeps every wake-up owned.                          *)
LEMMA KeepOwned ==
  ASSUME TypeOK, StackInv, UNCHANGED <<queue, active, maxConcurrent, draining>>,
         NEW stk \in Seq(Frame), stack' = stk,
         \A i \in DOMAIN stack : \/ i \in DOMAIN stk /\ stk[i] = stack[i]
                                 \/ stack[i].op = "task"
  PROVE  StackInv'
<1>1. \A i \in DOMAIN stack : stack[i] \in Frame
  BY DEF TypeOK
<1>2. \A l \in Lane : HasPump(l) => HasPump(l)'
  BY <1>1, FrameKinds DEF HasPump, PumpFrame
<1>3. \A l \in Lane : ResetPending(l) => ResetPending(l)'
  BY DEF ResetPending
<1>4. \A l \in Lane : Runnable(l)' = Runnable(l)
  BY DEF Runnable, HasRoom
<1>5. QED
  BY <1>2, <1>3, <1>4 DEF StackInv, WakeupIsOwned, DrainingIsOwned

(* A step that ends in drainLane(l), touches no other lane and keeps every  *)
(* frame except resets of which it has just served lane l.                  *)
LEMMA DrainKeepsOwned ==
  ASSUME TypeOK, StackInv, NEW l \in Lane, NEW stk \in Seq(Frame), DrainLane(l, stk),
         \A k \in Lane \ {l} : /\ queue'[k] = queue[k] /\ active'[k] = active[k]
                               /\ maxConcurrent'[k] = maxConcurrent[k],
         \A k \in Lane : HasPump(k) => \E i \in DOMAIN stk : stk[i] = PumpFrame(k),
         \A k \in Lane \ {l} : ResetPending(k) =>
             \E i \in DOMAIN stk : stk[i].op = "reset" /\ k \in stk[i].lanes
  PROVE  StackInv'
<1>1. \A k \in Lane : draining[k] => \E i \in DOMAIN stk : stk[i] = PumpFrame(k)
  BY DEF StackInv, DrainingIsOwned
<1>2. draining \in [Lane -> BOOLEAN]
  BY DEF TypeOK
<1>3. /\ \A i \in DOMAIN stk : i \in DOMAIN stack' /\ stack'[i] = stk[i]
      /\ HasPump(l)'
      /\ DrainingIsOwned'
  BY <1>1, <1>2, DrainLaneFacts
<1>4. ASSUME NEW k \in Lane, Runnable(k)'
      PROVE  HasPump(k)' \/ ResetPending(k)'
  <2>1. CASE k = l
    BY <1>3, <2>1
  <2>2. CASE k # l
    <3>1. Runnable(k)
      BY <1>4, <2>2 DEF Runnable, HasRoom
    <3>2. HasPump(k) \/ ResetPending(k)
      BY <3>1 DEF StackInv, WakeupIsOwned
    <3>3. HasPump(k) => HasPump(k)'
      BY <1>3 DEF HasPump
    <3>4. ResetPending(k) => ResetPending(k)'
      BY <1>3, <2>2 DEF ResetPending
    <3>5. QED
      BY <3>2, <3>3, <3>4
  <2>3. QED
    BY <2>1, <2>2
<1>5. QED
  BY <1>3, <1>4 DEF StackInv, WakeupIsOwned

(* The frames below the innermost one still hold every pump() and reset     *)
(* that the innermost frame is not itself.                                  *)
LEMMA PopKeeps ==
  ASSUME TypeOK, stack # <<>>
  PROVE  /\ \A k \in Lane : HasPump(k) =>
              Top = PumpFrame(k) \/ \E i \in DOMAIN Pop : Pop[i] = PumpFrame(k)
         /\ \A k \in Lane : ResetPending(k) =>
              \/ Top.op = "reset" /\ k \in Top.lanes
              \/ \E i \in DOMAIN Pop : Pop[i].op = "reset" /\ k \in Pop[i].lanes
  BY ReturnFacts DEF HasPump, ResetPending, Top

(* The continuation of a finished task pumps its lane, or was written off.  *)
LEMMA FinishTaskOwned ==
  ASSUME TypeOK, StackInv, NEW c \in Cmd, NEW outcome \in Ran, NEW stk \in Seq(Frame),
         FinishTask(c, outcome, stk),
         \A k \in Lane : HasPump(k) => \E i \in DOMAIN stk : stk[i] = PumpFrame(k),
         \A k \in Lane : ResetPending(k) =>
             \E i \in DOMAIN stk : stk[i].op = "reset" /\ k \in stk[i].lanes
  PROVE  StackInv'
<1> DEFINE l == LaneOf[c]
<1>1. l \in Lane
  BY CmdAssumption
<1>2. PumpFrame(l) \in Frame
  BY <1>1 DEF PumpFrame, Frame
<1>3. \A i \in DOMAIN stk : i \in DOMAIN stack' /\ stack'[i] = stk[i]
  BY <1>2, PushFacts DEF FinishTask, CompleteTask, Current
<1>4. \A k \in Lane : HasPump(k) => HasPump(k)'
  BY <1>3 DEF HasPump
<1>5. \A k \in Lane : ResetPending(k) => ResetPending(k)'
  BY <1>3 DEF ResetPending
<1>6. DrainingIsOwned'
  BY <1>4 DEF FinishTask, CompleteTask, Current, StackInv, DrainingIsOwned
<1>7. ASSUME NEW k \in Lane, Runnable(k)'
      PROVE  HasPump(k)' \/ ResetPending(k)'
  <2>1. CASE k = l /\ taskGeneration[c] = generation[l]
    <3>1. stack' = Append(stk, PumpFrame(l))
      BY <2>1 DEF FinishTask, CompleteTask, Current
    <3>2. HasPump(l)'
      BY <1>2, <3>1, PushFacts DEF HasPump
    <3>3. QED
      BY <2>1, <3>2
  <2>2. CASE k # l \/ taskGeneration[c] # generation[l]
    <3>1. active'[k] = active[k]
      BY <2>2, <1>1 DEF FinishTask, CompleteTask, Current, TypeOK
    <3>2. Runnable(k)
      BY <1>7, <3>1 DEF FinishTask, CompleteTask, Current, Runnable, HasRoom
    <3>3. QED
      BY <3>2, <1>4, <1>5 DEF StackInv, WakeupIsOwned
  <2>3. QED
    BY <2>1, <2>2
<1>8. QED
  BY <1>6, <1>7 DEF StackInv, WakeupIsOwned

LEMMA InitOwned == Init => StackInv
<1>1. SUFFICES ASSUME Init PROVE StackInv
  OBVIOUS
<1>2. \A l \in Lane : ~Runnable(l) /\ ~draining[l]
  BY <1>1 DEF Init, Runnable
<1>3. QED
  BY <1>2 DEF StackInv, WakeupIsOwned, DrainingIsOwned

LEMMA StepOwned == TypeOK /\ StackInv /\ [Next]_vars => StackInv'
<1> SUFFICES ASSUME TypeOK, StackInv, [Next]_vars PROVE StackInv'
  OBVIOUS
<1>s. stack \in Seq(Frame) /\ \A i \in DOMAIN stack : stack[i] \in Frame
  BY DEF TypeOK
<1>1. ASSUME NEW c \in Cmd, EnqueueCommandInLane(c) PROVE StackInv'
  <2>1. LaneOf[c] \in Lane
    BY CmdAssumption
  <2>2. \A k \in Lane \ {LaneOf[c]} : /\ queue'[k] = queue[k] /\ active'[k] = active[k]
                                      /\ maxConcurrent'[k] = maxConcurrent[k]
    BY <1>1 DEF EnqueueCommandInLane, TypeOK
  <2>3. DrainLane(LaneOf[c], stack)
    BY <1>1 DEF EnqueueCommandInLane
  <2>4. QED
    BY <1>s, <2>1, <2>2, <2>3, DrainKeepsOwned DEF HasPump, ResetPending
<1>2. ASSUME NEW c \in Cmd, RefuseCommand(c) PROVE StackInv'
  BY <1>2, <1>s, KeepOwned DEF RefuseCommand, laneVars
<1>3. ASSUME NEW c \in Cmd, TaskSettles(c) PROVE StackInv'
  BY <1>3, <1>s, FinishTaskOwned DEF TaskSettles, HasPump, ResetPending
<1>4. ASSUME NEW l \in Lane, ClearCommandLane(l) PROVE StackInv'
  <2>1. \A k \in Lane : Runnable(k)' => Runnable(k)
    <3>1. queue'[l] = <<>> /\ \A k \in Lane \ {l} : queue'[k] = queue[k]
      BY <1>4 DEF ClearCommandLane, Left, Removed, TypeOK
    <3>2. QED
      BY <1>4, <3>1 DEF ClearCommandLane, Left, Removed, Runnable, HasRoom
  <2>2. \A k \in Lane : (HasPump(k)' <=> HasPump(k)) /\ (ResetPending(k)' <=> ResetPending(k))
    BY <1>4 DEF ClearCommandLane, Left, Removed, HasPump, ResetPending
  <2>3. draining' = draining
    BY <1>4 DEF ClearCommandLane, Left, Removed
  <2>4. QED
    BY <2>1, <2>2, <2>3 DEF StackInv, WakeupIsOwned, DrainingIsOwned
<1>5. ASSUME NEW l \in Lane, NEW n \in 0..MaxCap, SetCommandLaneConcurrency(l, n)
      PROVE StackInv'
  <2>1. \A k \in Lane \ {l} : /\ queue'[k] = queue[k] /\ active'[k] = active[k]
                              /\ maxConcurrent'[k] = maxConcurrent[k]
    BY <1>5 DEF SetCommandLaneConcurrency, TypeOK
  <2>2. DrainLane(l, stack)
    BY <1>5 DEF SetCommandLaneConcurrency
  <2>3. QED
    BY <1>s, <2>1, <2>2, DrainKeepsOwned DEF HasPump, ResetPending
<1>6. CASE MarkGatewayDraining
  BY <1>6, <1>s, KeepOwned DEF MarkGatewayDraining, laneVars
<1>7. CASE ResetAllLanes
  <2> DEFINE S == {l \in Lane : queue[l] # <<>>}
  <2>1. \A l \in Lane : ~draining'[l]
    BY <1>7 DEF ResetAllLanes, LanesToDrain
  <2>2. ASSUME NEW l \in Lane, Runnable(l)' PROVE ResetPending(l)'
    <3>1. l \in S
      BY <1>7, <2>2 DEF ResetAllLanes, LanesToDrain, Runnable
    <3>2. stack' = Append(stack, ResetFrame(S))
      BY <1>7, <3>1 DEF ResetAllLanes, LanesToDrain
    <3>3. ResetFrame(S) \in Frame
      BY DEF ResetFrame, Frame
    <3>4. Len(stack) + 1 \in DOMAIN stack' /\ stack'[Len(stack) + 1] = ResetFrame(S)
      BY <1>s, <3>2, <3>3, PushFacts
    <3>5. ResetFrame(S).op = "reset" /\ ResetFrame(S).lanes = S
      BY DEF ResetFrame
    <3>6. QED
      BY <3>1, <3>4, <3>5 DEF ResetPending
  <2>3. QED
    BY <2>1, <2>2 DEF StackInv, WakeupIsOwned, DrainingIsOwned
<1>8. CASE ResetDrainsLane
  <2>1. stack # <<>> /\ Top.op = "reset"
    BY <1>8 DEF ResetDrainsLane, Running
  <2>2. Top \in Frame /\ Pop \in Seq(Frame)
    BY <2>1, ReturnFacts
  <2>3. Top.lanes \in SUBSET Lane
    BY <2>1, <2>2, FrameKinds
  <2>4. PICK l \in Top.lanes :
          DrainLane(l, IF Top.lanes = {l} THEN Pop
                       ELSE Append(Pop, ResetFrame(Top.lanes \ {l})))
    BY <1>8 DEF ResetDrainsLane
  <2>5. /\ \A k \in Lane : HasPump(k) => \E i \in DOMAIN Pop : Pop[i] = PumpFrame(k)
        /\ \A k \in Lane : ResetPending(k) =>
              k \in Top.lanes \/ \E i \in DOMAIN Pop : Pop[i].op = "reset" /\ k \in Pop[i].lanes
    BY <2>1, <2>2, PopKeeps, FrameKinds
  <2>6. \A k \in Lane \ {l} : /\ queue'[k] = queue[k] /\ active'[k] = active[k]
                              /\ maxConcurrent'[k] = maxConcurrent[k]
    BY <1>8 DEF ResetDrainsLane
  <2>7. CASE Top.lanes = {l}
    BY <2>2, <2>3, <2>4, <2>5, <2>6, <2>7, DrainKeepsOwned
  <2>8. CASE Top.lanes # {l}
    <3> DEFINE f == ResetFrame(Top.lanes \ {l})
               stk == Append(Pop, f)
    <3>1. f \in Frame
      BY <2>3 DEF ResetFrame, Frame
    <3>2. /\ stk \in Seq(Frame)
          /\ \A i \in DOMAIN Pop : i \in DOMAIN stk /\ stk[i] = Pop[i]
          /\ Len(Pop) + 1 \in DOMAIN stk /\ stk[Len(Pop) + 1] = f
      BY <2>2, <3>1, PushFacts
    <3>3. f.op = "reset" /\ f.lanes = Top.lanes \ {l}
      BY DEF ResetFrame
    <3>4. DrainLane(l, stk)
      BY <2>4, <2>8
    <3> HIDE DEF f, stk
    <3>5. \A k \in Lane : HasPump(k) => \E i \in DOMAIN stk : stk[i] = PumpFrame(k)
      BY <2>5, <3>2
    <3>6. \A k \in Lane \ {l} : ResetPending(k) =>
             \E i \in DOMAIN stk : stk[i].op = "reset" /\ k \in stk[i].lanes
      BY <2>5, <3>2, <3>3
    <3>7. QED
      BY <2>3, <2>6, <3>2, <3>4, <3>5, <3>6, DrainKeepsOwned
  <2>9. QED
    BY <2>7, <2>8
<1>9. CASE PumpStartsTask
  <2> DEFINE l == Top.lane
             c == Head(queue[l])
  <2>1. stack # <<>> /\ Top.op = "pump"
    BY <1>9 DEF PumpStartsTask, Running
  <2>2. l \in Lane /\ Top = PumpFrame(l)
    BY <2>1, ReturnFacts, FrameKinds
  <2>3. queue[l] \in Seq(Cmd) /\ queue[l] # <<>>
    BY <1>9, <2>2 DEF PumpStartsTask, TypeOK, Runnable
  <2>4. TaskFrame(c) \in Frame
    BY <2>3, HeadTailProperties DEF TaskFrame, Frame
  <2>5. \A i \in DOMAIN stack : i \in DOMAIN stack' /\ stack'[i] = stack[i]
    BY <1>9, <1>s, <2>4, PushFacts DEF PumpStartsTask
  <2>6. \A k \in Lane : /\ HasPump(k) => HasPump(k)'
                        /\ ResetPending(k) => ResetPending(k)'
    BY <2>5 DEF HasPump, ResetPending
  <2>7. HasPump(l)
    BY <2>1, <2>2, ReturnFacts DEF HasPump, Top
  <2>8. \A k \in Lane \ {l} : Runnable(k)' => Runnable(k)
    BY <1>9, <2>2 DEF PumpStartsTask, Runnable, HasRoom, TypeOK
  <2>9. draining' = draining
    BY <1>9 DEF PumpStartsTask
  <2>10. QED
    BY <2>6, <2>7, <2>8, <2>9 DEF StackInv, WakeupIsOwned, DrainingIsOwned
<1>10. CASE PumpReturns
  <2> DEFINE l == Top.lane
  <2>1. stack # <<>> /\ Top.op = "pump"
    BY <1>10 DEF PumpReturns, ClearsDraining, Running
  <2>2. l \in Lane /\ Top \in Frame
    BY <2>1, ReturnFacts, FrameKinds
  <2>3. stack' = Pop
    BY <1>10 DEF PumpReturns, ClearsDraining
  <2>4. \A k \in Lane \ {l} : HasPump(k) => HasPump(k)'
    BY <2>1, <2>2, <2>3, PopKeeps, FrameKinds DEF HasPump
  <2>5. \A k \in Lane : ResetPending(k) => ResetPending(k)'
    BY <2>1, <2>3, PopKeeps DEF ResetPending
  <2>6. \A k \in Lane : Runnable(k)' => Runnable(k) /\ k # l
    BY <1>10 DEF PumpReturns, ClearsDraining, Runnable, HasRoom
  <2>7. ~draining'[l] /\ \A k \in Lane \ {l} : draining'[k] = draining[k]
    BY <1>10, <2>2 DEF PumpReturns, ClearsDraining, TypeOK
  <2>8. QED
    BY <2>4, <2>5, <2>6, <2>7 DEF StackInv, WakeupIsOwned, DrainingIsOwned
<1>11. CASE TaskSuspends
  <2>1. stack # <<>> /\ Top.op = "task"
    BY <1>11 DEF TaskSuspends, Running
  <2>2. \A i \in DOMAIN stack : \/ i \in DOMAIN Pop /\ Pop[i] = stack[i]
                                \/ stack[i].op = "task"
    BY <2>1, ReturnFacts DEF Top
  <2>3. Pop \in Seq(Frame) /\ stack' = Pop
    BY <1>11, <2>1, ReturnFacts DEF TaskSuspends
  <2>4. QED
    BY <1>11, <2>2, <2>3, KeepOwned DEF TaskSuspends, laneVars
<1>12. CASE TaskThrows
  <2>1. stack # <<>> /\ Top.op = "task"
    BY <1>12 DEF TaskThrows, Running
  <2>2. Top \in Frame /\ Top.cmd \in Cmd /\ Pop \in Seq(Frame)
    BY <2>1, ReturnFacts, FrameKinds
  <2>3. /\ \A k \in Lane : HasPump(k) => \E i \in DOMAIN Pop : Pop[i] = PumpFrame(k)
        /\ \A k \in Lane : ResetPending(k) =>
              \E i \in DOMAIN Pop : Pop[i].op = "reset" /\ k \in Pop[i].lanes
    BY <2>1, <2>2, PopKeeps, FrameKinds
  <2>4. "rejected" \in Ran
    BY DEF Ran
  <2>5. QED
    BY <1>12, <2>2, <2>3, <2>4, FinishTaskOwned DEF TaskThrows
<1>13. CASE WaitForActiveTasks
  BY <1>13, <1>s, KeepOwned DEF WaitForActiveTasks, laneVars
<1>14. CASE WaitPolls
  BY <1>14, <1>s, KeepOwned DEF WaitPolls, AllDone, laneVars
<1>15. CASE UNCHANGED vars
  BY <1>15, <1>s, KeepOwned DEF vars
<1>16. QED
  BY <1>1, <1>2, <1>3, <1>4, <1>5, <1>6, <1>7, <1>8, <1>9, <1>10, <1>11, <1>12,
     <1>13, <1>14, <1>15 DEF Next, Engine

(* No lost wake-up: with control back in the event loop, no lane has both a *)
(* waiting command and a free slot, whatever reentrant calls, throws,       *)
(* resets and cap changes came before.                                      *)
THEOREM NeverLosesAWakeup == Spec => []NoLostWakeup
<1>1. TypeOK /\ StackInv => NoLostWakeup
  BY DEF TypeOK, StackInv, WakeupIsOwned, NoLostWakeup, HasPump, ResetPending
<1>2. QED
  BY <1>1, InitType, StepType, InitOwned, StepOwned, PTL DEF Spec
-----------------------------------------------------------------------------
(* A task frame on the stack is that of a running task, and the only one of *)
(* that task: what a step must show of the stack it leaves behind.          *)
LEMMA KeepTaskFrames ==
  ASSUME TypeOK, TaskFramesRun,
         \A i \in DOMAIN stack' : \/ i \in DOMAIN stack /\ stack'[i] = stack[i]
                                  \/ stack'[i].op # "task",
         \A i \in DOMAIN stack' : stack'[i].op = "task" => status'[stack'[i].cmd] = "running"
  PROVE  TaskFramesRun'
  BY DEF TaskFramesRun

LEMMA DrainLaneFrames ==
  ASSUME NEW l \in Lane, NEW stk \in Seq(Frame), DrainLane(l, stk)
  PROVE  \A i \in DOMAIN stack' : \/ i \in DOMAIN stk /\ stack'[i] = stk[i]
                                  \/ stack'[i].op = "pump"
<1>1. PumpFrame(l) \in Frame /\ PumpFrame(l).op = "pump"
  BY DEF PumpFrame, Frame
<1>2. QED
  BY <1>1, PushFacts DEF DrainLane

(* The queues change only where the step says, and hold no promise twice.   *)
LEMMA PushedQueue ==
  ASSUME TypeOK, QueueIsExact, NEW c \in Cmd, status[c] = "idle",
         queue' = [queue EXCEPT ![LaneOf[c]] = Push(@, c)],
         status' = [status EXCEPT ![c] = "queued"]
  PROVE  QueueIsExact'
<1> DEFINE l == LaneOf[c]
           q == queue[l]
<1>1. l \in Lane /\ q \in Seq(Cmd)
  BY CmdAssumption DEF TypeOK
<1>2. queue'[l] = Append(q, c) /\ \A k \in Lane \ {l} : queue'[k] = queue[k]
  BY <1>1 DEF TypeOK, Push
<1>3. /\ \A i \in 1..Len(q) : Append(q, c)[i] = q[i]
      /\ Append(q, c)[Len(q) + 1] = c
      /\ DOMAIN Append(q, c) = 1..(Len(q) + 1)
      /\ DOMAIN q = 1..Len(q)
      /\ Len(q) \in Nat
      /\ \A i \in DOMAIN q : q[i] \in Cmd
  BY <1>1, PushFacts
<1>4. \A k \in Lane : \A i \in DOMAIN queue[k] : queue[k][i] # c /\ queue[k][i] \in Cmd
  BY DEF QueueIsExact, TypeOK
<1>5. \A d \in Cmd : status'[d] = IF d = c THEN "queued" ELSE status[d]
  BY DEF TypeOK
<1>6. ASSUME NEW k \in Lane, NEW i \in DOMAIN queue'[k]
      PROVE  /\ LaneOf[queue'[k][i]] = k
             /\ status'[queue'[k][i]] = "queued"
             /\ \A j \in DOMAIN queue'[k] : queue'[k][i] = queue'[k][j] => i = j
  <2>1. CASE k # l
    BY <1>2, <1>4, <1>5, <2>1 DEF QueueIsExact
  <2>2. CASE k = l
    <3>1. \A j \in 1..Len(q) : /\ LaneOf[q[j]] = l /\ status[q[j]] = "queued" /\ q[j] # c
                               /\ q[j] \in Cmd
                               /\ \A m \in 1..Len(q) : q[j] = q[m] => j = m
      BY <1>1, <1>3, <1>4 DEF QueueIsExact
    <3> DEFINE t == Append(q, c)
               n == Len(q)
    <3>2. queue'[k] = t /\ DOMAIN t = 1..(n + 1) /\ n \in Nat
      BY <1>2, <1>3, <2>2
    <3>3. \A j \in 1..(n + 1) : /\ t[j] = IF j = n + 1 THEN c ELSE q[j]
                                /\ j # n + 1 => j \in 1..n
      BY <1>3
    <3>4. \A j \in 1..(n + 1) : /\ LaneOf[t[j]] = l /\ status'[t[j]] = "queued"
      BY <1>5, <3>1, <3>3
    <3>5. \A j, m \in 1..(n + 1) : t[j] = t[m] => j = m
      BY <3>1, <3>3
    <3> HIDE DEF t, n
    <3>6. QED
      BY <2>2, <3>2, <3>4, <3>5
  <2>3. QED
    BY <2>1, <2>2
<1>7. ASSUME NEW d \in Cmd, status'[d] = "queued"
      PROVE  \E i \in DOMAIN queue'[LaneOf[d]] : queue'[LaneOf[d]][i] = d
  <2>1. LaneOf[d] \in Lane
    BY CmdAssumption
  <2>2. CASE d = c
    BY <1>2, <1>3, <2>2
  <2>3. CASE d # c
    <3>1. PICK i \in DOMAIN queue[LaneOf[d]] : queue[LaneOf[d]][i] = d
      BY <1>5, <1>7, <2>3 DEF QueueIsExact
    <3>2. QED
      BY <1>2, <1>3, <2>1, <3>1
  <2>4. QED
    BY <2>2, <2>3
<1>8. QED
  BY <1>6, <1>7 DEF QueueIsExact

(* A step that leaves the queues alone and neither queues nor unqueues.     *)
LEMMA SameQueue ==
  ASSUME TypeOK, QueueIsExact, queue' = queue,
         \A c \in Cmd : (status'[c] = "queued") <=> (status[c] = "queued")
  PROVE  QueueIsExact'
<1>1. \A k \in Lane : \A i \in DOMAIN queue[k] : queue[k][i] \in Cmd
  BY DEF TypeOK
<1>2. QED
  BY <1>1 DEF QueueIsExact

(* Clearing a lane unqueues exactly the commands waiting in it.             *)
LEMMA ClearedQueue ==
  ASSUME TypeOK, QueueIsExact, NEW l \in Lane,
         queue' = [queue EXCEPT ![l] = <<>>],
         status' = [c \in Cmd |-> IF c \in Removed(queue[l]) THEN "cleared" ELSE status[c]]
  PROVE  QueueIsExact'
<1>1. queue'[l] = <<>> /\ \A k \in Lane \ {l} : queue'[k] = queue[k]
  BY DEF TypeOK
<1>2. \A k \in Lane : \A i \in DOMAIN queue[k] : queue[k][i] \in Cmd
  BY DEF TypeOK
<1>3. \A k \in Lane \ {l} : \A i \in DOMAIN queue[k] : queue[k][i] \notin Removed(queue[l])
  BY <1>2 DEF QueueIsExact, Removed
<1>4. ASSUME NEW k \in Lane, NEW i \in DOMAIN queue'[k]
      PROVE  /\ LaneOf[queue'[k][i]] = k
             /\ status'[queue'[k][i]] = "queued"
             /\ \A j \in DOMAIN queue'[k] : queue'[k][i] = queue'[k][j] => i = j
  <2>1. k # l
    BY <1>1, <1>4
  <2>2. QED
    BY <1>1, <1>2, <1>3, <1>4, <2>1 DEF QueueIsExact
<1>5. ASSUME NEW d \in Cmd, status'[d] = "queued"
      PROVE  \E i \in DOMAIN queue'[LaneOf[d]] : queue'[LaneOf[d]][i] = d
  <2>1. status[d] = "queued" /\ d \notin Removed(queue[l])
    BY <1>5
  <2>2. LaneOf[d] \in Lane \ {l}
    BY <2>1, CmdAssumption DEF QueueIsExact, Removed
  <2>3. QED
    BY <1>1, <2>1, <2>2 DEF QueueIsExact
<1>6. QED
  BY <1>4, <1>5 DEF QueueIsExact

(* Shifting the head of a lane leaves the rest in place.                    *)
LEMMA ShiftedQueue ==
  ASSUME TypeOK, QueueIsExact, NEW l \in Lane, queue[l] # <<>>,
         queue' = [queue EXCEPT ![l] = Tail(@)],
         status' = [status EXCEPT ![Head(queue[l])] = "running"]
  PROVE  /\ QueueIsExact'
         /\ Head(queue[l]) \in Cmd
         /\ LaneOf[Head(queue[l])] = l
         /\ status[Head(queue[l])] = "queued"
<1> DEFINE q == queue[l]
           c == Head(q)
<1>1. q \in Seq(Cmd) /\ Len(q) \in Nat \ {0} /\ c = q[1] /\ 1 \in DOMAIN q
      /\ DOMAIN q = 1..Len(q)
  BY DEF TypeOK
<1>2. /\ c \in Cmd /\ Tail(q) \in Seq(Cmd) /\ Len(Tail(q)) = Len(q) - 1
      /\ \A i \in 1..Len(Tail(q)) : Tail(q)[i] = q[i + 1]
      /\ DOMAIN Tail(q) = 1..(Len(q) - 1)
  BY <1>1, HeadTailProperties, LenProperties
<1>3. LaneOf[c] = l /\ status[c] = "queued"
  BY <1>1 DEF QueueIsExact
<1>4. queue'[l] = Tail(q) /\ \A k \in Lane \ {l} : queue'[k] = queue[k]
  BY DEF TypeOK
<1>5. \A d \in Cmd : status'[d] = IF d = c THEN "running" ELSE status[d]
  BY <1>2 DEF TypeOK
<1>6. \A k \in Lane : \A i \in DOMAIN queue[k] : queue[k][i] \in Cmd
  BY DEF TypeOK
<1>7. ASSUME NEW k \in Lane, NEW i \in DOMAIN queue'[k]
      PROVE  /\ LaneOf[queue'[k][i]] = k
             /\ status'[queue'[k][i]] = "queued"
             /\ \A j \in DOMAIN queue'[k] : queue'[k][i] = queue'[k][j] => i = j
  <2>1. CASE k # l
    BY <1>3, <1>4, <1>5, <1>6, <2>1 DEF QueueIsExact
  <2>2. CASE k = l
    <3>1. \A j \in 1..Len(q) : /\ LaneOf[q[j]] = l /\ status[q[j]] = "queued"
                               /\ q[j] \in Cmd
                               /\ \A m \in 1..Len(q) : q[j] = q[m] => j = m
      BY <1>1, <1>6 DEF QueueIsExact
    <3>2. \A j \in 1..(Len(q) - 1) : Tail(q)[j] = q[j + 1] /\ q[j + 1] # c
      BY <1>1, <1>2, <3>1
    <3> DEFINE t == Tail(q)
               n == Len(q)
    <3>3. queue'[k] = t /\ DOMAIN t = 1..(n - 1) /\ n \in Nat \ {0}
      BY <1>1, <1>2, <1>4, <2>2
    <3>4. \A j \in 1..(n - 1) : j + 1 \in 1..n
      BY <1>1
    <3>5. \A j \in 1..(n - 1) : /\ LaneOf[t[j]] = l /\ status'[t[j]] = "queued"
      BY <1>5, <3>1, <3>2, <3>4
    <3>6. \A j, m \in 1..(n - 1) : t[j] = t[m] => j = m
      <4>1. SUFFICES ASSUME NEW j \in 1..(n - 1), NEW m \in 1..(n - 1), t[j] = t[m]
                     PROVE  j = m
        OBVIOUS
      <4>2. q[j + 1] = q[m + 1] /\ j + 1 \in 1..n /\ m + 1 \in 1..n
        BY <3>2, <3>4, <4>1
      <4>3. j + 1 = m + 1
        BY <3>1, <4>2
      <4>4. QED
        BY <3>3, <4>3
    <3> HIDE DEF t, n
    <3>7. QED
      BY <2>2, <3>3, <3>5, <3>6
  <2>3. QED
    BY <2>1, <2>2
<1>8. ASSUME NEW d \in Cmd, status'[d] = "queued"
      PROVE  \E i \in DOMAIN queue'[LaneOf[d]] : queue'[LaneOf[d]][i] = d
  <2>1. LaneOf[d] \in Lane /\ d # c /\ status[d] = "queued"
    BY <1>5, <1>8, CmdAssumption
  <2>2. PICK i \in DOMAIN queue[LaneOf[d]] : queue[LaneOf[d]][i] = d
    BY <2>1 DEF QueueIsExact
  <2>3. CASE LaneOf[d] # l
    BY <1>4, <2>1, <2>2, <2>3
  <2>4. CASE LaneOf[d] = l
    <3>1. i \in 2..Len(q)
      BY <1>1, <2>1, <2>2, <2>4
    <3>2. i - 1 \in 1..(Len(q) - 1) /\ Tail(q)[i - 1] = q[i]
      BY <1>1, <1>2, <3>1
    <3>3. QED
      BY <1>2, <1>4, <2>2, <2>4, <3>2
  <2>5. QED
    BY <2>3, <2>4
<1>9. QED
  BY <1>2, <1>3, <1>7, <1>8 DEF QueueIsExact

(* Slots in use and tasks running stay the same sets when a step starts and *)
(* ends no task.                                                            *)
LEMMA SameTasks ==
  ASSUME ActiveIsExact, UNCHANGED <<active, generation, taskGeneration>>,
         \A c \in Cmd : (status'[c] = "running") <=> (status[c] = "running")
  PROVE  ActiveIsExact'
  BY DEF ActiveIsExact, CurrentTasks

LEMMA SameFrames ==
  ASSUME TypeOK, TaskFramesRun,
         \A i \in DOMAIN stack' : \/ i \in DOMAIN stack /\ stack'[i] = stack[i]
                                  \/ stack'[i].op # "task",
         \A c \in Cmd : status[c] = "running" => status'[c] = "running"
  PROVE  TaskFramesRun'
<1>1. \A i \in DOMAIN stack : stack[i] \in Frame
  BY DEF TypeOK
<1>2. \A i \in DOMAIN stack' : stack'[i].op = "task" => status'[stack'[i].cmd] = "running"
  BY <1>1, FrameKinds DEF TaskFramesRun
<1>3. QED
  BY <1>2, KeepTaskFrames

(* A finished task gives back the slot it holds and leaves the others be.   *)
LEMMA FinishTaskBook ==
  ASSUME TypeOK, BookInv, NEW c \in Cmd, NEW outcome \in Ran, NEW stk \in Seq(Frame),
         status[c] = "running", FinishTask(c, outcome, stk),
         \A i \in DOMAIN stk : i \in DOMAIN stack /\ stk[i] = stack[i],
         \A i \in DOMAIN stk : stk[i] # TaskFrame(c)
  PROVE  BookInv'
<1> DEFINE l == LaneOf[c]
<1>1. l \in Lane /\ outcome # "running" /\ outcome # "queued"
  BY CmdAssumption DEF Ran
<1>2. status' = [status EXCEPT ![c] = outcome]
  BY DEF FinishTask, CompleteTask, Current
<1>3. \A d \in Cmd : status'[d] = IF d = c THEN outcome ELSE status[d]
  BY <1>2 DEF TypeOK
<1>4. QueueIsExact'
  BY <1>1, <1>3, SameQueue DEF FinishTask, CompleteTask, Current, BookInv
<1>5. \A k \in Lane : CurrentTasks(k)' = CurrentTasks(k) \ {c}
  BY <1>1, <1>3 DEF FinishTask, CompleteTask, Current, CurrentTasks
<1>6. ActiveIsExact'
  <2>1. CASE taskGeneration[c] = generation[l]
    <3>1. active' = [active EXCEPT ![l] = @ \ {c}]
      BY <2>1 DEF FinishTask, CompleteTask, Current
    <3>2. \A k \in Lane \ {l} : CurrentTasks(k) \ {c} = CurrentTasks(k)
      BY DEF CurrentTasks
    <3>3. QED
      BY <1>1, <1>5, <3>1, <3>2 DEF ActiveIsExact, BookInv, TypeOK
  <2>2. CASE taskGeneration[c] # generation[l]
    <3>1. active' = active
      BY <2>2 DEF FinishTask, CompleteTask, Current
    <3>2. \A k \in Lane : CurrentTasks(k) \ {c} = CurrentTasks(k)
      BY <2>2 DEF CurrentTasks
    <3>3. QED
      BY <1>5, <3>1, <3>2 DEF ActiveIsExact, BookInv
  <2>3. QED
    BY <2>1, <2>2
<1>7. \A i \in DOMAIN stack' : \/ i \in DOMAIN stk /\ stack'[i] = stk[i]
                               \/ stack'[i].op = "pump"
  <2>1. PumpFrame(l) \in Frame /\ PumpFrame(l).op = "pump"
    BY <1>1 DEF PumpFrame, Frame
  <2>2. QED
    BY <2>1, PushFacts DEF FinishTask, CompleteTask, Current
<1>8. TaskFramesRun'
  <2>1. \A i \in DOMAIN stk : stk[i] \in Frame
    OBVIOUS
  <2>2. \A i \in DOMAIN stack' : stack'[i].op = "task" => status'[stack'[i].cmd] = "running"
    BY <1>3, <1>7, <2>1, FrameKinds DEF TaskFramesRun, BookInv
  <2>3. QED
    BY <1>7, <2>2, KeepTaskFrames DEF BookInv
<1>9. QED
  BY <1>4, <1>6, <1>8 DEF BookInv

LEMMA InitBook == Init => BookInv /\ WaitInv
<1>1. SUFFICES ASSUME Init PROVE BookInv /\ WaitInv
  OBVIOUS
<1>2. ActiveIsExact
  BY <1>1 DEF Init, ActiveIsExact, CurrentTasks
<1>3. QueueIsExact
  BY <1>1, CmdAssumption DEF Init, QueueIsExact
<1>4. TaskFramesRun /\ SnapshotStarted /\ DrainedMeansFinished
  BY <1>1 DEF Init, TaskFramesRun, SnapshotStarted, DrainedMeansFinished
<1>5. GenerationsBounded
  BY <1>1, CmdAssumption DEF Init, GenerationsBounded
<1>6. QED
  BY <1>2, <1>3, <1>4, <1>5 DEF BookInv, WaitInv

LEMMA StepBook ==
  ASSUME TypeOK, BookInv, GenerationsBounded, [Next]_vars
  PROVE  BookInv'
<1>s. stack \in Seq(Frame) /\ \A i \in DOMAIN stack : stack[i] \in Frame
  BY DEF TypeOK
<1>1. ASSUME NEW c \in Cmd, EnqueueCommandInLane(c) PROVE BookInv'
  <2>1. LaneOf[c] \in Lane /\ status[c] = "idle"
    BY <1>1, CmdAssumption DEF EnqueueCommandInLane, MayIssue
  <2>2. \A d \in Cmd : status'[d] = IF d = c THEN "queued" ELSE status[d]
    BY <1>1 DEF EnqueueCommandInLane, TypeOK
  <2>3. QueueIsExact'
    BY <1>1, <2>1, PushedQueue DEF EnqueueCommandInLane, BookInv
  <2>4. ActiveIsExact'
    BY <1>1, <2>1, <2>2, SameTasks DEF EnqueueCommandInLane, BookInv
  <2>5. TaskFramesRun'
    BY <1>1, <1>s, <2>1, <2>2, DrainLaneFrames, SameFrames DEF EnqueueCommandInLane, BookInv
  <2>6. QED
    BY <2>3, <2>4, <2>5 DEF BookInv
<1>2. ASSUME NEW c \in Cmd, RefuseCommand(c) PROVE BookInv'
  <2>1. status[c] = "idle"
    BY <1>2 DEF RefuseCommand, MayIssue
  <2>2. \A d \in Cmd : status'[d] = IF d = c THEN "refused" ELSE status[d]
    BY <1>2 DEF RefuseCommand, TypeOK
  <2>3. QED
    BY <1>2, <2>1, <2>2, SameQueue, SameTasks, SameFrames
    DEF RefuseCommand, BookInv, laneVars
<1>3. ASSUME NEW c \in Cmd, TaskSettles(c) PROVE BookInv'
  <2>1. DOMAIN stack = {} /\ status[c] = "running"
    BY <1>3 DEF TaskSettles
  <2>2. PICK outcome \in Ran : FinishTask(c, outcome, stack)
    BY <1>3 DEF TaskSettles
  <2>3. QED
    BY <1>s, <2>1, <2>2, FinishTaskBook
<1>4. ASSUME NEW l \in Lane, ClearCommandLane(l) PROVE BookInv'
  <2>1. \A d \in Removed(queue[l]) : status[d] = "queued"
    BY DEF BookInv, QueueIsExact, Removed
  <2>2. \A d \in Cmd : status'[d] = IF d \in Removed(queue[l]) THEN "cleared" ELSE status[d]
    BY <1>4 DEF ClearCommandLane, Left, Removed
  <2>3. QueueIsExact'
    BY <1>4, ClearedQueue DEF ClearCommandLane, Left, Removed, BookInv
  <2>4. QED
    BY <1>4, <2>1, <2>2, <2>3, SameTasks, SameFrames DEF ClearCommandLane, Left, Removed, BookInv
<1>5. ASSUME NEW l \in Lane, NEW n \in 0..MaxCap, SetCommandLaneConcurrency(l, n)
      PROVE BookInv'
  <2>1. TaskFramesRun'
    BY <1>5, <1>s, DrainLaneFrames, SameFrames DEF SetCommandLaneConcurrency, BookInv
  <2>2. QED
    BY <1>5, <2>1, SameQueue, SameTasks DEF SetCommandLaneConcurrency, BookInv
<1>6. CASE MarkGatewayDraining
  BY <1>6, SameQueue, SameTasks, SameFrames DEF MarkGatewayDraining, BookInv, laneVars
<1>7. CASE ResetAllLanes
  <2>1. \A l \in Lane : CurrentTasks(l)' = {}
    BY <1>7, CmdAssumption DEF ResetAllLanes, LanesToDrain, CurrentTasks, GenerationsBounded, TypeOK
  <2>2. ActiveIsExact'
    BY <1>7, <2>1 DEF ResetAllLanes, LanesToDrain, ActiveIsExact
  <2>3. ResetFrame({l \in Lane : queue[l] # <<>>}) \in Frame
        /\ ResetFrame({l \in Lane : queue[l] # <<>>}).op = "reset"
    BY DEF ResetFrame, Frame
  <2>4. \A i \in DOMAIN stack' : \/ i \in DOMAIN stack /\ stack'[i] = stack[i]
                                 \/ stack'[i].op # "task"
    BY <1>7, <1>s, <2>3, PushFacts DEF ResetAllLanes, LanesToDrain
  <2>5. QED
    BY <1>7, <2>2, <2>4, SameQueue, SameFrames DEF ResetAllLanes, LanesToDrain, BookInv
<1>8. CASE ResetDrainsLane
  <2>1. stack # <<>> /\ Top.op = "reset"
    BY <1>8 DEF ResetDrainsLane, Running
  <2>2. Top \in Frame /\ Pop \in Seq(Frame)
    BY <2>1, ReturnFacts
  <2>3. Top.lanes \in SUBSET Lane
    BY <2>1, <2>2, FrameKinds
  <2>4. PICK l \in Top.lanes :
          DrainLane(l, IF Top.lanes = {l} THEN Pop
                       ELSE Append(Pop, ResetFrame(Top.lanes \ {l})))
    BY <1>8 DEF ResetDrainsLane
  <2> DEFINE f == ResetFrame(Top.lanes \ {l})
             stk == IF Top.lanes = {l} THEN Pop ELSE Append(Pop, f)
  <2>5. f \in Frame /\ f.op = "reset"
    BY <2>3 DEF ResetFrame, Frame
  <2>6. stk \in Seq(Frame)
    BY <2>2, <2>5, PushFacts
  <2>7. \A i \in DOMAIN stk : \/ i \in DOMAIN Pop /\ stk[i] = Pop[i]
                              \/ stk[i].op # "task"
    BY <2>2, <2>5, PushFacts
  <2>8. \A i \in DOMAIN stack' : \/ i \in DOMAIN stk /\ stack'[i] = stk[i]
                                 \/ stack'[i].op = "pump"
    BY <2>3, <2>4, <2>6, DrainLaneFrames
  <2>9. \A i \in DOMAIN Pop : i \in DOMAIN stack /\ Pop[i] = stack[i]
    BY <2>1, ReturnFacts
  <2> HIDE DEF f, stk
  <2>10. TaskFramesRun'
    BY <1>8, <2>7, <2>8, <2>9, SameFrames DEF ResetDrainsLane, BookInv
  <2>11. QED
    BY <1>8, <2>10, SameQueue, SameTasks DEF ResetDrainsLane, BookInv
<1>9. CASE PumpStartsTask
  <2>1. stack # <<>> /\ Top.op = "pump"
    BY <1>9 DEF PumpStartsTask, Running
  <2>2. PICK l \in Lane : l = Top.lane
    BY <2>1, ReturnFacts, FrameKinds
  <2>3. queue[l] # <<>>
    BY <1>9, <2>2 DEF PumpStartsTask, Runnable
  <2>4. PICK c \in Cmd : c = Head(queue[l])
    BY <2>2, <2>3, HeadTailProperties DEF TypeOK
  <2>5. /\ queue' = [queue EXCEPT ![l] = Tail(@)]
        /\ active' = [active EXCEPT ![l] = @ \cup {c}]
        /\ status' = [status EXCEPT ![c] = "running"]
        /\ taskGeneration' = [taskGeneration EXCEPT ![c] = generation[l]]
        /\ stack' = Append(stack, TaskFrame(c))
        /\ generation' = generation
    BY <1>9, <2>2, <2>4 DEF PumpStartsTask
  <2>6. QueueIsExact' /\ LaneOf[c] = l /\ status[c] = "queued"
    BY <2>3, <2>4, <2>5, ShiftedQueue DEF BookInv
  <2>7. \A d \in Cmd : /\ status'[d] = IF d = c THEN "running" ELSE status[d]
                       /\ taskGeneration'[d] = IF d = c THEN generation[l] ELSE taskGeneration[d]
    BY <2>5 DEF TypeOK
  <2>8. \A k \in Lane : CurrentTasks(k)' = IF k = l THEN CurrentTasks(k) \cup {c}
                                                   ELSE CurrentTasks(k)
    BY <2>5, <2>6, <2>7 DEF CurrentTasks
  <2>9. ActiveIsExact'
    BY <2>5, <2>8 DEF ActiveIsExact, BookInv, TypeOK
  <2>10. TaskFramesRun'
    <3>1. TaskFrame(c) \in Frame /\ TaskFrame(c).op = "task" /\ TaskFrame(c).cmd = c
      BY DEF TaskFrame, Frame
    <3>2. /\ DOMAIN stack' = 1..(Len(stack) + 1) /\ DOMAIN stack = 1..Len(stack)
          /\ Len(stack) \in Nat
          /\ \A i \in DOMAIN stack : stack'[i] = stack[i]
          /\ stack'[Len(stack) + 1] = TaskFrame(c)
      BY <1>s, <2>5, <3>1, PushFacts
    <3>3. \A i \in DOMAIN stack : stack[i].op = "task" =>
             stack[i].cmd \in Cmd /\ stack[i].cmd # c
      BY <1>s, <2>6, FrameKinds DEF BookInv, TaskFramesRun
    <3>4. \A i \in DOMAIN stack : stack[i] # TaskFrame(c)
      BY <3>1, <3>3
    <3>5. \A i \in DOMAIN stack' : i \in DOMAIN stack \/ i = Len(stack) + 1
      BY <3>2
    <3>6. ASSUME NEW i \in DOMAIN stack', stack'[i].op = "task"
          PROVE  status'[stack'[i].cmd] = "running"
      BY <2>7, <3>1, <3>2, <3>3, <3>5, <3>6 DEF BookInv, TaskFramesRun
    <3>7. ASSUME NEW i \in DOMAIN stack', stack'[i].op = "task",
                 NEW j \in DOMAIN stack', stack'[j] = stack'[i]
          PROVE  i = j
      BY <3>2, <3>4, <3>5, <3>7 DEF BookInv, TaskFramesRun
    <3>8. QED
      BY <3>6, <3>7 DEF TaskFramesRun
  <2>11. QED
    BY <2>6, <2>9, <2>10 DEF BookInv
<1>10. CASE PumpReturns
  <2>1. stack # <<>>
    BY <1>10 DEF PumpReturns, ClearsDraining, Running
  <2>2. TaskFramesRun'
    BY <1>10, <2>1, ReturnFacts, SameFrames DEF PumpReturns, ClearsDraining, BookInv
  <2>3. QED
    BY <1>10, <2>2, SameQueue, SameTasks DEF PumpReturns, ClearsDraining, BookInv
<1>11. CASE TaskSuspends
  <2>1. stack # <<>>
    BY <1>11 DEF TaskSuspends, Running
  <2>2. TaskFramesRun'
    BY <1>11, <2>1, ReturnFacts, SameFrames DEF TaskSuspends, BookInv
  <2>3. QED
    BY <1>11, <2>2, SameQueue, SameTasks DEF TaskSuspends, BookInv, laneVars
<1>12. CASE TaskThrows
  <2>1. stack # <<>> /\ Top.op = "task"
    BY <1>12 DEF TaskThrows, Running
  <2>2. PICK c \in Cmd : c = Top.cmd /\ Top = TaskFrame(c)
    BY <2>1, ReturnFacts, FrameKinds
  <2> DEFINE n == Len(stack)
  <2>a. n \in DOMAIN stack /\ stack[n] = Top
    BY <2>1, ReturnFacts DEF Top
  <2> HIDE DEF n
  <2>3. status[c] = "running"
    BY <2>1, <2>2, <2>a DEF BookInv, TaskFramesRun
  <2>4. \A i \in DOMAIN Pop : i \in DOMAIN stack /\ Pop[i] = stack[i] /\ i # Len(stack)
    BY <2>1, ReturnFacts
  <2>b. \A i \in DOMAIN stack : stack[i] = stack[n] => n = i
    BY <2>1, <2>a DEF BookInv, TaskFramesRun
  <2>5. \A i \in DOMAIN Pop : Pop[i] # TaskFrame(c)
    BY <2>2, <2>4, <2>a, <2>b DEF n
  <2>6. Pop \in Seq(Frame) /\ "rejected" \in Ran
    BY <2>1, ReturnFacts DEF Ran
  <2>7. QED
    BY <1>12, <2>2, <2>3, <2>4, <2>5, <2>6, FinishTaskBook DEF TaskThrows
<1>13. CASE WaitForActiveTasks
  BY <1>13, SameQueue, SameTasks, SameFrames DEF WaitForActiveTasks, BookInv, laneVars
<1>14. CASE WaitPolls
  BY <1>14, SameQueue, SameTasks, SameFrames DEF WaitPolls, AllDone, BookInv, laneVars
<1>15. CASE UNCHANGED vars
  BY <1>15, SameQueue, SameTasks, SameFrames DEF vars, BookInv
<1>16. QED
  BY <1>1, <1>2, <1>3, <1>4, <1>5, <1>6, <1>7, <1>8, <1>9, <1>10, <1>11, <1>12,
     <1>13, <1>14, <1>15 DEF Next, Engine
-----------------------------------------------------------------------------
(* The life of a command: which changes of status one step can make.        *)
LEMMA StatusSteps ==
  ASSUME TypeOK, BookInv, [Next]_vars, NEW c \in Cmd
  PROVE  \/ status'[c] = status[c]
         \/ status[c] = "idle" /\ status'[c] \in {"queued", "refused"}
         \/ status[c] = "queued" /\ status'[c] = "cleared"
         \/ status[c] = "queued" /\ status'[c] = "running" /\ PumpStartsTask
         \/ status[c] = "running" /\ status'[c] \in Ran
<1>1. ASSUME NEW d \in Cmd, EnqueueCommandInLane(d) \/ RefuseCommand(d)
      PROVE  status'[c] = status[c] \/ (status[c] = "idle" /\ status'[c] \in {"queued", "refused"})
  BY <1>1 DEF EnqueueCommandInLane, RefuseCommand, MayIssue, TypeOK
<1>2. ASSUME NEW d \in Cmd, TaskSettles(d)
      PROVE  status'[c] = status[c] \/ (status[c] = "running" /\ status'[c] \in Ran)
  BY <1>2 DEF TaskSettles, FinishTask, CompleteTask, Current, TypeOK
<1>3. ASSUME NEW l \in Lane, ClearCommandLane(l)
      PROVE  status'[c] = status[c] \/ (status[c] = "queued" /\ status'[c] = "cleared")
  BY <1>3 DEF ClearCommandLane, Left, Removed, BookInv, QueueIsExact, Removed
<1>4. ASSUME NEW l \in Lane, NEW n \in 0..MaxCap, SetCommandLaneConcurrency(l, n)
      PROVE  status' = status
  BY <1>4 DEF SetCommandLaneConcurrency
<1>5. CASE PumpStartsTask
  <2>1. PICK l \in Lane : l = Top.lane /\ queue[l] # <<>>
    BY <1>5, ReturnFacts, FrameKinds DEF PumpStartsTask, Running, Runnable
  <2>2. Head(queue[l]) = queue[l][1] /\ 1 \in DOMAIN queue[l]
    BY <2>1 DEF TypeOK
  <2>3. status[Head(queue[l])] = "queued"
    BY <2>2 DEF BookInv, QueueIsExact
  <2>4. status' = [status EXCEPT ![Head(queue[l])] = "running"]
    BY <1>5, <2>1 DEF PumpStartsTask
  <2>5. QED
    BY <1>5, <2>3, <2>4 DEF TypeOK
<1>6. CASE TaskThrows
  <2>1. stack # <<>> /\ Top.op = "task"
    BY <1>6 DEF TaskThrows, Running
  <2>2. PICK n \in DOMAIN stack : stack[n] = Top
    BY <2>1, ReturnFacts DEF Top
  <2>3. status[Top.cmd] = "running"
    BY <2>1, <2>2 DEF BookInv, TaskFramesRun
  <2>4. status' = [status EXCEPT ![Top.cmd] = "rejected"]
    BY <1>6 DEF TaskThrows, FinishTask, CompleteTask, Current
  <2>5. QED
    BY <2>3, <2>4 DEF TypeOK, Ran
<1>7. CASE \/ MarkGatewayDraining \/ ResetAllLanes \/ ResetDrainsLane \/ PumpReturns
           \/ TaskSuspends \/ WaitForActiveTasks \/ WaitPolls \/ UNCHANGED vars
  BY <1>7 DEF MarkGatewayDraining, ResetAllLanes, LanesToDrain, ResetDrainsLane, PumpReturns, ClearsDraining,
              TaskSuspends, WaitForActiveTasks, WaitPolls, AllDone, vars
<1>8. QED
  BY <1>1, <1>2, <1>3, <1>4, <1>5, <1>6, <1>7 DEF Next, Engine

(* Generations only grow, and a command takes its lane's when it starts.    *)
LEMMA GenerationSteps ==
  ASSUME TypeOK, BookInv, [Next]_vars
  PROVE  /\ \A l \in Lane : generation'[l] \in {generation[l], generation[l] + 1}
         /\ \A c \in Cmd : \/ taskGeneration'[c] = taskGeneration[c]
                           \/ /\ taskGeneration'[c] = generation[LaneOf[c]]
                              /\ generation' = generation
                              /\ status[c] = "queued"
<1>1. CASE PumpStartsTask
  <2>1. PICK l \in Lane : l = Top.lane /\ queue[l] # <<>>
    BY <1>1, ReturnFacts, FrameKinds DEF PumpStartsTask, Running, Runnable
  <2>2. Head(queue[l]) = queue[l][1] /\ 1 \in DOMAIN queue[l]
    BY <2>1 DEF TypeOK
  <2>3. status[Head(queue[l])] = "queued" /\ LaneOf[Head(queue[l])] = l
    BY <2>2 DEF BookInv, QueueIsExact
  <2>4. /\ taskGeneration' = [taskGeneration EXCEPT ![Head(queue[l])] = generation[l]]
        /\ generation' = generation
    BY <1>1, <2>1 DEF PumpStartsTask
  <2>5. QED
    BY <2>3, <2>4 DEF TypeOK
<1>2. CASE ResetAllLanes
  BY <1>2 DEF ResetAllLanes, LanesToDrain
<1>3. ASSUME ~PumpStartsTask, ~ResetAllLanes
      PROVE  UNCHANGED <<generation, taskGeneration>>
  BY <1>3 DEF Next, Engine, EnqueueCommandInLane, RefuseCommand, TaskSettles, FinishTask, CompleteTask, Current,
     ClearCommandLane, Left, Removed, SetCommandLaneConcurrency, MarkGatewayDraining, ResetDrainsLane,
     PumpReturns, ClearsDraining, TaskSuspends, TaskThrows, WaitForActiveTasks, WaitPolls, AllDone, vars, laneVars
<1>4. QED
  BY <1>1, <1>2, <1>3

LEMMA StepWait ==
  ASSUME TypeOK, BookInv, WaitInv, [Next]_vars
  PROVE  WaitInv'
<1>1. GenerationsBounded'
  <2>1. SUFFICES ASSUME NEW c \in Cmd
                 PROVE  taskGeneration'[c] <= generation'[LaneOf[c]]
    BY DEF GenerationsBounded
  <2> DEFINE l == LaneOf[c]
  <2>2. l \in Lane /\ generation[l] \in Nat /\ taskGeneration[c] \in Nat
    BY CmdAssumption DEF TypeOK
  <2>3. taskGeneration[c] <= generation[l]
    BY DEF WaitInv, GenerationsBounded
  <2>4. /\ generation'[l] \in {generation[l], generation[l] + 1}
        /\ taskGeneration'[c] \in {taskGeneration[c], generation[l]}
    BY <2>2, GenerationSteps
  <2>5. QED
    BY <2>2, <2>3, <2>4
<1>2. ASSUME NEW c \in Cmd, status[c] \in {"running"} \cup Ran
      PROVE  /\ status'[c] \in {"running"} \cup Ran
             /\ status'[c] = "running" => status[c] = "running"
             /\ taskGeneration'[c] = taskGeneration[c]
  BY <1>2, StatusSteps, GenerationSteps DEF Ran
<1>3. \A c \in Cmd : taskGeneration[c] # generation[LaneOf[c]] /\ taskGeneration'[c] = taskGeneration[c]
                     => taskGeneration'[c] # generation'[LaneOf[c]]
  BY GenerationSteps, CmdAssumption DEF WaitInv, GenerationsBounded, TypeOK
<1>4. \A c \in AllActive : c \in Cmd /\ status[c] = "running"
  BY DEF AllActive, BookInv, ActiveIsExact, CurrentTasks
<1>5. CASE WaitForActiveTasks
  <2>1. snapshot' = AllActive /\ status' = status /\ waiter' = "drained" => AllActive = {}
    BY <1>5 DEF WaitForActiveTasks
  <2>2. SnapshotStarted'
    BY <1>4, <1>5 DEF WaitForActiveTasks, SnapshotStarted
  <2>3. DrainedMeansFinished'
    BY <1>5 DEF WaitForActiveTasks, DrainedMeansFinished
  <2>4. QED
    BY <1>1, <2>2, <2>3 DEF WaitInv
<1>6. CASE WaitPolls
  <2>1. UNCHANGED <<snapshot, status, taskGeneration, generation>>
        /\ (waiter' = "drained" => snapshot \cap AllActive = {})
    BY <1>6 DEF WaitPolls, AllDone, laneVars
  <2>2. ASSUME waiter' = "drained", NEW c \in snapshot, status[c] = "running"
        PROVE  taskGeneration[c] # generation[LaneOf[c]]
    <3>1. c \in Cmd /\ LaneOf[c] \in Lane
      BY CmdAssumption DEF TypeOK
    <3>2. c \notin active[LaneOf[c]]
      BY <2>1, <2>2, <3>1 DEF AllActive
    <3>3. QED
      BY <2>2, <3>1, <3>2 DEF BookInv, ActiveIsExact, CurrentTasks
  <2>3. QED
    BY <1>1, <2>1, <2>2 DEF WaitInv, SnapshotStarted, DrainedMeansFinished
<1>7. CASE ~WaitForActiveTasks /\ ~WaitPolls
  <2>1. UNCHANGED waitVars
    BY <1>7 DEF Next, Engine, EnqueueCommandInLane, RefuseCommand, TaskSettles, FinishTask, CompleteTask, Current,
       ClearCommandLane, Left, Removed, SetCommandLaneConcurrency, MarkGatewayDraining, ResetAllLanes, LanesToDrain,
       ResetDrainsLane, PumpStartsTask, PumpReturns, ClearsDraining, TaskSuspends, TaskThrows, vars, waitVars
  <2>2. snapshot' = snapshot /\ waiter' = waiter /\ snapshot \subseteq Cmd
    BY <2>1 DEF waitVars, TypeOK
  <2>3. SnapshotStarted'
    BY <1>2, <2>2 DEF WaitInv, SnapshotStarted
  <2>4. DrainedMeansFinished'
    BY <1>2, <1>3, <2>2 DEF WaitInv, SnapshotStarted, DrainedMeansFinished
  <2>5. QED
    BY <1>1, <2>3, <2>4 DEF WaitInv
<1>8. QED
  BY <1>5, <1>6, <1>7
-----------------------------------------------------------------------------
(* The inductive invariant: types, ownership of wake-ups, the books kept on *)
(* slots, queues and task frames, and the waiter's snapshot.                *)
THEOREM InductiveInvariant == Spec => []IInv
<1>1. Init => IInv
  BY InitType, InitOwned, InitBook DEF IInv
<1>2. IInv /\ [Next]_vars => IInv'
  BY StepType, StepOwned, StepBook, StepWait DEF IInv, WaitInv
<1>3. QED
  BY <1>1, <1>2, PTL DEF Spec

(* The slots in use are exactly the running tasks of the lane's current     *)
(* generation; a promise is queued exactly once until it starts or settles. *)
THEOREM BooksAreExact == Spec => [](ActiveIsExact /\ QueueIsExact)
<1>1. IInv => ActiveIsExact /\ QueueIsExact
  BY DEF IInv, BookInv
<1>2. QED
  BY <1>1, InductiveInvariant, PTL

(* waitForActiveTasks() reports "drained" only when it is true.             *)
THEOREM DrainedIsTrue == Spec => []DrainedMeansFinished
<1>1. IInv => DrainedMeansFinished
  BY DEF IInv, WaitInv
<1>2. QED
  BY <1>1, InductiveInvariant, PTL

(* A promise settles once, and a cleared or refused command never runs.     *)
THEOREM SettlesOnce == Spec => SettledForever
<1>1. IInv /\ [Next]_vars =>
        [\A c \in Cmd : status[c] \in Settled => status'[c] = status[c]]_vars
  BY StatusSteps DEF IInv, Settled, Ran, NeverRan
<1>2. QED
  BY <1>1, InductiveInvariant, PTL DEF Spec, SettledForever

(* No start takes the tasks really executing since the last reset above the *)
(* cap, however pump() loops nest.                                          *)
THEOREM CapHolds == Spec => StartsWithinCap
<1>1. ASSUME IInv, [Next]_vars, NEW c \in Cmd, status[c] # "running", status'[c] = "running"
      PROVE  Cardinality(CurrentTasks(LaneOf[c])') <= maxConcurrent[LaneOf[c]]
  <2>1. TypeOK /\ BookInv /\ ActiveIsExact' /\ PumpStartsTask
    BY <1>1, StatusSteps, StepBook DEF IInv, BookInv, WaitInv, Ran
  <2>2. PICK l \in Lane : l = Top.lane
    BY <2>1, ReturnFacts, FrameKinds DEF PumpStartsTask, Running
  <2>3. /\ Runnable(l)
        /\ active' = [active EXCEPT ![l] = @ \cup {Head(queue[l])}]
        /\ status' = [status EXCEPT ![Head(queue[l])] = "running"]
    BY <2>1, <2>2 DEF PumpStartsTask
  <2>4. c = Head(queue[l])
    BY <1>1, <2>1, <2>3 DEF TypeOK
  <2>5. LaneOf[c] = l
    <3>1. Head(queue[l]) = queue[l][1] /\ 1 \in DOMAIN queue[l]
      BY <2>1, <2>3 DEF TypeOK, Runnable
    <3>2. QED
      BY <2>1, <2>4, <3>1 DEF BookInv, QueueIsExact
  <2>6. CurrentTasks(l)' = active[l] \cup {c}
    BY <2>1, <2>3, <2>4 DEF ActiveIsExact, TypeOK
  <2>7. IsFiniteSet(active[l])
    BY <2>1, CmdAssumption, FS_Subset DEF TypeOK
  <2>7a. Cardinality(active[l] \cup {c}) =
           IF c \in active[l] THEN Cardinality(active[l]) ELSE Cardinality(active[l]) + 1
    BY <2>7, FS_AddElement
  <2>7b. Cardinality(active[l]) \in Nat
    BY <2>7, FS_CardinalityType
  <2>8. Cardinality(active[l] \cup {c}) <= Cardinality(active[l]) + 1
    BY <2>7a, <2>7b
  <2>9. Cardinality(active[l]) < maxConcurrent[l] /\ maxConcurrent[l] \in Nat
    BY <2>1, <2>3 DEF Runnable, HasRoom, TypeOK
  <2>10. Cardinality(active[l] \cup {c}) \in Nat
    BY <2>7, FS_AddElement, FS_CardinalityType
  <2>11. Cardinality(active[l] \cup {c}) <= maxConcurrent[l]
    BY <2>7b, <2>8, <2>9, <2>10
  <2>12. QED
    BY <2>5, <2>6, <2>11
<1>2. IInv /\ [Next]_vars =>
        [\A c \in Cmd : status[c] # "running" /\ status'[c] = "running" =>
           Cardinality(CurrentTasks(LaneOf[c])') <= maxConcurrent[LaneOf[c]]]_vars
  BY <1>1
<1>3. QED
  BY <1>2, InductiveInvariant, PTL DEF Spec, StartsWithinCap
-----------------------------------------------------------------------------
(* Every step of the queue is a step of the abstract FIFO executor, or      *)
(* changes nothing its callers can see.                                     *)
LEMMA FinishRefines ==
  ASSUME TypeOK, BookInv, NEW c \in Cmd, NEW outcome \in Ran, NEW stk,
         status[c] = "running", FinishTask(c, outcome, stk)
  PROVE  Scheduler!Finish(c)
<1> DEFINE l == LaneOf[c]
<1>1. l \in Lane
  BY CmdAssumption
<1>2. active' = [active EXCEPT ![l] = @ \ {c}]
  <2>1. CASE taskGeneration[c] = generation[l]
    BY <2>1 DEF FinishTask, CompleteTask, Current
  <2>2. CASE taskGeneration[c] # generation[l]
    <3>1. c \notin active[l]
      BY <1>1, <2>2 DEF BookInv, ActiveIsExact, CurrentTasks
    <3>2. active[l] \ {c} = active[l] /\ active' = active
      BY <2>2, <3>1 DEF FinishTask, CompleteTask, Current
    <3>3. QED
      BY <1>1, <3>2 DEF TypeOK
  <2>3. QED
    BY <2>1, <2>2
<1>3. outcome \in {"resolved", "rejected"} /\ status' = [status EXCEPT ![c] = outcome]
  BY DEF FinishTask, CompleteTask, Current, Ran
<1>4. UNCHANGED <<queue, maxConcurrent, ~gatewayDraining>>
  BY DEF FinishTask, CompleteTask, Current
<1>5. QED
  BY <1>2, <1>3, <1>4 DEF Scheduler!Finish

LEMMA StepRefines ==
  ASSUME TypeOK, BookInv, [Next]_vars
  PROVE  [Scheduler!Next]_(Scheduler!avars)
<1>1. ASSUME NEW c \in Cmd, EnqueueCommandInLane(c) PROVE Scheduler!Submit(c)
  BY <1>1 DEF EnqueueCommandInLane, MayIssue, Push, Scheduler!Submit
<1>2. ASSUME NEW c \in Cmd, RefuseCommand(c) PROVE Scheduler!Refuse(c)
  BY <1>2 DEF RefuseCommand, MayIssue, laneVars, Scheduler!Refuse
<1>3. ASSUME NEW c \in Cmd, TaskSettles(c) PROVE Scheduler!Finish(c)
  BY <1>3, FinishRefines DEF TaskSettles
<1>4. ASSUME NEW l \in Lane, ClearCommandLane(l) PROVE Scheduler!Clear(l)
  <2>1. \A c : c \in Removed(queue[l]) <=> \E i \in DOMAIN queue[l] : queue[l][i] = c
    BY DEF Removed
  <2>2. QED
    BY <1>4, <2>1 DEF ClearCommandLane, Left, Removed, Scheduler!Clear
<1>5. ASSUME NEW l \in Lane, NEW n \in 0..MaxCap, SetCommandLaneConcurrency(l, n)
      PROVE  Scheduler!SetCap(l)
  <2>1. AtLeastOne(n) \in Nat \ {0}
    BY BoundAssumption DEF AtLeastOne
  <2>2. maxConcurrent' = [maxConcurrent EXCEPT ![l] = AtLeastOne(n)]
        /\ UNCHANGED <<queue, active, gatewayDraining, status>>
    BY <1>5 DEF SetCommandLaneConcurrency
  <2>3. maxConcurrent'[l] = AtLeastOne(n)
    BY <2>2 DEF TypeOK
  <2>4. maxConcurrent' = [maxConcurrent EXCEPT ![l] = maxConcurrent'[l]]
    BY <2>2, <2>3
  <2>5. UNCHANGED <<queue, active, ~gatewayDraining, status>>
    BY <2>2
  <2>6. QED
    BY <2>1, <2>3, <2>4, <2>5 DEF Scheduler!SetCap
<1>6. CASE MarkGatewayDraining
  BY <1>6 DEF MarkGatewayDraining, laneVars, Scheduler!Next, Scheduler!StopAccepting
<1>7. CASE ResetAllLanes
  BY <1>7 DEF ResetAllLanes, LanesToDrain, Scheduler!Next, Scheduler!Restart
<1>8. CASE PumpStartsTask
  <2>1. PICK l \in Lane : l = Top.lane
    BY <1>8, ReturnFacts, FrameKinds DEF PumpStartsTask, Running
  <2>a. queue[l] # <<>> /\ Cardinality(active[l]) < maxConcurrent[l]
    BY <1>8, <2>1 DEF PumpStartsTask, Runnable, HasRoom
  <2>b. /\ queue' = [queue EXCEPT ![l] = Tail(@)]
        /\ active' = [active EXCEPT ![l] = @ \cup {Head(queue[l])}]
        /\ status' = [status EXCEPT ![Head(queue[l])] = "running"]
    BY <1>8, <2>1 DEF PumpStartsTask
  <2>c. UNCHANGED <<maxConcurrent, ~gatewayDraining>>
    BY <1>8 DEF PumpStartsTask
  <2>2. Scheduler!Start(l)
    <3>1. Cardinality(active[l]) = Scheduler!Cardinality(active[l])
      BY Zenon DEF Cardinality, Scheduler!Cardinality
    <3>2. QED
      BY <2>a, <2>b, <2>c, <3>1 DEF Scheduler!Start
  <2>3. QED
    BY <2>2 DEF Scheduler!Next
<1>9. CASE TaskThrows
  <2>1. stack # <<>> /\ Top.op = "task"
    BY <1>9 DEF TaskThrows, Running
  <2>2. PICK c \in Cmd : c = Top.cmd
    BY <2>1, ReturnFacts, FrameKinds
  <2>3. PICK n \in DOMAIN stack : stack[n] = Top
    BY <2>1, ReturnFacts DEF Top
  <2>4. status[c] = "running"
    BY <2>1, <2>2, <2>3 DEF BookInv, TaskFramesRun
  <2>5. "rejected" \in Ran
    BY DEF Ran
  <2>6. Scheduler!Finish(c)
    BY <1>9, <2>2, <2>4, <2>5, FinishRefines DEF TaskThrows
  <2>7. QED
    BY <2>6 DEF Scheduler!Next
<1>10. CASE \/ ResetDrainsLane \/ PumpReturns \/ TaskSuspends
            \/ WaitForActiveTasks \/ WaitPolls \/ UNCHANGED vars
  BY <1>10 DEF ResetDrainsLane, PumpReturns, ClearsDraining, TaskSuspends, WaitForActiveTasks, WaitPolls, AllDone,
               vars, laneVars, Scheduler!avars
<1>11. QED
  BY <1>1, <1>2, <1>3, <1>4, <1>5, <1>6, <1>7, <1>8, <1>9, <1>10
  DEF Next, Engine, Scheduler!Next

(* The command queue implements the FIFO executor its callers rely on.      *)
THEOREM QueueImplementsScheduler == Spec => ImplementsScheduler
<1>1. Init => Scheduler!Init
  BY DEF Init, Scheduler!Init
<1>2. IInv /\ [Next]_vars => [Scheduler!Next]_(Scheduler!avars)
  BY StepRefines DEF IInv
<1>3. QED
  BY <1>1, <1>2, InductiveInvariant, PTL DEF Spec, ImplementsScheduler, Scheduler!Spec
=============================================================================
