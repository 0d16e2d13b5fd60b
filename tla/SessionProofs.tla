----------------------------- MODULE SessionProofs -----------------------------
(***************************************************************************)
(* Machine-checked proofs about the two guards of a session.  In a process  *)
(* they are the lanes: for every set of runs, sessions and lane names and   *)
(* any bound on the caps, every step of LaneNesting is one of the command   *)
(* queue, and a session never has two agents.  Between processes it is the  *)
(* session's write lock: for any number of processes and calls, a call that *)
(* holds it finds its file at the path, on platforms that tell a process's  *)
(* start time.                                                              *)
(***************************************************************************)
EXTENDS LaneNesting, SessionWriteLock, FiniteSetTheorems, SequenceTheorems, TLAPS

(* The lanes and commands of a run. *)
LEMMA RunFacts ==
  /\ \A c \in Cmd : LaneOf[c] \in Lane
  /\ \A s \in Session : SessionLane(s) \in Lane
  /\ \A name \in GlobalName : GlobalLane(name) \in Lane
  /\ \A name, s : GlobalLane(name) # SessionLane(s)
  /\ \A r \in Run : /\ Outer(r) \in Cmd /\ Body(r) \in Cmd
                    /\ SessionOf[r] \in Session
                    /\ LaneOf[Outer(r)] = SessionLane(SessionOf[r])
                    /\ Inner[Outer(r)] = Body(r) /\ Inner[Body(r)] = NoCmd
  /\ \A r \in Manual : Slot(r) \in Cmd
<1>1. \A r \in Run : Outer(r) \in Cmd /\ Body(r) \in Cmd
  BY DEF Outer, Body, Cmd
<1>2. \A r \in Manual : Slot(r) \in Cmd /\ r \in Run
  BY RunAssumption DEF Slot, Cmd
<1>3. \A r \in Run : ResolveGlobalLane(r) \in {GlobalLane(name) : name \in GlobalName}
  BY RunAssumption DEF ResolveGlobalLane
<1>4. \A r \in Run : SessionOf[r] \in Session
  BY RunAssumption
<1>5. \A c \in Cmd : LaneOf[c] \in Lane
  <2> SUFFICES ASSUME NEW c \in Cmd PROVE LaneOf[c] \in Lane
    OBVIOUS
  <2>1. c[1] \in Run /\ c[2] \in {"slot", "session", "global"}
    BY RunAssumption DEF Cmd
  <2>2. GlobalLane("cron") \in Lane
    BY RunAssumption DEF Lane
  <2> QED
    BY <1>3, <1>4, <2>1, <2>2 DEF LaneOf, Lane, ResolveSessionLane
<1>6. \A r \in Run : LaneOf[Outer(r)] = SessionLane(SessionOf[r])
  BY <1>1 DEF LaneOf, Outer, ResolveSessionLane
<1>7. \A r \in Run : Inner[Outer(r)] = Body(r) /\ Inner[Body(r)] = NoCmd
  BY <1>1 DEF Inner, Outer, Body
<1> QED
  BY <1>1, <1>2, <1>4, <1>5, <1>6, <1>7 DEF Lane, GlobalLane, SessionLane

(* The commands of different runs differ. *)
LEMMA CommandsDiffer ==
  ASSUME NEW r, NEW p
  PROVE  /\ Outer(r) = Outer(p) => r = p
         /\ Body(r) = Body(p) => r = p
         /\ Outer(r) # Body(p) /\ Outer(r) # Slot(p) /\ Body(r) # Slot(p)
  BY DEF Outer, Body, Slot

LEMMA CommandsFinite == IsFiniteSet(Cmd)
<1>1. IsFiniteSet({"session", "global"}) /\ IsFiniteSet({"slot"})
  <2>1. IsFiniteSet({"session"}) /\ IsFiniteSet({"global"}) /\ IsFiniteSet({"slot"})
    BY FS_Singleton
  <2>2. IsFiniteSet({"session"} \cup {"global"})
    BY <2>1, FS_Union
  <2>3. {"session", "global"} = {"session"} \cup {"global"}
    OBVIOUS
  <2> QED
    BY <2>1, <2>2, <2>3
<1>2. IsFiniteSet(Run) /\ IsFiniteSet(Manual)
  BY RunAssumption, FS_Subset
<1>3. IsFiniteSet(Run \X {"session", "global"}) /\ IsFiniteSet(Manual \X {"slot"})
  BY <1>1, <1>2, FS_Product
<1> QED
  BY <1>3, FS_Union DEF Cmd

(* The queue's own copy of the library counts as the library does. *)
LEMMA SameCardinality == ASSUME NEW S PROVE CQ!Cardinality(S) = Cardinality(S)
  BY DEF CQ!Cardinality, Cardinality

(* A stack stays one when a frame is pushed or the innermost one leaves. *)
LEMMA StackFacts ==
  ASSUME RunsTyped
  PROVE  /\ stack # <<>> => CQ!Pop \in Seq(CQ!Frame) /\ CQ!Top \in CQ!Frame
         /\ \A l \in Lane : Append(stack, CQ!PumpFrame(l)) \in Seq(CQ!Frame)
         /\ \A c \in Cmd : Append(stack, CQ!TaskFrame(c)) \in Seq(CQ!Frame)
<1>1. stack \in Seq(CQ!Frame)
  BY DEF RunsTyped
<1>2. ASSUME stack # <<>> PROVE CQ!Pop \in Seq(CQ!Frame) /\ CQ!Top \in CQ!Frame
  <2>1. Len(stack) \in Nat \ {0} /\ \A i \in 1..Len(stack) : stack[i] \in CQ!Frame
    BY <1>1, <1>2
  <2>2. \A i \in 1..(Len(stack) - 1) : stack[i] \in CQ!Frame
    BY <2>1
  <2>3. SubSeq(stack, 1, Len(stack) - 1) \in Seq(CQ!Frame)
    BY <2>1, <2>2, SubSeqProperties
  <2> QED
    BY <2>1, <2>3 DEF CQ!Pop, CQ!Top
<1> QED
  BY <1>1, <1>2, AppendProperties DEF CQ!PumpFrame, CQ!TaskFrame, CQ!Frame
-----------------------------------------------------------------------------
(* Every step of the runs is a step of the queue; no task returns before     *)
(* the command it awaits.                                                    *)
THEOREM RunsUseTheQueue == Spec => UsesTheQueue
<1>1. Init => CQ!Init
  BY DEF Init
<1>2. [Next]_vars => [CQ!Next]_(CQ!vars)
  <2> SUFFICES ASSUME [Next]_vars PROVE CQ!Next \/ UNCHANGED CQ!vars
    OBVIOUS
  <2>1. ASSUME NEW c \in Cmd, CQ!EnqueueCommandInLane(c) PROVE CQ!Next
    BY <2>1 DEF CQ!Next
  <2>2. ASSUME NEW r \in Run, EnqueueSession(r) \/ EnqueueGlobal(r) PROVE CQ!Next
    BY <2>1, <2>2, RunFacts DEF EnqueueSession, EnqueueGlobal
  <2>3. ASSUME NEW r \in Manual, EnqueueRun(r) PROVE CQ!Next
    BY <2>1, <2>3, RunFacts DEF EnqueueRun
  <2>4. ASSUME NEW r \in Run, BodySettles(r) PROVE CQ!Next
    BY <2>4, RunFacts DEF BodySettles, CQ!Next
  <2>5. ASSUME NEW r \in Run, SessionSettles(r) PROVE CQ!Next
    <3>1. CQ!TaskSettles(Outer(r))
      <4>1. PICK outcome \in CQ!Ran : CQ!FinishTask(Outer(r), outcome, stack)
        BY <2>5 DEF SessionSettles, CQ!Ran
      <4>2. status[Inner[Outer(r)]] \in CQ!Settled
        BY <2>5, RunFacts DEF SessionSettles, BodySettled
      <4> QED
        BY <2>5, <4>1, <4>2 DEF SessionSettles, CQ!TaskSettles
    <3> QED
      BY <3>1, RunFacts DEF CQ!Next
  <2>6. ASSUME NEW r \in Manual, SlotSettles(r) PROVE CQ!Next
    <3>1. Inner[Slot(r)] = NoCmd \/ status[Inner[Slot(r)]] \in CQ!Settled
      <4>1. Inner[Slot(r)] = IF r \in TimeLimited THEN NoCmd ELSE Outer(r)
        BY RunFacts DEF Inner, Slot
      <4> QED
        BY <2>6, <4>1 DEF SlotSettles, Expires
    <3>2. CQ!TaskSettles(Slot(r))
      BY <2>6, <3>1 DEF SlotSettles, CQ!TaskSettles, CQ!Ran
    <3> QED
      BY <3>2, RunFacts DEF CQ!Next
  <2>7. ASSUME NEW s \in Session, ClearSession(s) PROVE CQ!Next
    BY <2>7, RunFacts DEF ClearSession, CQ!Next
  <2>8. ASSUME NEW name \in GlobalName, NEW n \in 1..MaxCap, SetGlobalConcurrency(name, n)
        PROVE  CQ!Next
    BY <2>8, RunFacts, RunAssumption DEF SetGlobalConcurrency, CQ!Next
  <2>9. ASSUME CQ!PumpStartsTask \/ CQ!PumpReturns \/ TaskSuspends PROVE CQ!Next
    BY <2>9 DEF TaskSuspends, CQ!Next, CQ!Engine
  <2>10. CASE UNCHANGED vars
    BY <2>10 DEF vars, CQ!vars
  <2> QED
    BY <2>2, <2>3, <2>4, <2>5, <2>6, <2>7, <2>8, <2>9, <2>10 DEF Next
<1> QED
  BY <1>1, <1>2, PTL DEF Spec, CQ!Spec, UsesTheQueue
-----------------------------------------------------------------------------
LEMMA InitNests == Init => NestInv
<1> SUFFICES ASSUME Init PROVE NestInv
  OBVIOUS
<1>1. RunsTyped
  BY DEF Init, CQ!Init, RunsTyped, CQ!Status
<1>2. QueuesWait
  BY DEF Init, CQ!Init, QueuesWait
<1>3. SessionsAreSerial
  BY RunFacts DEF Init, CQ!Init, SessionsAreSerial
<1>4. BodyHoldsSession
  BY RunFacts DEF Init, CQ!Init, BodyHoldsSession
<1> QED
  BY <1>1, <1>2, <1>3, <1>4 DEF NestInv

(* A step that only returns to the frame below. *)
LEMMA PopNests ==
  ASSUME NestInv, stack # <<>>, stack' = CQ!Pop,
         UNCHANGED <<queue, active, maxConcurrent, generation, status, taskGeneration>>
  PROVE  NestInv'
<1>1. RunsTyped'
  BY StackFacts DEF NestInv, RunsTyped
<1> QED
  BY <1>1 DEF NestInv, QueuesWait, SessionsAreSerial, BodyHoldsSession

(* drainLane adds at most a pump. *)
LEMMA DrainStack ==
  ASSUME RunsTyped, NEW l \in Lane, CQ!DrainLane(l, stack)
  PROVE  stack' \in Seq(CQ!Frame)
  BY StackFacts DEF CQ!DrainLane, RunsTyped

(* A command of a run, or its body while the session's command executes, is *)
(* pushed.                                                                   *)
LEMMA EnqueueNests ==
  ASSUME NestInv, NEW c \in Cmd, CQ!EnqueueCommandInLane(c)
  PROVE  NestInv'
<1> DEFINE m == LaneOf[c]
<1>1. m \in Lane /\ status[c] = "idle"
  BY RunFacts DEF CQ!EnqueueCommandInLane, CQ!MayIssue
<1>2. /\ queue' = [queue EXCEPT ![m] = Append(@, c)]
      /\ status' = [status EXCEPT ![c] = "queued"]
      /\ UNCHANGED <<active, maxConcurrent, generation, taskGeneration>>
  BY DEF CQ!EnqueueCommandInLane, CQ!Push
<1> HIDE DEF m
<1>3. queue[m] \in Seq(Cmd)
  BY <1>1 DEF NestInv, RunsTyped
<1>4. RunsTyped'
  <2>1. stack' \in Seq(CQ!Frame)
    BY <1>1, DrainStack DEF CQ!EnqueueCommandInLane, NestInv, m
  <2> QED
    BY <1>1, <1>2, <1>3, <2>1, AppendProperties DEF NestInv, RunsTyped, CQ!Status
<1>5. QueuesWait'
  <2> SUFFICES ASSUME NEW l \in Lane, NEW i \in DOMAIN queue'[l], NEW j \in DOMAIN queue'[l]
               PROVE  /\ LaneOf[queue'[l][i]] = l /\ status'[queue'[l][i]] = "queued"
                      /\ queue'[l][i] = queue'[l][j] => i = j
    BY DEF QueuesWait
  <2>1. \A k \in DOMAIN queue[l] : queue[l][k] # c
    BY <1>1 DEF NestInv, QueuesWait
  <2>2. CASE l # m
    <3>1. queue'[l] = queue[l]
      BY <1>2, <2>2 DEF NestInv, RunsTyped
    <3>2. \A k \in DOMAIN queue[l] : status'[queue[l][k]] = status[queue[l][k]]
      BY <1>2, <2>1 DEF NestInv, RunsTyped
    <3> QED
      BY <3>1, <3>2 DEF NestInv, QueuesWait
  <2>3. CASE l = m
    <3>1. queue'[l] = Append(queue[l], c)
      BY <1>1, <1>2, <2>3 DEF NestInv, RunsTyped
    <3>2. /\ Len(queue[l]) \in Nat /\ DOMAIN queue[l] = 1..Len(queue[l])
          /\ DOMAIN queue'[l] = 1..(Len(queue[l]) + 1)
          /\ queue'[l][Len(queue[l]) + 1] = c
          /\ \A k \in 1..Len(queue[l]) : queue'[l][k] = queue[l][k]
      BY <1>3, <2>3, <3>1, AppendProperties, LenProperties
    <3>3. \A k \in DOMAIN queue[l] : /\ LaneOf[queue[l][k]] = l
                                     /\ status'[queue[l][k]] = "queued"
      BY <1>2, <2>1 DEF NestInv, QueuesWait, RunsTyped
    <3>4. \A k, n \in DOMAIN queue[l] : queue[l][k] = queue[l][n] => k = n
      BY DEF NestInv, QueuesWait
    <3>5. LaneOf[c] = l /\ status'[c] = "queued"
      BY <1>2, <2>3 DEF NestInv, RunsTyped, m
    <3>6. i \in DOMAIN queue[l] \/ i = Len(queue[l]) + 1
      BY <3>2
    <3>7. j \in DOMAIN queue[l] \/ j = Len(queue[l]) + 1
      BY <3>2
    <3> QED
      BY <2>1, <3>2, <3>3, <3>4, <3>5, <3>6, <3>7
  <2> QED
    BY <2>2, <2>3
<1>6. SessionsAreSerial'
  <2>1. \A d \in Cmd : status'[d] = "running" <=> status[d] = "running"
    BY <1>1, <1>2 DEF NestInv, RunsTyped
  <2> QED
    BY <1>2, <2>1 DEF NestInv, SessionsAreSerial
<1>7. BodyHoldsSession'
  <2> SUFFICES ASSUME NEW r \in Run, status'[Body(r)] \in {"queued", "running"}
               PROVE  status'[Outer(r)] = "running" /\ Outer(r) \in active'[ResolveSessionLane(r)]
    BY DEF BodyHoldsSession
  <2>1. status[Outer(r)] = "running"
    <3>1. CASE c = Body(r)
      BY <3>1, RunFacts DEF CQ!EnqueueCommandInLane, CQ!MayIssue
    <3>2. CASE c # Body(r)
      <4>1. status'[Body(r)] = status[Body(r)]
        BY <1>2, <3>2, RunFacts DEF NestInv, RunsTyped
      <4> QED
        BY <4>1 DEF NestInv, BodyHoldsSession
    <3> QED
      BY <3>1, <3>2
  <2>2. Outer(r) \in active[ResolveSessionLane(r)]
    BY <2>1, RunFacts DEF NestInv, SessionsAreSerial, ResolveSessionLane
  <2>3. status'[Outer(r)] = "running"
    BY <1>1, <1>2, <2>1, RunFacts DEF NestInv, RunsTyped
  <2> QED
    BY <1>2, <2>2, <2>3
<1> QED
  BY <1>4, <1>5, <1>6, <1>7 DEF NestInv

(* An executing command settles; a session's does so after its body.         *)
LEMMA FinishNests ==
  ASSUME NestInv, NEW c \in Cmd, status[c] = "running", NEW outcome \in CQ!Ran,
         CQ!FinishTask(c, outcome, stack),
         \A r \in Run : c = Outer(r) => status[Body(r)] \in CQ!Settled
  PROVE  NestInv'
<1> DEFINE m == LaneOf[c]
<1>1. m \in Lane
  BY RunFacts
<1>2. CQ!Current(c)
  BY <1>1 DEF CQ!Current, NestInv, RunsTyped
<1>3. /\ status' = [status EXCEPT ![c] = outcome]
      /\ active' = [active EXCEPT ![m] = @ \ {c}]
      /\ stack' = Append(stack, CQ!PumpFrame(m))
      /\ UNCHANGED <<queue, maxConcurrent, generation, taskGeneration>>
  BY <1>2 DEF CQ!FinishTask, CQ!CompleteTask
<1> HIDE DEF m
<1>4. outcome \in CQ!Settled /\ outcome \notin {"idle", "queued", "running"}
  BY DEF CQ!Ran, CQ!Settled
<1>5. RunsTyped'
  <2>1. stack' \in Seq(CQ!Frame)
    BY <1>1, <1>3, StackFacts DEF NestInv
  <2>2. status' \in [Cmd -> CQ!Status]
    BY <1>3, <1>4 DEF NestInv, RunsTyped, CQ!Status
  <2>3. active' \in [Lane -> SUBSET Cmd]
    BY <1>1, <1>3 DEF NestInv, RunsTyped
  <2> QED
    BY <1>3, <2>1, <2>2, <2>3 DEF NestInv, RunsTyped
<1>6. QueuesWait'
  <2>1. \A l \in Lane : \A k \in DOMAIN queue[l] : status'[queue[l][k]] = "queued"
    BY <1>3 DEF NestInv, RunsTyped, QueuesWait
  <2> QED
    BY <1>3, <2>1 DEF NestInv, QueuesWait
<1>7. SessionsAreSerial'
  <2> SUFFICES ASSUME NEW s \in Session
               PROVE  /\ maxConcurrent'[SessionLane(s)] = 1
                      /\ active'[SessionLane(s)] =
                           {d \in Cmd : LaneOf[d] = SessionLane(s) /\ status'[d] = "running"}
                      /\ \A d, e \in active'[SessionLane(s)] : d = e
    BY DEF SessionsAreSerial
  <2>1. /\ maxConcurrent[SessionLane(s)] = 1
        /\ active[SessionLane(s)] =
             {d \in Cmd : LaneOf[d] = SessionLane(s) /\ status[d] = "running"}
        /\ \A d, e \in active[SessionLane(s)] : d = e
    BY DEF NestInv, SessionsAreSerial
  <2>2. \A d \in Cmd : status'[d] = "running" <=> status[d] = "running" /\ d # c
    BY <1>3, <1>4 DEF NestInv, RunsTyped
  <2>3. active'[SessionLane(s)] = active[SessionLane(s)] \ {c}
    <3>1. SessionLane(s) \in Lane
      BY RunFacts
    <3>2. CASE SessionLane(s) = m
      BY <1>1, <1>3, <3>2 DEF NestInv, RunsTyped
    <3>3. CASE SessionLane(s) # m
      <4>1. active'[SessionLane(s)] = active[SessionLane(s)]
        BY <1>3, <3>1, <3>3 DEF NestInv, RunsTyped
      <4>2. c \notin active[SessionLane(s)]
        BY <2>1, <3>3 DEF m
      <4> QED
        BY <4>1, <4>2
    <3> QED
      BY <3>2, <3>3
  <2> QED
    BY <1>3, <2>1, <2>2, <2>3
<1>8. BodyHoldsSession'
  <2> SUFFICES ASSUME NEW r \in Run, status'[Body(r)] \in {"queued", "running"}
               PROVE  status'[Outer(r)] = "running" /\ Outer(r) \in active'[ResolveSessionLane(r)]
    BY DEF BodyHoldsSession
  <2>1. c # Body(r) /\ status[Body(r)] \in {"queued", "running"}
    BY <1>3, <1>4, RunFacts DEF NestInv, RunsTyped
  <2>2. status[Outer(r)] = "running"
    BY <2>1 DEF NestInv, BodyHoldsSession
  <2>3. c # Outer(r)
    BY <2>1 DEF CQ!Settled, CQ!Ran, CQ!NeverRan
  <2>4. status'[Outer(r)] = "running"
    BY <1>3, <2>2, <2>3, RunFacts DEF NestInv, RunsTyped
  <2> QED
    BY <1>7, <2>4, RunFacts DEF SessionsAreSerial, ResolveSessionLane
<1> QED
  BY <1>5, <1>6, <1>7, <1>8 DEF NestInv

(* The lane of a session is emptied: what waited there had not started.      *)
LEMMA ClearNests ==
  ASSUME NestInv, NEW s \in Session, CQ!ClearCommandLane(SessionLane(s))
  PROVE  NestInv'
<1> DEFINE m == SessionLane(s)
           gone == CQ!Removed(queue[m])
<1>1. m \in Lane
  BY RunFacts
<1>2. /\ queue' = [queue EXCEPT ![m] = <<>>]
      /\ status' = [c \in Cmd |-> IF c \in gone THEN "cleared" ELSE status[c]]
      /\ UNCHANGED <<active, maxConcurrent, generation, taskGeneration, stack>>
  BY DEF CQ!ClearCommandLane, CQ!Left
<1>3. \A c \in gone : LaneOf[c] = m /\ status[c] = "queued"
  BY <1>1 DEF CQ!Removed, NestInv, QueuesWait
<1> HIDE DEF m, gone
<1>4. RunsTyped'
  BY <1>1, <1>2 DEF NestInv, RunsTyped, CQ!Status, CQ!Settled, CQ!NeverRan
<1>5. \A c \in Cmd : status'[c] = "running" <=> status[c] = "running"
  BY <1>2, <1>3
<1>6. QueuesWait'
  <2> SUFFICES ASSUME NEW l \in Lane, NEW i \in DOMAIN queue'[l], NEW j \in DOMAIN queue'[l]
               PROVE  /\ LaneOf[queue'[l][i]] = l /\ status'[queue'[l][i]] = "queued"
                      /\ queue'[l][i] = queue'[l][j] => i = j
    BY DEF QueuesWait
  <2>1. l # m
    BY <1>1, <1>2 DEF NestInv, RunsTyped
  <2>2. queue'[l] = queue[l]
    BY <1>2, <2>1 DEF NestInv, RunsTyped
  <2>3. /\ LaneOf[queue[l][i]] = l /\ status[queue[l][i]] = "queued" /\ queue[l][i] \in Cmd
        /\ queue[l][i] = queue[l][j] => i = j
    BY <2>2 DEF NestInv, RunsTyped, QueuesWait
  <2> QED
    BY <1>2, <1>3, <2>1, <2>2, <2>3
<1>7. SessionsAreSerial'
  BY <1>2, <1>5 DEF NestInv, SessionsAreSerial
<1>8. BodyHoldsSession'
  <2> SUFFICES ASSUME NEW r \in Run, status'[Body(r)] \in {"queued", "running"}
               PROVE  status'[Outer(r)] = "running" /\ Outer(r) \in active'[ResolveSessionLane(r)]
    BY DEF BodyHoldsSession
  <2>1. status[Body(r)] \in {"queued", "running"}
    BY <1>2, RunFacts
  <2> QED
    BY <1>2, <1>5, <2>1, RunFacts DEF NestInv, BodyHoldsSession
<1> QED
  BY <1>4, <1>6, <1>7, <1>8 DEF NestInv

(* Only the caps of shared lanes are set.                                    *)
LEMMA CapNests ==
  ASSUME NestInv, NEW name \in GlobalName, NEW n \in 1..MaxCap,
         CQ!SetCommandLaneConcurrency(GlobalLane(name), n)
  PROVE  NestInv'
<1>1. GlobalLane(name) \in Lane /\ \A s \in Session : SessionLane(s) # GlobalLane(name)
  BY RunFacts
<1>2. /\ maxConcurrent' = [maxConcurrent EXCEPT ![GlobalLane(name)] = n]
      /\ UNCHANGED <<queue, active, generation, status, taskGeneration>>
  <2>1. MaxCap \in Nat
    BY RunAssumption
  <2>2. CQ!AtLeastOne(n) = n
    BY <2>1 DEF CQ!AtLeastOne
  <2> QED
    BY <2>2 DEF CQ!SetCommandLaneConcurrency
<1>3. RunsTyped'
  <2>1. stack' \in Seq(CQ!Frame)
    BY <1>1, DrainStack DEF CQ!SetCommandLaneConcurrency, NestInv
  <2> QED
    BY <1>1, <1>2, <2>1, RunAssumption DEF NestInv, RunsTyped
<1>4. SessionsAreSerial'
  BY <1>1, <1>2, RunFacts DEF NestInv, RunsTyped, SessionsAreSerial
<1> QED
  BY <1>2, <1>3, <1>4 DEF NestInv, QueuesWait, BodyHoldsSession

(* A pump starts the command at the head of its lane: on a session's lane    *)
(* only when no other one executes.                                          *)
LEMMA StartNests ==
  ASSUME NestInv, CQ!PumpStartsTask
  PROVE  NestInv'
<1> DEFINE m == CQ!Top.lane
           c == Head(queue[m])
<1>1. m \in Lane
  BY StackFacts DEF CQ!PumpStartsTask, CQ!Running, NestInv, CQ!Frame
<1>2. /\ queue[m] # <<>> /\ CQ!HasRoom(m)
      /\ queue' = [queue EXCEPT ![m] = Tail(@)]
      /\ active' = [active EXCEPT ![m] = @ \cup {c}]
      /\ status' = [status EXCEPT ![c] = "running"]
      /\ taskGeneration' = [taskGeneration EXCEPT ![c] = generation[m]]
      /\ stack' = Append(stack, CQ!TaskFrame(c))
      /\ UNCHANGED <<maxConcurrent, generation>>
  BY DEF CQ!PumpStartsTask, CQ!Runnable
<1> HIDE DEF m
<1>3. /\ queue[m] \in Seq(Cmd) /\ c = queue[m][1] /\ c \in Cmd
      /\ Tail(queue[m]) \in Seq(Cmd) /\ 1 \in DOMAIN queue[m]
      /\ \A i \in DOMAIN Tail(queue[m]) :
           Tail(queue[m])[i] = queue[m][i + 1] /\ i + 1 \in DOMAIN queue[m] /\ i \in Nat \ {0}
  BY <1>1, <1>2, HeadTailProperties DEF NestInv, RunsTyped
<1>4. LaneOf[c] = m /\ status[c] = "queued"
  BY <1>1, <1>3 DEF NestInv, QueuesWait
<1> HIDE DEF c
<1>5. RunsTyped'
  <2>1. stack' \in Seq(CQ!Frame)
    BY <1>2, <1>3, StackFacts DEF NestInv
  <2>2. taskGeneration' = taskGeneration
    BY <1>1, <1>2, <1>3 DEF NestInv, RunsTyped
  <2>3. queue' \in [Lane -> Seq(Cmd)] /\ active' \in [Lane -> SUBSET Cmd]
    BY <1>1, <1>2, <1>3 DEF NestInv, RunsTyped
  <2>4. status' \in [Cmd -> CQ!Status]
    BY <1>2, <1>3 DEF NestInv, RunsTyped, CQ!Status
  <2> QED
    BY <1>2, <2>1, <2>2, <2>3, <2>4 DEF NestInv, RunsTyped
<1>6. QueuesWait'
  <2> SUFFICES ASSUME NEW l \in Lane, NEW i \in DOMAIN queue'[l], NEW j \in DOMAIN queue'[l]
               PROVE  /\ LaneOf[queue'[l][i]] = l /\ status'[queue'[l][i]] = "queued"
                      /\ queue'[l][i] = queue'[l][j] => i = j
    BY DEF QueuesWait
  <2>1. CASE l # m
    <3>1. queue'[l] = queue[l]
      BY <1>2, <2>1 DEF NestInv, RunsTyped
    <3>2. /\ LaneOf[queue[l][i]] = l /\ status[queue[l][i]] = "queued" /\ queue[l][i] \in Cmd
          /\ queue[l][i] = queue[l][j] => i = j
      BY <3>1 DEF NestInv, RunsTyped, QueuesWait
    <3>3. queue[l][i] # c
      BY <1>4, <2>1, <3>2
    <3> QED
      BY <1>2, <3>1, <3>2, <3>3 DEF NestInv, RunsTyped
  <2>2. CASE l = m
    <3>1. queue'[l] = Tail(queue[m])
      BY <1>1, <1>2, <2>2 DEF NestInv, RunsTyped
    <3>2. /\ queue'[l][i] = queue[m][i + 1] /\ queue'[l][j] = queue[m][j + 1]
          /\ i + 1 \in DOMAIN queue[m] /\ j + 1 \in DOMAIN queue[m]
          /\ i \in Nat \ {0} /\ j \in Nat \ {0}
      BY <1>3, <3>1
    <3>3. \A k, n \in DOMAIN queue[m] : /\ LaneOf[queue[m][k]] = m
                                        /\ status[queue[m][k]] = "queued"
                                        /\ queue[m][k] = queue[m][n] => k = n
      BY <1>1 DEF NestInv, QueuesWait
    <3>4. queue[m][i + 1] # c /\ queue[m][i + 1] \in Cmd
      <4>1. i + 1 # 1
        BY <3>2
      <4> QED
        BY <1>3, <3>2, <3>3, <4>1
    <3> QED
      BY <1>2, <2>2, <3>2, <3>3, <3>4 DEF NestInv, RunsTyped
  <2> QED
    BY <2>1, <2>2
<1>7. \A d \in Cmd : status'[d] = "running" <=> status[d] = "running" \/ d = c
  BY <1>2, <1>3 DEF NestInv, RunsTyped
<1>8. SessionsAreSerial'
  <2> SUFFICES ASSUME NEW s \in Session
               PROVE  /\ maxConcurrent'[SessionLane(s)] = 1
                      /\ active'[SessionLane(s)] =
                           {d \in Cmd : LaneOf[d] = SessionLane(s) /\ status'[d] = "running"}
                      /\ \A d, e \in active'[SessionLane(s)] : d = e
    BY DEF SessionsAreSerial
  <2>1. /\ maxConcurrent[SessionLane(s)] = 1
        /\ active[SessionLane(s)] =
             {d \in Cmd : LaneOf[d] = SessionLane(s) /\ status[d] = "running"}
        /\ \A d, e \in active[SessionLane(s)] : d = e
    BY DEF NestInv, SessionsAreSerial
  <2>2. SessionLane(s) \in Lane
    BY RunFacts
  <2>3. CASE SessionLane(s) # m
    <3>1. active'[SessionLane(s)] = active[SessionLane(s)]
      BY <1>2, <2>2, <2>3 DEF NestInv, RunsTyped
    <3> QED
      BY <1>2, <1>4, <1>7, <2>1, <2>3, <3>1
  <2>4. CASE SessionLane(s) = m
    <3>1. active[m] = {}
      <4>1. active[m] \in SUBSET Cmd
        BY <1>1 DEF NestInv, RunsTyped
      <4>2. IsFiniteSet(active[m])
        BY <4>1, CommandsFinite, FS_Subset
      <4>3. Cardinality(active[m]) < 1
        BY <1>2, <2>1, <2>4, SameCardinality DEF CQ!HasRoom
      <4>4. Cardinality(active[m]) = 0
        BY <4>2, <4>3, FS_CardinalityType
      <4> QED
        BY <4>2, <4>4, FS_EmptySet
    <3>2. active'[m] = {c}
      BY <1>1, <1>2, <3>1 DEF NestInv, RunsTyped
    <3> QED
      BY <1>2, <1>3, <1>4, <1>7, <2>1, <2>4, <3>1, <3>2
  <2> QED
    BY <2>3, <2>4
<1>9. BodyHoldsSession'
  <2> SUFFICES ASSUME NEW r \in Run, status'[Body(r)] \in {"queued", "running"}
               PROVE  status'[Outer(r)] = "running" /\ Outer(r) \in active'[ResolveSessionLane(r)]
    BY DEF BodyHoldsSession
  <2>1. status[Body(r)] \in {"queued", "running"}
    BY <1>2, <1>4, RunFacts DEF NestInv, RunsTyped
  <2>2. status'[Outer(r)] = "running"
    BY <1>7, <2>1, RunFacts DEF NestInv, BodyHoldsSession
  <2> QED
    BY <1>8, <2>2, RunFacts DEF SessionsAreSerial, ResolveSessionLane
<1> QED
  BY <1>5, <1>6, <1>8, <1>9 DEF NestInv

(* NestInv is an invariant of the runs. *)
THEOREM NestingInvariant == Spec => []NestInv
<1>1. NestInv /\ [Next]_vars => NestInv'
  <2> SUFFICES ASSUME NestInv, [Next]_vars PROVE NestInv'
    OBVIOUS
  <2>1. ASSUME NEW r \in Run, EnqueueSession(r) \/ EnqueueGlobal(r) PROVE NestInv'
    BY <2>1, RunFacts, EnqueueNests DEF EnqueueSession, EnqueueGlobal
  <2>2. ASSUME NEW r \in Manual, EnqueueRun(r) PROVE NestInv'
    BY <2>2, RunFacts, EnqueueNests DEF EnqueueRun
  <2>3. ASSUME NEW r \in Run, BodySettles(r) PROVE NestInv'
    <3>1. PICK outcome \in CQ!Ran : CQ!FinishTask(Body(r), outcome, stack)
      BY <2>3 DEF BodySettles, CQ!TaskSettles
    <3>2. status[Body(r)] = "running"
      BY <2>3 DEF BodySettles, CQ!TaskSettles
    <3>3. \A p \in Run : Body(r) # Outer(p)
      BY CommandsDiffer
    <3> QED
      BY <3>1, <3>2, <3>3, RunFacts, FinishNests
  <2>4. ASSUME NEW r \in Run, SessionSettles(r) PROVE NestInv'
    <3>1. PICK outcome \in CQ!Ran : CQ!FinishTask(Outer(r), outcome, stack)
      BY <2>4 DEF SessionSettles, CQ!Ran
    <3>2. status[Outer(r)] = "running" /\ status[Body(r)] \in CQ!Settled
      BY <2>4 DEF SessionSettles, BodySettled
    <3>3. \A p \in Run : Outer(r) = Outer(p) => p = r
      BY CommandsDiffer
    <3> QED
      BY <3>1, <3>2, <3>3, RunFacts, FinishNests
  <2>5. ASSUME NEW r \in Manual, SlotSettles(r) PROVE NestInv'
    <3>1. CQ!FinishTask(Slot(r), "resolved", stack) /\ status[Slot(r)] = "running"
      BY <2>5 DEF SlotSettles
    <3>2. \A p \in Run : Slot(r) # Outer(p)
      BY CommandsDiffer
    <3>3. "resolved" \in CQ!Ran
      BY DEF CQ!Ran
    <3> QED
      BY <3>1, <3>2, <3>3, RunFacts, FinishNests
  <2>6. ASSUME NEW s \in Session, ClearSession(s) PROVE NestInv'
    BY <2>6, ClearNests DEF ClearSession
  <2>7. ASSUME NEW name \in GlobalName, NEW n \in 1..MaxCap, SetGlobalConcurrency(name, n)
        PROVE  NestInv'
    BY <2>7, CapNests DEF SetGlobalConcurrency
  <2>8. CASE CQ!PumpStartsTask
    BY <2>8, StartNests
  <2>9. CASE CQ!PumpReturns
    BY <2>9, PopNests DEF CQ!PumpReturns, CQ!Running
  <2>10. CASE TaskSuspends
    BY <2>10, PopNests DEF TaskSuspends, CQ!TaskSuspends, CQ!Running, CQ!laneVars
  <2>11. CASE UNCHANGED vars
    BY <2>11 DEF vars, NestInv, RunsTyped, QueuesWait, SessionsAreSerial, BodyHoldsSession
  <2> QED
    BY <2>1, <2>2, <2>3, <2>4, <2>5, <2>6, <2>7, <2>8, <2>9, <2>10, <2>11 DEF Next
<1> QED
  BY <1>1, InitNests, PTL DEF Spec

(* No clear, timeout or early completion leaves an agent on a session whose  *)
(* lane is free.                                                             *)
THEOREM BodiesHoldTheirSession == Spec => []BodyHoldsSession
<1>1. NestInv => BodyHoldsSession
  BY DEF NestInv
<1> QED
  BY <1>1, NestingInvariant, PTL

(* Two agents never execute on one session, whatever lanes their bodies are  *)
(* on and however the caps of the shared lanes are set.                      *)
THEOREM SessionsRunOnce == Spec => []OneRunPerSession
<1>1. NestInv => OneRunPerSession
  <2> SUFFICES ASSUME NestInv, NEW r \in Run, NEW p \in Run, SessionOf[r] = SessionOf[p],
                      Executing(r), Executing(p)
               PROVE  r = p
    BY DEF OneRunPerSession
  <2>1. /\ Outer(r) \in active[SessionLane(SessionOf[r])]
        /\ Outer(p) \in active[SessionLane(SessionOf[r])]
    BY DEF Executing, NestInv, BodyHoldsSession, ResolveSessionLane
  <2>2. Outer(r) = Outer(p)
    BY <2>1, RunFacts DEF NestInv, SessionsAreSerial
  <2> QED
    BY <2>2, CommandsDiffer
<1> QED
  BY <1>1, NestingInvariant, PTL
-----------------------------------------------------------------------------
(* Sharers are a finite set, and count one more or less with one call.       *)
LEMMA SharersAreFinite ==
  ASSUME NEW e PROVE IsFiniteSet(Sharers(e)) /\ Cardinality(Sharers(e)) \in Nat
<1>1. Sharers(e) \subseteq Call
  BY DEF Sharers
<1> QED
  BY <1>1, LockAssumption, FS_Subset, FS_CardinalityType

(* An owner is about to register, or has registered.                         *)
LEMMA OwnersPlace ==
  ASSUME LockInv, NEW e \in Call, Owns(e)
  PROVE  call[e] \in {"writes", "registers"} \/ Registered(e)
<1>1. CASE held[ProcOf[e]] = e
  BY <1>1, LockAssumption DEF LockInv, EntriesAreExact
<1>2. CASE Sharers(e) # {}
  <2>1. PICK c \in Call : lock[c] = e
    BY <1>2 DEF Sharers
  <2> QED
    BY <2>1 DEF LockInv, EntriesAreExact
<1> QED
  BY <1>1, <1>2 DEF Owns

(* A removal: what is left of an owner's claim on the file.                  *)
LEMMA RemoveKeeps ==
  ASSUME LockInv, NEW meant \in Call \cup {None}, Remove(meant),
         NEW e \in Call, Owns(e), e \notin forfeit', meant = e => OutOfUse(e)
  PROVE  FALSE
<1>1. e \notin forfeit /\ Exists /\ file.by = e
  BY DEF Remove, LockInv, OwnersHaveFile
<1>2. meant = e /\ ~file.old
  BY <1>1 DEF Remove
<1> QED
  BY <1>1, <1>2 DEF OutOfUse, Owns

(* Entries stay exact while nobody holds, shares or releases.                *)
LEMMA EntriesKept ==
  ASSUME TypeOK, EntriesAreExact, UNCHANGED <<alive, entries, lock>>,
         forfeit \subseteq forfeit',
         \A d \in Call : Registered(d) => Registered(d)',
         \A d \in Call : call'[d] = "holds" <=> call[d] = "holds"
  PROVE  EntriesAreExact'
<1>1. \A d \in Call : Sharers(d)' = Sharers(d)
  BY DEF Sharers
<1> QED
  BY <1>1 DEF EntriesAreExact, entries

(* Steps that leave the file, the processes and the entries alone and move a *)
(* call between places where it neither holds nor owns anything.             *)
LEMMA QuietKeeps ==
  ASSUME LockInv, NEW c \in Call, NEW place \in Places, Goes(c, place),
         UNCHANGED <<file, alive, entries, lock, cleaner, forfeit>>,
         ~HasTried(c) \/ call[c] \in {"writes", "undoes"}, call[c] # "holds",
         place \notin {"holds", "registers", "writes"},
         HasTried(c) => place \in {"undoes", "failed"},
         judged' \in [Call -> Call \cup {None}],
         \A d \in Call : judged'[d] # None =>
           judged'[d] = judged[d] \/ (HasTried(judged'[d]) /\ OutOfUse(judged'[d]))
  PROVE  LockInv'
<1>1. \A d \in Call : call'[d] = IF d = c THEN place ELSE call[d]
  BY DEF Goes, LockInv, TypeOK
<1>2. TypeOK'
  BY DEF Goes, LockInv, TypeOK, entries
<1>3. \A d \in Call : (HasTried(d) => HasTried(d)') /\ (Registered(d) => Registered(d)')
  BY <1>1 DEF HasTried, Registered
<1>4. \A d : Sharers(d)' = Sharers(d)
  BY DEF Sharers
<1>5. NamesAreTried'
  BY <1>3, LockAssumption DEF LockInv, NamesAreTried, OutOfUse, Alive, Exists
<1>6. EntriesAreExact'
  BY <1>1, <1>3, EntriesKept DEF LockInv
<1>7. OwnersHaveFile'
  BY <1>1, <1>4 DEF LockInv, OwnersHaveFile, Owns, Alive, Exists, entries
<1> QED
  BY <1>2, <1>5, <1>6, <1>7 DEF LockInv

LEMMA InitHolds == LockInit => LockInv
<1> SUFFICES ASSUME LockInit PROVE LockInv
  OBVIOUS
<1>1. TypeOK
  BY LockAssumption DEF LockInit, TypeOK, Places
<1>2. NamesAreTried
  BY LockAssumption DEF LockInit, NamesAreTried, Exists
<1>3. EntriesAreExact
  BY LockAssumption DEF LockInit, EntriesAreExact
<1>4. OwnersHaveFile
  BY LockAssumption DEF LockInit, OwnersHaveFile, Owns, Sharers
<1> QED
  BY <1>1, <1>2, <1>3, <1>4 DEF LockInv

LEMMA SharesKeeps ==
  ASSUME LockInv, NEW c \in Call, Shares(c)
  PROVE  LockInv'
<1>1. PICK e \in Call : e = held[ProcOf[c]]
  BY LockAssumption DEF Shares, LockInv, TypeOK
<1>2. /\ call[c] = "new" /\ lock[c] = None /\ Goes(c, "holds") /\ Alive(c)
      /\ count' = [count EXCEPT ![e] = @ + 1] /\ lock' = [lock EXCEPT ![c] = e]
      /\ UNCHANGED <<file, alive, held, closing, judged, cleaner, forfeit>>
  BY <1>1 DEF Shares, At, LockInv, EntriesAreExact
<1>3. \A d \in Call : /\ call'[d] = IF d = c THEN "holds" ELSE call[d]
                      /\ lock'[d] = IF d = c THEN e ELSE lock[d]
                      /\ count'[d] = IF d = e THEN count[d] + 1 ELSE count[d]
  BY <1>2 DEF Goes, LockInv, TypeOK
<1>4. TypeOK'
  BY <1>2 DEF Goes, LockInv, TypeOK, Places
<1>5. \A d \in Call : (HasTried(d) => HasTried(d)') /\ (Registered(d) => Registered(d)')
  BY <1>2, <1>3 DEF HasTried, Registered
<1>6. NamesAreTried'
  BY <1>2, <1>5 DEF LockInv, NamesAreTried, OutOfUse, Alive, Exists
<1>7. /\ Sharers(e)' = Sharers(e) \cup {c} /\ c \notin Sharers(e)
      /\ \A d \in Call \ {e} : Sharers(d)' = Sharers(d)
  BY <1>2, <1>3, LockAssumption DEF Sharers
<1>8. Cardinality(Sharers(e)') = Cardinality(Sharers(e)) + 1
  BY <1>7, SharersAreFinite, FS_AddElement
<1>9. ProcOf[e] = ProcOf[c] /\ Registered(e) /\ e \notin closing
  BY <1>1, LockAssumption DEF LockInv, EntriesAreExact
<1>10. EntriesAreExact'
  <2>1. \A d \in Call, p \in Proc : held[p] = d => count'[d] = Cardinality(Sharers(d)')
    <3> SUFFICES ASSUME NEW d \in Call, NEW p \in Proc, held[p] = d
                 PROVE  count'[d] = Cardinality(Sharers(d)')
      OBVIOUS
    <3>1. count[d] = Cardinality(Sharers(d))
      BY DEF LockInv, EntriesAreExact
    <3>2. CASE d = e
      BY <1>3, <1>8, <3>1, <3>2
    <3>3. CASE d # e
      BY <1>3, <1>7, <3>1, <3>3
    <3> QED
      BY <3>2, <3>3
  <2>2. \A d \in Call, p \in Proc : held'[p] = d =>
          ProcOf[d] = p /\ p \in alive' /\ Registered(d)' /\ count'[d] = Cardinality(Sharers(d)')
    BY <1>2, <1>5, <2>1 DEF LockInv, EntriesAreExact
  <2>3. \A d \in Call : d \in closing' => held'[ProcOf[d]] # d /\ Registered(d)'
    BY <1>2, <1>5 DEF LockInv, EntriesAreExact
  <2>4. \A d \in Call : d \in closing' /\ d \notin forfeit' => Sharers(d)' = {}
    BY <1>2, <1>7, <1>9 DEF LockInv, EntriesAreExact
  <2>5. \A d, b \in Call : lock'[b] = d => ProcOf[d] = ProcOf[b] /\ Registered(d)'
    BY <1>3, <1>5, <1>9 DEF LockInv, EntriesAreExact
  <2>6. \A b \in Call : call'[b] = "holds" <=> lock'[b] # None
    BY <1>3, LockAssumption DEF LockInv, EntriesAreExact
  <2> QED
    BY <2>2, <2>3, <2>4, <2>5, <2>6 DEF EntriesAreExact
<1>11. OwnersHaveFile'
  <2>1. \A d \in Call : Owns(d)' => Owns(d)
    BY <1>1, <1>2, <1>3, <1>7, <1>9 DEF Owns, Alive
  <2> QED
    BY <1>2, <2>1 DEF LockInv, OwnersHaveFile, Exists
<1> QED
  BY <1>4, <1>6, <1>10, <1>11 DEF LockInv

LEMMA OpensKeeps ==
  ASSUME LockInv, NEW c \in Call, Opens(c)
  PROVE  LockInv'
<1>1. call[c] \in {"opens", "retries"} /\ ~HasTried(c) /\ call[c] # "holds"
  BY DEF Opens, At, HasTried
<1>2. CASE Exists
  <2>1. Goes(c, "reads") /\ UNCHANGED <<file, judged>>
    BY <1>2 DEF Opens, MayCreate
  <2> QED
    BY <1>1, <2>1, QuietKeeps DEF Opens, LockInv, TypeOK, Places
<1>3. CASE ~Exists
  <2>1. /\ file' = [by |-> c, written |-> FALSE, old |-> FALSE] /\ Goes(c, "writes")
        /\ UNCHANGED <<alive, held, count, closing, lock, judged, cleaner, forfeit>>
    BY <1>3 DEF Opens, MayCreate, NewFile, entries
  <2>2. \A d \in Call : call'[d] = IF d = c THEN "writes" ELSE call[d]
    BY <2>1 DEF Goes, LockInv, TypeOK
  <2>3. file' \in Files /\ file' # None /\ file'.by = c
    <3>1. [by |-> c, written |-> FALSE, old |-> FALSE] \in Files
      BY DEF Files
    <3> QED
      BY <2>1, <3>1, LockAssumption
  <2>4. TypeOK'
    BY <2>1, <2>3 DEF Goes, LockInv, TypeOK, Places
  <2>5. \A d \in Call : /\ HasTried(d) => HasTried(d)' /\ d # c
                        /\ Registered(d) => Registered(d)'
    BY <1>1, <2>2 DEF HasTried, Registered
  <2>6. \A d \in Call : HasTried(d) /\ OutOfUse(d) => OutOfUse(d)'
    BY <2>1, <2>3, <2>5 DEF OutOfUse, Alive
  <2>7. NamesAreTried'
    BY <2>1, <2>2, <2>3, <2>5, <2>6 DEF LockInv, NamesAreTried, TypeOK, HasTried
  <2>8. \A d : Sharers(d)' = Sharers(d)
    BY <2>1 DEF Sharers
  <2>9. EntriesAreExact'
    BY <1>1, <2>1, <2>2, <2>5, EntriesKept DEF LockInv, entries
  <2>10. \A d \in Call : Owns(d)' => Owns(d) \/ d = c
    BY <2>1, <2>2, <2>8 DEF Owns, Alive
  <2>11. OwnersHaveFile'
    BY <1>3, <2>1, <2>3, <2>10 DEF LockInv, OwnersHaveFile, Exists
  <2> QED
    BY <2>4, <2>7, <2>9, <2>11 DEF LockInv
<1> QED
  BY <1>2, <1>3

LEMMA WritesKeeps ==
  ASSUME LockInv, NEW c \in Call, Writes(c)
  PROVE  LockInv'
<1>1. /\ call[c] = "writes" /\ Goes(c, "registers")
      /\ UNCHANGED <<alive, entries, lock, judged, cleaner, forfeit>>
      /\ file' = IF Exists /\ file.by = c THEN [file EXCEPT !.written = TRUE] ELSE file
  BY DEF Writes, At
<1>2. /\ file' \in Files \cup {None} /\ (Exists' <=> Exists)
      /\ Exists => file'.by = file.by /\ file'.old = file.old
  <2>1. CASE Exists /\ file.by = c
    <3>1. file' \in Files /\ file'.by = file.by /\ file'.old = file.old
      BY <1>1, <2>1 DEF Files, Exists, LockInv, TypeOK
    <3> QED
      BY <2>1, <3>1, LockAssumption DEF Exists
  <2>2. CASE ~(Exists /\ file.by = c)
    BY <1>1, <2>2 DEF Exists, LockInv, TypeOK
  <2> QED
    BY <2>1, <2>2
<1>3. \A d \in Call : call'[d] = IF d = c THEN "registers" ELSE call[d]
  BY <1>1 DEF Goes, LockInv, TypeOK
<1>4. TypeOK'
  BY <1>1, <1>2 DEF Goes, LockInv, TypeOK, Places, entries
<1>5. \A d \in Call : /\ (HasTried(d) => HasTried(d)') /\ (Registered(d) => Registered(d)')
                      /\ (call'[d] = "holds" <=> call[d] = "holds")
  BY <1>1, <1>3 DEF HasTried, Registered
<1>6. NamesAreTried'
  BY <1>1, <1>2, <1>5 DEF LockInv, NamesAreTried, OutOfUse, Alive
<1>7. EntriesAreExact'
  BY <1>1, <1>5, EntriesKept DEF LockInv
<1>8. OwnersHaveFile'
  BY <1>1, <1>2, <1>3 DEF LockInv, OwnersHaveFile, Owns, Alive, entries, Sharers
<1> QED
  BY <1>4, <1>6, <1>7, <1>8 DEF LockInv

(* A file that is removed on behalf of a call, of the last sharer of an      *)
(* entry or of the cleaner: the entries stay as they are.                    *)
LEMMA FileGone ==
  ASSUME LockInv, NEW meant \in Call \cup {None}, Remove(meant),
         meant \in Call => OutOfUse(meant) \/ ~Owns(meant) \/ meant \in forfeit,
         UNCHANGED <<alive, held, count, lock>>, closing' \subseteq closing, TypeOK',
         \A d \in Call : /\ judged'[d] = judged[d] \/ judged'[d] = None
                         /\ HasTried(d) => HasTried(d)'
                         /\ Registered(d) => Registered(d)'
                         /\ call'[d] = "holds" <=> call[d] = "holds"
                         /\ call'[d] \in {"writes", "registers"} => call'[d] = call[d],
         cleaner' = cleaner \/ cleaner'.judged = None
  PROVE  LockInv'
<1>1. ~Exists' /\ forfeit \subseteq forfeit'
  BY DEF Remove, Exists
<1>2. NamesAreTried'
  BY <1>1, LockAssumption DEF LockInv, NamesAreTried, OutOfUse
<1>3. \A d : Sharers(d)' = Sharers(d)
  BY DEF Sharers
<1>4. EntriesAreExact'
  BY <1>1, <1>3 DEF LockInv, EntriesAreExact
<1>5. \A d \in Call : Owns(d)' => Owns(d)
  BY <1>3 DEF Owns, Alive
<1>6. OwnersHaveFile'
  <2> SUFFICES ASSUME NEW e \in Call, Owns(e)', e \notin forfeit' PROVE FALSE
    BY DEF OwnersHaveFile
  <2>1. Owns(e)
    BY <1>5
  <2>2. meant = e => OutOfUse(e)
    BY <1>1, <2>1
  <2> QED
    BY <2>1, <2>2, RemoveKeeps
<1> QED
  BY <1>2, <1>4, <1>6 DEF LockInv

LEMMA UndoesKeeps ==
  ASSUME LockInv, NEW c \in Call, Undoes(c)
  PROVE  LockInv'
<1>1. /\ call[c] = "undoes" /\ Remove(c) /\ Goes(c, "failed")
      /\ UNCHANGED <<alive, held, count, closing, lock, judged, cleaner>>
  BY DEF Undoes, At, entries
<1>2. \A d \in Call : call'[d] = IF d = c THEN "failed" ELSE call[d]
  BY <1>1 DEF Goes, LockInv, TypeOK
<1>3. ~Owns(c)
  BY <1>1, OwnersPlace DEF Registered
<1>4. TypeOK'
  BY <1>1 DEF Goes, LockInv, TypeOK, Places, Remove, Exists, Files
<1> QED
  BY <1>1, <1>2, <1>3, <1>4, FileGone DEF HasTried, Registered

LEMMA RemovesKeeps ==
  ASSUME LockInv, NEW c \in Call, Removes(c)
  PROVE  LockInv'
<1>1. /\ call[c] = "removes" /\ Remove(judged[c]) /\ Goes(c, "retries")
      /\ judged' = [judged EXCEPT ![c] = None]
      /\ UNCHANGED <<alive, held, count, closing, lock, cleaner>>
  BY DEF Removes, At, entries
<1>2. \A d \in Call : /\ call'[d] = IF d = c THEN "retries" ELSE call[d]
                      /\ judged'[d] = IF d = c THEN None ELSE judged[d]
  BY <1>1 DEF Goes, LockInv, TypeOK
<1>3. judged[c] \in Call \cup {None} /\ (judged[c] \in Call => OutOfUse(judged[c]))
  BY DEF LockInv, TypeOK, NamesAreTried
<1>4. TypeOK'
  BY <1>1 DEF Goes, LockInv, TypeOK, Places, Remove, Exists, Files
<1> QED
  BY <1>1, <1>2, <1>3, <1>4, FileGone DEF HasTried, Registered

LEMMA RemovesReleasedKeeps ==
  ASSUME LockInv, NEW e \in Call, RemovesReleased(e)
  PROVE  LockInv'
<1>1. /\ e \in closing /\ closing' = closing \ {e} /\ Remove(e)
      /\ UNCHANGED <<alive, held, count, call, lock, judged, cleaner>>
  BY DEF RemovesReleased
<1>2. TypeOK'
  BY <1>1 DEF LockInv, TypeOK, Remove, Exists, Files
<1>3. ~Owns(e) \/ e \in forfeit
  <2>1. held[ProcOf[e]] # e /\ Registered(e) /\ (e \notin forfeit => Sharers(e) = {})
    BY <1>1 DEF LockInv, EntriesAreExact
  <2> QED
    BY <2>1 DEF Owns, Registered
<1> QED
  BY <1>1, <1>2, <1>3, FileGone DEF HasTried, Registered

(* Names of dead owners and of old files are safe to remove: the judgement   *)
(* stays true of them.                                                       *)
LEMMA JudgesKeeps ==
  ASSUME LockInv, NEW c \in Call, call[c] \in {"reads", "stats"}, Exists,
         ~Alive(file.by) \/ file.old, Judges(c),
         UNCHANGED <<file, alive, entries, lock, cleaner, forfeit>>
  PROVE  LockInv'
<1>1. file.by \in Call /\ HasTried(file.by) /\ OutOfUse(file.by)
  BY DEF LockInv, TypeOK, NamesAreTried, OutOfUse, Exists, Files
<1>2. judged' \in [Call -> Call \cup {None}]
      /\ \A d \in Call : judged'[d] = judged[d] \/ judged'[d] = file.by
  BY <1>1 DEF Judges, LockInv, TypeOK
<1>3. Goes(c, "removes")
  BY DEF Judges
<1> QED
  BY <1>1, <1>2, <1>3, QuietKeeps DEF HasTried, Places

LEMMA ReadsKeeps ==
  ASSUME LockInv, HasStarttime, NEW c \in Call, Reads(c) \/ Stats(c)
  PROVE  LockInv'
<1>1. UNCHANGED <<file, alive, entries, lock, cleaner, forfeit>>
  BY DEF Reads, Stats
<1>2. call[c] \in {"reads", "stats"}
  BY DEF Reads, Stats, At
<1>3. CASE Judges(c) /\ Exists /\ (~Alive(file.by) \/ file.old)
  BY <1>1, <1>2, <1>3, JudgesKeeps
<1>4. CASE UNCHANGED judged /\ (Goes(c, "stats") \/ Goes(c, "retries"))
  <2>1. judged' \in [Call -> Call \cup {None}] /\ judged' = judged
    BY <1>4 DEF LockInv, TypeOK
  <2> QED
    BY <1>1, <1>2, <1>4, <2>1, QuietKeeps DEF HasTried, Places
<1>5. \/ Judges(c) /\ Exists /\ (~Alive(file.by) \/ file.old)
      \/ UNCHANGED judged /\ (Goes(c, "stats") \/ Goes(c, "retries"))
  BY DEF Reads, Stats, Stale, OrphanSelf, Unreadable, OldFile
<1> QED
  BY <1>3, <1>4, <1>5

LEMMA RegistersKeeps ==
  ASSUME LockInv, NEW c \in Call, Registers(c)
  PROVE  LockInv'
<1>1. /\ call[c] = "registers" /\ Goes(c, "holds") /\ c \in Call /\ ProcOf[c] \in Proc
      /\ ProcOf[c] \in alive
      /\ held' = [held EXCEPT ![ProcOf[c]] = c]
      /\ count' = [count EXCEPT ![c] = 1] /\ lock' = [lock EXCEPT ![c] = c]
      /\ UNCHANGED <<file, alive, closing, judged, cleaner, forfeit>>
  BY LockAssumption DEF Registers, At, Alive
<1>2. \A d \in Call : /\ call'[d] = IF d = c THEN "holds" ELSE call[d]
                      /\ lock'[d] = IF d = c THEN c ELSE lock[d]
                      /\ count'[d] = IF d = c THEN 1 ELSE count[d]
  BY <1>1 DEF Goes, LockInv, TypeOK
<1>3. \A p \in Proc : held'[p] = IF p = ProcOf[c] THEN c ELSE held[p]
  BY <1>1 DEF LockInv, TypeOK
<1>4. TypeOK'
  BY <1>1 DEF Goes, LockInv, TypeOK, Places
<1>5. \A d \in Call : (HasTried(d) => HasTried(d)') /\ (Registered(d) => Registered(d)')
  BY <1>1, <1>2 DEF HasTried, Registered
<1>6. NamesAreTried'
  BY <1>1, <1>5 DEF LockInv, NamesAreTried, OutOfUse, Alive, Exists
<1>7. \A d \in Call : lock[d] # c /\ (c \in closing => FALSE) /\ lock[c] = None
  BY <1>1 DEF LockInv, EntriesAreExact, Registered
<1>8. Sharers(c)' = {c} /\ \A d \in Call \ {c} : Sharers(d)' = Sharers(d)
  BY <1>1, <1>2, <1>7, LockAssumption DEF Sharers
<1>9. Cardinality(Sharers(c)') = 1
  BY <1>8, FS_Singleton
<1>10. EntriesAreExact'
  <2>1. \A d \in Call, p \in Proc : held'[p] = d => count'[d] = Cardinality(Sharers(d)')
    BY <1>2, <1>3, <1>8, <1>9 DEF LockInv, EntriesAreExact
  <2>2. \A d \in Call, p \in Proc : held'[p] = d =>
          ProcOf[d] = p /\ p \in alive /\ Registered(d)'
    BY <1>1, <1>2, <1>3, <1>5 DEF LockInv, EntriesAreExact, Registered
  <2>3. \A d \in Call : d \in closing =>
          /\ held'[ProcOf[d]] # d /\ Registered(d)'
          /\ d \notin forfeit => Sharers(d)' = {}
    BY <1>3, <1>5, <1>7, <1>8, LockAssumption DEF LockInv, EntriesAreExact
  <2>4. \A d, x \in Call : lock'[x] = d => ProcOf[d] = ProcOf[x] /\ Registered(d)'
    BY <1>2, <1>5 DEF LockInv, EntriesAreExact, Registered
  <2>5. \A x \in Call : call'[x] = "holds" <=> lock'[x] # None
    BY <1>2, LockAssumption DEF LockInv, EntriesAreExact
  <2> QED
    BY <1>1, <2>1, <2>2, <2>3, <2>4, <2>5 DEF EntriesAreExact
<1>11. OwnersHaveFile'
  <2>1. Owns(c)
    BY <1>1 DEF Owns, Alive
  <2>2. \A d \in Call : Owns(d)' => Owns(d)
    BY <1>1, <1>2, <1>3, <1>8, <2>1, LockAssumption DEF Owns, Alive
  <2> QED
    BY <1>1, <2>2 DEF LockInv, OwnersHaveFile, Exists
<1> QED
  BY <1>4, <1>6, <1>10, <1>11 DEF LockInv

LEMMA ReleasesKeeps ==
  ASSUME LockInv, NEW c \in Call, Releases(c)
  PROVE  LockInv'
<1>1. PICK e \in Call : e = lock[c]
  BY DEF Releases, At, LockInv, TypeOK, EntriesAreExact
<1>2. /\ call[c] = "holds" /\ Goes(c, "released") /\ lock' = [lock EXCEPT ![c] = None]
      /\ UNCHANGED <<file, alive, judged, cleaner, forfeit>>
      /\ ProcOf[c] = ProcOf[e] /\ ProcOf[e] \in Proc /\ Registered(e)
  BY <1>1, LockAssumption DEF Releases, At, LockInv, EntriesAreExact
<1>3. \A d \in Call : /\ call'[d] = IF d = c THEN "released" ELSE call[d]
                      /\ lock'[d] = IF d = c THEN None ELSE lock[d]
  BY <1>2 DEF Goes, LockInv, TypeOK
<1>4. \A d \in Call : (HasTried(d) => HasTried(d)') /\ (Registered(d) => Registered(d)')
  BY <1>2, <1>3 DEF HasTried, Registered
<1>5. NamesAreTried'
  BY <1>2, <1>4 DEF LockInv, NamesAreTried, OutOfUse, Alive, Exists
<1>6. /\ c \in Sharers(e) /\ Sharers(e)' = Sharers(e) \ {c}
      /\ \A d \in Call \ {e} : Sharers(d)' = Sharers(d)
  BY <1>1, <1>3, LockAssumption DEF Sharers
<1>7. /\ Cardinality(Sharers(e)') = Cardinality(Sharers(e)) - 1
      /\ Cardinality(Sharers(e)) \in Nat \ {0}
      /\ Cardinality(Sharers(e)) = 1 => Sharers(e)' = {}
  <2>1. IsFiniteSet(Sharers(e)) /\ Cardinality(Sharers(e)) \in Nat
    BY SharersAreFinite
  <2>2. Cardinality(Sharers(e)') = Cardinality(Sharers(e)) - 1
        /\ IsFiniteSet(Sharers(e)') /\ Cardinality(Sharers(e)') \in Nat
    BY <1>6, <2>1, FS_RemoveElement, FS_CardinalityType
  <2>3. Cardinality(Sharers(e)') = 0 => Sharers(e)' = {}
    BY <2>2, FS_EmptySet
  <2> QED
    BY <2>1, <2>2, <2>3
<1>8. /\ \A x \in Call : call'[x] = "holds" <=> lock'[x] # None
      /\ \A d, x \in Call : lock'[x] = d => ProcOf[d] = ProcOf[x] /\ Registered(d)'
  BY <1>1, <1>3, <1>4, LockAssumption DEF LockInv, EntriesAreExact
<1>9. CASE held[ProcOf[c]] # e
  <2>1. UNCHANGED <<held, count, closing>>
    BY <1>1, <1>9 DEF Releases, entries
  <2>2. TypeOK'
    BY <1>2, <2>1 DEF Goes, LockInv, TypeOK, Places
  <2>3. EntriesAreExact'
    BY <1>2, <1>4, <1>6, <1>8, <1>9, <2>1 DEF LockInv, EntriesAreExact
  <2>4. OwnersHaveFile'
    <3>1. \A d \in Call : Owns(d)' => Owns(d)
      BY <1>2, <1>3, <1>6, <2>1 DEF Owns, Alive
    <3> QED
      BY <1>2, <3>1 DEF LockInv, OwnersHaveFile, Exists
  <2> QED
    BY <1>5, <2>2, <2>3, <2>4 DEF LockInv
<1>10. CASE held[ProcOf[c]] = e
  <2>1. count[e] = Cardinality(Sharers(e)) /\ e \notin closing
        /\ \A p \in Proc : held[p] = e => p = ProcOf[e]
    BY <1>2, <1>10 DEF LockInv, EntriesAreExact
  <2>2. /\ count' = [count EXCEPT ![e] = @ - 1]
        /\ IF count[e] = 1
           THEN held' = [held EXCEPT ![ProcOf[e]] = None] /\ closing' = closing \cup {e}
           ELSE UNCHANGED <<held, closing>>
    BY <1>1, <1>2, <1>10 DEF Releases, LastShare
  <2>3. /\ \A d \in Call : count'[d] = IF d = e THEN count[d] - 1 ELSE count[d]
        /\ count' \in [Call -> Nat]
    BY <1>7, <2>1, <2>2 DEF LockInv, TypeOK
  <2>4. \A p \in Proc : held'[p] = held[p] \/ (held'[p] = None /\ p = ProcOf[e] /\ count[e] = 1)
    BY <2>2 DEF LockInv, TypeOK
  <2>5. TypeOK'
    BY <1>2, <2>2, <2>3 DEF Goes, LockInv, TypeOK, Places
  <2>6. EntriesAreExact'
    <3>1. \A d \in Call, p \in Proc : held'[p] = d =>
            /\ ProcOf[d] = p /\ p \in alive' /\ Registered(d)'
            /\ count'[d] = Cardinality(Sharers(d)')
      <4>1. \A d \in Call, p \in Proc : held'[p] = d => held[p] = d
        BY <2>4, LockAssumption
      <4>2. \A d \in Call, p \in Proc : held[p] = d =>
              ProcOf[d] = p /\ p \in alive /\ Registered(d)
              /\ count[d] = Cardinality(Sharers(d))
        BY DEF LockInv, EntriesAreExact
      <4>3. \A d \in Call : count[d] = Cardinality(Sharers(d)) =>
              count'[d] = Cardinality(Sharers(d)')
        BY <1>6, <1>7, <2>1, <2>3
      <4> QED
        BY <1>2, <1>4, <4>1, <4>2, <4>3
    <3>2. \A d \in Call : d \in closing' =>
            /\ held'[ProcOf[d]] # d /\ Registered(d)'
            /\ d \notin forfeit' => Sharers(d)' = {}
      <4> SUFFICES ASSUME NEW d \in Call, d \in closing'
                   PROVE  /\ held'[ProcOf[d]] # d /\ Registered(d)'
                          /\ d \notin forfeit' => Sharers(d)' = {}
        OBVIOUS
      <4>1. CASE d = e
        <5>1. count[e] = 1 /\ held'[ProcOf[e]] = None
          BY <1>2, <2>1, <2>2, <4>1 DEF LockInv, TypeOK
        <5> QED
          BY <1>2, <1>4, <1>7, <2>1, <4>1, <5>1, LockAssumption
      <4>2. CASE d # e
        <5>1. d \in closing
          BY <2>2, <4>2
        <5> QED
          BY <1>2, <1>4, <1>6, <2>4, <4>2, <5>1, LockAssumption DEF LockInv, EntriesAreExact
      <4> QED
        BY <4>1, <4>2
    <3> QED
      BY <1>8, <3>1, <3>2 DEF EntriesAreExact
  <2>7. OwnersHaveFile'
    <3>1. \A d \in Call : Owns(d)' => Owns(d)
      BY <1>2, <1>3, <1>6, <2>4, LockAssumption DEF Owns, Alive
    <3> QED
      BY <1>2, <3>1 DEF LockInv, OwnersHaveFile, Exists
  <2> QED
    BY <1>5, <2>5, <2>6, <2>7 DEF LockInv
<1> QED
  BY <1>9, <1>10

(* The watchdog and a signal take the entry from its sharers, which forfeits *)
(* it, and with it the file that a signal removes.                           *)
LEMMA TakenKeeps ==
  ASSUME LockInv, NEW p \in Proc, NEW e \in Call, held[p] = e, TypeOK',
         held' = [held EXCEPT ![p] = None], forfeit \cup {e} \subseteq forfeit',
         \A d \in Call \ {e} : count'[d] = count[d],
         closing' \subseteq closing \cup {e},
         \/ UNCHANGED file
         \/ ~Exists' /\ (Exists => file.by \in forfeit'),
         UNCHANGED <<alive, call, lock, judged, cleaner>>
  PROVE  LockInv'
<1>1. \A q \in Proc : held'[q] = IF q = p THEN None ELSE held[q]
  BY DEF LockInv, TypeOK
<1>2. \A d \in Call : /\ Sharers(d)' = Sharers(d) /\ (Registered(d)' <=> Registered(d))
                      /\ (HasTried(d)' <=> HasTried(d))
  BY DEF Sharers, Registered, HasTried
<1>3. ProcOf[e] = p /\ Registered(e)
  BY DEF LockInv, EntriesAreExact
<1>4. NamesAreTried'
  BY <1>2 DEF LockInv, NamesAreTried, OutOfUse, Alive, Exists
<1>5. EntriesAreExact'
  <2>1. \A d \in Call, q \in Proc : held'[q] = d =>
          /\ d # e /\ ProcOf[d] = q /\ q \in alive' /\ Registered(d)'
          /\ count'[d] = Cardinality(Sharers(d)')
    BY <1>1, <1>2, <1>3, LockAssumption DEF LockInv, EntriesAreExact
  <2>2. \A d \in Call : d \in closing' =>
          /\ held'[ProcOf[d]] # d /\ Registered(d)'
          /\ d \notin forfeit' => Sharers(d)' = {}
    <3>1. \A d \in Call : d \in closing' => d = e \/ d \in closing
      OBVIOUS
    <3>2. held'[ProcOf[e]] # e /\ e \in forfeit'
      BY <1>1, <1>3, LockAssumption
    <3> QED
      BY <1>1, <1>2, <1>3, <3>1, <3>2, LockAssumption DEF LockInv, EntriesAreExact
  <2> QED
    BY <1>2, <2>1, <2>2 DEF LockInv, EntriesAreExact
<1>6. OwnersHaveFile'
  <2>1. \A d \in Call : Owns(d)' => Owns(d)
    BY <1>1, <1>2, LockAssumption DEF Owns, Alive
  <2> QED
    BY <2>1 DEF LockInv, OwnersHaveFile, Exists
<1> QED
  BY <1>4, <1>5, <1>6 DEF LockInv

LEMMA WatchdogKeeps ==
  ASSUME LockInv, NEW p \in Proc, WatchdogForces(p)
  PROVE  LockInv'
<1>1. PICK e \in Call : e = held[p]
  BY DEF WatchdogForces, LockInv, TypeOK
<1>2. /\ count' = [count EXCEPT ![e] = 0] /\ held' = [held EXCEPT ![p] = None]
      /\ closing' = closing \cup {e} /\ forfeit' = forfeit \cup {e}
      /\ UNCHANGED <<file, alive, call, lock, judged, cleaner>>
  BY <1>1 DEF WatchdogForces
<1>3. TypeOK'
  BY <1>2 DEF LockInv, TypeOK
<1>4. \A d \in Call \ {e} : count'[d] = count[d]
  BY <1>2 DEF LockInv, TypeOK
<1> QED
  BY <1>1, <1>2, <1>3, <1>4, TakenKeeps

LEMMA TerminatesKeeps ==
  ASSUME LockInv, NEW p \in Proc, Terminates(p)
  PROVE  LockInv'
<1>1. PICK e \in Call : e = held[p]
  BY DEF Terminates, LockInv, TypeOK
<1>2. /\ file' = None /\ held' = [held EXCEPT ![p] = None]
      /\ forfeit' = forfeit \cup {e} \cup IF Exists THEN {file.by} ELSE {}
      /\ UNCHANGED <<alive, count, closing, call, lock, judged, cleaner>>
  BY <1>1 DEF Terminates
<1>3. TypeOK'
  BY <1>2 DEF LockInv, TypeOK, Exists, Files
<1>4. ~Exists' /\ (Exists => file.by \in forfeit')
  BY <1>2 DEF Exists
<1> QED
  BY <1>1, <1>2, <1>3, <1>4, TakenKeeps

LEMMA CrashKeeps ==
  ASSUME LockInv, NEW p \in Proc, Crash(p)
  PROVE  LockInv'
<1> DEFINE Lost(c) == ProcOf[c] = p
<1>1. /\ alive' = alive \ {p} /\ held' = [held EXCEPT ![p] = None]
      /\ call' = [c \in Call |-> IF Lost(c) THEN "gone" ELSE call[c]]
      /\ count' = [c \in Call |-> IF Lost(c) THEN 0 ELSE count[c]]
      /\ lock' = [c \in Call |-> IF Lost(c) THEN None ELSE lock[c]]
      /\ judged' = [c \in Call |-> IF Lost(c) THEN None ELSE judged[c]]
      /\ closing' = {e \in closing : ~Lost(e)}
      /\ UNCHANGED <<file, cleaner, forfeit>>
  BY DEF Crash
<1>2. \A q \in Proc : held'[q] = IF q = p THEN None ELSE held[q]
  BY <1>1 DEF LockInv, TypeOK
<1>3. TypeOK'
  BY <1>1 DEF LockInv, TypeOK, Places
<1>4. \A d \in Call : /\ HasTried(d) => HasTried(d)'
                      /\ ~Lost(d) => (Registered(d)' <=> Registered(d))
                      /\ OutOfUse(d) => OutOfUse(d)'
  BY <1>1 DEF HasTried, Registered, OutOfUse, Alive, Exists
<1>5. NamesAreTried'
  BY <1>1, <1>4, LockAssumption DEF LockInv, NamesAreTried, Exists
<1>6. \A c, d \in Call : lock'[c] = d => ~Lost(c) /\ lock[c] = d /\ ~Lost(d)
  BY <1>1, LockAssumption DEF LockInv, EntriesAreExact
<1>7. \A d \in Call : ~Lost(d) => Sharers(d)' = Sharers(d)
  BY <1>1, <1>6 DEF Sharers, LockInv, EntriesAreExact
<1>8. \A d \in Call : Sharers(d)' \subseteq Sharers(d)
  BY <1>6 DEF Sharers
<1>9. EntriesAreExact'
  <2>1. \A d \in Call, q \in Proc : held'[q] = d =>
          /\ ProcOf[d] = q /\ q \in alive' /\ Registered(d)'
          /\ count'[d] = Cardinality(Sharers(d)')
    <3> SUFFICES ASSUME NEW d \in Call, NEW q \in Proc, held'[q] = d
                 PROVE  /\ ProcOf[d] = q /\ q \in alive' /\ Registered(d)'
                        /\ count'[d] = Cardinality(Sharers(d)')
      OBVIOUS
    <3>1. q # p /\ held[q] = d
      BY <1>2, LockAssumption
    <3>2. ProcOf[d] = q /\ q \in alive /\ Registered(d) /\ count[d] = Cardinality(Sharers(d))
      BY <3>1 DEF LockInv, EntriesAreExact
    <3> QED
      BY <1>1, <1>4, <1>7, <3>1, <3>2
  <2>2. \A d \in Call : d \in closing' =>
          /\ held'[ProcOf[d]] # d /\ Registered(d)'
          /\ d \notin forfeit' => Sharers(d)' = {}
    BY <1>1, <1>2, <1>4, <1>7, LockAssumption DEF LockInv, EntriesAreExact
  <2>3. \A d, c \in Call : lock'[c] = d => ProcOf[d] = ProcOf[c] /\ Registered(d)'
    BY <1>4, <1>6 DEF LockInv, EntriesAreExact
  <2>4. \A c \in Call : call'[c] = "holds" <=> lock'[c] # None
    BY <1>1 DEF LockInv, EntriesAreExact
  <2> QED
    BY <2>1, <2>2, <2>3, <2>4 DEF EntriesAreExact
<1>10. OwnersHaveFile'
  <2>1. \A d \in Call : Owns(d)' => Owns(d)
    BY <1>1, <1>2, <1>8, LockAssumption DEF Owns, Alive
  <2> QED
    BY <1>1, <2>1 DEF LockInv, OwnersHaveFile, Exists
<1> QED
  BY <1>3, <1>5, <1>9, <1>10 DEF LockInv

LEMMA AgesKeeps ==
  ASSUME LockInv, Ages
  PROVE  LockInv'
<1>1. /\ file' = [file EXCEPT !.old = TRUE] /\ file \in Files /\ Exists
      /\ UNCHANGED <<alive, entries, call, lock, judged, cleaner, forfeit>>
  BY DEF Ages, LockInv, TypeOK, Exists
<1>2. file' \in Files /\ file'.by = file.by /\ file'.old = TRUE
  BY <1>1 DEF Files
<1>3. Exists'
  BY <1>2, LockAssumption DEF Exists
<1>4. TypeOK'
  BY <1>1, <1>2 DEF LockInv, TypeOK, entries
<1>5. NamesAreTried'
  BY <1>1, <1>2, <1>3 DEF LockInv, NamesAreTried, OutOfUse, HasTried
<1>6. EntriesAreExact'
  BY <1>1, EntriesKept DEF LockInv, Registered
<1>7. OwnersHaveFile'
  BY <1>1, <1>2, <1>3 DEF LockInv, OwnersHaveFile, Owns, Alive, Sharers, entries
<1> QED
  BY <1>4, <1>5, <1>6, <1>7 DEF LockInv

LEMMA CleanKeeps ==
  ASSUME LockInv, Clean
  PROVE  LockInv'
<1>1. CASE CleanerRemoves
  <2>1. /\ Remove(cleaner.judged) /\ cleaner' = [at |-> "ended", judged |-> None]
        /\ UNCHANGED <<alive, held, count, closing, call, lock, judged>>
        /\ cleaner.at = "removes"
    BY <1>1 DEF CleanerRemoves, CleanerAt, entries
  <2>2. cleaner.judged \in Call \cup {None}
        /\ (cleaner.judged \in Call => OutOfUse(cleaner.judged))
    BY <2>1 DEF LockInv, TypeOK, NamesAreTried
  <2>3. TypeOK'
    BY <2>1 DEF LockInv, TypeOK, Remove, Exists, Files
  <2> QED
    BY <2>1, <2>2, <2>3, FileGone DEF HasTried, Registered
<1>2. CASE CleanerLists \/ CleanerReads
  <2>1. /\ UNCHANGED <<file, alive, entries, call, lock, judged, forfeit>>
        /\ cleaner'.at # "removes" => cleaner'.judged = cleaner.judged
                                      \/ (Exists /\ cleaner'.judged = file.by)
                                      \/ cleaner'.judged = None
        /\ cleaner'.at = "removes" =>
             \/ cleaner'.judged = None
             \/ Exists /\ cleaner'.judged = file.by /\ (~Alive(file.by) \/ file.old)
    BY <1>2 DEF CleanerLists, CleanerReads, Unreadable, CleanerAt, LockInv, TypeOK
  <2>2. TypeOK'
    BY <1>2, <2>1 DEF CleanerLists, CleanerReads, CleanerAt, LockInv, TypeOK, entries,
                      Unreadable, Exists, Files
  <2>3. NamesAreTried'
    BY <2>1, LockAssumption DEF LockInv, NamesAreTried, OutOfUse, HasTried, Alive, Exists
  <2>4. EntriesAreExact'
    BY <2>1, EntriesKept DEF LockInv, Registered
  <2>5. OwnersHaveFile'
    BY <2>1 DEF LockInv, OwnersHaveFile, Owns, Alive, Sharers, entries, Exists
  <2> QED
    BY <2>2, <2>3, <2>4, <2>5 DEF LockInv
<1> QED
  BY <1>1, <1>2 DEF Clean
-----------------------------------------------------------------------------
(* LockInv is an invariant where start times are known.                      *)
THEOREM LockInvariant == HasStarttime => (LockSpec => []LockInv)
<1> SUFFICES ASSUME HasStarttime PROVE LockSpec => []LockInv
  OBVIOUS
<1>1. LockInv /\ [LockNext]_lockVars => LockInv'
  <2> SUFFICES ASSUME LockInv, [LockNext]_lockVars PROVE LockInv'
    OBVIOUS
  <2>1. ASSUME NEW c \in Call, Acquire(c) \/ WriteFails(c) \/ TimesOut(c) \/ Releases(c)
        PROVE  LockInv'
    <3>1. CASE Tries(c) \/ WriteFails(c) \/ TimesOut(c)
      <4>1. /\ UNCHANGED <<file, alive, entries, lock, judged, cleaner, forfeit>>
            /\ \/ call[c] = "new" /\ Goes(c, "opens")
               \/ call[c] = "writes" /\ Goes(c, "undoes")
               \/ call[c] = "retries" /\ Goes(c, "failed")
        BY <3>1 DEF Tries, WriteFails, TimesOut, At
      <4>2. judged' \in [Call -> Call \cup {None}] /\ judged' = judged
        BY <4>1 DEF LockInv, TypeOK
      <4> QED
        BY <4>1, <4>2, QuietKeeps DEF HasTried, Places
    <3>2. CASE Shares(c) \/ Opens(c) \/ Writes(c) \/ Undoes(c) \/ Registers(c)
      BY <3>2, SharesKeeps, OpensKeeps, WritesKeeps, UndoesKeeps, RegistersKeeps
    <3>3. CASE Reads(c) \/ Stats(c) \/ Removes(c) \/ Releases(c)
      BY <3>3, ReadsKeeps, RemovesKeeps, ReleasesKeeps
    <3> QED
      BY <2>1, <3>1, <3>2, <3>3 DEF Acquire
  <2>2. CASE UNCHANGED lockVars
    <3>1. TypeOK' /\ NamesAreTried'
      BY <2>2 DEF lockVars, LockInv, TypeOK, NamesAreTried, HasTried, OutOfUse, Alive, Exists, entries
    <3>2. EntriesAreExact'
      <4>1. UNCHANGED <<alive, entries, call, lock, forfeit>>
        BY <2>2 DEF lockVars, entries
      <4> QED
        BY <4>1, EntriesKept DEF LockInv, Registered, entries
    <3>3. OwnersHaveFile'
      BY <2>2 DEF lockVars, LockInv, OwnersHaveFile, Owns, Alive, Sharers, entries, Exists
    <3> QED
      BY <3>1, <3>2, <3>3 DEF LockInv
  <2> QED
    BY <2>1, <2>2, RemovesReleasedKeeps, WatchdogKeeps, TerminatesKeeps, CrashKeeps, AgesKeeps,
       CleanKeeps DEF LockNext
<1> QED
  BY <1>1, InitHolds, PTL DEF LockSpec

(* A call that holds the session's lock finds the file of its own entry at   *)
(* the path, unless the entry was taken in one of the ways forfeit lists.    *)
THEOREM HoldersKeepTheirFile == HasStarttime => (LockSpec => []HolderHasFile)
<1>1. LockInv => HolderHasFile
  <2> SUFFICES ASSUME LockInv, NEW c \in Call, At(c, "holds"), lock[c] \notin forfeit
               PROVE  Exists /\ file.by = lock[c]
    BY DEF HolderHasFile
  <2>1. PICK e \in Call : e = lock[c]
    BY DEF LockInv, TypeOK, EntriesAreExact, At
  <2>2. c \in Sharers(e) /\ ProcOf[e] = ProcOf[c]
    BY <2>1 DEF Sharers, LockInv, EntriesAreExact
  <2>3. Owns(e)
    BY <2>2 DEF Owns, At, Alive
  <2> QED
    BY <2>1, <2>3 DEF LockInv, OwnersHaveFile
<1> QED
  BY <1>1, LockInvariant, PTL

(* Two calls that hold the lock share one entry, so they are of one process: *)
(* the lock excludes other processes and later entries while it is not       *)
(* forfeited.                                                                *)
THEOREM OneEntryAtATime ==
  HasStarttime =>
    (LockSpec => [](\A c, d \in Call :
                  At(c, "holds") /\ At(d, "holds")
                  /\ lock[c] \notin forfeit /\ lock[d] \notin forfeit
                  => lock[c] = lock[d] /\ ProcOf[c] = ProcOf[d]))
<1>1. LockInv /\ HolderHasFile =>
        \A c, d \in Call :
          At(c, "holds") /\ At(d, "holds") /\ lock[c] \notin forfeit /\ lock[d] \notin forfeit
          => lock[c] = lock[d] /\ ProcOf[c] = ProcOf[d]
  BY LockAssumption DEF LockInv, EntriesAreExact, TypeOK, HolderHasFile, At
<1> QED
  BY <1>1, LockInvariant, HoldersKeepTheirFile, PTL
=============================================================================
