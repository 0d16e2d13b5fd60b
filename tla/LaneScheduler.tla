---------------------------- MODULE LaneScheduler ----------------------------
(***************************************************************************)
(* What the command queue promises its callers, without saying how: each   *)
(* lane is a FIFO executor with a cap that never leaves a free slot idle   *)
(* while a command waits.  CommandQueue, with its call stack, draining     *)
(* flags and generations, implements it (see CommandQueueRefinement).      *)
(***************************************************************************)
EXTENDS Naturals, Sequences, FiniteSets

CONSTANTS Cmd, Lane, LaneOf

VARIABLES
  queue,      \* per lane, the accepted commands that have not started
  running,    \* per lane, the started commands that hold a slot
  cap,        \* per lane, the number of slots
  accepting,  \* whether new commands are accepted
  status      \* per command, as its caller sees it

avars == <<queue, running, cap, accepting, status>>

Init ==
  /\ queue = [l \in Lane |-> <<>>]
  /\ running = [l \in Lane |-> {}]
  /\ cap = [l \in Lane |-> 1]
  /\ accepting = TRUE
  /\ status = [c \in Cmd |-> "idle"]

Submit(c) ==
  /\ status[c] = "idle" /\ accepting
  /\ queue' = [queue EXCEPT ![LaneOf[c]] = Append(@, c)]
  /\ status' = [status EXCEPT ![c] = "queued"]
  /\ UNCHANGED <<running, cap, accepting>>

Refuse(c) ==
  /\ status[c] = "idle" /\ ~accepting
  /\ status' = [status EXCEPT ![c] = "refused"]
  /\ UNCHANGED <<queue, running, cap, accepting>>

(* The oldest command of a lane with a free slot starts. *)
Start(l) ==
  /\ queue[l] # <<>>
  /\ Cardinality(running[l]) < cap[l]
  /\ queue' = [queue EXCEPT ![l] = Tail(@)]
  /\ running' = [running EXCEPT ![l] = @ \cup {Head(queue[l])}]
  /\ status' = [status EXCEPT ![Head(queue[l])] = "running"]
  /\ UNCHANGED <<cap, accepting>>

(* A command ends and gives back the slot it holds, if it still holds one. *)
Finish(c) ==
  /\ status[c] = "running"
  /\ \E outcome \in {"resolved", "rejected"} :
       status' = [status EXCEPT ![c] = outcome]
  /\ running' = [running EXCEPT ![LaneOf[c]] = @ \ {c}]
  /\ UNCHANGED <<queue, cap, accepting>>

Clear(l) ==
  /\ queue' = [queue EXCEPT ![l] = <<>>]
  /\ status' = [c \in Cmd |-> IF \E i \in DOMAIN queue[l] : queue[l][i] = c
                                THEN "cleared" ELSE status[c]]
  /\ UNCHANGED <<running, cap, accepting>>

SetCap(l) ==
  /\ cap' = [cap EXCEPT ![l] = cap'[l]] /\ cap'[l] \in Nat \ {0}
  /\ UNCHANGED <<queue, running, accepting, status>>

StopAccepting ==
  /\ accepting' = FALSE
  /\ UNCHANGED <<queue, running, cap, status>>

(* After an in-process restart every slot is free again and waiting         *)
(* commands keep their place.                                               *)
Restart ==
  /\ accepting' = TRUE
  /\ running' = [l \in Lane |-> {}]
  /\ UNCHANGED <<queue, cap, status>>

Next ==
  \/ \E c \in Cmd : Submit(c) \/ Refuse(c) \/ Finish(c)
  \/ \E l \in Lane : Start(l) \/ Clear(l) \/ SetCap(l)
  \/ StopAccepting
  \/ Restart

Spec == Init /\ [][Next]_avars

(* Work conservation: a free slot and a waiting command cannot coexist for  *)
(* ever.  Commands terminate.                                               *)
FairSpec ==
  /\ Spec
  /\ \A l \in Lane : WF_avars(Start(l))
  /\ \A c \in Cmd : WF_avars(Finish(c))
=============================================================================
