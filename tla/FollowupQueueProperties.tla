----------------------- MODULE FollowupQueueProperties -----------------------
(***************************************************************************)
(* What the follow-up queue promises the sender of a message.               *)
(***************************************************************************)
EXTENDS FollowupQueue, FiniteSets

(* The shapes of the variables.  A drain works on an object exactly while   *)
(* that object is marked as draining.                                       *)
TypeOK ==
  /\ \A o \in QueueObjects :
       /\ queues[o].items \in Seq(Messages) /\ queues[o].dropped \in Seq(Messages)
       /\ queues[o].set \in UNION {Settings[m] : m \in Messages} \cup {None}
       /\ queues[o].lastRun \in BOOLEAN
       /\ drain[o].at \in {"idle", "waiting", "running"}
       /\ drain[o].sent \in Seq(Messages) /\ drain[o].lines \in Seq(Messages)
       /\ queues[o].draining = (drain[o].at # "idle")
  /\ current \in QueueObjects \cup {None} /\ callback \in BOOLEAN
  /\ turns \in 0..MaxTurns /\ judged \subseteq Messages
  /\ recent \in Seq(Messages) /\ ran \in Seq(Messages)
  /\ accounted \subseteq ToSet(recent) /\ disturbed \in BOOLEAN

\* The objects something still reaches: the map, or a drain loop.
Held == {o \in QueueObjects : o = current \/ drain[o].at # "idle"}
Waits(m) == \E o \in Held : m \in ToSet(queues[o].items)
Pending(m) == \E o \in Held : m \in ToSet(queues[o].dropped)

-----------------------------------------------------------------------------
(* No message is run twice, whatever is redelivered, retried, dropped or    *)
(* cleared (enqueue.ts:57-88, drain.ts:119-159).                            *)
RunsOnce == IsInjective(ran)

\* m was accepted before n.
Precedes(m, n) == \E a, b \in DOMAIN recent : a < b /\ recent[a] = m /\ recent[b] = n
InOrder(line) == \A i, j \in DOMAIN line : i < j => Precedes(line[i], line[j])

(* Messages are run in the order in which they were accepted, batches,      *)
(* retries and switches between collecting and individual runs included.    *)
RunsInOrder == ~disturbed => InOrder(ran)

Lost == {m \in ToSet(recent) :
           ~Waits(m) /\ ~Pending(m) /\ m \notin ToSet(ran) \cup accounted}

(* An accepted message waits, was run, was told in a summary, or was        *)
(* dropped or cleared on request -- unless the queue overflowed during a     *)
(* run, was cleared during a drain, or sent a summary in place of a message. *)
NoUnexplainedLoss == ~disturbed => Lost = {}

(* The same without exceptions: 'Use summarize when preserving intent        *)
(* matters' (config/schema.help.ts:1333).  The code violates it under this,  *)
(* the default, policy: a message that arrives during a run drops the item   *)
(* being run, and the shift after the run removes one that never ran.        *)
NothingIsLost == Lost = {}

(* A waiting message that a drain works for, or that a turn in progress      *)
(* will start a drain for, is taken out of the queue in the end.             *)
Attended(o) == drain[o].at # "idle" \/ (o = current /\ turns > 0)
AttendedMessagesLeave ==
  \A m \in Messages :
    (\E o \in Held : m \in ToSet(queues[o].items) /\ Attended(o)) ~> ~Waits(m)
-----------------------------------------------------------------------------
(* Why no message is run twice, and none is lost unless disturbed.          *)

\* What waits in o or is being run from it.
Own(o) == ToSet(queues[o].items) \cup ToSet(drain[o].sent)

\* An accepted message is in one place until its run is over; what is left in
\* the list of what is being run will be taken out with it, whatever was
\* dropped from the list meanwhile.
PlacedOnce ==
  /\ IsInjective(recent) /\ IsInjective(ran) /\ ToSet(ran) \subseteq ToSet(recent)
  /\ \A o \in QueueObjects :
       /\ IsInjective(queues[o].items) /\ IsInjective(drain[o].sent)
       /\ Own(o) \subseteq ToSet(recent) \ ToSet(ran)
       /\ \A k \in DOMAIN queues[o].items :
            queues[o].items[k] \in ToSet(drain[o].sent) => k <= Took(drain[o])
  /\ \A o, p \in QueueObjects : o # p => Own(o) \cap Own(p) = {}

\* Undisturbed, a drain works on the queue of the session, and takes out what it
\* ran and told.
DrainsTheirOwn ==
  ~disturbed => \A o \in QueueObjects : drain[o].at # "idle" =>
    /\ o = current
    /\ drain[o].at = "running" =>
         /\ Took(drain[o]) <= Len(queues[o].items)
         /\ \A k \in 1..Took(drain[o]) : queues[o].items[k] \in ToSet(drain[o].sent)
    /\ drain[o].lines # <<>> => drain[o].lines = queues[o].dropped

\* Undisturbed, what waits in the session's queue is in order and follows all
\* that was run, and what is being run is what the list begins with.
WaitsInLine ==
  ~disturbed =>
    /\ current # None =>
         /\ InOrder(queues[current].items)
         /\ \A m \in ToSet(ran), n \in ToSet(queues[current].items) : Precedes(m, n)
    /\ \A o \in QueueObjects : drain[o].at = "running" =>
         /\ Len(drain[o].sent) = Took(drain[o])
         /\ \A k \in 1..Took(drain[o]) : drain[o].sent[k] = queues[o].items[k]

DrainsAreMarked ==
  \A o \in QueueObjects :
    /\ queues[o].draining = (drain[o].at # "idle")
    /\ drain[o].at # "running" => drain[o].sent = <<>> /\ drain[o].lines = <<>>
=============================================================================
