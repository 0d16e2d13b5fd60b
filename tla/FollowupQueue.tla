---------------------------- MODULE FollowupQueue ----------------------------
(***************************************************************************)
(* The follow-up queue of one session (auto-reply/reply/queue/*.ts and      *)
(* utils/queue-helpers.ts): messages that arrive while the session's agent  *)
(* is busy wait here and are run when the turn ends.                        *)
(*                                                                          *)
(* The queue is an object in a map.  A drain is an asynchronous loop that   *)
(* keeps a reference to its object, whatever the map holds later, and       *)
(* awaits two things: the debounce delay and the run it started.  What      *)
(* happens between two awaits is one step.                                  *)
(*                                                                          *)
(* Every message carries a provider id; the cache of recent ids is taken    *)
(* to keep them (five minutes, ten thousand entries).                       *)
(***************************************************************************)
EXTENDS Naturals, Sequences, SequencesExt

CONSTANTS
  Messages,         \* inbound messages, by provider id
  Origin,           \* Origin[m]: where the reply to m goes, if anywhere
  Unroutable,       \* an origin whose channel cannot be routed to
  Settings,         \* Settings[m]: what m may bring, a set of [mode, cap, drop]
  QueueObjects,     \* identities of queue objects
  None,             \* no queue object
  MaxFailures,      \* bound: runs that throw
  MaxRedeliveries,  \* bound: messages the provider delivers again
  MaxClears,        \* bound: calls of clearSessionQueues
  MaxTurns          \* bound: turns in progress at once

ASSUME NoneAssumption == None \notin QueueObjects
ASSUME SettingsAssumption ==
  Settings \in [Messages -> SUBSET [mode : {"collect", "followup"}, cap : Nat \ {0},
                                    drop : {"old", "new", "summarize"}]]

VARIABLES
  queues,       \* queues[o]: the fields of queue object o
  current,      \* the object FOLLOWUP_QUEUES holds for the session, or None
  callback,     \* is a drain callback cached for the session?
  drain,        \* drain[o]: the drain loop working on object o
  turns,        \* agent turns in progress that are not follow-ups
  judged,       \* messages found to meet an active run, before the enqueue
  recent,       \* RECENT_QUEUE_MESSAGE_IDS, in the order of acceptance
  ran,          \* messages whose run succeeded, in that order
  accounted,    \* messages cleared, dropped by policy, or told in a summary
  disturbed,    \* has one of the steps happened that may lose a message?
  failures, redeliveries, clears

vars == <<queues, current, callback, drain, turns, judged, recent, ran,
          accounted, disturbed, failures, redeliveries, clears>>
history == <<ran, accounted, disturbed>>
arrivals == <<turns, judged, recent>>
bounds == <<failures, redeliveries, clears>>

-----------------------------------------------------------------------------
(* Queue objects.  dropped holds the messages droppedCount counts.          *)

Absent == [items |-> <<>>, dropped |-> <<>>, draining |-> FALSE,
           lastRun |-> FALSE, set |-> None]
Created(s) == [Absent EXCEPT !.set = s]

IsDrained(q) == q.items = <<>> /\ q.dropped = <<>>

\* Every enqueue applies its settings to the object, new or old.
Target == IF current # None THEN current
          ELSE CHOOSE o \in QueueObjects : drain[o].at = "idle"
Configured(s) == IF current # None THEN [queues[current] EXCEPT !.set = s]
                 ELSE Created(s)
ObjectAvailable == current # None \/ \E o \in QueueObjects : drain[o].at = "idle"

QueuedTwice(m, q) == m \in ToSet(q.items)
Duplicate(m, q) == m \in ToSet(recent) \/ m \in ToSet(q.items)

IsFull(q) == Len(q.items) >= q.set.cap
Surplus(q) == IF IsFull(q) THEN Len(q.items) - q.set.cap + 1 ELSE 0
Shed(q) == SubSeq(q.items, 1, Surplus(q))
AfterDrop(q) ==
  [q EXCEPT !.items = SubSeq(@, Surplus(q) + 1, Len(@)),
            !.dropped = IF q.set.drop = "summarize" THEN @ \o Shed(q) ELSE @]
Unshifted(m, q) == [q EXCEPT !.items = <<m>> \o @]
Pushed(m, q) == [q EXCEPT !.items = Append(@, m)]

Summary(q) == IF q.set.drop = "summarize" THEN q.dropped ELSE <<>>

\* A batch is not collected across origins.
CrossChannel(items) ==
  \/ Unroutable \in {Origin[m] : m \in ToSet(items)}
  \/ \E m, n \in ToSet(items) : Origin[m] # Origin[n]

-----------------------------------------------------------------------------
(* Drains.                                                                  *)

NotDraining == [at |-> "idle", kind |-> "none", sent |-> <<>>, lines |-> <<>>,
                forced |-> FALSE]
Waiting(forced) == [NotDraining EXCEPT !.at = "waiting", !.forced = forced]
Running(plan, forced) == [at |-> "running", kind |-> plan.kind,
                          sent |-> plan.sent, lines |-> plan.lines,
                          forced |-> forced]

\* beginQueueDrain succeeds.
CanBegin(c, qs) == IF c = None THEN FALSE ELSE ~qs[c].draining

\* scheduleFollowupDrain, up to its first await, when the map holds c and the
\* objects and drains are qs and ds.  On an empty queue the loop ends at once.
ScheduleFollowupDrain(c, qs, ds) ==
  IF ~CanBegin(c, qs)
    THEN /\ queues' = qs /\ drain' = ds
         /\ current' = c /\ UNCHANGED callback
    ELSE /\ callback' = TRUE
         /\ IF IsDrained(qs[c])
              THEN queues' = qs /\ drain' = ds /\ current' = None
              ELSE /\ queues' = [qs EXCEPT ![c].draining = TRUE]
                   /\ drain' = [ds EXCEPT ![c] = Waiting(FALSE)]
                   /\ current' = c

StillMarked(q) == q
Rested(q) == [q EXCEPT !.draining = FALSE]
StopsForGood(o, q) ==
  /\ queues' = [queues EXCEPT ![o] = Rested(q)]
  /\ drain' = [drain EXCEPT ![o] = NotDraining]
  /\ current' = IF IsDrained(q) THEN None ELSE current
  /\ UNCHANGED callback

\* The finally block of the drain of o, whose object ends as q.  The map entry
\* is deleted by key, whichever object it holds.
DrainEnds(o, q) ==
  LET qs == [queues EXCEPT ![o] = Rested(q)]
      ds == [drain EXCEPT ![o] = NotDraining]
  IN  IF IsDrained(q)
        THEN queues' = qs /\ drain' = ds /\ current' = None /\ UNCHANGED callback
        ELSE ScheduleFollowupDrain(current, qs, ds)

First(items) == IF items = <<>> THEN <<>> ELSE <<Head(items)>>

\* What the loop hands to runFollowup after the debounce.  In individual mode a
\* pending summary is sent in place of the first item's own prompt.
Plan(q, forced) ==
  CASE q.set.mode = "collect" /\ ~forced ->
         [kind |-> "batch", sent |-> q.items, lines |-> Summary(q)]
    [] q.set.mode # "collect" /\ Summary(q) # <<>> ->
         [kind |-> "summary", sent |-> <<>>, lines |-> Summary(q)]
    [] OTHER ->
         [kind |-> "item", sent |-> First(q.items), lines |-> <<>>]

\* Otherwise the loop breaks.
HasWork(q, plan) == q.items # <<>> \/ (plan.kind = "batch" /\ q.lastRun)

\* items.shift() or items.splice(0, n), and clearQueueSummaryState.
Took(d) == IF d.kind = "batch" THEN Len(d.sent) ELSE 1
EmptiedAfterRun(q, d) ==
  [q EXCEPT !.items = <<>>, !.dropped = IF d.lines # <<>> THEN <<>> ELSE @]
AfterRun(q, d) ==
  [q EXCEPT !.items = SubSeq(@, Took(d) + 1, Len(@)),
            !.dropped = IF d.lines # <<>> THEN <<>> ELSE @]

-----------------------------------------------------------------------------
(* Actions.                                                                 *)

Init ==
  /\ queues = [o \in QueueObjects |-> Absent]
  /\ current = None /\ callback = FALSE
  /\ drain = [o \in QueueObjects |-> NotDraining]
  /\ turns = 0 /\ judged = {} /\ recent = <<>>
  /\ ran = <<>> /\ accounted = {} /\ disturbed = FALSE
  /\ failures = 0 /\ redeliveries = 0 /\ clears = 0

RunInProgress == turns > 0 \/ \E o \in QueueObjects : drain[o].at = "running"

\* A message arrives and isActive is read.  The enqueue follows only after an
\* await, whatever happens to the active run meanwhile.
MeetsActiveRun(m) ==
  /\ RunInProgress
  /\ m \notin judged
  /\ IF m \in ToSet(recent)
       THEN redeliveries < MaxRedeliveries /\ redeliveries' = redeliveries + 1
       ELSE UNCHANGED redeliveries
  /\ judged' = judged \cup {m}
  /\ UNCHANGED <<queues, current, callback, drain, turns, recent, history,
                 failures, clears>>

\* A message that meets no active run starts a turn of its own.
TurnStarts ==
  /\ turns < MaxTurns
  /\ turns' = turns + 1
  /\ UNCHANGED <<queues, current, callback, drain, judged, recent, history, bounds>>

\* finalizeWithFollowup, on every way out of a turn.
TurnEnds ==
  /\ turns > 0
  /\ turns' = turns - 1
  /\ ScheduleFollowupDrain(current, queues, drain)
  /\ UNCHANGED <<judged, recent, history, bounds>>

\* enqueueFollowupRun of a message that is queued already or was seen lately.
SkipDuplicate(m, s) ==
  /\ m \in judged /\ ObjectAvailable
  /\ Duplicate(m, Configured(s))
  /\ queues' = [queues EXCEPT ![Target] = Configured(s)]
  /\ current' = Target
  /\ judged' = judged \ {m}
  /\ UNCHANGED <<callback, drain, turns, recent, history, bounds>>

\* enqueueFollowupRun on a full queue whose policy drops the newest.
RefuseNewest(m, s) ==
  /\ m \in judged /\ ObjectAvailable
  /\ ~Duplicate(m, Configured(s))
  /\ IsFull(Configured(s)) /\ s.drop = "new"
  /\ queues' = [queues EXCEPT ![Target] = [Configured(s) EXCEPT !.lastRun = TRUE]]
  /\ current' = Target
  /\ judged' = judged \ {m}
  /\ UNCHANGED <<callback, drain, turns, recent, history, bounds>>

\* enqueueFollowupRun of a message that is accepted; an idle queue is kicked
\* when a callback is cached.
EnqueueFollowupRun(m, s) ==
  /\ m \in judged /\ ObjectAvailable
  /\ ~Duplicate(m, Configured(s))
  /\ IsFull(Configured(s)) => s.drop # "new"
  /\ LET o  == Target
         q  == Configured(s)
         qs == [queues EXCEPT ![o] =
                  [Pushed(m, AfterDrop(q)) EXCEPT !.lastRun = TRUE]]
     IN  /\ IF callback
              THEN ScheduleFollowupDrain(o, qs, drain)
              ELSE queues' = qs /\ current' = o /\ UNCHANGED <<callback, drain>>
         /\ accounted' = IF s.drop = "old" THEN accounted \cup ToSet(Shed(q))
                         ELSE accounted
         /\ disturbed' = (disturbed \/ (IsFull(q) /\ drain[o].at = "running"))
  /\ recent' = Append(recent, m)
  /\ judged' = judged \ {m}
  /\ UNCHANGED <<turns, ran, bounds>>

\* waitForQueueDebounce resolves: the loop starts a run, or breaks.
DebounceEnds(o) ==
  /\ drain[o].at = "waiting"
  /\ LET q      == queues[o]
         forced == drain[o].forced \/ (q.set.mode = "collect" /\ CrossChannel(q.items))
         plan   == Plan(q, forced)
     IN  IF HasWork(q, plan)
           THEN /\ drain' = [drain EXCEPT ![o] = Running(plan, forced)]
                /\ disturbed' = (disturbed \/ plan.kind = "summary")
                /\ UNCHANGED <<queues, current, callback>>
           ELSE DrainEnds(o, q) /\ UNCHANGED disturbed
  /\ UNCHANGED <<arrivals, ran, accounted, bounds>>

\* runFollowup resolves.
RunEnds(o) ==
  /\ drain[o].at = "running"
  /\ LET d == drain[o]
         q == AfterRun(queues[o], d)
     IN  /\ IF IsDrained(q)
              THEN DrainEnds(o, q)
              ELSE /\ queues' = [queues EXCEPT ![o] = q]
                   /\ drain' = [drain EXCEPT ![o] = Waiting(d.forced)]
                   /\ UNCHANGED <<current, callback>>
         /\ ran' = ran \o d.sent
         /\ accounted' = accounted \cup ToSet(d.lines)
  /\ UNCHANGED <<arrivals, disturbed, bounds>>

\* runFollowup throws: the items stay and a new drain retries them.
RunFails(o) ==
  /\ drain[o].at = "running"
  /\ failures < MaxFailures
  /\ failures' = failures + 1
  /\ DrainEnds(o, queues[o])
  /\ UNCHANGED <<arrivals, history, redeliveries, clears>>

\* clearSessionQueues: the object is emptied and taken out of the map, and the
\* callback is forgotten; a drain in flight keeps the object.
ClearFollowupQueue ==
  /\ clears < MaxClears
  /\ clears' = clears + 1
  /\ callback' = FALSE
  /\ IF current = None
       THEN UNCHANGED <<queues, accounted, disturbed>>
       ELSE LET q == queues[current] IN
            /\ queues' = [queues EXCEPT ![current] =
                            [q EXCEPT !.items = <<>>, !.dropped = <<>>,
                                      !.lastRun = FALSE]]
            /\ accounted' = accounted \cup ToSet(q.items) \cup ToSet(q.dropped)
            /\ disturbed' = (disturbed \/ q.draining)
  /\ current' = None
  /\ UNCHANGED <<drain, arrivals, ran, failures, redeliveries>>

Enqueue(m, s) == SkipDuplicate(m, s) \/ RefuseNewest(m, s) \/ EnqueueFollowupRun(m, s)

Drain(o) == DebounceEnds(o) \/ RunEnds(o)

Next ==
  \/ \E m \in Messages : MeetsActiveRun(m)
  \/ TurnStarts \/ TurnEnds
  \/ \E m \in Messages : \E s \in Settings[m] : Enqueue(m, s)
  \/ \E o \in QueueObjects : Drain(o) \/ RunFails(o)
  \/ ClearFollowupQueue

Spec == Init /\ [][Next]_vars

\* Timers fire, runs end (they have timeouts), and so do turns.  Nothing is
\* assumed of the messages that arrive.
FairSpec ==
  /\ Spec
  /\ WF_vars(TurnEnds)
  /\ \A o \in QueueObjects : WF_vars(DebounceEnds(o)) /\ WF_vars(RunEnds(o))
=============================================================================
