---------------------------- MODULE DeliveryQueue ----------------------------
(***************************************************************************)
(* The write-ahead queue of outbound deliveries                             *)
(* (infra/outbound/delivery-queue.ts and the wrapper in deliver.ts): an     *)
(* entry is written before the send, removed after it, and replayed by the  *)
(* recovery that runs in the background of every start of the gateway.      *)
(*                                                                          *)
(* Files survive a crash, everything else does not.  A step is what happens *)
(* between two awaits; each file operation is one.  The clock is left out:   *)
(* whether a backoff or the recovery's time budget has run out is open.     *)
(***************************************************************************)
EXTENDS Naturals, Sequences, SequencesExt

CONSTANTS
  Deliveries,   \* calls of deliverOutboundPayloads
  BestEffort,   \* those whose payload errors are swallowed
  Observed,     \* those whose caller passes onError
  NoFile,       \* the absence of {id}.json
  MaxRetries,   \* MAX_RETRIES
  MaxCrashes    \* bound: crashes

ASSUME SubsetAssumption == BestEffort \subseteq Deliveries /\ Observed \subseteq Deliveries
Entries == [retryCount : Nat, attempted : BOOLEAN]

Listed == [id : Deliveries, retryCount : Nat, attempted : BOOLEAN]

ASSUME NoFileAssumption == NoFile \notin Entries
ASSUME ListedAssumption == NoFile \notin Listed
ASSUME BoundAssumption == MaxRetries \in Nat \ {0} /\ MaxCrashes \in Nat

VARIABLES
  json,        \* json[d]: the entry in {id}.json, or NoFile
  marker,      \* deliveries with a file {id}.delivered
  failedDir,   \* deliveries with a file in failed/
  live,        \* live[d]: the call of deliverOutboundPayloads
  recovery,    \* the recovery loop: where it is, and the entries left to do
  enqueued,    \* deliveries written to the queue, oldest first
  sent,        \* deliveries whose payloads all arrived once
  given,       \* deliveries aborted, or with a payload error swallowed
  acked,       \* deliveries whose acknowledging rename happened
  overlapped,  \* entries scanned while their live call was in progress
  attempts,    \* attempts[d]: sends the recovery started
  interrupted, \* interrupted[d]: of those, how many a crash cut short
  crashes

vars == <<json, marker, failedDir, live, recovery, enqueued, sent, given, acked,
          overlapped, attempts, interrupted, crashes>>
files == <<json, marker, failedDir>>
history == <<enqueued, overlapped, attempts, interrupted, crashes>>

-----------------------------------------------------------------------------
NewEntry == [retryCount |-> 0, attempted |-> FALSE]

\* A call, live or in the recovery loop: its next step and what it has read.
At(step) == [step |-> step, read |-> NoFile]
Rest(step) == [at |-> At(step), entry |-> NoFile, todo |-> {}]
Entry(d) == [id |-> d, retryCount |-> json[d].retryCount, attempted |-> json[d].attempted]

Init ==
  /\ json = [d \in Deliveries |-> NoFile] /\ marker = {} /\ failedDir = {}
  /\ live = [d \in Deliveries |-> At("new")]
  /\ recovery = Rest("scan")
  /\ enqueued = <<>> /\ sent = {} /\ given = {} /\ acked = {}
  /\ overlapped = {} /\ crashes = 0
  /\ attempts = [d \in Deliveries |-> 0]
  /\ interrupted = [d \in Deliveries |-> 0]

\* enqueueDelivery; the file appears with the rename.
EnqueueDelivery(d) ==
  /\ live[d] = At("new")
  /\ json' = [json EXCEPT ![d] = NewEntry]
  /\ enqueued' = Append(enqueued, d)
  /\ live' = [live EXCEPT ![d] = At("sending")]
  /\ UNCHANGED <<marker, failedDir, recovery, sent, given, acked, overlapped,
                 attempts, interrupted, crashes>>

\* The queue write fails: the delivery goes on without an entry.
DeliverUnqueued(d) ==
  /\ live[d] = At("new")
  /\ live' = [live EXCEPT ![d] = At("done")]
  /\ UNCHANGED <<files, recovery, sent, given, acked, history>>

\* What deliverOutboundPayloadsCore may do with d when onError is passed or not:
\* [next |-> the step that follows, sent/given |-> is d in these sets now].
\* A best-effort call without onError reports success whatever happened.
Result(next, s, g) == [next |-> next, sent |-> s, given |-> g]
Swallows(d, observed) ==
  IF d \notin BestEffort THEN {}
  ELSE IF observed THEN {Result("failing", FALSE, FALSE)}
  ELSE {Result("acking", FALSE, TRUE)}
AckedAnyway(d, observed) == {Result("acking", b, FALSE) : b \in BOOLEAN}
Results(d, observed) ==
  {Result("acking", TRUE, FALSE), Result("failing", FALSE, FALSE)} \cup Swallows(d, observed)

Happened(d, r) ==
  /\ sent' = IF r.sent THEN sent \cup {d} ELSE sent
  /\ given' = IF r.given THEN given \cup {d} ELSE given

LiveSends(d) ==
  /\ live[d] = At("sending")
  /\ \E r \in Results(d, d \in Observed) \cup {Result("acking", FALSE, TRUE)} :  \* abort
       /\ live' = [live EXCEPT ![d] = At(r.next)]
       /\ Happened(d, r)
  /\ UNCHANGED <<files, recovery, acked, history>>

-----------------------------------------------------------------------------
(* ackDelivery and failDelivery, one file operation a step, on behalf of    *)
(* the live call or of the recovery loop, whose state is c.                 *)

LeavesEntry(d) == /\ marker' = marker \cup {d} /\ acked' = acked \cup {d}
                  /\ UNCHANGED <<json, failedDir>>

\* rename {id}.json to {id}.delivered; without {id}.json only a leftover
\* marker is removed.
AckRenames(d) ==
  /\ IF json[d] # NoFile
       THEN /\ json' = [json EXCEPT ![d] = NoFile]
            /\ marker' = marker \cup {d}
            /\ acked' = acked \cup {d}
       ELSE marker' = marker \ {d} /\ UNCHANGED <<json, acked>>
  /\ UNCHANGED failedDir

AckUnlinks(d) == marker' = marker \ {d} /\ UNCHANGED <<json, failedDir, acked>>

CountedTwice(e) == [retryCount |-> e.retryCount + 2, attempted |-> TRUE]
Counted(e) == [retryCount |-> e.retryCount + 1, attempted |-> TRUE]

\* The rename puts {id}.json back even if it was acknowledged meanwhile.
FailWrites(d, c) ==
  /\ json' = [json EXCEPT ![d] = Counted(c.read)]
  /\ UNCHANGED <<marker, failedDir, acked>>

Settle(d, c) ==
  \/ c.step = "acking" /\ AckRenames(d)
  \/ c.step = "unlinking" /\ AckUnlinks(d)
  \/ c.step = "failing" /\ UNCHANGED <<files, acked>>   \* readFile
  \/ c.step = "writing" /\ FailWrites(d, c)

StepAfter(d, c) ==
  CASE c.step = "acking" /\ json[d] # NoFile -> At("unlinking")
    [] c.step = "failing" /\ json[d] # NoFile -> [step |-> "writing", read |-> json[d]]
    [] OTHER -> At("done")

LiveSettles(d) ==
  /\ Settle(d, live[d])
  /\ live' = [live EXCEPT ![d] = StepAfter(d, live[d])]
  /\ UNCHANGED <<recovery, sent, given, history>>

-----------------------------------------------------------------------------
(* recoverPendingDeliveries.                                                *)

InProgress(d) == live[d].step \notin {"new", "done"}

\* loadPendingDeliveries, which reads the files one after the other: one step,
\* because no entry depends on another and each is read once.
RecoveryScans ==
  /\ recovery.at = At("scan")
  /\ LET found == {d \in ToSet(enqueued) : json[d] # NoFile}
     IN  /\ recovery' = [Rest("next") EXCEPT !.todo = {Entry(d) : d \in found}]
         /\ overlapped' = overlapped \cup {d \in found : InProgress(d)}
  /\ marker' = {}
  /\ UNCHANGED <<json, failedDir, live, enqueued, sent, given, acked, attempts,
                 interrupted, crashes>>

\* pending is sorted by age.
NoYounger(c, d) == \E i, j \in DOMAIN enqueued : i <= j /\ enqueued[i] = c /\ enqueued[j] = d
IsNext(e) == /\ recovery.at = At("next") /\ e \in recovery.todo
             /\ \A f \in recovery.todo : NoYounger(e.id, f.id)
Takes(e, step) == [at |-> At(step), entry |-> e, todo |-> recovery.todo \ {e}]

Id == recovery.entry.id
Proceed(call) == [recovery EXCEPT !.at = call]
EntryDone == [recovery EXCEPT !.at = At("next"), !.entry = NoFile]

\* The list is done, or the time budget spent.
RecoveryStops ==
  /\ recovery.at = At("next")
  /\ recovery' = Rest("off")
  /\ UNCHANGED <<files, live, sent, given, acked, history>>

OneMoreTry(e) == e.retryCount > MaxRetries
Exhausted(e) == e.retryCount >= MaxRetries

RecoveryGivesUp(e) ==
  /\ IsNext(e) /\ Exhausted(e)
  /\ recovery' = Takes(e, "moving")
  /\ UNCHANGED <<files, live, sent, given, acked, history>>

\* Still in backoff, which an entry without a recorded attempt never is.
RecoveryDefers(e) ==
  /\ IsNext(e) /\ ~Exhausted(e) /\ e.attempted
  /\ recovery' = [recovery EXCEPT !.todo = @ \ {e}]
  /\ UNCHANGED <<files, live, sent, given, acked, history>>

RecoveryStarts(e) ==
  /\ IsNext(e) /\ ~Exhausted(e)
  /\ recovery' = Takes(e, "sending")
  /\ attempts' = [attempts EXCEPT ![e.id] = @ + 1]
  /\ UNCHANGED <<files, live, enqueued, sent, given, acked, overlapped,
                 interrupted, crashes>>

\* deliver() with skipQueue and without onError; a permanent error ends in
\* failed/.
RecoverySends ==
  /\ recovery.at = At("sending")
  /\ \E r \in Results(Id, FALSE) \cup {Result("moving", FALSE, FALSE)} :
       /\ recovery' = Proceed(At(r.next))
       /\ Happened(Id, r)
  /\ UNCHANGED <<files, live, acked, history>>

RecoverySettles ==
  /\ recovery.entry # NoFile
  /\ Settle(Id, recovery.at)
  /\ LET next == StepAfter(Id, recovery.at)
     IN  recovery' = IF next = At("done") THEN EntryDone ELSE Proceed(next)
  /\ UNCHANGED <<live, sent, given, history>>

RecoveryMoves ==
  /\ recovery.at = At("moving")
  /\ IF json[Id] # NoFile
       THEN /\ json' = [json EXCEPT ![Id] = NoFile]
            /\ failedDir' = failedDir \cup {Id}
       ELSE UNCHANGED <<json, failedDir>>
  /\ recovery' = EntryDone
  /\ UNCHANGED <<marker, live, sent, given, acked, history>>

\* The process dies and is started again: calls and the loop are gone.
Crash ==
  /\ crashes < MaxCrashes
  /\ crashes' = crashes + 1
  /\ live' = [d \in Deliveries |-> IF live[d] = At("new") THEN At("new") ELSE At("done")]
  /\ recovery' = Rest("scan")
  /\ interrupted' = IF recovery.entry = NoFile \/ recovery.at.step = "unlinking"
                     THEN interrupted
                     ELSE [interrupted EXCEPT ![Id] = @ + 1]
  /\ UNCHANGED <<files, sent, given, acked, enqueued, overlapped, attempts>>

Live(d) == EnqueueDelivery(d) \/ DeliverUnqueued(d) \/ LiveSends(d) \/ LiveSettles(d)

Recovery ==
  \/ RecoveryScans \/ RecoveryStops
  \/ \E e \in recovery.todo : RecoveryGivesUp(e) \/ RecoveryDefers(e) \/ RecoveryStarts(e)
  \/ RecoverySends \/ RecoverySettles \/ RecoveryMoves

Next == (\E d \in Deliveries : Live(d)) \/ Recovery \/ Crash

Spec == Init /\ [][Next]_vars

-----------------------------------------------------------------------------
(* Properties.                                                              *)

Step == {"new", "sending", "acking", "unlinking", "failing", "writing", "done",
         "scan", "next", "moving", "off"}
File == [retryCount : 0..(MaxRetries + 1), attempted : BOOLEAN]

(* Shapes; a file counts no more attempts than were made, and recovery   *)
(* works on entries that were written.                                       *)
TypeOK ==
  /\ json \in [Deliveries -> File \cup {NoFile}]
  /\ marker \subseteq Deliveries /\ failedDir \subseteq Deliveries
  /\ \A d \in Deliveries : live[d].step \in Step /\ live[d].read \in File \cup {NoFile}
  /\ \A e \in recovery.todo : e.id \in ToSet(enqueued)
  /\ \A d \in Deliveries : json[d] # NoFile => json[d].retryCount <= attempts[d] + 1

(* An accepted delivery arrived, was aborted, waits in the queue or is kept  *)
(* in failed/, across crashes at any point.  The only other way out is a     *)
(* best-effort payload error that no onError reports.                        *)
NothingForgotten ==
  \A d \in ToSet(enqueued) :
    json[d] # NoFile \/ d \in sent \cup given \cup failedDir

(* A call acknowledges only what arrived or was given up, and puts back only *)
(* an entry it has read; this is what makes NothingForgotten inductive.      *)
CallsAreHonest ==
  /\ \A d \in Deliveries : live[d].step = "acking" => d \in sent \cup given
  /\ recovery.at.step = "acking" => Id \in sent \cup given
  /\ \A d \in Deliveries : live[d].step = "writing" => live[d].read \in Entries
  /\ recovery.at.step = "writing" => recovery.at.read \in Entries

Calls == [step : Step, read : Entries \cup {NoFile}]

IInv ==
  /\ json \in [Deliveries -> Entries \cup {NoFile}]
  /\ live \in [Deliveries -> Calls]
  /\ recovery \in [at : Calls, entry : Listed \cup {NoFile}, todo : SUBSET Listed]
  /\ recovery.entry = NoFile <=> recovery.at.step \in {"scan", "next", "off"}
  /\ enqueued \in Seq(Deliveries)
  /\ CallsAreHonest
  /\ NothingForgotten

(* Once acknowledged or moved to failed/, a delivery is neither put back     *)
(* into the queue nor sent again (delivery-queue.ts:140-145), unless the     *)
(* recovery scan met it while its live call was still at work.               *)
RetiredStaysRetired ==
  [][\A d \in (acked \cup failedDir) \ overlapped' :
       json'[d] = NoFile /\ attempts'[d] = attempts[d]]_vars

(* Recovery tries a delivery MAX_RETRIES times, plus once for every crash    *)
(* that interrupts an attempt before it is recorded.                         *)
AttemptsAreBounded ==
  \A d \in Deliveries : attempts[d] <= MaxRetries + interrupted[d]

(* What recovery works on, or has still in its list.                         *)
Listing(d) == \E e \in recovery.todo : e.id = d
Working(d) == recovery.entry # NoFile /\ Id = d

(* Recovery has not come to d since the process started.                     *)
Untaken(d) == recovery.at = At("scan") \/ Listing(d)

(* An attempt that neither an entry nor a crash has recorded yet.            *)
Unrecorded(d) == IF Working(d) /\ recovery.at.step # "unlinking" THEN 1 ELSE 0

(* A new call has no entry, and the list has a delivery once.                *)
ListIsExact ==
  /\ \A d \in Deliveries :
       live[d].step = "new" => json[d] = NoFile /\ ~Listing(d) /\ ~Working(d)
  /\ \A e, f \in recovery.todo : e.id = f.id => e = f
  /\ \A e \in recovery.todo : ~Working(e.id)

(* Every entry, in its file, in the list or in the hands of a call that is   *)
(* about to write it, counts the attempts that were recorded.                *)
AttemptsAreCounted ==
  /\ attempts \in [Deliveries -> Nat] /\ interrupted \in [Deliveries -> Nat]
  /\ \A d \in Deliveries :
       /\ live[d].step = "new" => attempts[d] = 0
       /\ json[d] # NoFile =>
            attempts[d] <= json[d].retryCount + interrupted[d] + Unrecorded(d)
       /\ live[d].step = "writing" =>
            attempts[d] <= live[d].read.retryCount + interrupted[d]
                             + IF Untaken(d) THEN 0 ELSE 1
  /\ \A e \in recovery.todo : attempts[e.id] <= e.retryCount + interrupted[e.id]
  /\ recovery.at.step = "writing" =>
       attempts[Id] <= recovery.at.read.retryCount + interrupted[Id] + 1

AttemptInv == ListIsExact /\ AttemptsAreCounted /\ AttemptsAreBounded

(* The scan met no call at work, and a retired delivery is in nobody's hands. *)
RetiredIsGone ==
  /\ acked \cup failedDir \subseteq Deliveries
  /\ \A d \in Deliveries \ overlapped :
       /\ Listing(d) \/ Working(d) => live[d].step = "done"
       /\ d \in acked \cup failedDir =>
            /\ json[d] = NoFile /\ ~Listing(d)
            /\ live[d].step \in {"unlinking", "done"}
            /\ Working(d) => recovery.at.step = "unlinking"
=============================================================================
