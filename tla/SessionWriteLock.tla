-------------------------- MODULE SessionWriteLock --------------------------
(***************************************************************************)
(* The lock file of one session: agents/session-write-lock.ts.             *)
(*                                                                         *)
(* Calls of acquireSessionWriteLock in several processes create the file   *)
(* with O_EXCL and write their process id into it.  A call that finds the  *)
(* file reads it, may judge it stale, and removes whatever is at the path  *)
(* by then; releases remove by path, too.  Within a process HELD_LOCKS     *)
(* lets later calls share a held lock.  Processes crash, are told to       *)
(* terminate, and one cleans up at its start.                              *)
(***************************************************************************)
EXTENDS Naturals, FiniteSets

CONSTANTS
  Proc,         \* processes that work on the session
  Call,         \* bound: calls of acquireSessionWriteLock
  ProcOf,       \* the process of a call
  FiniteTimeout,\* calls with a finite timeoutMs
  HasStarttime, \* whether the platform tells a process's start time (/proc)
  Cleaner,      \* the process that runs cleanStaleLockFiles, the gateway
  Faults,       \* bound: "crash", "terminate", "write", "watchdog", "age"
  None

Files == [by : Call, written : BOOLEAN, old : BOOLEAN]

ASSUME LockAssumption ==
  /\ IsFiniteSet(Call)
  /\ ProcOf \in [Call -> Proc] /\ FiniteTimeout \subseteq Call
  /\ HasStarttime \in BOOLEAN /\ Cleaner \in Proc
  /\ Faults \subseteq {"crash", "terminate", "write", "watchdog", "age"}
  /\ None \notin Call \cup Files

VARIABLES
  file,    \* the lock file: whose open() made it, whether its payload is written,
           \* whether it is older than staleMs; or None
  alive,   \* processes that run
  held,    \* per process HELD_LOCKS: the call that made the entry, or None
  count,   \* per entry, how many calls share it
  closing, \* entries taken out of HELD_LOCKS whose file is still to be removed
  call,    \* where a call is
  lock,    \* the entry a call got
  judged,  \* the file a call is about to remove
  cleaner, \* where cleanStaleLockFiles is
  forfeit  \* history: entries that lost their file in one of the known ways

lockVars == <<file, alive, held, count, closing, call, lock, judged, cleaner, forfeit>>
entries == <<held, count, closing>>

Alive(c) == ProcOf[c] \in alive
Exists == file # None
NewFile(c) == [by |-> c, written |-> FALSE, old |-> FALSE]

LockInit ==
  /\ file = None
  /\ alive = Proc
  /\ held = [p \in Proc |-> None]
  /\ count = [c \in Call |-> 0]
  /\ closing = {}
  /\ call = [c \in Call |-> "new"]
  /\ lock = [c \in Call |-> None]
  /\ judged = [c \in Call |-> None]
  /\ cleaner = [at |-> "idle", judged |-> None]
  /\ forfeit = {}

At(c, place) == Alive(c) /\ call[c] = place
Goes(c, place) == call' = [call EXCEPT ![c] = place]

(* fs.rm by path: it takes whichever file is there.  The history notes the  *)
(* entry whose file it was if the caller meant another one or went by age.  *)
Remove(meant) ==
  /\ file' = None
  /\ forfeit' = IF Exists /\ (file.by # meant \/ file.old) THEN forfeit \cup {file.by} ELSE forfeit
-----------------------------------------------------------------------------
(* acquireSessionWriteLock, with the default allowReentrant *)
Shares(c) ==
  /\ At(c, "new") /\ held[ProcOf[c]] # None
  /\ LET e == held[ProcOf[c]]
     IN /\ count' = [count EXCEPT ![e] = @ + 1]
        /\ lock' = [lock EXCEPT ![c] = e]
  /\ Goes(c, "holds")
  /\ UNCHANGED <<file, alive, held, closing, judged, cleaner, forfeit>>

Tries(c) ==
  /\ At(c, "new") /\ held[ProcOf[c]] = None
  /\ Goes(c, "opens")
  /\ UNCHANGED <<file, alive, entries, lock, judged, cleaner, forfeit>>

OpenTruncates == TRUE
MayCreate == ~Exists

(* open(lockPath, "wx"); the loop ends when the time is up *)
Opens(c) ==
  /\ At(c, "opens") \/ At(c, "retries")
  /\ IF MayCreate THEN file' = NewFile(c) /\ Goes(c, "writes")
     ELSE UNCHANGED file /\ Goes(c, "reads")
  /\ UNCHANGED <<alive, entries, lock, judged, cleaner, forfeit>>

TimesOut(c) ==
  /\ At(c, "retries") /\ c \in FiniteTimeout
  /\ Goes(c, "failed")
  /\ UNCHANGED <<file, alive, entries, lock, judged, cleaner, forfeit>>

(* The payload goes to the handle; the file may be off its path by then.    *)
Writes(c) ==
  /\ At(c, "writes")
  /\ file' = IF Exists /\ file.by = c THEN [file EXCEPT !.written = TRUE] ELSE file
  /\ Goes(c, "registers")
  /\ UNCHANGED <<alive, entries, lock, judged, cleaner, forfeit>>

WriteFails(c) ==
  /\ "write" \in Faults /\ At(c, "writes")
  /\ Goes(c, "undoes")
  /\ UNCHANGED <<file, alive, entries, lock, judged, cleaner, forfeit>>

Undoes(c) ==
  /\ At(c, "undoes")
  /\ Remove(c)
  /\ Goes(c, "failed")
  /\ UNCHANGED <<alive, entries, lock, judged, cleaner>>

Registers(c) ==
  /\ At(c, "registers")
  /\ held' = [held EXCEPT ![ProcOf[c]] = c]
  /\ count' = [count EXCEPT ![c] = 1]
  /\ lock' = [lock EXCEPT ![c] = c]
  /\ Goes(c, "holds")
  /\ UNCHANGED <<file, alive, closing, judged, cleaner, forfeit>>
-----------------------------------------------------------------------------
(* A contended file: inspectLockPayload, shouldTreatAsOrphanSelfLock and    *)
(* shouldReclaimContendedLockFile.                                          *)
OrphanWithoutMap(c) == ProcOf[file.by] = ProcOf[c]
OrphanSelf(c) ==
  /\ ProcOf[file.by] = ProcOf[c] /\ ~HasStarttime
  /\ held[ProcOf[c]] = None

Stale(c) == ~Alive(file.by) \/ file.old \/ OrphanSelf(c)

(* Without a payload only the age of the file counts.                       *)
Unreadable == ~Exists \/ ~file.written

Judges(c) == judged' = [judged EXCEPT ![c] = file.by] /\ Goes(c, "removes")

Reads(c) ==
  /\ At(c, "reads")
  /\ IF ~Unreadable /\ Stale(c) THEN Judges(c)
     ELSE Goes(c, IF Unreadable THEN "stats" ELSE "retries") /\ UNCHANGED judged
  /\ UNCHANGED <<file, alive, entries, lock, cleaner, forfeit>>

AnyFile == Exists
NeverOld == FALSE
OldFile == Exists /\ file.old

Stats(c) ==
  /\ At(c, "stats")
  /\ IF OldFile THEN Judges(c) ELSE Goes(c, "retries") /\ UNCHANGED judged
  /\ UNCHANGED <<file, alive, entries, lock, cleaner, forfeit>>

Removes(c) ==
  /\ At(c, "removes")
  /\ Remove(judged[c])
  /\ judged' = [judged EXCEPT ![c] = None]
  /\ Goes(c, "retries")
  /\ UNCHANGED <<alive, entries, lock, cleaner>>
-----------------------------------------------------------------------------
(* releaseHeldLock: only the entry that is in HELD_LOCKS counts down, and   *)
(* the last release takes it out before it closes and removes the file.     *)
AnyShare(e) == TRUE
LastShare(e) == count[e] = 1

Releases(c) ==
  /\ At(c, "holds")
  /\ LET p == ProcOf[c]
         e == lock[c]
     IN IF held[p] # e THEN UNCHANGED entries
        ELSE /\ count' = [count EXCEPT ![e] = @ - 1]
             /\ IF LastShare(e)
                THEN held' = [held EXCEPT ![p] = None] /\ closing' = closing \cup {e}
                ELSE UNCHANGED <<held, closing>>
  /\ lock' = [lock EXCEPT ![c] = None]
  /\ Goes(c, "released")
  /\ UNCHANGED <<file, alive, judged, cleaner, forfeit>>

RemovesReleased(e) ==
  /\ e \in closing /\ Alive(e)
  /\ closing' = closing \ {e}
  /\ Remove(e)
  /\ UNCHANGED <<alive, held, count, call, lock, judged, cleaner>>

(* The watchdog takes a lock from holders that exceed maxHoldMs.            *)
WatchdogForces(p) ==
  /\ "watchdog" \in Faults /\ p \in alive /\ held[p] # None
  /\ count' = [count EXCEPT ![held[p]] = 0]
  /\ held' = [held EXCEPT ![p] = None]
  /\ closing' = closing \cup {held[p]}
  /\ forfeit' = forfeit \cup {held[p]}
  /\ UNCHANGED <<file, alive, call, lock, judged, cleaner>>

(* A signal releases every lock at once, though the process may go on with  *)
(* its runs while it shuts down.                                            *)
Terminates(p) ==
  /\ "terminate" \in Faults /\ p \in alive /\ held[p] # None
  /\ file' = None
  /\ held' = [held EXCEPT ![p] = None]
  /\ forfeit' = forfeit \cup {held[p]} \cup IF Exists THEN {file.by} ELSE {}
  /\ UNCHANGED <<alive, count, closing, call, lock, judged, cleaner>>

Crash(p) ==
  /\ "crash" \in Faults /\ alive = Proc /\ p \in alive
  /\ alive' = alive \ {p}
  /\ held' = [held EXCEPT ![p] = None]
  /\ call' = [c \in Call |-> IF ProcOf[c] = p THEN "gone" ELSE call[c]]
  /\ LET Kept(f, nothing) == [c \in Call |-> IF ProcOf[c] = p THEN nothing ELSE f[c]]
     IN count' = Kept(count, 0) /\ lock' = Kept(lock, None) /\ judged' = Kept(judged, None)
  /\ closing' = {e \in closing : ProcOf[e] # p}
  /\ UNCHANGED <<file, cleaner, forfeit>>

(* A file reaches staleMs when its owner died, or its holder takes longer.  *)
Ages ==
  /\ Exists /\ ~file.old
  /\ ~Alive(file.by) \/ ("age" \in Faults /\ call[file.by] = "holds")
  /\ file' = [file EXCEPT !.old = TRUE]
  /\ UNCHANGED <<alive, entries, call, lock, judged, cleaner, forfeit>>
-----------------------------------------------------------------------------
(* cleanStaleLockFiles: it lists, reads, and removes what it found stale; a *)
(* file without payload is stale whatever its age.                          *)
CleanerAt(place) == Cleaner \in alive /\ cleaner.at = place

CleanerLists ==
  /\ CleanerAt("idle")
  /\ cleaner' = [cleaner EXCEPT !.at = IF Exists THEN "reads" ELSE "ended"]
  /\ UNCHANGED <<file, alive, entries, call, lock, judged, forfeit>>

CleanerReads ==
  /\ CleanerAt("reads")
  /\ cleaner' = [at |-> IF Unreadable \/ ~Alive(file.by) \/ file.old THEN "removes" ELSE "ended",
                 judged |-> IF Unreadable THEN None ELSE file.by]
  /\ UNCHANGED <<file, alive, entries, call, lock, judged, forfeit>>

CleanerRemoves ==
  /\ CleanerAt("removes")
  /\ Remove(cleaner.judged)
  /\ cleaner' = [at |-> "ended", judged |-> None]
  /\ UNCHANGED <<alive, entries, call, lock, judged>>
-----------------------------------------------------------------------------
Acquire(c) == \/ Shares(c) \/ Tries(c) \/ Opens(c) \/ Writes(c) \/ Undoes(c) \/ Registers(c)
              \/ Reads(c) \/ Stats(c) \/ Removes(c)
Clean == CleanerLists \/ CleanerReads \/ CleanerRemoves

LockNext ==
  \/ \E c \in Call : Acquire(c) \/ WriteFails(c) \/ TimesOut(c) \/ Releases(c)
  \/ \E e \in Call : RemovesReleased(e)
  \/ \E p \in Proc : WatchdogForces(p) \/ Terminates(p) \/ Crash(p)
  \/ Ages \/ Clean

LockSpec == LockInit /\ [][LockNext]_lockVars

(* Promises and timers go on, holders release (runs have timeouts), and     *)
(* time passes.                                                             *)
LockFairSpec ==
  /\ LockSpec
  /\ \A c \in Call : /\ WF_lockVars((call[c] # "new" /\ Acquire(c)) \/ Releases(c))
                     /\ WF_lockVars(RemovesReleased(c))
  /\ WF_lockVars(Ages) /\ WF_lockVars(Clean)
-----------------------------------------------------------------------------
Places == {"new", "opens", "writes", "registers", "reads", "stats", "removes", "retries",
           "undoes", "holds", "released", "failed", "gone"}

TypeOK ==
  /\ file \in Files \cup {None}
  /\ alive \subseteq Proc
  /\ held \in [Proc -> Call \cup {None}] /\ closing \subseteq Call
  /\ count \in [Call -> Nat]
  /\ call \in [Call -> Places]
  /\ lock \in [Call -> Call \cup {None}] /\ judged \in [Call -> Call \cup {None}]
  /\ cleaner \in [at : {"idle", "reads", "removes", "ended"}, judged : Call \cup {None}]
  /\ forfeit \subseteq Call

(* A call that holds the session's lock finds the file of its own entry at  *)
(* the path, so no call of another entry or process holds it, too: unless   *)
(* the file was taken by a step that had judged another one, by one that    *)
(* went by its age or met it unwritten at start-up, by a signal or by the   *)
(* watchdog.  Sharers that release early, a file that is still being        *)
(* written, and this process's own lock must not make it disappear.         *)
HolderHasFile ==
  \A c \in Call : At(c, "holds") /\ lock[c] \notin forfeit => Exists /\ file.by = lock[c]

(* A call without time limit gets the lock in the end: dead owners are      *)
(* replaced, and no live process leaves a file behind that nobody removes.  *)
WaiterGetsLock ==
  \A c \in Call \ FiniteTimeout :
    call[c] = "opens" ~> (call[c] \in {"holds", "released", "failed", "gone"})
-----------------------------------------------------------------------------
(* Why HolderHasFile holds.                                                 *)

(* A call creates at most one file, so what a judgement says of the file of *)
(* a call stays true of it.                                                 *)
HasTried(e) == call[e] \notin {"new", "opens", "reads", "stats", "removes", "retries"}
OutOfUse(e) == ~Alive(e) \/ (Exists /\ file.by = e => file.old)

NamesAreTried ==
  \A e \in Call :
    /\ Exists /\ file.by = e => HasTried(e)
    /\ \A c \in Call : judged[c] = e => HasTried(e) /\ OutOfUse(e)
    /\ cleaner.judged = e => HasTried(e)
    /\ cleaner.judged = e /\ cleaner.at = "removes" => OutOfUse(e)

Sharers(e) == {c \in Call : lock[c] = e}
Registered(e) == call[e] \in {"holds", "released"}

(* HELD_LOCKS counts the sharers of its entry; an entry that was taken out  *)
(* by the last of them has none.                                            *)
EntriesAreExact ==
  /\ \A e \in Call :
       /\ \A p \in Proc : held[p] = e =>
            /\ ProcOf[e] = p /\ p \in alive /\ Registered(e)
            /\ count[e] = Cardinality(Sharers(e))
       /\ e \in closing => held[ProcOf[e]] # e /\ Registered(e)
       /\ e \in closing /\ e \notin forfeit => Sharers(e) = {}
       /\ \A c \in Call : lock[c] = e => ProcOf[e] = ProcOf[c] /\ Registered(e)
  /\ \A c \in Call : call[c] = "holds" <=> lock[c] # None

(* A call that has made its file, or whose entry is in use.                 *)
Owns(e) ==
  Alive(e) /\ (call[e] \in {"writes", "registers"} \/ held[ProcOf[e]] = e \/ Sharers(e) # {})

OwnersHaveFile ==
  \A e \in Call : Owns(e) /\ e \notin forfeit => Exists /\ file.by = e

LockInv == TypeOK /\ NamesAreTried /\ EntriesAreExact /\ OwnersHaveFile
=============================================================================
