-------------------------- MODULE ChannelProperties --------------------------
(* What a channel account promises under the manager, the monitor, the     *)
(* reload and the clients.                                                 *)
EXTENDS ChannelManager

(* One account runs once.  startChannelInternal looks for a task before it *)
(* awaits isConfigured and stores one after it, so this rests on who can   *)
(* get between the two; it holds until two restarts go on from the end of  *)
(* one instance.                                                           *)
OneInstance == overlap \/ Cardinality(Live) <= 1

(* The instance that runs is the one that the manager can stop: a later    *)
(* stopChannel finds its task and its abort controller.                    *)
LiveIsTracked == ~overlap /\ micro = <<>> => Live \subseteq {entry}

(* A crash loop ends: automatic restarts since the attempts were last      *)
(* cleared stay under the limit, plus the one that slept when they were.   *)
CrashLoopIsCapped == overlap \/ autos <= MaxRestartAttempts + 1

NewInstance == \E i \in Instances : inst[i] = "none" /\ inst'[i] = "running"

(* An instance does not start its own successor after a user stopped the   *)
(* account, wherever in its exit, its backoff or its restart it was.       *)
AutoRestartHonoursStop ==
  [][held /\ ~overlap /\ NewInstance => \A i \in Instances : inst[i] = "restarting" => inst'[i] = "restarting"]_vars

(* An account that a user stopped stays stopped until a start is asked for *)
(* ("Tracks accounts that were manually stopped so we don't auto-restart   *)
(* them").  A monitor's restart that had already stopped the account goes  *)
(* on to start it.                                                         *)
StopHolds == [][held => ~NewInstance]_vars

(* A stop, a logout or a restart never hangs.                              *)
CallsReturn == \A c \in Callers : call[c] = "stopping" ~> call[c] = "idle"

(* With the monitor, an account that ended without being stopped runs      *)
(* again as long as its configuration allows it, even after the manager    *)
(* gave up.                                                                *)
AccountComesBack ==
  Live = {} /\ usable = "yes" /\ ~manual ~> (Live # {} \/ usable # "yes" \/ manual)
-----------------------------------------------------------------------------
(* Why the safety properties hold, up to overlap.                          *)

(* The entry is the instance that runs or sleeps; besides it there is at   *)
(* most one that is about to start its successor, alone in micro and not   *)
(* stopped.                                                                *)
EntryIsExact ==
  /\ entry # Nobody => inst[entry] \in {"running", "backoff"}
  /\ \A i \in Instances : inst[i] \in {"running", "backoff"} => entry = i
  /\ \A i \in Instances : inst[i] = "restarting" =>
       /\ micro = <<i>> /\ entry = Nobody /\ ~manual /\ ~held
       /\ \A c \in Callers : waits[c] # i

(* Who waits for an instance has stopped it; one that slept is woken.      *)
WaitersStopped ==
  /\ \A c \in Callers : waits[c] # Nobody =>
       /\ entry = waits[c] /\ manual /\ call[c] = "stopping"
       /\ inst[entry] = "backoff" => micro = <<entry>>
  /\ held /\ entry # Nobody => manual

(* The continuations that are ready: one instance, or callers of whom only *)
(* the last goes on to start, and only where no other found the entry gone *)
(* before.                                                                 *)
TurnsAreOrdered ==
  /\ \A c \in Callers : next[c] = "starting" => c \in Restarters
  /\ \A k \in DOMAIN micro : micro[k] \in Instances => micro = <<micro[k]>>
  /\ \A k \in DOMAIN micro : micro[k] \in Callers =>
       /\ call[micro[k]] \in {"stopped", "starting", "checking"}
       /\ call[micro[k]] = "stopped" => entry = Nobody
       /\ call[micro[k]] = "starting" =>
            micro = <<micro[k]>> \/ (k = Len(micro) /\ micro[k] \in Restarters)
       /\ call[micro[k]] = "checking" => micro = <<micro[k]>> /\ entry = Nobody
  /\ \A k, m \in DOMAIN micro :
       micro[k] = micro[m] \/ {micro[k], micro[m]} \subseteq Restarters => k = m

(* An automatic restart is preceded by an attempt that was counted, except *)
(* the first after attempts were cleared under a sleeping instance.        *)
RestartsAreCounted ==
  /\ autos <= MaxRestartAttempts + 1
  /\ Live # {} => autos <= attempts + 1
  /\ \A i \in Instances : inst[i] \in {"backoff", "restarting"} =>
       autos <= attempts /\ attempts <= MaxRestartAttempts
=============================================================================
