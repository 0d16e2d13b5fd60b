----------------------- MODULE CommandQueueRefinement -----------------------
(***************************************************************************)
(* CommandQueue implements LaneScheduler: the mapping forgets the call     *)
(* stack, the draining flags, the generations and waitForActiveTasks().    *)
(***************************************************************************)
EXTENDS CommandQueueProperties

Scheduler == INSTANCE LaneScheduler WITH
  running <- active, cap <- maxConcurrent, accepting <- ~gatewayDraining

(* Every behaviour of the queue is one of a FIFO executor per lane, whose   *)
(* starts respect the cap and whose clears and restarts are the only other  *)
(* ways out of a lane.                                                      *)
ImplementsScheduler == Scheduler!Spec

(* ... and one that never leaves a slot idle next to a waiting command.     *)
ImplementsFairScheduler == Scheduler!FairSpec
=============================================================================
