----------------------------- MODULE RunQueueMC -----------------------------
(* RunQueue with fairness, for the model checker. *)
EXTENDS RunQueue

McSpec == QueueSpec /\ QueueFairness
=============================================================================
