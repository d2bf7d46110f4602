----------------------------- MODULE SchedulesMC -----------------------------
(* Schedules with fairness, and its definitions for the model checker. *)
EXTENDS Schedules

\* One that skips overlaps and catches up on its last window, one that drops
\* the windows it missed, and one with jitter.
McDefs == {[every |-> 1, jitter |-> 0, skip |-> TRUE,  late |-> TRUE],
           [every |-> 2, jitter |-> 0, skip |-> FALSE, late |-> FALSE],
           [every |-> 2, jitter |-> 2, skip |-> TRUE,  late |-> TRUE]}

McSpec == SchedulesSpec /\ SchedulesFairness
==============================================================================
