------------------------------ MODULE LifecycleMC ------------------------------
(* Lifecycle with fairness, and its subscribers for the model checker. *)
EXTENDS Lifecycle

CONSTANTS e1, e2

\* 1 wants every ending and is on one engine; 2 wants failures, is on the other,
\* and is announced late.
McOn      == [s \in Subs |-> IF s = 1 THEN {e1} ELSE {e2}]
McKindsOf == [s \in Subs |-> IF s = 2 THEN {"failed"} ELSE Kinds]

McSpec == LifecycleSpec /\ LifecycleFairness
================================================================================
