----------------------------- MODULE StepPromise -----------------------------
(***************************************************************************)
(* What a dispatched step promises the workflow that calls it: one attempt *)
(* settles it, once, and every replay of the body is told the same, unless *)
(* the engine gave the step up before it told the body anything.           *)
(***************************************************************************)
CONSTANTS
  Outcomes, \* how an attempt can settle the step
  None,     \* no outcome yet
  Lost      \* given up

VARIABLES outcome, told

Init == outcome = None /\ told = None

Settle == outcome = None /\ outcome' \in Outcomes /\ UNCHANGED told

Tell == told = None /\ outcome \in Outcomes /\ told' = outcome /\ UNCHANGED outcome

GiveUp == told = None /\ told' = Lost /\ UNCHANGED outcome

Next == Settle \/ Tell \/ GiveUp

Spec == Init /\ [][Next]_<<outcome, told>>
=============================================================================
