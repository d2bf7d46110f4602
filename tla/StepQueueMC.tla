------------------------------ MODULE StepQueueMC ------------------------------
(* StepQueue with fairness and the settings the model checker looks at. *)
EXTENDS StepQueue

CONSTANT First \* an engine

McKeyOf      == [s \in Steps |-> IF s = 3 THEN "b" ELSE "a"]
McPriorityOf == [s \in Steps |-> IF s = 2 THEN 1 ELSE 0]

\* One slot: one engine, with its own accounting and a rate window, or with the shared
\* accounting; two with the shared accounting and key fairness. Two slots: two with the
\* shared accounting, in order of arrival. Ids are kept where arrival decides.
McInit ==
  /\ QueueInit /\ (shared <=> policy.rate = 0) /\ (stable <=> shared /\ ~policy.fair)
  /\ (policy.lifo <=> ~shared /\ policy.fair)
  /\ \/ fleet = {First} /\ policy.concurrency = 1
     \/ fleet = Engines /\ shared /\ (policy.fair <=> policy.concurrency = 1)

McSpec == McInit /\ [][QueueNext]_queueVars /\ QueueFairness
================================================================================
