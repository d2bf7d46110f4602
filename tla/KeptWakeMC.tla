----------------------------- MODULE KeptWakeMC -----------------------------
(* KeptWake with fairness, for the model checker. *)
EXTENDS KeptWake

\* The two results of a fan, or the last of the signals.
FanOrSignal == {[fan |-> TRUE, out |-> Facts, at |-> Engines]} \cup
                {[fan |-> FALSE, out |-> {f}, at |-> Engines] : f \in Facts}

\* Two signals, both to the instance that does not execute the run.
TwoSignals == {[fan |-> FALSE, out |-> Facts, at |-> Engines \ {First}]}

McSpec == WakeSpec /\ WakeFairness
=============================================================================
