---------------------------- MODULE SingletonGateMC ----------------------------
(* SingletonGate with fairness, for the model checker. *)
EXTENDS SingletonGate

GateFairSpec == GateSpec /\ GateFairness
================================================================================
