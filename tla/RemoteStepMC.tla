---------------------------- MODULE RemoteStepMC -----------------------------
(* Model values for checking RemoteStep; the engines are interchangeable.  *)
EXTENDS RemoteStep, TLC

Interchangeable == Permutations(Engines)
=============================================================================
