----------------------------- MODULE RunLeaseMC -----------------------------
(***************************************************************************)
(* Model checking of RunLease. Instances that poll alike and are woken     *)
(* alike are interchangeable, so the safety runs may identify states that  *)
(* differ by a permutation of them.                                        *)
(***************************************************************************)
EXTENDS RunLease, TLC

Interchangeable == {p \in Permutations(Engines) :
                      \A e \in Engines : /\ e \in Drivers <=> p[e] \in Drivers
                                         /\ e \in Wakers <=> p[e] \in Wakers}

=============================================================================
