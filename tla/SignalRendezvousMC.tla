------------------------- MODULE SignalRendezvousMC -------------------------
(***************************************************************************)
(* Model checking of SignalRendezvous. Senders are interchangeable.        *)
(***************************************************************************)
EXTENDS SignalRendezvous, TLC

Interchangeable == Permutations(Senders)

=============================================================================
