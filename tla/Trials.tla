------------------------------- MODULE Trials -------------------------------
(* A behaviour of the trial modules is one trial of one algorithm.          *)
EXTENDS Integers, Sequences, FiniteSets

VARIABLE trial

Untried == [of |-> "nothing"]
Try(t) == trial' = t
=============================================================================
