---------------------------- MODULE MCKiteSession ----------------------------
(* KiteSession with the threads of the signals process and of newsd.        *)
EXTENDS KiteSession

OneProcess == [t \in Thread |-> CHOOSE p \in Provider : TRUE]

TwoProcesses == [t1 |-> "signals", t2 |-> "newsd"]
=============================================================================
