---------------------------- MODULE MCScorecard ----------------------------
(***************************************************************************)
(* Scorecard for TLC: one trade is followed past its window, by bars away  *)
(* from every level, at the entry, at the target and across all of them,   *)
(* the other for one bar, at the target.  A bar that reaches the stop      *)
(* alone decides what one across all levels does.                          *)
(***************************************************************************)
EXTENDS Scorecard, TLC

CONSTANTS a, b

Quiet     == [entry |-> FALSE, stop |-> FALSE, target |-> FALSE]
AtEntry   == [entry |-> TRUE, stop |-> FALSE, target |-> FALSE]
AtTarget  == [entry |-> FALSE, stop |-> FALSE, target |-> TRUE]
BothSides == [entry |-> TRUE, stop |-> TRUE, target |-> TRUE]

TwoTrades == {a, b}
TwoBars == a :> {Quiet, AtEntry, AtTarget, BothSides} @@ b :> {AtTarget}
TwoLengths == a :> 3 @@ b :> 1
=============================================================================
