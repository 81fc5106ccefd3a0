----------------------------- MODULE Conditions -----------------------------
(***************************************************************************)
(* The condition engine (app/signals/conditions.py) and the replay of what *)
(* it finds over price bars (_run_signals in app/signals/analysis.py).     *)
(*                                                                         *)
(* A series is a line of readings, one for each bar; a bar on which an     *)
(* indicator is not warm reads None.  A condition as the model sends it is *)
(* a record: the fields it has, its children, and whether the names and    *)
(* numbers in those fields are on the allow-lists and within their bounds. *)
(***************************************************************************)
EXTENDS Integers, Sequences, FiniteSets

LOCAL INSTANCE SequencesExt
LOCAL INSTANCE FiniteSetsExt

CONSTANTS
    MaxDepth, MaxNodes   \* MAX_DEPTH, MAX_NODES

None == -1

Groups == {"all", "any"}
ExitFields == {"type", "atr_multiple", "percent"}
LeafFields == {"indicator", "params", "op", "value", "compare_to", "compare_params"}
Field == Groups \cup {"not"} \cup ExitFields \cup LeafFields \cup {"typo"}

RECURSIVE Size(_), Depth(_), WellFormed(_), Evaluate(_, _), Evaluable(_), Stops(_), Cut(_, _)

Size(n) == 1 + FoldLeft(LAMBDA sum, k : sum + Size(k), 0, n.kids)
Depth(n) == Max({0} \cup {1 + Depth(n.kids[i]) : i \in DOMAIN n.kids})

\* Mutant: what a leaf does not know is ignored.
WellFormedLeafLoose(n) ==
    n.sound /\ {"indicator", "op"} \subseteq n.fields

\* An indicator, an operator, and one thing to compare with.
WellFormedLeaf(n) ==
    /\ n.sound /\ {"indicator", "op"} \subseteq n.fields
    /\ n.fields \subseteq LeafFields
    /\ ("value" \in n.fields) # ("compare_to" \in n.fields)

\* validate_condition, node by node.
WellFormed(n) ==
    IF n.fields \cap Groups # {}
    THEN /\ Cardinality(n.fields) = 1 /\ n.kids # <<>>
         /\ \A i \in DOMAIN n.kids : WellFormed(n.kids[i])
    ELSE IF "not" \in n.fields THEN n.fields = {"not"} /\ WellFormed(n.kids[1])
    ELSE IF "type" \in n.fields
    THEN n.sound /\ n.fields \subseteq ExitFields /\ Cardinality(n.fields) > 1
    ELSE WellFormedLeaf(n)

Validated(n) == Size(n) <= MaxNodes /\ Depth(n) <= MaxDepth /\ WellFormed(n)

\* The fields evaluate_condition reads, in the order in which it looks.
Evaluable(n) ==
    IF n.fields \cap Groups # {} THEN n.kids # <<>> /\ \A i \in DOMAIN n.kids : Evaluable(n.kids[i])
    ELSE IF "not" \in n.fields THEN Len(n.kids) = 1 /\ Evaluable(n.kids[1])
    ELSE "type" \in n.fields \/
         (/\ n.sound /\ {"indicator", "op"} \subseteq n.fields
          /\ n.fields \cap {"value", "compare_to"} # {})
-----------------------------------------------------------------------------
Compare(op, a, b) ==
    CASE op \in {">", "above", "crosses_above"} -> a > b
      [] op \in {"<", "below", "crosses_below"} -> a < b
      [] op = ">=" -> a >= b
      [] op = "<=" -> a <= b
      [] op = "==" -> a = b
      [] op = "!=" -> a # b

\* Mutant: the other bar is the next one.
CameFromNext(n, i) ==
    LET h == i + 1 IN
    /\ h \in DOMAIN n.left /\ n.left[h] # None /\ n.right[h] # None
    /\ IF n.op = "crosses_above" THEN n.left[h] <= n.right[h] ELSE n.left[h] >= n.right[h]

\* A cross needs a bar before, on which the lines were the other way round.
CameFrom(n, i) ==
    LET h == i - 1 IN
    /\ h > 0 /\ n.left[h] # None /\ n.right[h] # None
    /\ IF n.op = "crosses_above" THEN n.left[h] <= n.right[h] ELSE n.left[h] >= n.right[h]

\* Mutant: a reading that is missing is compared like any other.
LeafUnwarmed(n, i) ==
    /\ Compare(n.op, n.left[i], n.right[i])
    /\ n.op \in {"crosses_above", "crosses_below"} => CameFrom(n, i)

Leaf(n, i) ==
    /\ n.left[i] # None /\ n.right[i] # None
    /\ Compare(n.op, n.left[i], n.right[i])
    /\ n.op \in {"crosses_above", "crosses_below"} => CameFrom(n, i)

\* The bars, of the first `bars`, on which a condition holds.
Evaluate(n, bars) ==
    CASE "all" \in n.fields -> {i \in 1..bars : \A k \in DOMAIN n.kids : i \in Evaluate(n.kids[k], bars)}
      [] "any" \in n.fields -> UNION {Evaluate(n.kids[k], bars) : k \in DOMAIN n.kids}
      [] "not" \in n.fields -> (1..bars) \ Evaluate(n.kids[1], bars)
      [] "type" \in n.fields -> {}
      [] OTHER -> {i \in 1..bars : Leaf(n, i)}
-----------------------------------------------------------------------------
\* extract_risk_exits: the stops of an exit tree, wherever they stand; the last
\* is kept.  A take_profit is collected as well, and run_strategy makes no use
\* of it.
Stops(n) ==
    IF "type" \in n.fields THEN IF n.exit = "stop_loss" THEN <<n>> ELSE <<>>
    ELSE FlattenSeq([k \in DOMAIN n.kids |-> Stops(n.kids[k])])

\* A stop takes off a part of the entry's price: so much of so much.
Off(part, whole) == [part |-> part, whole |-> whole]
NoStop == Off(0, 0)
Percent(p) == Off(p, 100)

\* The stop of a run: the tree's own percentage, or its multiple of the ATR as
\* a part of the close, both of the LAST bar of the frame, or the caller's.
StopIn(exit, bars, stop) ==
    LET stops == Stops(exit)
        s == stops[Len(stops)]
        last == bars[Len(bars)]
    IN IF stops = <<>> THEN stop
       ELSE IF "percent" \in s.fields THEN Percent(s.percent)
       ELSE IF last.atr # None THEN Off(last.atr * s.multiple, last.close) ELSE stop

Flat == [pos |-> FALSE, entry |-> 0, at |-> 0, trades |-> <<>>]

\* Mutant: the deciding bar's close.
EnteredAtClose(s, bars, i) == [s EXCEPT !.pos = TRUE, !.entry = bars[i].close, !.at = i + 1]

\* A position is opened at the next bar's open.
Entered(s, bars, i) == [s EXCEPT !.pos = TRUE, !.entry = bars[i + 1].open, !.at = i + 1]

Booked(s, i, price) ==
    [s EXCEPT !.pos = FALSE,
              !.trades = Append(@, [entry |-> s.entry, at |-> s.at, exit |-> price, until |-> i])]

\* The price of a stop, in whole ticks.
StopPrice(s, stop) == (s.entry * (stop.whole - stop.part)) \div stop.whole

\* Mutant: every stop is filled at its own price.
StopFillExact(s, bar, stop) == StopPrice(s, stop)

\* A bar that opens beyond the stop fills at its open.
StopFill(s, bar, stop) == Min({bar.open, StopPrice(s, stop)})

Stopped(s, bar, stop) == s.pos /\ stop # NoStop /\ bar.low <= StopPrice(s, stop)

\* Mutant: the exit of the last bar is booked as the end of the data comes.
ReplayBarToEnd(s, bars, entries, exits, stop, i) ==
    IF Stopped(s, bars[i], stop) THEN Booked(s, i, StopFill(s, bars[i], stop))
    ELSE IF s.pos /\ (i \in exits \/ i = Len(bars)) THEN Booked(s, i, bars[i].close)
    ELSE IF ~s.pos /\ i \in entries /\ i < Len(bars) THEN Entered(s, bars, i)
    ELSE s

\* One bar of _run_signals: the stop first, then the exit rule, then an entry.
ReplayBar(s, bars, entries, exits, stop, i) ==
    IF Stopped(s, bars[i], stop) THEN Booked(s, i, StopFill(s, bars[i], stop))
    ELSE IF s.pos /\ i \in exits THEN Booked(s, i, bars[i].close)
    ELSE IF ~s.pos /\ i \in entries /\ i < Len(bars) THEN Entered(s, bars, i)
    ELSE s

Replay(bars, entries, exits, stop) ==
    FoldLeftDomain(LAMBDA s, i : ReplayBar(s, bars, entries, exits, stop, i), Flat, bars)

\* run_strategy: one stop for every trade of the frame.
RunStrategy(entry, exit, bars, stop) ==
    Replay(bars, Evaluate(entry, Len(bars)), Evaluate(exit, Len(bars)), StopIn(exit, bars, stop)).trades
-----------------------------------------------------------------------------
\* Whatever the validator lets through, the evaluator can evaluate: the two
\* walk the tree by rules of their own.
AcceptedCanRun(n) == Validated(n) => Evaluable(n)

\* A condition as it was after m bars.
Cut(n, m) ==
    IF "op" \in n.fields THEN [n EXCEPT !.left = SubSeq(@, 1, m), !.right = SubSeq(@, 1, m)]
    ELSE [n EXCEPT !.kids = [k \in DOMAIN n.kids |-> Cut(n.kids[k], m)]]

\* No lookahead: what a condition says of a bar does not change when the bars
\* after it are there.
NoLookahead(n, bars) == \A m \in 1..bars : Evaluate(Cut(n, m), m) = Evaluate(n, bars) \cap (1..m)

\* "It declines to trade rather than inventing one": a condition without a
\* negation holds on no bar on which one of its readings is missing; one of
\* several alternatives must do.
RECURSIVE Readings(_, _)
Readings(n, i) ==
    CASE "all" \in n.fields -> \A k \in DOMAIN n.kids : Readings(n.kids[k], i)
      [] "any" \in n.fields -> \E k \in DOMAIN n.kids : Readings(n.kids[k], i)
      [] OTHER -> n.left[i] # None /\ n.right[i] # None
DeclinesUnwarmed(n, bars) == \A i \in Evaluate(n, bars) : Readings(n, i)

\* The trades of a strategy that were over by bar m, as the first m bars give
\* them and as all bars do.
Agreed(entry, exit, bars, stop, m) ==
    RunStrategy(Cut(entry, m), Cut(exit, m), SubSeq(bars, 1, m), stop)
        = SelectSeq(RunStrategy(entry, exit, bars, stop), LAMBDA t : t.until <= m)

\* A stop of the caller's, or a percentage, is the same on every bar.
FixedStop(exit) == \A i \in DOMAIN Stops(exit) : "percent" \in Stops(exit)[i].fields

\* A strategy has no hindsight: trades that are over do not change when more
\* bars follow, whatever the conditions, if the stop is a percentage; if it is
\* of the ATR, they change by the last bar's ATR and close and nothing else.
NoHindsight(entry, exit, bars, stop) ==
    \A m \in 1..Len(bars) :
        \/ Agreed(entry, exit, bars, stop, m)
        \/ /\ ~FixedStop(exit)
           /\ StopIn(exit, bars, stop) # StopIn(exit, SubSeq(bars, 1, m), stop)

\* No price is booked that the market did not print in that very bar, and none
\* in the bar that gave the signal, or before the last trade was over.
FillsAreReal(entry, exit, bars, stop) ==
    LET trades == RunStrategy(entry, exit, bars, stop) IN
    \A k \in DOMAIN trades : LET t == trades[k] IN
        /\ t.at - 1 \in Evaluate(entry, Len(bars))
        /\ t.entry \in bars[t.at].low..bars[t.at].high
        /\ t.exit \in bars[t.until].low..bars[t.until].high
        /\ t.until >= t.at /\ (k > 1 => t.at > trades[k - 1].until)
=============================================================================
