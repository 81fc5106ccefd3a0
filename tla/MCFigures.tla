----------------------------- MODULE MCFigures -----------------------------
(***************************************************************************)
(* The pure algorithms of the system, each tried on every input of a small *)
(* range: the trial modules say which.  A behaviour picks a topic, and one *)
(* trial of it.  Trials of Conditions are here: every node over the fields *)
(* there are, every pair of lines over three bars, and replays over three  *)
(* and four bars.                                                          *)
(***************************************************************************)
EXTENDS TrialsSignals, TrialsEvents, TrialsMarket, TrialsJobs

Strategies == INSTANCE Conditions WITH MaxDepth <- 1, MaxNodes <- 3

CondLine == [1..3 -> -1..1]
CondLeaf(left, op, right) ==
    [fields |-> {"indicator", "op", "compare_to"}, kids |-> <<>>, sound |-> TRUE,
     op |-> op, left |-> left, right |-> right]
CondExit(kind, percent) ==
    [fields |-> {"type", "percent"}, kids |-> <<>>, sound |-> TRUE, exit |-> kind, percent |-> percent]
CondAtr(kind, multiple) ==
    [fields |-> {"type", "atr_multiple"}, kids |-> <<>>, sound |-> TRUE, exit |-> kind, multiple |-> multiple]
CondGroup(key, kids) == [fields |-> {key}, kids |-> kids, sound |-> TRUE]
CondOp == {">", "<", ">=", "<=", "==", "!=", "crosses_above", "crosses_below"}
CondSome == {CondLeaf(l, op, [i \in 1..3 |-> 0]) : l \in [1..3 -> {-1, 1}], op \in {">", "crosses_above"}}

\* Every node the model may send, sound or not.
TryNode ==
    \E f \in SUBSET Strategies!Field, kids \in {<<>>, <<"good">>, <<"bad">>, <<"good", "bad">>}, sound \in BOOLEAN :
        /\ f # {} /\ ("not" \in f /\ f \cap Strategies!Groups = {} => Len(kids) = 1)
        /\ Try([of |-> "node", node |->
                [fields |-> f, sound |-> sound,
                 kids |-> [i \in DOMAIN kids |->
                    IF kids[i] = "good" THEN CondExit("stop_loss", 1)
                    ELSE [CondExit("stop_loss", 1) EXCEPT !.fields = {"typo"}]]]])
TryCondition ==
    \E l, r \in CondLine, op \in CondOp : Try([of |-> "condition", node |-> CondLeaf(l, op, r)])
TryGroup ==
    \E a, b \in CondSome, key \in {"all", "any"} :
        Try([of |-> "condition", node |-> CondGroup(key, <<a, b>>)])
TryNegation == \E a \in CondSome : Try([of |-> "negation", node |-> CondGroup("not", <<a>>)])

Bar(prices) == {[open |-> o, close |-> c, low |-> l, high |-> IF o > c THEN o ELSE c, atr |-> -1] :
                    o \in prices, c \in prices, l \in prices}
Bars(prices) == {b \in Bar(prices) : b.low <= b.open /\ b.low <= b.close}
Marks(S, n) == CondLeaf([i \in 1..n |-> IF i \in S THEN 1 ELSE 0], ">", [i \in 1..n |-> 0])
CondStops == {CondExit("stop_loss", 30), CondExit("take_profit", 30), CondAtr("stop_loss", 1)}
TryShort ==
    \E b \in [1..3 -> Bars(1..3)], e \in SUBSET (1..2), x \in SUBSET (2..3), d \in CondStops :
        /\ b[1] \in {[open |-> 1, close |-> 3, low |-> 1, high |-> 3, atr |-> -1]}
        /\ Try([of |-> "strategy", entry |-> Marks(e, 3), stop |-> Strategies!NoStop,
                bars |-> [b EXCEPT ![2].atr = 1, ![3].atr = 1],
                exit |-> CondGroup("any", <<Marks(x, 3), d>>)])
TryLong ==
    \E b \in [1..4 -> Bars(1..2)], e \in SUBSET (1..3), x \in SUBSET (2..4),
       d \in {Strategies!NoStop, Strategies!Percent(50)}, own \in BOOLEAN :
        /\ b[1] \in {[open |-> 1, close |-> 2, low |-> 1, high |-> 2, atr |-> -1]}
        /\ Try([of |-> "strategy", entry |-> Marks(e, 4), stop |-> d,
                bars |-> [b EXCEPT ![3].atr = 1, ![4].atr = 2],
                exit |-> IF own THEN CondGroup("any", <<Marks(x, 4), CondAtr("stop_loss", 1)>>) ELSE Marks(x, 4)])

\* What the validator accepts the evaluator can run (Strategies!AcceptedCanRun).
AcceptedCanRun == trial.of = "node" => Strategies!AcceptedCanRun(trial.node)
\* A later bar never changes an earlier verdict (Strategies!NoLookahead).
NoLookahead == trial.of \in {"condition", "negation"} => Strategies!NoLookahead(trial.node, 3)
\* An indicator that is not warm decides nothing (Strategies!DeclinesUnwarmed).
DeclinesUnwarmed == trial.of = "condition" => Strategies!DeclinesUnwarmed(trial.node, 3)
\* A finished trade is final (Strategies!NoHindsight).
NoHindsight == trial.of = "strategy" => Strategies!NoHindsight(trial.entry, trial.exit, trial.bars, trial.stop)
\* Every fill is a price of its own bar (Strategies!FillsAreReal).
FillsAreReal == trial.of = "strategy" => Strategies!FillsAreReal(trial.entry, trial.exit, trial.bars, trial.stop)

\* A strategy runs, and its replay knows no more than its trader did.
StrategiesAreSound ==
    AcceptedCanRun /\ NoLookahead /\ DeclinesUnwarmed /\ NoHindsight
    /\ FillsAreReal

TryStrategy == TryNode \/ TryCondition \/ TryGroup \/ TryNegation \/ TryShort \/ TryLong
-----------------------------------------------------------------------------
Topic == {"strategies", "signals", "levels", "plans", "news", "calendar",
          "markets", "mornings", "duties"}

Init == trial = Untried
Next ==
    \/ trial = Untried /\ \E t \in Topic : Try([of |-> t])
    \/ trial.of = "strategies" /\ TryStrategy
    \/ trial.of = "signals" /\ TrySignals
    \/ trial.of = "levels" /\ TryLevels
    \/ trial.of = "plans" /\ TryPlans
    \/ trial.of = "news" /\ TryNews
    \/ trial.of = "calendar" /\ TryEvents
    \/ trial.of = "markets" /\ TryMarket
    \/ trial.of = "mornings" /\ TryMorning
    \/ trial.of = "duties" /\ TryDuties
Spec == Init /\ [][Next]_trial
=============================================================================
