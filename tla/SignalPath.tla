----------------------------- MODULE SignalPath -----------------------------
(***************************************************************************)
(* The way of a signal: the bars it may be computed from (drop_forming_bar *)
(* and newest_bar_is_stale in app/signals/service.py), the candles that    *)
(* the model asks for itself (_candles_tool_result), the panel that must   *)
(* confirm it (confluence.py), the gates it must pass (validation.py), and *)
(* the judgement of it against the bars that followed                      *)
(* (backtest/evaluator.py, backtest/runner.py, router.py).                 *)
(*                                                                         *)
(* Prices are whole ticks, times are minutes, a panel maps every indicator *)
(* to its vote: "up", "down" or "absent".                                  *)
(***************************************************************************)
EXTENDS Integers, Sequences, Functions, FiniteSetsExt

CONSTANTS
    Family, Members,       \* FAMILIES, and the indicators each one asks
    Interval,              \* INTERVAL_MINUTES of SIGNAL_INTERVAL
    MinBars,               \* bars generate needs
    MaxRounds, MaxServed,  \* signal_max_tool_rounds, and the candles of one call
    Cent,                  \* ticks in 0.01, below which reward_risk takes no risk for smaller
    MinAdx,                \* min_adx_trend
    MaxBuyRsi, MinSellRsi, \* max_buy_rsi, min_sell_rsi
    MinConfidence          \* confidence_threshold

Absent == -1
Newest(opens) == opens[Len(opens)]
-----------------------------------------------------------------------------
\* Mutant: the last bar is closed once the next one could have begun.
DropFormingEarly(opens, now) ==
    IF opens # <<>> /\ now - Newest(opens) < Interval - 1 THEN SubSeq(opens, 1, Len(opens) - 1) ELSE opens

\* The last bar goes unless a whole interval has passed since it opened.
DropForming(opens, now) ==
    IF opens # <<>> /\ now - Newest(opens) < Interval THEN SubSeq(opens, 1, Len(opens) - 1) ELSE opens

Stale(opens, now) == opens = <<>> \/ now - Newest(opens) > Interval * 3

\* What generate works on, or the reason it does not.
Frame(opens, now) ==
    LET frame == DropForming(opens, now) IN
    IF Len(frame) < MinBars THEN "insufficient_data"
    ELSE IF Stale(frame, now) THEN "stale_data" ELSE "bars"
-----------------------------------------------------------------------------
Candle(interval, at) == [interval |-> interval, at |-> at]
Candles(interval, opens, n) == {Candle(interval, opens[i]) : i \in {k \in DOMAIN opens : k > Len(opens) - n}}
Count(ask) == Max({1, Min({ask.count, MaxServed})})

\* Mutant: a backtest is served the market's candles too.
ServedFresh(frame, market, ask, live) ==
    IF ask.interval = Interval THEN Candles(Interval, frame, Count(ask))
    ELSE Candles(ask.interval, market[ask.interval], Count(ask))

\* _candles_tool_result: a backtest sees its own frame, whatever it asks for; a
\* live signal asks the market for every other interval, and is shown the last
\* bar whether it is over or not.
Served(frame, market, ask, live) ==
    IF ~live \/ ask.interval = Interval THEN Candles(Interval, frame, Count(ask))
    ELSE Candles(ask.interval, market[ask.interval], Count(ask))

\* _ask_llm: the candles behind the answer of a talk.  What was served before an
\* error is not in the plain request that follows it.
Shown(frame, market, talk, live) ==
    Candles(Interval, frame, Len(frame))
        \cup IF talk.failed THEN {}
             ELSE UNION {UNION {Served(frame, market, ask, live) : ask \in talk.rounds[k]} : k \in DOMAIN talk.rounds}

\* A talk that is all rounds of calls has no answer.
Answers(talk) == talk.failed \/ Len(talk.rounds) < MaxRounds
-----------------------------------------------------------------------------
Voters(panel, family) == {i \in Members[family] : panel[i] # "absent"}
Agrees(direction, vote) == (vote = "up") = (direction = "BUY")
Agreeing(direction, panel, family) == {i \in Voters(panel, family) : Agrees(direction, panel[i])}
Voting(panel) == {f \in Family : Voters(panel, f) # {}}

\* Shares are counted in parts of this many: it divides evenly by every family.
Whole == 420

\* Mutant: every indicator has one vote.
RatioFlat(direction, panel) ==
    (Whole * Cardinality(UNION {Agreeing(direction, panel, f) : f \in Family}))
        \div Cardinality(UNION {Voters(panel, f) : f \in Family})

Share(direction, panel, family) ==
    (Whole * Cardinality(Agreeing(direction, panel, family))) \div Cardinality(Voters(panel, family))

Total(f, S) ==
    LET each == CHOOSE s \in Bijection(1..Cardinality(S), S) : TRUE
        sum[n \in 0..Cardinality(S)] == IF n = 0 THEN 0 ELSE sum[n - 1] + f[each[n]]
    IN sum[Cardinality(S)]

\* The mean of the shares of the families that could vote, of Whole.
Ratio(direction, panel) ==
    Total([f \in Voting(panel) |-> Share(direction, panel, f)], Voting(panel)) \div Cardinality(Voting(panel))

\* Mutant: an absent indicator is taken for one that agrees.
ConfirmsSilence(direction, panel) ==
    Ratio(direction, [i \in DOMAIN panel |->
        IF panel[i] = "absent" THEN IF direction = "BUY" THEN "up" ELSE "down" ELSE panel[i]]) * 4 >= 3 * Whole

\* quant_confluence, with min_quant_confluence at three quarters.
Confirms(direction, panel) ==
    Voting(panel) # {} /\ Ratio(direction, panel) * 4 >= 3 * Whole
-----------------------------------------------------------------------------
Distance(a, b) == IF a > b THEN a - b ELSE b - a

\* Mutant: only the target's side is looked at.
PriceOrderingOfTarget(direction, entry, target, stop) ==
    IF direction = "BUY" THEN target > entry ELSE target < entry

PriceOrdering(direction, entry, target, stop) ==
    IF direction = "BUY" THEN target > entry /\ stop < entry ELSE target < entry /\ stop > entry

\* Mutant: a stop is only too wide, never too tight.
StopSizeWide(entry, stop, atr) == 2 * Distance(entry, stop) <= 7 * atr

\* max_entry_drift_atr is a quarter, min_reward_risk one and a half, a stop is
\* sized between one and three and a half times the ATR.
EntryDrift(entry, ltp, atr) == 4 * Distance(entry, ltp) <= atr
RewardRisk(entry, target, stop) == 2 * Distance(target, entry) >= 3 * Max({Distance(entry, stop), Cent})
StopSize(entry, stop, atr) == Distance(entry, stop) >= atr /\ 2 * Distance(entry, stop) <= 7 * atr

\* RSI fails closed.
RsiExtreme(direction, rsi) ==
    rsi = Absent \/ (IF direction = "BUY" THEN rsi > MaxBuyRsi ELSE rsi < MinSellRsi)

\* validate: the gates in their order, down to the first that refuses.
Validate(s, panel, rsi, atr, ltp) ==
    CASE s.direction = "HOLD" -> "hold"
      [] s.direction = "SELL" -> "long only"
      [] s.entry = Absent -> "prices"
      [] ~PriceOrdering(s.direction, s.entry, s.target, s.stop) -> "ordering"
      [] ~EntryDrift(s.entry, ltp, atr) -> "drift"
      [] ~Confirms(s.direction, panel) -> "confluence"
      [] RsiExtreme(s.direction, rsi) -> "rsi"
      [] ~RewardRisk(s.entry, s.target, s.stop) -> "reward"
      [] ~StopSize(s.entry, s.stop, atr) -> "stop"
      [] OTHER -> "ok"

\* generate: the regime is asked for before the model is.
Generate(opens, now, adx, talk, s, panel, rsi, atr, ltp) ==
    CASE Frame(opens, now) # "bars" -> Frame(opens, now)
      [] adx = Absent -> "adx_unavailable"
      [] adx < MinAdx -> "regime_filtered"
      [] ~Answers(talk) -> "llm_no_answer"
      [] Validate(s, panel, rsi, atr, ltp) # "ok" -> Validate(s, panel, rsi, atr, ltp)
      [] s.confidence < MinConfidence -> "low_confidence"
      [] OTHER -> "signal"
-----------------------------------------------------------------------------
Outcome(what, exit) == [outcome |-> what, exit |-> exit]

StopsOut(direction, stop, bar) == IF direction = "BUY" THEN bar.low <= stop ELSE bar.high >= stop
Reaches(direction, target, bar) == IF direction = "BUY" THEN bar.high >= target ELSE bar.low <= target
Worse(direction, a, b) == IF direction = "BUY" THEN Min({a, b}) ELSE Max({a, b})
Better(direction, a, b) == IF direction = "BUY" THEN Max({a, b}) ELSE Min({a, b})

\* Mutant: a short is filled as a long.
FillsAsLong(direction, stop, bar) == Min({bar.open, stop})

\* A bar that opens beyond the stop fills at its open.
FillsStop(direction, stop, bar) == Worse(direction, bar.open, stop)

\* evaluate, over the bars of I: the first that reaches either level, the stop
\* before the target.
Judge(direction, target, stop, bars, I) ==
    LET hits == {i \in I : StopsOut(direction, stop, bars[i]) \/ Reaches(direction, target, bars[i])}
        bar == bars[Min(hits)]
    IN IF I = {} THEN Outcome("OPEN", Absent)
       ELSE IF hits = {} THEN Outcome("OPEN", bars[Max(I)].close)
       ELSE IF StopsOut(direction, stop, bar) THEN Outcome("STOP_HIT", FillsStop(direction, stop, bar))
       ELSE Outcome("TARGET_HIT", Better(direction, bar.open, target))

\* The points a walk-forward backtest takes; bars are counted from 0.
SlicePoints(n, points, warmup, forward) ==
    LET end == n - forward - 1
        step == Max({1, (end - warmup) \div points})
    IN IF n < warmup + forward + 10 \/ end <= warmup THEN {}
       ELSE {warmup + step * k : k \in {j \in 0..(points - 1) : warmup + step * j < end}}

\* Mutant: the window is not cut at the end of the session.
ForwardOvernight(dates, idx, forward) ==
    {i \in DOMAIN dates : i > idx /\ i <= idx + forward}

\* session_forward_window: what follows in the same session.
Forward(dates, idx, forward) ==
    {i \in DOMAIN dates : i > idx /\ i <= idx + forward /\ dates[i] = dates[idx]}

\* evaluate_signals and _bars_after: the bars that opened after the signal.
JudgeStored(s, bars) ==
    Judge(s.direction, s.target, s.stop, bars, {i \in DOMAIN bars : bars[i].at > s.at})
-----------------------------------------------------------------------------
\* What generate computes its indicators, its levels and its gates from are bars
\* that are over and not long over: nothing of the newest could still change,
\* and a stopped feed makes no signals.
MadeOfClosedBars(opens, now) ==
    Frame(opens, now) = "bars" =>
        LET newest == Newest(DropForming(opens, now)) IN
        /\ now >= newest + Interval /\ now <= newest + 3 * Interval
        /\ \A i \in DOMAIN opens : opens[i] + Interval <= now => opens[i] <= newest

Over(candle, now) == candle.at + candle.interval <= now

\* A backtest is shown nothing but the bars of its slice; a live signal nothing
\* that is not over, except the last bar of another interval it asked for.
ShownIsOver(opens, market, talk, live, now) ==
    LET frame == DropForming(opens, now)
        asked == UNION {talk.rounds[k] : k \in DOMAIN talk.rounds}
    IN /\ Shown(opens, market, talk, FALSE) = Candles(Interval, opens, Len(opens))
       /\ Frame(opens, now) = "bars" =>
            \A c \in Shown(frame, market, talk, live) : ~Over(c, now) =>
               \E a \in asked : /\ live /\ ~talk.failed /\ a.interval # Interval
                               /\ c = Candle(a.interval, Newest(market[a.interval]))

\* One panel never confirms both directions, however little of it can vote.
NeverBothWays(panel) == ~(Confirms("BUY", panel) /\ Confirms("SELL", panel))

\* "Trend cannot outvote the panel by being measured three ways": no family
\* that is unanimous against a trade is overruled by the others.
NoFamilyOverruled(panel) ==
    \A d \in {"BUY", "SELL"} : Confirms(d, panel) =>
        \A f \in Voting(panel) : Agreeing(d, panel, f) # {}

\* A stored signal that passed the ordering gate is judged by its own side and
\* by later bars: a stop is a loss and a target a gain, at a price that was
\* traded after the signal was made.
VerdictsMatchSide(s, bars) ==
    LET v == JudgeStored(s, bars)
        gain == IF s.direction = "BUY" THEN v.exit - s.entry ELSE s.entry - v.exit
    IN PriceOrdering(s.direction, s.entry, s.target, s.stop) =>
        /\ v.outcome = "STOP_HIT" => gain < 0
        /\ v.outcome = "TARGET_HIT" => gain > 0
        /\ v.outcome # "OPEN" =>
             \E i \in DOMAIN bars : bars[i].at > s.at /\ v.exit \in bars[i].low..bars[i].high

\* Noise decides nothing: a bar about the entry that is shorter than the ATR
\* neither stops a signal that was sent nor pays it.
NoiseDecidesNothing(opens, now, adx, talk, s, panel, rsi, atr, ltp, bar) ==
    /\ Generate(opens, now, adx, talk, s, panel, rsi, atr, ltp) = "signal"
    /\ s.entry \in bar.low..bar.high /\ bar.high - bar.low < atr
    => Judge(s.direction, s.target, s.stop, <<bar>>, {1}).outcome = "OPEN"

\* What a point of the backtest is judged by is the rest of its own session,
\* without a gap, and never a bar the signal was made from.
JudgedInSession(dates, points, warmup, forward) ==
    \A idx \in SlicePoints(Len(dates), points, warmup, forward) :
        LET w == Forward(dates, idx + 1, forward) IN
        /\ idx >= warmup /\ idx + forward < Len(dates)
        /\ \A i \in w : i > idx + 1 /\ dates[i] = dates[idx + 1] /\ (i - 1 = idx + 1 \/ i - 1 \in w)
        /\ Cardinality(w) < forward => \/ idx + 2 + Cardinality(w) > Len(dates)
                                       \/ dates[idx + 2 + Cardinality(w)] # dates[idx + 1]

=============================================================================
