---------------------------- MODULE TrialsSignals ---------------------------
(* Trials of SignalPath: up to three bars five minutes about an interval's   *)
(* end, every panel of seven indicators, every trade of a few ticks, every   *)
(* split of fifteen bars into two sessions.  Trials of Levels: charts of     *)
(* five to eight bars.  Trials of TradePlan: levels about the last price, a  *)
(* few ATRs either way.                                                      *)
EXTENDS Trials

SigMembers == [trend |-> {"ema", "supertrend", "di"}, momentum |-> {"rsi", "macd", "roc"}, location |-> {"vwap"}]
Signals(c) == INSTANCE SignalPath WITH
    Family <- c.families, Members <- c.members, Interval <- c.interval, MinBars <- c.bars, MinAdx <- c.adx,
    MaxBuyRsi <- c.buyRsi, MinSellRsi <- c.sellRsi, Cent <- c.cent, MinConfidence <- c.confidence,
    MaxRounds <- c.rounds, MaxServed <- c.served

Engine ==
    [families |-> {"trend", "momentum", "location"}, members |-> SigMembers, interval |-> 5, bars |-> 1, adx |-> 2,
     buyRsi |-> 7, sellRsi |-> 3, cent |-> 1, confidence |-> 6, rounds |-> 2, served |-> 2]

TryFrame ==
    \E n \in 0..3, first \in 0..4, gap \in 5..6, late \in 0..30 :
        LET now == first + (IF n = 0 THEN 0 ELSE (n - 1) * gap) + late IN
        Try([of |-> "frame", opens |-> [i \in 1..n |-> first + (i - 1) * gap], now |-> now])

\* Up to two rounds of calls for up to three candles of one of three intervals.
SigAsk == [interval : {1, 5, 10}, count : {0, 1, 3}]
SigRound == {r \in SUBSET SigAsk : Cardinality(r) \in 1..2}
SigTalk == [rounds : {<<>>} \cup [1..1 -> SigRound] \cup [1..2 -> {{a} : a \in SigAsk}], failed : BOOLEAN]
Quiet == [rounds |-> <<>>, failed |-> FALSE]
SigMarket(now, ago) ==
    [m \in {1, 10} |-> [i \in 1..3 |-> now - ago - (3 - i) * m]]

TryTalk ==
    \E n \in 0..2, late \in {0, 4, 5, 14, 16}, ago \in {0, 1, 9, 10}, talk \in SigTalk, live \in BOOLEAN :
        LET now == 5 * n + late IN
        Try([of |-> "talk", opens |-> [i \in 1..n |-> 5 * i], now |-> now, live |-> live, talk |-> talk,
             market |-> SigMarket(now, ago)])

SigIndicator == UNION {SigMembers[f] : f \in DOMAIN SigMembers}
TryPanel == \E p \in [SigIndicator -> {"up", "down", "absent"}] : Try([of |-> "panel", panel |-> p])

SigBar == {b \in [open : 1..5, low : 1..5, high : 1..5] : b.low <= b.open /\ b.open <= b.high}
TryVerdict ==
    \E d \in {"BUY", "SELL"}, target, stop \in 1..5, b, c \in SigBar, at \in 0..2 :
        /\ c.open = 3
        /\ Try([of |-> "verdict",
                s |-> [direction |-> d, entry |-> 3, target |-> target, stop |-> stop, at |-> at],
                bars |-> <<[at |-> 1, open |-> b.open, low |-> b.low, high |-> b.high, close |-> b.low],
                           [at |-> 2, open |-> c.open, low |-> c.low, high |-> c.high, close |-> c.high]>>])

SigUp == [i \in SigIndicator |-> "up"]
TrySignal ==
    \E d \in {"BUY", "SELL", "HOLD"}, target \in 9..20, stop \in 0..11, adx \in {-1, 1, 2},
        rsi \in {-1, 7, 8}, conf \in {5, 6}, ltp \in 9..11, low, high \in 7..13 :
        /\ low <= 10 /\ high >= 10 /\ high - low = 3
        /\ Try([of |-> "signal", adx |-> adx, rsi |-> rsi, ltp |-> ltp,
                s |-> [direction |-> d, entry |-> 10, target |-> target, stop |-> stop, confidence |-> conf],
                bar |-> [open |-> 10, low |-> low, high |-> high, close |-> high]])

TrySlice ==
    \E n \in 13..15, cut \in 0..15, points, warmup \in 1..3, forward \in 1..3 :
        Try([of |-> "slice", dates |-> [i \in 1..n |-> IF i <= cut THEN 1 ELSE 2],
             points |-> points, warmup |-> warmup, forward |-> forward])

\* A signal is made of bars that are over (Signals(Engine)!MadeOfClosedBars).
MadeOfClosedBars == trial.of = "frame" => Signals(Engine)!MadeOfClosedBars(trial.opens, trial.now)
\* What the model is shown is over, but for what it fetched (Signals(Engine)!ShownIsOver).
ShownIsOver ==
    trial.of = "talk" =>
        Signals(Engine)!ShownIsOver(trial.opens, trial.market, trial.talk, trial.live, trial.now)
\* One panel confirms one side at most (Signals(Engine)!NeverBothWays).
NeverBothWays == trial.of = "panel" => Signals(Engine)!NeverBothWays(trial.panel)
\* A unanimous family is not outvoted (Signals(Engine)!NoFamilyOverruled).
NoFamilyOverruled == trial.of = "panel" => Signals(Engine)!NoFamilyOverruled(trial.panel)
\* A stop is a loss and a target a gain (Signals(Engine)!VerdictsMatchSide).
VerdictsMatchSide == trial.of = "verdict" => Signals(Engine)!VerdictsMatchSide(trial.s, trial.bars)
\* A quiet bar settles no signal that was sent (Signals(Engine)!NoiseDecidesNothing).
NoiseDecidesNothing ==
    trial.of = "signal" =>
        Signals(Engine)!NoiseDecidesNothing(<<0>>, 5, trial.adx, Quiet, trial.s, SigUp, trial.rsi, 4, trial.ltp, trial.bar)
\* A backtest judges within the session (Signals(Engine)!JudgedInSession).
JudgedInSession ==
    trial.of = "slice" => Signals(Engine)!JudgedInSession(trial.dates, trial.points, trial.warmup, trial.forward)

\* A signal is computed from closed bars, shown no others that it did not fetch,
\* goes one way, and is judged as it was sent.
SignalsAreSound ==
    MadeOfClosedBars /\ ShownIsOver /\ NeverBothWays /\ NoFamilyOverruled /\ VerdictsMatchSide
    /\ NoiseDecidesNothing /\ JudgedInSession

TrySignals == TryFrame \/ TryTalk \/ TryPanel \/ TryVerdict \/ TrySignal \/ TrySlice
-----------------------------------------------------------------------------
\* A touch loses half its weight every two bars here.
LevFaded == [age \in 0..9 |-> <<1000, 707, 500, 354, 250, 177, 125, 88, 62, 44>>[age + 1]]
Charts == INSTANCE Levels WITH
    SwingWindow <- 1, Lookback <- 10, MinLadder <- 6, MaxLevels <- 2, Faded <- LevFaded

LevBar(low, high, close) == [open |-> low, low |-> low, high |-> high, close |-> close]

TryChart ==
    \E n \in 6..8, lows \in [1..8 -> 1..3], close \in 0..5, up \in BOOLEAN :
        /\ \A i \in (n + 1)..8 : lows[i] = 1
        /\ close \in lows[n]..(lows[n] + 1)
        /\ Try([of |-> "chart", up |-> up,
                bars |-> [i \in 1..n |-> LevBar(lows[i], lows[i] + 1, IF i = n THEN close ELSE lows[i])]])

TryPrices ==
    \E p \in [1..5 -> 996..1008] :
        /\ \A i \in 1..4 : p[i] <= p[i + 1]
        /\ Try([of |-> "prices", prices |-> p])

TryLadder ==
    \E p \in [1..6 -> {990, 996, 1000, 1003, 1005, 1012}], wide \in {1, 9} :
        Try([of |-> "ladder", bars |-> [i \in 1..6 |-> LevBar(p[i], p[i] + wide, p[i])]])

LevShapes ==
    {[open |-> 5 + a + d, close |-> 5 + b + d, high |-> h + d, low |-> l + d] :
        a \in {-2, 1, 5}, b \in {-5, -1, 1, 2}, h \in {7, 10}, l \in {0, 3}, d \in {0}}
LevCandles == {b \in LevShapes : b.low <= b.open /\ b.low <= b.close /\ b.high >= b.open /\ b.high >= b.close}
TryCandles ==
    \E a, b, c \in LevCandles :
        Try([of |-> "candles", bars |-> <<[open |-> 4, close |-> 6, high |-> 7, low |-> 3],
                                          [open |-> 6, close |-> 4, high |-> 7, low |-> 3], a, b, c>>])

LevHistory == {[open |-> o, close |-> 10, high |-> h, low |-> l] : o \in {8, 12}, h \in 12..14, l \in 6..8}
TryHistory ==
    \E a, b, c \in LevHistory, near, far \in {3, 5, 9, 13, 15, 17} :
        Try([of |-> "history", bars |-> <<a, b, c>>, near |-> near, far |-> far])

\* A swing that was read off stays (Charts!SwingsStay).
SwingsStay == trial.of = "chart" => Charts!SwingsStay(trial.bars)
\* Trend lines are the same upside down (Charts!LinesMirror).
LinesMirror == trial.of = "chart" => Charts!LinesMirror(trial.bars, trial.up, 10)
\* Retracements start at the swing's end (Charts!RetracesFromEnd).
RetracesFromEnd == trial.of = "chart" => Charts!RetracesFromEnd(trial.bars)
\* Dense prices make no wide level (Charts!NarrowLevels).
NarrowLevels == trial.of = "prices" => Charts!NarrowLevels(trial.prices, 1000)
\* A swing in reach is a level, or weaker than those there are (Charts!SwingsMakeLevels).
SwingsMakeLevels == trial.of = "ladder" => Charts!SwingsMakeLevels(trial.bars)
\* Patterns are the same upside down (Charts!PatternsMirror).
PatternsMirror == trial.of = "candles" => Charts!PatternsMirror(trial.bars, 10)
\* A farther target is no likelier (Charts!FartherIsRarer).
FartherIsRarer == trial.of = "history" => Charts!FartherIsRarer(trial.bars, trial.near, trial.far)

\* A chart gives the same levels upside down, and keeps those it gave.
LevelsAreSound ==
    SwingsStay /\ LinesMirror /\ RetracesFromEnd /\ NarrowLevels
    /\ SwingsMakeLevels /\ PatternsMirror /\ FartherIsRarer

TryLevels == TryChart \/ TryPrices \/ TryLadder \/ TryCandles \/ TryHistory
-----------------------------------------------------------------------------
\* A cent, in thousandths of an ATR: two ATRs make some of the risks smaller.
CONSTANT PlanCent
ASSUME PlanCentIs == PlanCent \in Nat \ {0}

PlanMembers == [trend |-> {"ema", "aroon"}, momentum |-> {"rsi", "cci"}, location |-> {"vwap"}]
Plans == INSTANCE TradePlan WITH
    Family <- {"trend", "momentum", "location"}, Members <- PlanMembers,
    Interval <- 5, MinBars <- 1, MinAdx <- 2, MaxBuyRsi <- 75, MinSellRsi <- 25, Cent <- PlanCent, MinConfidence <- 6,
    MaxRounds <- 2, MaxServed <- 2,
    Atr <- 1000, SignalSet <- {"ema", "rsi", "vwap"}, MinRisk <- 25, MaxRisk <- 200, MaxPosition <- 2000

\* The last price is 20 ATR; the levels are so many hundredths of an ATR off it.
PlanOffsets == {-600, -360, -340, -110, -85, -25, -5, 5, 25, 85, 170, 280, 700}
TryPlan ==
    \E offs \in {o \in SUBSET PlanOffsets : Cardinality(o) <= 3}, d \in {"BUY", "SELL"},
       mode \in {"market", "level", "retest"}, ask \in {-1, 19700}, rsi \in {20, 50, 80},
       votes \in {"up", "down"}, others \in {"up", "down", "absent"} :
        /\ ask # -1 => mode = "market"
        /\ Try([of |-> "plan", direction |-> d, mode |-> mode, ask |-> ask, ltp |-> 20000, rsi |-> rsi,
                levels |-> {20000 + 10 * o : o \in offs},
                panel |-> [ema |-> votes, aroon |-> others, rsi |-> votes, cci |-> others, vwap |-> votes]])

TrySize ==
    \E total \in {-1, 0, 900, 5000}, initial \in {-1, 1000}, cash \in {-1, 0, 300, 5000},
       entry \in {0, 40, 90, 100}, stop \in {40, 88, 89, 99, 101}, percent \in {1, 100, 900},
       stale, error \in BOOLEAN :
        Try([of |-> "size", entry |-> entry, stop |-> stop, percent |-> percent,
             pf |-> [total |-> total, initial |-> initial, cash |-> cash, stale |-> stale, error |-> error]])

\* The tool's own levels pass its gates (Plans!OwnStopsPass).
OwnStopsPass ==
    trial.of = "plan" => Plans!OwnStopsPass(trial.direction, trial.ask, trial.mode, trial.ltp,
                                        trial.levels, trial.panel, trial.rsi)
\* A stop hides behind the level (Plans!StopsAreBehindLevels).
StopsAreBehindLevels ==
    trial.of = "plan" => Plans!StopsAreBehindLevels(trial.direction, trial.ask, trial.mode, trial.ltp,
                                        trial.levels, trial.panel, trial.rsi)
\* A refusal is the chart's (Plans!RefusalIsHonest).
RefusalIsHonest ==
    trial.of = "plan" => Plans!RefusalIsHonest(trial.direction, trial.ask, trial.mode, trial.ltp,
                                        trial.levels, trial.panel, trial.rsi)
\* They disagree by their panels only (Plans!SameButForThePanel).
SameButForThePanel ==
    trial.of = "plan" => Plans!SameButForThePanel(trial.ltp, trial.levels, trial.panel, trial.rsi)
\* Waiting costs nothing (Plans!PullbacksAreBetter).
PullbacksAreBetter ==
    (trial.of = "plan" /\ trial.ask = -1) =>
        Plans!PullbacksAreBetter(trial.direction, trial.mode, trial.ltp,
                             trial.levels, trial.panel, trial.rsi)
\* A size is the largest one affordable (Plans!SizeIsTheLimit).
SizeIsTheLimit ==
    trial.of = "size" => Plans!SizeIsTheLimit(trial.pf, trial.entry, trial.stop, trial.percent)

\* A plan passes the gates it will meet, and its size is what can be lost.
PlansAreSound ==
    OwnStopsPass /\ StopsAreBehindLevels /\ RefusalIsHonest /\ SameButForThePanel
    /\ PullbacksAreBetter /\ SizeIsTheLimit

TryPlans == TryPlan \/ TrySize
=============================================================================
