------------------------------- MODULE Levels -------------------------------
(***************************************************************************)
(* What the agent reads off a chart: swings, levels, trend lines and       *)
(* retracements (app/signals/analysis.py), candlestick patterns            *)
(* (patterns.py), and how often a price was reached (breakout.py).         *)
(*                                                                         *)
(* A bar is a record of whole prices.  Means and shares are compared       *)
(* multiplied out.  The power of a half by which a touch fades is a table. *)
(***************************************************************************)
EXTENDS Integers, Sequences, FiniteSets

LOCAL INSTANCE SequencesExt
LOCAL INSTANCE FiniteSetsExt

CONSTANTS
    SwingWindow,     \* bars on either side of a swing
    MinLadder,       \* bars support_resistance needs
    MaxLevels,       \* max_levels
    Faded,           \* what a touch weighs by its age in bars, in thousandths
    Lookback         \* bars detect_patterns looks at

Least(a, b) == IF a < b THEN a ELSE b
Most(a, b) == IF a > b THEN a ELSE b
Gap(a, b) == Most(a, b) - Least(a, b)
Total(seq) == FoldLeft(LAMBDA sum, x : sum + x, 0, seq)
Nothing == [is |-> "nothing"]
-----------------------------------------------------------------------------
About(i) == (i - SwingWindow)..(i + SwingWindow)

\* Mutant: the newest bars are swings as soon as they are there.
CandidatesEarly(bars) == {i \in DOMAIN bars : i > SwingWindow}

\* The bars with a whole window on either side.
Candidates(bars) == (SwingWindow + 1)..(Len(bars) - SwingWindow)

SwingHighs(bars) ==
    {i \in Candidates(bars) :
        /\ \A j \in About(i) \cap DOMAIN bars : bars[j].high <= bars[i].high
        /\ bars[i].high > bars[i - 1].high}
SwingLows(bars) ==
    {i \in Candidates(bars) :
        /\ \A j \in About(i) \cap DOMAIN bars : bars[j].low >= bars[i].low
        /\ bars[i].low < bars[i - 1].low}
-----------------------------------------------------------------------------
\* A touch is a price and the bar it is of; a cluster is a line of touches.
Sum(c) == Total([k \in DOMAIN c |-> c[k].price])

\* Mutant: a price is compared with the one that came last.
JoinsChain(c, p, last) == 1000 * Gap(p.price, Last(c).price) <= 4 * last

\* A price joins a cluster within 0.4 % of its centre and 0.8 % of its first.
Joins(c, p, last) ==
    /\ 1000 * Gap(p.price * Len(c), Sum(c)) <= 4 * last * Len(c)
    /\ 1000 * (p.price - c[1].price) <= 8 * last

\* Mutant: the cluster that is open at the end is lost.
ClustersUnflushed(points, last) ==
    FoldLeft(LAMBDA cs, p : IF cs # <<>> /\ Joins(Last(cs), p, last)
                            THEN [cs EXCEPT ![Len(cs)] = Append(@, p)]
                            ELSE IF p = Last(points) THEN cs ELSE Append(cs, <<p>>),
             <<>>, points)

\* The clusters of touches in ascending order of price.
Clusters(points, last) ==
    FoldLeft(LAMBDA cs, p : IF cs # <<>> /\ Joins(Last(cs), p, last)
                            THEN [cs EXCEPT ![Len(cs)] = Append(@, p)]
                            ELSE Append(cs, <<p>>),
             <<>>, points)

\* How far off a level may be, in thousandths of a price: twice the usual
\* range, and no less than 0.5 %, no more than 4 % of the price.
Reach(bars, last) ==
    LET ranges == Total([i \in DOMAIN bars |-> bars[i].high - bars[i].low]) IN
    IF ranges = 0 THEN 20 * last
    ELSE Most(5 * last, Least((2000 * ranges) \div Len(bars), 40 * last))

\* The touches of the swings in ascending order of price, the highs first.
Touches(bars) ==
    SetToSortSeq({[price |-> bars[i].high, of |-> 0, at |-> i] : i \in SwingHighs(bars)}
                    \cup {[price |-> bars[i].low, of |-> 1, at |-> i] : i \in SwingLows(bars)},
                 LAMBDA p, q : \/ p.price < q.price
                               \/ p.price = q.price /\ p.of < q.of
                               \/ p.price = q.price /\ p.of = q.of /\ p.at < q.at)

Near(c, bars) ==
    LET last == Last(bars).close IN 1000 * Gap(Sum(c), last * Len(c)) <= Reach(bars, last) * Len(c)

\* What a level's touches weigh after n bars.
Weight(c, n) == Total([k \in DOMAIN c |-> Faded[n - c[k].at]])

\* Mutant: a level ranks by how often it was touched.
StrengthCounted(c, n) == 100 * Len(c)

\* What a level weighs in hundredths.
Strength(c, n) == (Weight(c, n) + 5) \div 10

\* Of two levels the stronger ranks first, then the nearer, then the lower.
Outranks(levels, bars, i, j) ==
    LET last == Last(bars).close
        c == levels[i]
        d == levels[j]
        strength(k) == Strength(levels[k], Len(bars))
        far(k) == Gap(Sum(levels[k]), last * Len(levels[k]))
    IN \/ strength(i) > strength(j)
       \/ /\ strength(i) = strength(j)
          /\ \/ far(i) * Len(d) < far(j) * Len(c)
             \/ far(i) * Len(d) = far(j) * Len(c) /\ i < j

\* Mutant: the levels are cut from the top of the ladder.
StrongestLowest(levels, bars) == {i \in DOMAIN levels : i <= MaxLevels}

Strongest(levels, bars) ==
    {i \in DOMAIN levels : Cardinality({j \in DOMAIN levels : Outranks(levels, bars, j, i)}) < MaxLevels}

\* support_resistance: of the clusters of swing prices within reach the
\* strongest few, as a ladder.
SupportResistance(bars) ==
    LET levels == SelectSeq(Clusters(Touches(bars), Last(bars).close), LAMBDA c : Near(c, bars))
        kept == SetToSortSeq(Strongest(levels, bars), <)
    IN IF Len(bars) < MinLadder THEN <<>> ELSE [k \in DOMAIN kept |-> levels[kept[k]]]
-----------------------------------------------------------------------------
\* Mutant: a line is broken by the same close whichever way it runs.
BrokenAsUp(up, close, line) == close < line

Broken(up, close, line) == IF up THEN close < line ELSE close > line

\* trendline through the first and the last of the three latest pivots;
\* whether the close is above its average is given.  All is multiplied by the
\* bars between the two.
Trendline(bars, up) ==
    LET pivots == SetToSortSeq(IF up THEN SwingLows(bars) ELSE SwingHighs(bars), <)
        Value(i) == IF up THEN bars[i].low ELSE bars[i].high
        p == pivots[Len(pivots) - 2]
        q == Last(pivots)
        line == Value(q) * (q - p) + (Value(q) - Value(p)) * (Len(bars) - q)
    IN IF Len(pivots) < 3 THEN Nothing
       ELSE IF (Value(q) > Value(p)) # up \/ Broken(up, Last(bars).close * (q - p), line) THEN Nothing
       ELSE [is |-> "line", up |-> up, from |-> <<p, Value(p)>>, to |-> <<q, Value(q)>>]

\* Mutant: measured from the high whichever came first.
RetracedFromHigh(up, low, high, share) == 1000 * high - (high - low) * share

\* A retracement is measured from the end of the swing, in thousandths.
Retraced(up, low, high, share) ==
    IF up THEN 1000 * high - (high - low) * share ELSE 1000 * low + (high - low) * share

Shares == {236, 382, 500, 618, 786}

\* fibonacci: the swing runs from the extreme that came first to the other.
Fibonacci(bars) ==
    LET high == Max({bars[i].high : i \in DOMAIN bars})
        low == Min({bars[i].low : i \in DOMAIN bars})
        top == Min({i \in DOMAIN bars : bars[i].high = high})
        bottom == Min({i \in DOMAIN bars : bars[i].low = low})
    IN IF high = low THEN Nothing
       ELSE [is |-> "swing", up |-> bottom < top, from |-> Least(top, bottom), to |-> Most(top, bottom),
             levels |-> [s \in Shares |-> Retraced(bottom < top, low, high, s)]]
-----------------------------------------------------------------------------
Body(b) == Gap(b.open, b.close)
Upper(b) == b.high - Most(b.open, b.close)
Lower(b) == Least(b.open, b.close) - b.low
Rises(b) == b.close > b.open
Falls(b) == b.close < b.open

\* A body larger than the mean of the last fourteen, or of all there are.
Tall(bars, i) ==
    LET n == Least(i, 14) IN
    Body(bars[i]) * n > Total([k \in 1..n |-> Body(bars[i - n + k])])

One(bars, i) ==
    LET b == bars[i] range == b.high - b.low IN
    CASE 10 * Body(b) <= range -> {<<"doji", "neutral">>}
      [] Lower(b) >= 2 * Body(b) /\ 10 * Upper(b) <= 3 * Body(b) ->
            {IF b.close >= b.open THEN <<"hammer", "bullish">> ELSE <<"hanging_man", "bearish">>}
      [] Upper(b) >= 2 * Body(b) /\ 10 * Lower(b) <= 3 * Body(b) ->
            {IF Falls(b) THEN <<"shooting_star", "bearish">> ELSE <<"inverted_hammer", "bullish">>}
      [] 10 * Body(b) >= 9 * range /\ Tall(bars, i) ->
            {IF Rises(b) THEN <<"marubozu", "bullish">> ELSE <<"marubozu", "bearish">>}
      [] OTHER -> {}

\* Mutant: the body before need not be engulfed on both ends.
TwoHalf(p, b) ==
    IF Rises(b) /\ Falls(p) /\ b.close >= p.open THEN {<<"engulfing", "bullish">>}
    ELSE IF ~Rises(b) /\ Rises(p) /\ b.close <= p.open /\ b.open >= p.close
    THEN {<<"engulfing", "bearish">>}
    ELSE IF b.high <= p.high /\ b.low >= p.low THEN {<<"inside_bar", "neutral">>} ELSE {}

Two(p, b) ==
    IF Rises(b) /\ Falls(p) /\ b.close >= p.open /\ b.open <= p.close THEN {<<"engulfing", "bullish">>}
    ELSE IF ~Rises(b) /\ Rises(p) /\ b.close <= p.open /\ b.open >= p.close
    THEN {<<"engulfing", "bearish">>}
    ELSE IF b.high <= p.high /\ b.low >= p.low THEN {<<"inside_bar", "neutral">>} ELSE {}

Three(pp, p, b) ==
    LET small == 2 * Body(p) <= Body(pp) middle == pp.open + pp.close IN
    IF Falls(pp) /\ small /\ Rises(b) /\ 2 * b.close > middle THEN {<<"star", "bullish">>}
    ELSE IF Rises(pp) /\ small /\ ~Rises(b) /\ 2 * b.close < middle THEN {<<"star", "bearish">>} ELSE {}

\* detect_patterns at bar i; a bar without a range is passed over.
PatternsAt(bars, i) ==
    IF bars[i].high = bars[i].low THEN {}
    ELSE One(bars, i) \cup Two(bars[i - 1], bars[i]) \cup Three(bars[i - 2], bars[i - 1], bars[i])
Patterns(bars) ==
    IF Len(bars) < 5 THEN <<>>
    ELSE LET start == Most(3, Len(bars) - Lookback + 1) IN
         [k \in 1..(Len(bars) - start + 1) |-> PatternsAt(bars, start + k - 1)]
-----------------------------------------------------------------------------
\* The bars that follow one of a colour; a doji is neither.
After(bars, green) ==
    {i \in 2..Len(bars) : IF green THEN Rises(bars[i - 1]) ELSE Falls(bars[i - 1])}

\* Mutant: the level below is measured up from the low.
DownHitsUp(bars, i, k, num, den) ==
    (bars[i].low - bars[i - 1].low) * den <= bars[i].close * num * k

\* A step is the share num / den of the bar's own close, k steps a level.
UpHits(bars, i, k, num, den) == (bars[i].high - bars[i - 1].high) * den >= bars[i].close * num * k
DownHits(bars, i, k, num, den) == (bars[i - 1].low - bars[i].low) * den >= bars[i].close * num * k

\* breakout.compute: the hits of every level, of the bars that followed one of
\* the colour of the last; a doji at the end counts as a down candle.
Breakout(bars, num, den, levels) ==
    LET sample == After(bars, Rises(Last(bars))) IN
    [sample |-> Cardinality(sample),
     upper |-> [k \in 0..(levels - 1) |-> Cardinality({i \in sample : UpHits(bars, i, k, num, den)})],
     lower |-> [k \in 0..(levels - 1) |-> Cardinality({i \in sample : DownHits(bars, i, k, num, den)})]]

\* reach_probability: one step is the distance to the target.
ReachOf(bars, target) ==
    LET b == Last(bars)
        above == target > b.high
        distance == IF above THEN target - b.high ELSE b.low - target
        report == Breakout(bars, distance, b.close, 2)
    IN IF b.close = 0 \/ distance <= 0 \/ report.sample = 0 THEN Nothing
       ELSE [is |-> "share", above |-> above, of |-> report.sample,
             hits |-> IF above THEN report.upper[1] ELSE report.lower[1]]
-----------------------------------------------------------------------------
\* A swing that was read off the chart stays there as bars are added, and none
\* appears between bars that were already there.
SwingsStay(bars) ==
    \A n \in 0..Len(bars) : LET then == SubSeq(bars, 1, n) IN
        /\ SwingHighs(then) = SwingHighs(bars) \cap Candidates(then)
        /\ SwingLows(then) = SwingLows(bars) \cap Candidates(then)

\* "A hard width cap": dense prices never chain into one level; no price is
\* dropped on the way, and no two levels share a price.
NarrowLevels(prices, last) ==
    LET points == [k \in DOMAIN prices |-> [price |-> prices[k], at |-> k]]
        cs == Clusters(points, last)
    IN
    /\ FlattenSeq(cs) = points
    /\ \A k \in DOMAIN cs : 1000 * (Last(cs[k]).price - cs[k][1].price) <= 8 * last
    /\ \A k \in 1..(Len(cs) - 1) : Last(cs[k]).price < cs[k + 1][1].price

\* "Old levels decay in relevance": a swing that lies in reach, by more than a
\* level is wide, is on the ladder, or the ladder is full, and of levels no
\* weaker than that swing's touch is alone, to a hundredth.
SwingsMakeLevels(bars) ==
    LET last == Last(bars).close
        ladder == SupportResistance(bars)
        touches == Touches(bars)
    IN
    /\ Len(ladder) <= MaxLevels
    /\ \A k \in 1..(Len(ladder) - 1) : Last(ladder[k]).price < ladder[k + 1][1].price
    /\ Len(bars) >= MinLadder => \A t \in DOMAIN touches : LET p == touches[t] IN
        1000 * Gap(p.price, last) + 8 * last <= Reach(bars, last) =>
            \/ \E k \in DOMAIN ladder : Contains(ladder[k], p)
            \/ /\ Len(ladder) = MaxLevels
               /\ \A k \in DOMAIN ladder : Weight(ladder[k], Len(bars)) + 10 > Weight(<<p>>, Len(bars))

\* The chart seen upside down, about the price mid.
Flipped(bars, mid) ==
    [i \in DOMAIN bars |-> [open |-> 2 * mid - bars[i].open, close |-> 2 * mid - bars[i].close,
                            high |-> 2 * mid - bars[i].low, low |-> 2 * mid - bars[i].high]]

\* Up and down are judged alike: the trend line of a chart upside down is the
\* line upside down.  (A level line is a downtrend and never an uptrend.)
LinesMirror(bars, up, mid) ==
    LET line == Trendline(bars, up) flip == Trendline(Flipped(bars, mid), ~up) IN
    LET Level(l) == l # Nothing /\ l.from[2] = l.to[2] IN
    Level(line) \/ Level(flip) \/
        IF line = Nothing THEN flip = Nothing
        ELSE flip = [is |-> "line", up |-> ~up, from |-> <<line.from[1], 2 * mid - line.from[2]>>,
                     to |-> <<line.to[1], 2 * mid - line.to[2]>>]

\* The smaller retracement lies nearer to where the swing ended.
RetracesFromEnd(bars) ==
    LET f == Fibonacci(bars)
        end == IF f.up THEN bars[f.to].high ELSE bars[f.to].low
    IN f = Nothing \/ \A s, t \in Shares :
        s < t => Gap(1000 * end, f.levels[s]) < Gap(1000 * end, f.levels[t])

\* A chart upside down shows the patterns upside down, as long as no candle
\* closes where it opened.
PatternsMirror(bars, mid) ==
    LET Turn(d) == CASE d = "bullish" -> "bearish" [] d = "bearish" -> "bullish" [] OTHER -> d
        Other(n) == CASE n = "hammer" -> "shooting_star" [] n = "shooting_star" -> "hammer"
                      [] n = "hanging_man" -> "inverted_hammer" [] n = "inverted_hammer" -> "hanging_man"
                      [] OTHER -> n
        here == Patterns(bars) there == Patterns(Flipped(bars, mid))
    IN (\A i \in DOMAIN bars : Body(bars[i]) > 0) =>
        \A k \in DOMAIN here : there[k] = {<<Other(p[1]), Turn(p[2])>> : p \in here[k]}

\* A target farther off was not reached more often than one that is nearer.
FartherIsRarer(bars, nearer, farther) ==
    LET a == ReachOf(bars, nearer) b == ReachOf(bars, farther) IN
    (a # Nothing /\ b # Nothing /\ a.above = b.above /\ (nearer < farther) = a.above)
        => a.of = b.of /\ a.hits >= b.hits
=============================================================================
