---------------------------- MODULE MorningBrief ----------------------------
(***************************************************************************)
(* The morning brief: the read of the overnight cues                       *)
(* (app/market/global_cues.py), what a driver's move means for a stock,    *)
(* and which candidates are shown in which order (app/signals/brief.py).   *)
(*                                                                         *)
(* A move is in hundredths of a percent, a beta a whole number, a          *)
(* confidence in percent.  The signals themselves are module SignalPath;   *)
(* the model's prose, the notes and the levels are left out.               *)
(***************************************************************************)
EXTENDS Integers, Sequences, Functions, FiniteSetsExt

CONSTANTS
    US, Asia, Rupee, Fear,       \* cues of CUES: two groups, USD/INR, India VIX
    Drivers,                     \* _DRIVER_LABEL
    MinDays,                     \* joint sessions a beta is measured on
    Threshold, MinMove,          \* of a driver overnight; of a stock that follows
    Floor,                       \* confidence_threshold, percent
    FullAlignment,               \* where alignment is squashed
    PerSector, MaxCandidates,
    Sector                       \* of each symbol

Abs(x) == IF x < 0 THEN -x ELSE x
Clamp(x, low, high) == Max({low, Min({x, high})})
Firsts(seq, n) == SubSeq(seq, 1, Min({n, Len(seq)}))

Sum(f, S) ==
    LET each == CHOOSE s \in Bijection(1..Cardinality(S), S) : TRUE
        sum[n \in 0..Cardinality(S)] == IF n = 0 THEN 0 ELSE sum[n - 1] + f[each[n]]
    IN sum[Cardinality(S)]

\* The members of S, those of a pair of the order before its other.
InOrder(S, order) == CHOOSE s \in Bijection(1..Cardinality(S), S) : \A i, j \in DOMAIN s : i < j => <<s[i], s[j]>> \in order
Picked(seq, I) ==
    LET at == InOrder(I, {p \in I \X I : p[1] < p[2]}) IN [n \in DOMAIN at |-> seq[at[n]]]
-----------------------------------------------------------------------------
\* Mutant: a cue that did not arrive counts as one that did not move.
AverageOfAll(cues, group) ==
    LET there == group \cap DOMAIN cues IN
    IF there = {} THEN {} ELSE {(2 * Sum(cues, there) + Cardinality(group)) \div (2 * Cardinality(group))}

\* The rounded average of what arrived of a group, no number when nothing did.
Average(cues, group) ==
    LET there == group \cap DOMAIN cues IN
    IF there = {} THEN {} ELSE {(2 * Sum(cues, there) + Cardinality(there)) \div (2 * Cardinality(there))}
Number(average) == IF average = {} THEN 0 ELSE CHOOSE a \in average : TRUE

\* _summarise's score, in thousandths of a percent.
Score(cues) ==
    LET Above(c, x) == c \in DOMAIN cues /\ cues[c] > x IN
    10 * Number(Average(cues, US)) + 12 * Number(Average(cues, Asia))
        - (IF Above(Rupee, 30) THEN 300 ELSE 0) - (IF Above(Fear, 500) THEN 300 ELSE 0)

Summarise(cues) ==
    LET score == Score(cues) IN
    [bias |-> IF score > 500 THEN "positive" ELSE IF score < -500 THEN "negative" ELSE "neutral",
     strength |-> IF Abs(score) > 1200 THEN "strong" ELSE IF Abs(score) > 400 THEN "moderate" ELSE "weak",
     us |-> Average(cues, US), asia |-> Average(cues, Asia),
     degraded |-> DOMAIN cues # US \cup Asia \cup {Rupee, Fear}]
-----------------------------------------------------------------------------
\* The sessions that have a return: all but the first.
Later(sessions) == {sessions[n] : n \in 2..Len(sessions)}

\* Mutant: no driver is shifted.
PairedPlain(stock, sessions, lagged) ==
    {[stock |-> sessions[i], driver |-> sessions[i]] : i \in {n \in 2..Len(sessions) : sessions[n] \in Later(stock)}}

\* sensitivity: the returns that are set against each other.  A return is named
\* by the day of its session; a lagged driver's is moved to its next session,
\* and only the days both then have are kept.
Paired(stock, sessions, lagged) ==
    LET shift == IF lagged THEN 1 ELSE 0 IN
    {[stock |-> sessions[i], driver |-> sessions[i - shift]] :
        i \in {n \in (2 + shift)..Len(sessions) : sessions[n] \in Later(stock)}}

HasBeta(stock, sessions, lagged) == Cardinality(Paired(stock, sessions, lagged)) >= MinDays
-----------------------------------------------------------------------------
\* _dominant_drivers.
Movers(cues) ==
    [d \in {c \in Drivers \cap DOMAIN cues : Abs(cues[c]) >= Threshold} |-> cues[d]]

\* _global_context.  A sensitivity is there for the drivers that have a beta.
Context(sens, movers, direction) ==
    LET expected == [d \in DOMAIN movers \cap DOMAIN sens |-> sens[d].beta * movers[d]]
        used == {d \in DOMAIN expected : sens[d].meaningful /\ Abs(expected[d]) >= MinMove}
        total == Sum(expected, used)
        agrees == (total > 0) <=> (direction = "BUY")
    IN [reasons |-> used, conflict |-> used # {} /\ ~agrees,
        alignment |-> IF agrees THEN Abs(total) ELSE -Abs(total)]

\* Mutant: alignment is not squashed.
RankScoreOpen(c) ==
    7 * FullAlignment * Clamp(c.confidence - Floor, 0, 100 - Floor) + 3 * (100 - Floor) * c.context.alignment

\* _rank_score, times FullAlignment * (100 - Floor) * 10.
RankScore(c) ==
    7 * FullAlignment * Clamp(c.confidence - Floor, 0, 100 - Floor)
        + 3 * (100 - Floor) * Clamp(c.context.alignment, -FullAlignment, FullAlignment)

\* A stable sort, best first.
BestFirst(candidates) ==
    LET all == DOMAIN candidates
        Above(i, j) == RankScore(candidates[i]) > RankScore(candidates[j])
    IN {p \in all \X all : Above(p[1], p[2]) \/ (~Above(p[2], p[1]) /\ p[1] < p[2])}
Ranked(candidates) ==
    LET at == InOrder(DOMAIN candidates, BestFirst(candidates)) IN [n \in DOMAIN at |-> candidates[at[n]]]

\* _cap_per_sector: the first so many of each sector; zero or less caps nothing.
CapPerSector(candidates) ==
    LET Before(n) == {k \in 1..(n - 1) : Sector[candidates[k].symbol] = Sector[candidates[n].symbol]} IN
    IF PerSector <= 0 THEN candidates
    ELSE Picked(candidates, {n \in DOMAIN candidates : Cardinality(Before(n)) < PerSector})

\* Mutant: the list is cut to its length before the sectors are capped.
ShownCut(candidates) == CapPerSector(Firsts(Ranked(candidates), MaxCandidates))

Shown(candidates) == Firsts(CapPerSector(Ranked(candidates)), MaxCandidates)

\* candidate_for: a symbol without a signal, or whose reading raised, is none.
Candidates(cues, readings) ==
    LET signals == Picked(readings, {i \in DOMAIN readings : readings[i].answer = "signal"}) IN
    [i \in DOMAIN signals |->
        [symbol |-> signals[i].symbol, confidence |-> signals[i].confidence, direction |-> signals[i].direction,
         context |-> Context(signals[i].sens, Movers(cues), signals[i].direction)]]

\* Mutant: candidates of one sector are said to share a driver, others not.
SharedInSector(shown) ==
    {[driver |-> d, on |-> s] : d \in Drivers,
        s \in {t \in SUBSET {c.symbol : c \in Range(shown)} : \E x \in t : t = {y \in t : Sector[y] = Sector[x]}}}

\* _shared_drivers: the drivers two of them or more rest on.
Shared(shown) ==
    LET On(d) == {c.symbol : c \in {k \in Range(shown) : d \in k.context.reasons}} IN
    {[driver |-> d, on |-> On(d)] : d \in {e \in Drivers : Cardinality(On(e)) > 1}}

\* _events_block; fred_releases without a key, or that raised, is no empty list.
Releases(fred) ==
    IF fred = "raised" \/ fred = "no key" THEN "not available"
    ELSE IF fred = "nothing new" THEN "none newly published" ELSE fred

\* generate.  When the model fails, the fallback states the read alone.
Brief(cues, readings, fred, llm) ==
    LET shown == Shown(Candidates(cues, readings)) IN
    [read |-> Summarise(cues), shown |-> shown,
     warned |-> IF llm THEN Shared(shown) ELSE {}, releases |-> IF llm THEN Releases(fred) ELSE "unsaid"]
-----------------------------------------------------------------------------
\* The read is made of what arrived: an average lies within its cues, and the
\* open is called better or worse only when some market says so, or both
\* headwinds blow.
BiasIsTheTape(cues) ==
    LET read == Summarise(cues)
        Within(group) == {cues[c] : c \in group \cap DOMAIN cues}
        moved == Within(US \cup Asia)
    IN /\ \A a \in read.us : Min(Within(US)) <= a /\ a <= Max(Within(US))
       /\ \A a \in read.asia : Min(Within(Asia)) <= a /\ a <= Max(Within(Asia))
       /\ read.bias = "positive" => \E x \in moved : x > 0
       /\ read.bias = "negative" => \/ \E x \in moved : x < 0
                                    \/ {Rupee, Fear} \subseteq DOMAIN cues /\ cues[Rupee] > 0 /\ cues[Fear] > 0

\* A stock's day is set against what was known at its open: for a driver that
\* closes overnight the last session before that day, for one that trades
\* alongside the same day's; and a beta rests on so many days, each taken once.
KnownAtTheOpen(stock, sessions, lagged) ==
    /\ HasBeta(stock, sessions, lagged) =>
        Cardinality({p.stock : p \in Paired(stock, sessions, lagged)}) >= MinDays
    /\ \A p \in Paired(stock, sessions, lagged) :
        IF ~lagged THEN p.driver = p.stock
        ELSE p.driver < p.stock /\ ~\E s \in Range(sessions) : p.driver < s /\ s < p.stock

\* Alignment settles only what conviction leaves: no overnight move lifts a
\* candidate over one whose confidence is ahead by six sevenths of the usable
\* range, and of two equally confident the one the tape is against comes last.
ConvictionOutranks(candidates) ==
    LET shown == Shown(candidates) IN
    \A i, j \in DOMAIN shown : i < j =>
        /\ 7 * (shown[j].confidence - shown[i].confidence) <= 6 * (100 - Floor)
        /\ shown[i].confidence = shown[j].confidence =>
            ~(shown[i].context.alignment < 0 /\ shown[j].context.alignment >= 0)

\* A candidate is left out only for its betters: as many of its own sector as
\* may be shown, or as many as there is room for; and no sector is shown twice
\* over.
BestOfEachSector(candidates) ==
    LET shown == Shown(candidates)
        Better(c) == {s \in Range(shown) : RankScore(s) >= RankScore(c)}
        OfSector(c, set) == {s \in set : Sector[s.symbol] = Sector[c.symbol]}
    IN PerSector > 0 =>
        \A c \in Range(candidates) :
            /\ Cardinality(OfSector(c, Range(shown))) <= PerSector
            /\ c \in Range(shown) \/ Cardinality(Better(c)) = MaxCandidates
                \/ Cardinality(OfSector(c, Better(c))) = PerSector

\* When two of the shown rest on one overnight move the model is told that they
\* are one bet, whatever their sectors; and of two that share none it is not.
OneBetIsCalledOne(cues, readings) ==
    LET brief == Brief(cues, readings, "nothing new", TRUE) IN
    \A c, d \in Range(brief.shown) : c # d =>
        (c.context.reasons \cap d.context.reasons # {} <=> \E w \in brief.warned : {c.symbol, d.symbol} \subseteq w.on)
=============================================================================
