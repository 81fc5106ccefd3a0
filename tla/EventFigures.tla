---------------------------- MODULE EventFigures ----------------------------
(***************************************************************************)
(* What the event desk says of a release: the calendar feed and the agenda *)
(* made of it (app/events/calendar.py, agenda.py), the direction its spec  *)
(* states (specs.py), and what price did after past prints (history.py,    *)
(* reaction.py, brief.py).                                                 *)
(*                                                                         *)
(* Time is in minutes, a move in hundredths of a percent.  A printed       *)
(* amount is a record of its figure and its unit, NoText when there is     *)
(* none.  Wording, and the model's paragraph, are left out.                *)
(***************************************************************************)
EXTENDS Integers, Sequences, FiniteSets

LOCAL INSTANCE SequencesExt
LOCAL INSTANCE FiniteSetsExt

CONSTANTS
    SaneMin, SaneMax,       \* rows of a week's feed that can be true
    MaxDetailed, MaxListed, \* of one agenda
    MinSample, MinSide,     \* prints, and prints of one surprise, that say anything
    Watched                 \* WATCHED_CURRENCIES

NoText == [figure |-> 0, unit |-> "no text"]
Unknown == -99999
-----------------------------------------------------------------------------
\* Mutant: a feed that cannot be trusted is an empty week.
FetchEmpty(feed) ==
    IF feed.up /\ Len(feed.rows) \in SaneMin..SaneMax THEN SelectSeq(feed.rows, LAMBDA e : e.when # Unknown) ELSE <<>>

Untrusted == <<[when |-> Unknown]>>

\* fetch_week: the rows that can be placed in time, if there are so many of
\* them that it is a week.
FetchWeek(feed) ==
    LET dated == SelectSeq(feed.rows, LAMBDA e : e.when # Unknown)
        sane == feed.up /\ Len(feed.rows) \in SaneMin..SaneMax
    IN IF sane /\ dated # <<>> THEN SortSeq(dated, LAMBDA d, e : d.when < e.when) ELSE Untrusted

Upcoming(events, now) ==
    SelectSeq(events, LAMBDA e : e.when > now /\ e.currency \in Watched /\ e.impact \in {"High", "Medium"})

Firsts(seq, n) == SubSeq(seq, 1, Min({n, Len(seq)}))

\* Mutant: the events of high impact are taken for detailed, all of them.
ListedCalm(events, detailed) == Firsts(SelectSeq(events, LAMBDA e : e.impact # "High"), MaxListed)

\* Those without a block of their own, the high ones beyond the fourth too.
Listed(events, detailed) == Firsts(SelectSeq(events, LAMBDA e : e \notin Range(detailed)), MaxListed)

\* build, after run_agenda has asked for the feed.
Agenda(feed, now) ==
    LET week == FetchWeek(feed)
        events == Upcoming(week, now)
        detailed == Firsts(SelectSeq(events, LAMBDA e : e.impact = "High"), MaxDetailed)
    IN IF week = Untrusted THEN [says |-> "unavailable"]
       ELSE IF events = <<>> THEN [says |-> "quiet"]
       ELSE [says |-> "agenda", detailed |-> detailed, listed |-> Listed(events, detailed)]
-----------------------------------------------------------------------------
\* Mutant: above the forecast is good for the currency.
BranchesHopeful(currency, effect) ==
    IF effect = "unknown" THEN {} ELSE
    {[on |-> "beat", moves |-> "up", gold |-> IF currency = "USD" THEN "down" ELSE "unsaid"],
     [on |-> "miss", moves |-> "down", gold |-> IF currency = "USD" THEN "up" ELSE "unsaid"]}

\* _branches, of the event's own spec: "greater than" or "less than" its
\* forecast is what strengthens the currency, or the spec does not say.
Branches(currency, effect) ==
    LET stronger == IF effect = "greater" THEN "beat" ELSE "miss"
        weaker == IF effect = "greater" THEN "miss" ELSE "beat"
        Gold(way) == IF currency = "USD" THEN way ELSE "unsaid"
    IN IF effect = "unknown" THEN {}
       ELSE {[on |-> stronger, moves |-> "up", gold |-> Gold("down")],
             [on |-> weaker, moves |-> "down", gold |-> Gold("up")]}

Unit == [K |-> 10, M |-> 100, none |-> 1]

\* Mutant: the letter is stripped with the percent sign.
ParseStripped(raw) == IF raw.unit \notin DOMAIN Unit THEN Unknown ELSE raw.figure

\* parse_number: Unknown, not zero, for what cannot be read.
ParseNumber(raw) ==
    IF raw.unit \notin DOMAIN Unit THEN Unknown ELSE raw.figure * Unit[raw.unit]

Classify(actual, forecast) ==
    IF actual > forecast THEN "beat" ELSE IF actual < forecast THEN "miss" ELSE "inline"

\* The newest rows of the release, and of those the newest that have both numbers.
PastPrints(rows, limit) == Firsts(SortSeq(rows, LAMBDA r, s : r.when > s.when), limit)
Instances(rows, limit) ==
    LET Both(r) == ParseNumber(r.actual) # Unknown /\ ParseNumber(r.forecast) # Unknown
        both == SelectSeq(PastPrints(rows, 2 * limit), Both)
    IN Firsts([i \in DOMAIN both |->
                [when |-> both[i].when, bars |-> both[i].bars,
                 surprise |-> Classify(ParseNumber(both[i].actual), ParseNumber(both[i].forecast))]], limit)
-----------------------------------------------------------------------------
Pct(a, b) == IF a = 0 THEN 0 ELSE ((b - a) * 10000) \div a

\* Mutant: any bar after the release is the end of the move.
MoveToLast(bars, release, minutes) ==
    LET after == SelectSeq(bars, LAMBDA b : release < b.t /\ b.t <= release + minutes)
        before == SelectSeq(bars, LAMBDA b : b.t <= release)
    IN IF after = <<>> THEN Unknown
       ELSE Pct(IF before = <<>> THEN bars[1].o ELSE Last(before).c, Last(after).c)

\* move_after: Unknown when the bars do not reach the mark, give or take one.
MoveAfter(bars, release, minutes) ==
    LET cutoff == release + minutes
        before == SelectSeq(bars, LAMBDA b : b.t <= release)
        after == SelectSeq(bars, LAMBDA b : release < b.t /\ b.t <= cutoff)
    IN IF after = <<>> \/ Last(after).t < cutoff - 1 THEN Unknown
       ELSE Pct(IF before = <<>> THEN bars[1].o ELSE Last(before).c, Last(after).c)

\* realised_move: two marks, and Unknown while the feed has reached neither.
RealisedMove(bars, release, near, far) ==
    LET moves == [near |-> MoveAfter(bars, release, near), far |-> MoveAfter(bars, release, far)] IN
    IF moves = [near |-> Unknown, far |-> Unknown] THEN <<>> ELSE <<moves>>

\* Mutant: a print without bars is a print that moved nothing.
AggregateAll(instances, minutes) ==
    LET Move(i) == LET m == MoveAfter(instances[i].bars, instances[i].when, minutes) IN IF m = Unknown THEN 0 ELSE m
        Side(s) == LET of == SelectSeq([i \in DOMAIN instances |-> i], LAMBDA i : instances[i].surprise = s)
                   IN [k \in DOMAIN of |-> Move(of[k])]
    IN [sample |-> Len(instances), beat |-> Side("beat"), miss |-> Side("miss")]

\* measure, then aggregate over the prints that could be priced.
Aggregate(instances, minutes) ==
    LET Move(i) == MoveAfter(instances[i].bars, instances[i].when, minutes)
        Side(s) == LET of == SelectSeq([i \in DOMAIN instances |-> i],
                                       LAMBDA i : instances[i].surprise = s /\ Move(i) # Unknown)
                   IN [k \in DOMAIN of |-> Move(of[k])]
    IN [sample |-> Cardinality({i \in DOMAIN instances : Move(i) # Unknown}),
        beat |-> Side("beat"), miss |-> Side("miss")]

\* Mutant: the direction of the sum of the moves is that of the most of them.
SaidOfSum(moves) ==
    LET sum == FoldLeft(LAMBDA s, m : s + m, 0, moves)
        down == Len(SelectSeq(moves, LAMBDA m : m < 0))
    IN IF sum < 0 THEN [said |-> "fell", agreed |-> down] ELSE [said |-> "rose", agreed |-> Len(moves) - down]

\* One clause of the summary: what did not fall is counted as risen.
Said(moves) ==
    LET down == Len(SelectSeq(moves, LAMBDA m : m < 0)) IN
    IF 2 * down > Len(moves) THEN [said |-> "fell", agreed |-> down]
    ELSE [said |-> "rose", agreed |-> Len(moves) - down]

Summary(stats) ==
    {[on |-> s, says |-> Said(stats[s]), of |-> Len(stats[s])] :
        s \in IF stats.sample < MinSample THEN {} ELSE {side \in {"beat", "miss"} : Len(stats[side]) >= MinSide}}
-----------------------------------------------------------------------------
\* A week is called quiet only when the feed can be believed and holds nothing
\* ahead that is watched: not on the morning the feed is down.
QuietMeansQuiet(feed, now) ==
    Agenda(feed, now).says = "quiet" =>
        /\ feed.up /\ Len(feed.rows) >= SaneMin
        /\ \A e \in Range(feed.rows) : ~(e.when > now /\ e.currency \in Watched /\ e.impact \in {"High", "Medium"})

\* An event of high impact is missing from the agenda only where a phone's
\* worth is listed ahead of it, and no event stands there twice.
NothingCrowdedOut(feed, now) ==
    LET a == Agenda(feed, now)
        said == Range(a.detailed) \cup Range(a.listed)
    IN a.says = "agenda" =>
        /\ Range(a.detailed) \cap Range(a.listed) = {}
        /\ \A e \in Range(feed.rows) :
            (e.when > now /\ e.currency \in Watched /\ e.impact = "High" /\ e \notin said) =>
                /\ Len(a.detailed) = MaxDetailed /\ Len(a.listed) = MaxListed
                /\ \A d \in said : d.when <= e.when

\* Of the two branches he was sent, the one a print takes says what the release
\* means for the currency: 29 of the specs are inverted, and a print is read in
\* the unit it was published in.
TheBranchThatCameTrue(currency, effect, actual, forecast, PrintedActual, PrintedForecast) ==
    LET came == Classify(ParseNumber(PrintedActual), ParseNumber(PrintedForecast))
        taken == {b \in Branches(currency, effect) : b.on = came}
    IN effect # "unknown" =>
        /\ actual = forecast <=> taken = {}
        /\ \A b \in taken : /\ b.moves = "up" <=> ((actual > forecast) <=> (effect = "greater"))
                            /\ currency = "USD" => b.gold # b.moves

\* A move is reported only when the bars reach its mark, however late the feed
\* runs and whatever it lacks: a truncated download is not a small reaction.
NeverCutShort(feed, release, near, far) ==
    \A n \in 0..Len(feed) :
        LET bars == SubSeq(feed, 1, n)
            moves == RealisedMove(bars, release, near, far)
            Reaches(minutes) == \E b \in Range(bars) : b.t - (release + minutes) \in {-1, 0}
        IN moves # <<>> => /\ moves[1].near # Unknown => Reaches(near)
                           /\ moves[1].far # Unknown => Reaches(far)

\* What the sample says is what its priced prints say: one without bars changes
\* nothing, too few say nothing, and "fell" or "rose" is never said against the
\* majority.
MeasuredOnly(rows, limit, minutes) ==
    LET instances == Instances(rows, limit)
        priced == SelectSeq(instances, LAMBDA i : MoveAfter(i.bars, i.when, minutes) # Unknown)
        said == Summary(Aggregate(instances, minutes))
    IN /\ said = Summary(Aggregate(priced, minutes))
       /\ Len(priced) < MinSample => said = {}

\* See MeasuredOnly; the majority is counted here, move by move.
NeverAgainstMost(moves) ==
    LET fell == {i \in DOMAIN moves : moves[i] < 0}
        rose == {i \in DOMAIN moves : moves[i] > 0}
    IN /\ Said(moves).said = "fell" => Cardinality(fell) > Cardinality(rose)
       /\ Said(moves).said = "rose" => 2 * Cardinality(fell) <= Len(moves)
=============================================================================
