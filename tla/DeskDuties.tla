----------------------------- MODULE DeskDuties -----------------------------
(***************************************************************************)
(* The duties that run on a clock and remember the run before: the macro   *)
(* releases (app/market/macro_events.py) and the hourly drift check        *)
(* (drift_check.py).  And the screen the agent runs when it is asked what  *)
(* to trade (app/signals/agent/tools/screener.py).                         *)
(*                                                                         *)
(* A history is the sequence of the runs, one for each tick of the clock;  *)
(* the marks in Redis are what is carried from run to run, with the run    *)
(* they were written in, and run out after so many.                        *)
(***************************************************************************)
EXTENDS Integers, Sequences, Functions, FiniteSetsExt

CONSTANTS
    MarkTtl,      \* _LAST_SEEN_TTL_SECONDS, in runs
    SnapshotTtl,  \* _SNAPSHOT_TTL_SECONDS, in runs
    DriftPercent, \* drift_check_move_threshold
    MaxSymbols,   \* of one screen of the agent's
    Default       \* NIFTY_LIQUID

Down == [answer |-> "down"]
NoMark == [is |-> 0, at |-> 0]
Firsts(seq, n) == SubSeq(seq, 1, Min({n, Len(seq)}))
Abs(x) == IF x < 0 THEN -x ELSE x
-----------------------------------------------------------------------------
\* A print that can be read: both newest observations are numbers.
Readable(answer) == answer # Down /\ answer.newest # 0 /\ answer.prior # 0

\* How a run ends: with its report in the brief that is stored; without it, before
\* it wrote the mark (Redis is out) or after (a value is no number, the run of
\* another series raised, or the brief was cancelled or could not be stored).
Marks(answer) == Readable(answer) /\ answer.ends # "unmarked"

\* Mutant: the mark is written before the last one is read.
FredRunSwapped(mark, k, answer) ==
    IF ~Marks(answer) THEN [mark |-> mark, reports |-> FALSE]
    ELSE LET new == [is |-> answer.newest, at |-> k] IN [mark |-> new, reports |-> new.is # answer.newest]

\* fred_releases, of one series: the mark is written first, and what was new to
\* it is reported if the run gets that far.
FredRun(mark, k, answer) ==
    LET seen == IF mark.at # 0 /\ k - mark.at < MarkTtl THEN mark.is ELSE 0 IN
    IF ~Marks(answer) THEN [mark |-> mark, reports |-> FALSE]
    ELSE [mark |-> [is |-> answer.newest, at |-> k],
          reports |-> answer.ends = "done" /\ seen # answer.newest]

\* The mark after each run.
FredMarks(history) ==
    LET mark[k \in 0..Len(history)] == IF k = 0 THEN NoMark ELSE FredRun(mark[k - 1], k, history[k]).mark
    IN mark

\* The runs of a history that report.
FredReports(history) ==
    LET mark == FredMarks(history) IN {k \in DOMAIN history : FredRun(mark[k - 1], k, history[k]).reports}
-----------------------------------------------------------------------------
NoCues == [c \in {} |-> 0]
Moved(before, now) ==
    {c \in DOMAIN before \cap DOMAIN now :
        before[c] # 0 /\ 100 * Abs(now[c] - before[c]) >= DriftPercent * before[c]}

\* Mutant: the snapshot is that of the last alert.
DriftRunSinceAlert(snapshot, k, cues) ==
    LET before == IF snapshot.at # 0 /\ k - snapshot.at < SnapshotTtl THEN snapshot.is ELSE NoCues
        moved == Moved(before, cues)
    IN [snapshot |-> IF DOMAIN cues # {} /\ (moved # {} \/ DOMAIN before = {}) THEN [is |-> cues, at |-> k] ELSE snapshot,
        alert |-> moved]

\* check: every run that gets cues replaces the snapshot, with what it got.
DriftRun(snapshot, k, cues) ==
    LET before == IF snapshot.at # 0 /\ k - snapshot.at < SnapshotTtl THEN snapshot.is ELSE NoCues IN
    IF DOMAIN cues = {} THEN [snapshot |-> snapshot, alert |-> {}]
    ELSE [snapshot |-> [is |-> cues, at |-> k], alert |-> Moved(before, cues)]

\* The snapshot after each run.
Snapshots(history) ==
    LET snapshot[k \in 0..Len(history)] ==
            IF k = 0 THEN [is |-> NoCues, at |-> 0] ELSE DriftRun(snapshot[k - 1], k, history[k]).snapshot
    IN snapshot

\* The alert of each run.
DriftAlerts(history) ==
    LET snapshot == Snapshots(history) IN [k \in DOMAIN history |-> DriftRun(snapshot[k - 1], k, history[k]).alert]
-----------------------------------------------------------------------------
\* _one: the panel picks the side, a buy when both are as strong.
Row(symbol, reading) ==
    LET buys == reading.buy >= reading.sell IN
    [symbol |-> symbol, confluence |-> IF buys THEN reading.buy ELSE reading.sell,
     passes |-> reading.passes[IF buys THEN "BUY" ELSE "SELL"]]

BetterRow(r, s) == \/ r.passes /\ ~s.passes
                   \/ (r.passes <=> s.passes) /\ r.confluence > s.confluence

\* The members of S, those of a pair of the order before its other.
InOrder(S, order) == CHOOSE s \in Bijection(1..Cardinality(S), S) : \A i, j \in DOMAIN s : i < j => <<s[i], s[j]>> \in order

AsNamed(I) == {p \in I \X I : p[1] < p[2]}
\* A stable sort of the rows of those indices.
BestFirst(rows, I) ==
    {p \in I \X I : \/ BetterRow(rows[p[1]], rows[p[2]])
                    \/ ~BetterRow(rows[p[2]], rows[p[1]]) /\ p[1] < p[2]}

\* Mutant: once something passes, what was rejected is no longer shown.
ShownHopeful(rows, scored, least, passingOnly) ==
    LET passing == {i \in scored : rows[i].passes}
        enough == {i \in scored : rows[i].confluence >= least}
    IN IF passingOnly \/ passing # {} THEN InOrder(passing, AsNamed(passing)) ELSE InOrder(enough, BestFirst(rows, enough))

\* The passing ones alone are taken before the sort.
ShownRows(rows, scored, least, passingOnly) ==
    LET passing == {i \in scored : rows[i].passes}
        enough == {i \in scored : rows[i].confluence >= least}
    IN IF passingOnly THEN InOrder(passing, AsNamed(passing)) ELSE InOrder(enough, BestFirst(rows, enough))

\* Whose names: the caller's, else the watchlist's, else the default of an exchange.
Named(given, watchlist, exchange) ==
    IF given # <<>> THEN given
    ELSE IF watchlist # <<>> THEN watchlist ELSE IF exchange \in {"NSE", "BSE"} THEN Default ELSE <<>>

\* screen_market.  A reading is none, an error of the plan, or a row's.
ScreenMarket(given, watchlist, exchange, least, passingOnly, readings) ==
    LET all == Named(given, watchlist, exchange)
        names == Firsts(all, MaxSymbols)
        Of(kind) == {i \in DOMAIN names : readings[names[i]].is = kind}
        scored == Of("scored")
        rows == [i \in scored |-> Row(names[i], readings[names[i]])]
        shown == ShownRows(rows, scored, least, passingOnly)
        unreadable == InOrder(Of("error"), AsNamed(Of("error")))
    IN [names |-> names, screened |-> Cardinality(scored), tradeable |-> Cardinality({i \in scored : rows[i].passes}),
        results |-> [n \in DOMAIN shown |-> rows[shown[n]]],
        unreadable |-> [n \in DOMAIN unreadable |-> names[unreadable[n]]], truncated |-> names # all]
-----------------------------------------------------------------------------
\* A print is reported by the first run that marks it, if that run comes to its
\* end, and by no later one, for as long as some run before its mark runs out
\* marks anything: vendor failures, points not yet published, runs that failed
\* and missed runs in between or not.  So "worst case a stale idea of new makes
\* this run one cycle later" (macro_events.py:77-78) is not the worst: what a run
\* marks and then fails to report is reported by no other.
EachPrintOnce(history) ==
    LET marking == {k \in DOMAIN history : Marks(history[k])}
        Before(k) == {j \in marking : j < k}
    IN \A k \in marking :
        k \in FredReports(history) <=>
            /\ history[k].ends = "done"
            /\ \/ Before(k) = {} \/ k - Max(Before(k)) >= MarkTtl
               \/ \A j \in Before(k) : history[j].newest # history[k].newest

\* An alert is of a move since the last run that saw the market, whatever was
\* seen before: the same move is not told twice, a cue absent from that run is
\* not measured against an older one, and after a long gap nothing is.
DriftIsSinceLastLook(history) ==
    \A k \in DOMAIN history :
        LET looks == {j \in 1..(k - 1) : DOMAIN history[j] # {}}
            last == Max(looks)
        IN DriftAlerts(history)[k] =
            IF DOMAIN history[k] = {} \/ looks = {} \/ k - last >= SnapshotTtl THEN {} ELSE Moved(history[last], history[k])

\* Rejections are kept: a name that was scored is missing from the results only
\* because the caller asked for no such; what passes stands first, except that
\* the passing ones asked for alone come in the order they were named.
RejectionsAreShown(given, watchlist, exchange, least, passingOnly, readings) ==
    LET screen == ScreenMarket(given, watchlist, exchange, least, passingOnly, readings)
        shown == {r.symbol : r \in Range(screen.results)}
    IN /\ \A s \in Range(screen.names) :
            readings[s].is = "scored" =>
                LET row == Row(s, readings[s]) IN
                IF passingOnly THEN row.passes <=> s \in shown ELSE row.confluence >= least <=> s \in shown
       /\ \A i, j \in DOMAIN screen.results : (i < j /\ screen.results[j].passes) => screen.results[i].passes
=============================================================================
