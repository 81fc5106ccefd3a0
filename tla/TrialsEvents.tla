---------------------------- MODULE TrialsEvents ----------------------------
(* Trials of NewsDesk: two sources of two articles, chunks of up to nine    *)
(* headlines, and three hours of a page of up to three stories.  Trials of  *)
(* EventFigures: feeds of up to six rows, minute feeds of six bars, and     *)
(* releases printed up to three times.                                      *)
EXTENDS Trials

\* Two urls that end alike.
NewsEnd(url) == IF url = "u5" THEN "u2" ELSE url
N == INSTANCE NewsDesk WITH ChunkSize <- 2, MaxPerRun <- 1, EndOf <- NewsEnd
N4 == INSTANCE NewsDesk WITH ChunkSize <- 4, MaxPerRun <- 1, EndOf <- NewsEnd

NewsStory == {<<"u1", "t1">>, <<"u2", "t1">>, <<"u1", "t2">>, <<"u3", "t3">>, <<"", "t3">>}
NewsArticle(u, at, source) == [url |-> u[1], title |-> u[2], at |-> at, source |-> source, noise |-> u[2] = "t2"]
TryMerge ==
    \E a \in {<<"u1", "t1">>}, b, c, d \in NewsStory, t \in [1..4 -> 0..2], size \in 1..3, one \in BOOLEAN :
        /\ 0 \notin {t[1], t[2], t[3]}
        /\ Try([of |-> "merge", size |-> size,
             sources |-> <<<<NewsArticle(a, t[1], "x"), NewsArticle(b, t[2], "x")>>,
                           <<NewsArticle(c, t[3], "y"), NewsArticle(d, t[4], IF one THEN "x" ELSE "y")>>>>])

TryChunks == \E n \in 0..13 : Try([of |-> "chunks", seq |-> [i \in 1..n |-> i]])

\* The fourth is the first with its headline changed, the fifth its copy under a
\* url of its own, and the sixth's url ends as the second's.
NewsPool == <<[url |-> "u1", title |-> "t1", watched |-> TRUE, words |-> FALSE, crypto |-> FALSE, mood |-> TRUE],
              [url |-> "u2", title |-> "t2", watched |-> FALSE, words |-> TRUE, crypto |-> FALSE, mood |-> FALSE],
              [url |-> "", title |-> "t3", watched |-> TRUE, words |-> TRUE, crypto |-> TRUE, mood |-> FALSE],
              [url |-> "u1", title |-> "t4", watched |-> FALSE, words |-> FALSE, crypto |-> FALSE, mood |-> FALSE],
              [url |-> "u4", title |-> "t1", watched |-> TRUE, words |-> FALSE, crypto |-> FALSE, mood |-> TRUE],
              [url |-> "u5", title |-> "t5", watched |-> FALSE, words |-> TRUE, crypto |-> FALSE, mood |-> FALSE]>>
NewsPages == {[i \in DOMAIN p |-> NewsPool[p[i]]] : p \in {<<2, 1>>, <<1, 2, 3>>, <<3, 2>>, <<4, 2>>, <<5>>, <<6, 4>>}}
NewsReplies == {<<"ok", "ok">>, <<"misshapen", "ok">>, <<"error", "ok">>}
NewsHours == {[page |-> p, replies |-> <<r, s>>, up |-> up, telegram |-> tg] :
                p \in NewsPages, r \in NewsReplies, s \in {<<"ok", "ok">>, <<"misshapen", "misshapen">>},
                up \in BOOLEAN, tg \in BOOLEAN}
TryHours ==
    \E a, b, c \in NewsHours :
        /\ b.telegram /\ c.telegram /\ a.replies[1] # <<"misshapen", "ok">>
        /\ Len(a.page) = 3 \/ a.replies[2] = <<"ok", "ok">>
        /\ \A h \in {b, c} : h.replies[1] # <<"misshapen", "ok">> /\ h.replies[2] = <<"ok", "ok">>
        /\ Try([of |-> "hours", hours |-> <<a, b, c>>])

\* The page only selects from its sources (N!PageIsAnEdit).
PageIsAnEdit == trial.of = "merge" => N!PageIsAnEdit(trial.sources, trial.size)
\* No story is on the page twice (N!OneStoryOnce).
OneStoryOnce == trial.of = "merge" => N!OneStoryOnce(trial.sources, trial.size)
\* Chunks lose nothing and are of one size (N4!ChunksAreEven).
ChunksAreEven == trial.of = "chunks" => N4!ChunksAreEven(trial.seq)
\* An analysis sits on its own headline (N!RightHeadline).
RightHeadline == trial.of = "hours" => N!RightHeadline(trial.hours, N!Runs(trial.hours))
\* A headline is analysed once (N!PaidForOnce).
PaidForOnce == trial.of = "hours" => N!PaidForOnce(trial.hours, N!Runs(trial.hours))
\* A shock is pushed once (N!PushedOnce).
PushedOnce == trial.of = "hours" => N!PushedOnce(trial.hours, N!Runs(trial.hours))

\* A story is there once, with an analysis of its url, and a url is paid for and
\* pushed once.
NewsIsSound ==
    PageIsAnEdit /\ OneStoryOnce /\ ChunksAreEven /\ RightHeadline
    /\ PaidForOnce /\ PushedOnce

TryNews == TryMerge \/ TryChunks \/ TryHours
-----------------------------------------------------------------------------
E == INSTANCE EventFigures WITH
    SaneMin <- 2, SaneMax <- 5, MaxDetailed <- 1, MaxListed <- 1, MinSample <- 2, MinSide <- 1,
    Watched <- {"USD", "EUR"}

EventRow == {<<"USD", "High">>, <<"EUR", "High">>, <<"USD", "Medium">>, <<"JPY", "High">>, <<"EUR", "Low">>}
\* The rows after the fourth repeat it.
EventCap(n) == IF n < 4 THEN n ELSE 4
TryFeed ==
    \E n \in 0..6, up \in BOOLEAN :
    \E kinds \in [1..EventCap(n) -> EventRow], whens \in {<<1, 2, 3, 4>>, <<4, 3, 2, 1>>, <<-1, -1, 0, 0>>, <<2, E!Unknown, 3, -1>>} :
        Try([of |-> "feed", feed |-> [up |-> up,
             rows |-> [i \in 1..n |->
                LET k == EventCap(i) IN [currency |-> kinds[k][1], impact |-> kinds[k][2], when |-> whens[k]]]]])

\* Every way to publish an amount: by itself, or in thousands of it.
EventText(x) == {[figure |-> x, unit |-> "none"]} \cup
                (IF x % 10 = 0 THEN {[figure |-> x \div 10, unit |-> "K"]} ELSE {})
TryPrint ==
    \E a, f \in {-20, -3, 0, 9, 10, 11, 30}, e \in {"greater", "less", "unknown"}, c \in {"USD", "GBP"} :
    \E p \in EventText(a), q \in EventText(f) :
        Try([of |-> "print", actual |-> a, forecast |-> f, effect |-> e, currency |-> c, said |-> p, expected |-> q])

EventBars(prices, there) ==
    LET times == SelectSeq([i \in 1..6 |-> i - 3], LAMBDA t : t \in there)
    IN [i \in DOMAIN times |-> [t |-> times[i], o |-> prices[times[i]], c |-> prices[times[i] + 1]]]
TryFeeds ==
    \E there \in SUBSET (-2..3), up \in BOOLEAN :
        Try([of |-> "minutes", bars |-> EventBars([t \in -2..4 |-> IF up THEN 100 + t ELSE 100], there)])

EventMoves == {100, 99, 101, 0}
EventPast == {<<m, s>> : m \in EventMoves, s \in {"beat", "miss", "unread"}}
EventHistory(rows) ==
    [i \in DOMAIN rows |->
        [when |-> 10 * i, forecast |-> [figure |-> 5, unit |-> "none"],
         actual |-> IF rows[i][2] = "unread" THEN E!NoText
                    ELSE [figure |-> IF rows[i][2] = "beat" THEN 6 ELSE 4, unit |-> "none"],
         bars |-> IF rows[i][1] = 0 THEN <<>>
                  ELSE <<[t |-> 10 * i, o |-> 100, c |-> 100], [t |-> 10 * i + 2, o |-> 100, c |-> rows[i][1]]>>]]
TryPrints == \E n \in 1..3 : \E rows \in [1..n -> EventPast] : Try([of |-> "past", rows |-> EventHistory(rows)])
TryMoves == \E n \in 1..4 : \E moves \in [1..n -> {-3, -1, 0, 1, 3}] : Try([of |-> "moves", moves |-> moves])

\* A quiet week is never a feed that is down (E!QuietMeansQuiet).
QuietMeansQuiet == trial.of = "feed" => E!QuietMeansQuiet(trial.feed, 0)
\* No event of high impact is crowded out of the agenda (E!NothingCrowdedOut).
NothingCrowdedOut == trial.of = "feed" => E!NothingCrowdedOut(trial.feed, 0)
\* The branch a print takes says what it means (E!TheBranchThatCameTrue).
TheBranchThatCameTrue ==
    trial.of = "print" => E!TheBranchThatCameTrue(trial.currency, trial.effect, trial.actual, trial.forecast,
                                                  trial.said, trial.expected)
\* A late feed is not a small reaction (E!NeverCutShort).
NeverCutShort == trial.of = "minutes" => E!NeverCutShort(trial.bars, 0, 1, 3)
\* Prints that could not be priced say nothing (E!MeasuredOnly).
MeasuredOnly == trial.of = "past" => E!MeasuredOnly(trial.rows, 2, 2)
\* A clause is never against the majority of its moves (E!NeverAgainstMost).
NeverAgainstMost == trial.of = "moves" => E!NeverAgainstMost(trial.moves)

\* A calendar is what the feed said, and a reaction what was measured.
EventsAreSound ==
    QuietMeansQuiet /\ NothingCrowdedOut /\ TheBranchThatCameTrue
    /\ NeverCutShort /\ MeasuredOnly /\ NeverAgainstMost

TryEvents == TryFeed \/ TryPrint \/ TryFeeds \/ TryPrints \/ TryMoves
=============================================================================
