------------------------------ MODULE NewsDesk ------------------------------
(***************************************************************************)
(* The hourly news run: four sources merged into one page and analysed in  *)
(* chunks behind a cache (app/market/news.py), and the headlines of it     *)
(* that are pushed to the phone (worker/news_job.py, events/shocks.py).    *)
(*                                                                         *)
(* An article is a record of its url, title, time, outlet and of what the  *)
(* filters ask about it; "" is a field it does not have, time Unparsed is  *)
(* one that cannot be read.  An outlet may change the title under a url,   *)
(* and the same title may come under another url.  A history is the runs   *)
(* of a few hours, within the times the caches and the claims keep.        *)
(***************************************************************************)
EXTENDS Integers, Sequences, FiniteSets

LOCAL INSTANCE SequencesExt
LOCAL INSTANCE FiniteSetsExt
LOCAL INSTANCE TLC

CONSTANTS
    ChunkSize,     \* IMPACT_CHUNK_SIZE
    MaxPerRun,     \* MAX_PER_RUN
    EndOf(_)       \* the last characters of a url: url[-32:] is an article's id

Unparsed == 0
None == [of |-> "no analysis"]
NoAnswer == <<>>
-----------------------------------------------------------------------------
Twins(a, b) == (a.url # "" /\ a.url = b.url) \/ (a.title # "" /\ a.title = b.title)

\* Mutant: two outlets' copies of a story have urls of their own.
DedupeByUrl(articles) ==
    FoldLeft(LAMBDA out, a : IF \E i \in DOMAIN out : a.url # "" /\ a.url = out[i].url
                             THEN out ELSE Append(out, a), <<>>, articles)

\* _dedupe_articles: the first of all that share a url or a title.
Dedupe(articles) ==
    FoldLeft(LAMBDA out, a : IF \E i \in DOMAIN out : Twins(a, out[i]) THEN out ELSE Append(out, a),
             <<>>, articles)

\* Newest first, as they came within one time, the unreadable last.
NewestFirst(articles) ==
    LET times == SetToSortSeq({articles[i].at : i \in DOMAIN articles}, >) IN
    FoldLeft(LAMBDA all, t : all \o SelectSeq(articles, LAMBDA a : a.at = t), <<>>, times)

Share(size) == Max({1, size \div 2})
From(articles, source) == Cardinality({i \in DOMAIN articles : articles[i].source = source})

\* Mutant: what the cap held back is not used to fill the page.
PageShrunk(merged, size) ==
    LET page == FoldLeft(LAMBDA p, a : IF From(p, a.source) < Share(size) THEN Append(p, a) ELSE p, <<>>, merged)
    IN SubSeq(page, 1, Min({size, Len(page)}))

\* No more than half the page from one outlet, as long as others can fill it.
Page(merged, size) ==
    LET Split(acc, a) == IF From(acc.page, a.source) < Share(size)
                         THEN [acc EXCEPT !.page = Append(@, a)]
                         ELSE [acc EXCEPT !.over = Append(@, a)]
        split == FoldLeft(Split, [page |-> <<>>, over |-> <<>>], merged)
        full == split.page \o split.over
    IN SubSeq(full, 1, Min({size, Len(full)}))

\* _merge_sources: filings are dropped unless there is nothing else.
MergeSources(sources, size) ==
    LET all == FlattenSeq(sources)
        kept == SelectSeq(all, LAMBDA a : ~a.noise)
    IN Page(NewestFirst(Dedupe(IF kept = <<>> THEN all ELSE kept)), size)
-----------------------------------------------------------------------------
\* What the model says of a headline: what it moves, and its sentiment.
Analysis(a) == [of |-> a.title, watched |-> a.watched, mood |-> a.mood]

CeilDiv(n, m) == (n + m - 1) \div m

\* Mutant: full chunks first, and a last one of what remains.
ChunksGreedy(seq) ==
    [c \in 1..CeilDiv(Len(seq), ChunkSize) |->
        SubSeq(seq, (c - 1) * ChunkSize + 1, Min({c * ChunkSize, Len(seq)}))]

\* As few chunks as the size allows, none longer than another by more than one.
Chunks(seq) ==
    LET n == CeilDiv(Len(seq), ChunkSize)
        base == Len(seq) \div n
        extra == Len(seq) % n
        Until(c) == c * base + Min({c, extra})
    IN IF seq = <<>> THEN <<>> ELSE [c \in 1..n |-> SubSeq(seq, Until(c - 1) + 1, Until(c))]

\* One chunk: the second model is asked when the first one's answer does not
\* have an entry for every headline.
AnalyseChunk(chunk, replies) ==
    IF replies[1] = "ok" \/ (replies[1] = "misshapen" /\ replies[2] = "ok")
    THEN [i \in DOMAIN chunk |-> Analysis(chunk[i])] ELSE NoAnswer

\* _analyze_articles: a chunk that fails fails them all.
Analyse(articles, replies) ==
    LET results == [c \in DOMAIN Chunks(articles) |-> AnalyseChunk(Chunks(articles)[c], replies[c])] IN
    IF \E c \in DOMAIN results : results[c] = NoAnswer THEN NoAnswer ELSE FlattenSeq(results)

\* Mutant: the fresh analyses are dealt out from the first article on.
AttachFromFirst(page, cache, pending, fresh) ==
    [i \in DOMAIN page |-> IF i <= Len(fresh) THEN fresh[i]
                           ELSE IF page[i].url \in DOMAIN cache THEN cache[page[i].url] ELSE None]

\* Cached analyses where there are any, and the fresh ones in their order.
Attach(page, cache, pending, fresh) ==
    [i \in DOMAIN page |->
        IF i \in Range(pending) THEN fresh[CHOOSE k \in DOMAIN pending : pending[k] = i] ELSE cache[page[i].url]]

\* Mutant: what was analysed is not remembered.
AnalysedUnkept(page, cache, up, replies) ==
    LET fresh == Analyse(page, replies) IN
    [ok |-> fresh # NoAnswer, cache |-> cache, paid |-> IF fresh = NoAnswer THEN {} ELSE Range(page),
     of |-> IF fresh = NoAnswer THEN [i \in DOMAIN page |-> None] ELSE fresh]

\* _analyze_articles_cached, when the cache can be reached or not: what is kept
\* under the url is taken, whatever headline it was made of.
Analysed(page, cache, up, replies) ==
    LET Known(a) == up /\ a.url # "" /\ a.url \in DOMAIN cache
        pending == SelectSeq([i \in DOMAIN page |-> i], LAMBDA i : ~Known(page[i]))
        fresh == Analyse([k \in DOMAIN pending |-> page[pending[k]]], replies)
        keyed == {k \in DOMAIN pending : page[pending[k]].url # ""}
        keep == [u \in {page[pending[k]].url : k \in keyed} |->
                    fresh[CHOOSE k \in keyed : page[pending[k]].url = u]]
    IN IF pending # <<>> /\ fresh = NoAnswer
       THEN [ok |-> FALSE, cache |-> cache, paid |-> {},
             of |-> [i \in DOMAIN page |-> IF Known(page[i]) THEN cache[page[i].url] ELSE None]]
       ELSE [ok |-> TRUE,
             cache |-> IF up THEN keep @@ cache ELSE cache,
             paid |-> {page[i] : i \in Range(pending)},
             of |-> Attach(page, cache, pending, fresh)]
-----------------------------------------------------------------------------
\* select: a watched instrument is hit, or the words are a shock's and not
\* crypto's; hits need an analysis.
IsShock(a, analysis) ==
    LET hits == analysis # None /\ analysis.watched IN
    a.title # "" /\ (hits \/ (a.words /\ ~a.crypto))

\* rank: a named instrument before a matched word, a sentiment before none.
Ranked(articles, of) ==
    LET Key(i) == <<of[i] # None /\ of[i].watched, of[i] # None /\ of[i].mood>>
        shocks == SelectSeq([i \in DOMAIN articles |-> i], LAMBDA i : IsShock(articles[i], of[i]))
    IN FoldLeft(LAMBDA all, key : all \o SelectSeq(shocks, LAMBDA i : Key(i) = key), <<>>,
                <<<<TRUE, TRUE>>, <<TRUE, FALSE>>, <<FALSE, TRUE>>, <<FALSE, FALSE>>>>)

\* The id a shock is claimed under.
Id(a) == EndOf(IF a.url # "" THEN a.url ELSE a.title)

\* Mutant: only what is sent is claimed, once it was sent.
UnseenAfterwards(ids, seen, sent) == [fresh |-> ids, seen |-> seen \cup Range(sent)]

\* unseen: every one of them is claimed, whether or not it is sent.
Unseen(ids, seen, sent) ==
    [fresh |-> FoldLeft(LAMBDA f, id : IF id \in seen \cup Range(f) THEN f ELSE Append(f, id), <<>>, ids),
     seen |-> seen \cup Range(ids)]

\* push_shocks; Telegram may refuse all of them, and without Redis none is sent.
PushShocks(page, of, seen, up, telegram) ==
    LET ranked == Ranked(page, of)
        shocks == [k \in DOMAIN ranked |-> page[ranked[k]]]
        First(id) == shocks[CHOOSE k \in DOMAIN shocks :
                                Id(shocks[k]) = id /\ \A j \in 1..(k - 1) : Id(shocks[j]) # id]
        claim == Unseen([k \in DOMAIN shocks |-> Id(shocks[k])], seen, <<>>)
        out == SubSeq(claim.fresh, 1, Min({MaxPerRun, Len(claim.fresh)}))
    IN IF ~up THEN [seen |-> seen, sent |-> <<>>]
       ELSE [seen |-> claim.seen,
             sent |-> IF telegram THEN [k \in DOMAIN out |-> First(out[k])] ELSE <<>>]

FirstHour == [cache |-> <<>>, seen |-> {}, runs |-> <<>>]

\* One hour: the page is analysed and published, and then the phone is told.
RunNews(desk, hour) ==
    LET a == Analysed(hour.page, desk.cache, hour.up, hour.replies)
        p == PushShocks(hour.page, a.of, desk.seen, hour.up, hour.telegram)
    IN [cache |-> a.cache, seen |-> p.seen,
        runs |-> Append(desk.runs, [of |-> a.of, degraded |-> ~a.ok, paid |-> a.paid, sent |-> p.sent])]
Runs(hours) == FoldLeft(RunNews, FirstHour, hours).runs
-----------------------------------------------------------------------------
\* "The cap shapes the page; it must never shrink it": the page is as full as
\* the stories are many, and an outlet has more than half only when every story
\* of another is there.
PageIsAnEdit(sources, size) ==
    LET page == MergeSources(sources, size)
        all == FlattenSeq(sources)
        stories == Dedupe(IF \A i \in DOMAIN all : all[i].noise THEN all
                          ELSE SelectSeq(all, LAMBDA a : ~a.noise))
    IN /\ Len(page) = Min({size, Len(stories)})
       /\ \A s \in {a.source : a \in Range(all)} :
            From(page, s) > Share(size) => \A a \in Range(stories) : a.source # s => a \in Range(page)

\* One story is on the page once, however many outlets carry it, and none is
\* dropped but for a twin that was kept.
OneStoryOnce(sources, size) ==
    LET page == MergeSources(sources, size)
        all == FlattenSeq(sources)
    IN /\ \A i, j \in DOMAIN page : i # j => ~Twins(page[i], page[j])
       /\ Len(page) < size => \A i \in DOMAIN all : ~all[i].noise => \E a \in Range(page) : a = all[i] \/ Twins(a, all[i])

\* A leftover chunk of one headline is what the model shapes worst: chunks are
\* of one size but for one, none over the limit, and in the page's order.
ChunksAreEven(seq) ==
    LET cs == Chunks(seq) IN
    /\ FlattenSeq(cs) = seq
    /\ \A c, d \in DOMAIN cs : Len(cs[c]) <= ChunkSize /\ Len(cs[c]) - Len(cs[d]) <= 1

\* What stands beside a headline was made of it, or of what an earlier hour had
\* under its url; a page that lacks an analysis says that it is degraded.
RightHeadline(hours, runs) ==
    \A r \in DOMAIN runs : \A i \in DOMAIN runs[r].of :
        LET a == hours[r].page[i]
            of == runs[r].of[i]
            earlier == {b \in UNION {Range(hours[q].page) : q \in 1..(r - 1)} : b.url = a.url}
        IN IF of = None THEN runs[r].degraded
           ELSE \/ of = Analysis(a)
                \/ a.url # "" /\ \E b \in earlier : b.title # a.title /\ of = Analysis(b)

\* A url is paid for once, as long as the cache can be reached.
PaidForOnce(hours, runs) ==
    \A r, q \in DOMAIN runs : (q < r /\ hours[q].up /\ hours[r].up) =>
        \A a \in runs[q].paid, b \in runs[r].paid : a.url = b.url => a.url = ""

\* "A story surviving several hourly ticks is pushed once": under one url.  Its copy
\* under another is the same story to the page, and buzzes again all the same.  A
\* shock that could have been sent and was not has an id that an earlier run claimed,
\* or one that this run did send.
PushedOnce(hours, runs) ==
    LET sent == FlattenSeq([r \in DOMAIN runs |-> runs[r].sent])
        Shocks(r) == {a \in Range(hours[r].page) :
                        \E i \in DOMAIN hours[r].page : hours[r].page[i] = a /\ IsShock(a, runs[r].of[i])}
        Claimed(r) == {Id(a) : a \in UNION {Shocks(q) : q \in {p \in 1..(r - 1) : hours[p].up}}}
    IN /\ \A i, j \in DOMAIN sent : i # j =>
            sent[i].url # sent[j].url \/ (sent[i].url = "" /\ sent[i].title # sent[j].title)
       /\ \A r \in DOMAIN runs :
            (hours[r].up /\ hours[r].telegram /\ Len(runs[r].sent) < MaxPerRun) =>
                \A a \in Shocks(r) : Id(a) \in Claimed(r) \cup {Id(b) : b \in Range(runs[r].sent)}
=============================================================================
