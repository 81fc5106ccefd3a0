---------------------------- MODULE SymbolSearch ----------------------------
(***************************************************************************)
(* The search box: what a query suggests (search of providers/registry.py, *)
(* kite_provider.py, deriv_provider.py and yfinance_provider.py).          *)
(*                                                                         *)
(* The query, stripped, and the spelling of a name are sequences of        *)
(* characters, in lower case: which characters follow a match is what the  *)
(* ranking is about.  A suggestion is the symbol and the exchange it is    *)
(* charted on.                                                             *)
(***************************************************************************)
EXTENDS MarketAnswers

LOCAL INSTANCE SequencesExt
LOCAL INSTANCE FiniteSetsExt

CONSTANTS
    Spelling,      \* of every symbol and name
    Haystacks,     \* of every pair: its symbol, its display name and Deriv's symbol, spelled
    Digits,        \* the characters that are digits
    YahooExchange  \* _YAHOO_EXCHANGE, of the codes that are supported

Compact(text) == SelectSeq(text, LAMBDA c : c # " ")

\* "nifty50" is also looked for as "nifty 50".
Spaced(text) ==
    LET Letter(c) == c # " " /\ c \notin Digits
        Add(out, c) == IF out # <<>> /\ Letter(Last(out)) /\ c \in Digits THEN out \o <<" ", c>> ELSE Append(out, c)
    IN FoldLeft(Add, <<>>, text)
-----------------------------------------------------------------------------
\* Mutant: a match may run into another digit.
MatchesAnywhere(text, query, prefixOnly) ==
    query # <<>> /\ \E start \in IF prefixOnly THEN {0} ELSE 0..Len(text) :
        start + Len(query) <= Len(text) /\ SubSeq(text, start + 1, start + Len(query)) = query

\* _matches: "50" is not found in "500".
Matches(text, query, prefixOnly) ==
    query # <<>> /\ \E start \in IF prefixOnly THEN {0} ELSE 0..Len(text) :
        LET end == start + Len(query) IN
        /\ end <= Len(text) /\ SubSeq(text, start + 1, end) = query
        /\ Last(query) \notin Digits \/ end = Len(text) \/ text[end + 1] \notin Digits

NoMatch == 9

\* _score_match: the lower the better.
ScoreMatch(symbol, name, query) ==
    LET OneOf(set, prefixOnly) == \E p \in set : Matches(p[1], p[2], prefixOnly)
        names == {<<name, query>>, <<name, Spaced(query)>>}
        compact == {<<Compact(name), Compact(query)>>}
    IN IF symbol = query THEN 0
       ELSE IF Matches(symbol, query, TRUE) THEN 1
       ELSE IF OneOf(names, TRUE) THEN 2
       ELSE IF OneOf(compact, TRUE) THEN 3
       ELSE IF Matches(symbol, query, FALSE) THEN 4
       ELSE IF OneOf(names \cup compact, FALSE) THEN 5 ELSE NoMatch

\* _search_sync of Kite: one suggestion for the futures of a name, the front
\* month, and one for each share; the best first, and the futures among equals.
KiteSearch(dump, query) ==
    LET rows == Instruments(dump)
        FrontMonth(name) == CHOOSE c \in DOMAIN Continuous : Continuous[c] = [name |-> name, rank |-> 1]
        futures == {[symbol |-> FrontMonth(r.name), exchange |-> r.venue, among |-> 0,
                     score |-> ScoreMatch(Spelling[r.name], Spelling[r.name], query)] :
                        r \in {x \in rows : x.venue \in Dated /\ x.type = "FUT"}}
        shares == {[symbol |-> r.symbol, exchange |-> r.venue, among |-> 1,
                    score |-> ScoreMatch(Spelling[r.symbol], Spelling[r.name], query)] :
                        r \in {x \in rows : x.venue \notin Dated}}
        found == SetToSortSeq({s \in futures \cup shares : s.score # NoMatch},
                              LAMBDA s, u : s.score < u.score \/ (s.score = u.score /\ s.among < u.among))
    IN [i \in DOMAIN found |-> [symbol |-> found[i].symbol, exchange |-> found[i].exchange]]

\* Deriv's pairs one of whose names contains the query.
DerivSearch(query) ==
    LET Mentions(text) == \E i \in 0..(Len(text) - Len(query)) : SubSeq(text, i + 1, i + Len(query)) = query
        found == SetToSeq({p \in Pairs : \E text \in Haystacks[p] : Mentions(text)})
    IN [i \in DOMAIN found |-> [symbol |-> found[i], exchange |-> "FOREX"]]

\* Mutant: a listing on an exchange that is not supported is taken for a US one.
YahooSearchAll(quotes) ==
    LET shares == SelectSeq(quotes, LAMBDA q : q.type = "EQUITY") IN
    [i \in DOMAIN shares |->
        [symbol |-> shares[i].symbol,
         exchange |-> IF shares[i].code \in DOMAIN YahooExchange THEN YahooExchange[shares[i].code] ELSE "NASDAQ"]]

\* _search_sync of yfinance: the shares it can chart, each symbol once.
YahooSearch(quotes) ==
    LET Add(out, q) ==
            IF q.type # "EQUITY" \/ q.code \notin DOMAIN YahooExchange \/ \E s \in Range(out) : s.symbol = q.symbol
            THEN out ELSE Append(out, [symbol |-> q.symbol, exchange |-> YahooExchange[q.code]])
    IN FoldLeft(Add, <<>>, quotes)

\* search of the router: one list after the other, cut to its length.
Search(dump, query, quotes, limit) ==
    LET Firsts(seq) == SubSeq(seq, 1, Least(limit, Len(seq))) IN
    IF query = <<>> THEN Firsts(YahooSearch(quotes))
    ELSE Firsts(Firsts(DerivSearch(query)) \o Firsts(KiteSearch(dump, query)) \o Firsts(YahooSearch(quotes)))
-----------------------------------------------------------------------------
\* A number in a query is a whole number: a suggestion of Kite's spells it out
\* in its symbol or its name, somewhere with no further digit behind it, though
\* one of them may put a space before it that the other has not.
NumberIsWhole(dump, query) ==
    LET Whole(text) ==
            \E end \in 1..Len(text) : \E start \in 1..end :
                /\ Compact(SubSeq(text, start, end)) = Compact(query)
                /\ end = Len(text) \/ text[end + 1] \notin Digits
        OfSymbol(s) == {r \in Instruments(dump) : r.symbol = s.symbol /\ r.venue = s.exchange}
        Texts(s) ==
            IF s.symbol \in DOMAIN Continuous THEN {Spelling[Continuous[s.symbol].name]}
            ELSE {Spelling[s.symbol]} \cup {Spelling[r.name] : r \in OfSymbol(s)}
    IN (query # <<>> /\ Last(query) \in Digits) =>
        \A s \in Range(KiteSearch(dump, query)) : \E text \in Texts(s) : Whole(text)

\* What is suggested can be charted as what it was: a pair at Deriv, a row of
\* Kite's dump unless all its contracts have expired, and a share of the
\* fallback's under the ticker it was found by.
SuggestedIsChartable(dump, query, quotes, today) ==
    \A s \in Range(Search(dump, query, quotes, 9)) :
        LET info == Resolve(s.symbol, s.exchange)
            row == ResolveRow(dump, s.symbol, s.exchange, today)
        IN /\ info.exchange = s.exchange
           /\ \/ info.provider = "deriv"
              \/ row # None
              \/ s.symbol \in DOMAIN Continuous
              \/ \E q \in Range(quotes) : q.symbol = s.symbol /\ Ticker(s.symbol, s.exchange) = <<q.symbol, q.suffix>>
=============================================================================
