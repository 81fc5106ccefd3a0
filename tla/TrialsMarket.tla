---------------------------- MODULE TrialsMarket ----------------------------
(* Trials of MarketHours, every tick of three weeks with holidays anywhere   *)
(* in the first days, and of MarketAnswers, over a small instrument dump. *)
EXTENDS Trials

Clock(c) == INSTANCE MarketHours WITH
    Day <- c.day, Opens <- c.opens, SquaresOff <- c.squaresOff, Closes <- c.closes,
    Attempts <- c.attempts, Horizon <- c.horizon

MarketClock == [day |-> 4, opens |-> 1, squaresOff |-> 2, closes |-> 3, attempts |-> 10, horizon |-> 14]

TryTicks ==
    \E m \in 0..(21 * 4 - 1), off \in SUBSET {0, 1, 2, 4, 7, 8, 9}, long \in BOOLEAN :
        Try([of |-> "hours of", at |-> m, off |-> off \cup IF long THEN 3..21 ELSE {}])

\* "Closed until" names the moment it opens (Clock(MarketClock)!NextOpenIsTheNext).
NextOpenIsTheNext ==
    trial.of = "hours of" => /\ Clock(MarketClock)!NextOpenIsTheNext(Clock(MarketClock)!NSE(trial.off), trial.at)
                             /\ Clock(MarketClock)!NextOpenIsTheNext(Clock(MarketClock)!FX, trial.at)
                             /\ Clock(MarketClock)!NextOpenIsTheNext(Clock(MarketClock)!AlwaysOpen, trial.at)
\* The session and the calendar agree (Clock(MarketClock)!TwoCalendarsAgree).
TwoCalendarsAgree == trial.of = "hours of" => Clock(MarketClock)!TwoCalendarsAgree(trial.at, trial.off)
\* No market is said to be closed that may be open (Clock(MarketClock)!ClosedIsEarned).
ClosedIsEarned == trial.of = "hours of" => Clock(MarketClock)!ClosedIsEarned(trial.at)

MarketEvery(x) == [deriv |-> x, kite |-> x, yfinance |-> x]
\* Spelled as far as the trials' queries can tell the names apart.
MarketSpelling ==
    [s \in {"GOLD", "NIFTY", "NIFTY 50", "NIFTY DIV", "RELIANCE", "N50", "N500", "index", "share", "junk"} |->
        CASE s = "NIFTY" -> <<"n">> [] s \in {"NIFTY 50", "index"} -> <<"n", " ", "5", "0">>
          [] s = "N50" -> <<"n", "5", "0">> [] s = "N500" -> <<"n", "5", "0", "0">>
          [] s = "NIFTY DIV" -> <<"n", " ", "d">> [] OTHER -> <<"g", "5">>]
A == INSTANCE SymbolSearch WITH
    Spelling <- MarketSpelling, Digits <- {"5", "0"},
    Haystacks <- [p \in {"XAUUSD"} |-> {<<"x">>, <<"g", "/">>, <<"f", "x">>}],
    YahooExchange <- [c \in {"NMS", "NSI", "BSE"} |-> IF c = "NMS" THEN "NASDAQ" ELSE IF c = "NSI" THEN "NSE" ELSE "BSE"],
    Pairs <- {"XAUUSD"},
    Continuous <- [c \in {"GOLD1!", "GOLD2!", "NIFTY1!", "NIFTY2!"} |->
                    [name |-> IF c \in {"GOLD1!", "GOLD2!"} THEN "GOLD" ELSE "NIFTY",
                     rank |-> IF c \in {"GOLD1!", "NIFTY1!"} THEN 1 ELSE 2]],
    Alias <- [i \in {"^NSEI"} |-> "NIFTY 50"], IndexTicker <- [i \in {"NIFTY 50"} |-> "^NSEI"],
    Served <- MarketEvery({"1m", "1d"}),
    Reaches <- [deriv |-> [i \in {"1m", "1d"} |-> IF i = "1m" THEN 7 ELSE 100],
                kite |-> [i \in {"1m", "1d"} |-> IF i = "1m" THEN 60 ELSE 100],
                yfinance |-> [i \in {"1m", "1d"} |-> IF i = "1m" THEN 6 ELSE 100]],
    SharedReach <- [i \in {"1m"} |-> 6]

MarketRow(symbol, name, venue, type, expiry) ==
    [symbol |-> symbol, name |-> name, venue |-> venue, type |-> type, expiry |-> expiry,
     index |-> name = "index", spaced |-> symbol \in {"NIFTY 50", "NIFTY DIV"}]
MarketShares == {MarketRow("RELIANCE", "share", "NSE", "EQ", 0), MarketRow("RELIANCE", "share", "BSE", "EQ", 0),
                 MarketRow("NIFTY 50", "index", "NSE", "EQ", 0), MarketRow("NIFTY DIV", "junk", "NSE", "EQ", 0)}
MarketDerivatives ==
    {MarketRow("GOLD3", "GOLD", "MCX", "FUT", 3), MarketRow("GOLD6", "GOLD", "MCX", "FUT", 6),
     MarketRow("GOLD2C", "GOLD", "MCX", "CE", 2), MarketRow("NIFTY2", "NIFTY", "NFO", "FUT", 2),
     MarketRow("NIFTY5", "NIFTY", "NFO", "FUT", 5), MarketRow("NIFTY8", "NIFTY", "NFO", "FUT", 8),
     MarketRow("NIFTY1C", "NIFTY", "NFO", "CE", 1), MarketRow("NIFTY0", "NIFTY", "NFO", "FUT", 0)}

TryRoll == \E dump \in SUBSET MarketDerivatives, today \in 1..8, at \in {"NSE", "MCX", "NFO"}, gold \in BOOLEAN :
    Try([of |-> "roll", dump |-> dump, today |-> today, at |-> at,
         front |-> IF gold THEN "GOLD1!" ELSE "NIFTY1!", second |-> IF gold THEN "GOLD2!" ELSE "NIFTY2!"])

MarketAsked == {"XAUUSD", "RELIANCE", "^NSEI", "NIFTY 50", "NIFTY DIV", "NIFTY1!", "AAPL", "TYPO", ""}
MarketHints == {"", "NSE", "BSE", "MCX", "NFO", "FOREX", "NASDAQ"}
TryAnswer == \E symbol \in MarketAsked, hint \in MarketHints, interval \in {"1m", "1d", "3m"},
               days \in {0, 6, 7, 90}, up \in [{"deriv", "kite", "yfinance"} -> BOOLEAN], loaded, open \in BOOLEAN :
    Try([of |-> "answer", symbol |-> symbol, hint |-> hint, interval |-> interval, days |-> days,
         world |-> [up |-> up, loaded |-> loaded, dump |-> MarketShares \cup MarketDerivatives, today |-> 1,
                    yahoo |-> {<<"RELIANCE", ".NS">>, <<"RELIANCE", ".BO">>, <<"^NSEI", "">>, <<"AAPL", "">>, <<"XAUUSD", "=X">>},
                    open |-> IF open THEN {"FX", "NSE", "BSE", "MCX", "NFO", "US", "always"} ELSE {"always"}]])

MarketListed == MarketShares \cup MarketDerivatives \cup
    {MarketRow("N50", "share", "NSE", "EQ", 0), MarketRow("N500", "share", "BSE", "EQ", 0), MarketRow("N500", "index", "NSE", "EQ", 0)}
MarketQuote ==
    {[symbol |-> s, code |-> c[1], suffix |-> c[2], type |-> t] :
        s \in {"AAPL", "RELIANCE"}, c \in {<<"NMS", "">>, <<"NSI", ".NS">>, <<"BSE", ".BO">>, <<"FRA", ".F">>}, t \in {"EQUITY", "ETF"}}
TrySearch == \E n \in 0..4 : \E query \in [1..n -> {"n", "g", "5", "0", " "}], today \in {1, 4, 9},
               quotes \in {<<>>} \cup {<<q>> : q \in MarketQuote} :
    /\ n > 1 => quotes = <<>>
    /\ n = 4 => today = 1
    /\ n > 0 => query[1] # " " /\ query[n] # " "
    /\ Try([of |-> "search", query |-> query, today |-> today, dump |-> MarketListed, quotes |-> quotes])

\* A number in a query is a whole number (A!NumberIsWhole).
NumberIsWhole == trial.of = "search" => A!NumberIsWhole(trial.dump, trial.query)
\* What is suggested can be charted (A!SuggestedIsChartable).
SuggestedIsChartable ==
    trial.of = "search" => A!SuggestedIsChartable(trial.dump, trial.query, trial.quotes, trial.today)

\* The venue of an answer is where the symbol lives (A!VenueIsTheSymbols).
VenueIsTheSymbols == trial.of = "answer" => A!VenueIsTheSymbols(trial.symbol, trial.hint)
\* A continuous symbol is today's contract (A!FrontMonthRolls).
FrontMonthRolls == trial.of = "roll" => A!FrontMonthRolls(trial.dump, trial.front, trial.second, trial.at, trial.today)
\* The fallback is asked for the same instrument (A!FallbackIsTheSame).
FallbackIsTheSame == trial.of = "answer" => A!FallbackIsTheSame(trial.world.dump, trial.symbol, trial.hint)
\* A typing error is not a closed market (A!EmptyIsExplained).
EmptyIsExplained ==
    trial.of = "answer" => A!EmptyIsExplained(trial.symbol, trial.hint, trial.interval, trial.days, trial.world)
\* A volume that was not counted is no zero (A!VolumeIsMeasured).
VolumeIsMeasured ==
    trial.of = "answer" => A!VolumeIsMeasured(trial.symbol, trial.hint, trial.interval, trial.days, trial.world)

\* The calendars of the market agree about its next day and its hours.
HoursAgree == NextOpenIsTheNext /\ TwoCalendarsAgree /\ ClosedIsEarned

\* The market is asked about what the user meant, and an empty answer says why.
AnswersAreHonest ==
    VenueIsTheSymbols /\ FrontMonthRolls /\ FallbackIsTheSame
    /\ EmptyIsExplained /\ VolumeIsMeasured /\ NumberIsWhole
    /\ SuggestedIsChartable

TryMarket == TryTicks \/ TryRoll \/ TryAnswer \/ TrySearch
=============================================================================
