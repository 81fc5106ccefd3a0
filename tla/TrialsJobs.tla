----------------------------- MODULE TrialsJobs -----------------------------
(* Trials of MorningBrief: every set of cues, every calendar of six days,   *)
(* and three stocks of two sectors.  Trials of DeskDuties: histories of up  *)
(* to six runs, and screens of three names.                                 *)
EXTENDS Trials

Morning(c) == INSTANCE MorningBrief WITH
    US <- c.us, Asia <- c.asia, Rupee <- c.rupee, Fear <- c.fear, Drivers <- c.drivers,
    MinDays <- c.days, Threshold <- c.threshold, MinMove <- c.move, Floor <- c.floor, FullAlignment <- c.full,
    PerSector <- c.sectorCap, MaxCandidates <- c.most, Sector <- c.sector

MorningDesk ==
    [us |-> {"^IXIC", "^GSPC"}, asia |-> {"^N225", "^HSI"}, rupee |-> "USDINR", fear |-> "^INDIAVIX",
     drivers |-> {"^IXIC", "BZ", "USDINR"}, days |-> 2, threshold |-> 100, move |-> 15,
     floor |-> 65, full |-> 200, sectorCap |-> 1, most |-> 2,
     sector |-> [s \in {"TCS", "INFY", "SBIN"} |-> IF s = "SBIN" THEN "bank" ELSE "it"]]

TryCues ==
    \E there \in SUBSET {"^IXIC", "^GSPC", "^N225", "^HSI", "USDINR", "^INDIAVIX"} :
    \E cues \in [there -> {-120, -20, 0, 31, 510}] : Try([of |-> "cues", cues |-> cues])

BriefDays(days) == SelectSeq([i \in 1..6 |-> i], LAMBDA i : i \in days)
TrySessions == \E stock, driver \in SUBSET (1..6), lagged \in BOOLEAN :
    Try([of |-> "sessions", stock |-> BriefDays(stock), driver |-> BriefDays(driver), lagged |-> lagged])

BriefBeta(b, m) == [beta |-> b, meaningful |-> m]
BriefSens ==
    {[d \in {} |-> 0], [d \in {"^IXIC"} |-> BriefBeta(1, TRUE)], [d \in {"^IXIC"} |-> BriefBeta(4, TRUE)],
     [d \in {"BZ", "^IXIC"} |-> IF d = "BZ" THEN BriefBeta(-1, TRUE) ELSE BriefBeta(2, FALSE)]}
BriefReading(symbol) ==
    {[symbol |-> symbol, answer |-> "signal", confidence |-> c, direction |-> d, sens |-> s] :
        c \in {65, 70, 100}, d \in {"BUY", "SELL"}, s \in BriefSens}
    \cup {[symbol |-> symbol, answer |-> a] : a \in {"none", "raised"}}
TryBrief ==
    \E a \in BriefReading("TCS"), b \in BriefReading("INFY"), c \in BriefReading("SBIN"),
       cues \in {[d \in {"^IXIC", "BZ"} |-> IF d = "BZ" THEN -150 ELSE 150], [d \in {"^IXIC", "BZ"} |-> -300],
                 [d \in {"^GSPC"} |-> 500]} :
        Try([of |-> "brief", cues |-> cues, readings |-> <<a, b, c>>])

\* The read is made of what arrived (Morning(MorningDesk)!BiasIsTheTape).
BiasIsTheTape == trial.of = "cues" => Morning(MorningDesk)!BiasIsTheTape(trial.cues)
\* A stock's day is set against what was known at its open (Morning(MorningDesk)!KnownAtTheOpen).
KnownAtTheOpen == trial.of = "sessions" => Morning(MorningDesk)!KnownAtTheOpen(trial.stock, trial.driver, trial.lagged)
\* Alignment settles only what conviction leaves (Morning(MorningDesk)!ConvictionOutranks).
ConvictionOutranks == trial.of = "brief" => Morning(MorningDesk)!ConvictionOutranks(Morning(MorningDesk)!Candidates(trial.cues, trial.readings))
\* A candidate is left out only for its betters (Morning(MorningDesk)!BestOfEachSector).
BestOfEachSector == trial.of = "brief" => Morning(MorningDesk)!BestOfEachSector(Morning(MorningDesk)!Candidates(trial.cues, trial.readings))
\* Two candidates on one move are one bet (Morning(MorningDesk)!OneBetIsCalledOne).
OneBetIsCalledOne == trial.of = "brief" => Morning(MorningDesk)!OneBetIsCalledOne(trial.cues, trial.readings)

\* The brief ranks by what was known, and calls one bet one bet.
BriefIsSound ==
    BiasIsTheTape /\ KnownAtTheOpen /\ ConvictionOutranks /\ BestOfEachSector
    /\ OneBetIsCalledOne

TryMorning == TryCues \/ TrySessions \/ TryBrief
-----------------------------------------------------------------------------
Duty(c) == INSTANCE DeskDuties WITH
    MarkTtl <- c.marks, SnapshotTtl <- c.snapshots, DriftPercent <- c.percent, MaxSymbols <- c.symbols, Default <- c.names

Desk == [marks |-> 3, snapshots |-> 3, percent |-> 10, symbols |-> 2, names |-> <<"TCS", "INFY", "ITC">>]

\* Of the dates 1 and 2 a run can end in each way; 3 has no value before it yet.
DutyAnswer == {Duty(Desk)!Down}
    \cup {[answer |-> "read", newest |-> n, prior |-> 1, ends |-> e] : n \in {1, 2}, e \in {"done", "unmarked", "lost"}}
    \cup {[answer |-> "read", newest |-> n, prior |-> 0, ends |-> "done"] : n \in {0, 3}}
\* What FRED publishes is not taken back: the newest date it names grows.
DutyGrows(history) ==
    \A j, k \in DOMAIN history :
        (j < k /\ Duty(Desk)!Down \notin {history[j], history[k]} /\ history[k].newest # 0) => history[j].newest <= history[k].newest
TryReleases == \E n \in 1..5 : \E history \in [1..n -> DutyAnswer] :
    DutyGrows(history) /\ Try([of |-> "releases", history |-> history])

DutyCues == UNION {[there -> {100, 106, 112}] : there \in {{}, {"gold"}, {"gold", "vix"}}}
\* The longer histories have a gap.
TryDrift == \E n \in 1..5 : \E history \in [1..n -> DutyCues] :
    /\ n > 3 => DOMAIN history[2] = {}
    /\ n > 4 => DOMAIN history[3] = {}
    /\ Try([of |-> "drift", history |-> history])

DutyReading ==
    {[is |-> "none"], [is |-> "error"]}
    \cup {[is |-> "scored", buy |-> b, sell |-> s, passes |-> [d \in {"BUY", "SELL"} |-> d = p]] :
            b \in {40, 60}, s \in {40, 70}, p \in {"BUY", "SELL", "neither"}}
TryScreen == \E readings \in [{"TCS", "INFY", "ITC"} -> DutyReading],
               asked \in {<<"ITC">>, <<"ITC", "TCS">>, <<>>}, watchlist \in {<<>>, <<"INFY", "TCS", "ITC">>},
               exchange \in {"NSE", "NASDAQ"}, least \in {0, 50}, passing \in BOOLEAN :
    Try([of |-> "screen", given |-> asked, watchlist |-> watchlist, exchange |-> exchange, least |-> least,
         passing |-> passing, readings |-> readings])

\* A print is reported once, by the run that marks it (Duty(Desk)!EachPrintOnce).
EachPrintOnce == trial.of = "releases" => Duty(Desk)!EachPrintOnce(trial.history)
\* An alert is of a move since the last look (Duty(Desk)!DriftIsSinceLastLook).
DriftIsSinceLastLook == trial.of = "drift" => Duty(Desk)!DriftIsSinceLastLook(trial.history)
\* Rejections are shown too (Duty(Desk)!RejectionsAreShown).
RejectionsAreShown ==
    trial.of = "screen" => Duty(Desk)!RejectionsAreShown(trial.given, trial.watchlist, trial.exchange, trial.least,
                                                trial.passing, trial.readings)

\* A print and a drift are told of once, and a screen shows what it rejects.
DutiesAreDone == EachPrintOnce /\ DriftIsSinceLastLook /\ RejectionsAreShown

TryDuties == TryReleases \/ TryDrift \/ TryScreen
=============================================================================
