---------------------------- MODULE MarketAnswers ----------------------------
(***************************************************************************)
(* A request for bars or a quote, from the symbol to the answer: who owns  *)
(* the symbol (app/market/symbols.py), which contract it means today       *)
(* (providers/kite_provider.py), who is asked and for how long a window    *)
(* (providers/registry.py, intervals.py), whom the fallback asks instead   *)
(* (yfinance_provider.py), what the bars look like (bars.py) and why there *)
(* are none (contract.py, router.py).                                      *)
(*                                                                         *)
(* Symbols are values; a row of the instrument dump is a record.  What a   *)
(* vendor has is an input.  The vendors' wire formats are left out, and    *)
(* the cache in front of them is module QuoteCache.                        *)
(***************************************************************************)
EXTENDS Integers, Sequences, FiniteSets

LOCAL INSTANCE SequencesExt
LOCAL INSTANCE FiniteSetsExt

CONSTANTS
    Pairs,          \* KNOWN_PAIRS
    Continuous,     \* the symbols shaped like "GOLD1!", as [name, rank]
    Alias,          \* _INDEX_ALIASES, of a name used elsewhere
    IndexTicker,    \* _INDEX_TICKER, the fallback's names of indices
    Served,         \* the intervals each provider serves
    Reaches,        \* and the days of each that it says it keeps
    SharedReach     \* VENDOR_MAX_DAYS

None == [symbol |-> "none"]
KiteExchanges == {"NSE", "BSE", "MCX", "NFO"}
Dated == {"MCX", "NFO"}
Least(a, b) == IF a < b THEN a ELSE b
-----------------------------------------------------------------------------
\* resolve: the symbol decides, then the hint.
Resolve(symbol, hint) ==
    IF symbol = "" THEN None
    ELSE IF symbol \in Pairs
    THEN [symbol |-> symbol, provider |-> "deriv", exchange |-> "FOREX", session |-> "FX", listed |-> TRUE]
    ELSE IF hint \in KiteExchanges
    THEN [symbol |-> symbol, provider |-> "kite", exchange |-> hint, session |-> hint, listed |-> FALSE]
    ELSE LET exchange == IF hint = "" THEN "NASDAQ" ELSE hint IN
         [symbol |-> symbol, provider |-> "yfinance", exchange |-> exchange, listed |-> FALSE,
          session |-> IF exchange \in {"NASDAQ", "NYSE"} THEN "US" ELSE "always"]

\* Mutant: the exchange alone picks the provider.
ProviderByExchange(exchange, symbol) ==
    IF exchange = "FOREX" THEN "deriv" ELSE IF exchange \in KiteExchanges THEN "kite" ELSE "yfinance"

\* _provider_for, which quotes and the history are asked of.
ProviderFor(exchange, symbol) ==
    IF symbol \in Pairs \/ exchange = "FOREX" THEN "deriv"
    ELSE IF exchange \in KiteExchanges THEN "kite" ELSE "yfinance"

\* LiveTicks._effective_exchange and where it sends a subscription.
TicksFrom(exchange, symbol) ==
    LET effective == IF symbol \in Pairs THEN "FOREX" ELSE exchange IN
    IF effective \in KiteExchanges THEN "kite" ELSE IF effective = "FOREX" THEN "deriv" ELSE "poll"
-----------------------------------------------------------------------------
\* _ensure_instruments: the rows that are kept of what Kite lists.
Kept(row) ==
    CASE row.venue \in {"NSE", "BSE"} -> (row.type = "EQ" /\ ~row.spaced) \/ row.index
      [] row.venue = "NFO" -> row.type \in {"FUT", "CE", "PE"} /\ row.expiry # 0
      [] row.venue = "MCX" -> row.type = "FUT" /\ row.expiry # 0

Instruments(dump) == {row \in dump : Kept(row)}

\* Mutant: a contract that has expired keeps its rank.
ContractsOfAll(dump, name, venue, today) ==
    SetToSortSeq({r \in Instruments(dump) : r.venue = venue /\ r.name = name /\ r.type = "FUT"},
                 LAMBDA r, s : r.expiry < s.expiry)

\* _resolve_continuous: futures of that name that have not expired, the nearest first.
Contracts(dump, name, venue, today) ==
    SetToSortSeq({r \in Instruments(dump) :
                    r.venue = venue /\ r.name = name /\ r.type = "FUT" /\ r.expiry >= today},
                 LAMBDA r, s : r.expiry < s.expiry)

Nth(seq, n) == IF n \in DOMAIN seq THEN seq[n] ELSE None
Ranked(dump, name, rank, venue, today) == Nth(Contracts(dump, name, venue, today), rank)

AnyRow(rows) == IF rows = {} THEN None ELSE CHOOSE r \in rows : TRUE

\* _resolve_row: a continuous symbol is a future wherever it was looked for.
ResolveRow(dump, symbol, exchange, today) ==
    LET c == Continuous[symbol]
        At(venue) == Ranked(dump, c.name, c.rank, venue, today)
        name == IF symbol \in DOMAIN Alias THEN Alias[symbol] ELSE symbol
    IN IF symbol \in DOMAIN Continuous
       THEN IF At(exchange) # None THEN At(exchange) ELSE AnyRow({At(v) : v \in Dated} \ {None})
       ELSE AnyRow({r \in Instruments(dump) : r.venue = exchange /\ r.symbol = name})

\* contract_spec: what sizing is told, and None for what has no lots.
ContractSpec(dump, symbol, exchange, today) ==
    LET row == ResolveRow(dump, symbol, exchange, today) IN
    IF row = None \/ row.expiry = 0 THEN None ELSE row
-----------------------------------------------------------------------------
\* Mutant: an index is given an equity's suffix.
TickerSuffixed(symbol, exchange) == <<symbol, IF exchange = "NSE" THEN ".NS" ELSE IF exchange = "BSE" THEN ".BO" ELSE "">>

\* _ticker_for: what the fallback calls it.
Ticker(symbol, exchange) ==
    IF exchange = "FOREX" THEN <<symbol, "=X">>
    ELSE IF symbol \in DOMAIN Alias \/ exchange \notin {"NSE", "BSE"} THEN <<symbol, "">>
    ELSE IF symbol \in DOMAIN IndexTicker THEN <<IndexTicker[symbol], "">>
    ELSE <<symbol, IF exchange = "NSE" THEN ".NS" ELSE ".BO">>

\* What the fallback's vendor calls a row of Kite's.
Listing(row) ==
    IF row.index THEN <<IndexTicker[row.symbol], "">> ELSE <<row.symbol, IF row.venue = "NSE" THEN ".NS" ELSE ".BO">>

\* clamp_days, of one table for every vendor.
ClampDays(interval, days) ==
    LET shared == IF interval \in DOMAIN SharedReach THEN Least(days, SharedReach[interval]) ELSE days IN
    IF shared < 1 THEN 1 ELSE shared

\* Mutant: Kite's zero for an index is passed through.
VolumeOfFeed(provider, row, counted) == IF provider = "deriv" THEN "null" ELSE counted

\* volume_of: what was not measured is null, and an index has no volume.
Volume(provider, row, counted) ==
    IF provider = "deriv" \/ (provider = "kite" /\ row.index) THEN "null" ELSE counted

\* get_historical_df: the provider, and the fallback when it has nothing.
History(symbol, exchange, span, interval, world) ==
    LET provider == ProviderFor(exchange, symbol)
        row == IF provider = "kite" /\ world.loaded THEN ResolveRow(world.dump, symbol, exchange, world.today) ELSE None
        asked == IF \/ provider = "kite" /\ row = None
                    \/ provider = "deriv" /\ symbol \notin Pairs
                    \/ ~world.up[provider] THEN <<>>
                 ELSE <<[from |-> provider, days |-> ClampDays(interval, span),
                         volume |-> Volume(provider, row, "counted")]>>
        fallback == IF ~world.up["yfinance"] \/ Ticker(symbol, exchange) \notin world.yahoo THEN <<>>
                    ELSE <<[from |-> "yfinance", days |-> ClampDays(interval, span), volume |-> "counted"]>>
    IN IF provider = "yfinance" \/ asked = <<>> THEN fallback ELSE asked

\* Mutant: whoever can be named is told that its market is closed.
EmptyHopeful(info, known, open) == IF ~open THEN "closed_market" ELSE IF ~known THEN "no_data" ELSE "vendor_error"

\* _empty_result: closed is said only of what is known to be listed.
Empty(info, known, open) ==
    IF ~known THEN "no_data" ELSE IF open THEN "vendor_error" ELSE "closed_market"

\* get_bars.
GetBars(symbol, hint, interval, days, world) ==
    LET info == Resolve(symbol, hint)
        span == LET most == Least(days, Reaches[info.provider][interval]) IN IF most < 1 THEN 1 ELSE most
        bars == History(symbol, info.exchange, span, interval, world)
        known == \/ info.listed
                 \/ /\ info.provider = "kite" /\ world.loaded
                    /\ ResolveRow(world.dump, symbol, info.exchange, world.today) # None
    IN IF info = None THEN [status |-> "unknown_symbol", bars |-> <<>>, told |-> 0]
       ELSE IF interval \notin Served[info.provider] THEN [status |-> "unsupported_interval", bars |-> <<>>, told |-> 0]
       ELSE [status |-> IF bars # <<>> THEN "ok" ELSE Empty(info, known, info.session \in world.open),
             bars |-> bars, told |-> IF span < days THEN span ELSE 0]

\* historical: the code of the answer over HTTP.
HttpCode(status) ==
    CASE status \in {"ok", "no_data", "closed_market"} -> 200
      [] status = "unsupported_interval" -> 400
      [] status = "unknown_symbol" -> 404
      [] status = "vendor_error" -> 503
-----------------------------------------------------------------------------
\* The venue of an answer is where the symbol lives: asked again with it,
\* or for ticks or a quote, or with the exchange the caller guessed, the same
\* vendor is asked.  Only a symbol that is no
\* pair, asked on FOREX, is asked of Deriv and answered by the fallback.
VenueIsTheSymbols(symbol, hint) ==
    LET info == Resolve(symbol, hint) IN
    info # None =>
        /\ Resolve(symbol, info.exchange) = info
        /\ symbol \in Pairs \/ hint # "FOREX" =>
            \A exchange \in {hint, info.exchange} :
                /\ ProviderFor(exchange, symbol) = info.provider
                /\ TicksFrom(exchange, symbol) = IF info.provider = "yfinance" THEN "poll" ELSE info.provider

\* A continuous symbol means the contract that is at its rank today: the day
\* after the front month expires the second takes its place, and no option and
\* no expired contract is ever meant, whatever exchange was asked.
FrontMonthRolls(dump, symbol, next, exchange, today) ==
    LET front == ResolveRow(dump, symbol, exchange, today)
        second == ResolveRow(dump, next, exchange, today)
    IN /\ front # None => /\ front.type = "FUT" /\ front.expiry >= today
                          /\ ContractSpec(dump, symbol, exchange, today) = front
       /\ second # None => /\ front # None /\ front.expiry < second.expiry
                           /\ ResolveRow(dump, symbol, exchange, front.expiry + 1) = second

\* When Kite fails, the fallback is asked for the same instrument: what it
\* calls a listed share, or an index it knows, is that row's own ticker.
FallbackIsTheSame(dump, symbol, exchange) ==
    LET row == ResolveRow(dump, symbol, exchange, 0) IN
    (row # None /\ exchange \in {"NSE", "BSE"} /\ symbol \notin DOMAIN Continuous
        /\ (row.index => row.symbol \in DOMAIN IndexTicker)) =>
            Ticker(symbol, exchange) = Listing(row)

\* An empty chart is explained, and "closed" and "broken" are said only of a
\* symbol that is listed, in the state its market is in: a typing error is not
\* a closed market, and a closed market is no error.
EmptyIsExplained(symbol, hint, interval, days, world) ==
    LET answer == GetBars(symbol, hint, interval, days, world)
        info == Resolve(symbol, hint)
        listed == symbol \in Pairs \/ (world.loaded /\ ResolveRow(world.dump, symbol, info.exchange, world.today) # None)
    IN /\ answer.status = "ok" <=> answer.bars # <<>>
       /\ answer.status \in {"closed_market", "vendor_error"} =>
            listed /\ (answer.status = "closed_market" <=> info.session \notin world.open)
       /\ symbol # "" => HttpCode(answer.status) # 404

\* A volume is a number where something was counted, whoever answered: no bar
\* of a pair or of an index carries a zero for it, unless the fallback gave it.
VolumeIsMeasured(symbol, hint, interval, days, world) ==
    LET bars == GetBars(symbol, hint, interval, days, world).bars IN
    (bars # <<>> /\ bars[1].from # "yfinance") =>
        (bars[1].volume = "null" <=> \/ symbol \in Pairs
                                     \/ ResolveRow(world.dump, symbol, Resolve(symbol, hint).exchange, world.today).index)
=============================================================================
