------------------------------ MODULE TradePlan ------------------------------
(***************************************************************************)
(* The trade the agent may propose (tools/trade_plan.py): an entry, a stop *)
(* and a target from volatility and levels, judged by the gates of the     *)
(* signal engine; and the number of shares it may name                     *)
(* (portfolio_tools.position_size).                                        *)
(*                                                                         *)
(* Prices are in thousandths of an ATR of Atr, so that the multiples of    *)
(* the code are whole numbers.  A panel has every indicator there is: the  *)
(* tool votes with all of them, the engine with the few of SignalSet.      *)
(***************************************************************************)
EXTENDS SignalPath

CONSTANTS
    Atr,                               \* 1000
    SignalSet,                         \* the indicators of SIGNAL_SET
    MinRisk, MaxRisk, MaxPosition      \* in hundredths of a percent of the account

Toward(direction, distance) == IF direction = "BUY" THEN distance ELSE -distance

\* The nearest of the levels on one side of a price, or the price itself.
Below(levels, price) == {l \in levels : l < price}
Above(levels, price) == {l \in levels : l > price}
Behind(direction, levels, price) == IF direction = "BUY" THEN Below(levels, price) ELSE Above(levels, price)
Ahead(direction, levels, price) == IF direction = "BUY" THEN Above(levels, price) ELSE Below(levels, price)
Nearest(levels, price) == CHOOSE l \in levels : \A k \in levels : Distance(l, price) <= Distance(k, price)
Farthest(levels, price) == CHOOSE l \in levels : \A k \in levels : Distance(l, price) >= Distance(k, price)

\* Mutant: a retest is bought before the level is reached.
EntryForInside(mode, direction, ltp, levels) ==
    LET behind == Behind(direction, levels, ltp) IN
    IF mode = "market" \/ behind = {} THEN ltp
    ELSE Nearest(behind, ltp) + (IF mode = "retest" THEN Toward(direction, Atr \div 10) ELSE 0)

\* _entry_for: the last price, the level behind it, or just through that level;
\* any mode but "market" is a pullback.
EntryFor(mode, direction, ltp, levels) ==
    LET behind == Behind(direction, levels, ltp) IN
    IF mode = "market" \/ behind = {} THEN ltp
    ELSE Nearest(behind, ltp) - (IF mode = "retest" THEN Toward(direction, Atr \div 10) ELSE 0)

\* 1.0 and 3.5 ATR, with a slack of two thousandths on the inner side.
Floor == (Atr * 1002) \div 1000
Ceiling == (Atr * 3500) \div 1002

\* Mutant: the nearer of the two.
StopNearer(direction, entry, levels) ==
    LET behind == Behind(direction, levels, entry)
        wanted == IF behind = {} THEN Floor
                  ELSE Min({Floor, Distance(entry, Nearest(behind, entry)) + (Atr * 15) \div 100})
    IN entry - Toward(direction, Min({wanted, Ceiling}))

\* The farther of an ATR floor and the level behind, no farther than the cap.
Stop(direction, entry, levels) ==
    LET behind == Behind(direction, levels, entry)
        wanted == IF behind = {} THEN Floor
                  ELSE Max({Floor, Distance(entry, Nearest(behind, entry)) + (Atr * 15) \div 100})
    IN entry - Toward(direction, Min({wanted, Ceiling}))

\* The levels worth aiming at are not those within 0.3 ATR.
Usable(direction, entry, levels) ==
    {l \in Ahead(direction, levels, entry) : 10 * Distance(l, entry) > 3 * Atr}

\* Mutant: the nearest one, worth it or not.
TargetNearest(direction, entry, stop, levels) ==
    LET usable == Usable(direction, entry, levels) IN
    IF usable # {} THEN Nearest(usable, entry) ELSE entry + 2 * (entry - stop)

\* The nearest level that pays for the risk, or else the farthest there is, or
\* twice the risk where there is none.
Target(direction, entry, stop, levels) ==
    LET usable == Usable(direction, entry, levels)
        worth == {l \in usable : 2 * Distance(l, entry) >= 3 * Distance(entry, stop)}
    IN IF worth # {} THEN Nearest(worth, entry)
       ELSE IF usable # {} THEN Farthest(usable, entry) ELSE entry + 2 * (entry - stop)

\* What _what_would_pass names, when the gate refuses a target.
TargetForMinRr(direction, entry, stop) ==
    entry + Toward(direction, (3 * Distance(entry, stop) + 1) \div 2)

\* Mutant: a stretched market is not asked about.
FailedUnstretched(direction, entry, target, stop, panel, rsi, ltp, atMarket) ==
    {g \in {"ordering", "drift", "confluence", "rsi", "reward", "stop"} :
        \/ g = "ordering" /\ ~PriceOrdering(direction, entry, target, stop)
        \/ g = "drift" /\ atMarket /\ ~EntryDrift(entry, ltp, Atr)
        \/ g = "confluence" /\ ~Confirms(direction, panel)
        \/ g = "reward" /\ ~RewardRisk(entry, target, stop)
        \/ g = "stop" /\ ~StopSize(entry, stop, Atr)}

\* The gates of _gates that refuse a trade; the entry's drift is a matter of an
\* order that goes in now.
Failed(direction, entry, target, stop, panel, rsi, ltp, atMarket) ==
    {g \in {"ordering", "drift", "confluence", "rsi", "reward", "stop"} :
        \/ g = "ordering" /\ ~PriceOrdering(direction, entry, target, stop)
        \/ g = "drift" /\ atMarket /\ ~EntryDrift(entry, ltp, Atr)
        \/ g = "confluence" /\ ~Confirms(direction, panel)
        \/ g = "rsi" /\ RsiExtreme(direction, rsi)
        \/ g = "reward" /\ ~RewardRisk(entry, target, stop)
        \/ g = "stop" /\ ~StopSize(entry, stop, Atr)}

\* propose_trade; a trader may ask for an entry, or leave it to the mode.
Propose(direction, ask, mode, ltp, levels, panel, rsi, option) ==
    LET entry == IF ask # Absent THEN ask ELSE EntryFor(mode, direction, ltp, levels)
        stop == Stop(direction, entry, levels)
        target == Target(direction, entry, stop, levels)
        failed == Failed(direction, entry, target, stop, panel, rsi, ltp, mode = "market" /\ ask = Absent)
    IN [entry |-> entry, stop |-> stop, target |-> target, failed |-> failed,
        verdict |-> IF option THEN "not_applicable"
                    ELSE IF failed = {} THEN "passes_every_gate" ELSE "rejected"]
-----------------------------------------------------------------------------
Clamp(low, x, high) == Max({low, Min({x, high})})

\* Mutant: the account may hold any part of itself in one share.
AllowedUnspread(account, cash, entry, risk, percent) ==
    Min({(account * Clamp(MinRisk, percent, MaxRisk)) \div (10000 * risk),
         IF entry > 0 THEN cash \div entry ELSE 0})

\* The tightest of what the risk, the cash and the concentration allow.
Allowed(account, cash, entry, risk, percent) ==
    Min({(account * Clamp(MinRisk, percent, MaxRisk)) \div (10000 * risk),
         IF entry > 0 THEN cash \div entry ELSE 0,
         IF entry > 0 THEN (account * MaxPosition) \div (10000 * entry) ELSE 0})

\* position_size: no number without a fresh and complete account.
PositionSize(pf, entry, stop, percent) ==
    LET account == IF pf.total \in {Absent, 0} THEN pf.initial ELSE pf.total IN
    IF entry = stop \/ pf.error \/ account = Absent \/ pf.cash = Absent \/ pf.stale THEN Absent
    ELSE Max({0, Allowed(account, pf.cash, entry, Distance(entry, stop), percent)})
-----------------------------------------------------------------------------
\* The tool never refuses what it computed itself: whatever the levels, its stop
\* is on the right side and sized as the gate wants it, and its target ahead.
OwnStopsPass(direction, ask, mode, ltp, levels, panel, rsi) ==
    LET p == Propose(direction, ask, mode, ltp, levels, panel, rsi, FALSE) IN
    p.failed \cap {"ordering", "stop", "drift"} = {}

\* A stop is not in the way of the noise about a level: no level it could have
\* hidden behind lies just beyond it, unless that one is past the cap.
StopsAreBehindLevels(direction, ask, mode, ltp, levels, panel, rsi) ==
    LET p == Propose(direction, ask, mode, ltp, levels, panel, rsi, FALSE)
        behind == Behind(direction, levels, p.entry)
    IN behind = {} \/ Distance(p.entry, p.stop) = Ceiling
        \/ Distance(p.entry, p.stop) >= Distance(p.entry, Nearest(behind, p.entry)) + (Atr * 15) \div 100

\* A refusal of a trade that risks a cent or more for its reward is one the
\* chart insists on: no level ahead would have paid, and the target that is
\* named instead would be let through.  Of a trade that risks less it is not:
\* the "target this setup needs to clear the reward:risk floor" does not clear
\* it, since the gate takes the risk for a whole cent and the target does not.
RefusalIsHonest(direction, ask, mode, ltp, levels, panel, rsi) ==
    LET p == Propose(direction, ask, mode, ltp, levels, panel, rsi, FALSE) IN
    "reward" \in p.failed =>
        LET worthACent == Distance(p.entry, p.stop) >= Cent IN
        /\ worthACent => \A l \in Usable(direction, p.entry, levels) : ~RewardRisk(p.entry, l, p.stop)
        /\ RewardRisk(p.entry, TargetForMinRr(direction, p.entry, p.stop), p.stop) = worthACent

\* What the engine would say of the tool's long at the market.
EnginePanel(panel) == [i \in DOMAIN panel |-> IF i \in SignalSet THEN panel[i] ELSE "absent"]
EngineSays(p, ltp, panel, rsi) ==
    Validate([direction |-> "BUY", entry |-> p.entry, target |-> p.target, stop |-> p.stop],
             EnginePanel(panel), rsi, Atr, ltp)

\* "A chat answer that disagreed with the engine on the same instrument would be
\* the real bug": of a long at the market the two disagree about nothing but what
\* their panels confirm.  What the engine lets through the tool refuses for that
\* alone, and the other way round.
SameButForThePanel(ltp, levels, panel, rsi) ==
    LET p == Propose("BUY", Absent, "market", ltp, levels, panel, rsi, FALSE)
        says == EngineSays(p, ltp, panel, rsi)
    IN /\ p.verdict = "passes_every_gate" => says \in {"ok", "confluence"}
       /\ says = "ok" => p.failed \subseteq {"confluence"}
       /\ Confirms("BUY", panel) = Confirms("BUY", EnginePanel(panel)) =>
              (p.verdict = "passes_every_gate") = (says = "ok")

\* Waiting never costs: the entry a pullback is offered at is no worse than the
\* last price, and what was crossed to get there is not aimed at.
PullbacksAreBetter(direction, mode, ltp, levels, panel, rsi) ==
    LET p == Propose(direction, Absent, mode, ltp, levels, panel, rsi, FALSE) IN
    /\ Toward(direction, ltp - p.entry) >= 0
    /\ 10 * Distance(p.entry, p.target) > 3 * Atr

\* A size is paid for by the account three times over, in risk, in cash and in
\* concentration, and one share more would not be.
SizeIsTheLimit(pf, entry, stop, percent) ==
    LET n == PositionSize(pf, entry, stop, percent)
        account == IF pf.total \in {Absent, 0} THEN pf.initial ELSE pf.total
        Fits(k) == /\ 10000 * k * Distance(entry, stop) <= account * Clamp(MinRisk, percent, MaxRisk)
                   /\ k * entry <= pf.cash /\ 10000 * k * entry <= account * MaxPosition
    IN n = Absent \/ (/\ n > 0 => Fits(n) /\ ~pf.stale /\ ~pf.error
                      /\ entry > 0 => ~Fits(n + 1))
=============================================================================
