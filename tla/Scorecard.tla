----------------------------- MODULE Scorecard -----------------------------
(***************************************************************************)
(* The scorecard (app/signals/scorecard.py) and its daily sweep            *)
(* (run_scorecard in app/events/job.py): proposed trades recorded in       *)
(* Redis, walked forward over the bars that came since, and closed with a  *)
(* verdict.  One action per Redis command of record() and close(), since   *)
(* the process may die between any two of them.                            *)
(*                                                                         *)
(* A bar is reduced to what settle() asks of it: whether its range reaches *)
(* the entry, the stop and the target.  The stop lies beyond the entry on  *)
(* either side of the market, so a bar that reaches it reaches the entry.  *)
(* The last bar is still forming: its range widens until the next begins,  *)
(* and the sweep judges by it as it finds it.                              *)
(***************************************************************************)
EXTENDS Naturals, Sequences

LOCAL INSTANCE FiniteSetsExt

CONSTANTS
    Trade,        \* trade ids
    MaxBars,      \* MAX_BARS, the window
    OpenLimit,    \* open_trades(limit)
    MaxClosed,    \* MAX_CLOSED
    Bar,          \* the bars the market may print after each proposal
    MaxLen,       \* bound: bars that follow each proposal
    MaxCrashes    \* bound: how often the process dies

ASSUME BoundAssumption ==
    /\ MaxBars \in Nat \ {0} /\ MaxCrashes \in Nat
    /\ MaxLen \in [Trade -> Nat]
    /\ OpenLimit \in Nat \ {0} /\ MaxClosed \in Nat \ {0}

AnyBar == {b \in [entry : BOOLEAN, stop : BOOLEAN, target : BOOLEAN] : b.stop => b.entry}
ASSUME BarAssumption == Bar \in [Trade -> SUBSET AnyBar]

Order == {"market", "limit"}
Final == {"target", "stop", "expired", "unfilled"}
NoTrade == "none"

VARIABLES
    records,     \* status in the RECORD_PREFIX key, "absent" without one
    order,       \* order type a trade was proposed with
    openSet,     \* OPEN_KEY, oldest first
    closed,      \* CLOSED_KEY: [trade, status], newest first
    bars,        \* the bars since each proposal
    recording,   \* trades whose record() is between SET and ZADD
    stage,       \* what the sweep does next
    pending,     \* the proposals the sweep has still to look at
    verdict,     \* the status the sweep is writing
    looked,      \* the bars it was given for it
    judged,      \* history: the bars behind the verdict of a record
    passed,      \* history: trades a sweep left open past the end of their window
    crashes,     \* how often the process died
    interrupted  \* history: trades it was recording or closing when it died

scoreVars == <<records, order, openSet, closed, bars, recording, stage, pending, verdict,
               looked, judged, passed, crashes, interrupted>>

history == <<judged, crashes, interrupted>>

Stages == {"idle", "walk", "set", "zrem", "lpush", "ltrim"}

ScoreTypeOK ==
    /\ records \in [Trade -> {"absent", "open"} \cup Final]
    /\ order \in [Trade -> Order \cup {NoTrade}]
    /\ openSet \in Seq(Trade) /\ pending \in Seq(Trade)
    /\ closed \in Seq([trade : Trade, status : Final])
    /\ bars \in [Trade -> Seq(AnyBar)]
    /\ recording \subseteq Trade /\ passed \subseteq Trade /\ interrupted \subseteq Trade
    /\ crashes \in 0..MaxCrashes
    /\ stage \in Stages
    /\ verdict \in Final \cup {NoTrade}
    /\ looked \in Nat /\ judged \in [Trade -> Nat]

ScoreInit ==
    /\ records = [t \in Trade |-> "absent"]
    /\ order = [t \in Trade |-> NoTrade]
    /\ openSet = <<>> /\ closed = <<>> /\ pending = <<>>
    /\ bars = [t \in Trade |-> <<>>]
    /\ recording = {} /\ passed = {} /\ crashes = 0 /\ interrupted = {}
    /\ stage = "idle" /\ verdict = NoTrade
    /\ looked = 0 /\ judged = [t \in Trade |-> 0]

-----------------------------------------------------------------------------

\* Mutant: the window never closes.
WindowWhole(b) == b

\* The first MAX_BARS bars.
Window(b) == SubSeq(b, 1, Min({Len(b), MaxBars}))

\* Mutant: the target before the stop.
SettleTargetFirst(o, b) ==
    LET w       == Window(b)
        reached == {i \in DOMAIN w : w[i].entry}
        fill    == IF o = "market" THEN 0 ELSE Min(reached)
        ends    == {i \in DOMAIN w : i > fill /\ (w[i].stop \/ w[i].target)}
        before  == IF o = "market" THEN 0 ELSE fill - 1
    IN  IF o # "market" /\ reached = {} THEN [status |-> "unfilled", held |-> Len(w)]
        ELSE IF ends = {} THEN [status |-> "expired", held |-> Len(w) - before]
        ELSE LET i == Min(ends) IN
             [status |-> IF w[i].target THEN "target" ELSE "stop",
              held   |-> i - 1 - before]

\* settle(): a limit order is filled by the first bar that reaches its entry
\* and judged from the next one; the first bar that reaches an end decides,
\* the stop before the target.  `held` counts from the bar of the fill.
Settle(o, b) ==
    LET w       == Window(b)
        reached == {i \in DOMAIN w : w[i].entry}
        filled  == o = "market" \/ reached # {}
        fill    == IF o = "market" THEN 0 ELSE Min(reached)
        ends    == {i \in DOMAIN w : i > fill /\ (w[i].stop \/ w[i].target)}
        before  == IF o = "market" THEN 0 ELSE fill - 1
    IN  IF ~filled THEN [status |-> "unfilled", held |-> Len(w)]
        ELSE IF ends = {} THEN [status |-> "expired", held |-> Len(w) - before]
        ELSE LET i == Min(ends) IN
             [status |-> IF w[i].stop THEN "stop" ELSE "target",
              held   |-> i - 1 - before]

\* One bar of the loop as it is written: it fills the order, decides, or neither.
WalkBar(s, bar, i) ==
    IF s.status # NoTrade THEN s
    ELSE IF ~s.filled THEN
        IF bar.entry THEN [filled |-> TRUE, at |-> i - 1, status |-> NoTrade, held |-> 0] ELSE s
    ELSE IF bar.stop \/ bar.target THEN
        [filled |-> TRUE, at |-> s.at, status |-> IF bar.stop THEN "stop" ELSE "target",
         held |-> i - 1 - s.at]
    ELSE s

\* What it has after every bar of the window: whether the order is filled and at
\* which bar, counted from zero, and a verdict once there is one.
Walk(o, w) ==
    LET walk[i \in 0..Len(w)] ==
            IF i = 0 THEN [filled |-> o = "market", at |-> 0, status |-> NoTrade, held |-> 0]
            ELSE WalkBar(walk[i - 1], w[i], i)
    IN  walk

SettleLoop(o, b) ==
    LET w == Window(b)  s == Walk(o, w)[Len(w)] IN
    IF s.status # NoTrade THEN [status |-> s.status, held |-> s.held]
    ELSE IF ~s.filled THEN [status |-> "unfilled", held |-> Len(w)]
    ELSE [status |-> "expired", held |-> Len(w) - s.at]

\* Mutant: one bar too late.
StillOpenLonger(v) == v.status = "expired" /\ v.held <= MaxBars

\* Mutant: one bar too early.
StillOpenShorter(v) == v.status = "expired" /\ v.held < MaxBars - 1

\* run_scorecard: an expired verdict inside the window leaves the trade open.
StillOpen(v) == v.status = "expired" /\ v.held < MaxBars

-----------------------------------------------------------------------------
\* record(): SET NX, then ZADD.  The id holds the minute and the price, so a
\* trade proposed again under it meets its own record and nothing changes.
Propose(t) ==
    /\ records[t] = "absent" /\ order[t] = NoTrade
    /\ \E o \in Order : order' = [order EXCEPT ![t] = o]
    /\ records' = [records EXCEPT ![t] = "open"]
    /\ recording' = recording \cup {t}
    /\ UNCHANGED <<openSet, closed, bars, stage, pending, verdict, looked, passed, history>>

Enqueue(t) ==
    /\ t \in recording
    /\ openSet' = Append(openSet, t)
    /\ recording' = recording \ {t}
    /\ UNCHANGED <<records, order, closed, bars, stage, pending, verdict, looked, passed, history>>

\* The market moves on: the next bar begins and the last one is finished, ...
NewBar(t) ==
    /\ order[t] # NoTrade /\ Len(bars[t]) < MaxLen[t]
    /\ \E b \in Bar[t] : bars' = [bars EXCEPT ![t] = Append(@, b)]
    /\ UNCHANGED <<records, order, openSet, closed, recording, stage, pending, verdict, looked, passed, history>>

\* ... or the one that is forming reaches more.
Widens(b, c) == (b.entry => c.entry) /\ (b.stop => c.stop) /\ (b.target => c.target)
WidenBar(t) ==
    /\ bars[t] # <<>>
    /\ LET n == Len(bars[t]) IN
       \E b \in Bar[t] : /\ b # bars[t][n] /\ Widens(bars[t][n], b)
                        /\ bars' = [bars EXCEPT ![t] = [@ EXCEPT ![n] = b]]
    /\ UNCHANGED <<records, order, openSet, closed, recording, stage, pending, verdict, looked, passed, history>>

\* open_trades() reads the oldest of the queue, no further.
InReach(t) == \E i \in DOMAIN openSet : i <= OpenLimit /\ openSet[i] = t

\* RECORD_TTL_SECONDS is up for a trade still open.  The TTL outlives the window
\* "by a wide margin": a sweep has looked at all of it, or never came to the trade
\* behind those it looked at all of and left open.
ExpireRecord(t) ==
    /\ records[t] = "open" /\ Len(bars[t]) >= MaxBars /\ t \notin recording
    /\ \/ t \in passed
       \/ ~InReach(t) /\ \A u \in Trade : InReach(u) => u \in passed
    /\ \A i \in DOMAIN pending : pending[i] # t
    /\ records' = [records EXCEPT ![t] = "absent"]
    /\ UNCHANGED <<order, openSet, closed, bars, recording, stage, pending, verdict, looked, passed, history>>

\* A queue without some of its trades: SelectSeq, spelled out to be reasoned about.
Without(queue, gone) ==
    LET kept[i \in 0..Len(queue)] ==
            IF i = 0 THEN <<>>
            ELSE IF queue[i] \in gone THEN kept[i - 1] ELSE Append(kept[i - 1], queue[i])
    IN  kept[Len(queue)]

\* Mutant: it reads the newest.
StartSweepNewest ==
    /\ stage = "idle"
    /\ LET newest == SubSeq(openSet, Len(openSet) - Min({Len(openSet), OpenLimit}) + 1, Len(openSet))
           ghosts == {newest[i] : i \in {j \in DOMAIN newest : records[newest[j]] = "absent"}}
       IN  /\ pending' = Without(newest, ghosts)
           /\ openSet' = Without(openSet, ghosts)
    /\ stage' = "walk"
    /\ UNCHANGED <<records, order, closed, bars, recording, verdict, looked, passed, history>>

\* The sweep starts: open_trades() reads the oldest ids and drops the ghosts.
StartSweep ==
    /\ stage = "idle"
    /\ LET oldest == SubSeq(openSet, 1, Min({Len(openSet), OpenLimit}))
           ghosts == {oldest[i] : i \in {j \in DOMAIN oldest : records[oldest[j]] = "absent"}}
       IN  /\ pending' = Without(oldest, ghosts)
           /\ openSet' = Without(openSet, ghosts)
    /\ stage' = "walk"
    /\ UNCHANGED <<records, order, closed, bars, recording, verdict, looked, passed, history>>

\* One proposal: no bars to judge it by, ...
Skip ==
    /\ stage = "walk" /\ pending # <<>>
    /\ pending' = Tail(pending)
    /\ UNCHANGED <<records, order, openSet, closed, bars, recording, stage, verdict, looked, passed, history>>

\* ... or bars, and settle() leaves it open or says how it ended.
Judge ==
    /\ stage = "walk" /\ pending # <<>>
    /\ LET t == Head(pending)  v == Settle(order[t], bars[t]) IN
       /\ bars[t] # <<>>
       /\ IF StillOpen(v)
          THEN /\ pending' = Tail(pending)
               /\ passed' = IF Len(bars[t]) > MaxBars THEN passed \cup {t} ELSE passed
               /\ UNCHANGED <<stage, verdict, looked>>
          ELSE /\ stage' = "set"
               /\ verdict' = v.status /\ looked' = Len(bars[t])
               /\ UNCHANGED <<pending, passed>>
    /\ UNCHANGED <<records, order, openSet, closed, bars, recording, history>>

EndSweep ==
    /\ stage = "walk" /\ pending = <<>>
    /\ stage' = "idle"
    /\ UNCHANGED <<records, order, openSet, closed, bars, recording, pending, verdict, looked, passed, history>>

\* Mutant: the record says that it is closed, not how.
CloseSetPlain ==
    /\ stage = "set"
    /\ records' = [records EXCEPT ![Head(pending)] = "closed"]
    /\ judged' = [judged EXCEPT ![Head(pending)] = looked]
    /\ stage' = "zrem"
    /\ UNCHANGED <<order, openSet, closed, bars, recording, pending, verdict, looked, passed, crashes, interrupted>>

\* close(): SET, ZREM, LPUSH, LTRIM.
CloseSet ==
    /\ stage = "set"
    /\ records' = [records EXCEPT ![Head(pending)] = verdict]
    /\ judged' = [judged EXCEPT ![Head(pending)] = looked]
    /\ stage' = "zrem"
    /\ UNCHANGED <<order, openSet, closed, bars, recording, pending, verdict, looked, passed, crashes, interrupted>>

\* Mutant: a closed trade stays in the queue.
CloseZremNothing ==
    /\ stage = "zrem"
    /\ stage' = "lpush"
    /\ UNCHANGED <<records, order, openSet, closed, bars, recording, pending, verdict, looked, passed, history>>

CloseZrem ==
    /\ stage = "zrem"
    /\ openSet' = Without(openSet, {Head(pending)})
    /\ stage' = "lpush"
    /\ UNCHANGED <<records, order, closed, bars, recording, pending, verdict, looked, passed, history>>

ClosePush ==
    /\ stage = "lpush"
    /\ closed' = <<[trade |-> Head(pending), status |-> verdict]>> \o closed
    /\ stage' = "ltrim"
    /\ UNCHANGED <<records, order, openSet, bars, recording, pending, verdict, looked, passed, history>>

\* Mutant: LTRIM's inclusive end taken for an exclusive one.
CloseTrimShort ==
    /\ stage = "ltrim"
    /\ closed' = SubSeq(closed, 1, Min({Len(closed), MaxClosed - 1}))
    /\ stage' = "walk" /\ pending' = Tail(pending) /\ verdict' = NoTrade
    /\ UNCHANGED <<records, order, openSet, bars, recording, looked, passed, history>>

CloseTrim ==
    /\ stage = "ltrim"
    /\ closed' = SubSeq(closed, 1, Min({Len(closed), MaxClosed}))
    /\ stage' = "walk" /\ pending' = Tail(pending) /\ verdict' = NoTrade
    /\ UNCHANGED <<records, order, openSet, bars, recording, looked, passed, history>>

Closing(t) == stage \in {"set", "zrem", "lpush", "ltrim"} /\ Head(pending) = t

\* The process dies, or Redis refuses a command: the sweep and every record()
\* under way end where they are.
Crash ==
    /\ crashes < MaxCrashes
    /\ stage # "idle" \/ recording # {}
    /\ crashes' = crashes + 1
    /\ interrupted' = interrupted \cup recording \cup {t \in Trade : Closing(t)}
    /\ stage' = "idle" /\ pending' = <<>> /\ verdict' = NoTrade
    /\ recording' = {}
    /\ UNCHANGED <<records, order, openSet, closed, bars, looked, judged, passed>>

Close == CloseSet \/ CloseZrem \/ ClosePush \/ CloseTrim

ScoreNext ==
    \/ \E t \in Trade : Propose(t) \/ Enqueue(t) \/ NewBar(t) \/ WidenBar(t) \/ ExpireRecord(t)
    \/ StartSweep \/ Skip \/ Judge \/ EndSweep \/ Close \/ Crash

ScoreSpec == ScoreInit /\ [][ScoreNext]_scoreVars

(* The sweep runs daily and goes on to its end; a feed that fails now and   *)
(* then does not fail for a given proposal for ever; bars keep coming.      *)
Fairness ==
    /\ WF_scoreVars(StartSweep) /\ WF_scoreVars(Close) /\ WF_scoreVars(EndSweep)
    /\ WF_scoreVars(Skip \/ Judge)
    /\ \A t \in Trade :
          /\ WF_scoreVars(Enqueue(t)) /\ WF_scoreVars(NewBar(t))
          /\ SF_scoreVars(Judge /\ Head(pending) = t)

FairSpec == ScoreSpec /\ Fairness
-----------------------------------------------------------------------------
InClosed(t) == {i \in DOMAIN closed : closed[i].trade = t}

\* settle() decides what its definition by first bars says, on every path of
\* bars and for either order type.
SettleAgrees ==
    \A t \in Trade : order[t] # NoTrade /\ bars[t] # <<>> =>
        Settle(order[t], bars[t]) = SettleLoop(order[t], bars[t])

\* A verdict depends on the day of its sweep in two ways only.  Judged again with
\* the bars that came since, the trade ends the same way, unless the bar that was
\* still forming decides it, when no finished bar did, and has reached more than the
\* sweep saw; or it was closed as unfilled while its window was open, and a later
\* bar of it, or the one that was forming, fills it after all.  Stopped out is
\* stopped out, and past the window every verdict is final.
VerdictStands ==
    \A t \in Trade : records[t] \in Final =>
        LET upTo(n) == Settle(order[t], SubSeq(bars[t], 1, n)).status IN
        \/ Settle(order[t], bars[t]).status = records[t]
        \/ /\ judged[t] <= MaxBars
           /\ \/ /\ records[t] \in {"target", "expired"}
                 /\ upTo(judged[t] - 1) \notin {"stop", "target"}
                 /\ upTo(judged[t]) \in {"stop", "target"}
              \/ records[t] = "unfilled" /\ upTo(judged[t] - 1) = "unfilled"

\* "The window closes" (scorecard.py:19), but for one kind of trade: what a sweep
\* has seen all of and leaves open is a limit order that its first bar did not fill,
\* which can never have been held for the whole window.
OnlyLateFillsStay ==
    \A t \in passed : order[t] = "limit" /\ ~bars[t][1].entry

\* No trade is counted twice, wherever the process died while closing it.
CountedOnce ==
    \A i, j \in DOMAIN closed : closed[i].trade = closed[j].trade => i = j

\* A closed trade is in the tally, with the verdict of its record, until the
\* tally is full without it, and out of the queue: a crash costs at most the
\* trades it found half recorded or half closed, whatever else the sweep had
\* before it.
SettledIsCounted ==
    \A t \in Trade : records[t] \in Final /\ ~Closing(t) /\ t \notin interrupted =>
        /\ \/ \E i \in InClosed(t) : closed[i].status = records[t]
           \/ InClosed(t) = {} /\ Len(closed) >= MaxClosed
        /\ \A i \in DOMAIN openSet : openSet[i] # t

\* Past the end of the sweep's reach, behind nothing but trades it has left open
\* past their window.
Starved(t) ==
    /\ \E i \in DOMAIN openSet : openSet[i] = t /\ ~InReach(t)
    /\ \A u \in Trade : InReach(u) => u \in passed

\* "Walk every open proposal forward" (job.py:196): a market order is judged once
\* its window is there, wherever it stands in the queue and whatever crashes cut
\* earlier sweeps, unless trades that never close fill the sweep's whole reach.
MarketOrdersClose ==
    \A t \in Trade :
        order[t] = "market" /\ records[t] = "open"
            ~> records[t] \in Final \/ t \in interrupted \/ Starved(t)

\* Settling is right on every path of bars, whenever the sweep comes to it.
VerdictsAreSound == ScoreTypeOK /\ SettleAgrees /\ VerdictStands /\ OnlyLateFillsStay

\* The tally has every settled trade, and has it once, wherever the process died.
TallyIsSound == CountedOnce /\ SettledIsCounted
=============================================================================
