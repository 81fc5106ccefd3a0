----------------------------- MODULE MarketHours -----------------------------
(***************************************************************************)
(* When a market is open: the weekly windows of app/market/sessions.py and *)
(* the exchange's own calendar, app/market/calendar.py.                    *)
(*                                                                         *)
(* A moment is a number of ticks since a Monday's midnight, in the zone of *)
(* the session it is asked of; a window is a record of the ticks of the    *)
(* week it opens and closes at.  Changes of daylight saving are left out:  *)
(* the code compares wall clocks.                                          *)
(***************************************************************************)
EXTENDS Integers, FiniteSetsExt

CONSTANTS
    Day,                       \* ticks of a day
    Opens, SquaresOff, Closes, \* of the exchange, ticks of a day
    Attempts,                  \* _MAX_NEXT_OPEN_CANDIDATES
    Horizon                    \* days the calendar looks ahead

Week == 7 * Day
WeekDay(m) == (m \div Day) % 7
Unknown == -1
-----------------------------------------------------------------------------
\* Mutant: a window that runs over the end of the week is not seen as one.
CoversPlain(w, m) == w.opens <= (m % Week) /\ (m % Week) < w.closes

\* Window.contains; the first tick is of it, the last is not.
Covers(w, m) ==
    IF w.opens <= w.closes THEN w.opens <= (m % Week) /\ (m % Week) < w.closes
    ELSE w.opens <= (m % Week) \/ (m % Week) < w.closes

NextStart(w, m) ==
    LET ahead == ((w.opens \div Day) - WeekDay(m)) % 7
        start == (m - (m % Day)) + ahead * Day + (w.opens % Day)
    IN IF start <= m THEN start + Week ELSE start

IsOpen(session, m) ==
    /\ m \div Day \notin session.holidays
    /\ \E w \in session.windows : Covers(w, m)

\* Mutant: a holiday's window is passed over for the week after it.
NextOpenOnce(session, m) ==
    LET starts == {NextStart(w, m) : w \in session.windows}
        worked == {s \in starts : s \div Day \notin session.holidays}
    IN IF worked = {} THEN Unknown ELSE Min(worked)

\* One candidate of the loop: the soonest, or its window's next week.
Look(session, acc) ==
    LET soonest == Min(acc.starts) IN
    IF acc.found # Unknown THEN acc
    ELSE IF soonest \div Day \notin session.holidays THEN [acc EXCEPT !.found = soonest]
    ELSE [acc EXCEPT !.starts = (@ \ {soonest}) \cup {soonest + Week}]

\* SessionSpec.next_open: windows in the order they open, a holiday's again a
\* week later, so many times.
Looked(session, m) ==
    LET look[n \in 0..Attempts] ==
            IF n = 0 THEN [starts |-> {NextStart(w, m) : w \in session.windows}, found |-> Unknown]
            ELSE Look(session, look[n - 1])
    IN look
NextOpen(session, m) == Looked(session, m)[Attempts].found

Windows(first, last, from, until) == {[opens |-> d * Day + from, closes |-> d * Day + until] : d \in first..last}
FX == [windows |-> {[opens |-> 6 * Day + SquaresOff, closes |-> 4 * Day + SquaresOff]}, holidays |-> {}]
NSE(holidays) == [windows |-> Windows(0, 4, Opens, Closes), holidays |-> holidays]
AlwaysOpen == [windows |-> {[opens |-> d * Day, closes |-> ((d + 1) % 7) * Day] : d \in 0..6}, holidays |-> {}]
-----------------------------------------------------------------------------
\* The calendar's own account of the same exchange.
IsTradingDay(day, holidays) == (day % 7) < 5 /\ day \notin holidays
IsMarketOpen(m, holidays) == IsTradingDay(m \div Day, holidays) /\ (m % Day) \in Opens..Closes
IsSquareOff(m, holidays) == IsTradingDay(m \div Day, holidays) /\ (m % Day) \in SquaresOff..Closes

\* Mutant: on a trading day the next session is looked for from the next day.
NextSessionTomorrow(m, holidays) ==
    LET days == {d \in (m \div Day + 1)..(m \div Day + Horizon) : IsTradingDay(d, holidays)} IN
    IF days = {} THEN Unknown ELSE Min(days) * Day + Opens

\* next_open: today only when its session has not begun.
NextSession(m, holidays) ==
    LET today == m \div Day
        first == IF IsTradingDay(today, holidays) /\ (m % Day) < Opens THEN today ELSE today + 1
        days == {d \in first..(first + Horizon - 1) : IsTradingDay(d, holidays)}
    IN IF days = {} THEN Unknown ELSE Min(days) * Day + Opens
-----------------------------------------------------------------------------
\* "Closed until" names the moment the market really opens: it is open then,
\* and no session begins before it; none is named only if none
\* comes for two weeks.
NextOpenIsTheNext(session, m) ==
    LET opens == NextOpen(session, m) IN
    IF opens = Unknown
    THEN \A t \in (m + 1)..(m + 2 * Week) : IsOpen(session, t) => IsOpen(session, t - 1)
    ELSE /\ opens > m /\ IsOpen(session, opens)
         /\ \A t \in (m + 1)..(opens - 1) : IsOpen(session, t) => IsOpen(session, t - 1)

\* A chart and an order are told one thing of the exchange: its session and its
\* calendar agree on every moment but the closing bell's, and on the next open
\* that both of them look far enough to see.
TwoCalendarsAgree(m, holidays) ==
    /\ (m % Day) # Closes => (IsOpen(NSE(holidays), m) <=> IsMarketOpen(m, holidays))
    /\ Unknown \in {NextOpen(NSE(holidays), m), NextSession(m, holidays)}
       \/ NextOpen(NSE(holidays), m) = NextSession(m, holidays)

\* Where nothing is known of a venue it is never said to be closed, and forex
\* is closed for the weekend alone: once a week, from its Friday to its Sunday.
ClosedIsEarned(m) ==
    /\ IsOpen(AlwaysOpen, m)
    /\ ~IsOpen(FX, m) <=> (m % Week) \in (4 * Day + SquaresOff)..(6 * Day + SquaresOff - 1)
=============================================================================
