---------------------------- MODULE DerivHistory ----------------------------
(***************************************************************************)
(* History from Deriv: walk_back (app/market/paging.py) fetches the        *)
(* windows of a range concurrently, each one a request over the shared     *)
(* connection (fetch_page in deriv_provider.py over DerivSocket).  Window  *)
(* 0 ends now, window i ends where window i - 1 begins.                    *)
(***************************************************************************)
EXTENDS DerivSocket

LOCAL INSTANCE FiniteSetsExt

CONSTANTS
    MaxPages,        \* max_pages
    MaxConcurrency,  \* max_concurrency
    Span,            \* the range asked for, in the unit of Window
    PageSpan         \* what one window covers

ASSUME WalkAssumption ==
    /\ {MaxPages, MaxConcurrency, PageSpan} \subseteq Nat \ {0}
    /\ Span \in Nat
    /\ Caller = 0..(MaxPages - 1)

Window == 0..(MaxPages - 1)

VARIABLES
    stage,      \* where walk_back is
    answers     \* what the vendor answered to every window: see Answer

histVars == <<sock, stage, answers>>

\* Deriv may answer with an error of its own, which fetch_page returns as None.
Answer == {"none yet", "bars", "empty", "refused"}

HistTypeOK ==
    /\ SocketTypeOK
    /\ stage \in {"planned", "older", "done", "cancelled"}
    /\ answers \in [Window -> Answer]

HistInit ==
    /\ SocketInit
    /\ stage = "planned"
    /\ answers = [i \in Window |-> "none yet"]

\* Mutant: rounded down.
PlannedFloor == Min({MaxPages, Max({1, Span \div PageSpan})})

\* min(max_pages, max(1, ceil(span / window))).
Planned == Min({MaxPages, Max({1, (Span + PageSpan - 1) \div PageSpan})})

\* The windows of the pass under way.
Batch == IF stage = "planned" THEN 0..(Planned - 1)
         ELSE IF stage = "older" THEN Planned..(MaxPages - 1) ELSE {}

Asked == {i \in Window : pc[i] # "idle"}
Fetched(i) == pc[i] = "answered" /\ answers[i] # "refused"
Frames == {i \in Window : pc[i] = "answered" /\ answers[i] = "bars"}

\* vendor_failed: a window that raised, or that the vendor refused.
VendorFailed == \E i \in Asked : ~Fetched(i)
-----------------------------------------------------------------------------
\* The next window gets its turn with the semaphore of _fetch_windows.
Fetch(i) ==
    /\ i \in Batch
    /\ \A j \in Batch : j < i => pc[j] # "idle"
    /\ Cardinality({j \in Batch : pc[j] \in Suspended}) < MaxConcurrency
    /\ Request(i)
    /\ UNCHANGED <<stage, answers>>

\* The answer to a window: its bars, or an error.
Answered(w) ==
    /\ Reply(w)
    /\ \E i \in asked[w] \ asked'[w], a \in Answer \ {"none yet"} :
        answers' = [answers EXCEPT ![i] = a]
    /\ UNCHANGED stage

\* Mutant: one window that raises sinks the whole gather, and nobody hears.
EndBatchOfWhole ==
    /\ Batch # {} /\ \A i \in Batch : pc[i] = "answered"
    /\ stage' = IF stage = "planned" /\ Frames = {} /\ Planned < MaxPages
                THEN "older" ELSE "done"
    /\ UNCHANGED <<sock, answers>>

\* Mutant: a stage nobody knows.
EndBatchUnnamed ==
    /\ Batch # {} /\ \A i \in Batch : pc[i] \in Over
    /\ stage' = "over"
    /\ UNCHANGED <<sock, answers>>

\* gather is through.  Nothing at all, and pages to spare: reach further back.
EndBatch ==
    /\ Batch # {} /\ \A i \in Batch : pc[i] \in Over
    /\ stage' = IF stage = "planned" /\ Frames = {} /\ Planned < MaxPages
                THEN "older" ELSE "done"
    /\ UNCHANGED <<sock, answers>>

\* The caller of walk_back is cancelled, and gather cancels the windows, each of
\* which learns of it when it is resumed.
CancelWalk ==
    /\ stage \in {"planned", "older"}
    /\ stage' = "cancelled"
    /\ UNCHANGED <<sock, answers>>

Elsewhere == UNCHANGED <<stage, answers>>

WindowRuns(c) == (IF stage = "cancelled" THEN Cancel(c) ELSE Step(c)) /\ Elsewhere

OtherLine(w) == Deliver(w) \/ ReaderBreaks(w) \/ ReaderEnds(w) \/ Drop(w)

HistNext ==
    \/ \E i \in Window : Fetch(i)
    \/ EndBatch \/ CancelWalk
    \/ \E w \in Conn : Answered(w)
    \/ \E w \in Conn : OtherLine(w) /\ Elsewhere
    \/ \E c \in Caller : WindowRuns(c)

(* Coroutines are resumed: connecting and waiting are bounded by timeouts.  *)
HistSpec ==
    /\ HistInit /\ [][HistNext]_histVars
    /\ \A c \in Caller : WF_histVars(WindowRuns(c))
    /\ \A i \in Window : WF_histVars(Fetch(i))
    /\ WF_histVars(EndBatch)
-----------------------------------------------------------------------------
\* A walk that does not report a failure of the vendor has what the market
\* printed: every window of the span was answered, with bars or with none, and
\* it comes back empty-handed only from a market that was closed as far back as
\* max_pages reach.
HonestWalk ==
    stage = "done" /\ ~VendorFailed =>
        /\ \A i \in Window : i * PageSpan < Span => answers[i] \in {"bars", "empty"}
        /\ Frames = {} => \A i \in Window : answers[i] = "empty"

\* The walk comes back, whatever the line does.
WalkEnds == <>(stage \in {"done", "cancelled"})

\* The one connection is sound: nothing is left in its table, nobody opens a
\* second one, and a break is heard by all who wait.
LineIsSound == HistTypeOK /\ NothingLeftPending /\ OneConnection /\ DropsAreHeard
=============================================================================
