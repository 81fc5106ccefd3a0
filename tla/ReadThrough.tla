---------------------------- MODULE ReadThrough ----------------------------
(***************************************************************************)
(* What the market-data cache promises for one key: the answer and the     *)
(* remembered failure a caller may find, and a download under way, begun   *)
(* only when there is neither, which is the only one as long as no request *)
(* was cut short.  No locks, no callers.                                   *)
(***************************************************************************)
VARIABLES
    answer,     \* a value is cached
    failure,    \* a failure is remembered
    inFlight,   \* a download of the key is under way
    disturbed   \* a request was cancelled, or a provider raised

vars == <<answer, failure, inFlight, disturbed>>

Init ==
    /\ answer = FALSE /\ failure = FALSE
    /\ inFlight = FALSE /\ disturbed = FALSE

Begin ==
    /\ ~inFlight /\ ~answer /\ ~failure
    /\ inFlight' = TRUE
    /\ UNCHANGED <<answer, failure, disturbed>>

\* A download ends in an answer or in a failure, and with it all that is under
\* way, unless a request was cut short before.
Land ==
    /\ inFlight /\ (inFlight' => disturbed)
    /\ inFlight' \in BOOLEAN
    /\ \/ answer' = TRUE /\ failure' = FALSE
       \/ failure' = TRUE /\ UNCHANGED answer
    /\ UNCHANGED disturbed

\* A request is cut short, its download with it.
CutShort ==
    /\ disturbed' = TRUE
    /\ inFlight' \in BOOLEAN /\ (inFlight' => inFlight)
    /\ UNCHANGED <<answer, failure>>

Expire ==
    /\ \/ answer' = FALSE /\ UNCHANGED failure
       \/ failure' = FALSE /\ UNCHANGED answer
    /\ UNCHANGED <<inFlight, disturbed>>

Next == Begin \/ Land \/ CutShort \/ Expire

Spec == Init /\ [][Next]_vars
=============================================================================
