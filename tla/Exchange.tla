------------------------------ MODULE Exchange ------------------------------
(***************************************************************************)
(* What callers of a shared line may rely on: a request that is sent gets  *)
(* the answer to that very request, or none.  The line may lose its step   *)
(* when somebody gives up on it; from then on answers may go astray.       *)
(***************************************************************************)
EXTENDS Naturals

CONSTANT Caller

VARIABLES
    open,      \* the callers whose request is on its way
    got,       \* whose answer every caller was handed; its own place if none
    astray     \* the line lost its step

vars == <<open, got, astray>>

Init == open = {} /\ got = [c \in Caller |-> c] /\ astray = FALSE

Ask(c) ==
    /\ c \notin open
    /\ open' = open \cup {c}
    /\ UNCHANGED <<got, astray>>

\* The answer, which is another's only on a line that lost its step.
Answer(c) ==
    /\ c \in open
    /\ open' = open \ {c}
    /\ \E d \in Caller : (d = c \/ astray) /\ got' = [got EXCEPT ![c] = d]
    /\ UNCHANGED astray

\* No answer.
Fail(c) ==
    /\ c \in open
    /\ open' = open \ {c}
    /\ UNCHANGED <<got, astray>>

\* Callers give up, of whom the line still owes the answers.
GiveUp ==
    /\ \E cs \in SUBSET open : open' = open \ cs
    /\ astray' \in {astray, TRUE}
    /\ UNCHANGED got

Next == GiveUp \/ \E c \in Caller : Ask(c) \/ Answer(c) \/ Fail(c)

Spec == Init /\ [][Next]_vars
=============================================================================
