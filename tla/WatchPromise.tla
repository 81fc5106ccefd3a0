---------------------------- MODULE WatchPromise ----------------------------
(***************************************************************************)
(* What a tap on [Watch what happens] promises: reports are owed to chats, *)
(* a tap makes the desk owe at most one more, and a report that is sent is *)
(* one that was owed.                                                      *)
(***************************************************************************)
EXTENDS Naturals

CONSTANT Chat

VARIABLES
    taps,      \* how often every chat asked
    owed,      \* reports owed to every chat
    told,      \* reports sent to every chat
    crashes    \* how often the desk died

vars == <<taps, owed, told, crashes>>

Init ==
    /\ taps = [c \in Chat |-> 0]
    /\ owed = [c \in Chat |-> 0]
    /\ told = [c \in Chat |-> 0]
    /\ crashes = 0

Tap(c) ==
    /\ taps' = [taps EXCEPT ![c] = @ + 1]
    /\ owed' \in {owed, [owed EXCEPT ![c] = @ + 1]}
    /\ UNCHANGED <<told, crashes>>

Report(c) ==
    /\ owed[c] > 0
    /\ owed' = [owed EXCEPT ![c] = @ - 1]
    /\ told' = [told EXCEPT ![c] = @ + 1]
    /\ UNCHANGED <<taps, crashes>>

\* The offer is gone, or Telegram refuses: reports are owed no more.
Forget ==
    /\ \A c \in Chat : owed'[c] <= owed[c]
    /\ owed' \in [Chat -> Nat]
    /\ UNCHANGED <<taps, told, crashes>>

\* The desk dies with one report in hand: it is owed again, or never sent.
Die ==
    /\ crashes' = crashes + 1
    /\ \/ UNCHANGED owed
       \/ \E c \in Chat : owed' = [owed EXCEPT ![c] = @ + 1]
       \/ \E c \in Chat : owed[c] > 0 /\ owed' = [owed EXCEPT ![c] = @ - 1]
    /\ UNCHANGED <<taps, told>>

Next == Forget \/ Die \/ \E c \in Chat : Tap(c) \/ Report(c)

Spec == Init /\ [][Next]_vars
=============================================================================
