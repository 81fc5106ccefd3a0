----------------------------- MODULE WatchQueue -----------------------------
(***************************************************************************)
(* The watches of one release (app/events/watches.py): the sorted set of   *)
(* armed watches in Redis, taps handled by the signals process             *)
(* (bot._tap), and newsd's run_watches (app/events/job.py), which drains   *)
(* the set.  The two processes share nothing else, so one action is one    *)
(* Redis command or one Telegram call of either.                           *)
(*                                                                         *)
(* Time is counted in runs of the five-minute job.  An entry of the sorted *)
(* set is its member (chat and attempts) with its score, `due`.            *)
(***************************************************************************)
EXTENDS Naturals, FiniteSets

CONSTANTS
    Chat,          \* chats that hold the offer's message
    Release,       \* when the event prints
    Delay,         \* REPORT_DELAY
    RetryAfter,    \* RETRY_AFTER
    MaxAttempts,   \* MAX_ATTEMPTS
    OfferEnd,      \* when the offer's TTL runs out
    MaxNow,        \* bound: the last instant looked at
    MaxTaps,       \* bound: taps of one chat
    MaxCrashes     \* bound: how often newsd dies

ASSUME TimeAssumption ==
    /\ {Release, Delay, RetryAfter, MaxAttempts, OfferEnd, MaxNow, MaxTaps, MaxCrashes} \subseteq Nat
    /\ MaxAttempts > 0

VARIABLES
    now,
    queue,         \* QUEUE_KEY: [chat, attempts, due]
    enrolled,      \* subscribers.SET_KEY
    stage,         \* what run_watches does next
    pending,       \* the watches due() returned and the loop has still to see
    current,       \* the watch in the loop's hands
    taps,          \* history: taps of every chat that found the offer
    told,          \* history: reports every chat received
    unsent,        \* history: chats Telegram did not take a message for
    crashes        \* history: how often newsd died

vars == <<now, queue, enrolled, stage, pending, current, taps, told, unsent, crashes>>

Watch == [chat : Chat, attempts : 0..(MaxAttempts - 1), due : Nat]
NoWatch == [chat |-> "none"]

TypeOK ==
    /\ now \in 0..MaxNow
    /\ queue \subseteq Watch /\ pending \subseteq Watch /\ enrolled \subseteq Chat
    /\ current \in Watch \cup {NoWatch}
    /\ stage \in {"idle", "walk", "sent", "requeue", "abandon", "down"}
    /\ taps \in [Chat -> 0..MaxTaps] /\ told \in [Chat -> Nat]
    /\ unsent \subseteq Chat /\ crashes \in 0..MaxCrashes

Init ==
    /\ now = 0 /\ enrolled = Chat
    /\ queue = {} /\ pending = {} /\ stage = "idle" /\ current = NoWatch
    /\ taps = [c \in Chat |-> 0] /\ told = [c \in Chat |-> 0]
    /\ unsent = {} /\ crashes = 0

-----------------------------------------------------------------------------
\* /stop and /start.
Unenrol(c) ==
    /\ c \in enrolled
    /\ enrolled' = enrolled \ {c}
    /\ UNCHANGED <<now, queue, stage, pending, current, taps, told, unsent, crashes>>

Enrol(c) ==
    /\ c \notin enrolled
    /\ enrolled' = enrolled \cup {c}
    /\ UNCHANGED <<now, queue, stage, pending, current, taps, told, unsent, crashes>>

Offered == now < OfferEnd

\* ZREM and ZADD of a member: one score for each chat and attempt.
SameMember(w, v) == w.chat = v.chat /\ w.attempts = v.attempts
Zrem(w) == {v \in queue : ~SameMember(w, v)}
Zadd(w) == Zrem(w) \cup {w}

\* bot._tap and watches.arm, for an offer that is still there.
Tap(c) ==
    /\ c \in enrolled /\ Offered /\ taps[c] < MaxTaps
    /\ queue' = Zadd([chat |-> c, attempts |-> 0, due |-> Release + Delay])
    /\ taps' = [taps EXCEPT ![c] = @ + 1]
    /\ UNCHANGED <<now, stage, pending, current, told, unsent, crashes, enrolled>>

Due == {w \in queue : w.due <= now}

\* Mutant: the whole batch leaves the queue before it is looked at.
StartSweepTakingAll ==
    /\ stage = "idle" /\ Due # {}
    /\ queue' = queue \ Due
    /\ IF Offered THEN pending' = Due /\ stage' = "walk" ELSE UNCHANGED <<pending, stage>>
    /\ UNCHANGED <<now, current, taps, told, unsent, crashes, enrolled>>

\* run_watches asks due(), which drops the watches whose offer is gone.
StartSweep ==
    /\ stage = "idle" /\ Due # {}
    /\ IF Offered
       THEN pending' = Due /\ stage' = "walk" /\ UNCHANGED queue
       ELSE queue' = queue \ Due /\ UNCHANGED <<pending, stage>>
    /\ UNCHANGED <<now, current, taps, told, unsent, crashes, enrolled>>

\* telegram.send_to, whose answer run_watches does not look at: the message
\* lands, or it does not, and a chat that is gone is unsubscribed.
Send(c) ==
    \/ /\ told' = [told EXCEPT ![c] = @ + 1]
       /\ UNCHANGED <<enrolled, unsent>>
    \/ /\ unsent' = unsent \cup {c}
       /\ enrolled' \in {enrolled, enrolled \ {c}}
       /\ UNCHANGED told

\* The move is there: report it ...
Report(w) ==
    /\ stage = "walk" /\ w \in pending
    /\ Send(w.chat)
    /\ stage' = "sent" /\ current' = w
    /\ UNCHANGED <<now, queue, pending, taps, crashes>>

\* Mutant: a reported watch stays in the queue.
DoneNothing ==
    /\ stage = "sent"
    /\ pending' = pending \ {current}
    /\ stage' = "walk" /\ current' = NoWatch
    /\ UNCHANGED <<now, queue, taps, told, unsent, crashes, enrolled>>

\* ... and take the watch off the queue.
Done ==
    /\ stage = "sent"
    /\ queue' = Zrem(current)
    /\ pending' = pending \ {current}
    /\ stage' = "walk" /\ current' = NoWatch
    /\ UNCHANGED <<now, taps, told, unsent, crashes, enrolled>>

\* Mutant: one attempt too many.
TakeOffLate(w) ==
    /\ stage = "walk" /\ w \in pending
    /\ queue' = Zrem(w)
    /\ stage' = IF w.attempts + 1 > MaxAttempts THEN "abandon" ELSE "requeue"
    /\ current' = w
    /\ UNCHANGED <<now, pending, taps, told, unsent, crashes, enrolled>>

\* No bars for the window: retry() takes the watch off ...
TakeOff(w) ==
    /\ stage = "walk" /\ w \in pending
    /\ queue' = Zrem(w)
    /\ stage' = IF w.attempts + 1 >= MaxAttempts THEN "abandon" ELSE "requeue"
    /\ current' = w
    /\ UNCHANGED <<now, pending, taps, told, unsent, crashes, enrolled>>

\* Mutant: the watch is taken off and not put back.
RequeueNowhere ==
    /\ stage = "requeue"
    /\ pending' = pending \ {current}
    /\ stage' = "walk" /\ current' = NoWatch
    /\ UNCHANGED <<now, queue, taps, told, unsent, crashes, enrolled>>

\* ... and puts it back for later, one attempt on ...
Requeue ==
    /\ stage = "requeue"
    /\ queue' = Zadd([chat |-> current.chat, attempts |-> current.attempts + 1,
                      due |-> now + RetryAfter])
    /\ pending' = pending \ {current}
    /\ stage' = "walk" /\ current' = NoWatch
    /\ UNCHANGED <<now, taps, told, unsent, crashes, enrolled>>

\* ... or it has had enough, and the chat is told that there is no report.
Abandon ==
    /\ stage = "abandon"
    /\ Send(current.chat)
    /\ pending' = pending \ {current}
    /\ stage' = "walk" /\ current' = NoWatch
    /\ UNCHANGED <<now, queue, taps, crashes>>

EndSweep ==
    /\ stage = "walk" /\ pending = {}
    /\ stage' = "idle"
    /\ UNCHANGED <<now, queue, pending, current, taps, told, unsent, crashes, enrolled>>

\* newsd dies, or a Redis command raises: a run ends where it is.  newsd is
\* down until it is started again, for no time in the second case.
Crash ==
    /\ stage # "down" /\ crashes < MaxCrashes
    /\ crashes' = crashes + 1
    /\ stage' = "down" /\ pending' = {} /\ current' = NoWatch
    /\ UNCHANGED <<now, queue, taps, told, unsent, enrolled>>

Restart ==
    /\ stage = "down"
    /\ stage' = "idle"
    /\ UNCHANGED <<now, queue, pending, current, taps, told, unsent, crashes, enrolled>>

\* Time passes.  A newsd that is up has seen to what was due by the last run.
Tick ==
    /\ now < MaxNow
    /\ stage = "down" \/ (stage = "idle" /\ Due = {})
    /\ now' = now + 1
    /\ UNCHANGED <<queue, stage, pending, current, taps, told, unsent, crashes, enrolled>>

Sweep ==
    \/ StartSweep \/ Done \/ Requeue \/ Abandon \/ EndSweep
    \/ \E w \in pending : Report(w) \/ TakeOff(w)

Next ==
    \/ Sweep \/ Crash \/ Restart \/ Tick
    \/ \E c \in Chat : Tap(c) \/ Enrol(c) \/ Unenrol(c)

Spec == Init /\ [][Next]_vars

(* The cron job runs while newsd does, newsd is started again when it died, *)
(* and the clock goes on.                                                   *)
FairSpec == Spec /\ WF_vars(Sweep) /\ WF_vars(Restart) /\ WF_vars(Tick)
-----------------------------------------------------------------------------
\* The watch that was reported and is still in the queue, if no crash left it
\* there for the next run.
Reported == {v \in queue : stage = "sent" /\ SameMember(v, current)}
InHand(c) == stage \in {"requeue", "abandon"} /\ current.chat = c

Owed(c) ==
    Cardinality({w \in queue \ Reported : w.chat = c}) + (IF InHand(c) THEN 1 ELSE 0)

Promise == INSTANCE WatchPromise WITH owed <- [c \in Chat |-> Owed(c)]

\* The queue keeps the promise: a tap is worth at most one report, a report is
\* sent for a watch that was owed one, and what a crash of newsd adds to what
\* is owed is the one report it found sent and not yet taken off.
KeepsThePromise == Promise!Spec

\* No chat gets more reports than it tapped for, whatever is retried, but for
\* one that each crash may repeat.
NoUnaskedReports == \A c \in Chat : told[c] <= taps[c] + crashes

Armed(c) == \E w \in queue : w.chat = c

\* When the last attempt at a watch is made, if newsd does not go down.
LastTry(w) ==
    (IF w.due > now THEN w.due ELSE now) + (MaxAttempts - 1 - w.attempts) * RetryAfter

\* _tap: "You will get the realised move once the window exists."  A watch whose
\* attempts all come before its offer runs out ends in a message to its chat:
\* the move, or that there is none to report.  Only a send that is refused and
\* a newsd that dies excuse the silence.
EveryWatchIsAnswered ==
    \A c \in Chat :
        (\E w \in queue : w.chat = c /\ LastTry(w) < OfferEnd)
            ~> told[c] > 0 \/ c \in unsent \/ crashes > 0

\* A run that dies half-way costs at most the one watch it had in hand: as long
\* as the offer is there, whoever tapped and neither heard nor refused a message
\* is still queued or in the run's hands, but for one chat a crash.
Lost(c) ==
    /\ taps[c] > 0 /\ told[c] = 0 /\ c \notin unsent
    /\ Offered /\ ~Armed(c) /\ ~InHand(c)

CrashCostsOneWatch == Cardinality({c \in Chat : Lost(c)}) <= crashes

\* Between taps, sweeps and crashes no watch is reported unasked, and none is
\* lost but the one a crash found in hand.
NoWatchGoesAstray == TypeOK /\ NoUnaskedReports /\ CrashCostsOneWatch
=============================================================================
