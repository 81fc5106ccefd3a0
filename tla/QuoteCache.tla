---------------------------- MODULE QuoteCache ----------------------------
(***************************************************************************)
(* The read-through cache of MarketDataRouter.get_quote and                *)
(* get_historical_df (app/market/providers/registry.py): one cache key,    *)
(* its positive and negative entries, the per-key asyncio.Lock and the     *)
(* table of locks, and the coroutines that ask for the key.  Keys do not   *)
(* share locks or entries, so one key stands for each of them.             *)
(*                                                                         *)
(* A coroutine runs from one await to the next in one action.  A lock is   *)
(* an object: the table may name another lock than the one a coroutine     *)
(* still refers to.  A request answered from the cache before the lock     *)
(* changes nothing and is a stuttering step.                               *)
(***************************************************************************)
EXTENDS Naturals, Sequences

LOCAL INSTANCE SequencesExt

CONSTANTS
    Caller,        \* the coroutines that ask for the key
    Lock,          \* asyncio.Lock objects; one nobody refers to is a new one
    NoLock,        \* no entry in the lock table, or no lock referred to
    OwnProvider    \* the exchange has a provider other than the fallback

ASSUME NoLockAssumption == NoLock \notin Lock
ASSUME FlagAssumption == OwnProvider \in BOOLEAN

VARIABLES
    cached,        \* the quote/history cache holds the key
    negative,      \* the negative cache holds the key
    table,         \* the lock the per-loop table names for the key
    locked,        \* Lock.locked() of every lock object
    waiters,       \* the futures queued on every lock object, oldest first
    pc,            \* where every coroutine is suspended
    held,          \* the lock object in every coroutine's local `lock`
    disturbed      \* history: a request was cancelled, or a provider raised

vars == <<cached, negative, table, locked, waiters, pc, held, disturbed>>

(* idle: not in the router.  waiting: queued in lock.acquire().  woken: its *)
(* future is set, the coroutine has not run yet.  provider, fallback: holds *)
(* the lock and awaits that vendor's answer.                                *)
Places == {"idle", "waiting", "woken", "provider", "fallback"}

TypeOK ==
    /\ cached \in BOOLEAN
    /\ negative \in BOOLEAN
    /\ table \in Lock \cup {NoLock}
    /\ locked \in [Lock -> BOOLEAN]
    /\ waiters \in [Lock -> Seq(Caller)]
    /\ pc \in [Caller -> Places]
    /\ held \in [Caller -> Lock \cup {NoLock}]
    /\ disturbed \in BOOLEAN

Init ==
    /\ cached = FALSE
    /\ negative = FALSE
    /\ table = NoLock
    /\ locked = [l \in Lock |-> FALSE]
    /\ waiters = [l \in Lock |-> <<>>]
    /\ pc = [c \in Caller |-> "idle"]
    /\ held = [c \in Caller |-> NoLock]
    /\ disturbed = FALSE

Fetching(c) == pc[c] \in {"provider", "fallback"}

\* What both look-ups ask: an entry, or a remembered failure.
Answerable == cached \/ negative

\* Objects no one refers to: constructing a lock takes one of them.
Unreferenced == {l \in Lock : l # table /\ \A c \in Caller : held[c] # l}

\* Mutant: Lock.release wakes nobody.
LeaveAsleep(c, q) ==
    /\ locked' = [locked EXCEPT ![held[c]] = FALSE]
    /\ waiters' = [waiters EXCEPT ![held[c]] = q]
    /\ pc' = [pc EXCEPT ![c] = "idle"]
    /\ held' = [held EXCEPT ![c] = NoLock]
    /\ table' = NoLock

(***************************************************************************)
(* A coroutine leaves lock l, which becomes (or already is) unlocked with  *)
(* queue q behind it: Lock.release sets the oldest waiter's future, and    *)
(* the `finally` finds the lock unlocked, so it pops the KEY from the      *)
(* table, whichever lock the table names by then.                          *)
(***************************************************************************)
Leave(c, q) ==
    LET l == held[c] IN
    /\ locked' = [locked EXCEPT ![l] = FALSE]
    /\ waiters' = [waiters EXCEPT ![l] = q]
    /\ pc' = [x \in Caller |->
                IF x = c THEN "idle"
                ELSE IF q # <<>> /\ x = Head(q) THEN "woken"
                ELSE pc[x]]
    /\ held' = [held EXCEPT ![c] = NoLock]
    /\ table' = NoLock

\* Mutant: the caller does not wait for a lock that is held.
RequestBarging(c) ==
    /\ pc[c] = "idle" /\ ~Answerable
    /\ \E l \in IF table = NoLock THEN Unreferenced ELSE {table} :
          /\ table' = l
          /\ held' = [held EXCEPT ![c] = l]
          /\ pc' = [pc EXCEPT ![c] = "provider"]
          /\ locked' = [locked EXCEPT ![l] = TRUE]
    /\ UNCHANGED <<cached, negative, waiters, disturbed>>

\* Mutant: the lock goes into the queue in place of the caller.
RequestMisqueued(c) ==
    /\ pc[c] = "idle" /\ ~Answerable
    /\ \E l \in IF table = NoLock THEN Unreferenced ELSE {table} :
          /\ table' = l
          /\ held' = [held EXCEPT ![c] = l]
          /\ pc' = [pc EXCEPT ![c] = IF locked[l] THEN "waiting" ELSE "provider"]
          /\ locked' = [locked EXCEPT ![l] = TRUE]
          /\ waiters' = [waiters EXCEPT ![l] = IF locked[l] THEN Append(@, l) ELSE @]
    /\ UNCHANGED <<cached, negative, disturbed>>

\* A miss: take the key's lock from the table, or put a new one there, and
\* fetch at once if it is free, else queue on it.
Request(c) ==
    /\ pc[c] = "idle"
    /\ ~Answerable
    /\ \E l \in IF table = NoLock THEN Unreferenced ELSE {table} :
          LET free == ~locked[l] /\ waiters[l] = <<>> IN
          /\ table' = l
          /\ held' = [held EXCEPT ![c] = l]
          /\ pc' = [pc EXCEPT ![c] = IF free THEN "provider" ELSE "waiting"]
          /\ locked' = [locked EXCEPT ![l] = locked[l] \/ free]
          /\ waiters' = [waiters EXCEPT ![l] = IF free THEN @ ELSE Append(@, c)]
    /\ UNCHANGED <<cached, negative, disturbed>>

\* Mutant: no second look at the cache under the lock.
ResumeBlindly(c) ==
    LET l == held[c] IN
    /\ pc[c] = "woken"
    /\ locked' = [locked EXCEPT ![l] = TRUE]
    /\ waiters' = [waiters EXCEPT ![l] = Tail(@)]
    /\ pc' = [pc EXCEPT ![c] = "provider"]
    /\ UNCHANGED <<cached, negative, table, held, disturbed>>

\* A woken waiter runs, takes the lock and looks again: an entry is the
\* answer, none makes this coroutine the one that fetches.
Resume(c) ==
    LET l == held[c] IN
    /\ pc[c] = "woken"
    /\ \/ /\ Answerable
          /\ Leave(c, Tail(waiters[l]))
       \/ /\ ~Answerable
          /\ locked' = [locked EXCEPT ![l] = TRUE]
          /\ waiters' = [waiters EXCEPT ![l] = Tail(@)]
          /\ pc' = [pc EXCEPT ![c] = "provider"]
          /\ UNCHANGED <<table, held>>
    /\ UNCHANGED <<cached, negative, disturbed>>

\* The exchange's own provider has nothing: ask the fallback.
TryFallback(c) ==
    /\ pc[c] = "provider"
    /\ OwnProvider
    /\ pc' = [pc EXCEPT ![c] = "fallback"]
    /\ UNCHANGED <<cached, negative, table, locked, waiters, held, disturbed>>

\* A vendor answered: store it, forget the failure, leave.
StoreAnswer(c) ==
    /\ Fetching(c)
    /\ cached' = TRUE
    /\ negative' = FALSE
    /\ Leave(c, waiters[held[c]])
    /\ UNCHANGED disturbed

\* Mutant: the failure is not remembered.
StoreNothing(c) ==
    /\ pc[c] = IF OwnProvider THEN "fallback" ELSE "provider"
    /\ Leave(c, waiters[held[c]])
    /\ UNCHANGED <<cached, negative, disturbed>>

\* The last vendor asked has nothing: remember the failure, leave.
StoreFailure(c) ==
    /\ pc[c] = IF OwnProvider THEN "fallback" ELSE "provider"
    /\ negative' = TRUE
    /\ Leave(c, waiters[held[c]])
    /\ UNCHANGED <<cached, disturbed>>

\* Mutant: a woken waiter that is cancelled keeps its wake-up to itself.
FailQueuedSilently(c) ==
    LET l == held[c] IN
    \E i \in DOMAIN waiters[l] :
        /\ waiters[l][i] = c
        /\ waiters' = [waiters EXCEPT ![l] = RemoveAt(@, i)]
        /\ pc' = [pc EXCEPT ![c] = "idle"]
        /\ held' = [held EXCEPT ![c] = NoLock]
        /\ UNCHANGED <<table, locked>>

\* The request is cancelled wherever it is suspended, or the provider raises:
\* nothing is stored.  Cancelled in the queue of a lock that is held, it only
\* leaves the queue; anywhere else it leaves the lock unlocked behind it.
FailQueued(c) ==
    LET l == held[c] IN
    \E i \in DOMAIN waiters[l] :
        LET q == RemoveAt(waiters[l], i) IN
        /\ waiters[l][i] = c
        /\ \/ /\ locked[l]
              /\ waiters' = [waiters EXCEPT ![l] = q]
              /\ pc' = [pc EXCEPT ![c] = "idle"]
              /\ held' = [held EXCEPT ![c] = NoLock]
              /\ UNCHANGED <<table, locked>>
           \/ ~locked[l] /\ Leave(c, q)

Fail(c) ==
    /\ disturbed' = TRUE
    /\ \/ pc[c] \in {"waiting", "woken"} /\ FailQueued(c)
       \/ Fetching(c) /\ Leave(c, waiters[held[c]])
    /\ UNCHANGED <<cached, negative>>

\* An entry's TTL runs out.  The TTLs are 15 seconds and more, and a woken
\* coroutine runs on the next turn of the event loop: no entry expires
\* between a wake-up and the run of the coroutine it woke.
NobodyWoken == \A c \in Caller : pc[c] # "woken"

ExpireAnswer ==
    /\ cached /\ NobodyWoken
    /\ cached' = FALSE
    /\ UNCHANGED <<negative, table, locked, waiters, pc, held, disturbed>>

ExpireFailure ==
    /\ negative /\ NobodyWoken
    /\ negative' = FALSE
    /\ UNCHANGED <<cached, table, locked, waiters, pc, held, disturbed>>

Fetch(c) == TryFallback(c) \/ StoreAnswer(c) \/ StoreFailure(c)

Next ==
    \/ \E c \in Caller : Request(c) \/ Resume(c) \/ Fetch(c) \/ Fail(c)
    \/ ExpireAnswer
    \/ ExpireFailure

Spec == Init /\ [][Next]_vars

(* The event loop runs a coroutine whose future is set, and every vendor   *)
(* call ends: the HTTP clients and the Deriv socket carry timeouts.        *)
Fairness == \A c \in Caller : WF_vars(Resume(c)) /\ WF_vars(Fetch(c))

FairSpec == Spec /\ Fairness
-----------------------------------------------------------------------------
(* The cache as its callers see it: one flight at a time.                   *)
Abstract ==
    INSTANCE ReadThrough
    WITH answer <- cached, failure <- negative,
         inFlight <- \E c \in Caller : Fetching(c)

\* The lock table, the queues and the hand-overs implement the read-through
\* cache: a download starts only when nothing is remembered, ends in an answer
\* or a failure, and is the only one as long as no request was cut short.
ImplementsReadThrough == Abstract!Spec

\* The comment on _locks: "the first caller fetches, the rest wait and read
\* the cache it fills".  Two coroutines never download the same key at once.
SingleFlight ==
    \A c, d \in Caller : Fetching(c) /\ Fetching(d) => c = d

\* ... which holds until the first request is cancelled or raises.
UndisturbedFlight == ~disturbed => SingleFlight

\* asyncio.Lock does exclude: those who fetch at once hold different locks.
LockExcludes ==
    \A c, d \in Caller :
        Fetching(c) /\ Fetching(d) /\ held[c] = held[d] => c = d

\* No wake-up is lost: whoever queues on a lock that is free has the oldest
\* waiter woken before it, whatever was cancelled on the way.
NoLostWakeup ==
    \A l \in Lock :
        waiters[l] # <<>> /\ ~locked[l] => pc[Head(waiters[l])] = "woken"

\* Every request that goes past the cache comes back, cancelled or answered.
EveryRequestReturns ==
    \A c \in Caller : pc[c] # "idle" ~> pc[c] = "idle"

\* The lock is sound whatever is cancelled: every variable in its type, one owner
\* of a lock, and no queue that sleeps beside a free one.
LocksAreSound == TypeOK /\ LockExcludes /\ NoLostWakeup
=============================================================================
