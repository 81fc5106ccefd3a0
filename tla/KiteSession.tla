----------------------------- MODULE KiteSession -----------------------------
(***************************************************************************)
(* The Zerodha session (app/market/providers/kite_auth.py and the token    *)
(* half of kite_provider.py): one access token, minted by a scripted       *)
(* login, kept in the API service, cached by the KiteProvider of every     *)
(* process and used by its executor threads.  The daily and the startup    *)
(* job mint one too and have no provider.                                  *)
(*                                                                         *)
(* A token is told by whether Kite accepts it.  Kite is external: a login  *)
(* kills the token before it ("each login invalidates the token before     *)
(* it"), and every token dies on Kite's own clock.                         *)
(***************************************************************************)
EXTENDS Naturals

CONSTANTS
    Provider,      \* the processes, each with one KiteProvider
    Thread,        \* executor threads that call Kite
    Job,           \* the runs of refresh_and_store outside a provider
    Home,          \* the provider of each thread
    StoreAttempts, \* _STORE_ATTEMPTS
    MaxDeaths,     \* bound: how often Kite expires the token
    MaxFaults      \* bound: requests that fail

ASSUME HomeAssumption == Home \in [Thread -> Provider] /\ Thread \cap Job = {}
ASSUME BoundAssumption ==
    StoreAttempts \in Nat \ {0} /\ MaxDeaths \in Nat /\ MaxFaults \in Nat

VARIABLES
    stored,        \* the token the API service keeps
    held,          \* _kite.access_token of every provider
    fresh,         \* _token_cached_at is less than _TOKEN_TTL_SECONDS ago
    cooled,        \* _token_recovered_at is less than the cooldown ago
    pc,            \* where every thread and job is
    hand,          \* the token it read or minted and has not passed on
    again,         \* the thread is past its recovery
    tries,         \* attempts of the PUT
    deaths,        \* history
    faults         \* history

provider == <<held, fresh, cooled>>
actor == <<pc, hand, again, tries>>
vars == <<stored, provider, actor, deaths, faults>>

Actor == Thread \cup Job
Token == {"none", "dead", "live"}
Places == {"idle", "ensure", "adopt", "call", "rejected", "stamp", "login",
           "instruments", "store", "reset", "over"}

TypeOK ==
    /\ stored \in Token
    /\ held \in [Provider -> Token]
    /\ fresh \in [Provider -> BOOLEAN] /\ cooled \in [Provider -> BOOLEAN]
    /\ pc \in [Actor -> Places] /\ hand \in [Actor -> Token]
    /\ again \in [Actor -> BOOLEAN] /\ tries \in [Actor -> 0..(StoreAttempts - 1)]
    /\ deaths \in 0..MaxDeaths /\ faults \in 0..MaxFaults

\* Any token may be stored.  The stamps start at 0.0 of a clock that counts
\* from the host's boot: five minutes after it, `cooled` starts out true.
Init ==
    /\ stored \in Token
    /\ held = [p \in Provider |-> "none"]
    /\ fresh = [p \in Provider |-> FALSE]
    /\ cooled \in [Provider -> BOOLEAN]
    /\ pc = [a \in Actor |-> "idle"] /\ hand = [a \in Actor |-> "none"]
    /\ again = [a \in Actor |-> FALSE] /\ tries = [a \in Actor |-> 0]
    /\ deaths = 0 /\ faults = 0

-----------------------------------------------------------------------------
Killed(token) == IF token = "live" THEN "dead" ELSE token

\* The call or the job is over, with a value or an exception.
Return(a) ==
    /\ pc' = [pc EXCEPT ![a] = IF a \in Job THEN "over" ELSE "idle"]
    /\ hand' = [hand EXCEPT ![a] = "none"]
    /\ again' = [again EXCEPT ![a] = FALSE]
    /\ tries' = [tries EXCEPT ![a] = 0]

GoTo(a, place) == pc' = [pc EXCEPT ![a] = place]

\* A request to the API service or to Kite fails.
Fault == faults < MaxFaults /\ faults' = faults + 1

Begin(t) ==
    /\ pc[t] = "idle"
    /\ GoTo(t, "ensure")
    /\ UNCHANGED <<stored, provider, hand, again, tries, deaths, faults>>

\* Mutant: a token that is held is never read again.
CachedForever(p) == held[p] # "none"

\* The token is used as long as it is fresh.
Cached(p) == fresh[p] /\ held[p] # "none"

\* _ensure_token, up to the answer of the API service ...
Ensure(t) ==
    /\ pc[t] = "ensure"
    /\ \/ /\ Cached(Home[t])
          /\ GoTo(t, "call")
          /\ UNCHANGED <<hand, again, tries, faults>>
       \/ /\ ~Cached(Home[t]) /\ stored # "none"
          /\ hand' = [hand EXCEPT ![t] = stored]
          /\ GoTo(t, "adopt")
          /\ UNCHANGED <<again, tries, faults>>
       \/ ~Cached(Home[t]) /\ stored = "none" /\ Return(t) /\ UNCHANGED faults
       \/ ~Cached(Home[t]) /\ Fault /\ Return(t)
    /\ UNCHANGED <<stored, provider, deaths>>

\* ... and from there, whatever the other threads did meanwhile.
Adopt(t) ==
    /\ pc[t] = "adopt"
    /\ held' = [held EXCEPT ![Home[t]] = hand[t]]
    /\ fresh' = [fresh EXCEPT ![Home[t]] = TRUE]
    /\ hand' = [hand EXCEPT ![t] = "none"]
    /\ GoTo(t, "call")
    /\ UNCHANGED <<stored, cooled, again, tries, deaths, faults>>

\* The call itself.  A TokenException is looked into once.
Use(t) ==
    /\ pc[t] = "call"
    /\ IF held[Home[t]] # "live" /\ ~again[t]
       THEN GoTo(t, "rejected") /\ UNCHANGED <<hand, again, tries>>
       ELSE Return(t)
    /\ UNCHANGED <<stored, provider, deaths, faults>>

\* _recover_token: within the cooldown of the last attempt it gives up, ...
CheckCooldown(t) ==
    /\ pc[t] = "rejected"
    /\ IF cooled[Home[t]] THEN Return(t)
       ELSE GoTo(t, "stamp") /\ UNCHANGED <<hand, again, tries>>
    /\ UNCHANGED <<stored, provider, deaths, faults>>

\* ... else this is the attempt.
Stamp(t) ==
    /\ pc[t] = "stamp"
    /\ cooled' = [cooled EXCEPT ![Home[t]] = TRUE]
    /\ GoTo(t, "login")
    /\ UNCHANGED <<stored, held, fresh, hand, again, tries, deaths, faults>>

StartJob(j) ==
    /\ pc[j] = "idle"
    /\ GoTo(j, "login")
    /\ UNCHANGED <<stored, provider, hand, again, tries, deaths, faults>>

\* refresh_session: the login and the exchange mint a token, ...
Login(a) ==
    /\ pc[a] = "login"
    /\ \/ /\ stored' = Killed(stored)
          /\ held' = [p \in Provider |-> Killed(held[p])]
          /\ hand' = [b \in Actor |-> IF b = a THEN "live" ELSE Killed(hand[b])]
          /\ GoTo(a, "instruments")
          /\ UNCHANGED <<again, tries, faults>>
       \/ Fault /\ Return(a) /\ UNCHANGED <<stored, held>>
    /\ UNCHANGED <<fresh, cooled, deaths>>

\* ... with which the instruments are downloaded before anyone is told of it.
Instruments(a) ==
    /\ pc[a] = "instruments"
    /\ \/ hand[a] = "live" /\ GoTo(a, "store") /\ UNCHANGED <<hand, again, tries, faults>>
       \/ hand[a] # "live" /\ Return(a) /\ UNCHANGED faults
       \/ Fault /\ Return(a)
    /\ UNCHANGED <<stored, provider, deaths>>

\* Mutant: one attempt too many.
StoreLonger(a) ==
    /\ pc[a] = "store"
    /\ \/ /\ stored' = hand[a]
          /\ IF a \in Job THEN Return(a)
             ELSE GoTo(a, "reset") /\ UNCHANGED <<hand, again, tries>>
          /\ UNCHANGED faults
       \/ /\ Fault
          /\ stored' \in {stored, hand[a]}
          /\ IF tries[a] < StoreAttempts
             THEN tries' = [tries EXCEPT ![a] = @ + 1] /\ UNCHANGED <<pc, hand, again>>
             ELSE Return(a)
    /\ UNCHANGED <<provider, deaths>>

\* refresh_and_store: the PUT, tried again when it or its answer is lost.
Store(a) ==
    /\ pc[a] = "store"
    /\ \/ /\ stored' = hand[a]
          /\ IF a \in Job THEN Return(a)
             ELSE GoTo(a, "reset") /\ UNCHANGED <<hand, again, tries>>
          /\ UNCHANGED faults
       \/ /\ Fault
          /\ stored' \in {stored, hand[a]}
          /\ IF tries[a] + 1 < StoreAttempts
             THEN tries' = [tries EXCEPT ![a] = @ + 1] /\ UNCHANGED <<pc, hand, again>>
             ELSE Return(a)
    /\ UNCHANGED <<provider, deaths>>

\* The provider forgets when it last read the token, and reads it again.
Reset(t) ==
    /\ pc[t] = "reset"
    /\ fresh' = [fresh EXCEPT ![Home[t]] = FALSE]
    /\ again' = [again EXCEPT ![t] = TRUE]
    /\ GoTo(t, "ensure")
    /\ UNCHANGED <<stored, held, cooled, hand, tries, deaths, faults>>

-----------------------------------------------------------------------------
\* Kite expires the token.
Die ==
    /\ deaths < MaxDeaths
    /\ deaths' = deaths + 1
    /\ stored' = Killed(stored)
    /\ held' = [p \in Provider |-> Killed(held[p])]
    /\ hand' = [a \in Actor |-> Killed(hand[a])]
    /\ UNCHANGED <<fresh, cooled, pc, again, tries, faults>>

TtlEnds(p) ==
    /\ fresh[p]
    /\ fresh' = [fresh EXCEPT ![p] = FALSE]
    /\ UNCHANGED <<stored, held, cooled, actor, deaths, faults>>

\* The timeouts of a login add up to less than the cooldown.
CooldownEnds(p) ==
    /\ cooled[p]
    /\ \A t \in Thread : Home[t] = p => pc[t] \notin {"login", "instruments", "store"}
    /\ cooled' = [cooled EXCEPT ![p] = FALSE]
    /\ UNCHANGED <<stored, held, fresh, actor, deaths, faults>>

Mint(a) == Login(a) \/ Instruments(a) \/ Store(a)

Step(t) ==
    \/ Begin(t) \/ Ensure(t) \/ Adopt(t) \/ Use(t)
    \/ CheckCooldown(t) \/ Stamp(t) \/ Mint(t) \/ Reset(t)

Next ==
    \/ \E t \in Thread : Step(t)
    \/ \E j \in Job : StartJob(j) \/ Mint(j)
    \/ Die
    \/ \E p \in Provider : TtlEnds(p) \/ CooldownEnds(p)

Spec == Init /\ [][Next]_vars

(* Somebody always asks for a quote, every request ends, and time passes.  *)
(* Nobody has to start a job.                                              *)
Fairness ==
    /\ \A t \in Thread : WF_vars(Step(t))
    /\ \A j \in Job : WF_vars(Mint(j))
    /\ \A p \in Provider : WF_vars(TtlEnds(p)) /\ SF_vars(CooldownEnds(p))

FairSpec == Spec /\ Fairness
-----------------------------------------------------------------------------
\* _call: a rejected token does not "cost the rest of the day".  After the last
\* expiry and the last failed request, every provider that uses a dead token
\* uses a live one again, and so does whoever reads the store.
SessionHeals ==
    /\ \A p \in Provider : held[p] = "dead" ~> held[p] = "live"
    /\ stored = "dead" ~> stored = "live"

\* _call: "the other processes pick it up on their own next read rather than
\* each discovering the failure separately": no provider logs in while the
\* store has a token that Kite accepts.
LoginsAreNeeded ==
    [][\A t \in Thread : pc[t] = "login" /\ pc'[t] = "instruments" => stored # "live"]_vars

\* The session is repaired, with every token and every job where it belongs.
SessionIsKept == []TypeOK /\ SessionHeals
=============================================================================
