---------------------------- MODULE PineSandbox ----------------------------
(***************************************************************************)
(* The Pine sandbox (app/signals/pine/sandbox.py): one child process that  *)
(* answers requests in the order they are written to its stdin, a          *)
(* semaphore that keeps them to one at a time, and run_pine_script's       *)
(* retry.  Nothing in an answer says whose it is.                          *)
(*                                                                         *)
(* An action is what a coroutine does from one await to the next.  The     *)
(* process is replaced, never repaired: what was in the pipes of a killed  *)
(* one is gone with it.                                                    *)
(***************************************************************************)
EXTENDS Naturals, Sequences

LOCAL INSTANCE SequencesExt

CONSTANT Caller       \* the calls of run_pine_script

ASSUME CallerAssumption == Caller # {}

VARIABLES
    pc,        \* where every call is suspended
    tries,     \* how many _run_once a call has begun
    line,      \* _SANDBOX_SEMAPHORE: its holder, then those who wait, in order
    proc,      \* _process and what asyncio knows of it
    inbox,     \* requests in the child's stdin
    outbox,    \* answers in the child's stdout
    got,       \* whose answer a call returned
    disturbed  \* history: a call was cancelled while its answer was awaited

vars == <<pc, tries, line, proc, inbox, outbox, got, disturbed>>

(* idle: not called yet.  queued: in the semaphore's acquire().  reaping:   *)
(* awaits the end of a dead child.  spawning: awaits a new one.  reading:   *)
(* awaits the answer.  killing: awaits the end of a child it gave up on.    *)
Suspended == {"queued", "reaping", "spawning", "reading", "killing"}
Over == {"answered", "unavailable", "raised", "cancelled"}

\* dying: the child is dead and asyncio has not noticed.
Processes == {"none", "up", "dying", "dead"}

TypeOK ==
    /\ pc \in [Caller -> {"idle"} \cup Suspended \cup Over]
    /\ tries \in [Caller -> 0..2]
    /\ line \in Seq(Caller) /\ inbox \in Seq(Caller) /\ outbox \in Seq(Caller)
    /\ proc \in Processes
    /\ got \in [Caller -> Caller]
    /\ disturbed \in BOOLEAN

Init ==
    /\ pc = [c \in Caller |-> "idle"]
    /\ tries = [c \in Caller |-> 0]
    /\ line = <<>> /\ inbox = <<>> /\ outbox = <<>>
    /\ proc = "none"
    /\ got = [c \in Caller |-> c]
    /\ disturbed = FALSE

Holds(c) == line # <<>> /\ Head(line) = c

\* _is_usable: a child that died unnoticed still passes.
Usable == proc \in {"up", "dying"}

Goto(c, place) == pc' = [pc EXCEPT ![c] = place]
LeaveLine(c) == \E i \in DOMAIN line : line[i] = c /\ line' = RemoveAt(line, i)

\* stdin.write: a dead child reads nothing.
Write(c) == inbox' = IF proc' = "up" THEN Append(inbox, c) ELSE inbox
-----------------------------------------------------------------------------
Call(c) ==
    /\ pc[c] = "idle"
    /\ Goto(c, "queued")
    /\ tries' = [tries EXCEPT ![c] = 1]
    /\ line' = Append(line, c)
    /\ UNCHANGED <<proc, inbox, outbox, got, disturbed>>

\* Mutant: no semaphore.
EnterAnyway(c) ==
    /\ pc[c] = "queued"
    /\ \/ /\ Usable
          /\ Goto(c, "reading")
          /\ UNCHANGED proc
          /\ Write(c)
       \/ /\ proc = "dead"
          /\ proc' = "none" /\ Goto(c, "reaping")
          /\ UNCHANGED inbox
       \/ /\ proc = "none"
          /\ Goto(c, "spawning")
          /\ UNCHANGED <<proc, inbox>>
    /\ UNCHANGED <<tries, line, outbox, got, disturbed>>

\* _ensure_process, its holder's first step: write to a child that looks
\* alive, reap one that is known to be dead, or start the first one.
Enter(c) ==
    /\ pc[c] = "queued" /\ Holds(c)
    /\ \/ /\ Usable
          /\ Goto(c, "reading")
          /\ UNCHANGED proc
          /\ Write(c)
       \/ /\ proc = "dead"
          /\ proc' = "none" /\ Goto(c, "reaping")
          /\ UNCHANGED inbox
       \/ /\ proc = "none"
          /\ Goto(c, "spawning")
          /\ UNCHANGED <<proc, inbox>>
    /\ UNCHANGED <<tries, line, outbox, got, disturbed>>

Reaped(c) ==
    /\ pc[c] = "reaping"
    /\ Goto(c, "spawning")
    /\ UNCHANGED <<tries, line, proc, inbox, outbox, got, disturbed>>

\* A new child, with empty pipes.
Spawned(c) ==
    /\ pc[c] = "spawning"
    /\ proc' = "up" /\ inbox' = <<c>> /\ outbox' = <<>>
    /\ Goto(c, "reading")
    /\ UNCHANGED <<tries, line, got, disturbed>>

\* create_subprocess_exec raises, outside the try.
SpawnFails(c) ==
    /\ pc[c] = "spawning"
    /\ Goto(c, "raised") /\ LeaveLine(c)
    /\ UNCHANGED <<tries, proc, inbox, outbox, got, disturbed>>

\* readline() returns the next line, whoever's answer it is.
Read(c) ==
    /\ pc[c] = "reading" /\ outbox # <<>>
    /\ got' = [got EXCEPT ![c] = Head(outbox)]
    /\ outbox' = Tail(outbox)
    /\ Goto(c, "answered") /\ LeaveLine(c)
    /\ UNCHANGED <<tries, proc, inbox, disturbed>>

\* Mutant: the child is kept after a request that failed.
AnomalyKept(c) ==
    /\ pc[c] = "reading"
    /\ Goto(c, "killing")
    /\ UNCHANGED <<tries, line, proc, inbox, outbox, got, disturbed>>

\* The timeout, an end of file, a broken pipe, a line over the limit or one
\* that is no JSON: the child is killed.
Anomaly(c) ==
    /\ pc[c] = "reading"
    /\ Goto(c, "killing")
    /\ proc' = "none" /\ inbox' = <<>> /\ outbox' = <<>>
    /\ UNCHANGED <<tries, line, got, disturbed>>

\* Mutant: retried until it works.
KilledForEver(c) ==
    /\ pc[c] = "killing"
    /\ Goto(c, "queued") /\ tries' = [tries EXCEPT ![c] = @ + 1]
    /\ line' = Append(Tail(line), c)
    /\ UNCHANGED <<proc, inbox, outbox, got, disturbed>>

\* Mutant: the semaphore is acquired and released by hand, and an early return
\* skips the release.
KilledHolding(c) ==
    /\ pc[c] = "killing"
    /\ IF tries[c] = 1
       THEN /\ Goto(c, "queued") /\ tries' = [tries EXCEPT ![c] = 2]
            /\ line' = Append(Tail(line), c)
       ELSE Goto(c, "unavailable") /\ UNCHANGED <<tries, line>>
    /\ UNCHANGED <<proc, inbox, outbox, got, disturbed>>

\* The child is gone and the semaphore released: run_pine_script tries once
\* more, behind those who wait, and then says that the sandbox is unavailable.
Killed(c) ==
    /\ pc[c] = "killing"
    /\ IF tries[c] = 1
       THEN /\ Goto(c, "queued") /\ tries' = [tries EXCEPT ![c] = 2]
            /\ line' = Append(Tail(line), c)
       ELSE /\ Goto(c, "unavailable") /\ LeaveLine(c)
            /\ UNCHANGED tries
    /\ UNCHANGED <<proc, inbox, outbox, got, disturbed>>

\* CancelledError is no Exception: the semaphore is released, the child and
\* what is in its pipes stay as they are.
Cancel(c) ==
    /\ pc[c] \in Suspended
    /\ Goto(c, "cancelled") /\ LeaveLine(c)
    /\ disturbed' = (disturbed \/ pc[c] = "reading")
    /\ UNCHANGED <<tries, proc, inbox, outbox, got>>

(* The child, run_pine_server.mjs: one answer for each line, in order.      *)
Serve ==
    /\ proc = "up" /\ inbox # <<>>
    /\ outbox' = Append(outbox, Head(inbox))
    /\ inbox' = Tail(inbox)
    /\ UNCHANGED <<pc, tries, line, proc, got, disturbed>>

Die ==
    /\ proc = "up"
    /\ proc' = "dying" /\ inbox' = <<>>
    /\ UNCHANGED <<pc, tries, line, outbox, got, disturbed>>

Notice ==
    /\ proc = "dying"
    /\ proc' = "dead"
    /\ UNCHANGED <<pc, tries, line, inbox, outbox, got, disturbed>>

Step(c) ==
    \/ Enter(c) \/ Reaped(c) \/ Spawned(c) \/ SpawnFails(c)
    \/ Read(c) \/ Anomaly(c) \/ Killed(c)

Child == Serve \/ Die \/ Notice

Next == Child \/ \E c \in Caller : Call(c) \/ Step(c) \/ Cancel(c)

Spec == Init /\ [][Next]_vars

\* A suspended coroutine is resumed: the awaits are bounded by readline's
\* timeout, and a child that is killed or started is so in finite time.
FairSpec == Spec /\ \A c \in Caller : WF_vars(Step(c))
-----------------------------------------------------------------------------
\* "The server assumes at most one request in flight": only the holder of the
\* semaphore is past it, cancellations and retries included.
OneAtATime ==
    \A c \in Caller : pc[c] \in Suspended \ {"queued"} => Holds(c)

\* Until a call is cancelled while it reads, nothing is left in the pipes for
\* the next one: what the child owes is what the call that reads asked for.
PipesInStep ==
    ~disturbed => \A i \in DOMAIN (outbox \o inbox) :
        i = 1 /\ line # <<>> /\ (outbox \o inbox)[i] = Head(line)
              /\ pc[Head(line)] = "reading"

\* The sandbox keeps its promise to every caller: its own answer or none, as
\* long as nobody is cancelled in the middle of one.
Promise == INSTANCE Exchange WITH
    open <- {c \in Caller : pc[c] \in Suspended}, astray <- disturbed
KeepsItsPromise == Promise!Spec

\* Everyone comes back: with an answer, an error or a cancellation.
EveryCallReturns == \A c \in Caller : pc[c] = "queued" ~> pc[c] \in Over
=============================================================================
