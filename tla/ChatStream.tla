----------------------------- MODULE ChatStream -----------------------------
(***************************************************************************)
(* POST /chat/stream (chat_stream in app/signals/router.py): the task that *)
(* runs a turn, the bounded queue its events go through, and the generator *)
(* that reads the queue for one browser.  All three run on one event loop. *)
(*                                                                         *)
(* An item of the queue is a progress event, the outcome of the turn       *)
(* (result or error), or the sentinel.  Heartbeats carry nothing and       *)
(* change nothing: they are stuttering steps.                              *)
(***************************************************************************)
EXTENDS Naturals, Sequences

CONSTANTS
    Tool,          \* the tool calls a turn may await
    NoTool,        \* none of them
    MaxPending,    \* SSE_MAX_PENDING
    MaxEvents      \* bound: progress events of a turn

ASSUME StreamAssumption ==
    /\ MaxPending \in Nat \ {0} /\ MaxEvents \in Nat
    /\ NoTool \notin Tool

VARIABLES
    task,      \* where run() is
    tool,      \* the tool call the turn awaits
    outcome,   \* what the turn came to
    queue,     \* asyncio.Queue
    reader,    \* the generator
    shown,     \* history: what the browser was sent
    events     \* history: how many progress events there were

streamVars == <<task, tool, outcome, queue, reader, shown, events>>

Outcome == {"result", "error"}
Item == {"progress", "end"} \cup Outcome

(* running: in service.chat.  outcome, end: in queue.put of the outcome, of *)
(* the sentinel.                                                            *)
StreamTypeOK ==
    /\ task \in {"running", "outcome", "end", "done"}
    /\ tool \in Tool \cup {NoTool}
    /\ outcome \in Outcome \cup {"none"}
    /\ queue \in Seq(Item) /\ Len(queue) <= MaxPending
    /\ reader \in {"reading", "closed", "gone"}
    /\ shown \in Seq(Item)
    /\ events \in 0..MaxEvents

StreamInit ==
    /\ task = "running" /\ tool = NoTool /\ outcome = "none"
    /\ queue = <<>> /\ reader = "reading" /\ shown = <<>> /\ events = 0

Full == Len(queue) = MaxPending
-----------------------------------------------------------------------------
\* emit and put on the loop's own thread: at once, or not at all.
Progress ==
    /\ task = "running" /\ events < MaxEvents
    /\ events' = events + 1
    /\ queue' = IF Full THEN queue ELSE Append(queue, "progress")
    /\ UNCHANGED <<task, tool, outcome, reader, shown>>

BeginTool(t) ==
    /\ task = "running" /\ tool = NoTool
    /\ tool' = t
    /\ UNCHANGED <<task, outcome, queue, reader, shown, events>>

EndTool ==
    /\ task = "running" /\ tool # NoTool
    /\ tool' = NoTool
    /\ UNCHANGED <<task, outcome, queue, reader, shown, events>>

\* service.chat returns, or raises.
Finish ==
    /\ task = "running" /\ tool = NoTool
    /\ outcome' \in Outcome
    /\ task' = "outcome"
    /\ UNCHANGED <<tool, queue, reader, shown, events>>

\* Mutant: the outcome goes the way of a progress event.
PutOutcomeOrDrop ==
    /\ task = "outcome"
    /\ queue' = IF Full THEN queue ELSE Append(queue, outcome)
    /\ task' = "end"
    /\ UNCHANGED <<tool, outcome, reader, shown, events>>

\* Mutant: put_nowait on a queue without a bound.
PutOutcomeAnyway ==
    /\ task = "outcome"
    /\ queue' = Append(queue, outcome)
    /\ task' = "end"
    /\ UNCHANGED <<tool, outcome, reader, shown, events>>

\* The outcome waits for room.
PutOutcome ==
    /\ task = "outcome" /\ ~Full
    /\ queue' = Append(queue, outcome)
    /\ task' = "end"
    /\ UNCHANGED <<tool, outcome, reader, shown, events>>

\* Mutant: the sentinel comes with the result only, not in a finally.
PutEndOfResult ==
    /\ task = "end" /\ ~Full
    /\ queue' = IF outcome = "result" THEN Append(queue, "end") ELSE queue
    /\ task' = "done"
    /\ UNCHANGED <<tool, outcome, reader, shown, events>>

\* The sentinel, in run's finally, waits for room too.
PutEnd ==
    /\ task = "end" /\ ~Full
    /\ queue' = Append(queue, "end")
    /\ task' = "done"
    /\ UNCHANGED <<tool, outcome, reader, shown, events>>

\* The generator takes an item and sends it, or ends at the sentinel.
Take ==
    /\ reader = "reading" /\ queue # <<>>
    /\ queue' = Tail(queue)
    /\ IF Head(queue) = "end"
       THEN reader' = "closed" /\ UNCHANGED shown
       ELSE shown' = Append(shown, Head(queue)) /\ UNCHANGED reader
    /\ UNCHANGED <<task, tool, outcome, events>>

\* Mutant: the turn runs on without a reader.
LeaveRunning ==
    /\ reader = "reading"
    /\ reader' = "gone"
    /\ UNCHANGED <<task, tool, outcome, queue, shown, events>>

\* The browser goes away: the generator's finally cancels a task that is not
\* done.  run() still puts its sentinel, unless that is what it waits for.
Leave ==
    /\ reader = "reading"
    /\ reader' = "gone"
    /\ task' = IF task \in {"running", "outcome"} THEN "end" ELSE "done"
    /\ tool' = NoTool
    /\ UNCHANGED <<outcome, queue, shown, events>>

Work == Progress \/ EndTool \/ Finish \/ PutOutcome \/ PutEnd \/ \E t \in Tool : BeginTool(t)

StreamNext == Work \/ Take \/ Leave
-----------------------------------------------------------------------------
\* "The final result never comes through here, so it cannot be lost": a reader
\* that stays is sent the outcome, in the end and once, after all the progress.
OutcomeShown ==
    /\ \A i \in DOMAIN shown : shown[i] \in Outcome => i = Len(shown)
    /\ reader = "closed" => shown # <<>> /\ shown[Len(shown)] = outcome

\* "The turn itself should not outlive the reader it was running for": it begins
\* nothing more for a browser that left, and has nothing to put but its sentinel.
LeftTurnStops == reader = "gone" => task \in {"end", "done"} /\ tool = NoTool

StreamCloses == reader = "reading" ~> reader \in {"closed", "gone"}

\* "The turn itself should not outlive the reader it was running for": one that was
\* left while the queue had room for its sentinel does not, ...
TurnEndsIfRoom == reader = "gone" /\ ~Full ~> task = "done"

\* ... and one that does waits in its finally, for room on a queue that is
\* full and that nobody reads any more, and nowhere else.
TurnEndsOrWaits ==
    reader = "gone" ~> task = "done" \/ [](task = "end" /\ Full /\ tool = NoTool)
=============================================================================
