---------------------------- MODULE DerivTicker ----------------------------
(***************************************************************************)
(* DerivTickerClient (app/market/deriv_ticker.py): the one WebSocket of    *)
(* this process to Deriv, its reconnecting reader _run, and the subscribe  *)
(* and unsubscribe requests that interleave with it at every await.  The   *)
(* far end is external: it streams a pair from a "ticks" request until the *)
(* "forget" of that stream's id, and a second request for a pair that      *)
(* streams already changes nothing.                                        *)
(*                                                                         *)
(* _baseline_by_pair and _pair_by_deriv_symbol are written and cleared     *)
(* together: `tracked` is the set of pairs in both.                        *)
(***************************************************************************)
EXTENDS Naturals, Sequences

CONSTANTS
    Pair,       \* the (symbol, exchange) pairs Deriv knows
    Tag,        \* tells apart the streams of one connection
    NoId,       \* no stream, no recorded id
    MaxOpened,    \* bound: connections the process opens
    MaxPipe     \* bound: ticks received and not yet read

ASSUME BoundAssumption == MaxOpened \in Nat \ {0} /\ MaxPipe \in Nat \ {0}
ASSUME NoIdAssumption == NoId \notin (1..MaxOpened) \X Tag

VARIABLES
    runner,     \* where _run is
    conn,       \* how many connections were opened: the latest one's number
    open,       \* whether the latest connection is up
    tickerWs,         \* the connection self._ws names, 0 for None
    todo,       \* pairs the resubscription pass has still to subscribe
    tracked,    \* keys of _pair_by_deriv_symbol and _baseline_by_pair
    subId,      \* _subscription_ids
    asking,     \* pairs with a subscribe request awaiting its baseline
    streams,    \* the id under which the far end streams each pair
    pipe,       \* ticks on their way, oldest first
    owed,       \* history: pairs a subscribe returned True for and no
                \* unsubscribe was called for since
    faulted     \* history: a resubscription pass met a drop or no quote

vars == <<runner, conn, open, tickerWs, todo, tracked, subId, asking, streams, pipe,
          owed, faulted>>

Id == (1..MaxOpened) \X Tag

TypeOK ==
    /\ runner \in {"connecting", "resubscribing", "reading", "sleeping"}
    /\ conn \in 0..MaxOpened /\ tickerWs \in 0..conn /\ open \in BOOLEAN
    /\ todo \subseteq Pair /\ tracked \subseteq Pair
    /\ asking \subseteq Pair /\ owed \subseteq Pair
    /\ subId \in [Pair -> Id \cup {NoId}]
    /\ streams \in [Pair -> Id \cup {NoId}]
    /\ pipe \in Seq(Pair \X Id) /\ Len(pipe) <= MaxPipe
    /\ faulted \in BOOLEAN

Init ==
    /\ runner = "connecting"
    /\ conn = 0 /\ tickerWs = 0 /\ open = FALSE
    /\ todo = {} /\ tracked = {} /\ asking = {} /\ owed = {}
    /\ subId = [p \in Pair |-> NoId]
    /\ streams = [p \in Pair |-> NoId]
    /\ pipe = <<>>
    /\ faulted = FALSE

-----------------------------------------------------------------------------
\* An id of this connection that nothing refers to.
FreshIds ==
    {conn} \X {t \in Tag :
        /\ \A p \in Pair : <<conn, t>> \notin {subId[p], streams[p]}
        /\ \A i \in DOMAIN pipe : pipe[i][2] # <<conn, t>>}

(* subscribe() after its baseline has come: send the request and record the *)
(* pair.  On a connection that is down but was not noticed the send may     *)
(* succeed and go nowhere; on one known to be closed, or None, it raises.   *)
Reachable == tickerWs # 0 /\ tickerWs = conn /\ runner \in {"resubscribing", "reading"}

SendTicks(p) ==
    /\ Reachable
    /\ tracked' = tracked \cup {p}
    /\ IF open /\ streams[p] = NoId
       THEN \E id \in FreshIds : streams' = [streams EXCEPT ![p] = id]
       ELSE UNCHANGED streams

-----------------------------------------------------------------------------

\* Mutants: the ids, the pairs survive the reconnect; the pairs are listed
\* after they were cleared.
BeginPassKeepingIds ==
    /\ todo' = tracked /\ tracked' = {}
    /\ runner' = "resubscribing"
    /\ UNCHANGED subId

BeginPassKeepingPairs ==
    /\ todo' = tracked
    /\ subId' = [p \in Pair |-> NoId]
    /\ runner' = "resubscribing"
    /\ UNCHANGED tracked

BeginPassTooLate ==
    /\ tracked' = {} /\ todo' = {}
    /\ subId' = [p \in Pair |-> NoId]
    /\ runner' = "resubscribing"

\* _resubscribe_all up to its first await.
BeginPass ==
    /\ todo' = tracked /\ tracked' = {}
    /\ subId' = [p \in Pair |-> NoId]
    /\ runner' = "resubscribing"

\* _run reaches the endpoint and begins to resubscribe.
Connect ==
    /\ runner = "connecting" /\ conn < MaxOpened
    /\ conn' = conn + 1 /\ tickerWs' = conn + 1 /\ open' = TRUE
    /\ streams' = [p \in Pair |-> NoId]
    /\ pipe' = <<>>
    /\ BeginPass
    /\ UNCHANGED <<asking, owed, faulted>>

\* The handshake raises.
TickerConnectFails ==
    /\ runner = "connecting" /\ conn < MaxOpened
    /\ runner' = "sleeping" /\ tickerWs' = 0
    /\ UNCHANGED <<conn, open, todo, tracked, subId, asking, streams, pipe, owed, faulted>>

\* One turn of the pass: the pair's baseline comes and the request is sent,
\* or subscribe() returns False, which the pass does not look at.
Resubscribe(p) ==
    /\ runner = "resubscribing"
    /\ p \in todo
    /\ todo' = todo \ {p}
    /\ \/ SendTicks(p) /\ UNCHANGED faulted
       \/ faulted' = TRUE /\ UNCHANGED <<tracked, streams>>
    /\ UNCHANGED <<runner, conn, open, tickerWs, subId, asking, pipe, owed>>

EndPass ==
    /\ runner = "resubscribing" /\ todo = {}
    /\ runner' = "reading"
    /\ UNCHANGED <<conn, open, tickerWs, todo, tracked, subId, asking, streams, pipe, owed, faulted>>

\* Mutant: the pair is recorded in place of the stream's id.
HandleMessageByPair ==
    /\ runner = "reading" /\ pipe # <<>>
    /\ LET p == Head(pipe)[1] IN
       subId' = IF p \in tracked THEN [subId EXCEPT ![p] = p] ELSE subId
    /\ pipe' = Tail(pipe)
    /\ UNCHANGED <<runner, conn, open, tickerWs, todo, tracked, asking, streams, owed, faulted>>

\* _handle_message: a tick of a tracked pair renews the pair's recorded id.
HandleMessage ==
    /\ runner = "reading" /\ pipe # <<>>
    /\ LET p == Head(pipe)[1]  id == Head(pipe)[2] IN
       subId' = IF p \in tracked THEN [subId EXCEPT ![p] = id] ELSE subId
    /\ pipe' = Tail(pipe)
    /\ UNCHANGED <<runner, conn, open, tickerWs, todo, tracked, asking, streams, owed, faulted>>

\* The connection is gone: the iteration raises, and _ws is None while _run
\* sleeps; or it was closed cleanly, the iteration ends, and _ws keeps naming
\* the closed connection until the next one is there.
Noticed == runner = "reading" /\ ~open /\ pipe = <<>>

NoticeError ==
    /\ Noticed
    /\ runner' = "sleeping" /\ tickerWs' = 0
    /\ UNCHANGED <<conn, open, todo, tracked, subId, asking, streams, pipe, owed, faulted>>

NoticeClose ==
    /\ Noticed
    /\ runner' = "connecting"
    /\ UNCHANGED <<conn, open, tickerWs, todo, tracked, subId, asking, streams, pipe, owed, faulted>>

\* Mutant: the reader ends with its first error.
WakeNever ==
    /\ runner = "sleeping"
    /\ UNCHANGED vars

Wake ==
    /\ runner = "sleeping"
    /\ runner' = "connecting"
    /\ UNCHANGED <<conn, open, tickerWs, todo, tracked, subId, asking, streams, pipe, owed, faulted>>

-----------------------------------------------------------------------------
\* subscribe(): refused at once without a connection, else off to the baseline.
AskSubscribe(p) ==
    /\ tickerWs # 0 /\ p \notin asking
    /\ asking' = asking \cup {p}
    /\ UNCHANGED <<runner, conn, open, tickerWs, todo, tracked, subId, streams, pipe, owed, faulted>>

\* ... and back: no baseline or a send that raises is False, else True.
FinishSubscribe(p) ==
    /\ p \in asking
    /\ asking' = asking \ {p}
    /\ \/ UNCHANGED <<tracked, streams, owed>>
       \/ SendTicks(p) /\ owed' = owed \cup {p}
    /\ UNCHANGED <<runner, conn, open, tickerWs, todo, subId, pipe, faulted>>

\* unsubscribe(): forget the pair, and tell the far end if an id is known.
Unsubscribe(p) ==
    /\ p \in owed \cup tracked \cup asking
    /\ tracked' = tracked \ {p}
    /\ subId' = [subId EXCEPT ![p] = NoId]
    /\ owed' = owed \ {p}
    /\ streams' = [q \in Pair |->
                     IF Reachable /\ open /\ subId[p] # NoId /\ streams[q] = subId[p]
                     THEN NoId ELSE streams[q]]
    /\ UNCHANGED <<runner, conn, open, tickerWs, todo, asking, pipe, faulted>>

-----------------------------------------------------------------------------
\* The far end ticks; the network, or Deriv, drops the connection (never the
\* last one the bound allows).
Tick(p) ==
    /\ open /\ streams[p] # NoId /\ Len(pipe) < MaxPipe
    /\ pipe' = Append(pipe, <<p, streams[p]>>)
    /\ UNCHANGED <<runner, conn, open, tickerWs, todo, tracked, subId, asking, streams, owed, faulted>>

TickerDrop ==
    /\ open /\ conn < MaxOpened
    /\ open' = FALSE
    /\ faulted' = (faulted \/ runner = "resubscribing")
    /\ streams' = [p \in Pair |-> NoId]
    /\ UNCHANGED <<runner, conn, tickerWs, todo, tracked, subId, asking, pipe, owed>>

Run ==
    \/ \E p \in Pair : Resubscribe(p)
    \/ EndPass \/ HandleMessage \/ NoticeError \/ NoticeClose \/ Wake

Next ==
    \/ Connect \/ TickerConnectFails \/ Run \/ TickerDrop
    \/ \E p \in Pair :
          AskSubscribe(p) \/ FinishSubscribe(p) \/ Unsubscribe(p) \/ Tick(p)

Spec == Init /\ [][Next]_vars

(* _run always goes on, and a handshake that is retried for ever succeeds   *)
(* in the end.  Nothing is assumed of the callers, the ticks and the drops. *)
Fairness == WF_vars(Run) /\ SF_vars(Connect)

FairSpec == Spec /\ Fairness
-----------------------------------------------------------------------------
\* A "forget" never carries an id of an earlier connection: whatever was
\* recorded before a reconnect is gone when the new connection is in use.
IdsAreCurrent ==
    runner \in {"resubscribing", "reading"} =>
        \A p \in Pair : subId[p] # NoId => subId[p][1] = conn

\* While the connection is up, a tracked pair is streamed, whatever requests
\* and reconnects came in between.
TrackedStreams ==
    open => \A p \in tracked : streams[p] # NoId

\* _run: "whatever this process still thinks is subscribed gets resubscribed":
\* once the pass is over, no pair a caller was promised is missing ...
NothingLost == runner = "reading" => owed \subseteq tracked

\* ... as long as no pass was cut by a drop or went without a quote.
KeptUnlessFaulted == ~faulted => NothingLost

\* ... and then a promised pair is streamed again in the end, or given up by
\* its caller.
Restored ==
    \A p \in Pair :
        p \in owed ~> (open /\ streams[p] # NoId) \/ p \notin owed \/ faulted

\* The reader comes back from every drop.
ReaderReturns == runner # "reading" ~> runner = "reading"

\* What the ticker knows of its streams is true of the connection in use.
StreamsAreKnown == TypeOK /\ IdsAreCurrent /\ TrackedStreams

\* After any drop the reader is back, and so is every promised pair.
ComesBack == ReaderReturns /\ Restored
=============================================================================
