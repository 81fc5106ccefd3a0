---------------------------- MODULE DerivSocket ----------------------------
(***************************************************************************)
(* DerivSocket (app/market/providers/deriv_socket.py): many requests over  *)
(* one WebSocket connection, told apart by req_id.  _ensure connects       *)
(* behind an asyncio.Lock, one reader task per connection resolves the     *)
(* futures in _pending, and the end of a connection fails them.            *)
(*                                                                         *)
(* An action is what a coroutine does from one await to the next.  The     *)
(* `closed` attribute of a connection exists in some releases of           *)
(* websockets only, so a connection that is closed may look live.          *)
(***************************************************************************)
EXTENDS Naturals, Sequences, FiniteSets

LOCAL INSTANCE SequencesExt

CONSTANTS
    Caller,        \* requests, each with a req_id of its own
    Unset, Error,  \* a future that is not done, and one that raises
    MaxConn        \* bound: connections opened

ASSUME ConnAssumption == MaxConn \in Nat \ {0}
ASSUME FutureAssumption == Unset \notin Caller /\ Error \notin Caller /\ Unset # Error

Conn == 1..MaxConn
NoConn == 0

VARIABLES
    pc,        \* where every request is suspended
    via,       \* the connection _ensure returned to it
    pending,   \* the keys of _pending
    future,    \* what the waiter of every request holds
    lock,      \* _connecting: its owner, then those who wait
    ws,        \* _ws
    reader,    \* the reader task of every connection
    far,       \* the far end of every connection
    asked,     \* requests Deriv has still to answer, for every connection
    replies    \* answers on their way

sock == <<pc, via, pending, future, lock, ws, reader, far, asked, replies>>

(* locking: in _connecting.acquire().  connecting: in websockets.connect,   *)
(* as the owner of the lock.  sending: in ws.send.  waiting: for the future.*)
Suspended == {"locking", "connecting", "sending", "waiting"}
Over == {"answered", "failed", "cancelled"}

SocketTypeOK ==
    /\ pc \in [Caller -> {"idle"} \cup Suspended \cup Over]
    /\ via \in [Caller -> Conn \cup {NoConn}]
    /\ pending \subseteq Caller
    /\ future \in [Caller -> Caller \cup {Unset, Error}]
    /\ lock \in Seq(Caller)
    /\ ws \in Conn \cup {NoConn}
    /\ reader \in [Conn -> {"off", "on", "over"}]
    /\ far \in [Conn -> {"none", "open", "broken", "closed"}]
    /\ asked \in [Conn -> SUBSET Caller] /\ replies \in [Conn -> SUBSET Caller]

SocketInit ==
    /\ pc = [c \in Caller |-> "idle"] /\ via = [c \in Caller |-> NoConn]
    /\ pending = {} /\ future = [c \in Caller |-> Unset]
    /\ lock = <<>> /\ ws = NoConn
    /\ reader = [w \in Conn |-> "off"] /\ far = [w \in Conn |-> "none"]
    /\ asked = [w \in Conn |-> {}] /\ replies = [w \in Conn |-> {}]

\* What _ensure may take for a live connection, and for none.
MayLookLive == ws # NoConn
MayLookGone == ws # NoConn => far[ws] # "open"

Goto(c, place) == pc' = [pc EXCEPT ![c] = place]
Release == lock' = Tail(lock)
Leave(c, place) == Goto(c, place) /\ pending' = pending \ {c}
-----------------------------------------------------------------------------
\* request and the first look of _ensure.  A free lock is taken at once.
Request(c) ==
    /\ pc[c] = "idle"
    /\ pending' = pending \cup {c}
    /\ \/ /\ MayLookLive
          /\ Goto(c, "sending") /\ via' = [via EXCEPT ![c] = ws]
          /\ UNCHANGED lock
       \/ /\ MayLookGone
          /\ Goto(c, IF lock = <<>> THEN "connecting" ELSE "locking")
          /\ lock' = Append(lock, c)
          /\ UNCHANGED via
    /\ UNCHANGED <<future, ws, reader, far, asked, replies>>

\* Mutant: no second look under the lock.
LockedAnyway(c) ==
    /\ pc[c] = "locking" /\ Head(lock) = c
    /\ Goto(c, "connecting")
    /\ UNCHANGED <<via, pending, future, lock, ws, reader, far, asked, replies>>

\* The lock is handed over: another caller may have connected meanwhile.
Locked(c) ==
    /\ pc[c] = "locking" /\ Head(lock) = c
    /\ \/ /\ MayLookLive
          /\ Goto(c, "sending") /\ via' = [via EXCEPT ![c] = ws]
          /\ Release
       \/ /\ MayLookGone
          /\ Goto(c, "connecting")
          /\ UNCHANGED <<via, lock>>
    /\ UNCHANGED <<pending, future, ws, reader, far, asked, replies>>

\* A connection and its reader.
Connected(c) ==
    /\ pc[c] = "connecting"
    /\ \E w \in Conn :
        /\ far[w] = "none" /\ \A v \in Conn : v < w => far[v] # "none"
        /\ ws' = w
        /\ far' = [far EXCEPT ![w] = "open"]
        /\ reader' = [reader EXCEPT ![w] = "on"]
        /\ via' = [via EXCEPT ![c] = w]
    /\ Goto(c, "sending") /\ Release
    /\ UNCHANGED <<pending, future, asked, replies>>

ConnectFails(c) ==
    /\ pc[c] = "connecting"
    /\ Leave(c, "failed") /\ Release
    /\ UNCHANGED <<via, future, ws, reader, far, asked, replies>>

Send(c) ==
    /\ pc[c] = "sending"
    /\ Goto(c, "waiting")
    /\ asked' = IF far[via[c]] = "open"
                THEN [asked EXCEPT ![via[c]] = @ \cup {c}] ELSE asked
    /\ UNCHANGED <<via, pending, future, lock, ws, reader, far, replies>>

\* ws.send raises on a connection that is closed.
SendFails(c) ==
    /\ pc[c] = "sending" /\ far[via[c]] # "open"
    /\ Leave(c, "failed")
    /\ UNCHANGED <<via, future, lock, ws, reader, far, asked, replies>>

\* Mutant: a request that is over stays in _pending.
ResumeKept(c) ==
    /\ pc[c] = "waiting" /\ future[c] # Unset
    /\ Goto(c, IF future[c] = Error THEN "failed" ELSE "answered")
    /\ UNCHANGED <<via, pending, future, lock, ws, reader, far, asked, replies>>

Resume(c) ==
    /\ pc[c] = "waiting" /\ future[c] # Unset
    /\ Leave(c, IF future[c] = Error THEN "failed" ELSE "answered")
    /\ UNCHANGED <<via, future, lock, ws, reader, far, asked, replies>>

Timeout(c) ==
    /\ pc[c] = "waiting" /\ future[c] = Unset
    /\ Leave(c, "failed")
    /\ UNCHANGED <<via, future, lock, ws, reader, far, asked, replies>>

\* The task is cancelled at its await: whoever waits for the lock, or has it,
\* leaves it to those behind.
Cancel(c) ==
    /\ pc[c] \in Suspended
    /\ Leave(c, "cancelled")
    /\ IF pc[c] \in {"locking", "connecting"}
       THEN \E i \in DOMAIN lock : lock[i] = c /\ lock' = RemoveAt(lock, i)
       ELSE UNCHANGED lock
    /\ UNCHANGED <<via, future, ws, reader, far, asked, replies>>
-----------------------------------------------------------------------------
\* Mutant: an answer goes to whoever waits, not to the req_id it carries.
DeliverToAny(w) ==
    /\ reader[w] = "on"
    /\ \E c \in replies[w] :
        /\ replies' = [replies EXCEPT ![w] = @ \ {c}]
        /\ \E d \in pending : future[d] = Unset /\ future' = [future EXCEPT ![d] = c]
    /\ UNCHANGED <<pc, via, pending, lock, ws, reader, far, asked>>

\* The reader: an answer resolves the future its req_id names, if it is there.
Deliver(w) ==
    /\ reader[w] = "on"
    /\ \E c \in replies[w] :
        /\ replies' = [replies EXCEPT ![w] = @ \ {c}]
        /\ future' = IF c \in pending /\ future[c] = Unset
                     THEN [future EXCEPT ![c] = c] ELSE future
    /\ UNCHANGED <<pc, via, pending, lock, ws, reader, far, asked>>

\* Mutant: a reader that breaks tells nobody.
ReaderBreaksQuietly(w) ==
    /\ reader[w] = "on"
    /\ reader' = [reader EXCEPT ![w] = "over"]
    /\ ws' = IF ws = w THEN NoConn ELSE ws
    /\ UNCHANGED <<pc, via, pending, future, lock, far, asked, replies>>

\* The connection broke, or a message is no JSON: everyone pending is told,
\* whichever connection it waits on.
ReaderBreaks(w) ==
    /\ reader[w] = "on"
    /\ reader' = [reader EXCEPT ![w] = "over"]
    /\ future' = [c \in Caller |->
                    IF c \in pending /\ future[c] = Unset THEN Error ELSE future[c]]
    /\ ws' = IF ws = w THEN NoConn ELSE ws
    /\ UNCHANGED <<pc, via, pending, lock, far, asked, replies>>

\* A clean close ends the loop without an exception: nobody is told.
ReaderEnds(w) ==
    /\ reader[w] = "on" /\ far[w] = "closed" /\ replies[w] = {}
    /\ reader' = [reader EXCEPT ![w] = "over"]
    /\ ws' = IF ws = w THEN NoConn ELSE ws
    /\ UNCHANGED <<pc, via, pending, future, lock, far, asked, replies>>

(* Deriv. *)
Reply(w) ==
    /\ far[w] = "open"
    /\ \E c \in asked[w] :
        /\ asked' = [asked EXCEPT ![w] = @ \ {c}]
        /\ replies' = [replies EXCEPT ![w] = @ \cup {c}]
    /\ UNCHANGED <<pc, via, pending, future, lock, ws, reader, far>>

Drop(w) ==
    /\ far[w] = "open"
    /\ far' \in {[far EXCEPT ![w] = how] : how \in {"broken", "closed"}}
    /\ UNCHANGED <<pc, via, pending, future, lock, ws, reader, asked, replies>>

Step(c) ==
    \/ Locked(c) \/ Connected(c) \/ ConnectFails(c) \/ Send(c) \/ SendFails(c)
    \/ Resume(c) \/ Timeout(c)

Line(w) == Deliver(w) \/ ReaderBreaks(w) \/ ReaderEnds(w) \/ Reply(w) \/ Drop(w)
-----------------------------------------------------------------------------
\* _pending holds the requests under way and no other, whichever way the rest
\* ended: nothing accumulates over the life of a connection.
NothingLeftPending == pending = {c \in Caller : pc[c] \in Suspended}

\* One handshake at a time, and one connection that is read and open, however
\* many requests found the old one gone.
OneConnection ==
    /\ Cardinality({c \in Caller : pc[c] = "connecting"}) <= 1
    /\ Cardinality({w \in Conn : far[w] = "open" /\ reader[w] = "on"}) <= 1

\* "Everyone waiting on it has to hear about it rather than sit until their own
\* timeout": only a clean close leaves a request to its timeout.
DropsAreHeard ==
    \A c \in Caller :
        pc[c] = "waiting" /\ future[c] = Unset /\ reader[via[c]] = "over"
            => far[via[c]] = "closed"

\* The connection keeps the promise of Exchange whatever drops: an answer is
\* the answer to the request that gets it, or there is none.
Promise == INSTANCE Exchange WITH
    open <- {c \in Caller : pc[c] \in Suspended},
    got <- [c \in Caller |-> IF pc[c] = "answered" THEN future[c] ELSE c],
    astray <- FALSE
KeepsItsPromise == Promise!Spec
=============================================================================
