----------------------------- MODULE DerivProofs -----------------------------
(***************************************************************************)
(* Proofs about DerivTicker, for any pairs and any number of connections,  *)
(* ticks on their way and streams of one connection, and about             *)
(* DerivHistory, for any number of windows and connections.                *)
(***************************************************************************)
EXTENDS DerivTicker, DerivHistory, FiniteSetTheorems, SequenceLemmas, TLAPS

LOCAL INSTANCE SequencesExt
LOCAL INSTANCE FiniteSetsExt

(* Where the reader is while a connection is up, and what it has on hand.   *)
RunnerInv ==
    /\ open => runner \in {"resubscribing", "reading"} /\ tickerWs = conn /\ conn # 0
    /\ runner # "resubscribing" => todo = {}

(* Every id that anything refers to is one of the latest connection ...     *)
CurrentInv ==
    /\ \A p \in Pair : subId[p] # NoId => subId[p][1] = conn
    /\ \A p \in Pair : streams[p] # NoId => streams[p][1] = conn
    /\ \A i \in DOMAIN pipe : pipe[i][2][1] = conn

(* ... and no two pairs are referred to by the same.                        *)
UniqueInv ==
    /\ \A p, q \in Pair : streams[p] # NoId /\ streams[p] = streams[q] => p = q
    /\ \A p, q \in Pair : subId[p] # NoId /\ subId[p] = streams[q] => p = q
    /\ \A i \in DOMAIN pipe : \A q \in Pair : pipe[i][2] = streams[q] => pipe[i][1] = q

(* What was promised is tracked, or still on the list of the pass.          *)
OwedInv == ~faulted => owed \subseteq tracked \cup todo

IInv == TypeOK /\ RunnerInv /\ CurrentInv /\ UniqueInv /\ TrackedStreams /\ OwedInv

LEMMA BoundFacts == MaxOpened \in Nat /\ MaxPipe \in Nat /\ MaxPipe > 0
BY BoundAssumption

\* An id that is recorded is none that stands for no id.
LEMMA IdFacts == ASSUME NEW id \in Id PROVE id # NoId
BY NoIdAssumption DEF Id

\* What a tick on its way carries.
LEMMA PipeFacts ==
    ASSUME pipe \in Seq(Pair \X Id), NEW i \in DOMAIN pipe
    PROVE  pipe[i][1] \in Pair /\ pipe[i][2] \in Id
<1>1. pipe[i] \in Pair \X Id
  BY LenProperties, ElementOfSeq
<1>2. QED BY <1>1

\* The oldest tick, and those behind it.
LEMMA TailFacts ==
    ASSUME pipe \in Seq(Pair \X Id), pipe # <<>>
    PROVE  /\ 1 \in DOMAIN pipe /\ Head(pipe) = pipe[1]
           /\ Tail(pipe) \in Seq(Pair \X Id) /\ Len(Tail(pipe)) = Len(pipe) - 1
           /\ \A i \in DOMAIN Tail(pipe) : i + 1 \in DOMAIN pipe /\ Tail(pipe)[i] = pipe[i + 1]
<1>1. Len(pipe) \in Nat \ {0} /\ DOMAIN pipe = 1..Len(pipe)
  BY EmptySeq, LenProperties
<1>2. Tail(pipe) \in Seq(Pair \X Id) /\ Len(Tail(pipe)) = Len(pipe) - 1
  BY HeadTailProperties
<1>3. DOMAIN Tail(pipe) = 1..(Len(pipe) - 1)
  BY <1>2, LenProperties
<1>4. QED BY <1>1, <1>2, <1>3

LEMMA InitInv == Init => IInv
<1> SUFFICES ASSUME Init PROVE IInv
  OBVIOUS
<1>1. pipe \in Seq(Pair \X Id) /\ Len(pipe) = 0 /\ DOMAIN pipe = {}
  BY EmptySeq DEF Init
<1>2. TypeOK
  <2>1. conn \in 0..MaxOpened /\ tickerWs \in 0..conn
    BY BoundFacts DEF Init
  <2>2. subId \in [Pair -> Id \cup {NoId}] /\ streams \in [Pair -> Id \cup {NoId}]
    BY DEF Init
  <2>3. Len(pipe) <= MaxPipe
    BY <1>1, BoundFacts
  <2>4. QED BY <1>1, <2>1, <2>2, <2>3 DEF Init, TypeOK
<1>3. QED BY <1>1, <1>2 DEF Init, IInv, RunnerInv, CurrentInv, UniqueInv, TrackedStreams, OwedInv

\* What a request to stream a pair leaves behind, if it reaches Deriv.
LEMMA SendFacts ==
    ASSUME IInv, NEW p \in Pair, SendTicks(p), UNCHANGED <<runner, conn, open, tickerWs, subId, pipe>>
    PROVE  /\ tracked' = tracked \cup {p}
           /\ streams' \in [Pair -> Id \cup {NoId}]
           /\ \A q \in Pair : streams'[q] # NoId => streams'[q][1] = conn
           /\ UniqueInv'
           /\ TrackedStreams'
<1>1. tracked' = tracked \cup {p} /\ Reachable
  BY DEF SendTicks
<1>2. streams \in [Pair -> Id \cup {NoId}] /\ conn \in 0..MaxOpened /\ tracked \subseteq Pair
  BY DEF IInv, TypeOK
<1>3. CASE open /\ streams[p] = NoId
  <2>1. PICK id \in FreshIds : streams' = [streams EXCEPT ![p] = id]
    BY <1>3 DEF SendTicks
  <2>2. PICK t \in Tag : /\ id = <<conn, t>>
                         /\ \A q \in Pair : id \notin {subId[q], streams[q]}
                         /\ \A i \in DOMAIN pipe : pipe[i][2] # id
    BY <2>1 DEF FreshIds
  <2>3. conn \in 1..MaxOpened
    BY <1>1, <1>2, BoundFacts DEF Reachable, IInv, TypeOK
  <2>4. id \in Id /\ id[1] = conn
    BY <2>2, <2>3 DEF Id
  <2>5. id # NoId
    BY <2>4, IdFacts
  <2>6. /\ streams'[p] = id
        /\ \A q \in Pair : q # p => streams'[q] = streams[q]
    BY <2>1, <1>2
  <2>7. streams' \in [Pair -> Id \cup {NoId}]
    BY <2>1, <2>4, <1>2
  <2>8. \A q \in Pair : streams'[q] # NoId => streams'[q][1] = conn
    BY <2>4, <2>6 DEF IInv, CurrentInv
  <2>9. UniqueInv'
    BY <2>2, <2>6 DEF IInv, UniqueInv
  <2>10. TrackedStreams'
    BY <2>5, <2>6, <1>1, <1>2 DEF IInv, TrackedStreams
  <2>11. QED BY <1>1, <2>7, <2>8, <2>9, <2>10
<1>4. CASE ~(open /\ streams[p] = NoId)
  <2>1. UNCHANGED streams
    BY <1>4 DEF SendTicks
  <2>2. UniqueInv'
    BY <2>1 DEF IInv, UniqueInv
  <2>3. TrackedStreams'
    BY <2>1, <1>1, <1>4 DEF IInv, TrackedStreams
  <2>4. QED BY <1>1, <1>2, <2>1, <2>2, <2>3 DEF IInv, CurrentInv
<1>5. QED BY <1>3, <1>4

\* Every step keeps the invariant.
LEMMA StepInv == IInv /\ [Next]_vars => IInv'
<1> SUFFICES ASSUME IInv, [Next]_vars PROVE IInv'
  OBVIOUS
<1> USE BoundFacts
<1> USE DEF IInv
<1>1. CASE Connect
  <2>1. /\ conn' = conn + 1 /\ tickerWs' = conn' /\ open' = TRUE /\ runner' = "resubscribing"
        /\ streams' = [p \in Pair |-> NoId] /\ subId' = [p \in Pair |-> NoId]
        /\ pipe' = <<>> /\ todo' = tracked /\ tracked' = {}
        /\ UNCHANGED <<asking, owed, faulted>> /\ runner = "connecting" /\ conn < MaxOpened
    BY <1>1 DEF Connect, BeginPass
  <2>2. pipe' \in Seq(Pair \X Id) /\ Len(pipe') = 0 /\ DOMAIN pipe' = {}
    BY <2>1, EmptySeq
  <2>3. conn' \in 0..MaxOpened /\ tickerWs' \in 0..conn' /\ conn' # 0
    BY <2>1 DEF TypeOK
  <2>4. TypeOK'
    BY <2>1, <2>2, <2>3 DEF TypeOK
  <2>5. RunnerInv' /\ CurrentInv' /\ UniqueInv' /\ TrackedStreams'
    BY <2>1, <2>2, <2>3 DEF RunnerInv, CurrentInv, UniqueInv, TrackedStreams
  <2>6. OwedInv'
    BY <2>1 DEF OwedInv, RunnerInv
  <2>7. QED BY <2>4, <2>5, <2>6
<1>2. CASE TickerConnectFails \/ NoticeError \/ NoticeClose \/ Wake
  <2>1. /\ UNCHANGED <<conn, open, todo, tracked, subId, asking, streams, pipe, owed, faulted>>
        /\ tickerWs' \in {0, tickerWs} /\ runner' \in {"sleeping", "connecting"}
        /\ runner # "resubscribing" /\ (runner = "reading" => ~open)
    BY <1>2 DEF TickerConnectFails, NoticeError, NoticeClose, Wake, Noticed
  <2>2. ~open
    BY <2>1 DEF RunnerInv
  <2>3. TypeOK'
    BY <2>1 DEF TypeOK
  <2>4. QED BY <2>1, <2>2, <2>3 DEF RunnerInv, CurrentInv, UniqueInv, TrackedStreams, OwedInv
<1>3. CASE TickerDrop
  <2>1. /\ open' = FALSE /\ faulted' = (faulted \/ runner = "resubscribing")
        /\ streams' = [p \in Pair |-> NoId]
        /\ UNCHANGED <<runner, conn, tickerWs, todo, tracked, subId, asking, pipe, owed>>
    BY <1>3 DEF TickerDrop
  <2>2. TypeOK'
    BY <2>1 DEF TypeOK
  <2>3. UniqueInv'
    <3>1. \A i \in DOMAIN pipe : pipe[i][2] # NoId
      BY PipeFacts, IdFacts DEF TypeOK
    <3>2. QED BY <2>1, <3>1 DEF UniqueInv
  <2>4. QED BY <2>1, <2>2, <2>3 DEF RunnerInv, CurrentInv, TrackedStreams, OwedInv
<1>4. ASSUME NEW p \in Pair, Resubscribe(p) PROVE IInv'
  <2>1. /\ runner = "resubscribing" /\ p \in todo /\ todo' = todo \ {p}
        /\ UNCHANGED <<runner, conn, open, tickerWs, subId, asking, pipe, owed>>
    BY <1>4 DEF Resubscribe
  <2>2. CASE SendTicks(p) /\ UNCHANGED faulted
    <3>1. /\ tracked' = tracked \cup {p} /\ streams' \in [Pair -> Id \cup {NoId}]
          /\ \A q \in Pair : streams'[q] # NoId => streams'[q][1] = conn
          /\ UniqueInv' /\ TrackedStreams'
      BY <2>1, <2>2, SendFacts
    <3>2. TypeOK'
      BY <2>1, <2>2, <3>1 DEF TypeOK
    <3>3. QED BY <2>1, <2>2, <3>1, <3>2 DEF RunnerInv, CurrentInv, OwedInv
  <2>3. CASE faulted' = TRUE /\ UNCHANGED <<tracked, streams>>
    <3>1. TypeOK'
      BY <2>1, <2>3 DEF TypeOK
    <3>2. QED BY <2>1, <2>3, <3>1 DEF RunnerInv, CurrentInv, UniqueInv, TrackedStreams, OwedInv
  <2>4. QED BY <1>4, <2>2, <2>3 DEF Resubscribe
<1>5. CASE EndPass
  <2>1. TypeOK'
    BY <1>5 DEF EndPass, TypeOK
  <2>2. QED BY <1>5, <2>1 DEF EndPass, RunnerInv, CurrentInv, UniqueInv, TrackedStreams, OwedInv
<1>6. CASE HandleMessage
  <2> DEFINE p == Head(pipe)[1]  id == Head(pipe)[2]
  <2>1. /\ pipe # <<>> /\ pipe' = Tail(pipe)
        /\ subId' = IF p \in tracked THEN [subId EXCEPT ![p] = id] ELSE subId
        /\ UNCHANGED <<runner, conn, open, tickerWs, todo, tracked, asking, streams, owed, faulted>>
    BY <1>6 DEF HandleMessage
  <2>2. pipe \in Seq(Pair \X Id)
    BY DEF TypeOK
  <2>3. /\ 1 \in DOMAIN pipe /\ Head(pipe) = pipe[1]
        /\ pipe' \in Seq(Pair \X Id) /\ Len(pipe') = Len(pipe) - 1
        /\ \A i \in DOMAIN pipe' : i + 1 \in DOMAIN pipe /\ pipe'[i] = pipe[i + 1]
    BY <2>1, <2>2, TailFacts
  <2>4. p \in Pair /\ id \in Id /\ id[1] = conn
    BY <2>2, <2>3, PipeFacts DEF CurrentInv
  <2>5. \A q \in Pair : id = streams[q] => p = q
    BY <2>3 DEF UniqueInv
  <2>6. \A q \in Pair : subId'[q] = subId[q] \/ (q = p /\ subId'[q] = id)
    BY <2>1, <2>4 DEF TypeOK
  <2>7. TypeOK'
    <3>1. subId' \in [Pair -> Id \cup {NoId}]
      BY <2>1, <2>4 DEF TypeOK
    <3>2. Len(pipe) \in Nat
      BY <2>2, LenProperties
    <3>3. Len(pipe') <= MaxPipe
      BY <3>2, <2>3 DEF TypeOK
    <3>4. QED BY <2>1, <2>3, <3>1, <3>3 DEF TypeOK
  <2>8. CurrentInv'
    BY <2>1, <2>3, <2>4, <2>6 DEF CurrentInv
  <2>9. UniqueInv'
    BY <2>1, <2>3, <2>5, <2>6 DEF UniqueInv
  <2>10. QED BY <2>1, <2>7, <2>8, <2>9 DEF RunnerInv, TrackedStreams, OwedInv
<1>7. ASSUME NEW p \in Pair, AskSubscribe(p) PROVE IInv'
  <2>1. TypeOK'
    BY <1>7 DEF AskSubscribe, TypeOK
  <2>2. QED BY <1>7, <2>1 DEF AskSubscribe, RunnerInv, CurrentInv, UniqueInv, TrackedStreams, OwedInv
<1>8. ASSUME NEW p \in Pair, FinishSubscribe(p) PROVE IInv'
  <2>1. /\ asking' = asking \ {p}
        /\ UNCHANGED <<runner, conn, open, tickerWs, todo, subId, pipe, faulted>>
    BY <1>8 DEF FinishSubscribe
  <2>2. CASE UNCHANGED <<tracked, streams, owed>>
    <3>1. TypeOK'
      BY <2>1, <2>2 DEF TypeOK
    <3>2. QED BY <2>1, <2>2, <3>1 DEF RunnerInv, CurrentInv, UniqueInv, TrackedStreams, OwedInv
  <2>3. CASE SendTicks(p) /\ owed' = owed \cup {p}
    <3>1. /\ tracked' = tracked \cup {p} /\ streams' \in [Pair -> Id \cup {NoId}]
          /\ \A q \in Pair : streams'[q] # NoId => streams'[q][1] = conn
          /\ UniqueInv' /\ TrackedStreams'
      BY <2>1, <2>3, SendFacts
    <3>2. TypeOK'
      BY <2>1, <2>3, <3>1 DEF TypeOK
    <3>3. QED BY <2>1, <2>3, <3>1, <3>2 DEF RunnerInv, CurrentInv, OwedInv
  <2>4. QED BY <1>8, <2>2, <2>3 DEF FinishSubscribe
<1>9. ASSUME NEW p \in Pair, Unsubscribe(p) PROVE IInv'
  <2>1. /\ tracked' = tracked \ {p} /\ owed' = owed \ {p}
        /\ subId' = [subId EXCEPT ![p] = NoId]
        /\ UNCHANGED <<runner, conn, open, tickerWs, todo, asking, pipe, faulted>>
    BY <1>9 DEF Unsubscribe
  <2>2. \A q \in Pair : subId'[q] = IF q = p THEN NoId ELSE subId[q]
    BY <2>1 DEF TypeOK
  <2>3. /\ streams' \in [Pair -> Id \cup {NoId}]
        /\ \A q \in Pair : \/ streams'[q] = streams[q]
                           \/ streams'[q] = NoId /\ subId[p] # NoId /\ streams[q] = subId[p]
    BY <1>9 DEF Unsubscribe, TypeOK
  <2>4. \A q \in Pair : q # p => streams'[q] = streams[q]
    BY <2>3 DEF UniqueInv
  <2>5. TypeOK'
    BY <2>1, <2>3 DEF TypeOK
  <2>6. CurrentInv'
    BY <2>1, <2>2, <2>3 DEF CurrentInv
  <2>7. UniqueInv'
    <3>1. \A i \in DOMAIN pipe : pipe[i][2] # NoId
      BY PipeFacts, IdFacts DEF TypeOK
    <3>2. QED BY <2>1, <2>2, <2>3, <3>1 DEF UniqueInv
  <2>8. TrackedStreams'
    BY <2>1, <2>4 DEF TrackedStreams, TypeOK
  <2>9. QED BY <2>1, <2>5, <2>6, <2>7, <2>8 DEF RunnerInv, OwedInv
<1>10. ASSUME NEW p \in Pair, Tick(p) PROVE IInv'
  <2> DEFINE t == <<p, streams[p]>>
  <2>1. /\ pipe' = Append(pipe, t) /\ streams[p] # NoId /\ Len(pipe) < MaxPipe
        /\ UNCHANGED <<runner, conn, open, tickerWs, todo, tracked, subId, asking, streams, owed, faulted>>
    BY <1>10 DEF Tick
  <2>2. streams[p] \in Id /\ pipe \in Seq(Pair \X Id)
    BY <2>1 DEF TypeOK
  <2>3. t \in Pair \X Id
    BY <2>2
  <2>4. /\ pipe' \in Seq(Pair \X Id) /\ Len(pipe') = Len(pipe) + 1
        /\ \A i \in 1..Len(pipe) : pipe'[i] = pipe[i]
        /\ pipe'[Len(pipe) + 1] = t
    BY <2>1, <2>2, <2>3, AppendProperties
  <2>5. Len(pipe) \in Nat /\ DOMAIN pipe = 1..Len(pipe) /\ DOMAIN pipe' = 1..(Len(pipe) + 1)
    BY <2>2, <2>4, LenProperties
  <2>6. \A i \in DOMAIN pipe' : (i \in DOMAIN pipe /\ pipe'[i] = pipe[i]) \/ pipe'[i] = t
    BY <2>4, <2>5
  <2>7. TypeOK'
    <3>1. Len(pipe') <= MaxPipe
      BY <2>1, <2>4, <2>5
    <3>2. QED BY <2>1, <2>4, <3>1 DEF TypeOK
  <2>8. CurrentInv'
    BY <2>1, <2>6 DEF CurrentInv
  <2>9. UniqueInv'
    <3>1. \A i \in DOMAIN pipe' : \A q \in Pair : pipe'[i][2] = streams[q] => pipe'[i][1] = q
      BY <2>1, <2>6 DEF UniqueInv
    <3>2. QED BY <2>1, <3>1 DEF UniqueInv
  <2>10. QED BY <2>1, <2>7, <2>8, <2>9 DEF RunnerInv, TrackedStreams, OwedInv
<1>11. CASE UNCHANGED vars
  BY <1>11 DEF vars, TypeOK, RunnerInv, CurrentInv, UniqueInv, TrackedStreams, OwedInv
<1>12. QED BY <1>1, <1>2, <1>3, <1>4, <1>5, <1>6, <1>7, <1>8, <1>9, <1>10, <1>11 DEF Next, Run

\* The inductive invariant of the ticker: one connection, ids of that connection
\* alone, no id for two pairs, and nothing promised that is on neither list.
THEOREM TickerInvariant == Spec => []IInv
  BY InitInv, StepInv, PTL DEF Spec

\* _subscription_ids, _pair_by_deriv_symbol: across drops, reconnects and
\* requests that straddle them, what is recorded is true of the connection in
\* use, for any number of pairs.
THEOREM RecordsAreTrue == Spec => []StreamsAreKnown
<1>1. IInv => StreamsAreKnown
  BY DEF IInv, StreamsAreKnown, CurrentInv, IdsAreCurrent
<1>2. QED BY <1>1, TickerInvariant, PTL

\* _resubscribe_all: as long as no pass is cut or goes without a quote, every
\* pair a caller was promised is among those it brings back.
THEOREM PromisesAreKept == Spec => []KeptUnlessFaulted
<1>1. IInv => KeptUnlessFaulted
  BY DEF IInv, OwedInv, RunnerInv, KeptUnlessFaulted, NothingLost
<1>2. QED BY <1>1, TickerInvariant, PTL
------------------------------------------------------------------------------
(* _connecting: who is at it is in its line, once, and its owner is first.  *)
LineInv ==
    /\ Distinct(lock)
    /\ \A c \in Caller : Among(c, lock) <=> pc[c] \in {"locking", "connecting"}
    /\ \A c \in Caller : pc[c] = "connecting" => lock # <<>> /\ lock[1] = c

(* A future holds the answer to its own request, an error, or nothing yet.  *)
FutureInv ==
    \A c \in Caller : /\ future[c] \in {Unset, Error, c}
                      /\ pc[c] = "answered" => future[c] = c

(* _ws is the one connection that is read and open, if there is one, and    *)
(* nobody opens another beside it.                                          *)
ConnInv ==
    /\ \A w \in Conn : far[w] = "none" <=> reader[w] = "off"
    /\ \A w \in Conn : far[w] = "open" /\ reader[w] = "on" => w = ws
    /\ ws # NoConn => reader[ws] = "on"
    /\ \A c \in Caller : pc[c] = "connecting" /\ ws # NoConn => far[ws] # "open"

(* Who sends or waits does so on a connection that was opened, and unless   *)
(* it was closed in silence knows of its end.                               *)
ViaInv ==
    \A c \in Caller : pc[c] \in {"sending", "waiting"} =>
        /\ via[c] \in Conn /\ reader[via[c]] # "off"
        /\ future[c] = Unset /\ reader[via[c]] = "over" => far[via[c]] = "closed"

SockInv ==
    SocketTypeOK /\ NothingLeftPending /\ LineInv /\ FutureInv /\ ConnInv /\ ViaInv

HistInv == HistTypeOK /\ SockInv

Places == {"idle"} \cup Suspended \cup Over

LEMMA Kinds ==
    /\ NoConn \notin Conn
    /\ \A c \in Caller : c # Unset /\ c # Error
    /\ Unset # Error
BY FutureAssumption DEF NoConn, Conn

LEMMA HistInitInv == HistInit => HistInv
<1> SUFFICES ASSUME HistInit PROVE HistInv
  OBVIOUS
<1> USE DEF HistInit, SocketInit
<1>1. lock = <<>> /\ lock \in Seq(Caller) /\ Len(lock) = 0
  BY EmptySeq
<1>2. SocketTypeOK
  <2>1. /\ pc \in [Caller -> {"idle"}] /\ via \in [Caller -> {NoConn}]
        /\ future \in [Caller -> {Unset}] /\ reader \in [Conn -> {"off"}]
        /\ far \in [Conn -> {"none"}]
    OBVIOUS
  <2>2. /\ pc \in [Caller -> {"idle"} \cup Suspended \cup Over]
        /\ via \in [Caller -> Conn \cup {NoConn}]
        /\ future \in [Caller -> Caller \cup {Unset, Error}]
    BY <2>1
  <2>3. /\ reader \in [Conn -> {"off", "on", "over"}]
        /\ far \in [Conn -> {"none", "open", "broken", "closed"}]
    BY <2>1
  <2>4. asked \in [Conn -> SUBSET Caller] /\ replies \in [Conn -> SUBSET Caller]
    OBVIOUS
  <2>5. QED BY <1>1, <2>2, <2>3, <2>4 DEF SocketTypeOK
<1>3. stage \in {"planned", "older", "done", "cancelled"} /\ answers \in [Window -> Answer]
  BY DEF Answer
<1>4. LineInv
  <2>1. \A c \in Caller : pc[c] = "idle"
    OBVIOUS
  <2> HIDE DEF HistInit, SocketInit
  <2>2. Distinct(lock) /\ \A c \in Caller : ~Among(c, lock)
    BY <1>1 DEF Distinct, Among
  <2>3. QED BY <2>1, <2>2 DEF LineInv
<1>5. NothingLeftPending /\ FutureInv
  BY DEF NothingLeftPending, FutureInv, Suspended
<1>6. ConnInv /\ ViaInv
  BY Kinds DEF ConnInv, ViaInv
<1>7. QED BY <1>2, <1>3, <1>4, <1>5, <1>6 DEF HistInv, HistTypeOK, SockInv

-----------------------------------------------------------------------------
(* A request.                                                               *)

\* The owner of the lock, and everybody at it, are the only ones.
LEMMA HeadOfLine ==
    ASSUME SockInv, NEW c \in Caller, pc[c] \in {"locking", "connecting"}
    PROVE  /\ lock \in Seq(Caller) /\ lock # <<>> /\ Head(lock) = lock[1] /\ Distinct(lock)
           /\ Tail(lock) \in Seq(Caller) /\ Distinct(Tail(lock))
           /\ \A d : Among(d, Tail(lock)) <=> d # lock[1] /\ Among(d, lock)
<1>1. lock \in Seq(Caller) /\ Distinct(lock) /\ Among(c, lock)
  BY DEF SockInv, SocketTypeOK, LineInv
<1>2. lock # <<>>
  BY <1>1 DEF Among
<1>3. QED BY <1>1, <1>2, TakenFacts

\* A request that is through with the lock leaves it to the next one.
LEMMA ReleaseFacts ==
    ASSUME SockInv, NEW c \in Caller, pc[c] \in {"locking", "connecting"}, lock[1] = c,
           Release, NEW place \in Places \ {"locking", "connecting"}, Goto(c, place)
    PROVE  LineInv' /\ lock' \in Seq(Caller)
<1>1. /\ lock' \in Seq(Caller) /\ Distinct(lock')
      /\ \A d : Among(d, lock') <=> d # c /\ Among(d, lock)
  BY HeadOfLine DEF Release
<1>2. pc'[c] = place /\ \A d \in Caller \ {c} : pc'[d] = pc[d]
  BY DEF Goto, SockInv, SocketTypeOK
<1>3. \A d \in Caller : pc'[d] # "connecting"
  BY <1>2 DEF SockInv, LineInv
<1>4. \A d \in Caller : Among(d, lock') <=> pc'[d] \in {"locking", "connecting"}
  BY <1>1, <1>2 DEF SockInv, LineInv
<1>5. QED BY <1>1, <1>3, <1>4 DEF LineInv

\* A request that is not at the lock moves, and stays away from it.
LEMMA AwayFacts ==
    ASSUME SockInv, NEW c \in Caller, pc[c] \notin {"locking", "connecting"}, UNCHANGED lock,
           NEW place \in Places \ {"locking", "connecting"}, Goto(c, place)
    PROVE  LineInv'
<1>1. pc'[c] = place /\ \A d \in Caller \ {c} : pc'[d] = pc[d]
  BY DEF Goto, SockInv, SocketTypeOK
<1>2. QED BY <1>1 DEF SockInv, LineInv

LEMMA GotoFacts ==
    ASSUME SockInv, NEW c \in Caller, NEW place \in Places, Goto(c, place)
    PROVE  /\ pc' \in [Caller -> Places] /\ pc'[c] = place
           /\ \A d \in Caller \ {c} : pc'[d] = pc[d]
BY DEF Goto, SockInv, SocketTypeOK, Places

\* A request that is over is no longer pending.
LEMMA OverFacts ==
    ASSUME SockInv, NEW c \in Caller, NEW place \in Over, Leave(c, place),
           place = "answered" => future[c] = c,
           UNCHANGED <<via, future, ws, reader, far, asked, replies>>,
           lock' \in Seq(Caller), LineInv'
    PROVE  SockInv'
<1>1. /\ pc' \in [Caller -> Places] /\ pc'[c] = place
      /\ \A d \in Caller \ {c} : pc'[d] = pc[d]
      /\ pending' = pending \ {c} /\ place \notin Suspended /\ place \in Over
  BY GotoFacts DEF Leave, Places, Over, Suspended
<1>2. SocketTypeOK'
  BY <1>1 DEF SockInv, SocketTypeOK, Places
<1>3. NothingLeftPending'
  BY <1>1 DEF SockInv, NothingLeftPending
<1>4. FutureInv'
  BY <1>1 DEF SockInv, FutureInv
<1>5. ConnInv' /\ ViaInv'
  BY <1>1 DEF SockInv, ConnInv, ViaInv, Over
<1>6. QED BY <1>2, <1>3, <1>4, <1>5 DEF SockInv

LEMMA RequestInv == ASSUME SockInv, NEW c \in Caller, Request(c) PROVE SockInv'
<1> USE DEF SockInv
<1>1. /\ pc[c] = "idle" /\ pending' = pending \cup {c}
      /\ UNCHANGED <<future, ws, reader, far, asked, replies>>
  BY DEF Request
<1>2. ~Among(c, lock)
  BY <1>1 DEF LineInv
<1>3. CASE MayLookLive /\ Goto(c, "sending") /\ via' = [via EXCEPT ![c] = ws] /\ UNCHANGED lock
  <2>1. /\ pc' \in [Caller -> Places] /\ pc'[c] = "sending"
        /\ \A d \in Caller \ {c} : pc'[d] = pc[d]
    BY <1>3, GotoFacts DEF Places, Suspended
  <2>2. /\ via' \in [Caller -> Conn \cup {NoConn}] /\ via'[c] = ws /\ ws \in Conn
        /\ \A d \in Caller \ {c} : via'[d] = via[d]
    BY <1>3 DEF SocketTypeOK, MayLookLive
  <2>3. SocketTypeOK'
    BY <1>1, <1>3, <2>1, <2>2 DEF SocketTypeOK, Places
  <2>4. LineInv'
    BY <1>1, <1>3, AwayFacts DEF Places, Suspended
  <2>5. NothingLeftPending' /\ FutureInv'
    BY <1>1, <2>1 DEF NothingLeftPending, FutureInv, Suspended
  <2>6. ConnInv'
    BY <1>1, <2>1 DEF ConnInv
  <2>7. ViaInv'
    BY <1>1, <1>3, <2>1, <2>2 DEF ViaInv, ConnInv, MayLookLive
  <2>8. QED BY <2>3, <2>4, <2>5, <2>6, <2>7
<1>4. CASE /\ MayLookGone /\ Goto(c, IF lock = <<>> THEN "connecting" ELSE "locking")
           /\ lock' = Append(lock, c) /\ UNCHANGED via
  <2> DEFINE place == IF lock = <<>> THEN "connecting" ELSE "locking"
  <2>1. /\ pc' \in [Caller -> Places] /\ pc'[c] = place
        /\ \A d \in Caller \ {c} : pc'[d] = pc[d]
    BY <1>4, GotoFacts DEF Places, Suspended
  <2>2. /\ lock' \in Seq(Caller) /\ lock' # <<>> /\ Distinct(lock')
        /\ \A d : Among(d, lock') <=> d = c \/ Among(d, lock)
        /\ lock # <<>> => lock'[1] = lock[1]
    BY <1>2, <1>4, AppendedFacts DEF SocketTypeOK, LineInv
  <2>3. lock = <<>> => lock'[1] = c
    BY <1>4
  <2>4. SocketTypeOK'
    BY <1>1, <1>4, <2>1, <2>2 DEF SocketTypeOK, Places
  <2>5. LineInv'
    <3>1. \A d \in Caller : Among(d, lock') <=> pc'[d] \in {"locking", "connecting"}
      BY <2>1, <2>2 DEF LineInv
    <3>2. \A d \in Caller : pc'[d] = "connecting" => lock' # <<>> /\ lock'[1] = d
      BY <2>1, <2>2, <2>3 DEF LineInv
    <3>3. QED BY <2>2, <3>1, <3>2 DEF LineInv
  <2>6. NothingLeftPending' /\ FutureInv'
    BY <1>1, <2>1 DEF NothingLeftPending, FutureInv, Suspended
  <2>7. ConnInv' /\ ViaInv'
    BY <1>1, <1>4, <2>1 DEF ConnInv, ViaInv, MayLookGone
  <2>8. QED BY <2>4, <2>5, <2>6, <2>7
<1>5. QED BY <1>3, <1>4 DEF Request

LEMMA LockedInv == ASSUME SockInv, NEW c \in Caller, Locked(c) PROVE SockInv'
<1> USE DEF SockInv
<1>1. /\ pc[c] = "locking" /\ lock # <<>> /\ lock[1] = c
      /\ UNCHANGED <<pending, future, ws, reader, far, asked, replies>>
  BY HeadOfLine DEF Locked
<1>2. CASE MayLookLive /\ Goto(c, "sending") /\ via' = [via EXCEPT ![c] = ws] /\ Release
  <2>1. /\ pc' \in [Caller -> Places] /\ pc'[c] = "sending"
        /\ \A d \in Caller \ {c} : pc'[d] = pc[d]
    BY <1>2, GotoFacts DEF Places, Suspended
  <2>2. /\ via' \in [Caller -> Conn \cup {NoConn}] /\ via'[c] = ws /\ ws \in Conn
        /\ \A d \in Caller \ {c} : via'[d] = via[d]
    BY <1>2 DEF SocketTypeOK, MayLookLive
  <2>3. LineInv' /\ lock' \in Seq(Caller)
    BY <1>1, <1>2, ReleaseFacts DEF Places, Suspended
  <2>4. SocketTypeOK'
    BY <1>1, <2>1, <2>2, <2>3 DEF SocketTypeOK, Places
  <2>5. NothingLeftPending' /\ FutureInv'
    BY <1>1, <2>1 DEF NothingLeftPending, FutureInv, Suspended
  <2>6. ConnInv'
    BY <1>1, <2>1 DEF ConnInv
  <2>7. ViaInv'
    BY <1>1, <1>2, <2>1, <2>2 DEF ViaInv, ConnInv, MayLookLive
  <2>8. QED BY <2>3, <2>4, <2>5, <2>6, <2>7
<1>3. CASE MayLookGone /\ Goto(c, "connecting") /\ UNCHANGED <<via, lock>>
  <2>1. /\ pc' \in [Caller -> Places] /\ pc'[c] = "connecting"
        /\ \A d \in Caller \ {c} : pc'[d] = pc[d]
    BY <1>3, GotoFacts DEF Places, Suspended
  <2>2. SocketTypeOK'
    BY <1>1, <1>3, <2>1 DEF SocketTypeOK, Places
  <2>3. LineInv'
    BY <1>1, <1>3, <2>1 DEF LineInv
  <2>4. NothingLeftPending' /\ FutureInv'
    BY <1>1, <2>1 DEF NothingLeftPending, FutureInv, Suspended
  <2>5. ConnInv' /\ ViaInv'
    BY <1>1, <1>3, <2>1 DEF ConnInv, ViaInv, MayLookGone
  <2>6. QED BY <2>2, <2>3, <2>4, <2>5
<1>4. QED BY <1>2, <1>3 DEF Locked

LEMMA ConnectedInv == ASSUME SockInv, NEW c \in Caller, Connected(c) PROVE SockInv'
<1> USE DEF SockInv
<1>1. PICK w \in Conn :
        /\ far[w] = "none" /\ ws' = w /\ far' = [far EXCEPT ![w] = "open"]
        /\ reader' = [reader EXCEPT ![w] = "on"] /\ via' = [via EXCEPT ![c] = w]
  BY DEF Connected
<1>2. /\ pc[c] = "connecting" /\ Goto(c, "sending") /\ Release
      /\ UNCHANGED <<pending, future, asked, replies>>
  BY DEF Connected
<1>3. /\ pc' \in [Caller -> Places] /\ pc'[c] = "sending"
      /\ \A d \in Caller \ {c} : pc'[d] = pc[d]
  BY <1>2, GotoFacts DEF Places, Suspended
<1>4. /\ via' \in [Caller -> Conn \cup {NoConn}] /\ via'[c] = w
      /\ \A d \in Caller \ {c} : via'[d] = via[d]
  BY <1>1 DEF SocketTypeOK
<1>5. /\ far' \in [Conn -> {"none", "open", "broken", "closed"}] /\ far'[w] = "open"
      /\ reader' \in [Conn -> {"off", "on", "over"}] /\ reader'[w] = "on"
      /\ \A v \in Conn \ {w} : far'[v] = far[v] /\ reader'[v] = reader[v]
  BY <1>1 DEF SocketTypeOK
<1>6. LineInv' /\ lock' \in Seq(Caller) /\ \A d \in Caller : pc'[d] # "connecting"
  <2>1. lock[1] = c
    BY <1>2 DEF LineInv
  <2>2. LineInv' /\ lock' \in Seq(Caller)
    BY <1>2, <2>1, ReleaseFacts DEF Places, Suspended
  <2>3. \A d \in Caller : pc'[d] # "connecting"
    BY <1>2, <1>3 DEF LineInv
  <2>4. QED BY <2>2, <2>3
<1>7. SocketTypeOK'
  BY <1>1, <1>2, <1>3, <1>4, <1>5, <1>6 DEF SocketTypeOK, Places
<1>8. NothingLeftPending' /\ FutureInv'
  BY <1>2, <1>3 DEF NothingLeftPending, FutureInv, Suspended
<1>9. ConnInv'
  <2>1. \A v \in Conn : far[v] = "open" /\ reader[v] = "on" => FALSE
    BY <1>2, Kinds DEF ConnInv
  <2>2. QED BY <1>1, <1>5, <1>6, <2>1 DEF ConnInv
<1>10. ViaInv'
  <2>1. reader[w] = "off"
    BY <1>1 DEF ConnInv
  <2>2. QED BY <1>2, <1>3, <1>4, <1>5, <2>1 DEF ViaInv
<1>11. QED BY <1>6, <1>7, <1>8, <1>9, <1>10

LEMMA ConnectFailsInv == ASSUME SockInv, NEW c \in Caller, ConnectFails(c) PROVE SockInv'
<1>1. /\ pc[c] = "connecting" /\ Leave(c, "failed") /\ Release /\ "failed" \in Over
      /\ UNCHANGED <<via, future, ws, reader, far, asked, replies>>
  BY DEF ConnectFails, Over
<1>2. lock[1] = c
  BY <1>1 DEF SockInv, LineInv
<1>3. LineInv' /\ lock' \in Seq(Caller)
  BY <1>1, <1>2, ReleaseFacts DEF Leave, Places, Over
<1>4. QED BY <1>1, <1>3, OverFacts

LEMMA SendInv == ASSUME SockInv, NEW c \in Caller, Send(c) PROVE SockInv'
<1> USE DEF SockInv
<1>1. /\ pc[c] = "sending" /\ Goto(c, "waiting")
      /\ UNCHANGED <<via, pending, future, lock, ws, reader, far, replies>>
  BY DEF Send
<1>2. /\ pc' \in [Caller -> Places] /\ pc'[c] = "waiting"
      /\ \A d \in Caller \ {c} : pc'[d] = pc[d]
  BY <1>1, GotoFacts DEF Places, Suspended
<1>3. asked' \in [Conn -> SUBSET Caller]
  BY DEF Send, SocketTypeOK
<1>4. SocketTypeOK'
  BY <1>1, <1>2, <1>3 DEF SocketTypeOK, Places
<1>5. LineInv'
  BY <1>1, AwayFacts DEF Places, Suspended
<1>6. NothingLeftPending' /\ FutureInv'
  BY <1>1, <1>2 DEF NothingLeftPending, FutureInv, Suspended
<1>7. ConnInv' /\ ViaInv'
  BY <1>1, <1>2 DEF ConnInv, ViaInv
<1>8. QED BY <1>4, <1>5, <1>6, <1>7

\* The ways a request ends that is not at the lock.
LEMMA EndInv ==
    ASSUME SockInv, NEW c \in Caller, SendFails(c) \/ Resume(c) \/ Timeout(c) PROVE SockInv'
<1>1. PICK place \in Over : Leave(c, place) /\ (place = "answered" => future[c] = c)
  <2>1. CASE SendFails(c)
    BY <2>1 DEF SendFails, Over
  <2>2. CASE Timeout(c)
    BY <2>2 DEF Timeout, Over
  <2>3. CASE Resume(c)
    <3>1. future[c] # Error => future[c] = c
      BY <2>3 DEF Resume, SockInv, FutureInv
    <3>2. CASE future[c] = Error
      BY <2>3, <3>2 DEF Resume, Over
    <3>3. CASE future[c] # Error
      BY <2>3, <3>1, <3>3 DEF Resume, Over
    <3>4. QED BY <3>2, <3>3
  <2>4. QED BY <2>1, <2>2, <2>3
<1>2. /\ pc[c] \in {"sending", "waiting"}
      /\ UNCHANGED <<via, future, lock, ws, reader, far, asked, replies>>
  BY DEF SendFails, Resume, Timeout
<1>3. LineInv'
  BY <1>1, <1>2, AwayFacts DEF Leave, Places, Over
<1>4. lock' \in Seq(Caller)
  BY <1>2 DEF SockInv, SocketTypeOK
<1>5. QED BY <1>1, <1>2, <1>3, <1>4, OverFacts

LEMMA CancelInv == ASSUME SockInv, NEW c \in Caller, Cancel(c) PROVE SockInv'
<1>1. /\ pc[c] \in Suspended /\ Leave(c, "cancelled") /\ "cancelled" \in Over
      /\ UNCHANGED <<via, future, ws, reader, far, asked, replies>>
  BY DEF Cancel, Over
<1>2. LineInv' /\ lock' \in Seq(Caller)
  <2>1. CASE pc[c] \in {"locking", "connecting"}
    <3>1. PICK i \in DOMAIN lock : lock[i] = c /\ lock' = RemoveAt(lock, i)
      BY <2>1 DEF Cancel
    <3>2. lock \in Seq(Caller) /\ i \in 1..Len(lock) /\ Distinct(lock)
      BY <3>1, LenProperties DEF SockInv, SocketTypeOK, LineInv
    <3>3. /\ lock' \in Seq(Caller) /\ Distinct(lock')
          /\ \A d : Among(d, lock') <=> d # c /\ Among(d, lock)
          /\ i # 1 => lock' # <<>> /\ lock'[1] = lock[1]
      BY <3>1, <3>2, RemovedFacts
    <3>4. pc'[c] = "cancelled" /\ \A d \in Caller \ {c} : pc'[d] = pc[d]
      BY <1>1, GotoFacts DEF Leave, Places
    <3>5. \A d \in Caller : Among(d, lock') <=> pc'[d] \in {"locking", "connecting"}
      BY <3>3, <3>4 DEF SockInv, LineInv
    <3>6. ASSUME NEW d \in Caller, pc'[d] = "connecting" PROVE lock' # <<>> /\ lock'[1] = d
      <4>1. d # c /\ pc[d] = "connecting"
        BY <3>4, <3>6
      <4>2. lock[1] = d
        BY <4>1 DEF SockInv, LineInv
      <4>3. QED BY <3>1, <3>3, <4>1, <4>2
    <3>7. QED BY <3>3, <3>5, <3>6 DEF LineInv
  <2>2. CASE pc[c] \notin {"locking", "connecting"}
    <3>1. UNCHANGED lock
      BY <2>2 DEF Cancel
    <3>2. LineInv'
      BY <1>1, <2>2, <3>1, AwayFacts DEF Leave, Places, Over
    <3>3. QED BY <3>1, <3>2 DEF SockInv, SocketTypeOK
  <2>3. QED BY <2>1, <2>2
<1>3. QED BY <1>1, <1>2, OverFacts

LEMMA StepKeeps == ASSUME SockInv, NEW c \in Caller, Step(c) PROVE SockInv'
BY LockedInv, ConnectedInv, ConnectFailsInv, SendInv, EndInv DEF Step

-----------------------------------------------------------------------------
(* A connection.                                                            *)

LEMMA AskedInv ==
    ASSUME SockInv, asked' \in [Conn -> SUBSET Caller], replies' \in [Conn -> SUBSET Caller],
           UNCHANGED <<pc, via, pending, future, lock, ws, reader, far>>
    PROVE  SockInv'
BY DEF SockInv, SocketTypeOK, NothingLeftPending, LineInv, FutureInv, ConnInv, ViaInv

LEMMA ReplyInv == ASSUME SockInv, NEW w \in Conn, Reply(w) PROVE SockInv'
<1>1. PICK c \in asked[w] : /\ asked' = [asked EXCEPT ![w] = @ \ {c}]
                            /\ replies' = [replies EXCEPT ![w] = @ \cup {c}]
  BY DEF Reply
<1>2. c \in Caller
  BY DEF SockInv, SocketTypeOK
<1>3. asked' \in [Conn -> SUBSET Caller] /\ replies' \in [Conn -> SUBSET Caller]
  BY <1>1, <1>2 DEF SockInv, SocketTypeOK
<1>4. QED BY <1>3, AskedInv DEF Reply

LEMMA DeliverInv == ASSUME SockInv, NEW w \in Conn, Deliver(w) PROVE SockInv'
<1> USE DEF SockInv
<1>1. PICK c \in replies[w] :
        /\ replies' = [replies EXCEPT ![w] = @ \ {c}]
        /\ future' = IF c \in pending /\ future[c] = Unset
                     THEN [future EXCEPT ![c] = c] ELSE future
  BY DEF Deliver
<1>2. c \in Caller /\ UNCHANGED <<pc, via, pending, lock, ws, reader, far, asked>>
  BY DEF Deliver, SocketTypeOK
<1>3. /\ future' \in [Caller -> Caller \cup {Unset, Error}]
      /\ \A d \in Caller : future'[d] = future[d] \/ (d = c /\ future'[d] = d)
  BY <1>1, <1>2 DEF SocketTypeOK
<1>4. replies' \in [Conn -> SUBSET Caller]
  BY <1>1, <1>2 DEF SocketTypeOK
<1>5. SocketTypeOK'
  BY <1>2, <1>3, <1>4 DEF SocketTypeOK
<1>6. NothingLeftPending' /\ LineInv' /\ ConnInv'
  BY <1>2 DEF NothingLeftPending, LineInv, ConnInv
<1>7. FutureInv' /\ ViaInv'
  BY <1>2, <1>3, Kinds DEF FutureInv, ViaInv
<1>8. QED BY <1>5, <1>6, <1>7

\* The end of a reader: whoever is not told waits on a connection that was
\* closed in silence.
LEMMA ReaderOverInv ==
    ASSUME SockInv, NEW w \in Conn, reader[w] = "on",
           reader' = [reader EXCEPT ![w] = "over"],
           ws' = (IF ws = w THEN NoConn ELSE ws),
           future' \in [Caller -> Caller \cup {Unset, Error}], FutureInv',
           \A c \in Caller : future[c] # Unset => future'[c] # Unset,
           far[w] = "closed" \/ \A c \in Caller : c \in pending => future'[c] # Unset,
           UNCHANGED <<pc, via, pending, lock, far, asked, replies>>
    PROVE  SockInv'
<1> USE DEF SockInv
<1>1. /\ reader' \in [Conn -> {"off", "on", "over"}] /\ reader'[w] = "over"
      /\ \A v \in Conn \ {w} : reader'[v] = reader[v]
  BY DEF SocketTypeOK
<1>2. SocketTypeOK'
  BY <1>1 DEF SocketTypeOK
<1>3. NothingLeftPending' /\ LineInv'
  BY DEF NothingLeftPending, LineInv
<1>4. ConnInv'
  BY <1>1, Kinds DEF ConnInv, SocketTypeOK
<1>5. ViaInv'
  <2>1. ASSUME NEW c \in Caller, pc[c] \in {"sending", "waiting"}
        PROVE  /\ via[c] \in Conn /\ reader'[via[c]] # "off"
               /\ future'[c] = Unset /\ reader'[via[c]] = "over" => far[via[c]] = "closed"
    <3>1. c \in pending
      BY <2>1 DEF NothingLeftPending, Suspended
    <3>2. via[c] \in Conn /\ reader[via[c]] # "off"
      BY <2>1 DEF ViaInv
    <3>3. CASE via[c] = w
      BY <1>1, <3>1, <3>2, <3>3
    <3>4. CASE via[c] # w
      BY <1>1, <2>1, <3>2, <3>4 DEF ViaInv
    <3>5. QED BY <3>3, <3>4
  <2>2. QED BY <2>1 DEF ViaInv
<1>6. QED BY <1>2, <1>3, <1>4, <1>5

LEMMA ReaderBreaksInv == ASSUME SockInv, NEW w \in Conn, ReaderBreaks(w) PROVE SockInv'
<1>1. /\ reader[w] = "on" /\ reader' = [reader EXCEPT ![w] = "over"]
      /\ ws' = (IF ws = w THEN NoConn ELSE ws)
      /\ future' = [c \in Caller |->
                      IF c \in pending /\ future[c] = Unset THEN Error ELSE future[c]]
      /\ UNCHANGED <<pc, via, pending, lock, far, asked, replies>>
  BY DEF ReaderBreaks
<1>2. future' \in [Caller -> Caller \cup {Unset, Error}]
  BY <1>1 DEF SockInv, SocketTypeOK
<1>3. \A c \in Caller : future'[c] = (IF c \in pending /\ future[c] = Unset THEN Error ELSE future[c])
  BY <1>1
<1>4. \A c \in Caller : future[c] # Unset => future'[c] # Unset
  BY <1>3
<1>5. \A c \in Caller : c \in pending => future'[c] # Unset
  BY <1>3, Kinds
<1>6. FutureInv'
  BY <1>1, <1>3, Kinds DEF SockInv, FutureInv
<1>7. QED BY <1>1, <1>2, <1>4, <1>5, <1>6, ReaderOverInv

LEMMA ReaderEndsInv == ASSUME SockInv, NEW w \in Conn, ReaderEnds(w) PROVE SockInv'
<1>1. /\ reader[w] = "on" /\ far[w] = "closed" /\ reader' = [reader EXCEPT ![w] = "over"]
      /\ ws' = (IF ws = w THEN NoConn ELSE ws)
      /\ UNCHANGED <<pc, via, pending, future, lock, far, asked, replies>>
  BY DEF ReaderEnds
<1>2. future' \in [Caller -> Caller \cup {Unset, Error}] /\ FutureInv'
  BY <1>1 DEF SockInv, SocketTypeOK, FutureInv
<1>3. \A c \in Caller : future'[c] = future[c]
  BY <1>1
<1>4. QED BY <1>1, <1>2, <1>3, ReaderOverInv

LEMMA DropInv == ASSUME SockInv, NEW w \in Conn, Drop(w) PROVE SockInv'
<1> USE DEF SockInv
<1>1. PICK how \in {"broken", "closed"} : far' = [far EXCEPT ![w] = how]
  BY DEF Drop
<1>2. /\ far[w] = "open"
      /\ UNCHANGED <<pc, via, pending, future, lock, ws, reader, asked, replies>>
  BY DEF Drop
<1>3. /\ far' \in [Conn -> {"none", "open", "broken", "closed"}] /\ far'[w] = how
      /\ \A v \in Conn \ {w} : far'[v] = far[v]
  BY <1>1 DEF SocketTypeOK
<1>4. SocketTypeOK'
  BY <1>2, <1>3 DEF SocketTypeOK
<1>5. NothingLeftPending' /\ LineInv' /\ FutureInv'
  BY <1>2 DEF NothingLeftPending, LineInv, FutureInv
<1>6. ConnInv'
  <2>1. ASSUME ws # NoConn PROVE ws \in Conn
    BY <2>1 DEF SocketTypeOK
  <2>2. QED BY <1>2, <1>3, <2>1 DEF ConnInv
<1>7. ViaInv'
  BY <1>2, <1>3 DEF ViaInv
<1>8. QED BY <1>4, <1>5, <1>6, <1>7
-----------------------------------------------------------------------------
(* The walk.                                                                *)

LEMMA HistStepInv == HistInv /\ [HistNext]_histVars => HistInv'
<1> SUFFICES ASSUME HistInv, [HistNext]_histVars PROVE HistInv'
  OBVIOUS
<1> USE DEF HistInv
<1>1. Window = Caller
  BY WalkAssumption DEF Window
<1>2. ASSUME SockInv', UNCHANGED <<stage, answers>> PROVE HistInv'
  BY <1>2 DEF HistTypeOK, SockInv
<1>3. ASSUME NEW i \in Window, Fetch(i) PROVE HistInv'
  BY <1>1, <1>2, <1>3, RequestInv DEF Fetch
<1>4. ASSUME NEW place \in {"older", "done", "cancelled"}, stage' = place, UNCHANGED <<sock, answers>>
      PROVE  HistInv'
  <2>1. SockInv'
    BY <1>4, AskedInv DEF sock, SockInv, SocketTypeOK
  <2>2. QED BY <1>4, <2>1 DEF HistTypeOK, SockInv
<1>5. ASSUME EndBatch PROVE HistInv'
  <2>1. stage' \in {"older", "done", "cancelled"} /\ UNCHANGED <<sock, answers>>
    BY <1>5 DEF EndBatch
  <2>2. QED BY <1>4, <2>1
<1>6. ASSUME CancelWalk PROVE HistInv'
  BY <1>4, <1>6 DEF CancelWalk
<1>7. ASSUME NEW w \in Conn, Answered(w) PROVE HistInv'
  <2>1. SockInv' /\ UNCHANGED stage
    BY <1>7, ReplyInv DEF Answered
  <2>2. answers' \in [Window -> Answer]
    BY <1>7 DEF Answered, HistTypeOK
  <2>3. QED BY <2>1, <2>2 DEF HistTypeOK, SockInv
<1>8. ASSUME NEW w \in Conn, OtherLine(w), Elsewhere PROVE HistInv'
  BY <1>2, <1>8, DeliverInv, ReaderBreaksInv, ReaderEndsInv, DropInv DEF OtherLine, Elsewhere
<1>9. ASSUME NEW c \in Caller, WindowRuns(c) PROVE HistInv'
  <2>1. SockInv' /\ UNCHANGED <<stage, answers>>
    BY <1>9, CancelInv, StepKeeps DEF WindowRuns, Elsewhere
  <2>2. QED BY <1>2, <2>1
<1>10. ASSUME UNCHANGED histVars PROVE HistInv'
  <2>1. SockInv'
    BY <1>10, AskedInv DEF histVars, sock, SockInv, SocketTypeOK
  <2>2. QED BY <1>2, <1>10, <2>1 DEF histVars
<1>11. QED BY <1>3, <1>5, <1>6, <1>7, <1>8, <1>9, <1>10 DEF HistNext

\* The conjunction is an invariant of a walk over the shared connection.
THEOREM WalkInvariant == HistSpec => []HistInv
BY HistInitInv, HistStepInv, PTL DEF HistSpec

LEMMA OneAtMost ==
    ASSUME NEW S, NEW x, S \subseteq {x}
    PROVE  Cardinality(S) <= 1
<1>1. S = {} \/ S = {x}
  OBVIOUS
<1>2. Cardinality({}) = 0 /\ Cardinality({x}) = 1
  BY FS_EmptySet, FS_Singleton
<1>3. QED BY <1>1, <1>2

\* DerivSocket under a walk: nothing is left in _pending, one handshake at a time
\* and one connection that is read and open, and a break is heard by all who wait.
THEOREM LineStaysSound == HistSpec => []LineIsSound
<1>1. ASSUME HistInv PROVE OneConnection
  <2> DEFINE shaking == {c \in Caller : pc[c] = "connecting"}
             live == {w \in Conn : far[w] = "open" /\ reader[w] = "on"}
  <2>1. shaking \subseteq {lock[1]}
    BY <1>1 DEF HistInv, SockInv, LineInv
  <2>2. live \subseteq {ws}
    BY <1>1 DEF HistInv, SockInv, ConnInv
  <2>3. Cardinality(shaking) <= 1 /\ Cardinality(live) <= 1
    BY <2>1, <2>2, OneAtMost
  <2>4. QED BY <2>3 DEF OneConnection
<1>2. HistInv => DropsAreHeard
  BY DEF HistInv, SockInv, ViaInv, DropsAreHeard
<1>3. HistInv => LineIsSound
  BY <1>1, <1>2 DEF HistInv, SockInv, LineIsSound
<1>4. QED BY <1>3, WalkInvariant, PTL

\* DerivSocket.request: an answer is the answer to the request that gets it, or
\* there is none, whatever drops or is cancelled: every step is one of Exchange.
THEOREM AnswersReachTheirRequest == HistSpec => KeepsItsPromise
<1> DEFINE away == {c \in Caller : pc[c] \in Suspended}
           mine == [c \in Caller |-> IF pc[c] = "answered" THEN future[c] ELSE c]
           own == [c \in Caller |-> c]
<1>1. HistInit => Promise!Init
  BY DEF HistInit, SocketInit, Promise!Init, Suspended
<1>2. ASSUME HistInv PROVE mine = own
  BY <1>2 DEF HistInv, SockInv, FutureInv
<1>3. ASSUME HistInv, HistInv', [HistNext]_histVars
      PROVE  [Promise!Next]_Promise!vars
  <2>1. mine = own /\ mine' = own
    <3>1. mine = own
      BY <1>2, <1>3
    <3>2. mine' = own
      BY <1>3 DEF HistInv, SockInv, FutureInv
    <3>3. QED BY <3>1, <3>2
  <2> HIDE DEF mine
  <2>2. ASSUME NEW c \in Caller, NEW place \in Places, Goto(c, place)
        PROVE  away' = IF place \in Suspended THEN away \cup {c} ELSE away \ {c}
    BY <1>3, <2>2, GotoFacts DEF HistInv
  <2>3. ASSUME away' = away PROVE UNCHANGED Promise!vars
    BY <2>1, <2>3 DEF Promise!vars, mine
  <2>4. ASSUME NEW c \in Caller, Request(c) PROVE Promise!Ask(c)
    <3>1. PICK place \in {"sending", "connecting", "locking"} : Goto(c, place)
      BY <2>4 DEF Request
    <3>2. away' = away \cup {c}
      BY <2>2, <3>1 DEF Places, Suspended
    <3>3. c \notin away
      BY <2>4 DEF Request, Suspended
    <3>4. QED BY <2>1, <3>2, <3>3 DEF Promise!Ask, mine
  <2>5. ASSUME NEW c \in Caller, Locked(c) \/ Connected(c) \/ Send(c) PROVE away' = away
    <3>1. PICK place \in Suspended : Goto(c, place) /\ pc[c] \in Suspended
      BY <2>5 DEF Locked, Connected, Send, Suspended
    <3>2. QED BY <2>2, <3>1 DEF Places
  <2>6. ASSUME NEW c \in Caller, NEW place \in Over, Leave(c, place), pc[c] \in Suspended
        PROVE  c \in away /\ away' = away \ {c}
    BY <2>2, <2>6 DEF Leave, Places, Over, Suspended
  <2>7. ASSUME NEW c \in Caller, ConnectFails(c) \/ SendFails(c) \/ Timeout(c) \/ Resume(c)
        PROVE  Promise!Fail(c)
    <3>1. PICK place \in Over : Leave(c, place) /\ pc[c] \in Suspended
      BY <2>7 DEF ConnectFails, SendFails, Timeout, Resume, Over, Suspended
    <3>2. c \in away /\ away' = away \ {c}
      BY <2>6, <3>1
    <3>3. QED BY <2>1, <3>2 DEF Promise!Fail, mine
  <2>8. ASSUME NEW c \in Caller, Cancel(c) PROVE Promise!GiveUp
    <3>1. c \in away /\ away' = away \ {c}
      BY <2>6, <2>8 DEF Cancel, Over
    <3>2. {c} \in SUBSET away
      BY <3>1
    <3>3. QED BY <2>1, <3>1, <3>2 DEF Promise!GiveUp, mine
  <2>9. ASSUME UNCHANGED pc PROVE away' = away
    BY <2>9
  <2> HIDE DEF away
  <2>10. ASSUME NEW i \in Window, Fetch(i) PROVE Promise!Next
    BY <2>4, <2>10, WalkAssumption DEF Fetch, Promise!Next, Window
  <2>11. ASSUME NEW c \in Caller, WindowRuns(c) PROVE [Promise!Next]_Promise!vars
    BY <2>3, <2>5, <2>7, <2>8, <2>11 DEF WindowRuns, Step, Promise!Next
  <2>12. ASSUME EndBatch \/ CancelWalk \/ (\E w \in Conn : Answered(w) \/ OtherLine(w)) \/ UNCHANGED histVars
         PROVE  UNCHANGED Promise!vars
    <3>1. UNCHANGED pc
      BY <2>12 DEF EndBatch, CancelWalk, Answered, Reply, OtherLine, Deliver, ReaderBreaks,
                   ReaderEnds, Drop, histVars, sock
    <3>2. QED BY <2>3, <2>9, <3>1
  <2>13. QED BY <1>3, <2>10, <2>11, <2>12 DEF HistNext
<1>4. QED
  BY <1>1, <1>3, WalkInvariant, PTL DEF HistSpec, KeepsItsPromise, Promise!Spec
-----------------------------------------------------------------------------
(* What a finished walk says.                                               *)

(* Deriv answers what was sent, once: a window without an answer has none,  *)
(* whatever becomes of the request, and an answer stays what it was.        *)
Unsent == {"idle", "locking", "connecting", "sending"}

AnswerInv ==
    /\ \A w \in Conn : \A i \in asked[w] : w = via[i] /\ pc[i] \notin Unsent /\ answers[i] = "none yet"
    /\ \A w \in Conn : \A i \in replies[w] : answers[i] # "none yet"
    /\ \A i \in Window : future[i] = i => answers[i] # "none yet"
    /\ \A i \in Window : answers[i] # "none yet" => pc[i] \notin Unsent

(* A pass is over when all its windows are, and the walk is when there are  *)
(* bars or no more windows.                                                 *)
PassInv ==
    /\ stage \in {"older", "done"} => \A i \in 0..(Planned - 1) : pc[i] \in Over
    /\ stage = "done" => Frames # {} \/ \A i \in Window : pc[i] \in Over

HonestInv == AnswerInv /\ PassInv

LEMMA PlannedFacts ==
    /\ Planned \in 1..MaxPages /\ 0..(Planned - 1) \subseteq Window
    /\ \A i \in Window : i * PageSpan < Span => i \in 0..(Planned - 1)
<1> DEFINE pages == (Span + PageSpan - 1) \div PageSpan
<1>1. MaxPages \in Nat \ {0} /\ PageSpan \in Nat \ {0} /\ Span \in Nat
  BY WalkAssumption
<1>2. pages \in Nat
  BY <1>1
<1>3. ASSUME NEW i \in Window, i * PageSpan < Span PROVE i < pages
  <2>1. pages \in Nat /\ Span + PageSpan - 1 < (pages + 1) * PageSpan
    BY <1>1
  <2>2. (i + 1) * PageSpan <= Span + PageSpan - 1
    BY <1>1, <1>3 DEF Window
  <2>3. (i + 1) * PageSpan < (pages + 1) * PageSpan
    BY <1>1, <2>1, <2>2 DEF Window
  <2> HIDE DEF pages
  <2>4. i + 1 < pages + 1
    BY <1>1, <2>1, <2>3 DEF Window
  <2>5. QED BY <2>1, <2>4 DEF Window
<1>4. Planned = Min({MaxPages, Max({1, pages})})
  BY DEF Planned
<1> HIDE DEF pages
<1>5. Max({1, pages}) = IF 1 >= pages THEN 1 ELSE pages
  BY <1>2 DEF Max
<1>6. Planned = IF MaxPages <= Max({1, pages}) THEN MaxPages ELSE Max({1, pages})
  BY <1>1, <1>2, <1>4, <1>5 DEF Min
<1>7. Planned \in 1..MaxPages
  BY <1>1, <1>2, <1>5, <1>6
<1>8. \A i \in Window : i * PageSpan < Span => i \in 0..(Planned - 1)
  BY <1>1, <1>2, <1>3, <1>5, <1>6 DEF Window
<1>9. QED BY <1>1, <1>7, <1>8 DEF Window

\* What one request does, seen from the answers.
LEMMA RequestMoves ==
    ASSUME HistInv, AnswerInv, NEW c \in Window, UNCHANGED answers,
           Request(c) \/ Cancel(c) \/ Step(c)
    PROVE  /\ AnswerInv'
           /\ \A i \in Window : pc[i] \in Over => pc'[i] = pc[i]
<1>1. Window = Caller /\ SocketTypeOK /\ SockInv
  BY WalkAssumption DEF Window, HistInv, SockInv
<1>2. \A i \in Window \ {c} : pc'[i] = pc[i] /\ via'[i] = via[i]
  BY <1>1 DEF Request, Cancel, Step, Locked, Connected, ConnectFails, Send, SendFails, Resume,
              Timeout, Leave, Goto, SocketTypeOK
<1>3. /\ future' = future /\ replies' = replies /\ pc[c] \notin Over
      /\ pc[c] \notin Unsent => pc'[c] \notin Unsent /\ via'[c] = via[c]
  BY <1>1 DEF Request, Cancel, Step, Locked, Connected, ConnectFails, Send, SendFails, Resume,
              Timeout, Leave, Goto, Unsent, Suspended, Over, SocketTypeOK
<1>4. \A i \in Window : pc[i] \notin Unsent => pc'[i] \notin Unsent /\ via'[i] = via[i]
  BY <1>2, <1>3
<1>5. \A w \in Conn : asked[w] \subseteq Window
  BY <1>1 DEF SocketTypeOK
<1>6. ASSUME NEW w \in Conn, NEW i \in asked'[w]
      PROVE  i \in Window /\ w = via'[i] /\ pc'[i] \notin Unsent /\ answers[i] = "none yet"
  <2>1. CASE i \in asked[w]
    BY <1>4, <1>5, <2>1 DEF AnswerInv
  <2>2. CASE i \notin asked[w]
    <3>1. Send(c) /\ asked' = [asked EXCEPT ![via[c]] = @ \cup {c}]
      BY <1>6, <2>2 DEF Request, Cancel, Step, Locked, Connected, ConnectFails, Send, SendFails,
                        Resume, Timeout
    <3>2. i = c /\ w = via[c]
      BY <1>1, <1>6, <2>2, <3>1 DEF SocketTypeOK
    <3>3. pc[c] = "sending" /\ pc'[c] = "waiting" /\ via' = via
      BY <1>1, <3>1 DEF Send, Goto, SocketTypeOK
    <3>4. answers[c] = "none yet"
      BY <3>3 DEF AnswerInv, Unsent
    <3>5. QED BY <3>2, <3>3, <3>4 DEF Unsent
  <2>3. QED BY <2>1, <2>2
<1>7. AnswerInv'
  BY <1>3, <1>4, <1>6 DEF AnswerInv
<1>8. QED BY <1>2, <1>3, <1>7

\* What the reader, and the end of a connection, change for the answers: nothing.
LEMMA LineMoves ==
    ASSUME HistInv, AnswerInv, NEW w \in Conn, OtherLine(w), UNCHANGED answers
    PROVE  AnswerInv' /\ UNCHANGED pc
<1>1. Window = Caller /\ SocketTypeOK
  BY WalkAssumption DEF Window, HistInv, SockInv
<1>2. UNCHANGED <<pc, via, asked>>
  BY DEF OtherLine, Deliver, ReaderBreaks, ReaderEnds, Drop
<1>3. \A v \in Conn : replies'[v] \subseteq replies[v]
  BY <1>1 DEF OtherLine, Deliver, ReaderBreaks, ReaderEnds, Drop, SocketTypeOK
<1>4. ASSUME NEW i \in Window, future'[i] = i PROVE answers[i] # "none yet"
  <2>1. CASE future[i] = i
    BY <2>1 DEF AnswerInv
  <2>2. CASE future[i] # i
    <3>1. Deliver(w)
      BY <1>1, <1>4, <2>2, Kinds DEF OtherLine, ReaderBreaks, ReaderEnds, Drop
    <3>2. i \in replies[w]
      BY <1>1, <1>4, <2>2, <3>1 DEF Deliver, SocketTypeOK
    <3>3. QED BY <3>2 DEF AnswerInv
  <2>3. QED BY <2>1, <2>2
<1>5. QED BY <1>2, <1>3, <1>4 DEF AnswerInv

\* An answer of Deriv is the first to its window, which has not heard of it yet.
LEMMA AnsweredMoves ==
    ASSUME HistInv, AnswerInv, NEW w \in Conn, Answered(w)
    PROVE  /\ AnswerInv' /\ UNCHANGED pc
           /\ \A i \in Window : pc[i] = "answered" => answers'[i] = answers[i]
<1>1. Window = Caller /\ SocketTypeOK /\ answers \in [Window -> Answer]
  BY WalkAssumption DEF Window, HistInv, SockInv, HistTypeOK
<1>2. PICK c \in asked[w] : /\ asked' = [asked EXCEPT ![w] = @ \ {c}]
                            /\ replies' = [replies EXCEPT ![w] = @ \cup {c}]
  BY DEF Answered, Reply
<1>3. UNCHANGED <<pc, via, future>>
  BY DEF Answered, Reply
<1>4. asked[w] \ asked'[w] = {c}
  BY <1>1, <1>2 DEF SocketTypeOK
<1>5. PICK a \in Answer \ {"none yet"} : answers' = [answers EXCEPT ![c] = a]
  BY <1>4 DEF Answered
<1>6. c \in Window /\ w = via[c] /\ pc[c] \notin Unsent /\ answers[c] = "none yet"
  BY <1>1 DEF AnswerInv, SocketTypeOK
<1>7. answers'[c] = a /\ a # "none yet" /\ \A i \in Window \ {c} : answers'[i] = answers[i]
  BY <1>1, <1>5, <1>6
<1>8. ASSUME NEW v \in Conn, NEW i \in asked'[v] PROVE i \in asked[v] /\ i \in Window /\ i # c
  <2>1. i \in asked[v] /\ i \in Window
    BY <1>1, <1>2, <1>8 DEF SocketTypeOK
  <2>2. v = via[i]
    BY <2>1 DEF AnswerInv
  <2>3. v = w => i # c
    BY <1>1, <1>2, <1>8 DEF SocketTypeOK
  <2>4. QED BY <1>6, <2>1, <2>2, <2>3
<1>9. \A v \in Conn : \A i \in replies'[v] : i = c \/ (i \in replies[v] /\ i \in Window)
  BY <1>1, <1>2 DEF SocketTypeOK
<1>10. AnswerInv'
  <2>1. \A v \in Conn : \A i \in asked'[v] :
           v = via'[i] /\ pc'[i] \notin Unsent /\ answers'[i] = "none yet"
    BY <1>3, <1>7, <1>8 DEF AnswerInv
  <2>2. \A v \in Conn : \A i \in replies'[v] : answers'[i] # "none yet"
    BY <1>7, <1>9 DEF AnswerInv
  <2>3. ASSUME NEW i \in Window
        PROVE  /\ future'[i] = i => answers'[i] # "none yet"
               /\ answers'[i] # "none yet" => pc'[i] \notin Unsent
    <3>1. CASE i = c
      BY <1>3, <1>6, <1>7, <3>1
    <3>2. CASE i # c
      BY <1>3, <1>7, <3>2 DEF AnswerInv
    <3>3. QED BY <3>1, <3>2
  <2>4. QED BY <2>1, <2>2, <2>3 DEF AnswerInv
<1>11. \A i \in Window : pc[i] = "answered" => i # c
  BY <1>1, <1>6 DEF AnswerInv, HistInv, SockInv, FutureInv
<1>12. QED BY <1>3, <1>7, <1>10, <1>11

\* While the windows run, what is over stays over and bars stay bars.
LEMMA PassKept ==
    ASSUME PassInv, stage' = stage \/ stage' = "cancelled",
           \A i \in Window : pc[i] \in Over => pc'[i] = pc[i],
           \A i \in Window : pc[i] = "answered" => answers'[i] = answers[i]
    PROVE  PassInv'
<1>1. Frames \subseteq Frames'
  BY DEF Frames, Over
<1>2. \A i \in 0..(Planned - 1) : i \in Window
  BY PlannedFacts
<1>3. (0..(Planned - 1))' = 0..(Planned - 1)
  BY DEF Planned
<1>4. QED BY <1>1, <1>2, <1>3 DEF PassInv

\* A pass that brought nothing is followed by the other, if there is another.
LEMMA EndBatchPasses == ASSUME PassInv, EndBatch PROVE PassInv'
<1>1. /\ Batch # {} /\ \A i \in Batch : pc[i] \in Over
      /\ stage' = IF stage = "planned" /\ Frames = {} /\ Planned < MaxPages THEN "older" ELSE "done"
      /\ pc' = pc /\ answers' = answers
  BY DEF EndBatch, sock
<1>2. Frames' = Frames /\ (0..(Planned - 1))' = 0..(Planned - 1)
  BY <1>1 DEF Frames, Planned
<1>3. MaxPages \in Nat /\ Planned \in 1..MaxPages
  BY WalkAssumption, PlannedFacts
<1>4. CASE stage = "planned"
  <2>1. \A i \in 0..(Planned - 1) : pc[i] \in Over
    BY <1>1, <1>4 DEF Batch
  <2>2. stage' = "done" => Frames # {} \/ Planned = MaxPages
    BY <1>1, <1>3, <1>4
  <2>3. QED BY <1>1, <1>2, <2>1, <2>2 DEF PassInv, Window
<1>5. CASE stage = "older"
  <2>1. \A i \in 0..(Planned - 1) : pc[i] \in Over
    BY <1>5 DEF PassInv
  <2>2. \A i \in Planned..(MaxPages - 1) : pc[i] \in Over
    BY <1>1, <1>5 DEF Batch
  <2>3. \A i \in Window : pc[i] \in Over
    BY <1>3, <2>1, <2>2 DEF Window
  <2>4. QED BY <1>1, <1>2, <2>1, <2>3 DEF PassInv
<1>6. QED BY <1>1, <1>4, <1>5 DEF Batch

LEMMA HonestInitInv == HistInit => HonestInv
<1> SUFFICES ASSUME HistInit PROVE HonestInv
  OBVIOUS
<1>1. Window = Caller
  BY WalkAssumption DEF Window
<1>2. AnswerInv
  BY <1>1, Kinds DEF HistInit, SocketInit, AnswerInv
<1>3. PassInv
  BY DEF HistInit, PassInv
<1>4. QED BY <1>2, <1>3 DEF HonestInv

LEMMA HonestStepInv == HistInv /\ HonestInv /\ [HistNext]_histVars => HonestInv'
<1> SUFFICES ASSUME HistInv, AnswerInv, PassInv, [HistNext]_histVars PROVE AnswerInv' /\ PassInv'
  BY DEF HonestInv
<1>1. Window = Caller
  BY WalkAssumption DEF Window
<1>2. ASSUME NEW c \in Window, Request(c) \/ Cancel(c) \/ Step(c), UNCHANGED <<stage, answers>>
      PROVE  AnswerInv' /\ PassInv'
  BY <1>2, RequestMoves, PassKept
<1>3. ASSUME UNCHANGED sock, UNCHANGED answers PROVE AnswerInv'
  BY <1>3 DEF sock, AnswerInv
<1>4. ASSUME NEW i \in Window, Fetch(i) PROVE AnswerInv' /\ PassInv'
  BY <1>2, <1>4 DEF Fetch
<1>5. CASE EndBatch
  BY <1>3, <1>5, EndBatchPasses DEF EndBatch
<1>6. CASE CancelWalk
  <2>1. stage' = "cancelled" /\ pc' = pc /\ UNCHANGED <<sock, answers>>
    BY <1>6 DEF CancelWalk, sock
  <2>2. QED BY <1>3, <2>1, PassKept
<1>7. ASSUME NEW w \in Conn, Answered(w) PROVE AnswerInv' /\ PassInv'
  <2>1. stage' = stage
    BY <1>7 DEF Answered
  <2>2. QED BY <1>7, <2>1, AnsweredMoves, PassKept
<1>8. ASSUME NEW w \in Conn, OtherLine(w), Elsewhere PROVE AnswerInv' /\ PassInv'
  <2>1. stage' = stage /\ answers' = answers
    BY <1>8 DEF Elsewhere
  <2>2. QED BY <1>8, <2>1, LineMoves, PassKept
<1>9. ASSUME NEW c \in Caller, WindowRuns(c) PROVE AnswerInv' /\ PassInv'
  BY <1>1, <1>2, <1>9 DEF WindowRuns, Elsewhere
<1>10. CASE UNCHANGED histVars
  <2>1. stage' = stage /\ pc' = pc /\ UNCHANGED <<sock, answers>>
    BY <1>10 DEF histVars, sock
  <2>2. QED BY <1>3, <2>1, PassKept
<1>11. QED BY <1>4, <1>5, <1>6, <1>7, <1>8, <1>9, <1>10 DEF HistNext

\* What a finished walk says is what the market printed, for any range, any
\* number of windows and whatever befalls the connections.
THEOREM WalkIsHonest == HistSpec => []HonestWalk
<1>1. ASSUME HistInv, HonestInv PROVE HonestWalk
  <2> SUFFICES ASSUME stage = "done", ~VendorFailed
               PROVE  /\ \A i \in Window : i * PageSpan < Span => answers[i] \in {"bars", "empty"}
                      /\ Frames = {} => \A i \in Window : answers[i] = "empty"
    BY DEF HonestWalk
  <2>1. ASSUME NEW i \in Window, pc[i] \in Over
        PROVE  pc[i] = "answered" /\ answers[i] \in {"bars", "empty"}
    <3>1. pc[i] = "answered" /\ answers[i] # "refused"
      BY <2>1 DEF VendorFailed, Asked, Fetched, Over
    <3>2. i \in Caller
      BY WalkAssumption DEF Window
    <3>3. answers[i] # "none yet"
      BY <1>1, <3>1, <3>2 DEF HistInv, SockInv, FutureInv, HonestInv, AnswerInv
    <3>4. answers[i] \in Answer
      BY <1>1 DEF HistInv, HistTypeOK
    <3>5. QED BY <3>1, <3>3, <3>4 DEF Answer
  <2>2. \A i \in Window : i * PageSpan < Span => pc[i] \in Over
    BY <1>1, PlannedFacts DEF HonestInv, PassInv
  <2>3. ASSUME Frames = {} PROVE \A i \in Window : answers[i] = "empty"
    <3>1. \A i \in Window : pc[i] \in Over
      BY <1>1, <2>3 DEF HonestInv, PassInv
    <3>2. QED BY <2>1, <2>3, <3>1 DEF Frames
  <2>4. QED BY <2>1, <2>2, <2>3
<1>2. HistSpec => []HonestInv
  BY HonestInitInv, HonestStepInv, WalkInvariant, PTL DEF HistSpec
<1>3. QED BY <1>1, <1>2, WalkInvariant, PTL
==============================================================================
