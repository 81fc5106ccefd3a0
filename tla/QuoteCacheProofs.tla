-------------------------- MODULE QuoteCacheProofs --------------------------
(***************************************************************************)
(* Proofs about QuoteCache, for any number of coroutines and locks.        *)
(***************************************************************************)
EXTENDS QuoteCache, SequenceLemmas, SequenceTheorems, TLAPS

LOCAL INSTANCE SequencesExt

Queued(c) == pc[c] \in {"waiting", "woken"}

(* What the lock table and the queues maintain, cancellations included.     *)
HolderInv ==
    /\ \A c \in Caller : pc[c] = "idle" <=> held[c] = NoLock
    /\ \A c \in Caller : Fetching(c) => locked[held[c]]
    /\ \A l \in Lock : locked[l] => \E c \in Caller : Fetching(c) /\ held[c] = l

QueueInv ==
    /\ \A l \in Lock : \A i \in 1..Len(waiters[l]) :
          Queued(waiters[l][i]) /\ held[waiters[l][i]] = l
    /\ \A l \in Lock : \A i, j \in 1..Len(waiters[l]) :
          waiters[l][i] = waiters[l][j] => i = j
    /\ \A c \in Caller : Queued(c) =>
          \E i \in 1..Len(waiters[held[c]]) : waiters[held[c]][i] = c

WokenInv ==
    \A c \in Caller : pc[c] = "woken" =>
        ~locked[held[c]] /\ waiters[held[c]][1] = c

WakeInv ==
    \A l \in Lock :
        waiters[l] # <<>> /\ ~locked[l] => pc[waiters[l][1]] = "woken"

LockTypes ==
    /\ locked \in [Lock -> BOOLEAN]
    /\ waiters \in [Lock -> Seq(Caller)]
    /\ pc \in [Caller -> Places]
    /\ held \in [Caller -> Lock \cup {NoLock}]

LockInv ==
    TypeOK /\ HolderInv /\ LockExcludes /\ QueueInv /\ WokenInv /\ WakeInv

(* What holds besides until a request is cut short: a flight is the only    *)
(* one, all who wait do so on its lock, which the table names; with no      *)
(* flight, those who have not returned yet will find an entry.              *)
FlightInv ==
    /\ SingleFlight
    /\ \A c, d \in Caller :
          Fetching(c) /\ pc[d] # "idle" => held[d] = held[c] /\ table = held[c]
    /\ (\A c \in Caller : ~Fetching(c)) /\ (\E c \in Caller : pc[c] # "idle")
          => Answerable

\* What a queue holds are coroutines, the oldest first.
LEMMA QueueElements ==
    ASSUME LockTypes
    PROVE  \A l \in Lock :
              /\ \A i \in 1..Len(waiters[l]) : waiters[l][i] \in Caller
              /\ waiters[l] # <<>> => 1 \in 1..Len(waiters[l])
  BY ElementOfSeq, EmptySeq DEF LockTypes

\* q is what the queue of c's lock is without c, who alone may hold the lock.
LeavesBehind(c, q) ==
    /\ q \in Seq(Caller)
    /\ \A d \in Caller : Fetching(d) /\ held[d] = held[c] => d = c
    /\ \A i \in 1..Len(q) : q[i] # c /\ Queued(q[i]) /\ held[q[i]] = held[c]
    /\ \A i, j \in 1..Len(q) : q[i] = q[j] => i = j
    /\ \A d \in Caller \ {c} : Queued(d) /\ held[d] = held[c] =>
          \E i \in 1..Len(q) : q[i] = d
    /\ \A d \in Caller \ {c} : pc[d] = "woken" /\ held[d] = held[c] =>
          q # <<>> /\ q[1] = d

\* Whoever leaves a lock unlocked keeps the table and the queues in order.
LEMMA LeaveKeepsLockInv ==
    ASSUME LockInv, NEW c \in Caller, pc[c] # "idle", NEW q, LeavesBehind(c, q),
           Leave(c, q), cached' \in BOOLEAN, negative' \in BOOLEAN,
           disturbed' \in BOOLEAN
    PROVE  LockInv'
<1> DEFINE l == held[c]
<1> USE NoLockAssumption DEF Queued, Fetching
<1>0. /\ LockTypes /\ l \in Lock
      /\ q # <<>> => Head(q) = q[1] /\ q[1] \in Caller /\ 1 \in 1..Len(q)
  BY EmptySeq DEF LockInv, TypeOK, HolderInv, LockTypes, LeavesBehind
<1>1. TypeOK'
  BY <1>0 DEF LockInv, TypeOK, Places, Leave, LeavesBehind
<1>2. \A d \in Caller :
         /\ held'[d] = IF d = c THEN NoLock ELSE held[d]
         /\ pc'[d] = IF d = c THEN "idle"
                     ELSE IF q # <<>> /\ d = q[1] THEN "woken" ELSE pc[d]
  BY <1>0 DEF LockTypes, Leave
<1>3. q # <<>> => q[1] # c /\ Queued(q[1]) /\ held[q[1]] = l
  BY <1>0 DEF LeavesBehind
<1>4. \A d \in Caller : d # c => (Fetching(d)' <=> Fetching(d)) /\ (Queued(d)' <=> Queued(d))
  BY <1>2, <1>3
<1>5. \A m \in Lock : /\ locked'[m] = IF m = l THEN FALSE ELSE locked[m]
                      /\ waiters'[m] = IF m = l THEN q ELSE waiters[m]
  BY <1>0 DEF LockTypes, Leave
<1>6. HolderInv'
  <2>1. \A d \in Caller : (pc[d] = "idle" <=> held[d] = NoLock)'
    BY <1>0, <1>2, <1>3 DEF LockInv, HolderInv
  <2>2. ASSUME NEW d \in Caller, Fetching(d)' PROVE locked'[held'[d]]
    <3>1. d # c /\ Fetching(d) /\ held'[d] = held[d]
      BY <1>2, <1>4, <2>2
    <3>2. held[d] # l /\ held[d] \in Lock /\ locked[held[d]]
      BY <1>0, <3>1 DEF LeavesBehind, LockInv, LockTypes, HolderInv
    <3> QED
      BY <1>5, <3>1, <3>2
  <2>3. ASSUME NEW m \in Lock, locked'[m] PROVE \E d \in Caller : Fetching(d)' /\ held'[d] = m
    <3>1. m # l /\ locked[m]
      BY <1>5, <2>3
    <3>2. PICK d \in Caller : Fetching(d) /\ held[d] = m
      BY <3>1 DEF LockInv, HolderInv
    <3> QED
      BY <1>2, <1>4, <3>1, <3>2
  <2> QED
    BY <2>1, <2>2, <2>3 DEF HolderInv
<1>7. LockExcludes'
  BY <1>2, <1>4 DEF LockInv, LockExcludes
<1>8. QueueInv'
  <2>1. ASSUME NEW m \in Lock, NEW i \in 1..Len(waiters'[m])
        PROVE  /\ pc'[waiters'[m][i]] \in {"waiting", "woken"} /\ held'[waiters'[m][i]] = m
               /\ \A j \in 1..Len(waiters'[m]) : waiters'[m][i] = waiters'[m][j] => i = j
    <3>1. CASE m = l
      <4>1. waiters'[m] = q /\ i \in 1..Len(q)
        BY <1>5, <2>1, <3>1
      <4>2. q[i] \in Caller /\ q[i] # c /\ Queued(q[i]) /\ held[q[i]] = l
        BY <4>1, ElementOfSeq DEF LeavesBehind
      <4>3. pc'[q[i]] \in {"waiting", "woken"} /\ held'[q[i]] = l
        BY <1>2, <4>2
      <4>4. \A j \in 1..Len(q) : q[i] = q[j] => i = j
        BY <4>1 DEF LeavesBehind
      <4> QED
        BY <3>1, <4>1, <4>3, <4>4
    <3>2. CASE m # l
      <4>1. waiters'[m] = waiters[m] /\ i \in 1..Len(waiters[m])
        BY <1>5, <2>1, <3>2
      <4>2. /\ waiters[m][i] \in Caller
            /\ Queued(waiters[m][i]) /\ held[waiters[m][i]] = m
            /\ \A j \in 1..Len(waiters[m]) : waiters[m][i] = waiters[m][j] => i = j
        BY <1>0, <4>1, QueueElements DEF LockInv, QueueInv
      <4>3. waiters[m][i] # c
        BY <3>2, <4>2
      <4>4. pc'[waiters[m][i]] \in {"waiting", "woken"} /\ held'[waiters[m][i]] = m
        BY <1>2, <4>2, <4>3
      <4> QED
        BY <4>1, <4>2, <4>4
    <3> QED
      BY <3>1, <3>2
  <2>2. ASSUME NEW d \in Caller, Queued(d)'
        PROVE  \E i \in 1..Len(waiters'[held'[d]]) : waiters'[held'[d]][i] = d
    <3>1. d # c /\ Queued(d) /\ held'[d] = held[d]
      BY <1>2, <1>4, <2>2
    <3>2. held[d] \in Lock
      BY <1>0, <3>1 DEF LockInv, LockTypes, HolderInv
    <3>3. waiters'[held[d]] = IF held[d] = l THEN q ELSE waiters[held[d]]
      BY <1>5, <3>2
    <3>4. held[d] = l => \E i \in 1..Len(q) : q[i] = d
      BY <3>1 DEF LeavesBehind
    <3>5. \E i \in 1..Len(waiters[held[d]]) : waiters[held[d]][i] = d
      BY <3>1 DEF LockInv, QueueInv
    <3>6. \E i \in 1..Len(waiters'[held[d]]) : waiters'[held[d]][i] = d
      BY <3>3, <3>4, <3>5
    <3> QED
      BY <3>1, <3>6
  <2> QED
    BY <2>1, <2>2 DEF QueueInv
<1>9. WokenInv'
  <2> SUFFICES ASSUME NEW d \in Caller, pc'[d] = "woken"
               PROVE  ~locked'[held'[d]] /\ waiters'[held'[d]][1] = d
    BY DEF WokenInv
  <2>1. d # c /\ held'[d] = held[d] /\ (pc[d] = "woken" \/ (q # <<>> /\ d = q[1]))
    BY <1>2
  <2>2. held[d] \in Lock
    BY <1>0, <1>3, <2>1 DEF LockInv, LockTypes, HolderInv
  <2>3. CASE held[d] = l
    <3>1. locked'[l] = FALSE /\ waiters'[l] = q
      BY <1>5, <2>2, <2>3
    <3>2. q[1] = d
      BY <2>1, <2>3 DEF LeavesBehind
    <3> QED
      BY <2>1, <2>3, <3>1, <3>2
  <2>4. CASE held[d] # l
    <3>1. pc[d] = "woken"
      BY <1>3, <2>1, <2>4
    <3> QED
      <4>1. ~locked[held[d]] /\ waiters[held[d]][1] = d
        BY <3>1 DEF LockInv, WokenInv
      <4>2. locked'[held[d]] = locked[held[d]] /\ waiters'[held[d]] = waiters[held[d]]
        BY <1>5, <2>2, <2>4
      <4> QED
        BY <2>1, <4>1, <4>2
  <2> QED
    BY <2>3, <2>4
<1>10. WakeInv'
  <2> SUFFICES ASSUME NEW m \in Lock, waiters'[m] # <<>>, ~locked'[m]
               PROVE  pc'[waiters'[m][1]] = "woken"
    BY DEF WakeInv
  <2>1. CASE m = l
    BY <1>0, <1>2, <1>3, <1>5, <2>1
  <2>2. CASE m # l
    <3>1. waiters'[m] = waiters[m] /\ pc[waiters[m][1]] = "woken"
      BY <1>5, <2>2 DEF LockInv, WakeInv
    <3>2. waiters[m][1] \in Caller /\ held[waiters[m][1]] = m
      BY <1>0, <3>1, QueueElements DEF LockInv, QueueInv
    <3>3. waiters[m][1] # c
      BY <2>2, <3>2
    <3> QED
      BY <1>2, <3>1, <3>2, <3>3
  <2> QED
    BY <2>1, <2>2
<1> QED
  BY <1>1, <1>6, <1>7, <1>8, <1>9, <1>10 DEF LockInv

\* At the start nobody holds, nobody queues.
LEMMA InitLockInv == Init => LockInv
<1> SUFFICES ASSUME Init PROVE LockInv
  OBVIOUS
<1>1. \A l \in Lock : waiters[l] = <<>> /\ Len(waiters[l]) = 0 /\ ~locked[l]
  BY EmptySeq DEF Init
<1>2. TypeOK
  BY EmptySeq DEF Init, TypeOK, Places
<1>3. HolderInv /\ LockExcludes
  BY <1>1 DEF Init, HolderInv, LockExcludes, Fetching
<1>4. QueueInv /\ WokenInv /\ WakeInv
  BY <1>1 DEF Init, QueueInv, WokenInv, WakeInv, Queued
<1> QED
  BY <1>2, <1>3, <1>4 DEF LockInv

\* A request that misses the cache joins the right lock, at its tail.
LEMMA RequestKeepsLockInv ==
    ASSUME LockInv, NEW c \in Caller, Request(c)
    PROVE  LockInv'
<1> USE NoLockAssumption DEF Queued, Fetching
<1>1. PICK l \in IF table = NoLock THEN Unreferenced ELSE {table} :
         LET free == ~locked[l] /\ waiters[l] = <<>> IN
         /\ table' = l
         /\ held' = [held EXCEPT ![c] = l]
         /\ pc' = [pc EXCEPT ![c] = IF free THEN "provider" ELSE "waiting"]
         /\ locked' = [locked EXCEPT ![l] = locked[l] \/ free]
         /\ waiters' = [waiters EXCEPT ![l] = IF free THEN @ ELSE Append(@, c)]
  BY DEF Request
<1>2. /\ l \in Lock /\ pc[c] = "idle" /\ held[c] = NoLock
      /\ UNCHANGED <<cached, negative, disturbed>>
  BY <1>1 DEF Request, Unreferenced, LockInv, TypeOK, HolderInv
<1>3. CASE ~locked[l] /\ waiters[l] = <<>>
  <2>1. /\ table' = l /\ held' = [held EXCEPT ![c] = l]
        /\ pc' = [pc EXCEPT ![c] = "provider"]
        /\ locked' = [locked EXCEPT ![l] = TRUE]
        /\ waiters' = waiters
    BY <1>1, <1>2, <1>3 DEF LockInv, TypeOK
  <2>2. \A d \in Caller : held[d] = l => ~Fetching(d) /\ ~Queued(d)
    BY <1>2, <1>3 DEF LockInv, TypeOK, HolderInv, QueueInv
  <2>3. TypeOK'
    BY <1>2, <2>1 DEF LockInv, TypeOK, Places
  <2>4. HolderInv'
    BY <1>2, <2>1 DEF LockInv, TypeOK, HolderInv
  <2>5. LockExcludes'
    BY <1>2, <2>1, <2>2 DEF LockInv, TypeOK, LockExcludes
  <2>6. QueueInv'
    <3>1. LockTypes /\ \A d \in Caller : d # c => held'[d] = held[d] /\ pc'[d] = pc[d]
      BY <2>1 DEF LockInv, TypeOK, LockTypes
    <3>2. held'[c] = l /\ pc'[c] = "provider" /\ held[c] = NoLock
      BY <1>2, <2>1 DEF LockInv, TypeOK
    <3> QED
      BY <1>2, <2>1, <2>2, <3>1, <3>2, QueueElements DEF LockInv, QueueInv
  <2>7. WokenInv' /\ WakeInv'
    BY <1>2, <1>3, <2>1, <2>2 DEF LockInv, TypeOK, WokenInv, WakeInv, QueueInv, HolderInv
  <2> QED
    BY <2>3, <2>4, <2>5, <2>6, <2>7 DEF LockInv
<1>4. CASE ~(~locked[l] /\ waiters[l] = <<>>)
  <2> DEFINE q == Append(waiters[l], c)
  <2>1. /\ table' = l /\ held' = [held EXCEPT ![c] = l]
        /\ pc' = [pc EXCEPT ![c] = "waiting"]
        /\ locked' = locked
        /\ waiters' = [waiters EXCEPT ![l] = q]
    BY <1>1, <1>2, <1>4 DEF LockInv, TypeOK
  <2>2. /\ q \in Seq(Caller) /\ Len(q) = Len(waiters[l]) + 1
        /\ Len(waiters[l]) \in Nat
        /\ q[Len(q)] = c
        /\ \A i \in 1..Len(waiters[l]) : q[i] = waiters[l][i]
    BY <1>2, AppendProperties DEF LockInv, TypeOK
  <2> HIDE DEF q
  <2>3. TypeOK'
    BY <1>2, <2>1, <2>2 DEF LockInv, TypeOK, Places
  <2>4. HolderInv'
    BY <1>2, <2>1 DEF LockInv, TypeOK, HolderInv
  <2>5. LockExcludes'
    BY <1>2, <2>1 DEF LockInv, TypeOK, LockExcludes
  <2>6. QueueInv'
    <3>1. \A i \in 1..Len(waiters[l]) : waiters[l][i] # c
      BY <1>2 DEF LockInv, QueueInv
    <3>2. \A m \in Lock : waiters'[m] = IF m = l THEN q ELSE waiters[m]
      BY <1>2, <2>1 DEF LockInv, TypeOK
    <3>3. \A d \in Caller : /\ pc'[d] = IF d = c THEN "waiting" ELSE pc[d]
                            /\ held'[d] = IF d = c THEN l ELSE held[d]
      BY <2>1 DEF LockInv, TypeOK
    <3>4. ASSUME NEW m \in Lock, NEW i \in 1..Len(waiters'[m])
          PROVE  /\ pc'[waiters'[m][i]] \in {"waiting", "woken"}
                 /\ held'[waiters'[m][i]] = m
                 /\ \A j \in 1..Len(waiters'[m]) :
                       waiters'[m][i] = waiters'[m][j] => i = j
      <4>1. CASE m = l
        <5>1. i \in 1..Len(waiters[l]) \/ i = Len(q)
          BY <2>2, <3>2, <3>4, <4>1
        <5>2. \A j \in 1..Len(q) : j \in 1..Len(waiters[l]) \/ j = Len(q)
          BY <2>2
        <5>3. q[i] = c <=> i = Len(q)
          BY <2>2, <3>1, <5>1
        <5>4. \A j \in 1..Len(q) : q[i] = q[j] => i = j
          BY <1>2, <2>2, <3>1, <5>1, <5>2, <5>3 DEF LockInv, QueueInv
        <5> QED
          <6>1. waiters'[m] = q
            BY <3>2, <4>1
          <6>2. CASE i = Len(q)
            BY <2>2, <3>3, <4>1, <5>4, <6>1, <6>2
          <6>3. CASE i \in 1..Len(waiters[l])
            <7>1. /\ waiters[l][i] \in Caller /\ waiters[l][i] # c
                  /\ Queued(waiters[l][i]) /\ held[waiters[l][i]] = l
              BY <1>2, <3>1, <6>3, ElementOfSeq DEF LockInv, TypeOK, QueueInv
            <7> QED
              BY <2>2, <3>3, <4>1, <5>4, <6>1, <6>3, <7>1
          <6> QED
            BY <5>1, <6>2, <6>3
      <4>2. CASE m # l
        <5>1. \A j \in 1..Len(waiters[m]) : waiters[m][j] \in Caller
          BY ElementOfSeq DEF LockInv, TypeOK
        <5> QED
          BY <1>2, <3>2, <3>3, <3>4, <4>2, <5>1 DEF LockInv, QueueInv
      <4> QED
        BY <4>1, <4>2
    <3>5. ASSUME NEW d \in Caller, Queued(d)'
          PROVE  \E i \in 1..Len(waiters'[held'[d]]) : waiters'[held'[d]][i] = d
      <4>1. CASE d = c
        BY <1>2, <2>2, <3>2, <3>3, <4>1
      <4>2. CASE d # c
        <5>1. Queued(d) /\ held'[d] = held[d] /\ held[d] \in Lock
          BY <3>3, <3>5, <4>2 DEF LockInv, TypeOK, HolderInv
        <5>2. PICK i \in 1..Len(waiters[held[d]]) : waiters[held[d]][i] = d
          BY <5>1 DEF LockInv, QueueInv
        <5>3. i \in 1..Len(waiters'[held[d]]) /\ waiters'[held[d]][i] = d
          BY <2>2, <3>2, <5>1, <5>2
        <5> QED
          BY <5>1, <5>3
      <4> QED
        BY <4>1, <4>2
    <3> QED
      BY <3>4, <3>5 DEF QueueInv
  <2>7. /\ LockTypes
        /\ \A m \in Lock : waiters'[m] = IF m = l THEN q ELSE waiters[m]
        /\ \A d \in Caller : /\ pc'[d] = IF d = c THEN "waiting" ELSE pc[d]
                             /\ held'[d] = IF d = c THEN l ELSE held[d]
    BY <1>2, <2>1 DEF LockInv, TypeOK, LockTypes
  <2>8. WokenInv'
    <3>1. waiters[l] # <<>> => q[1] = waiters[l][1]
      BY <1>2, <2>2, <2>7, QueueElements
    <3>2. \A d \in Caller : pc[d] = "woken" => held[d] \in Lock /\ waiters[held[d]] # <<>>
      BY EmptySeq DEF LockInv, TypeOK, HolderInv, QueueInv
    <3> QED
      BY <1>2, <2>1, <2>7, <3>1, <3>2 DEF LockInv, WokenInv
  <2>9. WakeInv'
    <3>1. waiters[l] # <<>> => q[1] = waiters[l][1] /\ q[1] \in Caller /\ q[1] # c
      BY <1>2, <2>2, <2>7, QueueElements DEF LockInv, QueueInv
    <3>2. \A m \in Lock : waiters[m] # <<>> => waiters[m][1] \in Caller /\ waiters[m][1] # c
      BY <1>2, <2>7, QueueElements DEF LockInv, QueueInv
    <3> QED
      BY <1>2, <1>4, <2>1, <2>7, <3>1, <3>2 DEF LockInv, WakeInv
  <2> QED
    BY <2>3, <2>4, <2>5, <2>6, <2>8, <2>9 DEF LockInv
<1> QED
  BY <1>3, <1>4

\* A woken coroutine leaves the head of the queue it was woken from.
LEMMA ResumeKeepsLockInv ==
    ASSUME LockInv, NEW c \in Caller, Resume(c)
    PROVE  LockInv'
<1> USE NoLockAssumption DEF Queued, Fetching
<1> DEFINE l == held[c]
           q == Tail(waiters[l])
<1>1. /\ l \in Lock /\ pc[c] = "woken" /\ ~locked[l]
      /\ waiters[l] \in Seq(Caller) /\ waiters[l] # <<>> /\ waiters[l][1] = c
      /\ UNCHANGED <<cached, negative, disturbed>>
  BY EmptySeq DEF Resume, LockInv, TypeOK, HolderInv, WokenInv, QueueInv
<1>2. /\ q \in Seq(Caller) /\ Len(q) = Len(waiters[l]) - 1
      /\ Len(waiters[l]) \in Nat
      /\ \A i \in 1..Len(q) : q[i] = waiters[l][i + 1] /\ i + 1 \in 1..Len(waiters[l])
  BY <1>1, HeadTailProperties
<1>3. \A d \in Caller : held[d] = l => ~Fetching(d)
  BY <1>1 DEF LockInv, HolderInv
<1> HIDE DEF q
<1>4. ASSUME NEW i \in 1..Len(q)
      PROVE  q[i] # c /\ Queued(q[i]) /\ held[q[i]] = l
  <2>1. /\ q[i] = waiters[l][i + 1] /\ i + 1 \in 1..Len(waiters[l])
        /\ i + 1 # 1 /\ 1 \in 1..Len(waiters[l])
    BY <1>1, <1>2
  <2>2. waiters[l][i + 1] = waiters[l][1] => i + 1 = 1
    BY <1>1, <2>1 DEF LockInv, QueueInv
  <2> QED
    BY <1>1, <2>1, <2>2 DEF LockInv, QueueInv
<1>5. ASSUME NEW i \in 1..Len(q), NEW j \in 1..Len(q), q[i] = q[j]
      PROVE  i = j
  <2>1. /\ q[i] = waiters[l][i + 1] /\ i + 1 \in 1..Len(waiters[l])
        /\ q[j] = waiters[l][j + 1] /\ j + 1 \in 1..Len(waiters[l])
    BY <1>2
  <2>2. i + 1 = j + 1
    <3>1. \A m, n \in 1..Len(waiters[l]) : waiters[l][m] = waiters[l][n] => m = n
      BY <1>1 DEF LockInv, QueueInv
    <3>2. waiters[l][i + 1] = waiters[l][j + 1]
      BY <1>5, <2>1
    <3> QED
      BY <2>1, <3>1, <3>2
  <2> QED
    BY <1>2, <2>2
<1>6. ASSUME NEW d \in Caller \ {c}, Queued(d), held[d] = l
      PROVE  \E i \in 1..Len(q) : q[i] = d
  <2>1. PICK i \in 1..Len(waiters[l]) : waiters[l][i] = d
    BY <1>6 DEF LockInv, QueueInv
  <2>2. i # 1 /\ i - 1 \in 1..Len(q) /\ (i - 1) + 1 = i
    BY <1>1, <1>2, <1>6, <2>1
  <2> QED
    BY <1>2, <2>1, <2>2
<1>7. \A d \in Caller \ {c} : pc[d] = "woken" /\ held[d] = l => FALSE
  BY <1>1 DEF LockInv, WokenInv
<1>8. CASE Answerable
  <2>1. Leave(c, q)
    BY <1>8 DEF Resume, q
  <2> QED
    BY <1>1, <1>2, <1>3, <1>4, <1>5, <1>6, <1>7, <2>1, LeaveKeepsLockInv
    DEF LeavesBehind, LockInv, TypeOK
<1>9. CASE ~Answerable
  <2>1. /\ locked' = [locked EXCEPT ![l] = TRUE]
        /\ waiters' = [waiters EXCEPT ![l] = q]
        /\ pc' = [pc EXCEPT ![c] = "provider"]
        /\ UNCHANGED <<table, held>>
    BY <1>9 DEF Resume, q
  <2>2. TypeOK'
    BY <1>1, <1>2, <2>1 DEF LockInv, TypeOK, Places
  <2>3. HolderInv'
    BY <1>1, <2>1 DEF LockInv, TypeOK, HolderInv
  <2>4. LockExcludes'
    BY <1>1, <1>3, <2>1 DEF LockInv, TypeOK, LockExcludes
  <2>5. QueueInv'
    <3>1. \A m \in Lock : waiters'[m] = IF m = l THEN q ELSE waiters[m]
      BY <1>1, <2>1 DEF LockInv, TypeOK
    <3>2. \A d \in Caller : pc'[d] = IF d = c THEN "provider" ELSE pc[d]
      BY <2>1 DEF LockInv, TypeOK
    <3>3. ASSUME NEW m \in Lock, NEW i \in 1..Len(waiters'[m])
          PROVE  /\ waiters'[m][i] \in Caller
                 /\ waiters'[m][i] # c
                 /\ pc[waiters'[m][i]] \in {"waiting", "woken"}
                 /\ held[waiters'[m][i]] = m
      <4>1. waiters'[m] \in Seq(Caller)
        BY <1>2, <3>1 DEF LockInv, TypeOK
      <4>2. waiters'[m][i] \in Caller
        BY <3>3, <4>1, ElementOfSeq
      <4>3. CASE m = l
        BY <1>4, <3>1, <3>3, <4>2, <4>3
      <4>4. CASE m # l
        BY <1>1, <3>1, <3>3, <4>2, <4>4 DEF LockInv, QueueInv
      <4> QED
        BY <4>3, <4>4
    <3>4. \A m \in Lock : \A i, j \in 1..Len(waiters'[m]) :
             waiters'[m][i] = waiters'[m][j] => i = j
      BY <1>5, <3>1 DEF LockInv, QueueInv
    <3>5. ASSUME NEW d \in Caller, Queued(d)'
          PROVE  \E i \in 1..Len(waiters'[held[d]]) : waiters'[held[d]][i] = d
      <4>1. d # c /\ Queued(d) /\ held[d] \in Lock
        BY <3>2, <3>5 DEF LockInv, TypeOK, HolderInv
      <4>2. CASE held[d] = l
        BY <1>6, <3>1, <4>1, <4>2
      <4>3. CASE held[d] # l
        BY <3>1, <4>1, <4>3 DEF LockInv, QueueInv
      <4> QED
        BY <4>2, <4>3
    <3> QED
      BY <2>1, <3>2, <3>3, <3>4, <3>5 DEF QueueInv
  <2>6. WokenInv'
    BY <1>1, <1>7, <2>1 DEF LockInv, TypeOK, WokenInv, HolderInv
  <2>7. WakeInv'
    BY <1>1, <1>7, <2>1 DEF LockInv, TypeOK, WakeInv, QueueInv
  <2> QED
    BY <2>2, <2>3, <2>4, <2>5, <2>6, <2>7 DEF LockInv
<1> QED
  BY <1>8, <1>9

\* A coroutine that holds the lock may leave it with the queue as it stands.
LEMMA HolderLeavesKeepsLockInv ==
    ASSUME LockInv, NEW c \in Caller, Fetching(c), Leave(c, waiters[held[c]]),
           cached' \in BOOLEAN, negative' \in BOOLEAN, disturbed' \in BOOLEAN
    PROVE  LockInv'
<1> USE NoLockAssumption DEF Queued, Fetching
<1> DEFINE l == held[c]
<1>1. l \in Lock /\ waiters[l] \in Seq(Caller) /\ locked[l] /\ pc[c] # "idle"
  BY DEF LockInv, TypeOK, HolderInv
<1>2. \A d \in Caller : Fetching(d) /\ held[d] = l => d = c
  BY DEF LockInv, LockExcludes
<1>3. \A i \in 1..Len(waiters[l]) :
         waiters[l][i] # c /\ Queued(waiters[l][i]) /\ held[waiters[l][i]] = l
  BY <1>1 DEF LockInv, QueueInv
<1>4. \A d \in Caller : Queued(d) /\ held[d] = l =>
         \E i \in 1..Len(waiters[l]) : waiters[l][i] = d
  BY DEF LockInv, QueueInv
<1>5. \A d \in Caller : ~(pc[d] = "woken" /\ held[d] = l)
  BY <1>1 DEF LockInv, WokenInv
<1>6. \A i, j \in 1..Len(waiters[l]) : waiters[l][i] = waiters[l][j] => i = j
  BY <1>1 DEF LockInv, QueueInv
<1> QED
  BY <1>1, <1>2, <1>3, <1>4, <1>5, <1>6, LeaveKeepsLockInv DEF LeavesBehind

\* What the vendors answer moves the lock only on the last answer.
LEMMA FetchKeepsLockInv ==
    ASSUME LockInv, NEW c \in Caller, Fetch(c)
    PROVE  LockInv'
<1>1. CASE TryFallback(c)
  BY <1>1
  DEF TryFallback, LockInv, TypeOK, Places, HolderInv, LockExcludes, QueueInv,
      WokenInv, WakeInv, Fetching, Queued
<1>2. CASE StoreAnswer(c)
  BY <1>2, HolderLeavesKeepsLockInv DEF StoreAnswer, LockInv, TypeOK
<1>3. CASE StoreFailure(c)
  BY <1>3, FlagAssumption, HolderLeavesKeepsLockInv
  DEF StoreFailure, Fetching, LockInv, TypeOK
<1> QED
  BY <1>1, <1>2, <1>3 DEF Fetch

\* A cancelled or failing request leaves the queues in order, wherever it was.
LEMMA FailKeepsLockInv ==
    ASSUME LockInv, NEW c \in Caller, Fail(c)
    PROVE  LockInv'
<1> USE NoLockAssumption DEF Queued, Fetching
<1>1. CASE Fetching(c) /\ Leave(c, waiters[held[c]])
  BY <1>1, HolderLeavesKeepsLockInv DEF Fail, LockInv, TypeOK
<1>2. CASE Queued(c) /\ FailQueued(c)
  <2> DEFINE l == held[c]
  <2>1. PICK k \in DOMAIN waiters[l] :
           LET q == RemoveAt(waiters[l], k) IN
           /\ waiters[l][k] = c
           /\ \/ /\ locked[l]
                 /\ waiters' = [waiters EXCEPT ![l] = q]
                 /\ pc' = [pc EXCEPT ![c] = "idle"]
                 /\ held' = [held EXCEPT ![c] = NoLock]
                 /\ UNCHANGED <<table, locked>>
              \/ ~locked[l] /\ Leave(c, q)
    BY <1>2 DEF FailQueued
  <2> DEFINE q == RemoveAt(waiters[l], k)
             at(i) == IF i < k THEN i ELSE i + 1
  <2>2. /\ l \in Lock /\ pc[c] # "idle" /\ waiters[l] \in Seq(Caller)
        /\ Len(waiters[l]) \in Nat /\ k \in 1..Len(waiters[l]) /\ waiters[l][k] = c
        /\ UNCHANGED <<cached, negative>> /\ disturbed' \in BOOLEAN
    <3>1. l \in Lock /\ pc[c] # "idle" /\ waiters[l] \in Seq(Caller)
      BY <1>2 DEF LockInv, TypeOK, HolderInv
    <3> QED
      BY <2>1, <3>1, LenProperties DEF Fail
  <2>3. /\ q \in Seq(Caller) /\ Len(q) = Len(waiters[l]) - 1
        /\ \A i \in 1..Len(q) : at(i) \in 1..Len(waiters[l]) /\ q[i] = waiters[l][at(i)]
    <3>1. /\ q \in Seq(Caller) /\ Len(q) = Len(waiters[l]) - 1
          /\ \A i \in 1..(Len(waiters[l]) - 1) :
                q[i] = IF i < k THEN waiters[l][i] ELSE waiters[l][i + 1]
      BY <2>2, RemoveAtFacts
    <3> HIDE DEF q
    <3> QED
      BY <2>2, <3>1
  <2>4. \A i, j \in 1..Len(waiters[l]) : waiters[l][i] = waiters[l][j] => i = j
    BY <2>2 DEF LockInv, QueueInv
  <2>5. \A i \in 1..Len(waiters[l]) : Queued(waiters[l][i]) /\ held[waiters[l][i]] = l
    BY <2>2 DEF LockInv, QueueInv
  <2> HIDE DEF q
  <2>6. ASSUME NEW i \in 1..Len(q)
        PROVE  q[i] # c /\ Queued(q[i]) /\ held[q[i]] = l
    <3>1. at(i) # k
      BY <2>2, <2>3
    <3>2. waiters[l][at(i)] # c
      BY <2>2, <2>3, <2>4, <3>1
    <3> QED
      BY <2>3, <2>5, <3>2
  <2>7. ASSUME NEW i \in 1..Len(q), NEW j \in 1..Len(q), q[i] = q[j]
        PROVE  i = j
    <3>1. at(i) = at(j)
      BY <2>3, <2>4, <2>7
    <3> QED
      BY <2>2, <2>3, <3>1
  <2>8. ASSUME NEW d \in Caller \ {c}, Queued(d), held[d] = l
        PROVE  \E i \in 1..Len(q) : q[i] = d
    <3>1. PICK i \in 1..Len(waiters[l]) : waiters[l][i] = d
      BY <2>8 DEF LockInv, QueueInv
    <3>2. i # k
      BY <2>2, <2>8, <3>1
    <3>3. CASE i < k
      <4>1. i \in 1..Len(q) /\ at(i) = i
        BY <2>2, <2>3, <3>3
      <4> QED
        BY <2>3, <3>1, <4>1
    <3>4. CASE i > k
      <4>1. i - 1 \in 1..Len(q) /\ at(i - 1) = i
        BY <2>2, <2>3, <3>4
      <4> QED
        BY <2>3, <3>1, <4>1
    <3> QED
      BY <2>2, <3>2, <3>3, <3>4
  <2>9. CASE ~locked[l] /\ Leave(c, q)
    <3>1. \A d \in Caller : Fetching(d) /\ held[d] = l => d = c
      BY <2>9 DEF LockInv, HolderInv
    <3>2. ASSUME NEW d \in Caller \ {c}, pc[d] = "woken", held[d] = l
          PROVE  q # <<>> /\ q[1] = d
      <4>1. waiters[l][1] = d /\ 1 # k
        BY <2>2, <3>2 DEF LockInv, WokenInv
      <4>2. 1 \in 1..Len(q) /\ at(1) = 1
        BY <2>2, <2>3, <4>1
      <4> QED
        BY <2>3, <4>1, <4>2
    <3> QED
      BY <2>2, <2>3, <2>6, <2>7, <2>8, <2>9, <3>1, <3>2, LeaveKeepsLockInv
      DEF LeavesBehind, LockInv, TypeOK
  <2>10. CASE /\ locked[l]
              /\ waiters' = [waiters EXCEPT ![l] = q]
              /\ pc' = [pc EXCEPT ![c] = "idle"]
              /\ held' = [held EXCEPT ![c] = NoLock]
              /\ UNCHANGED <<table, locked>>
    <3>1. TypeOK'
      BY <2>2, <2>3, <2>10 DEF LockInv, TypeOK, Places
    <3>2. \A m \in Lock : waiters'[m] = IF m = l THEN q ELSE waiters[m]
      BY <2>2, <2>10 DEF LockInv, TypeOK
    <3>3. \A d \in Caller : /\ pc'[d] = IF d = c THEN "idle" ELSE pc[d]
                            /\ held'[d] = IF d = c THEN NoLock ELSE held[d]
      BY <2>10 DEF LockInv, TypeOK
    <3>4. HolderInv' /\ LockExcludes'
      BY <1>2, <2>2, <2>10, <3>3 DEF LockInv, TypeOK, HolderInv, LockExcludes
    <3>5. ASSUME NEW m \in Lock, NEW i \in 1..Len(waiters'[m])
          PROVE  /\ waiters'[m][i] \in Caller
                 /\ waiters'[m][i] # c
                 /\ pc[waiters'[m][i]] \in {"waiting", "woken"}
                 /\ held[waiters'[m][i]] = m
      <4>1. waiters'[m] \in Seq(Caller)
        BY <2>3, <3>2 DEF LockInv, TypeOK
      <4>2. waiters'[m][i] \in Caller
        BY <3>5, <4>1, ElementOfSeq
      <4>3. CASE m = l
        BY <2>6, <3>2, <3>5, <4>2, <4>3
      <4>4. CASE m # l
        <5>1. waiters'[m] = waiters[m]
          BY <3>2, <4>4
        <5>2. Queued(waiters[m][i]) /\ held[waiters[m][i]] = m
          BY <3>5, <5>1 DEF LockInv, QueueInv
        <5>3. waiters[m][i] # c
          BY <4>4, <5>2
        <5> QED
          BY <4>2, <5>1, <5>2, <5>3
      <4> QED
        BY <4>3, <4>4
    <3>6. \A m \in Lock : \A i, j \in 1..Len(waiters'[m]) :
             waiters'[m][i] = waiters'[m][j] => i = j
      BY <2>7, <3>2 DEF LockInv, QueueInv
    <3>7. ASSUME NEW d \in Caller, Queued(d)'
          PROVE  \E i \in 1..Len(waiters'[held'[d]]) : waiters'[held'[d]][i] = d
      <4>1. d # c /\ Queued(d) /\ held[d] \in Lock /\ held'[d] = held[d]
        BY <3>3, <3>7 DEF LockInv, TypeOK, HolderInv
      <4>2. CASE held[d] = l
        BY <2>8, <3>2, <4>1, <4>2
      <4>3. CASE held[d] # l
        BY <3>2, <4>1, <4>3 DEF LockInv, QueueInv
      <4> QED
        BY <4>2, <4>3
    <3>8. QueueInv'
      BY <3>3, <3>5, <3>6, <3>7 DEF QueueInv
    <3>9. WokenInv'
      BY <2>2, <2>10, <3>2, <3>3 DEF LockInv, TypeOK, WokenInv, HolderInv
    <3>10. WakeInv'
      <4>1. \A m \in Lock : waiters[m] # <<>> => 1 \in 1..Len(waiters[m])
        BY EmptySeq DEF LockInv, TypeOK
      <4> QED
        BY <2>2, <2>10, <3>2, <3>3, <4>1 DEF LockInv, TypeOK, WakeInv, QueueInv
    <3> QED
      BY <3>1, <3>4, <3>8, <3>9, <3>10 DEF LockInv
  <2> QED
    BY <2>1, <2>9, <2>10 DEF q
<1> QED
  BY <1>1, <1>2 DEF Fail

\* Every step of the router keeps the invariant of the locks.
LEMMA NextKeepsLockInv == LockInv /\ [Next]_vars => LockInv'
<1> SUFFICES ASSUME LockInv, [Next]_vars PROVE LockInv'
  OBVIOUS
<1>1. ASSUME NEW c \in Caller, Request(c) PROVE LockInv'
  BY <1>1, RequestKeepsLockInv
<1>2. ASSUME NEW c \in Caller, Resume(c) PROVE LockInv'
  BY <1>2, ResumeKeepsLockInv
<1>3. ASSUME NEW c \in Caller, Fetch(c) PROVE LockInv'
  BY <1>3, FetchKeepsLockInv
<1>4. ASSUME NEW c \in Caller, Fail(c) PROVE LockInv'
  BY <1>4, FailKeepsLockInv
<1>5. CASE ExpireAnswer \/ ExpireFailure \/ UNCHANGED vars
  <2>1. TypeOK' /\ UNCHANGED <<table, locked, waiters, pc, held>>
    BY <1>5 DEF ExpireAnswer, ExpireFailure, vars, LockInv, TypeOK
  <2>2. HolderInv' /\ LockExcludes'
    BY <2>1 DEF LockInv, HolderInv, LockExcludes, Fetching
  <2>3. QueueInv'
    BY <2>1 DEF LockInv, QueueInv, Queued
  <2>4. WokenInv' /\ WakeInv'
    BY <2>1 DEF LockInv, WokenInv, WakeInv
  <2> QED
    BY <2>1, <2>2, <2>3, <2>4 DEF LockInv
<1> QED
  BY <1>1, <1>2, <1>3, <1>4, <1>5 DEF Next

\* The inductive invariant of the asyncio.Lock objects of get_quote and
\* get_historical_df: types, who queues where, who is woken, who holds.
THEOREM LockInvariant == Spec => []LockInv
  BY InitLockInv, NextKeepsLockInv, PTL DEF Spec

\* Every variable keeps its type, whatever fails: above all, what a queue
\* holds are coroutines and what a coroutine holds is a lock.
THEOREM TypeCorrect == Spec => []TypeOK
  BY LockInvariant, PTL DEF LockInv

\* The asyncio.Lock objects do their part under cancellation: two coroutines
\* that download the key at once hold different locks.
THEOREM LocksExclude == Spec => []LockExcludes
  BY LockInvariant, PTL DEF LockInv

\* No cancellation, at whatever point, leaves a free lock with a queue whose
\* oldest waiter was not woken.
THEOREM WakeupsAreKept == Spec => []NoLostWakeup
<1>1. LockInv => NoLostWakeup
  <2> SUFFICES ASSUME LockInv, NEW l \in Lock, waiters[l] # <<>>, ~locked[l]
               PROVE  pc[Head(waiters[l])] = "woken"
    BY DEF NoLostWakeup
  <2>1. Head(waiters[l]) = waiters[l][1]
    BY DEF LockInv, TypeOK
  <2> QED
    BY <2>1 DEF LockInv, WakeInv
<1> QED
  BY <1>1, LockInvariant, PTL
-----------------------------------------------------------------------------
\* As long as no request was cut short the flight is the only one.
LEMMA NextKeepsFlightInv ==
    ASSUME ~disturbed', LockInv, FlightInv, [Next]_vars
    PROVE  FlightInv'
<1> USE NoLockAssumption DEF Fetching, Answerable
<1> DEFINE nobody == \A d \in Caller : ~Fetching(d)
<1>1. ASSUME NEW c \in Caller, Request(c) PROVE FlightInv'
  <2>1. PICK l \in IF table = NoLock THEN Unreferenced ELSE {table} :
           LET free == ~locked[l] /\ waiters[l] = <<>> IN
           /\ table' = l
           /\ held' = [held EXCEPT ![c] = l]
           /\ pc' = [pc EXCEPT ![c] = IF free THEN "provider" ELSE "waiting"]
    BY <1>1 DEF Request
  <2>2. /\ l \in Lock /\ pc[c] = "idle" /\ ~cached /\ ~negative
        /\ UNCHANGED <<cached, negative, disturbed>>
    BY <1>1, <2>1 DEF Request, Unreferenced, LockInv, TypeOK, HolderInv
  <2>3. CASE nobody
    <3>1. \A d \in Caller : pc[d] = "idle"
      BY <2>2, <2>3 DEF FlightInv
    <3>2. ~locked[l]
      BY <2>2, <2>3 DEF LockInv, HolderInv
    <3>3. waiters[l] = <<>>
      <4>1. waiters[l] # <<>> => 1 \in 1..Len(waiters[l]) /\ waiters[l][1] \in Caller
        BY <2>2, EmptySeq, ElementOfSeq DEF LockInv, TypeOK
      <4> QED
        BY <2>2, <3>1, <4>1 DEF LockInv, QueueInv, Queued
    <3>4. pc' = [pc EXCEPT ![c] = "provider"]
      BY <2>1, <3>2, <3>3
    <3> QED
      BY <2>1, <2>2, <3>1, <3>4 DEF FlightInv, SingleFlight, LockInv, TypeOK
  <2>4. ASSUME NEW f \in Caller, Fetching(f) PROVE FlightInv'
    <3>1. table = held[f] /\ held[f] \in Lock /\ f # c
      BY <2>2, <2>4 DEF FlightInv, LockInv, TypeOK, HolderInv
    <3>2. l = held[f] /\ locked[l]
      BY <2>1, <2>4, <3>1 DEF LockInv, HolderInv
    <3>3. pc' = [pc EXCEPT ![c] = "waiting"] /\ held' = [held EXCEPT ![c] = l] /\ table' = l
      BY <2>1, <3>2
    <3>4. \A d \in Caller : Fetching(d)' <=> d = f
      BY <2>2, <2>4, <3>1, <3>3 DEF FlightInv, SingleFlight, LockInv, TypeOK
    <3> QED
      BY <2>2, <2>4, <3>1, <3>2, <3>3, <3>4 DEF FlightInv, SingleFlight, LockInv, TypeOK
  <2> QED
    BY <2>3, <2>4
\* Whoever leaves leaves an entry, so that there is no flight after it.
<1>2. ASSUME NEW c \in Caller, NEW q, Leave(c, q), Answerable',
             \A d \in Caller \ {c} : ~Fetching(d)
      PROVE  FlightInv'
  <2>1. \A d \in Caller : ~Fetching(d)'
    BY <1>2 DEF Leave, LockInv, TypeOK
  <2> QED
    BY <1>2, <2>1 DEF FlightInv, SingleFlight
<1>3. ASSUME NEW c \in Caller, Resume(c) PROVE FlightInv'
  <2>1. pc[c] = "woken" /\ held[c] \in Lock /\ ~locked[held[c]]
    BY <1>3 DEF Resume, LockInv, TypeOK, HolderInv, WokenInv
  <2>2. nobody
    BY <2>1 DEF LockInv, HolderInv, FlightInv
  <2>3. Answerable
    BY <2>1, <2>2 DEF FlightInv
  <2> QED
    BY <1>2, <1>3, <2>2, <2>3 DEF Resume
<1>4. ASSUME NEW c \in Caller, Fetch(c) PROVE FlightInv'
  <2>1. CASE TryFallback(c)
    BY <2>1 DEF TryFallback, FlightInv, SingleFlight, LockInv, TypeOK
  <2>2. CASE StoreAnswer(c) \/ StoreFailure(c)
    <3>1. Fetching(c)
      BY <2>2, FlagAssumption DEF StoreAnswer, StoreFailure
    <3>2. \A d \in Caller \ {c} : ~Fetching(d)
      BY <3>1 DEF FlightInv, SingleFlight
    <3> QED
      BY <1>2, <2>2, <3>2 DEF StoreAnswer, StoreFailure
  <2> QED
    BY <1>4, <2>1, <2>2 DEF Fetch
<1>5. CASE ExpireAnswer \/ ExpireFailure
  <2>1. nobody => \A d \in Caller : pc[d] = "idle"
    <3> SUFFICES ASSUME nobody, NEW d \in Caller, pc[d] # "idle" PROVE FALSE
      OBVIOUS
    <3>1. Queued(d) /\ held[d] \in Lock /\ ~locked[held[d]]
      BY DEF Queued, LockInv, TypeOK, Places, HolderInv
    <3>2. waiters[held[d]] # <<>>
      BY <3>1, EmptySeq DEF LockInv, QueueInv
    <3>3. waiters[held[d]][1] \in Caller
      BY <3>1, <3>2, ElementOfSeq, EmptySeq DEF LockInv, TypeOK
    <3> QED
      BY <1>5, <3>1, <3>2, <3>3
      DEF LockInv, WakeInv, ExpireAnswer, ExpireFailure, NobodyWoken
  <2> QED
    BY <1>5, <2>1 DEF ExpireAnswer, ExpireFailure, FlightInv, SingleFlight
<1>6. CASE UNCHANGED vars
  BY <1>6 DEF vars, FlightInv, SingleFlight
<1> QED
  BY <1>1, <1>3, <1>4, <1>5, <1>6 DEF Next, Fail

\* Together: the locks of get_quote and get_historical_df are sound for any
\* number of callers, whichever of them are cancelled and wherever.
THEOREM LocksSound == Spec => []LocksAreSound
<1>1. TypeOK /\ LockExcludes /\ NoLostWakeup => LocksAreSound
  BY DEF LocksAreSound
<1> QED
  BY <1>1, TypeCorrect, LocksExclude, WakeupsAreKept, PTL

\* ... so that is an invariant, since what was cut short stays so.
LEMMA FlightInvariant == Spec => [](LockInv /\ (~disturbed => FlightInv))
<1>1. Init => FlightInv
  BY DEF Init, FlightInv, SingleFlight, Fetching
<1>2. TypeOK /\ [Next]_vars /\ ~disturbed' => ~disturbed
  BY DEF Next, Request, Resume, Fetch, TryFallback, StoreAnswer, StoreFailure,
         Fail, ExpireAnswer, ExpireFailure, vars
<1>3. LockInv /\ (~disturbed => FlightInv) /\ [Next]_vars => (~disturbed => FlightInv)'
  BY <1>2, NextKeepsFlightInv DEF LockInv
<1> QED
  BY <1>1, <1>3, InitLockInv, NextKeepsLockInv, PTL DEF Spec

\* Until the first request is cancelled or a provider raises, two coroutines
\* never download the same key at once, however many ask for it.
THEOREM OneFlightAtATime == Spec => []UndisturbedFlight
<1>1. (~disturbed => FlightInv) => UndisturbedFlight
  BY DEF FlightInv, UndisturbedFlight
<1> QED
  BY <1>1, FlightInvariant, PTL

\* The locks, the queues and the hand-overs implement the cache of ReadThrough,
\* cancellations included: each of their steps is a step of it or leaves it as
\* it is.
THEOREM Refinement == Spec => ImplementsReadThrough
<1> DEFINE aloft == \E c \in Caller : Fetching(c)
           still == UNCHANGED <<cached, negative, aloft, disturbed>>
<1>1. Init => Abstract!Init
  BY DEF Init, Abstract!Init, Fetching
<1>2. ASSUME LockInv, ~disturbed => FlightInv, [Next]_vars
      PROVE  [Abstract!Next]_Abstract!vars
  <2>1. ASSUME NEW c \in Caller, Request(c) PROVE Abstract!Begin \/ still
    <3>1. ~cached /\ ~negative /\ UNCHANGED <<cached, negative, disturbed>>
      BY <2>1 DEF Request, Answerable
    <3>2. aloft => aloft'
      BY <1>2, <2>1 DEF Request, Fetching, LockInv, TypeOK
    <3> QED
      BY <3>1, <3>2 DEF Abstract!Begin
  <2>2. ASSUME NEW c \in Caller, Resume(c) PROVE Abstract!Begin \/ still
    <3>1. pc[c] = "woken" /\ UNCHANGED <<cached, negative, disturbed>>
      BY <2>2 DEF Resume
    <3>2. CASE Answerable
      <4>1. Leave(c, Tail(waiters[held[c]]))
        BY <2>2, <3>2 DEF Resume
      <4>2. \A d \in Caller : Fetching(d)' <=> Fetching(d)
        BY <1>2, <3>1, <4>1 DEF Leave, Fetching, LockInv, TypeOK, HolderInv, WokenInv, QueueInv, Queued
      <4> QED
        BY <3>1, <4>2
    <3>3. CASE ~Answerable
      <4>1. pc' = [pc EXCEPT ![c] = "provider"]
        BY <2>2, <3>3 DEF Resume
      <4>2. aloft'
        BY <1>2, <4>1 DEF Fetching, LockInv, TypeOK
      <4> QED
        BY <3>1, <3>3, <4>2 DEF Abstract!Begin, Answerable
    <3> QED
      BY <3>2, <3>3
  <2>3. ASSUME NEW c \in Caller, TryFallback(c) PROVE still
    <3>1. aloft /\ aloft'
      BY <1>2, <2>3 DEF TryFallback, Fetching, LockInv, TypeOK
    <3> QED
      BY <2>3, <3>1 DEF TryFallback
  <2>4. ASSUME NEW c \in Caller, StoreAnswer(c) \/ StoreFailure(c)
        PROVE  Abstract!Land
    <3>1. Fetching(c)
      BY <2>4, FlagAssumption DEF StoreAnswer, StoreFailure, Fetching
    <3>2. Leave(c, waiters[held[c]]) /\ UNCHANGED disturbed
      BY <2>4 DEF StoreAnswer, StoreFailure
    <3>3. ASSUME ~disturbed PROVE ~aloft'
      <4>1. \A d \in Caller \ {c} : ~Fetching(d)
        BY <1>2, <3>1, <3>3 DEF FlightInv, SingleFlight
      <4> QED
        BY <1>2, <3>2, <4>1 DEF Leave, Fetching, LockInv, TypeOK
    <3>4. aloft /\ aloft' \in BOOLEAN
      BY <3>1
    <3>5. \/ cached' = TRUE /\ negative' = FALSE
          \/ negative' = TRUE /\ UNCHANGED cached
      BY <2>4 DEF StoreAnswer, StoreFailure
    <3>6. aloft' => disturbed
      BY <1>2, <3>3
    <3> HIDE DEF aloft
    <3> QED
      BY <3>2, <3>4, <3>5, <3>6 DEF Abstract!Land, aloft
  <2>5. ASSUME NEW c \in Caller, Fail(c) PROVE Abstract!CutShort
    <3>1. \A d \in Caller : Fetching(d)' => Fetching(d)
      <4>1. CASE pc[c] \in {"waiting", "woken"} /\ FailQueued(c)
        BY <1>2, <4>1 DEF FailQueued, Leave, Fetching, LockInv, TypeOK
      <4>2. CASE Leave(c, waiters[held[c]])
        BY <1>2, <4>2 DEF Leave, Fetching, LockInv, TypeOK
      <4> QED
        BY <2>5, <4>1, <4>2 DEF Fail
    <3> QED
      BY <2>5, <3>1 DEF Fail, Abstract!CutShort
  <2>6. ASSUME ExpireAnswer \/ ExpireFailure PROVE Abstract!Expire
    <3>1. UNCHANGED aloft
      BY <2>6 DEF ExpireAnswer, ExpireFailure, Fetching
    <3> QED
      BY <2>6, <3>1 DEF ExpireAnswer, ExpireFailure, Abstract!Expire
  <2>7. ASSUME UNCHANGED vars PROVE still
    BY <2>7 DEF vars, Fetching
  <2>8. Abstract!Next \/ still
    <3> HIDE DEF still
    <3>1. CASE Next
      BY <2>1, <2>2, <2>3, <2>4, <2>5, <2>6, <3>1 DEF Next, Fetch, Abstract!Next
    <3> QED
      BY <1>2, <2>7, <3>1
  <2> QED
    BY <2>8 DEF Abstract!vars
<1> QED
  BY <1>1, <1>2, FlightInvariant, PTL DEF Spec, ImplementsReadThrough, Abstract!Spec
=============================================================================
