----------------------------- MODULE DutyProofs -----------------------------
(***************************************************************************)
(* Proofs about what is owed: by the watch reports to each chat, for any   *)
(* chats, times, attempts and crashes; by the jobs of newsd to each run,   *)
(* for any history of runs and any screen; and by the morning brief, for   *)
(* any night of cues, any calendar and any readings.                       *)
(***************************************************************************)
EXTENDS WatchQueue, TrialsJobs, FiniteSetTheorems, SequenceTheorems, TLAPS

Loops == INSTANCE SequenceLemmas

-----------------------------------------------------------------------------
(* The reports of a release.                                                *)
Queued(w) == \E v \in queue : SameMember(v, w)
Chosen == {"sent", "requeue", "abandon"}

(* What the run has in hand, and what it did with it.                       *)
HandInv ==
    /\ stage \in {"idle", "down"} => pending = {}
    /\ stage \in Chosen => current \in pending
    /\ stage = "sent" => told[current.chat] > 0 \/ current.chat \in unsent
    /\ stage = "requeue" => current.attempts + 1 < MaxAttempts

(* The sorted set has a member once, and what the run has still to see is   *)
(* in it, whoever taps meanwhile.                                           *)
QueueInv ==
    /\ IsFiniteSet(queue)
    /\ \A v, w \in queue : SameMember(v, w) => v = w
    /\ \A v, w \in pending : SameMember(v, w) => v = w
    /\ \A w \in pending : Queued(w) \/ (stage \in {"requeue", "abandon"} /\ w = current)

(* What every chat was sent and is owed is covered by its taps and by the   *)
(* crashes.                                                                 *)
AccountInv == \A c \in Chat : told[c] + Owed(c) <= taps[c] + crashes

Losers == {c \in Chat : Lost(c)}
LossInv == IsFiniteSet(Losers) /\ Cardinality(Losers) <= crashes

QueueStateInv == TypeOK /\ HandInv /\ QueueInv
IInv == QueueStateInv /\ AccountInv /\ LossInv

LEMMA BoundFacts ==
    /\ Release \in Nat /\ Delay \in Nat /\ RetryAfter \in Nat /\ MaxAttempts \in Nat /\ MaxAttempts > 0
    /\ OfferEnd \in Nat /\ MaxNow \in Nat /\ MaxTaps \in Nat /\ MaxCrashes \in Nat
BY TimeAssumption

LEMMA InitState == Init => QueueStateInv
<1> SUFFICES ASSUME Init PROVE QueueStateInv
  OBVIOUS
<1> USE DEF Init
<1>1. TypeOK
  BY BoundFacts DEF TypeOK
<1>2. HandInv /\ QueueInv
  BY FS_EmptySet DEF HandInv, QueueInv, Chosen
<1>3. QED BY <1>1, <1>2 DEF QueueStateInv

\* ZREM and ZADD keep the set a set of members.
LEMMA ZremFacts ==
    ASSUME QueueInv, NEW w
    PROVE  /\ Zrem(w) \subseteq queue /\ IsFiniteSet(Zrem(w))
           /\ \A v \in queue : v \in Zrem(w) <=> ~SameMember(v, w)
<1>1. Zrem(w) \subseteq queue /\ \A v \in queue : v \in Zrem(w) <=> ~SameMember(v, w)
  BY DEF Zrem, SameMember
<1>2. QED BY <1>1, FS_Subset DEF QueueInv

LEMMA ZaddFacts ==
    ASSUME QueueInv, NEW w
    PROVE  /\ IsFiniteSet(Zadd(w))
           /\ \A v \in queue : \E u \in Zadd(w) : SameMember(u, v)
           /\ \A u, v \in Zadd(w) : SameMember(u, v) => u = v
<1>1. IsFiniteSet(Zadd(w))
  BY ZremFacts, FS_AddElement DEF Zadd
<1>2. \A v \in queue : \E u \in Zadd(w) : SameMember(u, v)
  BY ZremFacts DEF Zadd, SameMember
<1>3. \A u, v \in Zadd(w) : SameMember(u, v) => u = v
  BY ZremFacts DEF Zadd, SameMember, QueueInv
<1>4. QED BY <1>1, <1>2, <1>3

LEMMA SendType ==
    ASSUME TypeOK, NEW c \in Chat, Send(c)
    PROVE  /\ told' \in [Chat -> Nat] /\ unsent' \subseteq Chat /\ enrolled' \subseteq Chat
           /\ told'[c] > 0 \/ c \in unsent'
           /\ unsent \subseteq unsent' /\ \A d \in Chat : told[d] > 0 => told'[d] > 0
<1>1. CASE told' = [told EXCEPT ![c] = @ + 1] /\ UNCHANGED <<enrolled, unsent>>
  BY <1>1 DEF TypeOK
<1>2. CASE unsent' = unsent \cup {c} /\ enrolled' \in {enrolled, enrolled \ {c}} /\ UNCHANGED told
  BY <1>2 DEF TypeOK
<1>3. QED BY <1>1, <1>2 DEF Send

LEMMA StateStep == QueueStateInv /\ [Next]_vars => QueueStateInv'
<1> SUFFICES ASSUME QueueStateInv, [Next]_vars PROVE QueueStateInv'
  OBVIOUS
<1> USE BoundFacts DEF QueueStateInv
<1>1. ASSUME NEW c \in Chat, Enrol(c) \/ Unenrol(c) PROVE QueueStateInv'
  BY <1>1 DEF Enrol, Unenrol, TypeOK, HandInv, QueueInv, Queued
<1>2. ASSUME NEW c \in Chat, Tap(c) PROVE QueueStateInv'
  <2> DEFINE w == [chat |-> c, attempts |-> 0, due |-> Release + Delay]
  <2>1. w \in Watch
    BY DEF Watch
  <2> HIDE DEF w
  <2>2. queue' = Zadd(w) /\ UNCHANGED <<now, stage, pending, current, told, unsent, crashes, enrolled>>
    BY <1>2 DEF Tap, w
  <2>3. TypeOK'
    <3>1. taps' \in [Chat -> 0..MaxTaps]
      BY <1>2 DEF Tap, TypeOK
    <3>2. queue' \subseteq Watch
      BY <2>1, <2>2 DEF Zadd, Zrem, TypeOK
    <3>3. QED BY <2>2, <3>1, <3>2 DEF TypeOK
  <2>4. HandInv'
    BY <2>2 DEF HandInv
  <2>5. QueueInv'
    <3>1. \A v \in pending : Queued(v) => Queued(v)'
      BY <2>2, ZaddFacts DEF Queued, SameMember
    <3>2. QED BY <2>2, <3>1, ZaddFacts DEF QueueInv
  <2>6. QED BY <2>3, <2>4, <2>5
<1>3. ASSUME StartSweep PROVE QueueStateInv'
  <2>1. CASE Offered
    BY <1>3, <2>1 DEF StartSweep, TypeOK, HandInv, QueueInv, Queued, SameMember, Due, Chosen
  <2>2. CASE ~Offered
    <3>1. queue' = queue \ Due /\ stage = "idle" /\ UNCHANGED <<now, pending, stage, current, taps, told, unsent, crashes, enrolled>>
      BY <1>3, <2>2 DEF StartSweep
    <3>2. IsFiniteSet(queue')
      BY <3>1, FS_Subset DEF QueueInv
    <3>3. QED BY <3>1, <3>2 DEF TypeOK, HandInv, QueueInv, Chosen
  <2>3. QED BY <2>1, <2>2
<1>4. ASSUME NEW w \in pending, Report(w) PROVE QueueStateInv'
  <2>1. w \in Watch /\ w.chat \in Chat
    BY DEF TypeOK, Watch
  <2>2. /\ stage = "walk" /\ stage' = "sent" /\ current' = w
        /\ UNCHANGED <<now, queue, pending, taps, crashes>>
    BY <1>4 DEF Report
  <2>3. TypeOK'
    BY <1>4, <2>1, <2>2, SendType DEF Report, TypeOK
  <2>4. HandInv'
    BY <1>4, <2>1, <2>2, SendType DEF Report, HandInv, Chosen
  <2>5. QueueInv'
    BY <2>2 DEF QueueInv, Queued
  <2>6. QED BY <2>3, <2>4, <2>5
<1>5. ASSUME Done PROVE QueueStateInv'
  <2>1. /\ queue' = Zrem(current) /\ pending' = pending \ {current} /\ current \in pending
        /\ stage = "sent" /\ stage' = "walk" /\ current' = NoWatch
        /\ UNCHANGED <<now, taps, told, unsent, crashes, enrolled>>
    BY <1>5 DEF Done, HandInv, Chosen
  <2>2. TypeOK'
    BY <2>1, ZremFacts DEF TypeOK
  <2>3. HandInv'
    BY <2>1 DEF HandInv, Chosen
  <2>4. QueueInv'
    <3>1. ASSUME NEW v \in pending, v # current PROVE Queued(v)'
      <4>1. PICK u \in queue : SameMember(u, v)
        BY <2>1, <3>1 DEF QueueInv, Queued
      <4>2. ~SameMember(u, current)
        BY <2>1, <3>1, <4>1 DEF QueueInv, SameMember
      <4>3. QED BY <2>1, <4>1, <4>2, ZremFacts DEF Queued, SameMember
    <3>2. QED BY <2>1, <3>1, ZremFacts DEF QueueInv
  <2>5. QED BY <2>2, <2>3, <2>4
<1>6. ASSUME NEW w \in pending, TakeOff(w) PROVE QueueStateInv'
  <2>1. /\ queue' = Zrem(w) /\ stage = "walk" /\ stage' \in {"abandon", "requeue"} /\ current' = w
        /\ stage' = "requeue" => w.attempts + 1 < MaxAttempts
        /\ UNCHANGED <<now, pending, taps, told, unsent, crashes, enrolled>>
    BY <1>6 DEF TakeOff, TypeOK, Watch
  <2>2. TypeOK'
    BY <2>1, ZremFacts DEF TypeOK
  <2>3. HandInv'
    BY <2>1 DEF HandInv, Chosen
  <2>4. QueueInv'
    <3>1. ASSUME NEW v \in pending, v # w PROVE Queued(v)'
      <4>1. PICK u \in queue : SameMember(u, v)
        BY <2>1, <3>1 DEF QueueInv, Queued
      <4>2. ~SameMember(u, w)
        BY <2>1, <3>1, <4>1 DEF QueueInv, SameMember
      <4>3. QED BY <2>1, <4>1, <4>2, ZremFacts DEF Queued, SameMember
    <3>2. QED BY <2>1, <3>1, ZremFacts DEF QueueInv
  <2>5. QED BY <2>2, <2>3, <2>4
<1>7. ASSUME Requeue PROVE QueueStateInv'
  <2> DEFINE w == [chat |-> current.chat, attempts |-> current.attempts + 1, due |-> now + RetryAfter]
  <2>1. /\ pending' = pending \ {current} /\ current \in pending
        /\ stage = "requeue" /\ stage' = "walk" /\ current' = NoWatch
        /\ UNCHANGED <<now, taps, told, unsent, crashes, enrolled>>
    BY <1>7 DEF Requeue, HandInv, Chosen
  <2>2. w \in Watch
    BY <2>1 DEF Watch, TypeOK, HandInv
  <2> HIDE DEF w
  <2>3. queue' = Zadd(w)
    BY <1>7 DEF Requeue, w
  <2>4. TypeOK'
    BY <2>1, <2>2, <2>3, ZremFacts DEF TypeOK, Zadd
  <2>5. HandInv'
    BY <2>1 DEF HandInv, Chosen
  <2>6. QueueInv'
    <3>1. \A v \in pending : Queued(v) => Queued(v)'
      BY <2>3, ZaddFacts DEF Queued, SameMember
    <3>2. QED BY <2>1, <2>3, <3>1, ZaddFacts DEF QueueInv
  <2>7. QED BY <2>4, <2>5, <2>6
<1>8. ASSUME Abandon PROVE QueueStateInv'
  <2>1. /\ pending' = pending \ {current} /\ current \in pending
        /\ stage = "abandon" /\ stage' = "walk" /\ current' = NoWatch
        /\ UNCHANGED <<now, queue, taps, crashes>>
    BY <1>8 DEF Abandon, HandInv, Chosen
  <2>2. current.chat \in Chat
    BY <2>1 DEF TypeOK, Watch
  <2>3. TypeOK'
    BY <1>8, <2>1, <2>2, SendType DEF Abandon, TypeOK
  <2>4. HandInv' /\ QueueInv'
    BY <2>1 DEF HandInv, QueueInv, Queued, Chosen
  <2>5. QED BY <2>3, <2>4
<1>9. ASSUME EndSweep \/ Restart \/ Tick \/ Crash PROVE QueueStateInv'
  BY <1>9 DEF EndSweep, Restart, Tick, Crash, TypeOK, HandInv, QueueInv, Queued, Chosen
<1>10. CASE UNCHANGED vars
  BY <1>10 DEF vars, TypeOK, HandInv, QueueInv, Queued
<1>11. QED BY <1>1, <1>2, <1>3, <1>4, <1>5, <1>6, <1>7, <1>8, <1>9, <1>10 DEF Next, Sweep

THEOREM QueueStateInvariant == Spec => []QueueStateInv
BY InitState, StateStep, PTL DEF Spec
-----------------------------------------------------------------------------
(* The watches a chat is owed a report for, beside the one in hand.         *)
Owing(c) == {w \in queue \ Reported : w.chat = c}

LEMMA OwedFacts ==
    ASSUME QueueStateInv, NEW c \in Chat
    PROVE  /\ IsFiniteSet(Owing(c)) /\ Cardinality(Owing(c)) \in Nat
           /\ Owed(c) = Cardinality(Owing(c)) + (IF InHand(c) THEN 1 ELSE 0)
           /\ Owed(c) \in Nat
<1>1. IsFiniteSet(Owing(c))
  <2>1. Owing(c) \in SUBSET queue
    BY DEF Owing
  <2>2. QED BY <2>1, FS_Subset DEF QueueStateInv, QueueInv
<1>2. Cardinality(Owing(c)) \in Nat
  BY <1>1, FS_CardinalityType
<1>3. QED BY <1>1, <1>2 DEF Owed, Owing

LEMMA OwedFactsNext ==
    ASSUME QueueStateInv', NEW c \in Chat
    PROVE  /\ IsFiniteSet(Owing(c)') /\ Cardinality(Owing(c)') \in Nat
           /\ Owed(c)' = Cardinality(Owing(c)') + (IF InHand(c)' THEN 1 ELSE 0)
           /\ Owed(c)' \in Nat
<1>1. IsFiniteSet(Owing(c)')
  <2>1. Owing(c)' \in SUBSET queue'
    BY DEF Owing
  <2>2. QED BY <2>1, FS_Subset DEF QueueStateInv, QueueInv
<1>2. Cardinality(Owing(c)') \in Nat
  BY <1>1, FS_CardinalityType
<1>3. QED BY <1>1, <1>2 DEF Owed, Owing

\* Dropped watches are owed no more.
LEMMA FewerOwing ==
    ASSUME QueueStateInv, QueueStateInv', NEW c \in Chat, Owing(c)' \subseteq Owing(c)
    PROVE  Cardinality(Owing(c)') <= Cardinality(Owing(c))
BY OwedFacts, FS_Subset

LEMMA NothingReported == stage # "sent" => Reported = {}
BY DEF Reported

LEMMA SameOwed ==
    ASSUME QueueStateInv, UNCHANGED <<queue, stage, current>>, NEW c \in Chat
    PROVE  Owed(c)' = Owed(c)
BY DEF Owed, InHand, Reported, SameMember

\* A tap is worth one more report, or none.
LEMMA TapOwes ==
    ASSUME QueueStateInv, QueueStateInv', NEW c \in Chat, Tap(c)
    PROVE  /\ \A d \in Chat \ {c} : Owed(d)' = Owed(d)
           /\ Owed(c)' \in {Owed(c), Owed(c) + 1}
<1> DEFINE w == [chat |-> c, attempts |-> 0, due |-> Release + Delay]
<1>1. w.chat = c
  OBVIOUS
<1>2. queue' = Zadd(w) /\ UNCHANGED <<stage, current>>
  BY DEF Tap
<1> HIDE DEF w
<1>3. \A d \in Chat : InHand(d)' <=> InHand(d)
  BY <1>2 DEF InHand
<1>4. ASSUME NEW d \in Chat \ {c} PROVE Owing(d)' = Owing(d)
  BY <1>1, <1>2 DEF Owing, Reported, Zadd, Zrem, SameMember
<1>5. CASE \E v \in queue : SameMember(v, w)
  <2>1. PICK v \in queue : SameMember(v, w)
    BY <1>5
  <2>2. Zrem(w) = queue \ {v}
    BY <2>1 DEF Zrem, SameMember, QueueStateInv, QueueInv
  <2>3. queue' = (queue \ {v}) \cup {w} /\ v.chat = c
    BY <1>1, <1>2, <2>1, <2>2 DEF Zadd, SameMember
  <2>4. CASE v \in Reported
    <3>1. Owing(c)' = Owing(c)
      BY <1>1, <1>2, <2>1, <2>3, <2>4 DEF Owing, Reported, SameMember, QueueStateInv, QueueInv
    <3>2. QED BY <1>3, <1>4, <3>1, OwedFacts, OwedFactsNext
  <2>5. CASE v \notin Reported
    <3>1. v \in Owing(c) /\ Owing(c)' = (Owing(c) \ {v}) \cup {w}
      BY <1>1, <1>2, <2>1, <2>3, <2>5 DEF Owing, Reported, SameMember
    <3>2. w \notin Owing(c) \ {v}
      BY <2>2, <2>1 DEF Owing, SameMember, QueueStateInv, QueueInv
    <3>3. Cardinality(Owing(c)') = Cardinality(Owing(c))
      <4>1. IsFiniteSet(Owing(c)) /\ Cardinality(Owing(c)) \in Nat
        BY OwedFacts
      <4>2. /\ IsFiniteSet(Owing(c) \ {v})
            /\ Cardinality(Owing(c) \ {v}) = Cardinality(Owing(c)) - 1
        BY <3>1, <4>1, FS_RemoveElement
      <4>3. Cardinality((Owing(c) \ {v}) \cup {w}) = (Cardinality(Owing(c)) - 1) + 1
        BY <3>2, <4>2, FS_AddElement
      <4>4. QED BY <3>1, <4>1, <4>3
    <3>4. QED BY <1>3, <1>4, <3>3, OwedFacts, OwedFactsNext
  <2>6. QED BY <2>4, <2>5
<1>6. CASE ~\E v \in queue : SameMember(v, w)
  <2>1. queue' = queue \cup {w} /\ w \notin queue
    BY <1>2, <1>6 DEF Zadd, Zrem, SameMember
  <2>2. Owing(c)' = Owing(c) \/ (Owing(c)' = Owing(c) \cup {w} /\ w \notin Owing(c))
    BY <1>1, <1>2, <2>1 DEF Owing, Reported, SameMember
  <2>3. Cardinality(Owing(c)') \in {Cardinality(Owing(c)), Cardinality(Owing(c)) + 1}
    BY <2>2, OwedFacts, FS_AddElement
  <2>4. QED BY <1>3, <1>4, <2>3, OwedFacts, OwedFactsNext
<1>7. QED BY <1>5, <1>6

LEMMA StartSweepOwes ==
    ASSUME QueueStateInv, QueueStateInv', StartSweep, NEW c \in Chat
    PROVE  Owed(c)' <= Owed(c)
<1>1. stage = "idle" /\ stage' \in {"idle", "walk"} /\ queue' \subseteq queue
  BY DEF StartSweep
<1>2. ~InHand(c) /\ ~InHand(c)' /\ Reported = {} /\ Reported' = {}
  BY <1>1 DEF InHand, Reported
<1>3. Owing(c)' \subseteq Owing(c)
  BY <1>1, <1>2 DEF Owing
<1>4. QED BY <1>2, <1>3, FewerOwing, OwedFacts, OwedFactsNext

\* The watch a report was sent for is owed no more, ...
LEMMA ReportOwes ==
    ASSUME QueueStateInv, QueueStateInv', NEW w \in pending, Report(w)
    PROVE  /\ \A d \in Chat \ {w.chat} : Owed(d)' = Owed(d)
           /\ Owed(w.chat) > 0 /\ Owed(w.chat)' = Owed(w.chat) - 1
<1>1. w.chat \in Chat
  BY DEF QueueStateInv, TypeOK, Watch
<1>2. stage = "walk" /\ stage' = "sent" /\ current' = w /\ queue' = queue
  BY DEF Report
<1>3. PICK v \in queue : SameMember(v, w)
  BY <1>2 DEF QueueStateInv, QueueInv, Queued
<1>4. Reported = {} /\ Reported' = {v}
  BY <1>2, <1>3 DEF Reported, SameMember, QueueStateInv, QueueInv
<1>5. \A d \in Chat : ~InHand(d) /\ ~InHand(d)'
  BY <1>2 DEF InHand
<1>6. /\ \A d \in Chat \ {w.chat} : Owing(d)' = Owing(d)
      /\ v \in Owing(w.chat) /\ Owing(w.chat)' = Owing(w.chat) \ {v}
  BY <1>2, <1>3, <1>4 DEF Owing, SameMember
<1>7. Cardinality(Owing(w.chat)') = Cardinality(Owing(w.chat)) - 1
  BY <1>1, <1>6, OwedFacts, FS_RemoveElement
<1>8. \A d \in Chat : Owed(d) = Cardinality(Owing(d)) /\ Owed(d)' = Cardinality(Owing(d)')
  BY <1>5, OwedFacts, OwedFactsNext
<1>9. Owed(w.chat)' = Owed(w.chat) - 1 /\ Owed(w.chat) \in Nat /\ Owed(w.chat)' \in Nat
  BY <1>1, <1>7, <1>8, OwedFacts, OwedFactsNext
<1>10. \A d \in Chat \ {w.chat} : Owed(d)' = Owed(d)
  BY <1>6, <1>8
<1>11. QED BY <1>9, <1>10

LEMMA DoneOwes ==
    ASSUME QueueStateInv, Done, NEW c \in Chat
    PROVE  Owed(c)' = Owed(c)
<1>1. stage = "sent" /\ stage' = "walk" /\ queue' = Zrem(current)
  BY DEF Done
<1>2. Reported' = {} /\ queue' = queue \ Reported /\ ~InHand(c) /\ ~InHand(c)'
  BY <1>1 DEF Reported, Zrem, SameMember, InHand
<1>3. QED BY <1>2 DEF Owed

\* ... and the one that is to be tried again is owed as before, in hand ...
LEMMA TakeOffOwes ==
    ASSUME QueueStateInv, QueueStateInv', NEW w \in pending, TakeOff(w), NEW c \in Chat
    PROVE  Owed(c)' = Owed(c)
<1>1. w.chat \in Chat
  BY DEF QueueStateInv, TypeOK, Watch
<1>2. /\ stage = "walk" /\ stage' \in {"requeue", "abandon"} /\ current' = w
      /\ queue' = Zrem(w)
  BY DEF TakeOff
<1>3. PICK v \in queue : SameMember(v, w)
  BY <1>2 DEF QueueStateInv, QueueInv, Queued
<1>4. queue' = queue \ {v} /\ v.chat = w.chat
  BY <1>2, <1>3 DEF Zrem, SameMember, QueueStateInv, QueueInv
<1>5. Reported = {} /\ Reported' = {} /\ ~InHand(c) /\ (InHand(c)' <=> c = w.chat)
  BY <1>2 DEF Reported, InHand
<1>6. CASE c = w.chat
  <2>1. v \in Owing(c) /\ Owing(c)' = Owing(c) \ {v}
    BY <1>4, <1>5, <1>6 DEF Owing
  <2>2. Cardinality(Owing(c)') = Cardinality(Owing(c)) - 1
    BY <2>1, OwedFacts, FS_RemoveElement
  <2>3. QED BY <1>5, <1>6, <2>2, OwedFacts, OwedFactsNext
<1>7. CASE c # w.chat
  <2>1. Owing(c)' = Owing(c)
    BY <1>4, <1>5, <1>7 DEF Owing
  <2>2. QED BY <1>5, <1>7, <2>1, OwedFacts, OwedFactsNext
<1>8. QED BY <1>6, <1>7

\* ... or in the queue, unless it meets its own next attempt there.
LEMMA RequeueOwes ==
    ASSUME QueueStateInv, QueueStateInv', Requeue, NEW c \in Chat
    PROVE  Owed(c)' <= Owed(c)
<1> DEFINE w == [chat |-> current.chat, attempts |-> current.attempts + 1, due |-> now + RetryAfter]
<1>1. stage = "requeue" /\ stage' = "walk" /\ queue' \subseteq queue \cup {w}
  BY DEF Requeue, Zadd, Zrem
<1>2. w.chat = current.chat
  OBVIOUS
<1> HIDE DEF w
<1>3. Reported = {} /\ Reported' = {} /\ ~InHand(c)' /\ (InHand(c) <=> c = current.chat)
  BY <1>1 DEF Reported, InHand
<1>4. CASE c = current.chat
  <2>1. Owing(c)' \subseteq Owing(c) \cup {w}
    BY <1>1, <1>3 DEF Owing
  <2>2. Cardinality(Owing(c)') <= Cardinality(Owing(c)) + 1
    <3>1. /\ IsFiniteSet(Owing(c) \cup {w})
          /\ Cardinality(Owing(c) \cup {w}) <= Cardinality(Owing(c)) + 1
          /\ Cardinality(Owing(c) \cup {w}) \in Nat
      <4>1. IsFiniteSet(Owing(c)) /\ Cardinality(Owing(c)) \in Nat
        BY OwedFacts
      <4>2. /\ IsFiniteSet(Owing(c) \cup {w})
            /\ Cardinality(Owing(c) \cup {w}) \in {Cardinality(Owing(c)), Cardinality(Owing(c)) + 1}
        BY <4>1, FS_AddElement
      <4>3. QED BY <4>1, <4>2
    <3>2. Cardinality(Owing(c)') <= Cardinality(Owing(c) \cup {w})
      BY <2>1, <3>1, FS_Subset
    <3>3. QED BY <3>1, <3>2, OwedFacts, OwedFactsNext
  <2>3. QED BY <1>3, <1>4, <2>2, OwedFacts, OwedFactsNext
<1>5. CASE c # current.chat
  <2>1. Owing(c)' \subseteq Owing(c)
    BY <1>1, <1>2, <1>3, <1>5 DEF Owing
  <2>2. QED BY <1>3, <1>5, <2>1, FewerOwing, OwedFacts, OwedFactsNext
<1>6. QED BY <1>4, <1>5

LEMMA AbandonOwes ==
    ASSUME QueueStateInv, QueueStateInv', Abandon
    PROVE  \E c \in Chat : /\ c = current.chat
                           /\ \A d \in Chat \ {c} : Owed(d)' = Owed(d)
                           /\ Owed(c) > 0 /\ Owed(c)' = Owed(c) - 1
<1>1. stage = "abandon" /\ stage' = "walk" /\ queue' = queue
  BY DEF Abandon
<1>2. PICK c \in Chat : c = current.chat
  BY <1>1 DEF QueueStateInv, TypeOK, HandInv, Chosen, Watch
<1>3. Reported = {} /\ Reported' = {}
  BY <1>1 DEF Reported
<1>4. \A d \in Chat : Owing(d)' = Owing(d) /\ ~InHand(d)' /\ (InHand(d) <=> d = c)
  BY <1>1, <1>2, <1>3 DEF Owing, InHand
<1>5. QED BY <1>2, <1>4, OwedFacts, OwedFactsNext

\* A crash finds a report sent and not taken off, and owes it again, or a
\* watch in hand, and loses it, or neither.
LEMMA CrashOwes ==
    ASSUME QueueStateInv, QueueStateInv', Crash
    PROVE  \/ \A c \in Chat : Owed(c)' = Owed(c)
           \/ \E c \in Chat : /\ Owed(c)' = Owed(c) + 1 \/ (Owed(c) > 0 /\ Owed(c)' = Owed(c) - 1)
                              /\ \A d \in Chat \ {c} : Owed(d)' = Owed(d)
<1>1. stage' = "down" /\ queue' = queue
  BY DEF Crash
<1>2. Reported' = {} /\ \A d \in Chat : ~InHand(d)'
  BY <1>1 DEF Reported, InHand
<1>3. CASE stage = "sent"
  <2>1. PICK c \in Chat : c = current.chat
    BY <1>3 DEF QueueStateInv, TypeOK, HandInv, Chosen, Watch
  <2>2. PICK v \in queue : SameMember(v, current)
    BY <1>3 DEF QueueStateInv, QueueInv, Queued, HandInv, Chosen
  <2>3. Reported = {v} /\ \A d \in Chat : ~InHand(d)
    BY <1>3, <2>2 DEF Reported, InHand, SameMember, QueueStateInv, QueueInv
  <2>4. /\ \A d \in Chat \ {c} : Owing(d)' = Owing(d)
        /\ v \notin Owing(c) /\ Owing(c)' = Owing(c) \cup {v}
    BY <1>1, <1>2, <2>1, <2>2, <2>3 DEF Owing, SameMember
  <2>5. Cardinality(Owing(c)') = Cardinality(Owing(c)) + 1
    BY <2>1, <2>4, OwedFacts, FS_AddElement
  <2>6. Owed(c)' = Owed(c) + 1 /\ \A d \in Chat \ {c} : Owed(d)' = Owed(d)
    BY <1>2, <2>1, <2>3, <2>4, <2>5, OwedFacts, OwedFactsNext
  <2>7. QED BY <2>1, <2>6
<1>4. CASE stage # "sent"
  <2>1. \A d \in Chat : Owing(d)' = Owing(d)
    BY <1>1, <1>2, <1>4 DEF Owing, Reported
  <2>2. \A d \in Chat : Owed(d)' = IF InHand(d) THEN Owed(d) - 1 ELSE Owed(d)
    BY <1>2, <2>1, OwedFacts, OwedFactsNext
  <2>3. \A c \in Chat : InHand(c) => Owed(c) > 0 /\ \A d \in Chat \ {c} : ~InHand(d)
    BY OwedFacts DEF InHand
  <2>4. QED BY <2>2, <2>3
<1>5. QED BY <1>3, <1>4
-----------------------------------------------------------------------------
(* `owed` of WatchPromise, as WatchQueue defines it.                        *)
Debts == [c \in Chat |-> Owed(c)]

LEMMA OneMoreOwed ==
    ASSUME NEW c \in Chat, \A d \in Chat \ {c} : Owed(d)' = Owed(d), Owed(c)' = Owed(c) + 1
    PROVE  Debts' = [Debts EXCEPT ![c] = @ + 1]
BY DEF Debts

LEMMA OneLessOwed ==
    ASSUME NEW c \in Chat, \A d \in Chat \ {c} : Owed(d)' = Owed(d), Owed(c)' = Owed(c) - 1
    PROVE  Debts' = [Debts EXCEPT ![c] = @ - 1]
BY DEF Debts

LEMMA LessOwed ==
    ASSUME QueueStateInv', \A c \in Chat : Owed(c)' <= Owed(c), UNCHANGED <<taps, told, crashes>>
    PROVE  Promise!Forget
<1>1. /\ \A c \in Chat : Debts'[c] <= Debts[c]
      /\ Debts' \in [Chat -> Nat]
  BY OwedFactsNext DEF Debts
<1>2. QED BY <1>1 DEF Promise!Forget, Debts

LEMMA InitPromise == Init => Promise!Init
<1> SUFFICES ASSUME Init PROVE Promise!Init
  OBVIOUS
<1>1. \A c \in Chat : Owed(c) = 0
  <2>1. \A c \in Chat : {w \in queue \ Reported : w.chat = c} = {} /\ ~InHand(c)
    BY DEF Init, InHand
  <2>2. QED BY <2>1, FS_EmptySet DEF Owed
<1>2. QED BY <1>1 DEF Init, Promise!Init

LEMMA PromiseStep ==
    QueueStateInv /\ QueueStateInv' /\ [Next]_vars => [Promise!Next]_Promise!vars
<1> SUFFICES ASSUME QueueStateInv, QueueStateInv', [Next]_vars
             PROVE  Promise!Next \/ UNCHANGED Promise!vars
  OBVIOUS
<1>1. ASSUME \A c \in Chat : Owed(c)' = Owed(c), UNCHANGED <<taps, told, crashes>>
      PROVE  UNCHANGED Promise!vars
  BY <1>1 DEF Promise!vars
<1>2. ASSUME NEW c \in Chat, Enrol(c) \/ Unenrol(c) PROVE UNCHANGED Promise!vars
  BY <1>1, <1>2, SameOwed DEF Enrol, Unenrol
<1>3. ASSUME NEW c \in Chat, Tap(c) PROVE Promise!Tap(c)
  <2>1. taps' = [taps EXCEPT ![c] = @ + 1] /\ UNCHANGED <<told, crashes>>
    BY <1>3 DEF Tap
  <2>2. /\ \A d \in Chat \ {c} : Owed(d)' = Owed(d)
        /\ Owed(c)' \in {Owed(c), Owed(c) + 1}
    BY <1>3, TapOwes
  <2>3. Debts' \in {Debts, [Debts EXCEPT ![c] = @ + 1]}
    <3>1. CASE Owed(c)' = Owed(c)
      BY <2>2, <3>1 DEF Debts
    <3>2. CASE Owed(c)' = Owed(c) + 1
      BY <2>2, <3>2, OneMoreOwed
    <3>3. QED BY <2>2, <3>1, <3>2
  <2>4. QED BY <2>1, <2>3 DEF Promise!Tap, Debts
<1>4. ASSUME StartSweep PROVE Promise!Forget
  BY <1>4, StartSweepOwes, LessOwed DEF StartSweep
<1>5. ASSUME NEW c \in Chat, Send(c), UNCHANGED <<taps, crashes>>,
             \A d \in Chat \ {c} : Owed(d)' = Owed(d), Owed(c) > 0, Owed(c)' = Owed(c) - 1
      PROVE  Promise!Report(c) \/ Promise!Forget
  <2>1. Debts' = [Debts EXCEPT ![c] = @ - 1] /\ Debts[c] > 0
    BY <1>5, OneLessOwed DEF Debts
  <2>2. CASE told' = [told EXCEPT ![c] = @ + 1]
    BY <1>5, <2>1, <2>2 DEF Promise!Report, Debts
  <2>3. CASE UNCHANGED told
    <3>1. \A d \in Chat : Owed(d)' <= Owed(d)
      BY <1>5, OwedFacts
    <3>2. QED BY <1>5, <2>3, <3>1, LessOwed
  <2>4. QED BY <1>5, <2>2, <2>3 DEF Send
<1>6. ASSUME NEW w \in pending, Report(w) PROVE Promise!Report(w.chat) \/ Promise!Forget
  <2>1. w.chat \in Chat /\ Send(w.chat) /\ UNCHANGED <<taps, crashes>>
    BY <1>6 DEF Report, QueueStateInv, TypeOK, Watch
  <2>2. QED BY <1>5, <1>6, <2>1, ReportOwes
<1>7. ASSUME Done PROVE UNCHANGED Promise!vars
  BY <1>1, <1>7, DoneOwes DEF Done
<1>8. ASSUME NEW w \in pending, TakeOff(w) PROVE UNCHANGED Promise!vars
  BY <1>1, <1>8, TakeOffOwes DEF TakeOff
<1>9. ASSUME Requeue PROVE Promise!Forget
  BY <1>9, RequeueOwes, LessOwed DEF Requeue
<1>10. ASSUME Abandon PROVE \E c \in Chat : Promise!Report(c) \/ Promise!Forget
  BY <1>5, <1>10, AbandonOwes DEF Abandon
<1>11. ASSUME Crash PROVE Promise!Die
  <2>1. crashes' = crashes + 1 /\ UNCHANGED <<taps, told>>
    BY <1>11 DEF Crash
  <2>2. CASE \A c \in Chat : Owed(c)' = Owed(c)
    BY <2>1, <2>2 DEF Promise!Die
  <2>3. ASSUME NEW c \in Chat, \A d \in Chat \ {c} : Owed(d)' = Owed(d), Owed(c)' = Owed(c) + 1
        PROVE  Promise!Die
    BY <2>1, <2>3, OneMoreOwed DEF Promise!Die, Debts
  <2>4. ASSUME NEW c \in Chat, \A d \in Chat \ {c} : Owed(d)' = Owed(d), Owed(c) > 0,
               Owed(c)' = Owed(c) - 1
        PROVE  Promise!Die
    <3>1. Debts' = [Debts EXCEPT ![c] = @ - 1] /\ Debts[c] > 0
      BY <2>4, OneLessOwed DEF Debts
    <3>2. QED BY <2>1, <3>1 DEF Promise!Die, Debts
  <2>5. QED BY <1>11, <2>2, <2>3, <2>4, CrashOwes
<1>12. ASSUME EndSweep \/ Restart PROVE UNCHANGED Promise!vars
  <2>1. \A c \in Chat : Owed(c)' = Owed(c)
    BY <1>12 DEF EndSweep, Restart, Owed, Reported, InHand
  <2>2. QED BY <1>1, <1>12, <2>1 DEF EndSweep, Restart
<1>13. ASSUME Tick \/ UNCHANGED vars PROVE UNCHANGED Promise!vars
  BY <1>1, <1>13, SameOwed DEF Tick, vars
<1>14. QED
  BY <1>2, <1>3, <1>4, <1>6, <1>7, <1>8, <1>9, <1>10, <1>11, <1>12, <1>13
  DEF Next, Sweep, Promise!Next, QueueStateInv, TypeOK, Watch

\* WatchQueue implements WatchPromise: taps, retries, refused sends and crashes of
\* newsd between any two commands make a tap worth at most one report.
THEOREM KeepsPromise == Spec => KeepsThePromise
BY QueueStateInvariant, InitPromise, PromiseStep, PTL DEF Spec, KeepsThePromise, Promise!Spec

\* Whatever keeps the promise keeps the account.
LEMMA AccountStep ==
    ASSUME QueueStateInv, QueueStateInv', AccountInv, [Promise!Next]_Promise!vars
    PROVE  AccountInv'
<1>1. /\ \A c \in Chat : Owed(c) \in Nat /\ Debts[c] = Owed(c) /\ Debts'[c] = Owed(c)'
      /\ Debts \in [Chat -> Nat] /\ told \in [Chat -> Nat] /\ taps \in [Chat -> Nat] /\ crashes \in Nat
  BY OwedFacts, OwedFactsNext, BoundFacts DEF Debts, QueueStateInv, TypeOK
<1>2. ASSUME UNCHANGED <<taps, told>>, crashes' \in {crashes, crashes + 1},
             \A c \in Chat : Debts'[c] <= Debts[c] + (crashes' - crashes)
      PROVE  AccountInv'
  BY <1>1, <1>2, OwedFactsNext DEF AccountInv
<1>3. CASE Promise!Forget
  <2>1. \A c \in Chat : Debts'[c] <= Debts[c]
    BY <1>3 DEF Promise!Forget, Debts
  <2>2. UNCHANGED <<taps, told, crashes>>
    BY <1>3 DEF Promise!Forget
  <2>3. \A c \in Chat : Debts'[c] <= Debts[c] + (crashes' - crashes)
    BY <1>1, <2>1, <2>2, OwedFactsNext
  <2>4. QED BY <1>2, <2>2, <2>3
<1>4. CASE Promise!Die
  <2>1. crashes' = crashes + 1 /\ UNCHANGED <<taps, told>>
    BY <1>4 DEF Promise!Die
  <2>2. \/ Debts' = Debts
        \/ \E c \in Chat : Debts' = [Debts EXCEPT ![c] = @ + 1] \/ Debts' = [Debts EXCEPT ![c] = @ - 1]
    BY <1>4 DEF Promise!Die, Debts
  <2>3. \A c \in Chat : Debts'[c] <= Debts[c] + 1
    BY <1>1, <2>2
  <2>4. \A c \in Chat : Debts'[c] <= Debts[c] + (crashes' - crashes)
    BY <1>1, <2>1, <2>3, OwedFactsNext
  <2>5. QED BY <1>2, <2>1, <2>4
<1>5. ASSUME NEW c \in Chat, Promise!Tap(c) PROVE AccountInv'
  <2>1. /\ taps' = [taps EXCEPT ![c] = @ + 1] /\ UNCHANGED <<told, crashes>>
        /\ Debts' \in {Debts, [Debts EXCEPT ![c] = @ + 1]}
    BY <1>5 DEF Promise!Tap, Debts
  <2>2. \A d \in Chat : taps'[d] + Debts[d] >= taps[d] + Debts'[d]
    BY <1>1, <2>1
  <2>3. \A d \in Chat : taps'[d] \in Nat
    BY <1>1, <2>1
  <2>4. QED BY <1>1, <2>1, <2>2, <2>3, OwedFactsNext DEF AccountInv
<1>6. ASSUME NEW c \in Chat, Promise!Report(c) PROVE AccountInv'
  <2>1. /\ told' = [told EXCEPT ![c] = @ + 1] /\ UNCHANGED <<taps, crashes>>
        /\ Debts' = [Debts EXCEPT ![c] = @ - 1]
    BY <1>6 DEF Promise!Report, Debts
  <2>2. \A d \in Chat : told'[d] + Debts'[d] = told[d] + Debts[d]
    BY <1>1, <2>1
  <2>3. QED BY <1>1, <2>1, <2>2 DEF AccountInv
<1>7. CASE UNCHANGED Promise!vars
  <2>1. UNCHANGED <<taps, told, crashes, Debts>>
    BY <1>7 DEF Promise!vars, Debts
  <2>2. QED BY <1>1, <2>1 DEF AccountInv
<1>8. QED BY <1>3, <1>4, <1>5, <1>6, <1>7 DEF Promise!Next

-----------------------------------------------------------------------------
\* Nobody is lost but the chat a crash finds in hand.
LEMMA OneMoreLost ==
    ASSUME QueueStateInv, [Next]_vars
    PROVE  \/ UNCHANGED crashes /\ Losers' \subseteq Losers
           \/ crashes' = crashes + 1 /\ \E c : Losers' \subseteq Losers \cup {c}
<1> USE DEF QueueStateInv
<1>1. ASSUME NEW c \in Chat, Tap(c) PROVE UNCHANGED crashes /\ Losers' \subseteq Losers
  <2> DEFINE w == [chat |-> c, attempts |-> 0, due |-> Release + Delay]
  <2>1. w.chat = c
    OBVIOUS
  <2>2. /\ queue' = Zadd(w) /\ taps' = [taps EXCEPT ![c] = @ + 1]
        /\ UNCHANGED <<now, stage, current, told, unsent, crashes>>
    BY <1>1 DEF Tap
  <2> HIDE DEF w
  <2>3. Armed(c)'
    BY <2>1, <2>2 DEF Armed, Zadd
  <2>4. \A d \in Chat \ {c} : taps'[d] = taps[d] /\ (Armed(d) <=> Armed(d)')
    BY <2>1, <2>2 DEF Armed, Zadd, Zrem, SameMember, TypeOK
  <2>5. QED BY <2>2, <2>3, <2>4 DEF Losers, Lost, Offered, InHand
<1>2. ASSUME StartSweep PROVE UNCHANGED crashes /\ Losers' \subseteq Losers
  <2>1. CASE Offered
    BY <1>2, <2>1 DEF StartSweep, Losers, Lost, Offered, Armed, InHand
  <2>2. CASE ~Offered
    BY <1>2, <2>2 DEF StartSweep, Losers, Lost, Offered
  <2>3. QED BY <2>1, <2>2
<1>3. ASSUME NEW w \in pending, Report(w) PROVE UNCHANGED crashes /\ Losers' \subseteq Losers
  <2>1. w.chat \in Chat
    BY DEF TypeOK, Watch
  <2>2. /\ stage = "walk" /\ stage' = "sent" /\ UNCHANGED <<now, queue, taps, crashes>>
    BY <1>3 DEF Report
  <2>3. /\ \A d \in Chat : told'[d] = 0 => told[d] = 0
        /\ unsent \subseteq unsent'
    BY <1>3, <2>1, SendType DEF Report, TypeOK
  <2>4. QED BY <2>2, <2>3 DEF Losers, Lost, Offered, Armed, InHand
<1>4. ASSUME Done PROVE UNCHANGED crashes /\ Losers' \subseteq Losers
  <2>1. /\ stage = "sent" /\ stage' = "walk" /\ queue' = Zrem(current)
        /\ UNCHANGED <<now, taps, told, unsent, crashes>>
    BY <1>4 DEF Done
  <2>2. PICK c \in Chat : c = current.chat /\ (told[c] > 0 \/ c \in unsent)
    BY <2>1 DEF HandInv, Chosen, TypeOK, Watch
  <2>3. \A d \in Chat \ {c} : Armed(d) => Armed(d)'
    BY <2>1, <2>2 DEF Armed, Zrem, SameMember
  <2>4. QED BY <2>1, <2>2, <2>3 DEF Losers, Lost, Offered, InHand, TypeOK
<1>5. ASSUME NEW w \in pending, TakeOff(w) PROVE UNCHANGED crashes /\ Losers' \subseteq Losers
  <2>1. /\ stage = "walk" /\ stage' \in {"requeue", "abandon"} /\ current' = w /\ queue' = Zrem(w)
        /\ UNCHANGED <<now, taps, told, unsent, crashes>>
    BY <1>5 DEF TakeOff
  <2>2. \A d \in Chat : d # w.chat => (Armed(d) => Armed(d)')
    BY <2>1 DEF Armed, Zrem, SameMember
  <2>3. QED BY <2>1, <2>2 DEF Losers, Lost, Offered, InHand
<1>6. ASSUME Requeue PROVE UNCHANGED crashes /\ Losers' \subseteq Losers
  <2> DEFINE w == [chat |-> current.chat, attempts |-> current.attempts + 1, due |-> now + RetryAfter]
  <2>1. w.chat = current.chat
    OBVIOUS
  <2>2. /\ stage = "requeue" /\ stage' = "walk" /\ queue' = Zadd(w)
        /\ UNCHANGED <<now, taps, told, unsent, crashes>>
    BY <1>6 DEF Requeue
  <2> HIDE DEF w
  <2>3. \A d \in Chat : Armed(d) \/ InHand(d) => Armed(d)'
    BY <2>1, <2>2 DEF Armed, InHand, Zadd, Zrem, SameMember
  <2>4. QED BY <2>2, <2>3 DEF Losers, Lost, Offered, InHand
<1>7. ASSUME Abandon PROVE UNCHANGED crashes /\ Losers' \subseteq Losers
  <2>1. /\ stage = "abandon" /\ stage' = "walk" /\ UNCHANGED <<now, queue, taps, crashes>>
    BY <1>7 DEF Abandon
  <2>2. PICK c \in Chat : c = current.chat
    BY <2>1 DEF HandInv, Chosen, TypeOK, Watch
  <2>3. /\ \A d \in Chat : told'[d] = 0 => told[d] = 0
        /\ unsent \subseteq unsent' /\ (told'[c] > 0 \/ c \in unsent')
    BY <1>7, <2>2, SendType DEF Abandon, TypeOK
  <2>4. QED BY <2>1, <2>2, <2>3 DEF Losers, Lost, Offered, Armed, InHand
<1>8. ASSUME Crash PROVE crashes' = crashes + 1 /\ \E c : Losers' \subseteq Losers \cup {c}
  <2>1. crashes' = crashes + 1 /\ UNCHANGED <<now, queue, taps, told, unsent>>
    BY <1>8 DEF Crash
  <2>2. Losers' \subseteq Losers \cup {current.chat}
    BY <2>1 DEF Losers, Lost, Offered, Armed, InHand
  <2>3. QED BY <2>1, <2>2
<1>9. ASSUME NEW c \in Chat, Enrol(c) \/ Unenrol(c) PROVE UNCHANGED crashes /\ Losers' \subseteq Losers
  BY <1>9 DEF Enrol, Unenrol, Losers, Lost, Offered, Armed, InHand
<1>10. ASSUME EndSweep \/ Restart PROVE UNCHANGED crashes /\ Losers' \subseteq Losers
  BY <1>10 DEF EndSweep, Restart, Losers, Lost, Offered, Armed, InHand
<1>11. ASSUME Tick PROVE UNCHANGED crashes /\ Losers' \subseteq Losers
  <2>1. now' = now + 1 /\ now \in Nat
    BY <1>11, BoundFacts DEF Tick, TypeOK
  <2>2. QED BY <1>11, <2>1, BoundFacts DEF Tick, Losers, Lost, Offered, Armed, InHand
<1>12. CASE UNCHANGED vars
  BY <1>12 DEF vars, Losers, Lost, Offered, Armed, InHand
<1>13. QED
  BY <1>1, <1>2, <1>3, <1>4, <1>5, <1>6, <1>7, <1>8, <1>9, <1>10, <1>11, <1>12 DEF Next, Sweep

LEMMA LossStep ==
    ASSUME QueueStateInv, LossInv, [Next]_vars
    PROVE  LossInv'
<1>1. crashes \in Nat /\ IsFiniteSet(Losers) /\ Cardinality(Losers) \in Nat /\ Cardinality(Losers) <= crashes
  BY BoundFacts, FS_CardinalityType DEF QueueStateInv, TypeOK, LossInv
<1>2. CASE UNCHANGED crashes /\ Losers' \subseteq Losers
  <2>1. IsFiniteSet(Losers') /\ Cardinality(Losers') <= Cardinality(Losers) /\ Cardinality(Losers') \in Nat
    BY <1>1, <1>2, FS_Subset, FS_CardinalityType
  <2>2. QED BY <1>1, <1>2, <2>1 DEF LossInv
<1>3. ASSUME crashes' = crashes + 1, NEW c, Losers' \subseteq Losers \cup {c}
      PROVE  LossInv'
  <2>1. /\ IsFiniteSet(Losers \cup {c})
        /\ Cardinality(Losers \cup {c}) \in {Cardinality(Losers), Cardinality(Losers) + 1}
    BY <1>1, FS_AddElement
  <2>2. IsFiniteSet(Losers') /\ Cardinality(Losers') <= Cardinality(Losers \cup {c})
    BY <1>3, <2>1, FS_Subset
  <2>3. Cardinality(Losers') \in Nat
    BY <2>2, FS_CardinalityType
  <2>4. QED BY <1>1, <1>3, <2>1, <2>2, <2>3 DEF LossInv
<1>4. QED BY <1>2, <1>3, OneMoreLost

\* The conjunction is an invariant of the queue, its sweeps and the taps.
THEOREM QueueInvariant == Spec => []IInv
<1>1. Init => IInv
  <2> SUFFICES ASSUME Init PROVE IInv
    OBVIOUS
  <2>1. AccountInv
    <3>1. \A c \in Chat : {w \in queue \ Reported : w.chat = c} = {} /\ ~InHand(c)
      BY DEF Init, InHand
    <3>2. \A c \in Chat : Owed(c) = 0
      BY <3>1, FS_EmptySet DEF Owed
    <3>3. QED BY <3>2 DEF Init, AccountInv
  <2>2. LossInv
    <3>1. Losers = {}
      BY DEF Init, Losers, Lost
    <3>2. QED BY <3>1, FS_EmptySet DEF Init, LossInv
  <2>3. QED BY <2>1, <2>2, InitState DEF IInv
<1>2. IInv /\ [Next]_vars => IInv'
  BY StateStep, PromiseStep, AccountStep, LossStep DEF IInv
<1>3. QED BY <1>1, <1>2, PTL DEF Spec

\* Between taps, sweeps, refused sends and crashes, no chat is sent a report it did
\* not tap for but the one each crash may repeat, and none that tapped is forgotten
\* but the one each crash may find in hand.
THEOREM NobodyGoesAstray == Spec => []NoWatchGoesAstray
<1>1. ASSUME IInv PROVE NoUnaskedReports
  BY <1>1, OwedFacts, BoundFacts DEF IInv, AccountInv, NoUnaskedReports, QueueStateInv, TypeOK
<1>2. IInv => NoWatchGoesAstray
  BY <1>1 DEF IInv, QueueStateInv, LossInv, Losers, CrashCostsOneWatch, NoWatchGoesAstray
<1>3. QED BY <1>2, QueueInvariant, PTL

-----------------------------------------------------------------------------
(* The duties of the other jobs.                                            *)
\* What is known of a release, of before a run of it.
Answer == {[answer |-> "down"]}
    \cup [answer : {"read"}, newest : Nat, prior : Nat, ends : {"done", "unmarked", "lost"}]
\* The run of it writes the mark.
Legible(a) == a # [answer |-> "down"] /\ a.newest # 0 /\ a.prior # 0 /\ a.ends # "unmarked"

\* What FRED publishes is not taken back.
Published(history) ==
    \A j, k \in DOMAIN history : j < k /\ Legible(history[j]) /\ Legible(history[k]) => history[j].newest <= history[k].newest

Mark == [is : Nat, at : Nat]
\* A run writes the mark of what it could read, and leaves it alone otherwise.
LEMMA FredRunIs ==
    ASSUME NEW c, NEW mark \in Mark, NEW k \in Nat, NEW a \in Answer
    PROVE  LET run == Duty(c)!FredRun(mark, k, a) IN
           /\ ~Legible(a) => run.mark = mark
           /\ Legible(a) => run.mark.is = a.newest /\ run.mark.at = k
           /\ run.mark \in Mark
<1>1. Duty(c)!Marks(a) <=> Legible(a)
  BY DEF Duty!Marks, Duty!Readable, Duty!Down, Legible
<1>2. CASE Legible(a)
  <2> DEFINE run == Duty(c)!FredRun(mark, k, a)
  <2>1. run.mark = [is |-> a.newest, at |-> k]
    BY <1>1, <1>2 DEF Duty!FredRun
  <2>2. a.newest \in Nat
    BY <1>2 DEF Legible, Answer
  <2> HIDE DEF run
  <2>3. run.mark.is = a.newest /\ run.mark.at = k /\ run.mark \in Mark
    BY <2>1, <2>2 DEF Mark
  <2>4. QED BY <1>2, <2>3 DEF run
<1>3. CASE ~Legible(a)
  <2>1. Duty(c)!FredRun(mark, k, a) = [mark |-> mark, reports |-> FALSE]
    BY <1>1, <1>3 DEF Duty!FredRun
  <2>2. QED BY <1>3, <2>1
<1>4. QED BY <1>2, <1>3

\* What is marked is reported when the run ends well and the mark was not of it.
LEMMA FredRunTells ==
    ASSUME NEW c, NEW mark \in Mark, NEW k \in Nat, NEW a \in Answer, Legible(a)
    PROVE  Duty(c)!FredRun(mark, k, a).reports <=>
                /\ a.ends = "done"
                /\ a.newest # (IF mark.at # 0 /\ k - mark.at < c.marks THEN mark.is ELSE 0)
<1> DEFINE run == Duty(c)!FredRun(mark, k, a)
           seen == IF mark.at # 0 /\ k - mark.at < c.marks THEN mark.is ELSE 0
<1>1. Duty(c)!Marks(a)
  BY DEF Duty!Marks, Duty!Readable, Duty!Down, Legible
<1>2. run = [mark |-> [is |-> a.newest, at |-> k], reports |-> a.ends = "done" /\ seen # a.newest]
  BY <1>1 DEF Duty!FredRun
<1> HIDE DEF seen, run
<1>3. run.reports = (a.ends = "done" /\ seen # a.newest)
  BY <1>2
<1>4. run.reports <=> a.ends = "done" /\ a.newest # seen
  BY <1>3, Zenon
<1>5. QED BY <1>4 DEF seen, run

\* The marks of a history, by recursion on its runs.
LEMMA FredMarksAre ==
    ASSUME NEW c, NEW history \in Seq(Answer)
    PROVE  LET mark == Duty(c)!FredMarks(history) IN
           /\ mark \in [0..Len(history) -> Mark]
           /\ mark[0] = [is |-> 0, at |-> 0]
           /\ \A i \in 1..Len(history) : mark[i] = Duty(c)!FredRun(mark[i - 1], i, history[i]).mark
<1> DEFINE n == Len(history)
           a == [is |-> 0, at |-> 0]
           after(x, i) == Duty(c)!FredRun(x, i, history[i]).mark
           step == [p \in Mark \X (1..n) |-> after(p[1], p[2])]
           marks == Duty(c)!FredMarks(history)
<1>1. n \in Nat /\ a \in Mark
  BY DEF Mark
<1>2. \A x \in Mark, i \in 1..n : step[<<x, i>>] = after(x, i) /\ after(x, i) \in Mark
  <2>1. \A i \in 1..n : history[i] \in Answer /\ i \in Nat
    OBVIOUS
  <2>2. QED BY <2>1, FredRunIs
<1>3. marks \in [0..n -> Mark] /\ marks = [i \in 0..n |-> IF i = 0 THEN a ELSE after(marks[i - 1], i)]
  <2> HIDE DEF step, n, after, a
  <2>1. Loops!IsLoop(Mark, n, a, step)
    BY <1>1, <1>2 DEF Loops!IsLoop
  <2>2. PICK g \in [0..n -> Mark] : g[0] = a /\ \A i \in 1..n : g[i] = step[<<g[i - 1], i>>]
    BY <2>1, Loops!LoopIsFunction
  <2>3. ASSUME NEW i \in 1..n PROVE g[i] = after(g[i - 1], i)
    <3>1. i - 1 \in 0..n
      BY <1>1
    <3>2. g[i - 1] \in Mark
      BY <3>1
    <3>3. QED BY <1>2, <2>2, <3>2
  <2>4. \A i \in 0..n : g[i] = IF i = 0 THEN a ELSE after(g[i - 1], i)
    <3>1. ASSUME NEW i \in 0..n, i # 0 PROVE i \in 1..n
      BY <1>1, <3>1
    <3>2. QED BY <2>2, <2>3, <3>1
  <2>5. g = [i \in 0..n |-> IF i = 0 THEN a ELSE after(g[i - 1], i)]
    BY <2>4
  <2>6. marks = CHOOSE mark : mark = [i \in 0..n |-> IF i = 0 THEN a ELSE after(mark[i - 1], i)]
    BY Zenon DEF Duty!FredMarks, Duty!NoMark, n, a, after, marks
  <2>7. marks = [i \in 0..n |-> IF i = 0 THEN a ELSE after(marks[i - 1], i)]
    BY <2>5, <2>6, Zenon
  <2>8. ASSUME NEW i \in 0..n PROVE marks[i] = g[i]
    <3> DEFINE T == {j \in 0..n : marks[j] = g[j]}
    <3>1. 0 \in T
      BY <1>1, <2>2, <2>7
    <3>2. ASSUME NEW j \in 0..(n - 1), j \in T PROVE j + 1 \in T
      <4>1. j + 1 \in 0..n /\ j + 1 # 0 /\ j + 1 \in 1..n /\ (j + 1) - 1 = j
        BY <1>1
      <4>2. marks[j + 1] = after(marks[j], j + 1)
        BY <2>7, <4>1
      <4>3. g[j + 1] = after(g[j], j + 1)
        BY <2>3, <4>1
      <4>4. QED BY <3>2, <4>1, <4>2, <4>3
    <3> HIDE DEF T
    <3>3. \A j \in 0..n : j \in T
      BY <1>1, <3>1, <3>2, Loops!Climb
    <3>4. QED BY <3>3 DEF T
  <2>9. marks = g
    <3> HIDE DEF marks
    <3>1. DOMAIN marks = 0..n /\ marks = [i \in 0..n |-> marks[i]]
      BY <2>7
    <3>2. QED BY <2>8, <3>1
  <2>10. QED BY <2>7, <2>9
<1> HIDE DEF marks, n, a, after
<1>4. marks[0] = a /\ \A i \in 1..n : marks[i] = after(marks[i - 1], i)
  BY <1>1, <1>3
<1>5. QED BY <1>3, <1>4, Zenon DEF marks, n, a, after

\* The mark a run leaves is that of the last print before or in it.
LEMMA FredMarkIsLast ==
    ASSUME NEW c, NEW history \in Seq(Answer), NEW k \in 0..Len(history)
    PROVE  LET mark == Duty(c)!FredMarks(history)[k] IN
           \/ (\A j \in 1..k : ~Legible(history[j])) /\ mark.at = 0
           \/ \E l \in 1..k : /\ Legible(history[l]) /\ \A j \in (l + 1)..k : ~Legible(history[j])
                             /\ mark.at = l /\ mark.is = history[l].newest
<1> DEFINE n == Len(history)
           mark == Duty(c)!FredMarks(history)
           after(i) == Duty(c)!FredRun(mark[i - 1], i, history[i])
           None(i) == (\A j \in 1..i : ~Legible(history[j])) /\ mark[i].at = 0
           Last(i, l) == /\ Legible(history[l]) /\ \A j \in (l + 1)..i : ~Legible(history[j])
                         /\ mark[i].at = l /\ mark[i].is = history[l].newest
           T == {i \in 0..n : None(i) \/ \E l \in 1..i : Last(i, l)}
<1>1. /\ mark \in [0..n -> Mark] /\ mark[0] = [is |-> 0, at |-> 0]
      /\ \A i \in 1..n : mark[i] = after(i).mark
  BY FredMarksAre
<1>2. n \in Nat /\ \A i \in 1..n : history[i] \in Answer
  OBVIOUS
<1>3. ASSUME NEW i \in 1..n
      PROVE  /\ ~Legible(history[i]) => mark[i] = mark[i - 1]
             /\ Legible(history[i]) => mark[i].is = history[i].newest /\ mark[i].at = i
  <2>1. i - 1 \in 0..n /\ i \in Nat
    BY <1>2
  <2>2. mark[i - 1] \in Mark /\ history[i] \in Answer
    BY <1>1, <1>2, <2>1
  <2> HIDE DEF mark
  <2>3. /\ ~Legible(history[i]) => after(i).mark = mark[i - 1]
        /\ Legible(history[i]) => after(i).mark.is = history[i].newest /\ after(i).mark.at = i
    BY <2>1, <2>2, FredRunIs
  <2> HIDE DEF after
  <2>4. QED BY <1>1, <2>3
<1> HIDE DEF mark, after, n
<1>4. 0 \in T
  BY <1>1, <1>2
<1>5. ASSUME NEW i \in 0..(n - 1), i \in T PROVE i + 1 \in T
  <2>1. i + 1 \in 1..n /\ i + 1 \in 0..n /\ (i + 1) - 1 = i
    BY <1>2
  <2>2. CASE Legible(history[i + 1])
    <3>1. Last(i + 1, i + 1)
      BY <1>3, <2>1, <2>2
    <3> HIDE DEF Last
    <3>2. QED BY <2>1, <3>1
  <2>3. CASE ~Legible(history[i + 1])
    <3>1. mark[i + 1] = mark[i]
      BY <1>3, <2>1, <2>3
    <3>2. CASE None(i)
      <4>1. None(i + 1)
        BY <2>1, <2>3, <3>1, <3>2
      <4> HIDE DEF None, Last
      <4>2. QED BY <2>1, <4>1
    <3>3. ASSUME NEW l \in 1..i, Last(i, l) PROVE i + 1 \in T
      <4>1. Last(i + 1, l) /\ l \in 1..(i + 1)
        BY <2>1, <2>3, <3>1, <3>3
      <4> HIDE DEF None, Last
      <4>2. QED BY <2>1, <4>1
    <3> HIDE DEF None, Last
    <3>4. QED BY <1>5, <3>2, <3>3
  <2>4. QED BY <2>2, <2>3
<1>6. k \in T
  <2> HIDE DEF T
  <2>1. \A i \in 0..n : i \in T
    BY <1>2, <1>4, <1>5, Loops!Climb
  <2>2. QED BY <2>1 DEF n
<1>7. QED BY <1>6 DEF mark

\* What a set of numbers has at its top, when one of them is at least all.
LEMMA MaxIs ==
    ASSUME NEW c, NEW S, S \subseteq Int, NEW x \in S, \A y \in S : y <= x
    PROVE  Duty(c)!Max(S) = x
<1> DEFINE m == Duty(c)!Max(S)
<1>1. m = CHOOSE z \in S : \A y \in S : z >= y
  BY Zenon DEF Duty!Max
<1>2. m \in S /\ \A y \in S : m >= y
  <2> HIDE DEF m
  <2>1. \E z \in S : \A y \in S : z >= y
    BY SMT
  <2>2. QED BY <1>1, <2>1, Zenon
<1> HIDE DEF m
<1>3. m = x
  BY <1>2
<1>4. QED BY <1>3 DEF m

\* Of every history in which what is published is not taken back, a release is
\* reported by the run that first marks it, if that run comes to its end, and by
\* no later one.
THEOREM PrintsOnce ==
    ASSUME NEW c, c.marks \in Int, NEW history \in Seq(Answer), Published(history)
    PROVE  Duty(c)!EachPrintOnce(history)
<1> DEFINE mark == Duty(c)!FredMarks(history)
           run(k) == Duty(c)!FredRun(mark[k - 1], k, history[k])
           readable == {k \in DOMAIN history : Duty(c)!Marks(history[k])}
           before(k) == {j \in readable : j < k}
           reports == Duty(c)!FredReports(history)
           Right(k) == k \in reports <=>
                           /\ history[k].ends = "done"
                           /\ \/ before(k) = {} \/ k - Duty(c)!Max(before(k)) >= c.marks
                              \/ \A j \in before(k) : history[j].newest # history[k].newest
<1>1. \A a \in Answer : Duty(c)!Marks(a) <=> Legible(a)
  BY DEF Duty!Marks, Duty!Readable, Duty!Down, Legible
<1>2. DOMAIN history = 1..Len(history) /\ Len(history) \in Nat /\ \A i \in 1..Len(history) : history[i] \in Answer
  OBVIOUS
<1>3. \A k : k \in readable <=> k \in 1..Len(history) /\ Legible(history[k])
  BY <1>1, <1>2
<1>4. \A k \in readable : k \in reports <=> run(k).reports
  BY DEF Duty!FredReports
<1>5. mark \in [0..Len(history) -> Mark]
  BY FredMarksAre
<1> HIDE DEF mark, readable, reports
<1>6. ASSUME NEW k \in readable PROVE Right(k)
  <2>1. /\ k \in 1..Len(history) /\ k \in Nat /\ Legible(history[k]) /\ k - 1 \in 0..Len(history)
        /\ history[k] \in Answer /\ mark[k - 1] \in Mark
    BY <1>2, <1>3, <1>5
  <2>2. history[k].newest \in Nat /\ history[k].newest # 0
    BY <2>1 DEF Answer, Legible
  <2>3. run(k).reports <=>
            /\ history[k].ends = "done"
            /\ history[k].newest # (IF mark[k - 1].at # 0 /\ k - mark[k - 1].at < c.marks THEN mark[k - 1].is ELSE 0)
    BY <2>1, FredRunTells
  <2> HIDE DEF run
  <2>4. \/ (\A j \in 1..(k - 1) : ~Legible(history[j])) /\ mark[k - 1].at = 0
        \/ \E l \in 1..(k - 1) : /\ Legible(history[l]) /\ \A j \in (l + 1)..(k - 1) : ~Legible(history[j])
                                /\ mark[k - 1].at = l /\ mark[k - 1].is = history[l].newest
    BY <2>1, FredMarkIsLast DEF mark
  <2>5. \A j : j \in before(k) <=> j \in 1..(k - 1) /\ Legible(history[j])
    BY <1>2, <1>3, <2>1
  <2> HIDE DEF before
  <2>6. CASE (\A j \in 1..(k - 1) : ~Legible(history[j])) /\ mark[k - 1].at = 0
    <3>1. before(k) = {}
      BY <2>5, <2>6
    <3>2. run(k).reports <=> history[k].ends = "done"
      BY <2>2, <2>3, <2>6
    <3>3. QED BY <1>4, <3>1, <3>2
  <2>7. ASSUME NEW l \in 1..(k - 1), Legible(history[l]), \A j \in (l + 1)..(k - 1) : ~Legible(history[j]),
               mark[k - 1].at = l, mark[k - 1].is = history[l].newest
        PROVE  Right(k)
    <3>1. l \in before(k) /\ before(k) \subseteq Int /\ \A j \in before(k) : j <= l
      BY <2>1, <2>5, <2>7
    <3>2. Duty(c)!Max(before(k)) = l
      <4> DEFINE S == before(k)
      <4> HIDE DEF S
      <4>1. S \subseteq Int /\ l \in S /\ \A y \in S : y <= l
        BY <3>1 DEF S
      <4>2. Duty(c)!Max(S) = l
        BY <4>1, MaxIs
      <4>3. QED BY <4>2 DEF S
    <3>3. l \in Nat /\ l # 0 /\ k \in Nat
      BY <2>1
    <3>4. CASE k - l >= c.marks
      <4>1. ~(k - l < c.marks)
        BY <3>3, <3>4
      <4>2. run(k).reports <=> history[k].ends = "done"
        BY <2>2, <2>3, <2>7, <4>1
      <4>3. QED BY <1>4, <3>2, <3>4, <4>2
    <3>5. CASE ~(k - l >= c.marks)
      <4>1. k - l < c.marks
        BY <3>3, <3>5
      <4>2. run(k).reports <=> history[k].ends = "done" /\ history[k].newest # history[l].newest
        BY <2>3, <2>7, <3>3, <4>1
      <4>3. ASSUME history[k].newest # history[l].newest, NEW j \in before(k)
            PROVE  history[j].newest # history[k].newest
        <5>1. j \in 1..(k - 1) /\ Legible(history[j]) /\ j <= l
          BY <2>5, <3>1
        <5>2. l \in DOMAIN history /\ k \in DOMAIN history /\ j \in DOMAIN history
          BY <1>2, <2>1, <5>1
        <5>3. history[j] \in Answer /\ history[l] \in Answer
          BY <1>2, <5>2
        <5>4. history[j].newest \in Nat /\ history[l].newest \in Nat
          BY <2>7, <5>1, <5>3 DEF Answer, Legible
        <5>5. history[l].newest <= history[k].newest
          BY <2>1, <2>7, <5>2 DEF Published
        <5>6. history[j].newest <= history[l].newest
          <6>1. CASE j = l
            BY <5>4, <6>1
          <6>2. CASE j < l
            BY <2>7, <5>1, <5>2, <6>2 DEF Published
          <6>3. QED BY <5>1, <6>1, <6>2
        <5>7. QED BY <2>2, <4>3, <5>4, <5>5, <5>6
      <4>4. before(k) # {} /\ ~(k - Duty(c)!Max(before(k)) >= c.marks)
        BY <3>1, <3>2, <3>5
      <4>5. run(k).reports <=> /\ history[k].ends = "done"
                               /\ \A j \in before(k) : history[j].newest # history[k].newest
        BY <3>1, <4>2, <4>3
      <4>6. QED BY <1>4, <4>4, <4>5
    <3>6. QED BY <3>4, <3>5
  <2> HIDE DEF Right
  <2>8. QED BY <2>4, <2>6, <2>7
<1>7. QED BY <1>6, Zenon DEF Duty!EachPrintOnce, readable, before, reports, Right

Blank == [c \in {} |-> 0]
Snapshot(S) == [is : S \cup {Blank}, at : Nat]

\* A run that sees no market.
Blind(cues) == DOMAIN cues = {}

Seen(cues, k) == [is |-> cues, at |-> k]
\* What a run leaves and what it tells.
Left(c, snapshot, k, cues) == Duty(c)!DriftRun(snapshot, k, cues).snapshot
Told(c, snapshot, k, cues) == Duty(c)!DriftRun(snapshot, k, cues).alert

LEMMA DriftRunIs ==
    ASSUME NEW c, NEW snapshot, NEW k, NEW cues
    PROVE  /\ Blind(cues) => Left(c, snapshot, k, cues) = snapshot
           /\ ~Blind(cues) => Left(c, snapshot, k, cues) = Seen(cues, k)
<1> DEFINE run == Duty(c)!DriftRun(snapshot, k, cues)
           before == IF snapshot.at # 0 /\ k - snapshot.at < c.snapshots THEN snapshot.is ELSE Duty(c)!NoCues
<1>1. run = IF DOMAIN cues = {} THEN [snapshot |-> snapshot, alert |-> {}]
            ELSE [snapshot |-> [is |-> cues, at |-> k], alert |-> Duty(c)!Moved(before, cues)]
  BY DEF Duty!DriftRun
<1> HIDE DEF run, before
<1>2. run.snapshot = IF DOMAIN cues = {} THEN snapshot ELSE [is |-> cues, at |-> k]
  BY <1>1
<1>3. QED BY <1>2 DEF run, Left, Blind, Seen

LEMMA DriftRunTells ==
    ASSUME NEW c, NEW snapshot, NEW k, NEW cues
    PROVE  Told(c, snapshot, k, cues) =
                IF Blind(cues) \/ ~(snapshot.at # 0 /\ k - snapshot.at < c.snapshots) THEN {}
                ELSE Duty(c)!Moved(snapshot.is, cues)
<1> DEFINE known == snapshot.at # 0 /\ k - snapshot.at < c.snapshots
           before == IF known THEN snapshot.is ELSE Duty(c)!NoCues
           run == Duty(c)!DriftRun(snapshot, k, cues)
<1>1. Duty(c)!Moved(Duty(c)!NoCues, cues) = {}
  BY DEF Duty!Moved, Duty!NoCues
<1>2. run = IF DOMAIN cues = {} THEN [snapshot |-> snapshot, alert |-> {}]
            ELSE [snapshot |-> [is |-> cues, at |-> k], alert |-> Duty(c)!Moved(before, cues)]
  BY DEF Duty!DriftRun
<1> HIDE DEF known, run
<1>3. run.alert = IF DOMAIN cues = {} THEN {} ELSE Duty(c)!Moved(before, cues)
  BY <1>2
<1>4. QED BY <1>1, <1>3 DEF known, run, Told, Blind

\* The snapshots of a history, by recursion on its runs.
LEMMA SnapshotsAre ==
    ASSUME NEW c, NEW S, NEW history \in Seq(S)
    PROVE  LET snapshot == Duty(c)!Snapshots(history) IN
           /\ snapshot \in [0..Len(history) -> Snapshot(S)]
           /\ snapshot[0] = [is |-> Blank, at |-> 0]
           /\ \A i \in 1..Len(history) : snapshot[i] = Left(c, snapshot[i - 1], i, history[i])
<1> DEFINE n == Len(history)
           Kinds == Snapshot(S)
           a == [is |-> Blank, at |-> 0]
           after(x, i) == Left(c, x, i, history[i])
           step == [p \in Kinds \X (1..n) |-> after(p[1], p[2])]
           snaps == Duty(c)!Snapshots(history)
<1>1. n \in Nat /\ a \in Kinds
  BY DEF Snapshot
<1>2. \A x \in Kinds, i \in 1..n : step[<<x, i>>] = after(x, i) /\ after(x, i) \in Kinds
  <2>1. \A i \in 1..n : history[i] \in S /\ i \in Nat
    OBVIOUS
  <2> HIDE DEF Kinds
  <2>2. ASSUME NEW x \in Kinds, NEW i \in 1..n PROVE after(x, i) \in Kinds
    <3>1. Seen(history[i], i) \in Kinds
      BY <2>1 DEF Kinds, Snapshot, Seen
    <3>2. after(x, i) = x \/ after(x, i) = Seen(history[i], i)
      BY DriftRunIs
    <3>3. QED BY <3>1, <3>2, Zenon
  <2> HIDE DEF after
  <2>3. QED BY <2>2
<1>3. snaps \in [0..n -> Kinds] /\ snaps = [i \in 0..n |-> IF i = 0 THEN a ELSE after(snaps[i - 1], i)]
  <2> HIDE DEF step, n, after, a, Kinds
  <2>1. Loops!IsLoop(Kinds, n, a, step)
    BY <1>1, <1>2 DEF Loops!IsLoop
  <2>2. PICK g \in [0..n -> Kinds] : g[0] = a /\ \A i \in 1..n : g[i] = step[<<g[i - 1], i>>]
    BY <2>1, Loops!LoopIsFunction
  <2>3. ASSUME NEW i \in 1..n PROVE g[i] = after(g[i - 1], i)
    <3>1. i - 1 \in 0..n
      BY <1>1
    <3>2. g[i - 1] \in Kinds
      BY <3>1
    <3>3. QED BY <1>2, <2>2, <3>2
  <2>4. \A i \in 0..n : g[i] = IF i = 0 THEN a ELSE after(g[i - 1], i)
    <3>1. ASSUME NEW i \in 0..n, i # 0 PROVE i \in 1..n
      BY <1>1, <3>1
    <3>2. QED BY <2>2, <2>3, <3>1
  <2>5. g = [i \in 0..n |-> IF i = 0 THEN a ELSE after(g[i - 1], i)]
    BY <2>4
  <2>6. snaps = CHOOSE snapshot : snapshot = [i \in 0..n |-> IF i = 0 THEN a ELSE after(snapshot[i - 1], i)]
    BY Zenon DEF Duty!Snapshots, Duty!NoCues, Blank, Left, n, a, after, snaps
  <2>7. snaps = [i \in 0..n |-> IF i = 0 THEN a ELSE after(snaps[i - 1], i)]
    BY <2>5, <2>6, Zenon
  <2>8. ASSUME NEW i \in 0..n PROVE snaps[i] = g[i]
    <3> DEFINE T == {j \in 0..n : snaps[j] = g[j]}
    <3>1. 0 \in T
      BY <1>1, <2>2, <2>7
    <3>2. ASSUME NEW j \in 0..(n - 1), j \in T PROVE j + 1 \in T
      <4>1. j + 1 \in 0..n /\ j + 1 # 0 /\ j + 1 \in 1..n /\ (j + 1) - 1 = j
        BY <1>1
      <4>2. snaps[j + 1] = after(snaps[j], j + 1)
        BY <2>7, <4>1
      <4>3. g[j + 1] = after(g[j], j + 1)
        BY <2>3, <4>1
      <4>4. QED BY <3>2, <4>1, <4>2, <4>3
    <3> HIDE DEF T
    <3>3. \A j \in 0..n : j \in T
      BY <1>1, <3>1, <3>2, Loops!Climb
    <3>4. QED BY <3>3 DEF T
  <2>9. snaps = g
    <3> HIDE DEF snaps
    <3>1. DOMAIN snaps = 0..n /\ snaps = [i \in 0..n |-> snaps[i]]
      BY <2>7
    <3>2. QED BY <2>8, <3>1
  <2>10. QED BY <2>7, <2>9
<1> HIDE DEF snaps, n, a, after, Kinds
<1>4. snaps[0] = a /\ \A i \in 1..n : snaps[i] = after(snaps[i - 1], i)
  BY <1>1, <1>3
<1>5. QED BY <1>3, <1>4, Zenon DEF snaps, n, a, after, Kinds

\* The snapshot is that of the last run that saw the market.
LEMMA SnapshotIsLast ==
    ASSUME NEW c, NEW S, NEW history \in Seq(S), NEW k \in 0..Len(history)
    PROVE  LET snapshot == Duty(c)!Snapshots(history)[k] IN
           \/ (\A j \in 1..k : Blind(history[j])) /\ snapshot.at = 0
           \/ \E l \in 1..k : /\ ~Blind(history[l]) /\ \A j \in (l + 1)..k : Blind(history[j])
                             /\ snapshot.at = l /\ snapshot.is = history[l]
<1> DEFINE n == Len(history)
           snap == Duty(c)!Snapshots(history)
           after(i) == Left(c, snap[i - 1], i, history[i])
           None(i) == (\A j \in 1..i : Blind(history[j])) /\ snap[i].at = 0
           Last(i, l) == /\ ~Blind(history[l]) /\ \A j \in (l + 1)..i : Blind(history[j])
                         /\ snap[i].at = l /\ snap[i].is = history[l]
           T == {i \in 0..n : None(i) \/ \E l \in 1..i : Last(i, l)}
<1>1. /\ snap \in [0..n -> Snapshot(S)] /\ snap[0] = [is |-> Blank, at |-> 0]
      /\ \A i \in 1..n : snap[i] = after(i)
  BY SnapshotsAre
<1>2. n \in Nat /\ \A i \in 1..n : history[i] \in S
  OBVIOUS
<1>3. ASSUME NEW i \in 1..n
      PROVE  /\ Blind(history[i]) => snap[i] = snap[i - 1]
             /\ ~Blind(history[i]) => snap[i].is = history[i] /\ snap[i].at = i
  <2>1. i - 1 \in 0..n /\ i \in Nat
    BY <1>2
  <2>2. snap[i - 1] \in Snapshot(S) /\ history[i] \in S
    BY <1>1, <1>2, <2>1
  <2> HIDE DEF snap
  <2>3. /\ Blind(history[i]) => after(i) = snap[i - 1]
        /\ ~Blind(history[i]) => after(i).is = history[i] /\ after(i).at = i
    <3>1. Blind(history[i]) => after(i) = snap[i - 1]
      BY DriftRunIs
    <3>2. ~Blind(history[i]) => after(i) = Seen(history[i], i)
      BY DriftRunIs
    <3> HIDE DEF after
    <3>3. QED BY <3>1, <3>2 DEF Seen
  <2> HIDE DEF after
  <2>4. QED BY <1>1, <2>3
<1> HIDE DEF snap, after, n
<1>4. 0 \in T
  BY <1>1, <1>2
<1>5. ASSUME NEW i \in 0..(n - 1), i \in T PROVE i + 1 \in T
  <2>1. i + 1 \in 1..n /\ i + 1 \in 0..n /\ (i + 1) - 1 = i
    BY <1>2
  <2>2. CASE ~Blind(history[i + 1])
    <3>1. Last(i + 1, i + 1)
      BY <1>3, <2>1, <2>2
    <3> HIDE DEF Last
    <3>2. QED BY <2>1, <3>1
  <2>3. CASE Blind(history[i + 1])
    <3>1. snap[i + 1] = snap[i]
      BY <1>3, <2>1, <2>3
    <3>2. CASE None(i)
      <4>1. None(i + 1)
        BY <2>1, <2>3, <3>1, <3>2
      <4> HIDE DEF None, Last
      <4>2. QED BY <2>1, <4>1
    <3>3. ASSUME NEW l \in 1..i, Last(i, l) PROVE i + 1 \in T
      <4>1. Last(i + 1, l) /\ l \in 1..(i + 1)
        BY <2>1, <2>3, <3>1, <3>3
      <4> HIDE DEF None, Last
      <4>2. QED BY <2>1, <4>1
    <3> HIDE DEF None, Last
    <3>4. QED BY <1>5, <3>2, <3>3
  <2>4. QED BY <2>2, <2>3
<1>6. k \in T
  <2> HIDE DEF T
  <2>1. \A i \in 0..n : i \in T
    BY <1>2, <1>4, <1>5, Loops!Climb
  <2>2. QED BY <2>1 DEF n
<1>7. QED BY <1>6 DEF snap

\* Whatever the runs saw, an alert is of what moved since the last run that saw
\* the market.
THEOREM DriftSinceLastLook ==
    ASSUME NEW c, c.snapshots \in Int, NEW S, NEW history \in Seq(S)
    PROVE  Duty(c)!DriftIsSinceLastLook(history)
<1> DEFINE n == Len(history)
           snap == Duty(c)!Snapshots(history)
           alerted(k) == Told(c, snap[k - 1], k, history[k])
           alerts == Duty(c)!DriftAlerts(history)
           looks(k) == {j \in 1..(k - 1) : ~Blind(history[j])}
           last(k) == Duty(c)!Max(looks(k))
           Changed(k) == IF Blind(history[k]) \/ looks(k) = {} \/ k - last(k) >= c.snapshots THEN {}
                      ELSE Duty(c)!Moved(history[last(k)], history[k])
<1>1. DOMAIN history = 1..n /\ n \in Nat /\ \A i \in 1..n : history[i] \in S
  OBVIOUS
<1>2. \A k \in 1..n : alerts[k] = alerted(k)
  BY <1>1 DEF Duty!DriftAlerts, Told
<1>3. snap \in [0..n -> Snapshot(S)]
  BY SnapshotsAre
<1> HIDE DEF alerts
<1>4. ASSUME NEW k \in 1..n PROVE alerts[k] = Changed(k)
  <2>1. k \in Nat /\ k - 1 \in 0..n /\ snap[k - 1] \in Snapshot(S) /\ history[k] \in S
    BY <1>1, <1>3
  <2>2. \/ (\A j \in 1..(k - 1) : Blind(history[j])) /\ snap[k - 1].at = 0
        \/ \E l \in 1..(k - 1) : /\ ~Blind(history[l]) /\ \A j \in (l + 1)..(k - 1) : Blind(history[j])
                                /\ snap[k - 1].at = l /\ snap[k - 1].is = history[l]
    BY <2>1, SnapshotIsLast
  <2> HIDE DEF snap
  <2>3. alerted(k) = IF Blind(history[k]) \/ ~(snap[k - 1].at # 0 /\ k - snap[k - 1].at < c.snapshots) THEN {}
                       ELSE Duty(c)!Moved(snap[k - 1].is, history[k])
    BY DriftRunTells
  <2> HIDE DEF alerted, n
  <2>4. CASE Blind(history[k])
    BY <1>2, <2>3, <2>4
  <2>5. CASE ~Blind(history[k]) /\ (\A j \in 1..(k - 1) : Blind(history[j])) /\ snap[k - 1].at = 0
    <3>1. looks(k) = {}
      BY <2>5
    <3>2. alerted(k) = {}
      BY <2>3, <2>5
    <3> HIDE DEF looks, last
    <3>3. QED BY <1>2, <3>1, <3>2
  <2>6. ASSUME ~Blind(history[k]), NEW l \in 1..(k - 1), ~Blind(history[l]),
               \A j \in (l + 1)..(k - 1) : Blind(history[j]),
               snap[k - 1].at = l, snap[k - 1].is = history[l]
        PROVE  alerts[k] = Changed(k)
    <3>1. last(k) = l
      <4> DEFINE L == looks(k)
      <4>1. L \subseteq Int /\ l \in L /\ \A y \in L : y <= l
        BY <2>1, <2>6
      <4> HIDE DEF L
      <4>2. Duty(c)!Max(L) = l
        BY <4>1, MaxIs
      <4>3. QED BY <4>2 DEF L
    <3>2. looks(k) # {}
      BY <2>6
    <3>3. l # 0 /\ l \in Int /\ k \in Int
      BY <2>1
    <3> HIDE DEF looks, last
    <3>4. CASE k - l >= c.snapshots
      <4>1. ~(k - l < c.snapshots)
        BY <3>3, <3>4
      <4>2. QED BY <1>2, <2>3, <2>6, <3>1, <3>4, <4>1
    <3>5. CASE ~(k - l >= c.snapshots)
      <4>1. k - l < c.snapshots
        BY <3>3, <3>5
      <4>2. QED BY <1>2, <2>3, <2>6, <3>1, <3>2, <3>3, <3>5, <4>1
    <3>6. QED BY <3>4, <3>5
  <2> HIDE DEF Changed
  <2>7. QED BY <2>2, <2>4, <2>5, <2>6
<1>5. QED BY <1>1, <1>4, Zenon DEF Duty!DriftIsSinceLastLook, Blind, alerts, looks, last, Changed

\* One of two is before the other, and none before itself.
IsOrder(S, R) ==
    \A x, y, z \in S : /\ <<x, x>> \notin R
                       /\ <<x, y>> \in R /\ <<y, z>> \in R => <<x, z>> \in R
                       /\ x # y => <<x, y>> \in R \/ <<y, x>> \in R

Lists(S, R) == {s \in Bijection(1..Cardinality(S), S) : \A i, j \in DOMAIN s : i < j => <<s[i], s[j]>> \in R}

\* A listing, without the operators of the library.
IsList(s, k, U, R) ==
    /\ s \in [1..k -> U] /\ \A x \in U : \E i \in 1..k : s[i] = x
    /\ \A i, j \in 1..k : i < j => <<s[i], s[j]>> \in R

LEMMA ListsAre ==
    ASSUME NEW U, NEW R, IsOrder(U, R), Cardinality(U) \in Nat, NEW s, IsList(s, Cardinality(U), U, R)
    PROVE  s \in Lists(U, R)
<1> DEFINE k == Cardinality(U)
<1> HIDE DEF k
<1>1. s \in [1..k -> U] /\ (\A x \in U : \E i \in 1..k : s[i] = x) /\ k \in Nat
      /\ \A i, j \in 1..k : i < j => <<s[i], s[j]>> \in R
  BY DEF IsList, k
<1>2. s \in Surjection(1..k, U)
  BY <1>1 DEF Surjection
<1>3. ASSUME NEW i \in 1..k, NEW j \in 1..k, s[i] = s[j] PROVE i = j
  <2>1. s[i] \in U /\ i \in Int /\ j \in Int
    BY <1>1
  <2>2. <<s[i], s[j]>> \notin R /\ <<s[j], s[i]>> \notin R
    BY <1>3, <2>1 DEF IsOrder
  <2>3. ~(i < j) /\ ~(j < i)
    BY <1>1, <2>2
  <2>4. QED BY <2>1, <2>3
<1>4. s \in Injection(1..k, U)
  BY <1>1, <1>3 DEF Injection, IsInjective
<1>5. s \in Bijection(1..k, U)
  BY <1>2, <1>4 DEF Bijection
<1>6. QED BY <1>1, <1>5 DEF Lists, k

\* What is after all others is put last.
LEMMA PutLast ==
    ASSUME NEW U, NEW R, NEW k \in Nat, NEW m \in U, NEW s, IsList(s, k, U \ {m}, R),
           \A y \in U \ {m} : <<y, m>> \in R
    PROVE  \E t : IsList(t, k + 1, U, R)
<1> DEFINE t == [i \in 1..(k + 1) |-> IF i = k + 1 THEN m ELSE s[i]]
<1>1. s \in [1..k -> U \ {m}] /\ (\A x \in U \ {m} : \E i \in 1..k : s[i] = x)
      /\ \A i, j \in 1..k : i < j => <<s[i], s[j]>> \in R
  BY DEF IsList
<1>2. t[k + 1] = m /\ (\A i \in 1..k : t[i] = s[i]) /\ t \in [1..(k + 1) -> U]
  BY <1>1
<1> HIDE DEF t
<1>3. ASSUME NEW x \in U PROVE \E i \in 1..(k + 1) : t[i] = x
  <2>1. CASE x = m
    BY <1>2, <2>1
  <2>2. CASE x # m
    <3>1. PICK i \in 1..k : s[i] = x
      BY <1>1, <2>2
    <3>2. QED BY <1>2, <3>1
  <2>3. QED BY <2>1, <2>2
<1>4. ASSUME NEW i \in 1..(k + 1), NEW j \in 1..(k + 1), i < j PROVE <<t[i], t[j]>> \in R
  <2>1. i \in 1..k /\ t[i] = s[i] /\ s[i] \in U \ {m}
    BY <1>1, <1>2, <1>4
  <2>2. CASE j = k + 1
    BY <1>2, <2>1, <2>2
  <2>3. CASE j # k + 1
    <3>1. j \in 1..k /\ t[j] = s[j]
      BY <1>2, <2>3
    <3>2. QED BY <1>1, <1>4, <2>1, <3>1
  <2>4. QED BY <2>2, <2>3
<1>5. QED BY <1>2, <1>3, <1>4 DEF IsList

\* A finite set can be listed in an order of its members.
LEMMA OrderHasList ==
    ASSUME NEW S, IsFiniteSet(S), NEW R, IsOrder(S, R)
    PROVE  \E s : IsList(s, Cardinality(S), S, R)
<1> DEFINE n == Cardinality(S)
           T == {k \in 0..n : \A U \in SUBSET S : Cardinality(U) = k => \E s : IsList(s, k, U, R)}
<1>1. n \in Nat /\ \A U \in SUBSET S : IsFiniteSet(U) /\ Cardinality(U) \in Nat
  BY FS_CardinalityType, FS_Subset
<1>2. 0 \in T
  <2>1. ASSUME NEW U \in SUBSET S, Cardinality(U) = 0 PROVE \E s : IsList(s, 0, U, R)
    <3>1. U = {}
      BY <1>1, <2>1, FS_EmptySet
    <3> DEFINE s == [i \in 1..0 |-> 0]
    <3>2. IsList(s, 0, U, R)
      BY <3>1 DEF IsList
    <3>3. QED BY <3>2
  <2>2. QED BY <1>1, <2>1
<1>3. ASSUME NEW k \in 0..(n - 1), k \in T PROVE k + 1 \in T
  <2>1. ASSUME NEW U \in SUBSET S, Cardinality(U) = k + 1 PROVE \E s : IsList(s, k + 1, U, R)
    <3>1. k \in Nat /\ U # {}
      BY <1>1, <2>1, FS_EmptySet
    <3>2. ASSUME NEW x \in U PROVE \E s : IsList(s, k, U \ {x}, R)
      <4>1. U \ {x} \in SUBSET S /\ Cardinality(U \ {x}) = k
        <5>1. IsFiniteSet(U)
          BY <1>1
        <5>2. Cardinality(U \ {x}) = (k + 1) - 1
          BY <2>1, <5>1, FS_RemoveElement
        <5>3. QED BY <3>1, <5>2
      <4>2. QED BY <1>3, <4>1
    <3>3. PICK x \in U : TRUE
      BY <3>1
    <3>4. PICK s : IsList(s, k, U \ {x}, R)
      BY <3>2
    <3>5. CASE k = 0
      <4>1. U \ {x} = {}
        BY <3>4, <3>5 DEF IsList
      <4>2. QED BY <3>1, <3>4, <4>1, PutLast
    <3>6. CASE k # 0
      <4> DEFINE m == s[k]
      <4>1. k \in 1..k /\ m \in U /\ m # x /\ m \in S /\ x \in S
        BY <3>1, <3>4, <3>6 DEF IsList
      <4>2. ASSUME NEW y \in U \ {x}, y # m PROVE <<y, m>> \in R
        <5>1. PICK i \in 1..k : s[i] = y
          BY <3>4 DEF IsList
        <5>2. i < k
          BY <3>1, <4>2, <5>1
        <5>3. QED BY <3>4, <4>1, <5>1, <5>2 DEF IsList
      <4>3. CASE <<m, x>> \in R
        <5>1. ASSUME NEW y \in U \ {x} PROVE <<y, x>> \in R
          <6>1. CASE y = m
            BY <4>3, <6>1
          <6>2. CASE y # m
            BY <4>1, <4>2, <4>3, <6>2 DEF IsOrder
          <6>3. QED BY <6>1, <6>2
        <5>2. QED BY <3>1, <3>4, <5>1, PutLast
      <4>4. CASE <<x, m>> \in R
        <5>1. ASSUME NEW y \in U \ {m} PROVE <<y, m>> \in R
          BY <4>2, <4>4
        <5>2. PICK t : IsList(t, k, U \ {m}, R)
          BY <3>2, <4>1
        <5> HIDE DEF m
        <5>3. QED BY <3>1, <4>1, <5>1, <5>2, PutLast
      <4>5. QED BY <4>1, <4>3, <4>4 DEF IsOrder
    <3>7. QED BY <3>5, <3>6
  <2>2. k + 1 \in 0..n
    BY <1>1
  <2>3. QED BY <2>1, <2>2
<1>4. n \in T
  <2> HIDE DEF T, n
  <2>1. \A k \in 0..n : k \in T
    BY <1>1, <1>2, <1>3, Loops!Climb
  <2>2. QED BY <1>1, <2>1
<1>5. QED BY <1>4

LEMMA InOrderIs ==
    ASSUME NEW c, NEW S, IsFiniteSet(S), NEW R, IsOrder(S, R)
    PROVE  LET s == Duty(c)!InOrder(S, R) IN
           /\ DOMAIN s = 1..Cardinality(S) /\ \A i \in DOMAIN s : s[i] \in S
           /\ \A x \in S : \E i \in DOMAIN s : s[i] = x
           /\ \A i, j \in DOMAIN s : i < j => <<s[i], s[j]>> \in R
<1> DEFINE s == Duty(c)!InOrder(S, R)
<1>1. PICK t : IsList(t, Cardinality(S), S, R)
  BY OrderHasList
<1>2. t \in Lists(S, R)
  BY <1>1, ListsAre, FS_CardinalityType
<1>3. s = CHOOSE x \in Bijection(1..Cardinality(S), S) : \A i, j \in DOMAIN x : i < j => <<x[i], x[j]>> \in R
  <2>1. Duty(c)!Cardinality(S) = Cardinality(S)
    BY Zenon DEF Duty!Cardinality, Cardinality, Duty!IsFiniteSet, IsFiniteSet
  <2>2. Duty(c)!Bijection(1..Cardinality(S), S) = Bijection(1..Cardinality(S), S)
    BY Zenon DEF Duty!Bijection, Duty!Injection, Duty!Surjection, Duty!IsInjective,
                 Bijection, Injection, Surjection, IsInjective
  <2>3. QED BY <2>1, <2>2, Zenon DEF Duty!InOrder
<1> HIDE DEF s
<1>4. s \in Lists(S, R)
  BY <1>2, <1>3, Zenon DEF Lists
<1>5. /\ s \in [1..Cardinality(S) -> S] /\ \A x \in S : \E i \in 1..Cardinality(S) : s[i] = x
      /\ \A i, j \in DOMAIN s : i < j => <<s[i], s[j]>> \in R
  BY <1>4 DEF Lists, Bijection, Surjection
<1>6. QED BY <1>5 DEF s

Scored == [is : {"scored"}, buy : Int, sell : Int, passes : [{"BUY", "SELL"} -> BOOLEAN]]
Reading == {[is |-> "none"], [is |-> "error"]} \cup Scored
AScreenRow(r) == r.confluence \in Int /\ r.passes \in BOOLEAN

LEMMA RowIs ==
    ASSUME NEW c, NEW symbol, NEW reading \in Scored
    PROVE  AScreenRow(Duty(c)!Row(symbol, reading)) /\ Duty(c)!Row(symbol, reading).symbol = symbol
<1> DEFINE buys == reading.buy >= reading.sell
           row == Duty(c)!Row(symbol, reading)
           side == IF buys THEN "BUY" ELSE "SELL"
           confluence == IF buys THEN reading.buy ELSE reading.sell
<1>1. /\ reading.buy \in Int /\ reading.sell \in Int
      /\ reading.passes \in [{"BUY", "SELL"} -> BOOLEAN]
  BY DEF Scored
<1>2. side \in {"BUY", "SELL"} /\ confluence \in Int
  BY <1>1
<1>3. row = [symbol |-> symbol, confluence |-> confluence, passes |-> reading.passes[side]]
  BY Zenon DEF Duty!Row
<1> HIDE DEF side, confluence, row
<1>4. row.symbol = symbol /\ row.confluence = confluence /\ row.passes = reading.passes[side]
  BY <1>3
<1>5. reading.passes[side] \in BOOLEAN
  BY <1>1, <1>2
<1>6. row.passes \in BOOLEAN
  BY <1>4, <1>5, Zenon
<1>7. QED BY <1>2, <1>4, <1>6 DEF row, AScreenRow

\* The rows of a screen, and the order they are shown in.
LEMMA BestFirstIs ==
    ASSUME NEW c, NEW rows, NEW I, I \subseteq Nat, \A i \in I : AScreenRow(rows[i])
    PROVE  IsOrder(I, Duty(c)!BestFirst(rows, I))
<1> DEFINE R == Duty(c)!BestFirst(rows, I)
           P == {i \in I : rows[i].passes}
           v(i) == rows[i].confluence
           better(x, y) == Duty(c)!BetterRow(rows[x], rows[y])
<1>1. ASSUME NEW i \in I PROVE v(i) \in Int /\ i \in Int
  <2>1. AScreenRow(rows[i]) /\ i \in Int
    OBVIOUS
  <2>2. QED BY <2>1, Zenon DEF AScreenRow
<1>2. ASSUME NEW x \in I, NEW y \in I
      PROVE  /\ better(x, y) <=> (x \in P /\ y \notin P) \/ ((x \in P <=> y \in P) /\ v(x) > v(y))
             /\ <<x, y>> \in R <=> better(x, y) \/ (~better(y, x) /\ x < y)
  <2>1. better(x, y) <=> (x \in P /\ y \notin P) \/ ((x \in P <=> y \in P) /\ v(x) > v(y))
    BY Zenon DEF Duty!BetterRow
  <2> HIDE DEF better
  <2>2. R = {p \in I \X I : better(p[1], p[2]) \/ (~better(p[2], p[1]) /\ p[1] < p[2])}
    BY Zenon DEF Duty!BestFirst, better
  <2> HIDE DEF R
  <2>3. <<x, y>> \in R <=> better(x, y) \/ (~better(y, x) /\ x < y)
    BY <2>2
  <2>4. QED BY <2>1, <2>3
<1> HIDE DEF R, P, v, better
<1>3. ASSUME NEW x \in I, NEW y \in I
      PROVE  <<x, y>> \in R <=> \/ x \in P /\ y \notin P
                                \/ (x \in P <=> y \in P) /\ (v(x) > v(y) \/ (v(x) = v(y) /\ x < y))
  <2>1. better(x, y) <=> (x \in P /\ y \notin P) \/ ((x \in P <=> y \in P) /\ v(x) > v(y))
    BY <1>2
  <2>2. better(y, x) <=> (y \in P /\ x \notin P) \/ ((y \in P <=> x \in P) /\ v(y) > v(x))
    BY <1>2
  <2>3. <<x, y>> \in R <=> better(x, y) \/ (~better(y, x) /\ x < y)
    BY <1>2
  <2>4. v(x) \in Int /\ v(y) \in Int
    BY <1>1
  <2>5. QED BY <2>1, <2>2, <2>3, <2>4
<1>4. ASSUME NEW x \in I, NEW y \in I, NEW z \in I
      PROVE  /\ <<x, x>> \notin R
             /\ <<x, y>> \in R /\ <<y, z>> \in R => <<x, z>> \in R
             /\ x # y => <<x, y>> \in R \/ <<y, x>> \in R
  BY <1>1, <1>3
<1>5. QED BY <1>4 DEF IsOrder, R

LEMMA AsNamedIs ==
    ASSUME NEW c, NEW I, I \subseteq Nat
    PROVE  IsOrder(I, Duty(c)!AsNamed(I))
BY DEF IsOrder, Duty!AsNamed

\* What is shown of the rows: all that is due and nothing else, what passes first.
DueRows(rows, I, least, passingOnly) ==
    {i \in I : IF passingOnly THEN rows[i].passes ELSE rows[i].confluence >= least}
ShowsDue(shown, rows, due) ==
    /\ \A n \in DOMAIN shown : shown[n] \in due
    /\ \A i \in due : \E n \in DOMAIN shown : shown[n] = i
    /\ \A m, n \in DOMAIN shown : (m < n /\ rows[shown[n]].passes) => rows[shown[m]].passes

LEMMA ShownRowsAre ==
    ASSUME NEW c, NEW rows, NEW I, I \subseteq Nat, IsFiniteSet(I), \A i \in I : AScreenRow(rows[i]),
           NEW least \in Int, NEW passingOnly \in BOOLEAN
    PROVE  ShowsDue(Duty(c)!ShownRows(rows, I, least, passingOnly), rows, DueRows(rows, I, least, passingOnly))
<1> DEFINE passing == {i \in I : rows[i].passes}
           enough == {i \in I : rows[i].confluence >= least}
           shown == Duty(c)!ShownRows(rows, I, least, passingOnly)
           p(i) == rows[i].passes
<1>1. passing \subseteq Nat /\ enough \subseteq Nat /\ IsFiniteSet(passing) /\ IsFiniteSet(enough)
  BY FS_Subset
<1>2. Cardinality(passing) \in Nat /\ Cardinality(enough) \in Nat
  BY <1>1, FS_CardinalityType
<1>3. CASE passingOnly
  <2> DEFINE R == Duty(c)!AsNamed(passing)
             list == Duty(c)!InOrder(passing, R)
  <2>1. shown = list
    BY <1>3, Zenon DEF Duty!ShownRows
  <2>2. IsOrder(passing, R)
    BY <1>1, AsNamedIs
  <2> HIDE DEF R, passing
  <2>3. /\ DOMAIN list = 1..Cardinality(passing) /\ \A n \in DOMAIN list : list[n] \in passing
        /\ \A i \in passing : \E n \in DOMAIN list : list[n] = i
        /\ \A m, n \in DOMAIN list : m < n => <<list[m], list[n]>> \in R
    BY <1>1, <2>2, InOrderIs
  <2> HIDE DEF list, shown
  <2>4. \A n \in DOMAIN list : rows[list[n]].passes
    BY <2>3, Zenon DEF passing
  <2>5. /\ \A n \in DOMAIN shown : shown[n] \in passing
        /\ \A i \in passing : \E n \in DOMAIN shown : shown[n] = i
        /\ \A m, n \in DOMAIN shown : (m < n /\ rows[shown[n]].passes) => rows[shown[m]].passes
    BY <1>2, <2>1, <2>3, <2>4
  <2>6. QED BY <1>3, <2>5, Zenon DEF shown, passing, ShowsDue, DueRows
<1>4. CASE ~passingOnly
  <2> DEFINE R == Duty(c)!BestFirst(rows, enough)
             list == Duty(c)!InOrder(enough, R)
  <2>1. shown = list
    BY <1>4, Zenon DEF Duty!ShownRows
  <2>2. IsOrder(enough, R)
    BY <1>1, BestFirstIs
  <2>3. \A i, j \in enough : <<i, j>> \in R /\ p(j) => p(i)
    BY Zenon DEF Duty!BestFirst, Duty!BetterRow
  <2> HIDE DEF R
  <2>4. /\ DOMAIN list = 1..Cardinality(enough) /\ \A n \in DOMAIN list : list[n] \in enough
        /\ \A i \in enough : \E n \in DOMAIN list : list[n] = i
        /\ \A m, n \in DOMAIN list : m < n => <<list[m], list[n]>> \in R
    BY <1>1, <2>2, InOrderIs
  <2> HIDE DEF list, shown, enough, p
  <2>5. ASSUME NEW m \in DOMAIN list, NEW n \in DOMAIN list, m < n, p(list[n]) PROVE p(list[m])
    BY <2>3, <2>4, <2>5
  <2>6. /\ \A n \in DOMAIN shown : shown[n] \in enough
        /\ \A i \in enough : \E n \in DOMAIN shown : shown[n] = i
        /\ \A m, n \in DOMAIN shown : (m < n /\ p(shown[n])) => p(shown[m])
    BY <1>2, <2>1, <2>4, <2>5
  <2>7. QED BY <1>4, <2>6, Zenon DEF shown, enough, p, ShowsDue, DueRows
<1>5. QED BY <1>3, <1>4

LEMMA FirstsAre ==
    ASSUME NEW c, NEW S, NEW seq \in Seq(S), NEW n \in Nat
    PROVE  Duty(c)!Firsts(seq, n) \in Seq(S)
<1> DEFINE m == Duty(c)!Min({n, Len(seq)})
<1>1. m = CHOOSE x \in {n, Len(seq)} : \A y \in {n, Len(seq)} : x =< y
  BY Zenon DEF Duty!Min
<1>2. Len(seq) \in Nat
  OBVIOUS
<1> DEFINE k == Len(seq)
<1> HIDE DEF m, k
<1>3. \E x \in {n, k} : \A y \in {n, k} : x =< y
  BY <1>2 DEF k
<1>4. m \in {n, k} /\ \A y \in {n, k} : m =< y
  BY <1>1, <1>3, Zenon DEF k
<1>5. m \in Nat /\ m <= Len(seq)
  BY <1>2, <1>4 DEF k
<1>6. SubSeq(seq, 1, m) \in Seq(S)
  <2>1. \A i \in 1..m : seq[i] \in S
    BY <1>5
  <2>2. QED BY <1>5, <2>1, SubSeqProperties
<1>7. QED BY <1>6, Zenon DEF Duty!Firsts, m, k

\* Whatever the readings, a name that was scored and is missing was asked away.
THEOREM RejectionsShown ==
    ASSUME NEW c, NEW Names, c.symbols \in Nat, c.names \in Seq(Names),
           NEW given \in Seq(Names), NEW watchlist \in Seq(Names), NEW exchange, NEW least \in Int,
           NEW passingOnly \in BOOLEAN, NEW readings \in [Names -> Reading]
    PROVE  Duty(c)!RejectionsAreShown(given, watchlist, exchange, least, passingOnly, readings)
<1> DEFINE screen == Duty(c)!ScreenMarket(given, watchlist, exchange, least, passingOnly, readings)
           all == Duty(c)!Named(given, watchlist, exchange)
           names == Duty(c)!Firsts(all, c.symbols)
           scored == {i \in DOMAIN names : readings[names[i]].is = "scored"}
           rows == [i \in scored |-> Duty(c)!Row(names[i], readings[names[i]])]
           shown == Duty(c)!ShownRows(rows, scored, least, passingOnly)
           results == [n \in DOMAIN shown |-> rows[shown[n]]]
           symbols == {r.symbol : r \in Range(results)}
           Wanted(row) == IF passingOnly THEN row.passes ELSE row.confluence >= least
           due == {i \in scored : Wanted(rows[i])}
<1>1. all \in Seq(Names)
  BY DEF Duty!Named
<1>2. names \in Seq(Names)
  <2> HIDE DEF all
  <2>1. QED BY <1>1, FirstsAre
<1>3. screen.names = names /\ screen.results = results
  BY DEF Duty!ScreenMarket
<1> HIDE DEF names, all, screen
<1>4. DOMAIN names = 1..Len(names) /\ Len(names) \in Nat /\ \A i \in DOMAIN names : names[i] \in Names
  BY <1>2
<1>5. scored \subseteq Nat /\ IsFiniteSet(scored)
  <2> DEFINE n == Len(names)
  <2> HIDE DEF n
  <2>1. IsFiniteSet(1..n)
    BY <1>4, FS_Interval DEF n
  <2>2. QED BY <1>4, <2>1, FS_Subset DEF n
<1>6. ASSUME NEW i \in scored
      PROVE  /\ rows[i] = Duty(c)!Row(names[i], readings[names[i]]) /\ AScreenRow(rows[i])
             /\ rows[i].symbol = names[i]
  <2>1. readings[names[i]] \in Scored
    BY <1>4 DEF Reading
  <2>2. QED BY <2>1, RowIs
<1> HIDE DEF rows, scored
<1>7. /\ \A n \in DOMAIN shown : shown[n] \in due
      /\ \A i \in due : \E n \in DOMAIN shown : shown[n] = i
      /\ \A m, n \in DOMAIN shown : (m < n /\ rows[shown[n]].passes) => rows[shown[m]].passes
  <2>1. \A i \in scored : AScreenRow(rows[i])
    BY <1>6
  <2>2. ShowsDue(shown, rows, DueRows(rows, scored, least, passingOnly))
    BY <1>5, <2>1, ShownRowsAre
  <2>3. DueRows(rows, scored, least, passingOnly) = due
    BY Zenon DEF DueRows
  <2> HIDE DEF shown, due
  <2>4. QED BY <2>2, <2>3 DEF ShowsDue
<1> HIDE DEF shown, Wanted
<1>8. symbols = {names[i] : i \in due}
  <2>1. \A n \in DOMAIN shown : results[n].symbol = names[shown[n]]
    BY <1>6, <1>7
  <2>2. symbols = {results[n].symbol : n \in DOMAIN shown}
    BY DEF Range
  <2> HIDE DEF symbols, results, due
  <2>3. QED BY <1>7, <2>1, <2>2
<1>9. ASSUME NEW s \in {names[i] : i \in DOMAIN names}, readings[s].is = "scored"
      PROVE  Wanted(Duty(c)!Row(s, readings[s])) <=> s \in symbols
  <2>1. PICK i \in DOMAIN names : s = names[i]
    BY <1>9
  <2>2. i \in scored /\ rows[i] = Duty(c)!Row(s, readings[s])
    BY <1>6, <1>9, <2>1 DEF scored
  <2>3. ASSUME s \in symbols PROVE Wanted(Duty(c)!Row(s, readings[s]))
    <3>1. PICK j \in due : s = names[j]
      BY <1>8, <2>3
    <3>2. Wanted(rows[j]) /\ rows[j] = Duty(c)!Row(s, readings[s])
      BY <1>6, <3>1
    <3>3. QED BY <3>2
  <2>4. ASSUME Wanted(Duty(c)!Row(s, readings[s])) PROVE s \in symbols
    BY <1>8, <2>1, <2>2, <2>4
  <2>5. QED BY <2>3, <2>4
<1>10. Range(screen.names) = {names[i] : i \in DOMAIN names}
  BY <1>3 DEF Range
<1>11. ASSUME NEW i \in DOMAIN results, NEW j \in DOMAIN results, i < j, results[j].passes
       PROVE  results[i].passes
  <2>1. i \in DOMAIN shown /\ j \in DOMAIN shown /\ results[i] = rows[shown[i]] /\ results[j] = rows[shown[j]]
    OBVIOUS
  <2> HIDE DEF results
  <2>2. QED BY <1>7, <1>11, <2>1, Zenon
<1>12. {r.symbol : r \in Range(screen.results)} = symbols
  BY <1>3, Zenon
<1> HIDE DEF symbols, results
<1>13. \A s \in Range(screen.names) : readings[s].is = "scored" =>
            IF passingOnly THEN Duty(c)!Row(s, readings[s]).passes <=> s \in symbols
            ELSE Duty(c)!Row(s, readings[s]).confluence >= least <=> s \in symbols
  BY <1>9, <1>10, Zenon DEF Wanted
<1>14. \A i, j \in DOMAIN screen.results : (i < j /\ screen.results[j].passes) => screen.results[i].passes
  BY <1>3, <1>11, Zenon
<1>15. Duty(c)!Range(screen.names) = Range(screen.names) /\ Duty(c)!Range(screen.results) = Range(screen.results)
  BY Zenon DEF Duty!Range, Range
<1>16. QED BY <1>12, <1>13, <1>14, <1>15, Zenon DEF Duty!RejectionsAreShown, screen

\* Whatever history, job or screen a trial is of, the duties are done.
THEOREM DutiesDone ==
    ASSUME NEW Names, {"TCS", "INFY", "ITC"} \subseteq Names,
           trial.of = "releases" => trial.history \in Seq(Answer) /\ Published(trial.history),
           trial.of = "drift" => \E S : trial.history \in Seq(S),
           trial.of = "screen" =>
               /\ trial.given \in Seq(Names) /\ trial.watchlist \in Seq(Names)
               /\ trial.least \in Int /\ trial.passing \in BOOLEAN /\ trial.readings \in [Names -> Reading]
    PROVE  DutiesAreDone
<1>1. Desk.marks \in Int /\ Desk.snapshots \in Int /\ Desk.symbols \in Nat /\ Desk.names \in Seq(Names)
  <2>1. /\ Desk.marks = 3 /\ Desk.snapshots = 3 /\ Desk.symbols = 2
        /\ Desk.names = <<"TCS", "INFY", "ITC">>
    BY DEF Desk
  <2>2. <<"TCS", "INFY", "ITC">> \in Seq(Names)
    OBVIOUS
  <2>3. QED BY <2>1, <2>2
<1>2. EachPrintOnce
  BY <1>1, PrintsOnce DEF EachPrintOnce
<1>3. DriftIsSinceLastLook
  BY <1>1, DriftSinceLastLook DEF DriftIsSinceLastLook
<1>4. RejectionsAreShown
  <2>1. SUFFICES ASSUME trial.of = "screen"
                 PROVE  Duty(Desk)!RejectionsAreShown(trial.given, trial.watchlist, trial.exchange, trial.least,
                                                      trial.passing, trial.readings)
    BY DEF RejectionsAreShown
  <2>2. /\ trial.given \in Seq(Names) /\ trial.watchlist \in Seq(Names)
        /\ trial.least \in Int /\ trial.passing \in BOOLEAN /\ trial.readings \in [Names -> Reading]
    BY <2>1
  <2> DEFINE given == trial.given
             watchlist == trial.watchlist
             exchange == trial.exchange
             least == trial.least
             passing == trial.passing
             readings == trial.readings
  <2>3. /\ given \in Seq(Names) /\ watchlist \in Seq(Names)
        /\ least \in Int /\ passing \in BOOLEAN /\ readings \in [Names -> Reading]
    BY <2>2
  <2> HIDE DEF given, watchlist, exchange, least, passing, readings
  <2>4. Duty(Desk)!RejectionsAreShown(given, watchlist, exchange, least, passing, readings)
    BY <1>1, <2>3, RejectionsShown
  <2>5. QED BY <2>4 DEF given, watchlist, exchange, least, passing, readings
<1>5. QED BY <1>2, <1>3, <1>4 DEF DutiesAreDone

-----------------------------------------------------------------------------
(* The morning brief.                                                       *)
\* The library's operators, seen from the brief, are the library's.
LEMMA SameLibrary ==
    ASSUME NEW c
    PROVE  /\ \A S : Morning(c)!Cardinality(S) = Cardinality(S)
           /\ \A S, T : Morning(c)!Bijection(S, T) = Bijection(S, T)
           /\ \A f : Morning(c)!Range(f) = Range(f)
<1>1. ASSUME NEW S PROVE Morning(c)!Cardinality(S) = Cardinality(S)
  BY Zenon DEF Morning!Cardinality, Cardinality, Morning!IsFiniteSet, IsFiniteSet
<1>2. ASSUME NEW S, NEW T PROVE Morning(c)!Bijection(S, T) = Bijection(S, T)
  BY Zenon DEF Morning!Bijection, Morning!Injection, Morning!Surjection, Morning!IsInjective,
               Bijection, Injection, Surjection, IsInjective
<1>3. ASSUME NEW f PROVE Morning(c)!Range(f) = Range(f)
  BY Zenon DEF Morning!Range, Range
<1>4. QED BY <1>1, <1>2, <1>3, Zenon

\* A sum is what adding one by one reaches.
Adds(g, f, e, k) == g[0] = 0 /\ \A i \in 1..k : g[i] = g[i - 1] + f[e[i]]

LEMMA SumIs ==
    ASSUME NEW c, NEW S, IsFiniteSet(S), NEW f, \A x \in S : f[x] \in Int
    PROVE  \E e \in [1..Cardinality(S) -> S], g \in [0..Cardinality(S) -> Int] :
               Adds(g, f, e, Cardinality(S)) /\ Morning(c)!Sum(f, S) = g[Cardinality(S)]
<1> DEFINE n == Morning(c)!Cardinality(S)
           e == CHOOSE s \in Morning(c)!Bijection(1..n, S) : TRUE
           step == [p \in Int \X (1..n) |-> p[1] + f[e[p[2]]]]
           sum == CHOOSE g : g = [i \in 0..n |-> IF i = 0 THEN 0 ELSE g[i - 1] + f[e[i]]]
<1>0. n = Cardinality(S)
  BY SameLibrary, Zenon
<1>2. Morning(c)!Sum(f, S) = sum[n]
  BY Zenon DEF Morning!Sum
<1>1. n \in Nat /\ e \in Bijection(1..n, S)
  <2>1. Morning(c)!Bijection(1..n, S) = Bijection(1..n, S)
    BY SameLibrary, Zenon
  <2> HIDE DEF n
  <2>2. n \in Nat /\ \E s : s \in Bijection(1..n, S)
    BY <1>0, FS_CardinalityType DEF ExistsBijection
  <2>3. QED BY <2>1, <2>2, Zenon
<1> HIDE DEF n, e
<1>3. e \in [1..n -> S]
  BY <1>1 DEF Bijection, Injection
<1>4. \A i \in 1..n : f[e[i]] \in Int
  BY <1>3
<1>5. \A x \in Int, i \in 1..n : step[<<x, i>>] = x + f[e[i]]
  OBVIOUS
<1>6. Loops!IsLoop(Int, n, 0, step)
  BY <1>1, <1>4, <1>5 DEF Loops!IsLoop
<1> HIDE DEF step
<1>7. PICK g \in [0..n -> Int] : g[0] = 0 /\ \A i \in 1..n : g[i] = step[<<g[i - 1], i>>]
  BY <1>6, Loops!LoopIsFunction
<1>8. \A i \in 1..n : g[i] = g[i - 1] + f[e[i]]
  <2>1. \A i \in 1..n : g[i - 1] \in Int
    BY <1>1
  <2>2. QED BY <1>5, <1>7, <2>1
<1>9. g = [i \in 0..n |-> IF i = 0 THEN 0 ELSE g[i - 1] + f[e[i]]]
  <2>1. \A i \in 0..n : g[i] = IF i = 0 THEN 0 ELSE g[i - 1] + f[e[i]]
    <3>1. ASSUME NEW i \in 0..n, i # 0 PROVE i \in 1..n
      BY <1>1, <3>1
    <3>2. QED BY <1>7, <1>8, <3>1
  <2>2. QED BY <2>1
<1>10. sum = [i \in 0..n |-> IF i = 0 THEN 0 ELSE sum[i - 1] + f[e[i]]]
  BY <1>9, Zenon
<1> HIDE DEF sum
<1>11. \A i \in 0..n : sum[i] = g[i]
  <2> DEFINE T == {i \in 0..n : sum[i] = g[i]}
  <2>1. 0 \in T
    BY <1>1, <1>7, <1>10
  <2>2. ASSUME NEW i \in 0..(n - 1), i \in T PROVE i + 1 \in T
    <3>1. i + 1 \in 1..n /\ i + 1 \in 0..n /\ (i + 1) - 1 = i /\ i + 1 # 0
      BY <1>1
    <3>2. sum[i + 1] = sum[i] + f[e[i + 1]] /\ g[i + 1] = g[i] + f[e[i + 1]]
      BY <1>8, <1>10, <3>1
    <3>3. QED BY <2>2, <3>1, <3>2
  <2> HIDE DEF T
  <2>3. \A i \in 0..n : i \in T
    BY <1>1, <2>1, <2>2, Loops!Climb
  <2>4. QED BY <2>3 DEF T
<1>12. Adds(g, f, e, n) /\ sum[n] = g[n]
  BY <1>1, <1>7, <1>8, <1>11 DEF Adds
<1>13. QED BY <1>0, <1>2, <1>3, <1>7, <1>12

\* A sum is between as many of the least and as many of the greatest.
LEMMA SumWithin ==
    ASSUME NEW c, NEW S, IsFiniteSet(S), NEW f, NEW low \in Int, NEW high \in Int,
           \A x \in S : f[x] \in Int /\ low <= f[x] /\ f[x] <= high
    PROVE  /\ Morning(c)!Sum(f, S) \in Int
           /\ Cardinality(S) * low <= Morning(c)!Sum(f, S)
           /\ Morning(c)!Sum(f, S) <= Cardinality(S) * high
<1> DEFINE n == Cardinality(S)
           sum == Morning(c)!Sum(f, S)
<1>1. n \in Nat
  BY FS_CardinalityType
<1>2. PICK e \in [1..n -> S], g \in [0..n -> Int] : Adds(g, f, e, n) /\ sum = g[n]
  BY SumIs
<1> HIDE DEF n, sum
<1> DEFINE T == {i \in 0..n : i * low <= g[i] /\ g[i] <= i * high}
<1>3. 0 \in T
  BY <1>1, <1>2 DEF Adds
<1>4. ASSUME NEW i \in 0..(n - 1), i \in T PROVE i + 1 \in T
  <2>1. i \in Int /\ i + 1 \in 1..n /\ (i + 1) - 1 = i /\ e[i + 1] \in S
    BY <1>1, <1>2
  <2>2. g[i + 1] = g[i] + f[e[i + 1]] /\ g[i] \in Int /\ g[i + 1] \in Int
    BY <1>1, <1>2, <2>1 DEF Adds
  <2>3. f[e[i + 1]] \in Int /\ low <= f[e[i + 1]] /\ f[e[i + 1]] <= high
    BY <2>1
  <2>4. (i + 1) * low = i * low + low /\ (i + 1) * high = i * high + high /\ i * low \in Int /\ i * high \in Int
    BY <2>1
  <2> DEFINE l == i * low
             h == i * high
             x == f[e[i + 1]]
             y == g[i]
  <2>5. l <= y /\ y <= h
    BY <1>4
  <2>6. l + low <= y + x /\ y + x <= h + high
    <3>1. l \in Int /\ h \in Int /\ x \in Int /\ y \in Int /\ low <= x /\ x <= high
      BY <2>2, <2>3, <2>4
    <3> HIDE DEF l, h, x, y
    <3>2. QED BY <2>5, <3>1
  <2> HIDE DEF l, h, x, y
  <2>7. (i + 1) * low <= g[i + 1] /\ g[i + 1] <= (i + 1) * high
    BY <2>2, <2>4, <2>6 DEF l, h, x, y
  <2>8. QED BY <1>1, <2>7
<1> HIDE DEF T
<1>5. n \in T
  <2>1. \A i \in 0..n : i \in T
    BY <1>1, <1>3, <1>4, Loops!Climb
  <2>2. QED BY <1>1, <2>1
<1>6. n * low <= g[n] /\ g[n] <= n * high /\ g[n] \in Int
  BY <1>1, <1>2, <1>5 DEF T
<1>7. QED BY <1>2, <1>6 DEF n, sum

\* What lies between as many of the least and as many of the greatest has its
\* rounded share between the two.
LEMMA ShareWithin ==
    ASSUME NEW n \in Nat, n # 0, NEW s \in Int, NEW low \in Int, NEW high \in Int, n * low <= s, s <= n * high
    PROVE  (2 * s + n) \div (2 * n) \in low..high
<1> DEFINE D == 2 * n
           x == 2 * s + n
           q == x \div D
           r == x % D
<1>1. D \in Int /\ D > 0 /\ x \in Int
  OBVIOUS
<1>2. q \in Int /\ r \in Int /\ 0 <= r /\ r < D /\ x = D * q + r
  <2> HIDE DEF D, x
  <2>1. QED BY <1>1
<1> HIDE DEF q, r
<1>3. n * q \in Int /\ n * low \in Int /\ n * high \in Int
  BY <1>2
<1>4. D * q = 2 * (n * q)
  BY <1>2
<1> DEFINE p == n * q
<1>5. p \in Int /\ 2 * p <= 2 * s + n /\ 2 * s + n < 2 * p + 2 * n
  BY <1>1, <1>2, <1>3, <1>4
<1>6. ASSUME high + 1 <= q PROVE FALSE
  <2>1. n * (high + 1) <= n * q /\ n * (high + 1) = n * high + n
    BY <1>2, <1>6
  <2> DEFINE h == n * high
  <2>2. h + n <= p /\ s <= h /\ h \in Int
    BY <1>3, <2>1
  <2> HIDE DEF h, p, D, x
  <2>3. QED BY <1>5, <2>2
<1>7. ASSUME q + 1 <= low PROVE FALSE
  <2>1. n * (q + 1) <= n * low /\ n * (q + 1) = n * q + n
    BY <1>2, <1>7
  <2> DEFINE h == n * low
  <2>2. p + n <= h /\ h <= s /\ h \in Int
    BY <1>3, <2>1
  <2> HIDE DEF h, p, D, x
  <2>3. QED BY <1>5, <2>2
<1>8. q \in low..high
  <2> HIDE DEF D, x, p
  <2>1. ~(high + 1 <= q) /\ ~(q + 1 <= low)
    BY <1>6, <1>7
  <2>2. QED BY <1>2, <2>1
<1>9. QED BY <1>8 DEF q

\* The average of a group is between the bounds of what arrived of it.
LEMMA AverageWithin ==
    ASSUME NEW c, NEW cues, NEW group, IsFiniteSet(group), NEW low \in Int, NEW high \in Int,
           \A x \in group \cap DOMAIN cues : cues[x] \in Int /\ low <= cues[x] /\ cues[x] <= high
    PROVE  /\ group \cap DOMAIN cues = {} => Morning(c)!Average(cues, group) = {}
           /\ group \cap DOMAIN cues # {} =>
                \E a \in low..high : Morning(c)!Average(cues, group) = {a}
<1> DEFINE there == group \cap DOMAIN cues
           n == Cardinality(there)
           s == Morning(c)!Sum(cues, there)
           average == Morning(c)!Average(cues, group)
<1>1. IsFiniteSet(there)
  BY FS_Subset
<1>2. average = IF there = {} THEN {} ELSE {(2 * s + n) \div (2 * n)}
  <2>1. Morning(c)!Cardinality(there) = n
    BY SameLibrary, Zenon
  <2>2. average = IF there = {} THEN {} ELSE {(2 * s + Morning(c)!Cardinality(there)) \div (2 * Morning(c)!Cardinality(there))}
    BY Zenon DEF Morning!Average
  <2> HIDE DEF average, s, there, n
  <2>3. QED BY <2>1, <2>2
<1>3. CASE there # {}
  <2>1. n \in Nat /\ n # 0
    BY <1>1, <1>3, FS_CardinalityType, FS_EmptySet
  <2>2. s \in Int /\ n * low <= s /\ s <= n * high
    BY <1>1, SumWithin
  <2> HIDE DEF average, s, n
  <2>3. (2 * s + n) \div (2 * n) \in low..high
    BY <2>1, <2>2, ShareWithin
  <2>4. QED BY <1>2, <1>3, <2>3, Zenon DEF average
<1>4. QED BY <1>2, <1>3

\* A finite set of numbers has a least and a greatest.
LEMMA EndsAre ==
    ASSUME NEW S, IsFiniteSet(S), S # {}, S \subseteq Int
    PROVE  /\ \E x \in S : \A y \in S : x <= y
           /\ \E x \in S : \A y \in S : x >= y
<1> DEFINE R == {p \in S \X S : p[1] < p[2]}
           n == Cardinality(S)
<1>1. \A x, y \in S : <<x, y>> \in R <=> x < y
  OBVIOUS
<1>2. IsOrder(S, R)
  <2> HIDE DEF R
  <2>1. ASSUME NEW x \in S, NEW y \in S, NEW z \in S
        PROVE  /\ <<x, x>> \notin R
               /\ <<x, y>> \in R /\ <<y, z>> \in R => <<x, z>> \in R
               /\ x # y => <<x, y>> \in R \/ <<y, x>> \in R
    <3>1. x \in Int /\ y \in Int /\ z \in Int
      OBVIOUS
    <3>2. QED BY <1>1, <3>1
  <2>2. QED BY <2>1 DEF IsOrder
<1> HIDE DEF R
<1>3. PICK s : IsList(s, n, S, R)
  BY <1>2, OrderHasList
<1>4. n \in Nat /\ n # 0
  BY FS_CardinalityType, FS_EmptySet
<1> HIDE DEF n
<1>5. /\ s \in [1..n -> S] /\ \A x \in S : \E i \in 1..n : s[i] = x
      /\ \A i, j \in 1..n : i < j => s[i] < s[j]
  <2>1. /\ s \in [1..n -> S] /\ \A x \in S : \E i \in 1..n : s[i] = x
        /\ \A i, j \in 1..n : i < j => <<s[i], s[j]>> \in R
    BY <1>3 DEF IsList
  <2>2. QED BY <1>1, <2>1
<1>6. 1 \in 1..n /\ n \in 1..n
  BY <1>4
<1>7. ASSUME NEW y \in S PROVE s[1] <= y /\ s[n] >= y
  <2>1. PICK i \in 1..n : s[i] = y
    BY <1>5
  <2>2. s[1] \in Int /\ s[n] \in Int /\ y \in Int
    BY <1>5, <1>6
  <2>3. i = 1 \/ 1 < i
    OBVIOUS
  <2>4. i = n \/ i < n
    BY <1>4
  <2>5. QED BY <1>5, <1>6, <2>1, <2>2, <2>3, <2>4
<1>8. QED BY <1>5, <1>6, <1>7

\* The brief's least and greatest are those.
LEMMA EndsOf ==
    ASSUME NEW c, NEW S, IsFiniteSet(S), S # {}, S \subseteq Int
    PROVE  /\ Morning(c)!Min(S) \in S /\ \A y \in S : Morning(c)!Min(S) <= y
           /\ Morning(c)!Max(S) \in S /\ \A y \in S : Morning(c)!Max(S) >= y
<1>1. Morning(c)!Min(S) = CHOOSE x \in S : \A y \in S : x <= y
  BY Zenon DEF Morning!Min
<1>2. Morning(c)!Max(S) = CHOOSE x \in S : \A y \in S : x >= y
  BY Zenon DEF Morning!Max
<1>3. QED BY <1>1, <1>2, EndsAre, Zenon

Arrived(cues, group) == {cues[x] : x \in group \cap DOMAIN cues}

\* What arrived of a finite group is finite.
LEMMA ArrivedIs ==
    ASSUME NEW cues, NEW group, IsFiniteSet(group), \A x \in DOMAIN cues : cues[x] \in Int
    PROVE  /\ IsFiniteSet(Arrived(cues, group)) /\ Arrived(cues, group) \subseteq Int
           /\ \A x \in group \cap DOMAIN cues : cues[x] \in Arrived(cues, group)
           /\ Arrived(cues, group) = {} <=> group \cap DOMAIN cues = {}
<1> DEFINE there == group \cap DOMAIN cues
           f == [x \in there |-> cues[x]]
<1>1. IsFiniteSet(there)
  BY FS_Subset
<1>2. f \in Surjection(there, Arrived(cues, group))
  BY DEF Surjection, Arrived
<1>3. IsFiniteSet(Arrived(cues, group))
  BY <1>1, <1>2, FS_Surjection
<1>4. QED BY <1>3 DEF Arrived

\* What the read says of a group.
LEMMA GroupIs ==
    ASSUME NEW c, NEW cues, NEW group, IsFiniteSet(group), \A x \in DOMAIN cues : cues[x] \in Int
    PROVE  LET average == Morning(c)!Average(cues, group)
               all == Arrived(cues, group)
               number == Morning(c)!Number(average)
           IN /\ \A a \in average : Morning(c)!Min(all) <= a /\ a <= Morning(c)!Max(all)
              /\ number \in Int
              /\ number > 0 => \E x \in all : x > 0
              /\ number < 0 => \E x \in all : x < 0
<1> DEFINE average == Morning(c)!Average(cues, group)
           all == Arrived(cues, group)
           number == Morning(c)!Number(average)
           low == Morning(c)!Min(all)
           high == Morning(c)!Max(all)
<1>1. number = IF average = {} THEN 0 ELSE CHOOSE a \in average : TRUE
  BY Zenon DEF Morning!Number
<1>2. CASE group \cap DOMAIN cues = {}
  <2>1. average = {}
    BY <1>2, AverageWithin, 0 \in Int
  <2>2. QED BY <1>1, <2>1
<1>3. CASE group \cap DOMAIN cues # {}
  <2>1. /\ IsFiniteSet(all) /\ all \subseteq Int /\ all # {}
        /\ \A x \in group \cap DOMAIN cues : cues[x] \in all
    BY <1>3, ArrivedIs
  <2> HIDE DEF all
  <2>2. low \in all /\ high \in all /\ (\A y \in all : low <= y) /\ \A y \in all : high >= y
    BY <2>1, EndsOf
  <2> HIDE DEF low, high
  <2>3. low \in Int /\ high \in Int
    BY <2>1, <2>2
  <2>4. \A x \in group \cap DOMAIN cues : cues[x] \in Int /\ low <= cues[x] /\ cues[x] <= high
    BY <2>1, <2>2
  <2>5. \E a \in low..high : average = {a}
    BY <1>3, <2>3, <2>4, AverageWithin
  <2> HIDE DEF average
  <2>6. PICK a \in low..high : average = {a}
    BY <2>5
  <2>7. number = a
    BY <1>1, <2>6, Zenon
  <2> HIDE DEF number
  <2>8. QED BY <2>2, <2>3, <2>6, <2>7 DEF low, high, all, average, number
<1>4. QED BY <1>2, <1>3

\* The read of the overnight cues is made of what arrived.
THEOREM BiasOfTheTape ==
    ASSUME NEW c, IsFiniteSet(c.us), IsFiniteSet(c.asia),
           NEW cues, \A x \in DOMAIN cues : cues[x] \in Int
    PROVE  Morning(c)!BiasIsTheTape(cues)
<1> DEFINE us == Morning(c)!Number(Morning(c)!Average(cues, c.us))
           asia == Morning(c)!Number(Morning(c)!Average(cues, c.asia))
           above(d, x) == d \in DOMAIN cues /\ cues[d] > x
           rupee == above(c.rupee, 30)
           fear == above(c.fear, 500)
           score == Morning(c)!Score(cues)
           read == Morning(c)!Summarise(cues)
           US == Arrived(cues, c.us)
           ASIA == Arrived(cues, c.asia)
<1>1. score = 10 * us + 12 * asia - (IF rupee THEN 300 ELSE 0) - (IF fear THEN 300 ELSE 0)
  BY Zenon DEF Morning!Score
<1>2. /\ \A a \in Morning(c)!Average(cues, c.us) : Morning(c)!Min(US) <= a /\ a <= Morning(c)!Max(US)
      /\ us \in Int
      /\ us > 0 => \E x \in US : x > 0
      /\ us < 0 => \E x \in US : x < 0
  BY GroupIs
<1>3. /\ \A a \in Morning(c)!Average(cues, c.asia) : Morning(c)!Min(ASIA) <= a /\ a <= Morning(c)!Max(ASIA)
      /\ asia \in Int
      /\ asia > 0 => \E x \in ASIA : x > 0
      /\ asia < 0 => \E x \in ASIA : x < 0
  BY GroupIs
<1>4. /\ read.bias = IF score > 500 THEN "positive" ELSE IF score < -500 THEN "negative" ELSE "neutral"
      /\ read.us = Morning(c)!Average(cues, c.us) /\ read.asia = Morning(c)!Average(cues, c.asia)
  <2> DEFINE bias == IF score > 500 THEN "positive" ELSE IF score < -500 THEN "negative" ELSE "neutral"
             strength == IF Morning(c)!Abs(score) > 1200 THEN "strong" ELSE IF Morning(c)!Abs(score) > 400 THEN "moderate" ELSE "weak"
             degraded == DOMAIN cues # c.us \cup c.asia \cup {c.rupee, c.fear}
             a == Morning(c)!Average(cues, c.us)
             b == Morning(c)!Average(cues, c.asia)
  <2>1. read = [bias |-> bias, strength |-> strength, us |-> a, asia |-> b, degraded |-> degraded]
    BY Zenon DEF Morning!Summarise
  <2> HIDE DEF read, bias, strength, degraded, a, b
  <2>2. read.bias = bias /\ read.us = a /\ read.asia = b
    BY <2>1
  <2>3. QED BY <2>2 DEF bias, a, b
<1>5. \A x \in DOMAIN cues : cues[x] \in Int
  OBVIOUS
<1> HIDE DEF us, asia, rupee, fear, score, read
<1>6. read.bias = "positive" => us > 0 \/ asia > 0
  <2>1. read.bias = "positive" => score > 500
    BY <1>4
  <2>2. QED BY <1>1, <1>2, <1>3, <2>1
<1>7. read.bias = "negative" => us < 0 \/ asia < 0 \/ (rupee /\ fear)
  <2>1. read.bias = "negative" => score < -500
    BY <1>4
  <2>2. QED BY <1>1, <1>2, <1>3, <2>1
<1>8. US \cup ASIA = Arrived(cues, c.us \cup c.asia)
  BY DEF Arrived
<1>9. rupee /\ fear => {c.rupee, c.fear} \subseteq DOMAIN cues /\ cues[c.rupee] > 0 /\ cues[c.fear] > 0
  BY <1>5 DEF rupee, fear
<1>10. /\ \A a \in read.us : Morning(c)!Min(US) <= a /\ a <= Morning(c)!Max(US)
       /\ \A a \in read.asia : Morning(c)!Min(ASIA) <= a /\ a <= Morning(c)!Max(ASIA)
       /\ read.bias = "positive" => \E x \in Arrived(cues, c.us \cup c.asia) : x > 0
       /\ read.bias = "negative" => \/ \E x \in Arrived(cues, c.us \cup c.asia) : x < 0
                                    \/ {c.rupee, c.fear} \subseteq DOMAIN cues /\ cues[c.rupee] > 0 /\ cues[c.fear] > 0
  <2> HIDE DEF US, ASIA
  <2>1. \A a \in read.us : Morning(c)!Min(US) <= a /\ a <= Morning(c)!Max(US)
    BY <1>2, <1>4, Zenon
  <2>2. \A a \in read.asia : Morning(c)!Min(ASIA) <= a /\ a <= Morning(c)!Max(ASIA)
    BY <1>3, <1>4, Zenon
  <2> DEFINE moved == Arrived(cues, c.us \cup c.asia)
  <2>3. \A x : x \in US \/ x \in ASIA => x \in moved
    BY <1>8
  <2> HIDE DEF moved
  <2>4. read.bias = "positive" => \E x \in moved : x > 0
    BY <1>2, <1>3, <1>6, <2>3, Zenon
  <2>5. read.bias = "negative" => (\E x \in moved : x < 0) \/ (rupee /\ fear)
    BY <1>2, <1>3, <1>7, <2>3, Zenon
  <2>6. QED BY <1>9, <2>1, <2>2, <2>4, <2>5, Zenon DEF moved
<1>11. QED BY <1>10, Zenon DEF Morning!BiasIsTheTape, Arrived, read

Grows(days) == \A i, j \in 1..Len(days) : i < j => days[i] < days[j]

\* The return of the i-th session and the day it is set against.
Set(days, i, shift) == [stock |-> days[i], driver |-> days[i - shift]]
Joined(days, shift, later) == {n \in (2 + shift)..Len(days) : days[n] \in later}

\* A stock's day is set against a close that was known when it opened.
THEOREM OpenIsKnown ==
    ASSUME NEW c, c.days \in Int, NEW stock, NEW days \in Seq(Int), Grows(days), NEW lagged \in BOOLEAN
    PROVE  Morning(c)!KnownAtTheOpen(stock, days, lagged)
<1> DEFINE later == Morning(c)!Later(stock)
           shift == IF lagged THEN 1 ELSE 0
           I == Joined(days, shift, later)
           P == Morning(c)!Paired(stock, days, lagged)
           D == {p.stock : p \in P}
<1>1. P = {Set(days, i, shift) : i \in I}
  <2>1. P = {[stock |-> days[i], driver |-> days[i - shift]] : i \in {n \in (2 + shift)..Len(days) : days[n] \in later}}
    BY Zenon DEF Morning!Paired
  <2>2. QED BY <2>1, Zenon DEF Set, Joined
<1>2. /\ IsFiniteSet(I)
      /\ \A i \in I : /\ i \in 1..Len(days) /\ i - shift \in 1..Len(days)
                      /\ days[i] \in Int /\ days[i - shift] \in Int
  <2>1. I \subseteq 1..Len(days) /\ \A i \in I : i - shift \in 1..Len(days)
    BY DEF Joined
  <2>2. IsFiniteSet(I)
    BY <2>1, FS_Interval, FS_Subset
  <2> HIDE DEF I
  <2>3. QED BY <2>1, <2>2
<1> HIDE DEF P, I, later
<1>3. \A i \in I : Set(days, i, shift).stock = days[i] /\ Set(days, i, shift).driver = days[i - shift]
  BY DEF Set
<1>4. IsFiniteSet(P)
  <2> DEFINE f == [i \in I |-> Set(days, i, shift)]
  <2>1. f \in Surjection(I, P)
    BY <1>1 DEF Surjection
  <2>2. QED BY <1>2, <2>1, FS_Surjection
<1>5. \A p \in P : \E i \in I : p = Set(days, i, shift) /\ p.stock = days[i] /\ p.driver = days[i - shift]
  BY <1>1, <1>3
<1>6. Cardinality(P) <= Cardinality(D) /\ Cardinality(P) \in Int /\ Cardinality(D) \in Int
  <2> DEFINE f == [p \in P |-> p.stock]
  <2>1. f \in Surjection(P, D)
    BY DEF Surjection
  <2>2. IsFiniteSet(D)
    BY <1>4, <2>1, FS_Surjection
  <2>3. ASSUME NEW p \in P, NEW q \in P, p.stock = q.stock PROVE p = q
    <3>1. PICK i \in I : p = Set(days, i, shift) /\ p.stock = days[i]
      BY <1>5
    <3>2. PICK j \in I : q = Set(days, j, shift) /\ q.stock = days[j]
      BY <1>5
    <3>3. i \in 1..Len(days) /\ j \in 1..Len(days) /\ days[i] = days[j] /\ days[i] \in Int
      BY <1>2, <2>3, <3>1, <3>2
    <3>4. i = j
      BY <3>3 DEF Grows
    <3>5. QED BY <3>1, <3>2, <3>4
  <2>4. f \in Injection(P, D)
    BY <2>3 DEF Injection, IsInjective
  <2>5. QED BY <1>4, <2>2, <2>4, FS_Injection, FS_CardinalityType
<1>7. ASSUME NEW p \in P
      PROVE  IF ~lagged THEN p.driver = p.stock
             ELSE p.driver < p.stock /\ ~\E s \in Range(days) : p.driver < s /\ s < p.stock
  <2>1. PICK i \in I : p.stock = days[i] /\ p.driver = days[i - shift]
    BY <1>5
  <2>2. i \in 1..Len(days) /\ i - shift \in 1..Len(days) /\ days[i] \in Int /\ days[i - shift] \in Int
    BY <1>2
  <2>3. CASE ~lagged
    BY <2>1, <2>2, <2>3
  <2>4. CASE lagged
    <3>1. shift = 1 /\ i - 1 < i
      BY <2>2, <2>4
    <3>2. days[i - 1] < days[i]
      BY <2>2, <3>1 DEF Grows
    <3>3. ASSUME NEW s \in Range(days), days[i - 1] < s, s < days[i] PROVE FALSE
      <4>1. PICK k \in 1..Len(days) : s = days[k]
        BY DEF Range
      <4>2. days[k] \in Int
        BY <4>1
      <4>3. k <= i - 1 \/ i <= k
        BY <2>2
      <4>4. k = i - 1 \/ k = i \/ k < i - 1 \/ i < k
        BY <2>2
      <4>5. days[k] <= days[i - 1] \/ days[i] <= days[k]
        BY <2>2, <3>1, <4>2, <4>4 DEF Grows
      <4>6. QED BY <2>2, <3>1, <3>3, <4>1, <4>2, <4>5
    <3>4. QED BY <2>1, <2>4, <3>1, <3>2, <3>3
  <2>5. QED BY <2>3, <2>4
<1>8. Morning(c)!HasBeta(stock, days, lagged) => Morning(c)!Cardinality(D) >= c.days
  <2>1. Morning(c)!HasBeta(stock, days, lagged) <=> Morning(c)!Cardinality(P) >= c.days
    BY Zenon DEF Morning!HasBeta, P
  <2>2. Morning(c)!Cardinality(P) = Cardinality(P) /\ Morning(c)!Cardinality(D) = Cardinality(D)
    BY SameLibrary, Zenon
  <2> DEFINE p == Cardinality(P)
             d == Cardinality(D)
  <2> HIDE DEF D, p, d
  <2>3. p >= c.days => d >= c.days
    BY <1>6 DEF p, d
  <2>4. QED BY <2>1, <2>2, <2>3 DEF p, d
<1>9. Morning(c)!Range(days) = Range(days)
  BY SameLibrary, Zenon
<1>10. QED BY <1>7, <1>8, <1>9, Zenon DEF Morning!KnownAtTheOpen, P

\* An ordered set is listed once over, in its order.
LEMMA ListedIs ==
    ASSUME NEW c, NEW S, IsFiniteSet(S), NEW R, IsOrder(S, R)
    PROVE  LET s == Morning(c)!InOrder(S, R) IN
           /\ DOMAIN s = 1..Cardinality(S) /\ \A i \in DOMAIN s : s[i] \in S
           /\ \A x \in S : \E i \in DOMAIN s : s[i] = x
           /\ \A i, j \in DOMAIN s : i < j => <<s[i], s[j]>> \in R
<1> DEFINE s == Morning(c)!InOrder(S, R)
<1>1. PICK t : IsList(t, Cardinality(S), S, R)
  BY OrderHasList
<1>2. t \in Lists(S, R)
  BY <1>1, ListsAre, FS_CardinalityType
<1>3. s = CHOOSE x \in Bijection(1..Cardinality(S), S) : \A i, j \in DOMAIN x : i < j => <<x[i], x[j]>> \in R
  <2>1. Morning(c)!Cardinality(S) = Cardinality(S)
    BY SameLibrary, Zenon
  <2>2. Morning(c)!Bijection(1..Cardinality(S), S) = Bijection(1..Cardinality(S), S)
    BY SameLibrary, Zenon
  <2>3. QED BY <2>1, <2>2, Zenon DEF Morning!InOrder
<1> HIDE DEF s
<1>4. s \in Lists(S, R)
  BY <1>2, <1>3, Zenon DEF Lists
<1>5. /\ s \in [1..Cardinality(S) -> S] /\ \A x \in S : \E i \in 1..Cardinality(S) : s[i] = x
      /\ \A i, j \in DOMAIN s : i < j => <<s[i], s[j]>> \in R
  BY <1>4 DEF Lists, Bijection, Surjection
<1>6. QED BY <1>5 DEF s

\* A set of positions is listed as it stands.
Ascending(I) == {p \in I \X I : p[1] < p[2]}
LEMMA PositionsListed ==
    ASSUME NEW c, NEW I, I \subseteq Nat, IsFiniteSet(I)
    PROVE  LET at == Morning(c)!InOrder(I, Ascending(I)) IN
           /\ DOMAIN at = 1..Cardinality(I) /\ \A i \in DOMAIN at : at[i] \in I
           /\ \A x \in I : \E i \in DOMAIN at : at[i] = x
           /\ \A i, j \in DOMAIN at : i < j => at[i] < at[j]
<1> DEFINE R == Ascending(I)
           at == Morning(c)!InOrder(I, R)
<1>1. \A x, y \in I : <<x, y>> \in R <=> x < y
  BY DEF Ascending
<1> HIDE DEF R
<1>2. IsOrder(I, R)
  <2>1. ASSUME NEW x \in I, NEW y \in I, NEW z \in I
        PROVE  /\ <<x, x>> \notin R
               /\ <<x, y>> \in R /\ <<y, z>> \in R => <<x, z>> \in R
               /\ x # y => <<x, y>> \in R \/ <<y, x>> \in R
    <3>1. x \in Int /\ y \in Int /\ z \in Int
      OBVIOUS
    <3>2. QED BY <1>1, <3>1
  <2>2. QED BY <2>1 DEF IsOrder
<1>3. /\ DOMAIN at = 1..Cardinality(I) /\ \A i \in DOMAIN at : at[i] \in I
      /\ \A x \in I : \E i \in DOMAIN at : at[i] = x
      /\ \A i, j \in DOMAIN at : i < j => <<at[i], at[j]>> \in R
  BY <1>2, ListedIs
<1> HIDE DEF at
<1>4. \A i, j \in DOMAIN at : i < j => at[i] < at[j]
  BY <1>1, <1>3
<1>5. QED BY <1>3, <1>4 DEF at, R

\* What the code needs of its settings, and of a candidate.
IsDesk(c) ==
    /\ c.floor \in Int /\ c.floor < 100 /\ c.full \in Nat /\ c.full # 0
    /\ c.sectorCap \in Int /\ c.most \in Nat
Conf(x) == x.confidence
Align(x) == x.context.alignment
Name(x) == x.symbol
Why(x) == x.context.reasons
IsCandidate(c, x) == Conf(x) \in c.floor..100 /\ Align(x) \in Int /\ Why(x) \subseteq c.drivers

Squashed(x, full) == IF x < -full THEN -full ELSE IF x > full THEN full ELSE x

\* A clamped number is the nearest of the range.
LEMMA ClampIs ==
    ASSUME NEW c, NEW x \in Int, NEW low \in Int, NEW high \in Int, low <= high
    PROVE  Morning(c)!Clamp(x, low, high) = IF x < low THEN low ELSE IF x > high THEN high ELSE x
<1> DEFINE S == {high, x}
           m == Morning(c)!Min(S)
           T == {low, m}
           n == Morning(c)!Max(T)
<1>1. \A a, b : IsFiniteSet({a, b})
  <2>1. ASSUME NEW a, NEW b PROVE IsFiniteSet({a, b})
    <3>1. IsFiniteSet({a}) /\ {a, b} = {a} \cup {b}
      BY FS_Singleton
    <3>2. QED BY <3>1, FS_AddElement
  <2>2. QED BY <2>1
<1>2. m \in S /\ \A y \in S : m <= y
  BY <1>1, EndsOf
<1> HIDE DEF m
<1>3. m \in Int /\ (m = high \/ m = x) /\ m <= high /\ m <= x
  BY <1>2
<1>4. n \in T /\ \A y \in T : n >= y
  BY <1>1, <1>3, EndsOf
<1> HIDE DEF n
<1>5. (n = low \/ n = m) /\ n >= low /\ n >= m /\ n \in Int
  BY <1>3, <1>4
<1>6. Morning(c)!Clamp(x, low, high) = n
  BY Zenon DEF Morning!Clamp, m, n
<1> HIDE DEF S, T
<1>7. n = IF x < low THEN low ELSE IF x > high THEN high ELSE x
  BY <1>3, <1>5
<1>8. QED BY <1>6, <1>7

\* The rank of a candidate: its confidence, and its squashed alignment.
LEMMA RankIs ==
    ASSUME NEW c, IsDesk(c), NEW x, IsCandidate(c, x)
    PROVE  /\ Morning(c)!RankScore(x) = 7 * c.full * (Conf(x) - c.floor) + 3 * (100 - c.floor) * Squashed(Align(x), c.full)
           /\ Morning(c)!RankScore(x) \in Int
<1> DEFINE a == Conf(x) - c.floor
           g == 100 - c.floor
           F == c.full
           l == Align(x)
           k == Squashed(l, F)
<1>1. /\ a \in Int /\ g \in Int /\ F \in Int /\ l \in Int /\ k \in Int /\ 0 < F
      /\ 0 <= a /\ a <= g /\ 0 <= g
  BY DEF IsDesk, IsCandidate, Squashed
<1>2. Morning(c)!RankScore(x) = 7 * F * Morning(c)!Clamp(a, 0, g) + 3 * g * Morning(c)!Clamp(l, -F, F)
  BY Zenon DEF Morning!RankScore, Conf, Align
<1> HIDE DEF a, g, F, l
<1>3. Morning(c)!Clamp(a, 0, g) = a
  <2>1. Morning(c)!Clamp(a, 0, g) = IF a < 0 THEN 0 ELSE IF a > g THEN g ELSE a
    BY <1>1, ClampIs
  <2>2. QED BY <1>1, <2>1
<1>4. Morning(c)!Clamp(l, -F, F) = k
  <2>1. -F \in Int /\ -F <= F
    BY <1>1
  <2>2. QED BY <1>1, <2>1, ClampIs DEF Squashed
<1> HIDE DEF k
<1>5. Morning(c)!RankScore(x) = 7 * F * a + 3 * g * k
  BY <1>2, <1>3, <1>4, Zenon
<1>6. 7 * F * a + 3 * g * k \in Int
  BY <1>1
<1>7. QED BY <1>5, <1>6 DEF a, g, F, k, l

\* Alignment settles only what confidence leaves.
LEMMA LeadOutweighs ==
    ASSUME NEW F \in Nat, F # 0, NEW g \in Nat, g # 0, NEW a \in Int, NEW b \in Int, NEW k \in Int, NEW l \in Int,
           -F <= k, k <= F, -F <= l, l <= F,
           7 * F * a + 3 * g * k >= 7 * F * b + 3 * g * l
    PROVE  /\ 7 * (b - a) <= 6 * g
           /\ a = b => ~(k < 0 /\ l >= 0)
<1>1. F * (7 * (b - a)) <= 3 * (g * (k - l))
  OBVIOUS
<1>2. g * (k - l) <= g * (2 * F)
  <2>1. k - l <= 2 * F
    OBVIOUS
  <2>2. QED BY <2>1
<1>3. F * (7 * (b - a)) <= F * (6 * g)
  BY <1>1, <1>2
<1> DEFINE p == 7 * (b - a)
           q == 6 * g
<1>4. p \in Int /\ q \in Int /\ F * p <= F * q
  BY <1>3
<1> HIDE DEF p, q
<1>5. p <= q
  <2>1. ASSUME p >= q + 1 PROVE FALSE
    <3>1. F * p >= F * (q + 1) /\ F * (q + 1) = F * q + F
      BY <1>4, <2>1
    <3>2. QED BY <1>4, <3>1
  <2>2. QED BY <1>4, <2>1
<1>6. ASSUME a = b, k < 0, l >= 0 PROVE FALSE
  <2>1. g * k >= g * l
    BY <1>6
  <2>2. g * k < 0 /\ g * l >= 0
    BY <1>6
  <2>3. QED BY <2>1, <2>2
<1>7. QED BY <1>5, <1>6 DEF p, q

\* Candidates, each of its own name.
IsField(c, n, s) ==
    /\ n \in Nat /\ DOMAIN s = 1..n /\ s = [i \in 1..n |-> s[i]]
    /\ \A i \in 1..n : IsCandidate(c, s[i])
    /\ \A i, j \in 1..n : Name(s[i]) = Name(s[j]) => i = j

Same(s, t, n) ==
    /\ \A i \in 1..n : \E j \in 1..n : s[i] = t[j]
    /\ \A i \in 1..n : \E j \in 1..n : t[i] = s[j]

\* Best first is an order of the positions, and none before a better one.
LEMMA BestFirstRanks ==
    ASSUME NEW c, IsDesk(c), NEW n, NEW s, IsField(c, n, s)
    PROVE  /\ IsOrder(1..n, Morning(c)!BestFirst(s))
           /\ \A i, j \in 1..n : <<i, j>> \in Morning(c)!BestFirst(s) =>
                Morning(c)!RankScore(s[i]) >= Morning(c)!RankScore(s[j])
<1> DEFINE R == Morning(c)!BestFirst(s)
           v(i) == Morning(c)!RankScore(s[i])
<1>1. n \in Nat /\ DOMAIN s = 1..n /\ \A i \in 1..n : v(i) \in Int
  BY RankIs DEF IsField
<1>2. \A i, j \in 1..n : <<i, j>> \in R <=> v(i) > v(j) \/ (~(v(j) > v(i)) /\ i < j)
  <2> DEFINE all == DOMAIN s
  <2>1. R = {p \in all \X all : v(p[1]) > v(p[2]) \/ (~(v(p[2]) > v(p[1])) /\ p[1] < p[2])}
    BY Zenon DEF Morning!BestFirst
  <2> HIDE DEF R, v
  <2>2. QED BY <1>1, <2>1
<1> HIDE DEF R, v
<1>3. ASSUME NEW x \in 1..n, NEW y \in 1..n, NEW z \in 1..n
      PROVE  /\ <<x, x>> \notin R
             /\ <<x, y>> \in R /\ <<y, z>> \in R => <<x, z>> \in R
             /\ x # y => <<x, y>> \in R \/ <<y, x>> \in R
             /\ <<x, y>> \in R => v(x) >= v(y)
  BY <1>1, <1>2
<1>4. QED BY <1>3 DEF IsOrder, R, v

\* The ranking: the same candidates, none before a better one.
LEMMA RankedIs ==
    ASSUME NEW c, IsDesk(c), NEW n, NEW s, IsField(c, n, s)
    PROVE  /\ IsField(c, n, Morning(c)!Ranked(s)) /\ Same(Morning(c)!Ranked(s), s, n)
           /\ \A i, j \in 1..n : i < j =>
                Morning(c)!RankScore(Morning(c)!Ranked(s)[i]) >= Morning(c)!RankScore(Morning(c)!Ranked(s)[j])
<1> DEFINE R == Morning(c)!BestFirst(s)
           at == Morning(c)!InOrder(1..n, R)
           r == Morning(c)!Ranked(s)
           v(x) == Morning(c)!RankScore(x)
<1>1. n \in Nat /\ DOMAIN s = 1..n /\ IsFiniteSet(1..n) /\ Cardinality(1..n) = n
  BY FS_Interval DEF IsField
<1>2. r = [i \in DOMAIN at |-> s[at[i]]]
  <2>1. r = [i \in DOMAIN Morning(c)!InOrder(DOMAIN s, R) |-> s[Morning(c)!InOrder(DOMAIN s, R)[i]]]
    BY Zenon DEF Morning!Ranked
  <2>2. Morning(c)!InOrder(DOMAIN s, R) = at
    BY <1>1, Zenon
  <2> DEFINE d == Morning(c)!InOrder(DOMAIN s, R)
  <2> HIDE DEF d, r, at
  <2>3. r = [i \in DOMAIN d |-> s[d[i]]] /\ d = at
    BY <2>1, <2>2, Zenon DEF d
  <2>4. QED BY <2>3
<1>3. IsOrder(1..n, R) /\ \A i, j \in 1..n : <<i, j>> \in R => v(s[i]) >= v(s[j])
  BY BestFirstRanks
<1>4. /\ DOMAIN at = 1..n /\ \A i \in 1..n : at[i] \in 1..n
      /\ \A x \in 1..n : \E i \in 1..n : at[i] = x
      /\ \A i, j \in 1..n : i < j => <<at[i], at[j]>> \in R
  <2>1. /\ DOMAIN at = 1..Cardinality(1..n) /\ \A i \in DOMAIN at : at[i] \in 1..n
        /\ \A x \in 1..n : \E i \in DOMAIN at : at[i] = x
        /\ \A i, j \in DOMAIN at : i < j => <<at[i], at[j]>> \in R
    BY <1>1, <1>3, ListedIs
  <2> HIDE DEF at
  <2>2. QED BY <1>1, <2>1
<1> HIDE DEF at, R, r, v
<1>5. DOMAIN r = 1..n /\ r = [i \in 1..n |-> r[i]] /\ \A i \in 1..n : r[i] = s[at[i]]
  BY <1>2, <1>4
<1>6. ASSUME NEW i \in 1..n, NEW j \in 1..n, at[i] = at[j] PROVE i = j
  <2>1. <<at[i], at[i]>> \notin R
    BY <1>3, <1>4 DEF IsOrder
  <2>2. ~(i < j) /\ ~(j < i)
    BY <1>4, <1>6, <2>1
  <2>3. QED BY <2>2
<1>7. IsField(c, n, r)
  <2>1. \A i \in 1..n : IsCandidate(c, r[i])
    BY <1>4, <1>5 DEF IsField
  <2>2. ASSUME NEW i \in 1..n, NEW j \in 1..n, Name(r[i]) = Name(r[j]) PROVE i = j
    <3>1. Name(s[at[i]]) = Name(s[at[j]]) /\ at[i] \in 1..n /\ at[j] \in 1..n
      BY <1>4, <1>5, <2>2
    <3>2. at[i] = at[j]
      BY <3>1 DEF IsField
    <3>3. QED BY <1>6, <3>2
  <2>3. QED BY <1>1, <1>5, <2>1, <2>2 DEF IsField
<1>8. Same(r, s, n)
  <2>1. ASSUME NEW i \in 1..n PROVE \E j \in 1..n : s[i] = r[j]
    <3>1. PICK j \in 1..n : at[j] = i
      BY <1>4
    <3>2. QED BY <1>5, <3>1
  <2>2. \A i \in 1..n : \E j \in 1..n : r[i] = s[j]
    BY <1>4, <1>5
  <2>3. QED BY <2>1, <2>2 DEF Same
<1>9. ASSUME NEW i \in 1..n, NEW j \in 1..n, i < j PROVE v(r[i]) >= v(r[j])
  BY <1>3, <1>4, <1>5, <1>9
<1>10. QED BY <1>7, <1>8, <1>9 DEF r, v

\* A listing is a sequence.
LEMMA ListIsSequence ==
    ASSUME NEW n \in Nat, NEW S, NEW s \in [1..n -> S]
    PROVE  s \in Seq(S) /\ Len(s) = n
OBVIOUS

\* Of those before it in the list, the ones of its sector; and who is kept for having few.
Prior(c, r, x) == {k \in 1..(x - 1) : c.sector[Name(r[k])] = c.sector[Name(r[x])]}
Few(c, r, n) == {x \in 1..n : Cardinality(Prior(c, r, x)) < c.sectorCap}

\* h lists, in order, m positions of a list.
Takes(h, m, n) ==
    /\ m \in Nat /\ h \in [1..m -> 1..n]
    /\ \A i, j \in 1..m : i < j => h[i] < h[j]

Taken(h, q, t, r, K) ==
    /\ \A i \in 1..q : h[i] \in K
    /\ \A x \in K : \E i \in 1..q : h[i] = x
    /\ DOMAIN t = 1..q /\ t = [i \in 1..q |-> t[i]] /\ \A i \in 1..q : t[i] = r[h[i]]

\* Some positions of a list, picked, are what stands there in their order.
LEMMA PickedIs ==
    ASSUME NEW c, NEW n \in Nat, NEW r, NEW K, K \subseteq 1..n
    PROVE  \E q, h : Takes(h, q, n) /\ Taken(h, q, Morning(c)!Picked(r, K), r, K)
<1> DEFINE t == Morning(c)!Picked(r, K)
           at == Morning(c)!InOrder(K, Ascending(K))
<1>1. K \subseteq Nat /\ IsFiniteSet(K)
  <2>1. IsFiniteSet(1..n) /\ K \in SUBSET (1..n)
    BY FS_Interval
  <2>2. IsFiniteSet(K)
    BY <2>1, FS_Subset, Zenon
  <2>3. QED BY <2>2
<1>2. t = [i \in DOMAIN at |-> r[at[i]]]
  BY Zenon DEF Morning!Picked, Ascending
<1>3. /\ DOMAIN at = 1..Cardinality(K) /\ \A i \in DOMAIN at : at[i] \in K
      /\ \A x \in K : \E i \in DOMAIN at : at[i] = x
      /\ \A i, j \in DOMAIN at : i < j => at[i] < at[j]
  BY <1>1, PositionsListed
<1> DEFINE q == Cardinality(K)
           h == [i \in 1..q |-> at[i]]
<1>4. q \in Nat
  BY <1>1, FS_CardinalityType
<1> HIDE DEF q, at, t
<1>5. /\ DOMAIN at = 1..q /\ \A i \in 1..q : at[i] \in K
      /\ \A x \in K : \E i \in 1..q : at[i] = x
      /\ \A i, j \in 1..q : i < j => at[i] < at[j]
  BY <1>3 DEF q
<1>6. DOMAIN t = 1..q /\ t = [i \in 1..q |-> t[i]] /\ \A i \in 1..q : t[i] = r[at[i]]
  BY <1>2, <1>5
<1>7. \A i \in 1..q : h[i] = at[i]
  OBVIOUS
<1>8. h \in [1..q -> 1..n]
  BY <1>5
<1> HIDE DEF h
<1>9. Takes(h, q, n)
  BY <1>4, <1>5, <1>7, <1>8 DEF Takes
<1>10. Taken(h, q, t, r, K)
  BY <1>5, <1>6, <1>7 DEF Taken
<1>11. QED BY <1>9, <1>10 DEF t

Kept(c, r, n) == IF c.sectorCap > 0 THEN Few(c, r, n) ELSE 1..n

\* What is left when the sectors are capped: who has few of its own before it.
LEMMA CapIs ==
    ASSUME NEW c, IsDesk(c), NEW n, NEW r, IsField(c, n, r)
    PROVE  \E q, h : Takes(h, q, n) /\ Taken(h, q, Morning(c)!CapPerSector(r), r, Kept(c, r, n))
<1> DEFINE t == Morning(c)!CapPerSector(r)
           K == Kept(c, r, n)
<1>1. n \in Nat /\ DOMAIN r = 1..n /\ r = [i \in 1..n |-> r[i]] /\ c.sectorCap \in Int
  BY DEF IsField, IsDesk
<1>2. CASE c.sectorCap > 0
  <2> DEFINE prior(x) == {k \in 1..(x - 1) : c.sector[Name(r[k])] = c.sector[Name(r[x])]}
             few == {x \in DOMAIN r : Morning(c)!Cardinality(prior(x)) < c.sectorCap}
  <2>1. t = IF c.sectorCap <= 0 THEN r ELSE Morning(c)!Picked(r, few)
    BY Zenon DEF Morning!CapPerSector, Name
  <2>2. few = K
    <3>1. \A x : Morning(c)!Cardinality(prior(x)) = Cardinality(Prior(c, r, x))
      BY SameLibrary, Zenon DEF Prior
    <3> HIDE DEF prior
    <3>2. QED BY <1>1, <1>2, <3>1 DEF Few, Kept
  <2> HIDE DEF few, t
  <2>3. t = Morning(c)!Picked(r, K)
    BY <1>1, <1>2, <2>1, <2>2
  <2>4. K \subseteq 1..n
    BY <1>2 DEF Kept, Few
  <2> HIDE DEF K
  <2>5. \E q, h : Takes(h, q, n) /\ Taken(h, q, Morning(c)!Picked(r, K), r, K)
    BY <1>1, <2>4, PickedIs
  <2>6. QED BY <2>3, <2>5, Zenon DEF t, K
<1>3. CASE ~(c.sectorCap > 0)
  <2> DEFINE h == [i \in 1..n |-> i]
  <2>1. t = r
    <3>1. c.sectorCap <= 0
      BY <1>1, <1>3
    <3>2. QED BY <3>1, Zenon DEF Morning!CapPerSector
  <2>2. Takes(h, n, n) /\ \A i \in 1..n : h[i] = i
    BY <1>1 DEF Takes
  <2> HIDE DEF h, t
  <2>3. Taken(h, n, t, r, K)
    BY <1>1, <1>3, <2>1, <2>2 DEF Taken, Kept
  <2>4. QED BY <2>2, <2>3 DEF t
<1>4. QED BY <1>2, <1>3

Least(k, q) == IF k < q THEN k ELSE q

\* The first so many of a list.
LEMMA FirstsOfIs ==
    ASSUME NEW c, NEW k \in Nat, NEW q \in Nat, NEW s, DOMAIN s = 1..q, s = [i \in DOMAIN s |-> s[i]]
    PROVE  Morning(c)!Firsts(s, k) = [i \in 1..Least(k, q) |-> s[i]]
<1> DEFINE m == Least(k, q)
           S == {s[i] : i \in 1..q}
           least == Morning(c)!Min({k, Len(s)})
<1>1. s \in Seq(S) /\ Len(s) = q
  <2>1. s \in [1..q -> S]
    OBVIOUS
  <2> HIDE DEF S
  <2>2. QED BY <2>1, ListIsSequence
<1>2. IsFiniteSet({k, q}) /\ {k, q} \subseteq Int /\ {k, q} # {}
  <2> DEFINE one == {k}
             two == {k, q}
  <2>1. two = one \cup {q} /\ two \subseteq Int /\ two # {}
    OBVIOUS
  <2>2. IsFiniteSet(one)
    BY FS_Singleton, Zenon
  <2> HIDE DEF one, two
  <2>3. IsFiniteSet(one \cup {q})
    BY <2>2, FS_AddElement
  <2>4. IsFiniteSet(two)
    BY <2>1, <2>3
  <2>5. QED BY <2>1, <2>4 DEF two
<1>3. least = m
  <2> DEFINE b == Morning(c)!Min({k, q})
  <2>1. b \in {k, q} /\ \A y \in {k, q} : b <= y
    BY <1>2, EndsOf
  <2>2. least = b
    BY <1>1
  <2> HIDE DEF b, least
  <2>3. QED BY <2>1, <2>2 DEF Least
<1>4. Morning(c)!Firsts(s, k) = SubSeq(s, 1, least)
  BY Zenon DEF Morning!Firsts
<1> HIDE DEF least, S
<1>5. m \in Nat /\ m <= q
  BY DEF Least
<1> HIDE DEF m
<1>6. SubSeq(s, 1, m) = [i \in 1..m |-> s[i]]
  BY <1>1, <1>5
<1>7. QED BY <1>3, <1>4, <1>6 DEF m

\* What is shown, as positions in the ranking: of those who are kept the first.
Leads(h, m, K, most) ==
    /\ \A i \in 1..m : h[i] \in K
    /\ \A k \in K : (\E i \in 1..m : h[i] = k) \/ (m = most /\ \A i \in 1..m : h[i] < k)

Displays(c, t, m, h, r, n) ==
    /\ Takes(h, m, n) /\ Leads(h, m, Kept(c, r, n), c.most)
    /\ t = [i \in 1..m |-> r[h[i]]]

\* The shown, as positions of the ranking.
LEMMA ShownIs ==
    ASSUME NEW c, IsDesk(c), NEW n, NEW s, IsField(c, n, s)
    PROVE  \E m, h : Displays(c, Morning(c)!Shown(s), m, h, Morning(c)!Ranked(s), n)
<1> DEFINE r == Morning(c)!Ranked(s)
           t == Morning(c)!Shown(s)
           u == Morning(c)!CapPerSector(r)
           K == Kept(c, r, n)
           most == c.most
<1>1. t = Morning(c)!Firsts(u, most)
  BY Zenon DEF Morning!Shown
<1>2. IsField(c, n, r)
  BY RankedIs
<1>3. most \in Nat
  BY DEF IsDesk
<1> HIDE DEF r, t, most
<1>4. PICK q, g : Takes(g, q, n) /\ Taken(g, q, u, r, K)
  BY <1>2, CapIs
<1> DEFINE m == Least(most, q)
           h == [i \in 1..m |-> g[i]]
<1> HIDE DEF K, u
<1>5. /\ q \in Nat /\ g \in [1..q -> 1..n] /\ (\A i, j \in 1..q : i < j => g[i] < g[j])
      /\ (\A i \in 1..q : g[i] \in K) /\ (\A x \in K : \E i \in 1..q : g[i] = x)
  BY <1>4 DEF Takes, Taken
<1>6. DOMAIN u = 1..q /\ u = [i \in DOMAIN u |-> u[i]] /\ \A i \in 1..q : u[i] = r[g[i]]
  BY <1>4 DEF Taken
<1>7. m \in Nat /\ m <= q
  BY <1>3, <1>5 DEF Least
<1>8. t = [i \in 1..m |-> u[i]]
  <2>1. q \in Nat /\ DOMAIN u = 1..q /\ u = [i \in DOMAIN u |-> u[i]]
    BY <1>5, <1>6
  <2>2. Morning(c)!Firsts(u, most) = [i \in 1..m |-> u[i]]
    BY <1>3, <2>1, FirstsOfIs DEF m
  <2>3. QED BY <1>1, <2>2
<1>9. most >= q => m = q
  BY <1>3, <1>5 DEF Least
<1>10. most < q => m = most
  BY <1>3, <1>5 DEF Least
<1> HIDE DEF m
<1>11. h \in [1..m -> 1..n] /\ \A i \in 1..m : i \in 1..q /\ h[i] = g[i]
  BY <1>5, <1>7
<1> HIDE DEF h
<1>12. Takes(h, m, n)
  BY <1>5, <1>7, <1>11 DEF Takes
<1>13. ASSUME NEW k \in K PROVE (\E i \in 1..m : h[i] = k) \/ (m = most /\ \A i \in 1..m : h[i] < k)
  <2>1. PICK j \in 1..q : g[j] = k
    BY <1>5
  <2>2. CASE j <= m
    <3>1. j \in 1..m
      BY <1>7, <2>2
    <3>2. QED BY <1>11, <2>1, <3>1
  <2>3. CASE m < j
    <3>1. m = most
      BY <1>3, <1>5, <1>7, <1>9, <1>10, <2>3
    <3>2. \A i \in 1..m : i < j /\ h[i] = g[i] /\ i \in 1..q
      BY <1>7, <1>11, <2>3
    <3>3. QED BY <1>5, <2>1, <3>1, <3>2
  <2>4. QED BY <1>7, <2>2, <2>3
<1>14. Leads(h, m, K, most)
  BY <1>5, <1>11, <1>13 DEF Leads
<1>15. t = [i \in 1..m |-> r[h[i]]]
  BY <1>6, <1>8, <1>11
<1>16. Displays(c, t, m, h, r, n)
  BY <1>8, <1>12, <1>14, <1>15 DEF Displays, K, most
<1>17. QED BY <1>16 DEF r, t

IsRanked(c, m, t) == \A i, j \in 1..m : i < j => Morning(c)!RankScore(t[i]) >= Morning(c)!RankScore(t[j])

\* Whoever is shown is a candidate, and stands by the ranking.
LEMMA ShownAre ==
    ASSUME NEW c, IsDesk(c), NEW n, NEW s, IsField(c, n, s)
    PROVE  \E m : /\ IsField(c, m, Morning(c)!Shown(s))
                 /\ IsRanked(c, m, Morning(c)!Shown(s))
<1> DEFINE r == Morning(c)!Ranked(s)
           t == Morning(c)!Shown(s)
           v(x) == Morning(c)!RankScore(x)
<1>1. PICK m, h : Displays(c, t, m, h, r, n)
  BY ShownIs
<1>2. /\ IsField(c, n, r) /\ Same(r, s, n)
      /\ \A i, j \in 1..n : i < j => v(r[i]) >= v(r[j])
  BY RankedIs, Zenon
<1> HIDE DEF r, t, v
<1>3. /\ m \in Nat /\ h \in [1..m -> 1..n] /\ \A i, j \in 1..m : i < j => h[i] < h[j]
      /\ t = [i \in 1..m |-> r[h[i]]]
  BY <1>1 DEF Displays, Takes
<1>4. ASSUME NEW i \in 1..m PROVE IsCandidate(c, t[i]) /\ \E j \in 1..n : t[i] = s[j]
  <2>1. h[i] \in 1..n /\ t[i] = r[h[i]]
    BY <1>3
  <2>2. IsCandidate(c, r[h[i]])
    BY <1>2, <2>1 DEF IsField
  <2>3. \E j \in 1..n : r[h[i]] = s[j]
    BY <1>2, <2>1 DEF Same
  <2>4. QED BY <2>1, <2>2, <2>3
<1>5. ASSUME NEW i \in 1..m, NEW j \in 1..m, Name(t[i]) = Name(t[j]) PROVE i = j
  <2>1. h[i] \in 1..n /\ h[j] \in 1..n /\ Name(r[h[i]]) = Name(r[h[j]])
    BY <1>3, <1>5
  <2>2. h[i] = h[j]
    BY <1>2, <2>1 DEF IsField
  <2>3. ~(i < j) /\ ~(j < i)
    BY <1>3, <2>1, <2>2
  <2>4. QED BY <1>3, <2>3
<1>6. \A i, j \in 1..m : i < j => v(t[i]) >= v(t[j])
  BY <1>2, <1>3
<1>7. IsField(c, m, t)
  <2>1. DOMAIN t = 1..m /\ t = [i \in 1..m |-> t[i]]
    BY <1>3
  <2>2. QED BY <1>3, <1>4, <1>5, <2>1 DEF IsField
<1>8. IsRanked(c, m, t)
  BY <1>6 DEF IsRanked, v
<1>9. QED BY <1>7, <1>8 DEF t

\* No overnight move lifts a candidate over one whose confidence is well ahead.
THEOREM ConvictionFirst ==
    ASSUME NEW c, IsDesk(c), NEW n, NEW s, IsField(c, n, s)
    PROVE  Morning(c)!ConvictionOutranks(s)
<1> DEFINE t == Morning(c)!Shown(s)
           v(x) == Morning(c)!RankScore(x)
<1>1. PICK m : IsField(c, m, t) /\ IsRanked(c, m, t)
  BY ShownAre, Zenon
<1>2. ASSUME NEW x, IsCandidate(c, x), NEW y, IsCandidate(c, y), v(x) >= v(y)
      PROVE  /\ 7 * (Conf(y) - Conf(x)) <= 6 * (100 - c.floor)
             /\ Conf(x) = Conf(y) => ~(Align(x) < 0 /\ Align(y) >= 0)
  <2> DEFINE F == c.full
             g == 100 - c.floor
             a == Conf(x) - c.floor
             b == Conf(y) - c.floor
             k == Squashed(Align(x), F)
             l == Squashed(Align(y), F)
  <2>1. F \in Nat /\ F # 0 /\ g \in Nat /\ g # 0 /\ c.floor \in Int
    BY DEF IsDesk
  <2>2. a \in Int /\ b \in Int /\ Conf(x) \in Int /\ Conf(y) \in Int /\ Align(x) \in Int /\ Align(y) \in Int
    BY <1>2, <2>1 DEF IsCandidate
  <2>3. /\ k \in Int /\ l \in Int /\ -F <= k /\ k <= F /\ -F <= l /\ l <= F
        /\ (Align(x) < 0 <=> k < 0) /\ (Align(y) >= 0 <=> l >= 0)
    BY <2>1, <2>2 DEF Squashed
  <2>4. 7 * F * a + 3 * g * k >= 7 * F * b + 3 * g * l
    BY <1>2, RankIs
  <2>5. b - a = Conf(y) - Conf(x) /\ (Conf(x) = Conf(y) => a = b)
    BY <2>1, <2>2
  <2> HIDE DEF F, g, a, b, k, l
  <2>6. 7 * (b - a) <= 6 * g /\ (a = b => ~(k < 0 /\ l >= 0))
    BY <2>1, <2>2, <2>3, <2>4, LeadOutweighs
  <2>7. QED BY <2>3, <2>5, <2>6 DEF g
<1> HIDE DEF t, v
<1>3. ASSUME NEW i \in DOMAIN t, NEW j \in DOMAIN t, i < j
      PROVE  /\ 7 * (Conf(t[j]) - Conf(t[i])) <= 6 * (100 - c.floor)
             /\ Conf(t[i]) = Conf(t[j]) => ~(Align(t[i]) < 0 /\ Align(t[j]) >= 0)
  <2>1. IsCandidate(c, t[i]) /\ IsCandidate(c, t[j])
    BY <1>1 DEF IsField
  <2>2. v(t[i]) >= v(t[j])
    BY <1>1, <1>3 DEF IsField, IsRanked, v
  <2>3. QED BY <1>2, <2>1, <2>2
<1>4. QED BY <1>3, Zenon DEF Morning!ConvictionOutranks, t, Conf, Align

\* Of those kept in one sector there are no more than the cap.
LEMMA KeptAreFew ==
    ASSUME NEW c, NEW r, NEW n \in Nat, c.sectorCap \in Int, c.sectorCap > 0,
           NEW A, A \subseteq Few(c, r, n),
           \A x, y \in A : c.sector[Name(r[x])] = c.sector[Name(r[y])]
    PROVE  IsFiniteSet(A) /\ Cardinality(A) <= c.sectorCap
<1>1. A \subseteq 1..n /\ A \subseteq Int /\ IsFiniteSet(A)
  <2>1. IsFiniteSet(1..n) /\ A \in SUBSET (1..n)
    BY FS_Interval DEF Few
  <2>2. IsFiniteSet(A)
    BY <2>1, FS_Subset, Zenon
  <2>3. QED BY <2>1, <2>2
<1>2. CASE A = {}
  BY <1>1, <1>2, FS_EmptySet
<1>3. CASE A # {}
  <2> DEFINE a == Morning(c)!Max(A)
             P == Prior(c, r, a)
  <2>1. a \in A /\ \A y \in A : a >= y
    BY <1>1, <1>3, EndsOf
  <2> HIDE DEF a
  <2>2. A \ {a} \subseteq P
    BY <1>1, <2>1 DEF Prior
  <2>3. Cardinality(P) < c.sectorCap
    BY <2>1 DEF Few
  <2>4. IsFiniteSet(P)
    <3>1. a \in Int /\ a - 1 \in Int /\ P \in SUBSET (1..(a - 1))
      BY <1>1, <2>1 DEF Prior
    <3>2. IsFiniteSet(1..(a - 1))
      BY <3>1, FS_Interval
    <3>3. QED BY <3>1, <3>2, FS_Subset, Zenon
  <2> HIDE DEF P
  <2>5. Cardinality(A \ {a}) <= Cardinality(P) /\ Cardinality(P) \in Nat
    BY <2>2, <2>4, FS_Subset, FS_CardinalityType
  <2>6. Cardinality(A \ {a}) = Cardinality(A) - 1 /\ Cardinality(A) \in Nat
    BY <1>1, <2>1, FS_RemoveElement, FS_CardinalityType
  <2>7. QED BY <1>1, <2>3, <2>5, <2>6
<1>4. QED BY <1>2, <1>3

\* Whoever is not kept stands behind as many of its sector who are.
LEMMA DroppedIsBehind ==
    ASSUME NEW c, NEW r, NEW n \in Nat, c.sectorCap \in Int, c.sectorCap > 0,
           NEW x \in 1..n, x \notin Few(c, r, n)
    PROVE  LET A == Prior(c, r, x) \cap Few(c, r, n) IN
           IsFiniteSet(A) /\ Cardinality(A) >= c.sectorCap
<1> DEFINE P == Prior(c, r, x)
           A == P \cap Few(c, r, n)
           B == P \ A
           b == Morning(c)!Min(B)
           Q == Prior(c, r, b)
<1>1. P \subseteq 1..n /\ (\A y \in P : y < x /\ c.sector[Name(r[y])] = c.sector[Name(r[x])])
  BY DEF Prior
<1>2. IsFiniteSet(P)
  <2>1. IsFiniteSet(1..n) /\ P \in SUBSET (1..n)
    BY <1>1, FS_Interval
  <2>2. QED BY <2>1, FS_Subset, Zenon
<1>3. IsFiniteSet(A) /\ IsFiniteSet(B) /\ B \subseteq Int
  <2>1. A \in SUBSET P /\ B \in SUBSET P
    OBVIOUS
  <2>2. QED BY <1>1, <1>2, <2>1, FS_Subset
<1>4. Cardinality(P) \in Nat /\ Cardinality(A) \in Nat
  BY <1>2, <1>3, FS_CardinalityType
<1>5. Cardinality(P) >= c.sectorCap
  BY <1>4 DEF Few
<1>6. ASSUME Cardinality(A) < c.sectorCap PROVE FALSE
  <2>1. B # {}
    <3>1. ASSUME B = {} PROVE A = P
      BY <3>1
    <3>2. QED BY <1>4, <1>5, <1>6, <3>1
  <2>2. b \in B /\ \A y \in B : b <= y
    BY <1>3, <2>1, EndsOf
  <2>3. b \in P /\ b \notin Few(c, r, n)
    BY <2>2
  <2> HIDE DEF b
  <2>4. b \in 1..n /\ b < x /\ c.sector[Name(r[b])] = c.sector[Name(r[x])]
    BY <1>1, <2>3
  <2>5. Q \subseteq P /\ \A y \in Q : y < b /\ y \in Int
    BY <2>4 DEF Prior
  <2>6. Q \subseteq A
    <3>1. ASSUME NEW y \in Q, y \notin A PROVE FALSE
      <4>1. y \in B /\ y < b
        BY <2>5, <3>1
      <4>2. b <= y /\ b \in Int /\ y \in Int
        BY <1>3, <2>2, <4>1
      <4>3. QED BY <4>1, <4>2
    <3>2. QED BY <3>1
  <2> HIDE DEF Q, A
  <2>7. Cardinality(Q) <= Cardinality(A) /\ Cardinality(Q) \in Nat
    BY <1>3, <2>6, FS_Subset, FS_CardinalityType
  <2>8. Cardinality(Q) < c.sectorCap
    BY <1>4, <1>6, <2>7
  <2>9. QED BY <2>3, <2>4, <2>8 DEF Few, Q
<1>7. QED BY <1>3, <1>4, <1>6

\* The candidates at some positions.
At(r, A) == {r[x] : x \in A}

\* As many candidates as positions: no two are the same.
LEMMA AsMany ==
    ASSUME NEW c, NEW n, NEW r, IsField(c, n, r), NEW A \in SUBSET (1..n)
    PROVE  IsFiniteSet(A) /\ IsFiniteSet(At(r, A)) /\ Cardinality(At(r, A)) = Cardinality(A)
<1> DEFINE f == [x \in A |-> r[x]]
<1>1. IsFiniteSet(A)
  <2>1. IsFiniteSet(1..n) /\ A \in SUBSET (1..n)
    BY FS_Interval DEF IsField
  <2>2. QED BY <2>1, FS_Subset, Zenon
<1>2. \A x, y \in A : r[x] = r[y] => x = y
  BY DEF IsField
<1>3. f \in Bijection(A, At(r, A))
  BY <1>2 DEF At, Bijection, Injection, Surjection, IsInjective
<1>4. ExistsBijection(A, At(r, A))
  BY <1>3, Zenon DEF ExistsBijection
<1>5. QED BY <1>1, <1>4, FS_Bijection, Zenon

Shares(c, d, S) == {x \in S : c.sector[Name(x)] = c.sector[Name(d)]}
Betters(c, d, S) == {x \in S : Morning(c)!RankScore(x) >= Morning(c)!RankScore(d)}

\* The shown are those at the positions taken, as many as were taken.
LEMMA ShownAt ==
    ASSUME NEW c, IsDesk(c), NEW n, NEW s, IsField(c, n, s), c.sectorCap > 0
    PROVE  LET r == Morning(c)!Ranked(s)
               t == Morning(c)!Shown(s)
           IN \E H, m :
                /\ H \subseteq Few(c, r, n) /\ H \subseteq 1..n /\ Range(t) = At(r, H) /\ Cardinality(H) = m
                /\ \A k \in Few(c, r, n) : k \in H \/ (m = c.most /\ \A x \in H : x < k)
<1> DEFINE r == Morning(c)!Ranked(s)
           t == Morning(c)!Shown(s)
           K == Few(c, r, n)
<1>1. PICK m, h : Displays(c, t, m, h, r, n)
  BY ShownIs
<1>2. Kept(c, r, n) = K /\ n \in Nat
  BY DEF Kept, IsField
<1> HIDE DEF r, t, K
<1> DEFINE H == {h[i] : i \in 1..m}
           f == [i \in 1..m |-> h[i]]
<1>3. /\ m \in Nat /\ h \in [1..m -> 1..n] /\ (\A i, j \in 1..m : i < j => h[i] < h[j])
      /\ (\A i \in 1..m : h[i] \in K)
      /\ (\A k \in K : (\E i \in 1..m : h[i] = k) \/ (m = c.most /\ \A i \in 1..m : h[i] < k))
      /\ DOMAIN t = 1..m /\ (\A i \in 1..m : t[i] = r[h[i]])
  BY <1>1, <1>2 DEF Displays, Takes, Leads
<1>4. H \subseteq K /\ H \subseteq 1..n
  BY <1>3
<1>5. Range(t) = At(r, H)
  BY <1>3 DEF Range, At
<1>6. Cardinality(H) = m
  <2>1. ASSUME NEW i \in 1..m, NEW j \in 1..m, h[i] = h[j] PROVE i = j
    BY <1>3, <2>1
  <2>2. f \in Bijection(1..m, H)
    BY <2>1 DEF Bijection, Injection, Surjection, IsInjective
  <2>3. ExistsBijection(1..m, H)
    BY <2>2, Zenon DEF ExistsBijection
  <2>4. IsFiniteSet(1..m) /\ Cardinality(1..m) = m
    BY <1>3, FS_Interval
  <2>5. QED BY <2>3, <2>4, FS_Bijection, Zenon
<1>7. \A k \in K : k \in H \/ (m = c.most /\ \A x \in H : x < k)
  BY <1>3
<1>8. QED BY <1>4, <1>5, <1>6, <1>7 DEF r, t, K

\* A candidate is left out only for its betters, and no sector is shown twice over.
LEMMA SectorsAreCapped ==
    ASSUME NEW c, IsDesk(c), NEW n, NEW s, IsField(c, n, s), c.sectorCap > 0, NEW j \in 1..n
    PROVE  LET d == s[j]
               S == Range(Morning(c)!Shown(s))
           IN /\ Cardinality(Shares(c, d, S)) <= c.sectorCap
              /\ d \in S \/ Cardinality(Betters(c, d, S)) = c.most
                   \/ Cardinality(Shares(c, d, Betters(c, d, S))) = c.sectorCap
<1> DEFINE r == Morning(c)!Ranked(s)
           d == s[j]
           S == Range(Morning(c)!Shown(s))
           K == Few(c, r, n)
           cap == c.sectorCap
           v(x) == Morning(c)!RankScore(r[x])
           z(x) == c.sector[Name(r[x])]
<1>1. PICK H, m :
        /\ H \subseteq K /\ H \subseteq 1..n /\ S = At(r, H) /\ Cardinality(H) = m
        /\ \A k \in K : k \in H \/ (m = c.most /\ \A x \in H : x < k)
  BY ShownAt, Zenon
<1>2. /\ IsField(c, n, r) /\ Same(r, s, n)
      /\ \A x, y \in 1..n : x < y => v(x) >= v(y)
  BY RankedIs, Zenon
<1>3. n \in Nat /\ cap \in Int /\ cap > 0 /\ \A x \in 1..n : v(x) \in Int
  BY <1>2, RankIs DEF IsField, IsDesk
<1>4. PICK x \in 1..n : d = r[x]
  BY <1>2 DEF Same
<1> HIDE DEF r, S, d
<1> DEFINE F(A) == {y \in A : z(y) = z(x)}
           G == {y \in H : v(y) >= v(x)}
<1>5. Shares(c, d, S) = At(r, F(H)) /\ Betters(c, d, S) = At(r, G) /\ Shares(c, d, Betters(c, d, S)) = At(r, F(G))
  <2>1. Betters(c, d, S) = At(r, G)
    BY <1>1, <1>4 DEF Betters, At
  <2>2. Shares(c, d, S) = At(r, F(H))
    BY <1>1, <1>4 DEF Shares, At
  <2>3. Shares(c, d, At(r, G)) = At(r, F(G))
    BY <1>4 DEF Shares, At
  <2>4. QED BY <2>1, <2>2, <2>3
<1>6. \A A \in SUBSET H : IsFiniteSet(A) /\ Cardinality(At(r, A)) = Cardinality(A) /\ Cardinality(F(A)) <= cap
  <2>0. \A A : A \subseteq 1..n => IsFiniteSet(A) /\ Cardinality(At(r, A)) = Cardinality(A)
    <3>1. IsField(c, n, r)
      BY <1>2
    <3> HIDE DEF v, z, F, G, K, cap
    <3>2. ASSUME NEW B, B \subseteq 1..n PROVE IsFiniteSet(B) /\ IsFiniteSet(At(r, B)) /\ Cardinality(At(r, B)) = Cardinality(B)
      BY <3>1, <3>2, AsMany
    <3>3. QED BY <3>2
  <2>1. SUFFICES ASSUME NEW A \in SUBSET H
                 PROVE  IsFiniteSet(A) /\ Cardinality(At(r, A)) = Cardinality(A) /\ Cardinality(F(A)) <= cap
    OBVIOUS
  <2>2. A \subseteq 1..n /\ F(A) \subseteq K /\ \A y, w \in F(A) : z(y) = z(w)
    BY <1>1
  <2>3. IsFiniteSet(A) /\ Cardinality(At(r, A)) = Cardinality(A)
    BY <2>0, <2>2, Zenon
  <2>4. Cardinality(F(A)) <= cap
    BY <1>3, <2>2, KeptAreFew
  <2>5. QED BY <2>3, <2>4
<1>7. F(H) \in SUBSET H /\ G \in SUBSET H /\ F(G) \in SUBSET H
  OBVIOUS
<1>8. Cardinality(Shares(c, d, S)) <= cap
  <2>1. Cardinality(At(r, F(H))) = Cardinality(F(H)) /\ Cardinality(F(H)) <= cap
    BY <1>6, <1>7
  <2>2. QED BY <1>5, <2>1
<1>9. ASSUME m = c.most, \A y \in H : y < x PROVE Cardinality(Betters(c, d, S)) = c.most
  <2>1. G = H
    BY <1>1, <1>2, <1>9
  <2>2. Cardinality(At(r, H)) = m
    BY <1>1, <1>6
  <2>3. QED BY <1>5, <1>9, <2>1, <2>2
<1>10. ASSUME d \notin S PROVE \/ Cardinality(Betters(c, d, S)) = c.most
                               \/ Cardinality(Shares(c, d, Betters(c, d, S))) = cap
  <2>1. x \notin H
    BY <1>1, <1>4, <1>10 DEF At
  <2>2. CASE x \in K
    BY <1>1, <1>9, <2>1, <2>2
  <2>3. CASE x \notin K
    <3> DEFINE A == Prior(c, r, x) \cap K
    <3>1. IsFiniteSet(A) /\ Cardinality(A) >= cap
      BY <1>3, <2>3, DroppedIsBehind
    <3>2. \A y \in A : y \in K /\ y \in 1..n /\ y < x /\ z(y) = z(x)
      BY <1>3 DEF Prior
    <3> HIDE DEF A
    <3>3. CASE A \subseteq H
      <4>1. A \subseteq F(G)
        BY <1>2, <3>2, <3>3
      <4>2. IsFiniteSet(F(G)) /\ Cardinality(At(r, F(G))) = Cardinality(F(G))
        BY <1>6, <1>7
      <4>3. Cardinality(F(G)) <= cap
        BY <1>6, <1>7
      <4> HIDE DEF F, G
      <4>4. Cardinality(A) <= Cardinality(F(G)) /\ Cardinality(A) \in Nat /\ Cardinality(F(G)) \in Nat
        BY <3>1, <4>1, <4>2, FS_Subset, FS_CardinalityType
      <4>5. Cardinality(F(G)) = cap
        BY <1>3, <3>1, <4>3, <4>4
      <4>6. QED BY <1>5, <4>2, <4>5
    <3>4. CASE ~(A \subseteq H)
      <4>1. PICK y \in A : y \notin H
        BY <3>4
      <4>2. m = c.most /\ \A w \in H : w < y
        BY <1>1, <3>2, <4>1
      <4>3. \A w \in H : w < x
        BY <1>1, <3>2, <4>1, <4>2
      <4>4. QED BY <1>9, <4>2, <4>3
    <3>5. QED BY <3>3, <3>4
  <2>4. QED BY <2>2, <2>3
<1>11. QED BY <1>8, <1>10 DEF S, d

\* A candidate is left out only for its betters, whatever was read.
THEOREM BestOfSectors ==
    ASSUME NEW c, IsDesk(c), NEW n, NEW s, IsField(c, n, s)
    PROVE  Morning(c)!BestOfEachSector(s)
<1> DEFINE S == Range(Morning(c)!Shown(s))
<1>1. Morning(c)!Range(Morning(c)!Shown(s)) = S /\ Morning(c)!Range(s) = Range(s)
  BY SameLibrary, Zenon
<1>2. \A A : Morning(c)!Cardinality(A) = Cardinality(A)
  BY SameLibrary, Zenon
<1> HIDE DEF S
<1>3. ASSUME c.sectorCap > 0, NEW d \in Range(s)
      PROVE  /\ Cardinality(Shares(c, d, S)) <= c.sectorCap
             /\ d \in S \/ Cardinality(Betters(c, d, S)) = c.most
                  \/ Cardinality(Shares(c, d, Betters(c, d, S))) = c.sectorCap
  <2>1. PICK j \in 1..n : d = s[j]
    BY <1>3 DEF IsField, Range
  <2>2. QED BY <1>3, <2>1, SectorsAreCapped, Zenon DEF S
<1>4. c.sectorCap > 0 =>
        \A d \in Morning(c)!Range(s) :
            /\ Morning(c)!Cardinality(Shares(c, d, Morning(c)!Range(Morning(c)!Shown(s)))) <= c.sectorCap
            /\ \/ d \in Morning(c)!Range(Morning(c)!Shown(s))
               \/ Morning(c)!Cardinality(Betters(c, d, Morning(c)!Range(Morning(c)!Shown(s)))) = c.most
               \/ Morning(c)!Cardinality(Shares(c, d, Betters(c, d, Morning(c)!Range(Morning(c)!Shown(s))))) = c.sectorCap
  BY <1>1, <1>2, <1>3, Zenon
<1>5. QED BY <1>4, Zenon DEF Morning!BestOfEachSector, Shares, Betters, Name

\* Who of a list rests on a driver.
RestOn(t, e) == {Name(x) : x \in {y \in Range(t) : e \in Why(y)}}

\* The warnings: each driver that more than one rests on.
LEMMA SharedIs ==
    ASSUME NEW c, NEW t
    PROVE  Morning(c)!Shared(t) =
             {[driver |-> e, on |-> RestOn(t, e)] : e \in {d \in c.drivers : Cardinality(RestOn(t, d)) > 1}}
<1> DEFINE S == Morning(c)!Range(t)
           On(e) == {x.symbol : x \in {y \in S : e \in y.context.reasons}}
           said == {e \in c.drivers : Morning(c)!Cardinality(On(e)) > 1}
<1>1. Morning(c)!Shared(t) = {[driver |-> e, on |-> On(e)] : e \in said}
  BY Zenon DEF Morning!Shared
<1>2. \A e : On(e) = RestOn(t, e)
  <2>1. S = Range(t)
    BY SameLibrary, Zenon
  <2>2. QED BY <2>1, Zenon DEF RestOn, Name, Why
<1>3. \A A : Morning(c)!Cardinality(A) = Cardinality(A)
  BY SameLibrary, Zenon
<1> HIDE DEF On
<1>4. said = {d \in c.drivers : Cardinality(RestOn(t, d)) > 1}
  <2>1. \A e : Morning(c)!Cardinality(On(e)) = Cardinality(RestOn(t, e))
    BY <1>2, <1>3, Zenon
  <2>2. QED BY <2>1
<1> HIDE DEF said
<1>5. {[driver |-> e, on |-> On(e)] : e \in said} = {[driver |-> e, on |-> RestOn(t, e)] : e \in said}
  BY <1>2
<1>6. QED BY <1>1, <1>4, <1>5

\* Two that differ are more than one.
LEMMA TwoAreMore ==
    ASSUME NEW S, IsFiniteSet(S), NEW x \in S, NEW y \in S, x # y
    PROVE  Cardinality(S) > 1
<1>1. IsFiniteSet({x}) /\ Cardinality({x}) = 1
  BY FS_Singleton, Zenon
<1>2. IsFiniteSet({x} \cup {y}) /\ Cardinality({x} \cup {y}) = 2
  <2> DEFINE T == {x}
  <2>1. y \notin T
    OBVIOUS
  <2>2. IsFiniteSet(T) /\ Cardinality(T) = 1
    BY <1>1
  <2> HIDE DEF T
  <2>3. IsFiniteSet(T \cup {y}) /\ Cardinality(T \cup {y}) = Cardinality(T) + 1
    BY <2>1, <2>2, FS_AddElement
  <2>4. QED BY <2>2, <2>3 DEF T
<1>3. Cardinality({x} \cup {y}) <= Cardinality(S) /\ Cardinality(S) \in Nat
  <2>1. {x} \cup {y} \in SUBSET S
    OBVIOUS
  <2>2. QED BY <2>1, FS_Subset, FS_CardinalityType
<1>4. QED BY <1>2, <1>3

\* Of a finite list, finitely many rest on a driver.
LEMMA RestOnIsFinite ==
    ASSUME NEW t, NEW m \in Nat, DOMAIN t = 1..m, NEW e
    PROVE  IsFiniteSet(RestOn(t, e))
<1> DEFINE f == [i \in 1..m |-> Name(t[i])]
           N == {Name(t[i]) : i \in 1..m}
<1>1. f \in Surjection(1..m, N) /\ IsFiniteSet(1..m)
  BY FS_Interval DEF Surjection
<1>2. IsFiniteSet(N)
  <2> HIDE DEF f, N
  <2>1. QED BY <1>1, FS_Surjection, Zenon
<1>3. RestOn(t, e) \in SUBSET N
  BY DEF RestOn, Range
<1>4. QED BY <1>2, <1>3, FS_Subset, Zenon

CalledOne(x, y, W) == Why(x) \cap Why(y) # {} <=> \E w \in W : {Name(x), Name(y)} \subseteq w.on

\* Two of the shown that rest on one move are called one bet, and no two others.
LEMMA OneBetIsOne ==
    ASSUME NEW c, IsDesk(c), NEW n, NEW s, IsField(c, n, s),
           NEW x \in Range(Morning(c)!Shown(s)), NEW y \in Range(Morning(c)!Shown(s)), x # y
    PROVE  CalledOne(x, y, Morning(c)!Shared(Morning(c)!Shown(s)))
<1> DEFINE t == Morning(c)!Shown(s)
           W == Morning(c)!Shared(t)
<1>1. PICK m : IsField(c, m, t)
  BY ShownAre, Zenon
<1>2. W = {[driver |-> e, on |-> RestOn(t, e)] : e \in {d \in c.drivers : Cardinality(RestOn(t, d)) > 1}}
  BY SharedIs, Zenon
<1>3. x \in Range(t) /\ y \in Range(t)
  OBVIOUS
<1> HIDE DEF t, W
<1>4. \A e : IsFiniteSet(RestOn(t, e))
  BY <1>1, RestOnIsFinite DEF IsField
<1>5. \A u, v \in Range(t) : Name(u) = Name(v) => u = v
  BY <1>1 DEF Range, IsField
<1>6. \A u \in Range(t) : \A e : Name(u) \in RestOn(t, e) <=> e \in Why(u)
  BY <1>5 DEF RestOn
<1>7. ASSUME NEW e \in Why(x) \cap Why(y) PROVE \E w \in W : {Name(x), Name(y)} \subseteq w.on
  <2>1. e \in c.drivers
    BY <1>1, <1>3, <1>7 DEF Range, IsCandidate, IsField
  <2>2. Name(x) \in RestOn(t, e) /\ Name(y) \in RestOn(t, e) /\ Name(x) # Name(y)
    BY <1>3, <1>5, <1>6
  <2>3. Cardinality(RestOn(t, e)) > 1
    BY <1>4, <2>2, TwoAreMore
  <2>4. [driver |-> e, on |-> RestOn(t, e)] \in W
    BY <1>2, <2>1, <2>3
  <2>5. QED BY <2>2, <2>4
<1>8. ASSUME NEW w \in W, {Name(x), Name(y)} \subseteq w.on PROVE Why(x) \cap Why(y) # {}
  <2>1. PICK e \in c.drivers : w.on = RestOn(t, e)
    BY <1>2
  <2>2. Name(x) \in RestOn(t, e) /\ Name(y) \in RestOn(t, e)
    BY <1>8, <2>1
  <2>3. e \in Why(x) /\ e \in Why(y)
    BY <1>3, <1>6, <2>2
  <2>4. QED BY <2>3
<1>9. CalledOne(x, y, W)
  BY <1>7, <1>8 DEF CalledOne
<1>10. QED BY <1>9 DEF W, t

\* Numbers, by name: the cues that arrived, the drivers that moved.
Numbers(f) == \A x \in DOMAIN f : f[x] \in Int
Betas(sens) == \A x \in DOMAIN sens : sens[x].beta \in Int

\* A distance is a whole number.
LEMMA AbsIs ==
    ASSUME NEW c, NEW x \in Int
    PROVE  Morning(c)!Abs(x) \in Int
BY DEF Morning!Abs

\* The movers are drivers, with their cues.
LEMMA MoversAre ==
    ASSUME NEW c, NEW cues, Numbers(cues)
    PROVE  Numbers(Morning(c)!Movers(cues)) /\ DOMAIN Morning(c)!Movers(cues) \subseteq c.drivers
<1> DEFINE D == {d \in c.drivers \cap DOMAIN cues : Morning(c)!Abs(cues[d]) >= c.threshold}
<1>1. Morning(c)!Movers(cues) = [d \in D |-> cues[d]]
  BY Zenon DEF Morning!Movers
<1>2. D \subseteq c.drivers /\ D \subseteq DOMAIN cues
  OBVIOUS
<1> HIDE DEF D
<1>3. QED BY <1>1, <1>2 DEF Numbers

\* Whatever moves a candidate is a driver, by a whole number.
LEMMA ContextIs ==
    ASSUME NEW c, IsFiniteSet(c.drivers), NEW sens, Betas(sens),
           NEW movers, Numbers(movers), DOMAIN movers \subseteq c.drivers, NEW direction
    PROVE  LET k == Morning(c)!Context(sens, movers, direction) IN
           k.alignment \in Int /\ k.reasons \subseteq c.drivers
<1> DEFINE expected == [d \in DOMAIN movers \cap DOMAIN sens |-> sens[d].beta * movers[d]]
           used == {d \in DOMAIN expected : sens[d].meaningful /\ Morning(c)!Abs(expected[d]) >= c.move}
           total == Morning(c)!Sum(expected, used)
           agrees == (total > 0) <=> (direction = "BUY")
           k == Morning(c)!Context(sens, movers, direction)
<1>1. k = [reasons |-> used, conflict |-> used # {} /\ ~agrees,
           alignment |-> IF agrees THEN Morning(c)!Abs(total) ELSE -Morning(c)!Abs(total)]
  BY Zenon DEF Morning!Context
<1>2. \A d \in DOMAIN expected : expected[d] \in Int
  BY DEF Numbers, Betas
<1>3. used \subseteq DOMAIN expected /\ used \in SUBSET c.drivers
  OBVIOUS
<1> HIDE DEF expected, used
<1>4. IsFiniteSet(used)
  BY <1>3, FS_Subset, Zenon
<1>5. total \in Int
  <2>1. PICK e \in [1..Cardinality(used) -> used], g \in [0..Cardinality(used) -> Int] :
          Adds(g, expected, e, Cardinality(used)) /\ total = g[Cardinality(used)]
    BY <1>2, <1>3, <1>4, SumIs
  <2>2. Cardinality(used) \in Nat
    BY <1>4, FS_CardinalityType
  <2>3. QED BY <2>1, <2>2
<1> HIDE DEF total
<1>6. Morning(c)!Abs(total) \in Int
  BY <1>5, AbsIs
<1> HIDE DEF k, agrees
<1>7. QED BY <1>1, <1>3, <1>6 DEF k

\* The readings of a run: a signal names its symbol once, with the usual confidence.
Readings(c, n, s) ==
    /\ n \in Nat /\ DOMAIN s = 1..n
    /\ \A i \in 1..n : s[i].answer = "signal" => s[i].confidence \in c.floor..100 /\ Betas(s[i].sens)
    /\ \A i, j \in 1..n :
         s[i].answer = "signal" /\ s[j].answer = "signal" /\ s[i].symbol = s[j].symbol => i = j

\* Whatever the readings of a run, its candidates are a field: each named
\* once, with the usual confidence.
LEMMA CandidatesAreField ==
    ASSUME NEW c, IsDesk(c), IsFiniteSet(c.drivers), NEW cues, Numbers(cues), NEW n, NEW s, Readings(c, n, s)
    PROVE  \E q : IsField(c, q, Morning(c)!Candidates(cues, s))
<1> DEFINE K == {i \in 1..n : s[i].answer = "signal"}
           u == Morning(c)!Picked(s, K)
           t == Morning(c)!Candidates(cues, s)
           movers == Morning(c)!Movers(cues)
           context(i) == Morning(c)!Context(u[i].sens, movers, u[i].direction)
<1>1. t = [i \in DOMAIN u |->
             [symbol |-> u[i].symbol, confidence |-> u[i].confidence, direction |-> u[i].direction,
              context |-> context(i)]]
  <2> DEFINE J == {i \in DOMAIN s : s[i].answer = "signal"}
             w == Morning(c)!Picked(s, J)
  <2>1. t = [i \in DOMAIN w |->
               [symbol |-> w[i].symbol, confidence |-> w[i].confidence, direction |-> w[i].direction,
                context |-> Morning(c)!Context(w[i].sens, movers, w[i].direction)]]
    BY Zenon DEF Morning!Candidates
  <2>2. J = K
    BY DEF Readings
  <2> HIDE DEF J, K, movers, t
  <2>3. w = u
    BY <2>2
  <2> HIDE DEF w, u
  <2>4. QED BY <2>1, <2>3
<1>2. PICK q, h : Takes(h, q, n) /\ Taken(h, q, u, s, K)
  <2>1. n \in Nat /\ K \subseteq 1..n
    BY DEF Readings
  <2> HIDE DEF K
  <2>2. QED BY <2>1, PickedIs
<1> HIDE DEF u
<1>3. /\ q \in Nat /\ DOMAIN u = 1..q /\ h \in [1..q -> 1..n]
      /\ \A i \in 1..q : h[i] \in K /\ u[i] = s[h[i]]
      /\ \A i, j \in 1..q : i < j => h[i] < h[j]
  BY <1>2 DEF Takes, Taken
<1>4. \A i \in 1..q : u[i].confidence \in c.floor..100 /\ Betas(u[i].sens)
  BY <1>3 DEF Readings
<1>5. ASSUME NEW i \in 1..q, NEW j \in 1..q, u[i].symbol = u[j].symbol PROVE i = j
  <2>1. h[i] = h[j]
    BY <1>3, <1>5 DEF Readings
  <2>2. n \in Nat /\ h[i] \in 1..n /\ h[j] \in 1..n
    BY <1>3 DEF Readings
  <2>3. ~(i < j) /\ ~(j < i)
    BY <1>3, <2>1, <2>2
  <2>4. QED BY <1>3, <2>3
<1>6. Numbers(movers) /\ DOMAIN movers \subseteq c.drivers
  BY MoversAre
<1> HIDE DEF K, movers
<1>7. \A i \in 1..q : context(i).alignment \in Int /\ context(i).reasons \subseteq c.drivers
  <2>1. SUFFICES ASSUME NEW i \in 1..q
                 PROVE  context(i).alignment \in Int /\ context(i).reasons \subseteq c.drivers
    OBVIOUS
  <2>2. Betas(u[i].sens)
    BY <1>4
  <2>3. QED BY <1>6, <2>2, ContextIs, Zenon
<1> HIDE DEF context, t
<1>8. /\ DOMAIN t = 1..q /\ t = [i \in 1..q |-> t[i]]
      /\ \A i \in 1..q : Conf(t[i]) = u[i].confidence /\ Name(t[i]) = u[i].symbol
                         /\ Align(t[i]) = context(i).alignment /\ Why(t[i]) = context(i).reasons
  BY <1>1, <1>3 DEF Conf, Name, Align, Why
<1>9. \A i \in 1..q : IsCandidate(c, t[i])
  BY <1>4, <1>7, <1>8 DEF IsCandidate
<1>10. \A i, j \in 1..q : Name(t[i]) = Name(t[j]) => i = j
  BY <1>5, <1>8
<1>11. IsField(c, q, t)
  BY <1>3, <1>8, <1>9, <1>10 DEF IsField
<1>12. QED BY <1>11 DEF t

\* Two of the shown on one overnight move are one bet, whatever arrived.
THEOREM OneBet ==
    ASSUME NEW c, IsDesk(c), IsFiniteSet(c.drivers), NEW cues, Numbers(cues), NEW n, NEW s, Readings(c, n, s)
    PROVE  Morning(c)!OneBetIsCalledOne(cues, s)
<1> DEFINE t == Morning(c)!Shown(Morning(c)!Candidates(cues, s))
           brief == Morning(c)!Brief(cues, s, "nothing new", TRUE)
           W == Morning(c)!Shared(t)
<1>1. brief.shown = t /\ brief.warned = W
  <2>1. brief = [read |-> Morning(c)!Summarise(cues), shown |-> t, warned |-> IF TRUE THEN W ELSE {},
                 releases |-> IF TRUE THEN Morning(c)!Releases("nothing new") ELSE "unsaid"]
    BY Zenon DEF Morning!Brief
  <2> HIDE DEF brief, t, W
  <2>2. QED BY <2>1
<1>2. PICK q : IsField(c, q, Morning(c)!Candidates(cues, s))
  BY CandidatesAreField
<1>3. Morning(c)!Range(t) = Range(t)
  BY SameLibrary, Zenon
<1>4. ASSUME NEW x \in Range(t), NEW y \in Range(t), x # y
      PROVE  CalledOne(x, y, W)
  BY <1>2, <1>4, OneBetIsOne, Zenon
<1> HIDE DEF t, W, brief
<1>5. \A x, y \in Morning(c)!Range(brief.shown) : x # y => CalledOne(x, y, brief.warned)
  BY <1>1, <1>3, <1>4, Zenon
<1>6. QED BY <1>5, Zenon DEF Morning!OneBetIsCalledOne, CalledOne, brief, Why, Name

\* The settings of the trials are such settings.
LEMMA MorningDeskIs ==
    /\ IsDesk(MorningDesk) /\ MorningDesk.days \in Int
    /\ IsFiniteSet(MorningDesk.us) /\ IsFiniteSet(MorningDesk.asia) /\ IsFiniteSet(MorningDesk.drivers)
<1>1. /\ MorningDesk.floor = 65 /\ MorningDesk.full = 200 /\ MorningDesk.sectorCap = 1 /\ MorningDesk.most = 2
      /\ MorningDesk.days = 2 /\ MorningDesk.us = {"^IXIC", "^GSPC"} /\ MorningDesk.asia = {"^N225", "^HSI"}
      /\ MorningDesk.drivers = {"^IXIC", "BZ", "USDINR"}
  BY DEF MorningDesk
<1>2. \A x, y, z : IsFiniteSet({x, y}) /\ IsFiniteSet({x, y, z})
  <2>1. ASSUME NEW x, NEW y, NEW z PROVE IsFiniteSet({x, y}) /\ IsFiniteSet({x, y, z})
    <3>1. IsFiniteSet({x}) /\ {x, y} = {x} \cup {y} /\ {x, y, z} = {x, y} \cup {z}
      BY FS_Singleton
    <3>2. IsFiniteSet({x} \cup {y})
      BY <3>1, FS_AddElement
    <3>3. IsFiniteSet({x, y})
      BY <3>1, <3>2
    <3>4. IsFiniteSet({x, y} \cup {z})
      BY <3>3, FS_AddElement
    <3>5. QED BY <3>1, <3>3, <3>4
  <2>2. QED BY <2>1
<1>3. IsFiniteSet(MorningDesk.us) /\ IsFiniteSet(MorningDesk.asia) /\ IsFiniteSet(MorningDesk.drivers)
  <2>1. MorningDesk.us = {"^IXIC", "^GSPC"} /\ IsFiniteSet({"^IXIC", "^GSPC"})
    BY <1>1, <1>2, Zenon
  <2>2. MorningDesk.asia = {"^N225", "^HSI"} /\ IsFiniteSet({"^N225", "^HSI"})
    BY <1>1, <1>2, Zenon
  <2>3. MorningDesk.drivers = {"^IXIC", "BZ", "USDINR"} /\ IsFiniteSet({"^IXIC", "BZ", "USDINR"})
    BY <1>1, <1>2, Zenon
  <2>4. QED BY <2>1, <2>2, <2>3, Zenon
<1>4. IsDesk(MorningDesk) /\ MorningDesk.days \in Int
  BY <1>1 DEF IsDesk
<1>5. QED BY <1>3, <1>4

\* Whatever cues, calendar or readings a trial is of, the brief is sound.
THEOREM BriefHolds ==
    ASSUME trial.of = "cues" => Numbers(trial.cues),
           trial.of = "sessions" => trial.driver \in Seq(Int) /\ Grows(trial.driver) /\ trial.lagged \in BOOLEAN,
           trial.of = "brief" => Numbers(trial.cues) /\ \E n : Readings(MorningDesk, n, trial.readings)
    PROVE  BriefIsSound
<1>1. BiasIsTheTape
  <2>1. SUFFICES ASSUME trial.of = "cues" PROVE Morning(MorningDesk)!BiasIsTheTape(trial.cues)
    BY DEF BiasIsTheTape
  <2>2. \A x \in DOMAIN trial.cues : trial.cues[x] \in Int
    BY <2>1 DEF Numbers
  <2>3. QED BY <2>2, MorningDeskIs, BiasOfTheTape
<1>2. KnownAtTheOpen
  <2>1. SUFFICES ASSUME trial.of = "sessions"
                 PROVE  Morning(MorningDesk)!KnownAtTheOpen(trial.stock, trial.driver, trial.lagged)
    BY DEF KnownAtTheOpen
  <2>2. trial.driver \in Seq(Int) /\ Grows(trial.driver) /\ trial.lagged \in BOOLEAN
    BY <2>1
  <2>3. QED BY <2>2, MorningDeskIs, OpenIsKnown
<1>3. ConvictionOutranks /\ BestOfEachSector /\ OneBetIsCalledOne
  <2> DEFINE s == Morning(MorningDesk)!Candidates(trial.cues, trial.readings)
  <2>1. SUFFICES ASSUME trial.of = "brief"
                 PROVE  /\ Morning(MorningDesk)!ConvictionOutranks(s)
                        /\ Morning(MorningDesk)!BestOfEachSector(s)
                        /\ Morning(MorningDesk)!OneBetIsCalledOne(trial.cues, trial.readings)
    BY DEF ConvictionOutranks, BestOfEachSector, OneBetIsCalledOne
  <2>2. PICK n : Numbers(trial.cues) /\ Readings(MorningDesk, n, trial.readings)
    BY <2>1
  <2>3. PICK q : IsField(MorningDesk, q, s)
    BY <2>2, MorningDeskIs, CandidatesAreField
  <2>4. Morning(MorningDesk)!OneBetIsCalledOne(trial.cues, trial.readings)
    BY <2>2, MorningDeskIs, OneBet
  <2> HIDE DEF s
  <2>5. QED BY <2>3, <2>4, MorningDeskIs, ConvictionFirst, BestOfSectors
<1>4. QED BY <1>1, <1>2, <1>3 DEF BriefIsSound
=============================================================================
