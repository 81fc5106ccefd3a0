------------------------- MODULE StreamedTurnProofs -------------------------
(***************************************************************************)
(* Proofs about PineSandbox, for any number of calls, and about            *)
(* StreamedTurn, for any tools, other callers, queue and number of events. *)
(***************************************************************************)
EXTENDS StreamedTurn, SequenceLemmas, TLAPS

LOCAL INSTANCE SequencesExt

-----------------------------------------------------------------------------
\* The sandbox by itself.

(* The semaphore: who is under way is in its line, once, and who is past it *)
(* stands first.                                                            *)
LineInv ==
    /\ Distinct(line)
    /\ \A c \in Caller : Among(c, line) <=> pc[c] \in Suspended
    /\ \A c \in Caller : pc[c] \in Suspended \ {"queued"} => line # <<>> /\ line[1] = c

(* The pipes hold one request or one answer at most, of the call that reads.*)
PipeInv ==
    ~disturbed =>
        \/ outbox = <<>> /\ inbox = <<>>
        \/ \E c \in Caller : /\ pc[c] = "reading"
                             /\ \/ outbox = <<c>> /\ inbox = <<>>
                                \/ outbox = <<>> /\ inbox = <<c>>

SandboxInv == TypeOK /\ LineInv /\ PipeInv

\* A call past the semaphore is the only one.
LEMMA HolderFacts ==
    ASSUME TypeOK, LineInv, NEW c \in Caller, pc[c] \in Suspended \ {"queued"}
    PROVE  /\ line # <<>> /\ line[1] = c /\ Among(c, line)
           /\ \A d \in Caller \ {c} : pc[d] \notin Suspended \ {"queued"}
BY DEF LineInv, Suspended

LEMMA HeadFacts ==
    ASSUME TypeOK, line # <<>>
    PROVE  Head(line) = line[1]
BY HeadTailProperties DEF TypeOK

LEMMA HolderHolds ==
    ASSUME TypeOK, NEW c \in Caller, Holds(c)
    PROVE  line # <<>> /\ line[1] = c
BY HeadFacts DEF Holds

\* Who leaves the semaphore leaves it to the others as they were.
LEMMA LeaveFacts ==
    ASSUME TypeOK, LineInv, NEW c \in Caller, LeaveLine(c),
           NEW place \in Over, Goto(c, place)
    PROVE  LineInv' /\ line' \in Seq(Caller) /\ pc' \in [Caller -> {"idle"} \cup Suspended \cup Over]
<1>1. PICK i \in DOMAIN line : line[i] = c /\ line' = RemoveAt(line, i)
  BY DEF LeaveLine
<1>2. line \in Seq(Caller) /\ i \in 1..Len(line)
  BY <1>1, LenProperties DEF TypeOK
<1>3. /\ line' \in Seq(Caller) /\ Distinct(line')
      /\ \A d : Among(d, line') <=> d # c /\ Among(d, line)
      /\ i # 1 => line' # <<>> /\ line'[1] = line[1]
  BY <1>1, <1>2, RemovedFacts DEF LineInv
<1>4. /\ pc' \in [Caller -> {"idle"} \cup Suspended \cup Over]
      /\ pc'[c] \notin Suspended
      /\ \A d \in Caller \ {c} : pc'[d] = pc[d]
  BY DEF Goto, TypeOK, Over, Suspended
<1>5. ASSUME NEW d \in Caller, pc'[d] \in Suspended \ {"queued"}
      PROVE  line' # <<>> /\ line'[1] = d
  <2>1. d # c /\ pc[d] \in Suspended \ {"queued"}
    BY <1>4, <1>5
  <2>2. line[1] = d
    BY <2>1 DEF LineInv
  <2>3. QED BY <1>1, <1>3, <2>1, <2>2
<1>6. \A d \in Caller : Among(d, line') <=> pc'[d] \in Suspended
  BY <1>3, <1>4 DEF LineInv
<1>7. QED BY <1>3, <1>4, <1>5, <1>6 DEF LineInv

\* A move of one call that keeps its place in the line.
LEMMA MoveFacts ==
    ASSUME TypeOK, LineInv, UNCHANGED line, NEW c \in Caller,
           line # <<>>, line[1] = c, pc[c] \in Suspended,
           NEW place \in Suspended, Goto(c, place)
    PROVE  LineInv' /\ pc' \in [Caller -> {"idle"} \cup Suspended \cup Over]
<1>1. /\ pc' \in [Caller -> {"idle"} \cup Suspended \cup Over]
      /\ pc'[c] = place /\ \A d \in Caller \ {c} : pc'[d] = pc[d]
  BY DEF Goto, TypeOK
<1>2. \A d \in Caller : Among(d, line) <=> pc'[d] \in Suspended
  BY <1>1 DEF LineInv
<1>3. \A d \in Caller : pc'[d] \in Suspended \ {"queued"} => line # <<>> /\ line[1] = d
  BY <1>1 DEF LineInv
<1>4. QED BY <1>1, <1>2, <1>3 DEF LineInv

\* With nobody reading, a child that was not disturbed owes nothing.
LEMMA QuietFacts ==
    ASSUME PipeInv, \A d \in Caller : pc[d] # "reading", ~disturbed
    PROVE  outbox = <<>> /\ inbox = <<>>
BY DEF PipeInv

LEMMA OneElement ==
    ASSUME NEW c \in Caller
    PROVE  /\ <<c>> \in Seq(Caller) /\ <<c>> # <<>> /\ Head(<<c>>) = c /\ Tail(<<c>>) = <<>>
           /\ Append(<<>>, c) = <<c>> /\ <<>> \in Seq(Caller)
OBVIOUS

LEMMA InitInv == Init => SandboxInv
<1> SUFFICES ASSUME Init PROVE SandboxInv
  OBVIOUS
<1>1. /\ line = <<>> /\ line \in Seq(Caller) /\ inbox \in Seq(Caller) /\ outbox \in Seq(Caller)
      /\ Len(line) = 0
  BY EmptySeq DEF Init
<1>2. TypeOK
  <2>1. disturbed \in BOOLEAN
    BY DEF Init
  <2>2. pc \in [Caller -> {"idle"}] /\ tries \in [Caller -> {0}] /\ got \in [Caller -> Caller]
    BY DEF Init
  <2>3. proc \in Processes
    BY DEF Init, Processes
  <2>4. /\ pc \in [Caller -> {"idle"} \cup Suspended \cup Over]
        /\ tries \in [Caller -> 0..2]
    BY <2>2
  <2>5. QED BY <1>1, <2>1, <2>2, <2>3, <2>4 DEF TypeOK
<1>3. LineInv
  <2>1. Distinct(line) /\ \A c \in Caller : ~Among(c, line)
    BY <1>1 DEF Distinct, Among
  <2>2. QED BY <2>1 DEF Init, LineInv, Suspended
<1>4. PipeInv
  BY DEF Init, PipeInv
<1>5. QED BY <1>2, <1>3, <1>4 DEF SandboxInv

\* The steps of a call, one lemma for those that only move it, one for each of
\* the others.
LEMMA CallInv == ASSUME SandboxInv, NEW c \in Caller, Call(c) PROVE SandboxInv'
<1> USE DEF SandboxInv
<1>1. /\ pc[c] = "idle" /\ pc' = [pc EXCEPT ![c] = "queued"]
      /\ tries' = [tries EXCEPT ![c] = 1] /\ line' = Append(line, c)
      /\ UNCHANGED <<proc, inbox, outbox, got, disturbed>>
  BY DEF Call, Goto
<1>2. pc[c] \notin Suspended /\ ~Among(c, line)
  BY <1>1 DEF LineInv, Suspended
<1>3. /\ line' \in Seq(Caller) /\ Distinct(line') /\ line' # <<>>
      /\ \A d : Among(d, line') <=> d = c \/ Among(d, line)
      /\ line # <<>> => line'[1] = line[1]
  BY <1>1, <1>2, AppendedFacts DEF TypeOK, LineInv
<1>4. /\ pc' \in [Caller -> {"idle"} \cup Suspended \cup Over]
      /\ pc'[c] = "queued" /\ \A d \in Caller \ {c} : pc'[d] = pc[d]
  BY <1>1 DEF TypeOK, Suspended
<1>5. TypeOK'
  BY <1>1, <1>3, <1>4 DEF TypeOK
<1>6. LineInv'
  <2>1. \A d \in Caller : Among(d, line') <=> pc'[d] \in Suspended
    BY <1>3, <1>4 DEF LineInv, Suspended
  <2>2. \A d \in Caller : pc'[d] \in Suspended \ {"queued"} => line' # <<>> /\ line'[1] = d
    BY <1>3, <1>4 DEF LineInv
  <2>3. QED BY <1>3, <2>1, <2>2 DEF LineInv
<1>7. PipeInv'
  BY <1>1, <1>4 DEF PipeInv
<1>8. QED BY <1>5, <1>6, <1>7

\* Nobody reads while another call holds the semaphore.
LEMMA NobodyReads ==
    ASSUME TypeOK, LineInv, NEW c \in Caller, line # <<>>, line[1] = c, pc[c] # "reading"
    PROVE  \A d \in Caller : pc[d] # "reading"
BY DEF LineInv, Suspended

LEMMA EnterInv == ASSUME SandboxInv, NEW c \in Caller, Enter(c) PROVE SandboxInv'
<1> USE DEF SandboxInv
<1>1. /\ pc[c] = "queued" /\ line # <<>> /\ line[1] = c
      /\ UNCHANGED <<tries, line, outbox, got, disturbed>>
  BY HolderHolds DEF Enter
<1>2. /\ \A d \in Caller : pc[d] # "reading"
      /\ ~disturbed => outbox = <<>> /\ inbox = <<>>
  BY <1>1, NobodyReads, QuietFacts
<1>3. ASSUME NEW place \in Suspended, Goto(c, place)
      PROVE  LineInv' /\ pc' \in [Caller -> {"idle"} \cup Suspended \cup Over]
  BY <1>1, <1>3, MoveFacts DEF Suspended
<1>4. CASE Usable /\ Goto(c, "reading") /\ UNCHANGED proc /\ Write(c)
  <2>1. LineInv' /\ pc' \in [Caller -> {"idle"} \cup Suspended \cup Over]
    BY <1>3, <1>4 DEF Suspended
  <2>2. inbox' = inbox \/ inbox' = Append(inbox, c)
    BY <1>4 DEF Write
  <2>3. inbox' \in Seq(Caller)
    <3>1. inbox \in Seq(Caller)
      BY DEF TypeOK
    <3>2. Append(inbox, c) \in Seq(Caller)
      BY <3>1, AppendProperties
    <3>3. QED BY <2>2, <3>1, <3>2
  <2>4. TypeOK'
    BY <1>1, <1>4, <2>1, <2>3 DEF TypeOK
  <2>5. pc'[c] = "reading"
    BY <1>4 DEF Goto, TypeOK
  <2>6. PipeInv'
    BY <1>1, <1>2, <2>2, <2>5, OneElement DEF PipeInv
  <2>7. QED BY <2>1, <2>4, <2>6
<1>5. CASE proc = "dead" /\ proc' = "none" /\ Goto(c, "reaping") /\ UNCHANGED inbox
  <2>1. LineInv' /\ pc' \in [Caller -> {"idle"} \cup Suspended \cup Over]
    BY <1>3, <1>5 DEF Suspended
  <2>2. TypeOK'
    BY <1>1, <1>5, <2>1 DEF TypeOK, Processes
  <2>3. PipeInv'
    BY <1>1, <1>2, <1>5 DEF PipeInv
  <2>4. QED BY <2>1, <2>2, <2>3
<1>6. CASE proc = "none" /\ Goto(c, "spawning") /\ UNCHANGED <<proc, inbox>>
  <2>1. LineInv' /\ pc' \in [Caller -> {"idle"} \cup Suspended \cup Over]
    BY <1>3, <1>6 DEF Suspended
  <2>2. TypeOK'
    BY <1>1, <1>6, <2>1 DEF TypeOK
  <2>3. PipeInv'
    BY <1>1, <1>2, <1>6 DEF PipeInv
  <2>4. QED BY <2>1, <2>2, <2>3
<1>7. QED BY <1>4, <1>5, <1>6 DEF Enter

LEMMA ReapedInv == ASSUME SandboxInv, NEW c \in Caller, Reaped(c) PROVE SandboxInv'
<1> USE DEF SandboxInv
<1>1. /\ pc[c] = "reaping" /\ Goto(c, "spawning")
      /\ UNCHANGED <<tries, line, proc, inbox, outbox, got, disturbed>>
  BY DEF Reaped
<1>2. line # <<>> /\ line[1] = c
  BY <1>1 DEF LineInv, Suspended
<1>3. LineInv' /\ pc' \in [Caller -> {"idle"} \cup Suspended \cup Over]
  BY <1>1, <1>2, MoveFacts DEF Suspended
<1>4. ~disturbed => outbox = <<>> /\ inbox = <<>>
  BY <1>1, <1>2, NobodyReads, QuietFacts
<1>5. QED BY <1>1, <1>3, <1>4 DEF TypeOK, PipeInv

LEMMA SpawnedInv == ASSUME SandboxInv, NEW c \in Caller, Spawned(c) PROVE SandboxInv'
<1> USE DEF SandboxInv
<1>1. /\ pc[c] = "spawning" /\ Goto(c, "reading")
      /\ proc' = "up" /\ inbox' = <<c>> /\ outbox' = <<>>
      /\ UNCHANGED <<tries, line, got, disturbed>>
  BY DEF Spawned
<1>2. line # <<>> /\ line[1] = c
  BY <1>1 DEF LineInv, Suspended
<1>3. LineInv' /\ pc' \in [Caller -> {"idle"} \cup Suspended \cup Over]
  BY <1>1, <1>2, MoveFacts DEF Suspended
<1>4. TypeOK'
  BY <1>1, <1>3, OneElement DEF TypeOK, Processes
<1>5. pc'[c] = "reading"
  BY <1>1 DEF Goto, TypeOK
<1>6. PipeInv'
  BY <1>1, <1>5 DEF PipeInv
<1>7. QED BY <1>3, <1>4, <1>6

LEMMA SpawnFailsInv == ASSUME SandboxInv, NEW c \in Caller, SpawnFails(c) PROVE SandboxInv'
<1> USE DEF SandboxInv
<1>1. /\ pc[c] = "spawning" /\ Goto(c, "raised") /\ LeaveLine(c)
      /\ UNCHANGED <<tries, proc, inbox, outbox, got, disturbed>>
  BY DEF SpawnFails
<1>2. line # <<>> /\ line[1] = c
  BY <1>1 DEF LineInv, Suspended
<1>3. LineInv' /\ line' \in Seq(Caller) /\ pc' \in [Caller -> {"idle"} \cup Suspended \cup Over]
  BY <1>1, LeaveFacts DEF Over
<1>4. ~disturbed => outbox = <<>> /\ inbox = <<>>
  BY <1>1, <1>2, NobodyReads, QuietFacts
<1>5. QED BY <1>1, <1>3, <1>4 DEF TypeOK, PipeInv

\* Until a call was disturbed, what is read is the answer to the call that reads.
LEMMA ReadFacts ==
    ASSUME SandboxInv, NEW c \in Caller, Read(c)
    PROVE  /\ Head(outbox) \in Caller
           /\ ~disturbed => outbox = <<c>> /\ inbox = <<>> /\ Head(outbox) = c
<1> USE DEF SandboxInv
<1>1. pc[c] = "reading" /\ outbox # <<>>
  BY DEF Read
<1>2. Head(outbox) \in Caller
  BY <1>1, HeadTailProperties DEF TypeOK
<1>3. ASSUME ~disturbed PROVE outbox = <<c>> /\ inbox = <<>>
  <2>1. PICK d \in Caller : pc[d] = "reading" /\ outbox = <<d>> /\ inbox = <<>>
    BY <1>1, <1>3 DEF PipeInv
  <2>2. d = c
    BY <1>1, <2>1, HolderFacts DEF Suspended
  <2>3. QED BY <2>1, <2>2
<1>4. QED BY <1>2, <1>3, OneElement

LEMMA ReadInv == ASSUME SandboxInv, NEW c \in Caller, Read(c) PROVE SandboxInv'
<1> USE DEF SandboxInv
<1>1. /\ pc[c] = "reading" /\ outbox # <<>>
      /\ got' = [got EXCEPT ![c] = Head(outbox)] /\ outbox' = Tail(outbox)
      /\ Goto(c, "answered") /\ LeaveLine(c)
      /\ UNCHANGED <<tries, proc, inbox, disturbed>>
  BY DEF Read
<1>2. LineInv' /\ line' \in Seq(Caller) /\ pc' \in [Caller -> {"idle"} \cup Suspended \cup Over]
  BY <1>1, LeaveFacts DEF Over
<1>3. outbox' \in Seq(Caller) /\ got' \in [Caller -> Caller]
  BY <1>1, ReadFacts, HeadTailProperties DEF TypeOK
<1>4. TypeOK'
  BY <1>1, <1>2, <1>3 DEF TypeOK
<1>5. PipeInv'
  BY <1>1, ReadFacts, OneElement DEF PipeInv
<1>6. QED BY <1>2, <1>4, <1>5

LEMMA AnomalyInv == ASSUME SandboxInv, NEW c \in Caller, Anomaly(c) PROVE SandboxInv'
<1> USE DEF SandboxInv
<1>1. /\ pc[c] = "reading" /\ Goto(c, "killing")
      /\ proc' = "none" /\ inbox' = <<>> /\ outbox' = <<>>
      /\ UNCHANGED <<tries, line, got, disturbed>>
  BY DEF Anomaly
<1>2. line # <<>> /\ line[1] = c
  BY <1>1 DEF LineInv, Suspended
<1>3. LineInv' /\ pc' \in [Caller -> {"idle"} \cup Suspended \cup Over]
  BY <1>1, <1>2, MoveFacts DEF Suspended
<1>4. TypeOK'
  BY <1>1, <1>3, EmptySeq DEF TypeOK, Processes
<1>5. PipeInv'
  BY <1>1 DEF PipeInv
<1>6. QED BY <1>3, <1>4, <1>5

LEMMA KilledInv == ASSUME SandboxInv, NEW c \in Caller, Killed(c) PROVE SandboxInv'
<1> USE DEF SandboxInv
<1>1. pc[c] = "killing" /\ UNCHANGED <<proc, inbox, outbox, got, disturbed>>
  BY DEF Killed
<1>2. line # <<>> /\ line[1] = c
  BY <1>1 DEF LineInv, Suspended
<1>3. ~disturbed => outbox = <<>> /\ inbox = <<>>
  BY <1>1, <1>2, NobodyReads, QuietFacts
<1>4. PipeInv'
  BY <1>1, <1>3 DEF PipeInv
<1>5. CASE tries[c] = 1
  <2>1. /\ pc' = [pc EXCEPT ![c] = "queued"] /\ tries' = [tries EXCEPT ![c] = 2]
        /\ line' = Append(Tail(line), c)
    BY <1>5 DEF Killed, Goto
  <2>2. /\ Tail(line) \in Seq(Caller) /\ Distinct(Tail(line))
        /\ \A d : Among(d, Tail(line)) <=> d # c /\ Among(d, line)
    BY <1>2, TakenFacts DEF TypeOK, LineInv
  <2>3. /\ line' \in Seq(Caller) /\ Distinct(line')
        /\ \A d : Among(d, line') <=> d = c \/ Among(d, Tail(line))
    BY <2>1, <2>2, AppendedFacts
  <2>4. /\ pc' \in [Caller -> {"idle"} \cup Suspended \cup Over]
        /\ pc'[c] = "queued" /\ \A d \in Caller \ {c} : pc'[d] = pc[d]
        /\ tries' \in [Caller -> 0..2]
    BY <2>1 DEF TypeOK, Suspended
  <2>5. LineInv'
    <3>1. \A d \in Caller : Among(d, line') <=> pc'[d] \in Suspended
      BY <2>2, <2>3, <2>4 DEF LineInv, Suspended
    <3>2. \A d \in Caller : pc'[d] \notin Suspended \ {"queued"}
      BY <1>1, <2>4, HolderFacts DEF Suspended
    <3>3. QED BY <2>3, <3>1, <3>2 DEF LineInv
  <2>6. TypeOK'
    BY <1>1, <2>3, <2>4 DEF TypeOK
  <2>7. QED BY <1>4, <2>5, <2>6
<1>6. CASE tries[c] # 1
  <2>1. Goto(c, "unavailable") /\ LeaveLine(c) /\ UNCHANGED tries
    BY <1>6 DEF Killed
  <2>2. LineInv' /\ line' \in Seq(Caller) /\ pc' \in [Caller -> {"idle"} \cup Suspended \cup Over]
    BY <2>1, LeaveFacts DEF Over
  <2>3. QED BY <1>1, <1>4, <2>1, <2>2 DEF TypeOK
<1>7. QED BY <1>5, <1>6

LEMMA CancelInv == ASSUME SandboxInv, NEW c \in Caller, Cancel(c) PROVE SandboxInv'
<1> USE DEF SandboxInv
<1>1. /\ pc[c] \in Suspended /\ Goto(c, "cancelled") /\ LeaveLine(c)
      /\ UNCHANGED <<tries, proc, inbox, outbox, got>>
      /\ disturbed' = (disturbed \/ pc[c] = "reading")
  BY DEF Cancel
<1>2. LineInv' /\ line' \in Seq(Caller) /\ pc' \in [Caller -> {"idle"} \cup Suspended \cup Over]
  BY <1>1, LeaveFacts DEF Over
<1>3. disturbed' \in BOOLEAN
  BY <1>1
<1>4. TypeOK'
  BY <1>1, <1>2, <1>3 DEF TypeOK
<1>5. PipeInv'
  <2>1. SUFFICES ASSUME ~disturbed' PROVE PipeInv'
    BY DEF PipeInv
  <2>2. ~disturbed /\ pc[c] # "reading"
    BY <1>1, <2>1
  <2>3. \A d \in Caller : pc[d] = "reading" => pc'[d] = "reading"
    BY <1>1, <2>2 DEF Goto, TypeOK
  <2>4. QED BY <1>1, <2>2, <2>3 DEF PipeInv
<1>6. QED BY <1>2, <1>4, <1>5

LEMMA ChildInv == ASSUME SandboxInv, Child PROVE SandboxInv'
<1> USE DEF SandboxInv
<1>1. UNCHANGED <<pc, tries, line, got, disturbed>>
  BY DEF Child, Serve, Die, Notice
<1>2. LineInv'
  BY <1>1 DEF LineInv
<1>3. CASE Serve
  <2>1. /\ inbox # <<>> /\ outbox' = Append(outbox, Head(inbox)) /\ inbox' = Tail(inbox)
        /\ UNCHANGED proc
    BY <1>3 DEF Serve
  <2>2. outbox' \in Seq(Caller) /\ inbox' \in Seq(Caller)
    BY <2>1, HeadTailProperties, AppendProperties DEF TypeOK
  <2>3. PipeInv'
    BY <1>1, <2>1, OneElement DEF PipeInv
  <2>4. QED BY <1>1, <1>2, <2>1, <2>2, <2>3 DEF TypeOK
<1>4. CASE Die \/ Notice
  <2>1. /\ inbox' \in {inbox, <<>>} /\ proc' \in Processes /\ UNCHANGED outbox
    BY <1>4 DEF Die, Notice, Processes
  <2>2. inbox' \in Seq(Caller)
    BY <2>1, EmptySeq DEF TypeOK
  <2>3. PipeInv'
    BY <1>1, <2>1 DEF PipeInv
  <2>4. QED BY <1>1, <1>2, <2>1, <2>2, <2>3 DEF TypeOK
<1>5. QED BY <1>3, <1>4 DEF Child

\* Every step keeps the invariant.
LEMMA StepInv == SandboxInv /\ [Next]_vars => SandboxInv'
<1> SUFFICES ASSUME SandboxInv, [Next]_vars PROVE SandboxInv'
  OBVIOUS
<1>1. CASE UNCHANGED vars
  BY <1>1 DEF vars, SandboxInv, TypeOK, LineInv, PipeInv
<1>2. ASSUME NEW c \in Caller, Step(c) PROVE SandboxInv'
  BY <1>2, EnterInv, ReapedInv, SpawnedInv, SpawnFailsInv, ReadInv, AnomalyInv, KilledInv DEF Step
<1>3. QED BY <1>1, <1>2, CallInv, CancelInv, ChildInv DEF Next

\* The inductive invariant of the sandbox: who is in the line of the semaphore,
\* and what is in the pipes.
THEOREM SandboxInvariant == Spec => []SandboxInv
  BY InitInv, StepInv, PTL DEF Spec

LEMMA InvOneAtATime == SandboxInv => OneAtATime
<1>1. ASSUME SandboxInv, NEW c \in Caller, pc[c] \in Suspended \ {"queued"} PROVE Holds(c)
  <2>1. line # <<>> /\ line[1] = c
    BY <1>1 DEF SandboxInv, LineInv
  <2>2. Head(line) = c
    BY <1>1, <2>1, HeadFacts DEF SandboxInv
  <2>3. QED BY <2>1, <2>2 DEF Holds
<1>2. QED BY <1>1 DEF OneAtATime

LEMMA InvPipesInStep == SandboxInv => PipesInStep
<1> SUFFICES ASSUME SandboxInv, ~disturbed, NEW i \in DOMAIN (outbox \o inbox)
             PROVE  /\ i = 1 /\ line # <<>> /\ (outbox \o inbox)[i] = Head(line)
                    /\ pc[Head(line)] = "reading"
  BY DEF PipesInStep
<1>1. PICK c \in Caller : /\ pc[c] = "reading"
                          /\ \/ outbox = <<c>> /\ inbox = <<>>
                             \/ outbox = <<>> /\ inbox = <<c>>
  BY DEF SandboxInv, PipeInv
<1>2. outbox \o inbox = <<c>>
  <2>1. <<c>> \in Seq(Caller)
    BY OneElement
  <2>2. QED BY <1>1, <2>1, ConcatEmptySeq
<1>3. i = 1 /\ (outbox \o inbox)[i] = c
  BY <1>2
<1>4. line # <<>> /\ Head(line) = c
  BY <1>1, HeadFacts DEF SandboxInv, LineInv, Suspended
<1>5. QED BY <1>1, <1>3, <1>4

\* _SANDBOX_SEMAPHORE: one call at a time is past it, retries and cancellations
\* included.
THEOREM OneCallAtATime == Spec => []OneAtATime
BY SandboxInvariant, InvOneAtATime, PTL

\* "The server assumes at most one request in flight": until a call is cancelled
\* while it reads, the pipes hold nothing but what the call that reads asked for.
THEOREM PipesStayInStep == Spec => []PipesInStep
BY SandboxInvariant, InvPipesInStep, PTL

\* run_pine_script: a caller gets the answer to its own script or none, as long
\* as nobody was cancelled in the middle of one: every step is one of Exchange.
THEOREM AnswersAreOnesOwn == Spec => KeepsItsPromise
<1> DEFINE away == {c \in Caller : pc[c] \in Suspended}
           still == UNCHANGED <<away, got, disturbed>>
<1>1. Init => Promise!Init
  BY DEF Init, Promise!Init, Suspended
<1>2. ASSUME SandboxInv, [Next]_vars
      PROVE  [Promise!Next]_Promise!vars
  <2>1. ASSUME NEW c \in Caller, Call(c) PROVE Promise!Ask(c)
    <3>1. pc[c] = "idle" /\ pc' = [pc EXCEPT ![c] = "queued"] /\ UNCHANGED <<got, disturbed>>
      BY <2>1 DEF Call, Goto
    <3>2. c \notin away /\ away' = away \cup {c}
      BY <1>2, <3>1 DEF SandboxInv, TypeOK, Suspended
    <3>3. QED BY <3>1, <3>2 DEF Promise!Ask
  <2>2. ASSUME NEW c \in Caller, Enter(c) \/ Reaped(c) \/ Spawned(c) \/ Anomaly(c)
        PROVE  still
    <3>1. /\ pc[c] \in Suspended /\ UNCHANGED <<got, disturbed>>
          /\ \E place \in Suspended : pc' = [pc EXCEPT ![c] = place]
      BY <2>2 DEF Enter, Reaped, Spawned, Anomaly, Goto, Suspended
    <3>2. away' = away
      BY <1>2, <3>1 DEF SandboxInv, TypeOK
    <3>3. QED BY <3>1, <3>2
  <2>3. ASSUME NEW c \in Caller, pc[c] \in Suspended, NEW place \in Over,
               pc' = [pc EXCEPT ![c] = place]
        PROVE  c \in away /\ away' = away \ {c}
    BY <1>2, <2>3 DEF SandboxInv, TypeOK, Suspended, Over
  <2>4. ASSUME NEW c \in Caller, SpawnFails(c) PROVE Promise!Fail(c)
    <3>1. /\ pc[c] \in Suspended /\ UNCHANGED <<got, disturbed>>
          /\ "raised" \in Over /\ pc' = [pc EXCEPT ![c] = "raised"]
      BY <2>4 DEF SpawnFails, Goto, Suspended, Over
    <3>2. QED BY <2>3, <3>1 DEF Promise!Fail
  <2>5. ASSUME NEW c \in Caller, Killed(c) PROVE still \/ Promise!Fail(c)
    <3>1. pc[c] \in Suspended /\ UNCHANGED <<got, disturbed>>
      BY <2>5 DEF Killed, Suspended
    <3>2. CASE tries[c] = 1
      <4>1. pc' = [pc EXCEPT ![c] = "queued"]
        BY <2>5, <3>2 DEF Killed, Goto
      <4>2. away' = away
        BY <1>2, <3>1, <4>1 DEF SandboxInv, TypeOK, Suspended
      <4>3. QED BY <3>1, <4>2
    <3>3. CASE tries[c] # 1
      <4>1. "unavailable" \in Over /\ pc' = [pc EXCEPT ![c] = "unavailable"]
        BY <2>5, <3>3 DEF Killed, Goto, Over
      <4>2. QED BY <2>3, <3>1, <4>1 DEF Promise!Fail
    <3>4. QED BY <3>2, <3>3
  <2>6. ASSUME NEW c \in Caller, Read(c) PROVE Promise!Answer(c)
    <3>1. /\ pc[c] \in Suspended /\ got' = [got EXCEPT ![c] = Head(outbox)] /\ UNCHANGED disturbed
          /\ "answered" \in Over /\ pc' = [pc EXCEPT ![c] = "answered"]
      BY <2>6 DEF Read, Goto, Suspended, Over
    <3>2. Head(outbox) \in Caller /\ (Head(outbox) = c \/ disturbed)
      BY <1>2, <2>6, ReadFacts
    <3>3. QED BY <2>3, <3>1, <3>2 DEF Promise!Answer
  <2>7. ASSUME NEW c \in Caller, Cancel(c) PROVE Promise!GiveUp
    <3>1. /\ pc[c] \in Suspended /\ UNCHANGED got
          /\ disturbed' = (disturbed \/ pc[c] = "reading")
          /\ "cancelled" \in Over /\ pc' = [pc EXCEPT ![c] = "cancelled"]
      BY <2>7 DEF Cancel, Goto, Over
    <3>2. disturbed' \in {disturbed, TRUE}
      <4>1. disturbed \in BOOLEAN
        BY <1>2 DEF SandboxInv, TypeOK
      <4>2. QED BY <3>1, <4>1
    <3>3. {c} \in SUBSET away /\ away' = away \ {c}
      BY <2>3, <3>1
    <3>4. QED BY <3>1, <3>2, <3>3 DEF Promise!GiveUp
  <2>8. ASSUME Child PROVE still
    BY <2>8 DEF Child, Serve, Die, Notice
  <2>9. ASSUME UNCHANGED vars PROVE still
    BY <2>9 DEF vars
  <2>10. still => UNCHANGED Promise!vars
    BY DEF Promise!vars
  <2>11. QED
    BY <1>2, <2>1, <2>2, <2>4, <2>5, <2>6, <2>7, <2>8, <2>9, <2>10 DEF Next, Step, Promise!Next
<1>3. QED
  BY <1>1, <1>2, SandboxInvariant, PTL DEF Spec, KeepsItsPromise, Promise!Spec

-----------------------------------------------------------------------------
\* The sandbox in a streamed turn.

(* All that was sent or is still in the queue, in the order it was put.     *)
All == shown \o queue

(* While the browser reads: progress, then the outcome, then the sentinel.  *)
StageInv ==
    /\ task \in {"running", "outcome"} => \A i \in 1..Len(All) : All[i] = "progress"
    /\ task = "end" =>
          /\ Len(All) >= 1 /\ All[Len(All)] = outcome
          /\ \A i \in 1..(Len(All) - 1) : All[i] = "progress"
    /\ task = "done" =>
          /\ Len(All) >= 2 /\ All[Len(All)] = "end" /\ All[Len(All) - 1] = outcome
          /\ \A i \in 1..(Len(All) - 2) : All[i] = "progress"
    /\ task # "running" => outcome \in Outcome

DeliveryInv ==
    /\ reader = "reading" => StageInv
    /\ reader = "closed" => task = "done"
    /\ task = "outcome" => outcome \in Outcome
    /\ OutcomeShown /\ LeftTurnStops

TurnInv == SandboxInv /\ StreamTypeOK /\ NoOrphanedCall /\ DeliveryInv

LEMMA BoundFacts == MaxPending \in Nat /\ MaxPending > 0 /\ MaxEvents \in Nat /\ NoTool \notin Tool
BY StreamAssumption

LEMMA AllFacts ==
    ASSUME StreamTypeOK
    PROVE  /\ Len(shown) \in Nat /\ Len(queue) \in Nat /\ DOMAIN shown = 1..Len(shown)
           /\ All \in Seq(Item) /\ Len(All) = Len(shown) + Len(queue)
           /\ \A i \in 1..Len(shown) : All[i] = shown[i]
           /\ shown = <<>> <=> Len(shown) = 0
<1>1. shown \in Seq(Item) /\ queue \in Seq(Item)
  BY DEF StreamTypeOK
<1>2. Len(shown) \in Nat /\ Len(queue) \in Nat /\ DOMAIN shown = 1..Len(shown)
  BY <1>1, LenProperties
<1>3. /\ All \in Seq(Item) /\ Len(All) = Len(shown) + Len(queue)
      /\ \A i \in 1..Len(shown) : All[i] = shown[i]
  BY <1>1, <1>2, ConcatProperties DEF All
<1>4. shown = <<>> <=> Len(shown) = 0
  BY <1>1, EmptySeq
<1>5. QED BY <1>2, <1>3, <1>4

\* What is put comes after all the rest.
LEMMA PutFacts ==
    ASSUME StreamTypeOK, NEW x \in Item, queue' = Append(queue, x), UNCHANGED shown, ~Full
    PROVE  /\ queue' \in Seq(Item) /\ Len(queue') <= MaxPending
           /\ Len(All') = Len(All) + 1 /\ All'[Len(All) + 1] = x
           /\ \A i \in 1..Len(All) : All'[i] = All[i]
<1>1. shown \in Seq(Item) /\ queue \in Seq(Item) /\ <<x>> \in Seq(Item)
  BY DEF StreamTypeOK
<1>2. queue' \in Seq(Item) /\ Len(queue') = Len(queue) + 1
  BY <1>1, AppendProperties
<1>3. Len(queue') <= MaxPending
  BY <1>2, AllFacts, BoundFacts DEF StreamTypeOK, Full
<1>4. All' = Append(All, x)
  <2>1. Append(queue, x) = queue \o <<x>> /\ Append(All, x) = All \o <<x>>
    BY <1>1, AllFacts, AppendIsConcat
  <2>2. (shown \o queue) \o <<x>> = shown \o (queue \o <<x>>)
    BY <1>1, ConcatAssociative
  <2>3. QED BY <2>1, <2>2 DEF All
<1>5. QED BY <1>2, <1>3, <1>4, AllFacts, AppendProperties

\* What is taken and sent stays in its place.
LEMMA TakeFacts ==
    ASSUME StreamTypeOK, queue # <<>>, queue' = Tail(queue)
    PROVE  /\ queue' \in Seq(Item) /\ Len(queue') = Len(queue) - 1 /\ Len(queue) >= 1
           /\ Head(queue) \in Item /\ All[Len(shown) + 1] = Head(queue)
           /\ shown' = Append(shown, Head(queue)) =>
                 /\ shown' \in Seq(Item) /\ Len(shown') = Len(shown) + 1 /\ All' = All
                 /\ \A i \in 1..Len(shown') : shown'[i] = All[i]
<1>1. /\ shown \in Seq(Item) /\ queue \in Seq(Item)
      /\ Len(shown) \in Nat /\ Len(queue) \in Nat \ {0}
  BY AllFacts, EmptySeq DEF StreamTypeOK
<1>2. queue' \in Seq(Item) /\ Len(queue') = Len(queue) - 1 /\ Head(queue) \in Item
  BY <1>1, HeadTailProperties
<1>3. Head(queue) = queue[1]
  OBVIOUS
<1>4. All[Len(shown) + 1] = Head(queue)
  <2>1. Len(shown) + 1 \in 1..(Len(shown) + Len(queue)) /\ ~(Len(shown) + 1 <= Len(shown))
        /\ (Len(shown) + 1) - Len(shown) = 1
    BY <1>1
  <2>2. QED BY <1>1, <1>3, <2>1, ConcatProperties DEF All
<1>5. ASSUME shown' = Append(shown, Head(queue))
      PROVE  /\ shown' \in Seq(Item) /\ Len(shown') = Len(shown) + 1 /\ All' = All
             /\ \A i \in 1..Len(shown') : shown'[i] = All[i]
  <2>1. /\ shown' \in Seq(Item) /\ Len(shown') = Len(shown) + 1
        /\ \A i \in 1..Len(shown) : shown'[i] = shown[i]
        /\ shown'[Len(shown) + 1] = Head(queue)
    BY <1>1, <1>2, <1>5, AppendProperties
  <2>2. All' = All
    <3> DEFINE h == <<Head(queue)>>
    <3>1. h \in Seq(Item)
      BY <1>2
    <3>2. queue = h \o Tail(queue)
      <4>1. Tail(queue) \in Seq(Item) /\ Len(Tail(queue)) = Len(queue) - 1
            /\ \A i \in 1..Len(Tail(queue)) : Tail(queue)[i] = queue[i + 1]
        BY <1>1, HeadTailProperties
      <4>2. /\ h \o Tail(queue) \in Seq(Item) /\ Len(h) = 1 /\ h[1] = queue[1]
            /\ Len(h \o Tail(queue)) = 1 + Len(Tail(queue))
            /\ \A i \in 1..(1 + Len(Tail(queue))) :
                  (h \o Tail(queue))[i] = IF i <= 1 THEN h[i] ELSE Tail(queue)[i - 1]
        BY <1>3, <3>1, <4>1, ConcatProperties
      <4>3. ASSUME NEW i \in 1..Len(queue) PROVE (h \o Tail(queue))[i] = queue[i]
        <5>1. CASE i = 1
          BY <1>1, <4>1, <4>2, <5>1
        <5>2. CASE i # 1
          <6>1. i - 1 \in 1..Len(Tail(queue)) /\ (i - 1) + 1 = i /\ ~(i <= 1)
            BY <1>1, <4>1, <5>2
          <6>2. QED BY <1>1, <4>1, <4>2, <6>1
        <5>3. QED BY <5>1, <5>2
      <4>4. Len(h \o Tail(queue)) = Len(queue)
        BY <1>1, <4>1, <4>2
      <4> HIDE DEF h
      <4>5. QED BY <1>1, <4>2, <4>3, <4>4, SeqEqual
    <3>3. Append(shown, Head(queue)) = shown \o h
      BY <1>1, <1>2, AppendIsConcat
    <3>4. (shown \o h) \o Tail(queue) = shown \o (h \o Tail(queue))
      BY <1>1, <1>2, <3>1, ConcatAssociative
    <3> HIDE DEF h
    <3>5. QED BY <1>5, <3>2, <3>3, <3>4 DEF All
  <2>3. ASSUME NEW i \in 1..Len(shown') PROVE shown'[i] = All[i]
    <3>1. CASE i <= Len(shown)
      BY <1>1, <2>1, <3>1, AllFacts
    <3>2. CASE ~(i <= Len(shown))
      <4>1. i = Len(shown) + 1
        BY <1>1, <2>1, <3>2
      <4>2. QED BY <1>4, <2>1, <4>1
    <3>3. QED BY <3>1, <3>2
  <2>4. QED BY <2>1, <2>2, <2>3
<1>6. QED BY <1>1, <1>2, <1>4, <1>5

LEMMA TurnInitInv == TurnInit => TurnInv
<1> SUFFICES ASSUME TurnInit PROVE TurnInv
  OBVIOUS
<1>1. SandboxInv
  BY InitInv DEF TurnInit
<1>2. /\ queue = <<>> /\ shown = <<>> /\ queue \in Seq(Item) /\ shown \in Seq(Item)
      /\ Len(queue) = 0 /\ Len(shown) = 0 /\ DOMAIN shown = {}
  BY EmptySeq DEF TurnInit, StreamInit
<1>3. StreamTypeOK
  BY <1>2, BoundFacts DEF TurnInit, StreamInit, StreamTypeOK
<1>4. NoOrphanedCall
  BY ToolAssumption DEF TurnInit, Init, NoOrphanedCall, Suspended
<1>5. Len(All) = 0
  BY <1>2, <1>3, AllFacts
<1>6. DeliveryInv
  BY <1>2, <1>5 DEF TurnInit, StreamInit, DeliveryInv, StageInv, OutcomeShown, LeftTurnStops
<1>7. QED BY <1>1, <1>3, <1>4, <1>6 DEF TurnInv

-----------------------------------------------------------------------------
(* The turn and the sandbox: what a step of one leaves of the other.        *)

LEMMA Elsewhere ==
    ASSUME TurnInv, UNCHANGED streamVars
    PROVE  StreamTypeOK' /\ DeliveryInv'
BY DEF TurnInv, streamVars, StreamTypeOK, DeliveryInv, StageInv, OutcomeShown, LeftTurnStops, All

LEMMA SandboxAtRest == ASSUME TurnInv, UNCHANGED vars PROVE SandboxInv'
BY StepInv DEF TurnInv

\* A coroutine that is resumed is suspended, and only it moves.
LEMMA StepMoves ==
    ASSUME NEW c \in Caller, Step(c)
    PROVE  pc[c] \in Suspended /\ \E place : pc' = [pc EXCEPT ![c] = place]
<1>1. CASE Enter(c)
  BY <1>1 DEF Enter, Goto, Suspended
<1>2. CASE Reaped(c)
  BY <1>2 DEF Reaped, Goto, Suspended
<1>3. CASE Spawned(c)
  BY <1>3 DEF Spawned, Goto, Suspended
<1>4. CASE SpawnFails(c)
  BY <1>4 DEF SpawnFails, Goto, Suspended
<1>5. CASE Read(c)
  BY <1>5 DEF Read, Goto, Suspended
<1>6. CASE Anomaly(c)
  BY <1>6 DEF Anomaly, Goto, Suspended
<1>7. CASE Killed(c)
  BY <1>7 DEF Killed, Goto, Suspended
<1>8. QED BY <1>1, <1>2, <1>3, <1>4, <1>5, <1>6, <1>7 DEF Step

LEMMA StartToolInv == ASSUME TurnInv, NEW t \in Tool, StartTool(t) PROVE TurnInv'
<1> USE DEF TurnInv
<1>1. t \in Caller /\ Call(t) /\ BeginTool(t)
  BY ToolAssumption DEF StartTool
<1>2. SandboxInv'
  BY <1>1, CallInv
<1>3. /\ task = "running" /\ tool = NoTool /\ tool' = t
      /\ UNCHANGED <<task, outcome, queue, reader, shown, events>>
  BY <1>1 DEF BeginTool
<1>4. StreamTypeOK'
  BY <1>3 DEF StreamTypeOK
<1>5. DeliveryInv'
  BY <1>3 DEF DeliveryInv, StageInv, OutcomeShown, LeftTurnStops, All
<1>6. NoOrphanedCall'
  <2>1. pc' = [pc EXCEPT ![t] = "queued"] /\ pc \in [Caller -> {"idle"} \cup Suspended \cup Over]
    BY <1>1 DEF Call, Goto, SandboxInv, TypeOK
  <2>2. ASSUME NEW s \in Tool, s # t PROVE pc'[s] \notin Suspended
    BY <1>3, <2>1, <2>2, ToolAssumption, BoundFacts DEF NoOrphanedCall
  <2>3. QED BY <1>3, <2>2 DEF NoOrphanedCall
<1>7. QED BY <1>2, <1>4, <1>5, <1>6

LEMMA ToolReturnsInv == ASSUME TurnInv, ToolReturns PROVE TurnInv'
<1> USE DEF TurnInv
<1>1. /\ UNCHANGED vars /\ tool # NoTool /\ pc[tool] \in Over
      /\ task = "running" /\ tool' = NoTool
      /\ UNCHANGED <<task, outcome, queue, reader, shown, events>>
  BY DEF ToolReturns, EndTool
<1>2. StreamTypeOK'
  BY <1>1 DEF StreamTypeOK
<1>3. DeliveryInv'
  BY <1>1 DEF DeliveryInv, StageInv, OutcomeShown, LeftTurnStops, All
<1>4. NoOrphanedCall'
  BY <1>1 DEF NoOrphanedCall, vars, Over, Suspended
<1>5. QED BY <1>1, <1>2, <1>3, <1>4, SandboxAtRest

LEMMA LeaveInv == ASSUME TurnInv, BrowserLeaves PROVE TurnInv'
<1> USE DEF TurnInv
<1>1. /\ reader = "reading" /\ reader' = "gone" /\ tool' = NoTool
      /\ task' = (IF task \in {"running", "outcome"} THEN "end" ELSE "done")
      /\ UNCHANGED <<outcome, queue, shown, events>>
  BY DEF BrowserLeaves, Leave
<1>2. StreamTypeOK'
  BY <1>1 DEF StreamTypeOK
<1>3. DeliveryInv'
  BY <1>1 DEF DeliveryInv, OutcomeShown, LeftTurnStops
<1>4. CASE tool # NoTool /\ pc[tool] \in Suspended
  <2>1. tool \in Tool /\ tool \in Caller /\ Cancel(tool)
    BY <1>4, ToolAssumption DEF BrowserLeaves, StreamTypeOK
  <2>2. SandboxInv'
    BY <2>1, CancelInv
  <2>3. pc' = [pc EXCEPT ![tool] = "cancelled"] /\ pc \in [Caller -> {"idle"} \cup Suspended \cup Over]
    BY <2>1 DEF Cancel, Goto, SandboxInv, TypeOK
  <2>4. ASSUME NEW s \in Tool PROVE pc'[s] \notin Suspended
    BY <2>1, <2>3, ToolAssumption DEF NoOrphanedCall, Suspended
  <2>5. QED BY <1>2, <1>3, <2>2, <2>4 DEF NoOrphanedCall
<1>5. CASE ~(tool # NoTool /\ pc[tool] \in Suspended)
  <2>1. UNCHANGED vars
    BY <1>5 DEF BrowserLeaves
  <2>2. ASSUME NEW s \in Tool PROVE pc'[s] \notin Suspended
    BY <1>5, <2>1, BoundFacts DEF NoOrphanedCall, vars
  <2>3. QED BY <1>2, <1>3, <2>1, <2>2, SandboxAtRest DEF NoOrphanedCall
<1>6. QED BY <1>4, <1>5

LEMMA ProgressInv == ASSUME TurnInv, Progress, UNCHANGED vars PROVE TurnInv'
<1> USE DEF TurnInv
<1>1. /\ task = "running" /\ events < MaxEvents /\ events' = events + 1
      /\ queue' = (IF Full THEN queue ELSE Append(queue, "progress"))
      /\ UNCHANGED <<task, tool, outcome, reader, shown>>
  BY DEF Progress
<1>2. NoOrphanedCall'
  BY <1>1 DEF NoOrphanedCall, vars
<1>3. events' \in 0..MaxEvents
  BY <1>1, BoundFacts DEF StreamTypeOK
<1>4. CASE Full
  BY <1>1, <1>2, <1>3, <1>4, SandboxAtRest
     DEF StreamTypeOK, DeliveryInv, StageInv, OutcomeShown, LeftTurnStops, All
<1>5. CASE ~Full
  <2>1. "progress" \in Item
    BY DEF Item
  <2>2. /\ queue' \in Seq(Item) /\ Len(queue') <= MaxPending
        /\ Len(All') = Len(All) + 1 /\ All'[Len(All) + 1] = "progress"
        /\ \A i \in 1..Len(All) : All'[i] = All[i]
    BY <1>1, <1>5, <2>1, PutFacts
  <2>3. StreamTypeOK'
    BY <1>1, <1>3, <2>2 DEF StreamTypeOK
  <2>4. reader = "reading" => \A i \in 1..Len(All') : All'[i] = "progress"
    BY <1>1, <2>2, AllFacts DEF DeliveryInv, StageInv
  <2>5. DeliveryInv'
    BY <1>1, <2>4 DEF DeliveryInv, StageInv, OutcomeShown, LeftTurnStops
  <2>6. QED BY <1>2, <2>3, <2>5, SandboxAtRest
<1>6. QED BY <1>4, <1>5

LEMMA FinishInv == ASSUME TurnInv, Finish, UNCHANGED vars PROVE TurnInv'
<1> USE DEF TurnInv
<1>1. /\ task = "running" /\ tool = NoTool /\ outcome' \in Outcome /\ task' = "outcome"
      /\ UNCHANGED <<tool, queue, reader, shown, events>>
  BY DEF Finish
<1>2. StreamTypeOK'
  BY <1>1 DEF StreamTypeOK
<1>3. DeliveryInv'
  BY <1>1 DEF DeliveryInv, StageInv, OutcomeShown, LeftTurnStops, All
<1>4. NoOrphanedCall'
  BY <1>1, BoundFacts DEF NoOrphanedCall, vars
<1>5. QED BY <1>2, <1>3, <1>4, SandboxAtRest

LEMMA PutOutcomeInv == ASSUME TurnInv, PutOutcome, UNCHANGED vars PROVE TurnInv'
<1> USE DEF TurnInv
<1>1. /\ task = "outcome" /\ ~Full /\ queue' = Append(queue, outcome) /\ task' = "end"
      /\ UNCHANGED <<tool, outcome, reader, shown, events>>
  BY DEF PutOutcome
<1>2. NoOrphanedCall'
  BY <1>1 DEF NoOrphanedCall, vars
<1>3. CASE outcome \in Outcome
  <2>1. outcome \in Item
    BY <1>3 DEF Item
  <2>2. /\ queue' \in Seq(Item) /\ Len(queue') <= MaxPending
        /\ Len(All') = Len(All) + 1 /\ All'[Len(All) + 1] = outcome
        /\ \A i \in 1..Len(All) : All'[i] = All[i]
    BY <1>1, <2>1, PutFacts
  <2>3. StreamTypeOK'
    BY <1>1, <2>2 DEF StreamTypeOK
  <2>4. reader = "reading" => StageInv'
    BY <1>1, <1>3, <2>2, AllFacts DEF DeliveryInv, StageInv
  <2>5. DeliveryInv'
    BY <1>1, <2>4 DEF DeliveryInv, OutcomeShown, LeftTurnStops
  <2>6. QED BY <1>2, <2>3, <2>5, SandboxAtRest
<1>4. QED BY <1>1, <1>3 DEF DeliveryInv

LEMMA PutEndInv == ASSUME TurnInv, PutEnd, UNCHANGED vars PROVE TurnInv'
<1> USE DEF TurnInv
<1>1. /\ task = "end" /\ ~Full /\ queue' = Append(queue, "end") /\ task' = "done"
      /\ UNCHANGED <<tool, outcome, reader, shown, events>>
  BY DEF PutEnd
<1>2. NoOrphanedCall'
  BY <1>1 DEF NoOrphanedCall, vars
<1>3. "end" \in Item
  BY DEF Item
<1>4. /\ queue' \in Seq(Item) /\ Len(queue') <= MaxPending
      /\ Len(All') = Len(All) + 1 /\ All'[Len(All) + 1] = "end"
      /\ \A i \in 1..Len(All) : All'[i] = All[i]
  BY <1>1, <1>3, PutFacts
<1>5. StreamTypeOK'
  BY <1>1, <1>4 DEF StreamTypeOK
<1>6. reader = "reading" => StageInv'
  BY <1>1, <1>4, AllFacts DEF DeliveryInv, StageInv
<1>7. DeliveryInv'
  BY <1>1, <1>6 DEF DeliveryInv, OutcomeShown, LeftTurnStops
<1>8. QED BY <1>2, <1>5, <1>7, SandboxAtRest

LEMMA TakeInv == ASSUME TurnInv, Take, UNCHANGED vars PROVE TurnInv'
<1> USE DEF TurnInv
<1>1. /\ reader = "reading" /\ queue # <<>> /\ queue' = Tail(queue)
      /\ UNCHANGED <<task, tool, outcome, events>>
  BY DEF Take
<1>2. NoOrphanedCall'
  BY <1>1 DEF NoOrphanedCall, vars
<1>3. /\ queue' \in Seq(Item) /\ Len(queue') = Len(queue) - 1 /\ Len(queue) >= 1
      /\ Head(queue) \in Item /\ All[Len(shown) + 1] = Head(queue)
  BY <1>1, TakeFacts
<1>4. Len(queue') <= MaxPending
  BY <1>3, AllFacts, BoundFacts DEF StreamTypeOK
<1>5. StageInv /\ OutcomeShown
  BY <1>1 DEF DeliveryInv
<1>6. CASE Head(queue) = "end"
  <2>1. reader' = "closed" /\ shown' = shown
    BY <1>6 DEF Take
  <2>2. task = "done" /\ Len(shown) + 1 = Len(All)
    <3>1. /\ Len(All) \in Nat /\ Len(shown) + 1 \in 1..Len(All)
          /\ All[Len(shown) + 1] = "end"
      BY <1>3, <1>6, AllFacts
    <3>2. outcome \in Outcome => outcome \notin {"end", "progress"}
      BY DEF Outcome
    <3>3. task \notin {"running", "outcome"}
      BY <1>5, <3>1 DEF StageInv
    <3>4. CASE task = "end"
      BY <1>5, <3>1, <3>2, <3>4 DEF StageInv
    <3>5. CASE task = "done"
      <4>1. Len(shown) + 1 \notin 1..(Len(All) - 2) /\ Len(shown) + 1 # Len(All) - 1
        BY <1>5, <3>1, <3>2, <3>5 DEF StageInv
      <4>2. QED BY <3>1, <3>5, <4>1
    <3>6. QED BY <3>3, <3>4, <3>5 DEF StreamTypeOK
  <2>3. shown # <<>> /\ shown[Len(shown)] = outcome
    BY <1>5, <2>2, AllFacts DEF StageInv
  <2>4. StreamTypeOK'
    BY <1>1, <1>3, <1>4, <2>1 DEF StreamTypeOK
  <2>5. DeliveryInv'
    BY <1>1, <1>5, <2>1, <2>2, <2>3 DEF DeliveryInv, OutcomeShown, LeftTurnStops
  <2>6. QED BY <1>2, <2>4, <2>5, SandboxAtRest
<1>7. CASE Head(queue) # "end"
  <2>1. shown' = Append(shown, Head(queue)) /\ reader' = reader
    BY <1>7 DEF Take
  <2>2. /\ shown' \in Seq(Item) /\ Len(shown') = Len(shown) + 1 /\ All' = All
        /\ \A i \in 1..Len(shown') : shown'[i] = All[i]
    BY <1>1, <2>1, TakeFacts
  <2>3. StreamTypeOK'
    BY <1>1, <1>3, <1>4, <2>1, <2>2 DEF StreamTypeOK
  <2>4. StageInv'
    BY <1>1, <1>5, <2>2 DEF StageInv
  <2>5. DOMAIN shown' = 1..Len(shown')
    BY <2>2, LenProperties
  <2>6. ASSUME NEW i \in 1..Len(shown'), shown'[i] \in Outcome PROVE i = Len(shown')
    <3>1. All[i] \in Outcome /\ All[i] # "progress" /\ All[i] # "end"
      BY <2>2, <2>6 DEF Outcome
    <3>2. All[Len(shown')] # "end" /\ Len(shown') <= Len(All) /\ Len(shown') \in Nat
      BY <1>3, <1>7, <2>2, AllFacts
    <3>3. Len(All) \in Nat /\ i \in 1..Len(All) /\ i <= Len(shown')
      BY <3>2, AllFacts
    <3>4. CASE task = "end"
      BY <1>5, <3>1, <3>2, <3>3, <3>4 DEF StageInv
    <3>5. CASE task = "done"
      <4>1. i \notin 1..(Len(All) - 2) /\ i # Len(All) /\ Len(shown') # Len(All)
        BY <1>5, <3>1, <3>2, <3>5 DEF StageInv
      <4>2. QED BY <3>2, <3>3, <4>1
    <3>6. CASE task \in {"running", "outcome"}
      BY <1>5, <3>1, <3>3, <3>6 DEF StageInv
    <3>7. QED BY <3>4, <3>5, <3>6 DEF StreamTypeOK
  <2>7. DeliveryInv'
    BY <1>1, <2>1, <2>4, <2>5, <2>6 DEF DeliveryInv, OutcomeShown, LeftTurnStops
  <2>8. QED BY <1>2, <2>3, <2>7, SandboxAtRest
<1>8. QED BY <1>6, <1>7

\* A call that is no tool of this turn.
LEMMA OtherInv ==
    ASSUME TurnInv, NEW c \in Caller, OtherCall(c) \/ Sandbox(c) PROVE TurnInv'
<1> USE DEF TurnInv
<1>1. UNCHANGED streamVars
  BY DEF OtherCall, Sandbox
<1>2. SandboxInv'
  <2>1. Next
    BY DEF OtherCall, Sandbox, Next
  <2>2. QED BY <2>1, StepInv
<1>3. NoOrphanedCall'
  <2>1. pc \in [Caller -> {"idle"} \cup Suspended \cup Over]
    BY DEF SandboxInv, TypeOK
  <2>2. PICK place : pc' = [pc EXCEPT ![c] = place]
    <3>1. CASE OtherCall(c)
      BY <3>1 DEF OtherCall, Call, Goto
    <3>2. CASE Sandbox(c)
      BY <3>2, StepMoves DEF Sandbox
    <3>3. QED BY <3>1, <3>2
  <2>3. c \notin Tool \/ pc[c] \in Suspended
    BY StepMoves DEF OtherCall, Sandbox
  <2>4. QED BY <1>1, <2>1, <2>2, <2>3, ToolAssumption DEF NoOrphanedCall, streamVars
<1>4. QED BY <1>1, <1>2, <1>3, Elsewhere

LEMMA ChildTurnInv == ASSUME TurnInv, Child, UNCHANGED streamVars PROVE TurnInv'
<1> USE DEF TurnInv
<1>1. SandboxInv'
  BY ChildInv
<1>2. NoOrphanedCall'
  BY DEF NoOrphanedCall, streamVars, Child, Serve, Die, Notice
<1>3. QED BY <1>1, <1>2, Elsewhere

LEMMA TurnStepInv == TurnInv /\ [TurnNext]_allVars => TurnInv'
<1> SUFFICES ASSUME TurnInv, [TurnNext]_allVars PROVE TurnInv'
  OBVIOUS
<1>1. CASE UNCHANGED allVars
  <2>1. UNCHANGED vars /\ UNCHANGED streamVars
    BY <1>1 DEF allVars
  <2>2. NoOrphanedCall'
    BY <2>1 DEF TurnInv, NoOrphanedCall, vars, streamVars
  <2>3. QED BY <2>1, <2>2, SandboxAtRest, Elsewhere DEF TurnInv
<1>2. CASE \E t \in Tool : StartTool(t)
  BY <1>2, StartToolInv
<1>3. CASE ToolReturns
  BY <1>3, ToolReturnsInv
<1>4. CASE BrowserLeaves
  BY <1>4, LeaveInv
<1>5. CASE Stream /\ UNCHANGED vars
  BY <1>5, ProgressInv, FinishInv, PutOutcomeInv, PutEndInv, TakeInv DEF Stream
<1>6. CASE Child /\ UNCHANGED streamVars
  BY <1>6, ChildTurnInv
<1>7. CASE \E c \in Caller : OtherCall(c) \/ Sandbox(c)
  BY <1>7, OtherInv
<1>8. QED BY <1>1, <1>2, <1>3, <1>4, <1>5, <1>6, <1>7 DEF TurnNext
-----------------------------------------------------------------------------
\* The conjunction is an invariant of the streamed turn.
THEOREM TurnInvariant == TurnSpec => []TurnInv
BY TurnInitInv, TurnStepInv, PTL DEF TurnSpec

\* _SANDBOX_SEMAPHORE, run() and the generator together: the sandbox serves one
\* call at a time and its pipes stay in step, tools of cancelled turns included.
THEOREM SandboxServesTheTurn == TurnSpec => []SandboxInStep
<1>1. SandboxInv => OneAtATime /\ PipesInStep
  BY InvOneAtATime, InvPipesInStep
<1>2. TurnInv => SandboxInStep
  BY <1>1 DEF TurnInv, SandboxInStep, SandboxInv
<1>3. QED BY <1>2, TurnInvariant, PTL

\* chat_stream: a reader that stays is sent the outcome, once and last, and a
\* turn that is cancelled leaves no call behind in the sandbox.
THEOREM TurnLeavesNothing == TurnSpec => []TurnIsClean
<1>1. TurnInv => TurnIsClean
  BY DEF TurnInv, TurnIsClean, DeliveryInv
<1>2. QED BY <1>1, TurnInvariant, PTL

\* Every step of the streamed turn is a step of the sandbox or none of its.
LEMMA TurnStepsAreSandboxSteps ==
    ASSUME TurnInv, [TurnNext]_allVars PROVE [Next]_vars
<1>1. ASSUME NEW t \in Tool, StartTool(t) PROVE Next
  BY <1>1, ToolAssumption DEF StartTool, Next
<1>2. ASSUME BrowserLeaves PROVE [Next]_vars
  BY <1>2, ToolAssumption DEF BrowserLeaves, Next, TurnInv, StreamTypeOK
<1>3. QED
  BY <1>1, <1>2 DEF TurnNext, allVars, ToolReturns, OtherCall, Sandbox, Next

\* The streamed turn runs the sandbox as its specification says, so its calls
\* are answered as Exchange promises.
THEOREM TurnKeepsThePromise == TurnSpec => KeepsItsPromise
<1>1. TurnInit => Init
  BY DEF TurnInit
<1>2. TurnSpec => Spec
  BY <1>1, TurnInvariant, TurnStepsAreSandboxSteps, PTL DEF TurnSpec, Spec
<1>3. QED BY <1>2, AnswersAreOnesOwn
=============================================================================
