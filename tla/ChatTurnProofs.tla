--------------------------- MODULE ChatTurnProofs ---------------------------
(***************************************************************************)
(* Proofs about ChatTurn, for any tools, any calls the model may make and  *)
(* any budgets; about Transcript, the list of the turn's messages, for any *)
(* lengths of what is said and found and any ceiling; and about TradePlan, *)
(* the trade and the size the turn's tools compute, for any chart of       *)
(* levels, any prices and any account.                                     *)
(***************************************************************************)
EXTENDS ChatTurn, Transcript, TrialsSignals, FiniteSetTheorems, SequenceLemmas, TLAPS

LOCAL INSTANCE SequencesExt
LOCAL INSTANCE FiniteSetsExt

(* What the runner's two tables say of each other.                          *)
RunnerInv ==
    /\ \A t \in Tool : counts[t] <= MaxCalls
    /\ \A c \in Call : won[c] = IF c \in memo THEN 1 ELSE 0

(* Requests sent so far: triage's, one for every round, the wrap-up's, and  *)
(* those of the tool that writes formulas.                                  *)
RequestInv ==
    /\ stage = "triage" => asked = 0 /\ rounds = 0
    /\ stage \in {"loop", "tools", "handler"} => asked <= rounds + 1
    /\ stage = "done" => asked <= MaxRounds + 2
    /\ stage = "done" /\ reason = "none" => asked <= MaxRounds + 1
    /\ stage # "done" => reason = "none"
    /\ drafted <= 2 * counts[Writer]

(* The call in hand is one that was let in, and its readers are all that is *)
(* asked of a source but for those left behind, none of which reads the     *)
(* book: a reader that awaits the book is alone, and the book not there yet.*)
ReadInv ==
    /\ stage \in {"tools", "handler"} => pending # <<>>
    /\ stage # "handler" => looking = 0 /\ asking = 0
    /\ stage = "handler" =>
          /\ Current[1] \in Tool /\ Current[2] \in Arg /\ Current \notin memo
          /\ looking + asking <= 2
          /\ Current[1] \in AccountTool =>
                looking + asking <= 1 /\ (asking > 0 => fetched["book"] = "unasked")
    /\ stray["book"] = 0

IInv == TypeOK /\ RunnerInv /\ RequestInv /\ ReadInv

LEMMA BoundFacts ==
    /\ MaxCalls \in Nat /\ MaxRounds \in Nat /\ MaxTokens \in Nat /\ MaxBatch \in Nat
    /\ MaxCalls > 0 /\ MaxRounds > 0 /\ MaxTokens > 0 /\ MaxBatch > 0
BY BoundAssumption

LEMMA WriterFacts == Writer \in Tool /\ Writer \notin AccountTool
BY ToolAssumption

\* What a turn may have spent stays within the cap of the model.
LEMMA SpendType == ASSUME spent \in 0..MaxTokens, Spend PROVE spent' \in 0..MaxTokens
BY BoundFacts DEF Spend

\* The head and the tail of the calls that are left.
LEMMA PendingFacts ==
    ASSUME pending \in Seq(Call), pending # <<>>
    PROVE  /\ Head(pending) \in Call
           /\ Tail(pending) \in Seq(Call)
           /\ Len(pending) # 1 => Tail(pending) # <<>>
<1>1. Head(pending) \in Call /\ Tail(pending) \in Seq(Call) /\ Len(Tail(pending)) = Len(pending) - 1
  BY HeadTailProperties
<1>2. Len(pending) \in Nat \ {0}
  BY EmptySeq, LenProperties
<1>3. Len(pending) # 1 => Len(Tail(pending)) # 0
  BY <1>1, <1>2
<1>4. QED BY <1>1, <1>3

\* A call whose arguments are not malformed has an object of arguments.
LEMMA CallFacts == ASSUME NEW c \in Call, c[2] \notin Malformed PROVE c[2] \in Arg
BY CallAssumption

\* The turn starts in the invariant.
LEMMA InitInv == Init => IInv
<1> SUFFICES ASSUME Init PROVE IInv
  OBVIOUS
<1>1. pending \in Seq(Call)
  BY EmptySeq DEF Init
<1>2. TypeOK
  <2>1. /\ stage \in {"triage", "loop", "tools", "handler", "done"} /\ rounds \in 0..MaxRounds
        /\ spent \in 0..MaxTokens /\ asked \in Nat /\ drafted \in Nat
    BY BoundFacts DEF Init
  <2>5. looking \in 0..2 /\ asking \in 0..2
    BY DEF Init
  <2>6. late \in BOOLEAN /\ told \in BOOLEAN
    BY Zenon DEF Init
  <2>2. /\ counts \in [Tool -> Nat] /\ won \in [Call -> Nat] /\ memo \subseteq Call
        /\ fetched \in [Item -> Answers \cup {"unasked"}] /\ stray \in [Item -> Nat]
        /\ toolsCalled \subseteq AccountTool
    BY DEF Init
  <2>3. /\ partial \in Text /\ final \in Text /\ reason \in Reason
        /\ retried \in BOOLEAN /\ failed \in BOOLEAN
    BY DEF Init, Text, Reason
  <2>4. QED BY <1>1, <2>1, <2>2, <2>3, <2>5, <2>6 DEF TypeOK
<1>3. RunnerInv /\ RequestInv
  BY BoundFacts, WriterFacts DEF Init, RunnerInv, RequestInv
<1>4. ReadInv
  BY DEF Init, ReadInv, Item
<1>5. QED BY <1>2, <1>3, <1>4 DEF IInv

\* Going on with the next call keeps what does not speak of the runner, of the
\* readers and of the handlers' requests.
LEMMA NextCallKeeps ==
    ASSUME IInv, stage \in {"tools", "handler"}, NextCall
    PROVE  /\ stage' \in {"loop", "tools"} /\ rounds' \in 0..MaxRounds /\ asked' \in Nat
           /\ pending' \in Seq(Call) /\ toolsCalled' \subseteq AccountTool
           /\ stage' = "tools" => pending' # <<>>
           /\ asked' <= rounds' + 1 /\ reason' = "none"
           /\ late' \in BOOLEAN
           /\ partial' \in Text /\ final' \in Text /\ reason' \in Reason
           /\ retried' \in BOOLEAN /\ failed' \in BOOLEAN
<1>1. /\ pending \in Seq(Call) /\ pending # <<>> /\ toolsCalled \subseteq AccountTool
  BY DEF IInv, TypeOK, ReadInv
<1>2. QED BY <1>1, PendingFacts DEF IInv, TypeOK, NextCall, texts, RequestInv

\* A step that touches neither the handler nor what it reads keeps ReadInv.
LEMMA ReadKept ==
    ASSUME IInv, stage # "handler", stage' # "handler", stage' = "tools" => pending' # <<>>,
           UNCHANGED <<looking, asking, stray>>
    PROVE  ReadInv'
BY DEF IInv, ReadInv

\* Every step of the loop keeps the invariant.
LEMMA LoopStep ==
    ASSUME IInv, Triage \/ WrapUp \/ Answer \/ CallTools \/ ModelFails PROVE IInv'
<1> USE BoundFacts
<1>1. CASE Triage
  <2>1. spent' \in 0..MaxTokens
    BY <1>1, SpendType DEF Triage, Record, IInv, TypeOK
  <2>2. stage = "triage" /\ stage' \in {"loop", "done"} /\ UNCHANGED <<looking, asking, stray, pending>>
    BY <1>1 DEF Triage, reading, readers
  <2>3. ReadInv'
    BY <2>2, ReadKept
  <2>4. /\ asked' = asked + 1
        /\ final' \in Text /\ reason' \in {"none", "answered_by_triage"}
        /\ stage' = "loop" => reason' = reason
        /\ UNCHANGED <<retried, partial, failed, late, toolsCalled, rounds, runner, reading, drafted>>
    BY <1>1 DEF Triage, Record, texts, IInv, TypeOK, RequestInv, Text
  <2>5. TypeOK'
    BY <2>1, <2>2, <2>4 DEF runner, reading, readers, IInv, TypeOK, Reason
  <2>6. RequestInv' /\ RunnerInv'
    BY <2>2, <2>4 DEF runner, IInv, TypeOK, RunnerInv, RequestInv
  <2>7. QED BY <2>3, <2>5, <2>6 DEF IInv
<1>2. CASE WrapUp
  <2>1. spent' \in 0..MaxTokens
    BY <1>2, SpendType DEF WrapUp, Record, IInv, TypeOK
  <2>2. Exhausted \in {"rounds", "time", "tokens"}
    BY <1>2 DEF WrapUp, Exhausted
  <2>3. /\ stage = "loop" /\ asked' = asked + 1 /\ stage' = "done"
        /\ reason' \in {"rounds", "time", "tokens", "error"}
        /\ UNCHANGED <<late, pending, toolsCalled, rounds, counts, memo, won, fetched,
                       looking, asking, told, stray, drafted>>
    BY <1>2, <2>2 DEF WrapUp, FailTurn, Record, runner, reading, readers
  <2>4. /\ final' \in Text /\ partial' \in Text
        /\ retried' \in BOOLEAN /\ failed' \in BOOLEAN
    BY <1>2 DEF WrapUp, FailTurn, IInv, TypeOK
  <2>5. TypeOK'
    BY <2>1, <2>3, <2>4 DEF IInv, TypeOK, Reason
  <2>6. RequestInv'
    BY <2>3 DEF IInv, TypeOK, RequestInv
  <2>7. ReadInv'
    BY <2>3, ReadKept
  <2>8. QED BY <2>3, <2>5, <2>6, <2>7 DEF IInv, RunnerInv
<1>3. CASE StartRound /\ (Answer \/ CallTools \/ ModelFails)
  <2>1. spent' \in 0..MaxTokens
    BY <1>3, SpendType DEF StartRound, Record, IInv, TypeOK
  <2>2. rounds < MaxRounds
    <3>1. ~(rounds >= MaxRounds)
      BY <1>3 DEF StartRound, Exhausted
    <3>2. QED BY <3>1 DEF IInv, TypeOK
  <2>3. /\ stage = "loop" /\ asked' = asked + 1 /\ rounds' = rounds + 1 /\ drafted' = drafted
        /\ UNCHANGED <<late, toolsCalled, counts, memo, won, fetched, looking, asking, told, stray>>
    BY <1>3 DEF Answer, CallTools, ModelFails, StartRound, Record, runner, reading, readers
  <2>4. /\ pending' \in Seq(Call) /\ (stage' = "tools" => pending' # <<>>)
        /\ stage' \in {"loop", "tools", "done"}
        /\ final' \in Text /\ partial' \in Text /\ reason' \in Reason
        /\ retried' \in BOOLEAN /\ failed' \in BOOLEAN
        /\ stage' # "done" => reason' = "none"
    <3>1. CASE Answer
      <4>1. PICK text \in Text :
               IF ~retried /\ Unverified(text)
               THEN retried' = TRUE /\ UNCHANGED <<stage, final>>
               ELSE final' = text /\ stage' = "done" /\ UNCHANGED retried
        BY <3>1 DEF Answer
      <4>2. UNCHANGED <<pending, partial, reason, failed>>
        BY <3>1 DEF Answer
      <4>3. QED BY <2>3, <4>1, <4>2 DEF IInv, TypeOK, RequestInv
    <3>2. CASE CallTools
      <4>1. pending' \in Seq(Call) /\ pending' # <<>>
        BY <3>2 DEF CallTools
      <4>2. QED BY <2>3, <3>2, <4>1 DEF CallTools, IInv, TypeOK, RequestInv, Text
    <3>3. CASE ModelFails
      BY <2>3, <3>3 DEF ModelFails, FailTurn, IInv, TypeOK, RequestInv, Reason
    <3>4. QED BY <1>3, <3>1, <3>2, <3>3
  <2>5. TypeOK'
    BY <2>1, <2>2, <2>3, <2>4 DEF IInv, TypeOK
  <2>6. RequestInv'
    BY <2>2, <2>3, <2>4 DEF IInv, TypeOK, RequestInv
  <2>7. ReadInv'
    BY <2>3, <2>4, ReadKept
  <2>8. QED BY <2>3, <2>5, <2>6, <2>7 DEF IInv, RunnerInv
<1>4. QED BY <1>1, <1>2, <1>3 DEF Answer, CallTools, ModelFails

\* A call that is let in is counted, within its budget.
LEMMA AdmitFacts ==
    ASSUME IInv, NEW call \in Call, Admit(call)
    PROVE  /\ call \notin memo /\ call[1] \in Tool
           /\ counts' \in [Tool -> Nat] /\ \A t \in Tool : counts'[t] <= MaxCalls
           /\ \A t \in Tool : counts'[t] = IF t = call[1] THEN counts[t] + 1 ELSE counts[t]
BY BoundFacts DEF Admit, Repeat, Refused, IInv, TypeOK, RunnerInv

\* An answer that is new makes the two tables agree again; an error keeps them.
LEMMA AnsweredFacts ==
    ASSUME IInv, NEW call \in Call, call \notin memo, Answered(call) \/ Erred
    PROVE  /\ won' \in [Call -> Nat] /\ memo' \subseteq Call
           /\ \A c \in Call : won'[c] = IF c \in memo' THEN 1 ELSE 0
<1>1. CASE Answered(call)
  BY <1>1 DEF Answered, IInv, TypeOK, RunnerInv
<1>2. CASE Erred
  BY <1>2 DEF Erred, IInv, TypeOK, RunnerInv
<1>3. QED BY <1>1, <1>2

\* Every step of the runner outside a handler keeps the invariant.
LEMMA RunnerStep ==
    ASSUME IInv, Decline \/ Mishandle \/ Write \/ Run PROVE IInv'
<1> USE BoundFacts, WriterFacts
<1>0. stage = "tools" /\ Head(pending) \in Call /\ looking = 0 /\ asking = 0 /\ stray["book"] = 0
  <2>1. stage = "tools"
    BY DEF Decline, Mishandle, Write, Run, Admit
  <2>2. pending \in Seq(Call) /\ pending # <<>> /\ looking = 0 /\ asking = 0 /\ stray["book"] = 0
    BY <2>1 DEF IInv, TypeOK, ReadInv
  <2>3. QED BY <2>1, <2>2, PendingFacts
<1> DEFINE call == Head(pending)
<1>1. CASE Decline
  <2>1. NextCall /\ UNCHANGED <<spent, drafted, counts, memo, won, fetched, looking, asking, told, stray>>
    BY <1>1 DEF Decline, runner, reading, readers
  <2>2. TypeOK'
    BY <1>0, <2>1, NextCallKeeps DEF IInv, TypeOK
  <2>3. RequestInv'
    BY <1>0, <2>1, NextCallKeeps DEF IInv, RequestInv
  <2>4. ReadInv'
    BY <1>0, <2>1, NextCallKeeps, ReadKept
  <2>5. QED BY <2>1, <2>2, <2>3, <2>4 DEF IInv, RunnerInv
<1>2. CASE Mishandle
  <2>1. Admit(call) /\ FailTurn
    BY <1>2 DEF Mishandle
  <2>2. UNCHANGED <<late, pending, toolsCalled, rounds, spent, asked, drafted, memo, won, fetched,
                    looking, asking, told, stray>>
    BY <1>2 DEF Mishandle, budget, reading, readers
  <2>3. RunnerInv'
    BY <1>0, <2>1, <2>2, AdmitFacts DEF IInv, RunnerInv
  <2>4. TypeOK'
    BY <1>0, <2>1, <2>2, AdmitFacts DEF FailTurn, IInv, TypeOK, Reason
  <2>5. counts'[Writer] >= counts[Writer] /\ counts'[Writer] \in Nat /\ counts[Writer] \in Nat
    BY <1>0, <2>1, AdmitFacts DEF IInv, TypeOK
  <2>6. RequestInv'
    BY <1>0, <2>1, <2>2, <2>5 DEF FailTurn, IInv, TypeOK, RequestInv
  <2>7. ReadInv'
    BY <1>0, <2>1, <2>2, ReadKept DEF FailTurn
  <2>8. QED BY <2>3, <2>4, <2>6, <2>7 DEF IInv
<1>3. CASE Write
  <2>1. PICK n \in 0..2 :
           /\ call[1] = Writer /\ Admit(call)
           /\ Answered(call) \/ Erred
           /\ drafted' = drafted + n
           /\ spent' \in spent..(spent + n) /\ spent' <= MaxTokens
    BY <1>3 DEF Write
  <2>2. NextCall /\ UNCHANGED <<fetched, looking, asking, told, stray>>
    BY <1>3 DEF Write, reading, readers
  <2>3. RunnerInv'
    BY <1>0, <2>1, AdmitFacts, AnsweredFacts DEF RunnerInv
  <2>4. spent' \in 0..MaxTokens /\ drafted' \in Nat
    BY <2>1 DEF IInv, TypeOK
  <2>5. TypeOK'
    BY <1>0, <2>1, <2>2, <2>4, NextCallKeeps, AdmitFacts, AnsweredFacts DEF IInv, TypeOK
  <2>6. drafted' <= 2 * counts'[Writer]
    <3>1. counts'[Writer] = counts[Writer] + 1 /\ counts[Writer] \in Nat /\ drafted \in Nat
      BY <1>0, <2>1, AdmitFacts DEF IInv, TypeOK
    <3>2. drafted <= 2 * counts[Writer]
      BY DEF IInv, RequestInv
    <3>3. QED BY <2>1, <3>1, <3>2
  <2>7. RequestInv'
    BY <1>0, <2>2, <2>6, NextCallKeeps DEF RequestInv
  <2>8. ReadInv'
    BY <1>0, <2>2, NextCallKeeps, ReadKept
  <2>9. QED BY <2>3, <2>5, <2>7, <2>8 DEF IInv
<1>4. CASE Run
  <2>1. call[1] # Writer /\ call[2] \in Arg /\ Admit(call) /\ looking' = Readers(call) /\ stage' = "handler"
    BY <1>0, <1>4, CallFacts DEF Run
  <2>2. UNCHANGED <<late, pending, toolsCalled, rounds, spent, asked, drafted, memo, won, fetched,
                    asking, told, stray, retried, partial, final, reason, failed>>
    BY <1>4 DEF Run, budget, texts
  <2>3. RunnerInv'
    BY <1>0, <2>1, <2>2, AdmitFacts DEF IInv, RunnerInv
  <2>4. Readers(call) \in 1..2 /\ (call[1] \in AccountTool => Readers(call) = 1)
    BY ReaderAssumption DEF Readers
  <2>5. TypeOK'
    BY <1>0, <2>1, <2>2, <2>4, AdmitFacts DEF IInv, TypeOK
  <2>6. counts'[Writer] = counts[Writer]
    BY <1>0, <2>1, AdmitFacts
  <2>7. RequestInv'
    BY <1>0, <2>1, <2>2, <2>6 DEF IInv, RequestInv
  <2>8. ReadInv'
    <3>1. Current' = call /\ call \notin memo' /\ call[1] \in Tool
      BY <1>0, <2>1, <2>2, AdmitFacts DEF Current
    <3>2. pending' # <<>>
      BY <1>0, <2>2 DEF IInv, ReadInv
    <3>3. QED BY <1>0, <2>1, <2>2, <2>4, <3>1, <3>2 DEF ReadInv
  <2>9. QED BY <2>3, <2>5, <2>7, <2>8 DEF IInv
<1>5. QED BY <1>1, <1>2, <1>3, <1>4

\* What a handler's step starts from.
LEMMA HandlerFacts ==
    ASSUME IInv, stage = "handler"
    PROVE  /\ Current \in Call /\ Current[1] \in Tool /\ Current[2] \in Arg /\ Current \notin memo
           /\ Reads(Current) \in Item
           /\ Reads(Current) = "book" <=> Current[1] \in AccountTool
           /\ Current[1] \in AccountTool =>
                looking + asking <= 1 /\ (asking > 0 => fetched["book"] = "unasked")
           /\ looking \in 0..2 /\ asking \in 0..2 /\ looking + asking <= 2 /\ pending # <<>>
<1>1. pending \in Seq(Call) /\ pending # <<>>
  BY DEF IInv, TypeOK, ReadInv
<1>2. Current \in Call
  BY <1>1, PendingFacts DEF Current
<1>3. QED BY <1>1, <1>2, CallAssumption DEF IInv, TypeOK, ReadInv, Reads, Item

\* Sums of readers.
LEMMA Fewer ==
    ASSUME NEW a \in 0..2, NEW b \in 0..2, NEW c \in 0..2, NEW d \in 0..2, NEW n \in Nat,
           c + d <= a + b, a + b <= n
    PROVE  c + d <= n
OBVIOUS

\* A reader's step, of the handler or left behind, keeps the invariant.
LEMMA ReaderStep ==
    ASSUME IInv, Look \/ Land \/ Drop \/ StrayLands PROVE IInv'
<1>1. /\ UNCHANGED <<stage, late, pending, toolsCalled, rounds, spent, asked, drafted, counts, memo, won,
                     retried, partial, final, reason, failed>>
      /\ Current' = Current
  BY DEF Look, Land, Drop, StrayLands, budget, runner, texts, Current
<1>2. RunnerInv' /\ RequestInv'
  BY <1>1 DEF IInv, RunnerInv, RequestInv
<1>3. /\ fetched \in [Item -> Answers \cup {"unasked"}] /\ stray \in [Item -> Nat]
      /\ looking \in 0..2 /\ asking \in 0..2 /\ told \in BOOLEAN
      /\ "book" \in Item /\ "missing" \in Answers /\ stray["book"] = 0
  BY DEF IInv, TypeOK, ReadInv, Item, Answers
<1> DEFINE item == Reads(Current)
<1>4. ASSUME stage = "handler", stray' = stray, looking' \in 0..2, asking' \in 0..2,
             looking' + asking' <= looking + asking,
             fetched'["book"] # fetched["book"] => item = "book" /\ asking' = 0,
             asking' <= asking \/ fetched[item] = "unasked"
      PROVE  ReadInv'
  <2>0. /\ looking \in 0..2 /\ asking \in 0..2 /\ looking + asking <= 2
        /\ looking' \in 0..2 /\ asking' \in 0..2 /\ looking' + asking' <= looking + asking
    BY <1>4, HandlerFacts
  <2>1. Current[1] \in AccountTool =>
           looking' + asking' <= 1 /\ (asking' > 0 => fetched'["book"] = "unasked")
    <3> SUFFICES ASSUME Current[1] \in AccountTool
                 PROVE  looking' + asking' <= 1 /\ (asking' > 0 => fetched'["book"] = "unasked")
      OBVIOUS
    <3>1. item = "book" /\ looking + asking <= 1 /\ (asking > 0 => fetched["book"] = "unasked")
      BY <1>4, HandlerFacts
    <3>2. looking' + asking' <= 1
      BY <2>0, <3>1, Fewer
    <3>3. ASSUME asking' > 0 PROVE fetched'["book"] = "unasked"
      <4>1. fetched'["book"] = fetched["book"]
        BY <1>4, <3>3
      <4>2. asking > 0 \/ fetched["book"] = "unasked"
        BY <1>3, <1>4, <3>1, <3>3
      <4>3. QED BY <3>1, <4>1, <4>2
    <3>4. QED BY <3>2, <3>3
  <2>2. looking' + asking' <= 2
    BY <2>0, Fewer
  <2>3. QED BY <1>1, <1>3, <1>4, <2>1, <2>2, HandlerFacts DEF ReadInv
<1>5. CASE Look
  <2>1. stage = "handler" /\ looking > 0 /\ looking' = looking - 1 /\ stray' = stray
    BY <1>5 DEF Look
  <2>2. \/ /\ asking' = asking /\ fetched' = fetched /\ told' \in BOOLEAN
        \/ /\ item = "book" /\ asking' = asking /\ told' = told
           /\ fetched' = [fetched EXCEPT ![item] = "missing"]
        \/ fetched[item] = "unasked" /\ asking' = asking + 1 /\ fetched' = fetched /\ told' = told
    BY <1>3, <1>5 DEF Look, Tell
  <2>3. looking \in 0..2 /\ asking \in 0..2 /\ looking + asking <= 2 /\ item \in Item
    BY <2>1, HandlerFacts
  <2>4. looking' \in 0..2 /\ asking' \in 0..2 /\ looking' + asking' <= looking + asking
    BY <2>1, <2>2, <2>3
  <2>5. fetched'["book"] # fetched["book"] => item = "book" /\ asking' = 0
    <3>1. ASSUME item = "book" PROVE asking' = 0 \/ fetched' = fetched
      <4>1. looking + asking <= 1
        BY <2>1, <3>1, HandlerFacts
      <4>2. asking = 0
        BY <2>1, <2>3, <4>1
      <4>3. QED BY <2>2, <4>2
    <3>2. QED BY <2>2, <3>1
  <2>6. asking' <= asking \/ fetched[item] = "unasked"
    BY <2>2, <2>3
  <2>7. ReadInv'
    BY <1>4, <2>1, <2>4, <2>5, <2>6
  <2>8. fetched' \in [Item -> Answers \cup {"unasked"}] /\ told' \in BOOLEAN
    BY <1>3, <2>2
  <2>9. QED BY <1>1, <1>2, <1>3, <2>1, <2>4, <2>7, <2>8 DEF IInv, TypeOK
<1>6. CASE Land \/ Drop
  <2>1. stage = "handler" /\ asking > 0 /\ asking' = asking - 1 /\ looking' = looking /\ stray' = stray
    BY <1>6 DEF Land, Drop
  <2>2. \/ fetched' = fetched /\ told' = told
        \/ \E answer \in Answers : fetched' = [fetched EXCEPT ![item] = answer] /\ told' \in BOOLEAN
    BY <1>3, <1>6 DEF Land, Drop, Tell
  <2>3. looking \in 0..2 /\ asking \in 0..2 /\ looking + asking <= 2 /\ item \in Item
    BY <2>1, HandlerFacts
  <2>4. looking' \in 0..2 /\ asking' \in 0..2 /\ looking' + asking' <= looking + asking /\ asking' <= asking
    BY <2>1, <2>3
  <2>5. fetched'["book"] # fetched["book"] => item = "book" /\ asking' = 0
    <3>1. ASSUME item = "book" PROVE asking' = 0
      <4>1. looking + asking <= 1
        BY <2>1, <3>1, HandlerFacts
      <4>2. QED BY <2>1, <2>3, <4>1
    <3>2. QED BY <1>3, <2>2, <3>1
  <2>6. ReadInv'
    BY <1>4, <2>1, <2>4, <2>5
  <2>7. fetched' \in [Item -> Answers \cup {"unasked"}] /\ told' \in BOOLEAN
    BY <1>3, <2>2
  <2>8. QED BY <1>1, <1>2, <1>3, <2>1, <2>4, <2>6, <2>7 DEF IInv, TypeOK
<1>7. CASE StrayLands
  <2>1. PICK i \in Item :
           /\ stray[i] > 0 /\ stray' = [stray EXCEPT ![i] = @ - 1]
           /\ \/ \E answer \in Answers : fetched' = [fetched EXCEPT ![i] = answer]
              \/ UNCHANGED fetched
    BY <1>7 DEF StrayLands
  <2>2. UNCHANGED <<looking, asking, told>>
    BY <1>7 DEF StrayLands, readers
  <2>3. i # "book"
    BY <1>3, <2>1
  <2>4. fetched'["book"] = fetched["book"] /\ stray'["book"] = 0
    BY <1>3, <2>1, <2>3
  <2>5. fetched' \in [Item -> Answers \cup {"unasked"}] /\ stray' \in [Item -> Nat]
    BY <1>3, <2>1
  <2>6. ReadInv'
    BY <1>1, <2>2, <2>4 DEF IInv, ReadInv
  <2>7. QED BY <1>1, <1>2, <2>2, <2>5, <2>6 DEF IInv, TypeOK
<1>8. QED BY <1>5, <1>6, <1>7

\* The step that ends a handler, well or by an exception, keeps the invariant.
LEMMA HandlerEnds == ASSUME IInv, Break \/ Finish PROVE IInv'
<1>1. /\ stage = "handler" /\ NextCall
      /\ looking = 0 /\ looking' = looking /\ asking' = 0 /\ told' = FALSE
      /\ UNCHANGED <<spent, drafted, counts, fetched>>
  BY DEF Break, Finish, runner
<1>2. RunnerInv' /\ won' \in [Call -> Nat] /\ memo' \subseteq Call
  <2>1. CASE Break
    BY <2>1 DEF Break, runner, IInv, TypeOK, RunnerInv
  <2>2. CASE Finish
    <3>1. Answered(Current) \/ Erred
      BY <2>2 DEF Finish
    <3>2. Current \in Call /\ Current \notin memo
      BY <1>1, HandlerFacts
    <3>3. QED BY <1>1, <3>1, <3>2, AnsweredFacts DEF IInv, RunnerInv
  <2>3. QED BY <2>1, <2>2
<1>3. stray' \in [Item -> Nat] /\ stray'["book"] = 0
  <2>1. stray \in [Item -> Nat] /\ stray["book"] = 0 /\ asking \in 0..2
    BY DEF IInv, TypeOK, ReadInv
  <2>2. CASE Break
    <3>1. /\ asking > 0 /\ Current[1] \notin AccountTool
          /\ stray' = [stray EXCEPT ![Reads(Current)] = @ + asking - 1]
      BY <2>2 DEF Break
    <3>2. Reads(Current) # "book" /\ Reads(Current) \in Item
      BY <1>1, <3>1, HandlerFacts
    <3>3. QED BY <2>1, <3>1, <3>2
  <2>3. CASE Finish
    BY <2>1, <2>3 DEF Finish
  <2>4. QED BY <2>2, <2>3
<1>4. TypeOK'
  BY <1>1, <1>2, <1>3, NextCallKeeps DEF IInv, TypeOK
<1>5. RequestInv'
  BY <1>1, NextCallKeeps DEF IInv, RequestInv
<1>6. ReadInv'
  BY <1>1, <1>3, NextCallKeeps DEF ReadInv
<1>7. QED BY <1>2, <1>4, <1>5, <1>6 DEF IInv

\* Every step keeps the invariant.
LEMMA StepInv == IInv /\ [Next]_vars => IInv'
<1> SUFFICES ASSUME IInv, [Next]_vars PROVE IInv'
  OBVIOUS
<1>1. CASE TimePasses \/ UNCHANGED vars
  BY <1>1 DEF TimePasses, vars, budget, runner, reading, readers, texts, Current,
     IInv, TypeOK, RunnerInv, RequestInv, ReadInv
<1>2. QED BY <1>1, LoopStep, RunnerStep, ReaderStep, HandlerEnds DEF Next, Turn

\* The inductive invariant of a turn: types, the runner's tables, the requests
\* of the turn and of its handlers, and the readers at work.
THEOREM TurnInvariant == Spec => []IInv
<1>1. IInv /\ [Next]_vars => IInv'
  BY StepInv
<1>2. QED BY <1>1, InitInv, PTL DEF Spec

\* Every variable of a turn keeps its type, whatever the model answers.
THEOREM TypeCorrect == Spec => []TypeOK
<1>1. IInv => TypeOK
  BY DEF IInv
<1>2. QED BY <1>1, TurnInvariant, PTL

\* ToolRunner.run: however often the model repeats itself, no tool runs more
\* often than its budget allows and no answered call is worked out again.
THEOREM RunsAreBounded == Spec => []NoWastedRuns
<1>1. IInv => NoWastedRuns
  BY DEF IInv, RunnerInv, NoWastedRuns
<1>2. QED BY <1>1, TurnInvariant, PTL

\* Budget and the loop: a turn sends the model at most MaxRounds + 2 requests
\* itself, the front desk's, the account check's retry and the wrap-up's
\* included, and its handlers two for every run of the tool that asks the model.
THEOREM SpendingIsBounded == Spec => []RequestsAreBounded
<1>1. IInv => RequestsAreBounded
  <2>1. ASSUME IInv PROVE asked <= MaxRounds + 2
    BY <2>1, BoundFacts DEF IInv, TypeOK, RequestInv
  <2>2. ASSUME IInv, stage = "done", reason = "none" PROVE asked <= MaxRounds + 1
    BY <2>2 DEF IInv, RequestInv
  <2>3. ASSUME IInv PROVE drafted <= 2 * counts[Writer]
    BY <2>3 DEF IInv, RequestInv
  <2>4. QED BY <2>1, <2>2, <2>3 DEF RequestsAreBounded
<1>2. QED BY <1>1, TurnInvariant, PTL

\* In figures: whatever the model says and asks for, a turn and its handlers send
\* it at most MaxRounds + 2 + 2 * MaxCalls requests.
THEOREM RequestsInAll == Spec => [](asked + drafted <= MaxRounds + 2 + 2 * MaxCalls)
<1>1. IInv => asked + drafted <= MaxRounds + 2 + 2 * MaxCalls
  <2> SUFFICES ASSUME IInv PROVE asked + drafted <= MaxRounds + 2 + 2 * MaxCalls
    OBVIOUS
  <2>1. asked \in Nat /\ drafted \in Nat /\ asked <= MaxRounds + 2
    BY BoundFacts DEF IInv, TypeOK, RequestInv
  <2>2. counts[Writer] \in Nat /\ counts[Writer] <= MaxCalls /\ drafted <= 2 * counts[Writer]
    BY WriterFacts DEF IInv, TypeOK, RunnerInv, RequestInv
  <2>3. QED BY <2>1, <2>2, BoundFacts
<1>2. QED BY <1>1, TurnInvariant, PTL

\* Together: the work of a turn is bounded for every tool, call and budget.
THEOREM WorkBounded == Spec => []WorkIsBounded
<1>1. TypeOK /\ NoWastedRuns /\ RequestsAreBounded => WorkIsBounded
  BY DEF WorkIsBounded
<1>2. QED BY <1>1, TypeCorrect, RunsAreBounded, SpendingIsBounded, PTL

\* A step of a handler's reader, or its end, leaves a settled frame as it is.
LEMMA SettledStays ==
    ASSUME IInv, Look \/ Land \/ Drop \/ Break \/ Finish, stage = "handler",
           NEW i \in Arg, fetched[i] # "unasked", ~Landing(i)
    PROVE  fetched'[i] = fetched[i] /\ ~Landing(i)'
<1> DEFINE item == Reads(Current)
<1>1. /\ fetched \in [Item -> Answers \cup {"unasked"}] /\ stray \in [Item -> Nat]
      /\ asking \in 0..2 /\ i \in Item /\ item \in Item
  BY HandlerFacts DEF IInv, TypeOK, Item
<1>2. stray[i] = 0 /\ (item = i => asking = 0)
  BY <1>1 DEF Landing
<1>3. CASE Look
  <2>1. stage' = stage /\ Current' = Current /\ stray' = stray
    BY <1>3 DEF Look, Current
  <2>2. \/ asking' = asking /\ fetched' = fetched
        \/ fetched[item] = "unasked" /\ asking' = asking /\ fetched' = [fetched EXCEPT ![item] = "missing"]
        \/ fetched[item] = "unasked" /\ asking' = asking + 1 /\ fetched' = fetched
    BY <1>3 DEF Look
  <2>3. fetched'[i] = fetched[i] /\ (item = i => asking' = 0)
    BY <1>1, <1>2, <2>2
  <2>4. Reads(Current)' = item
    BY <2>1 DEF Reads
  <2>5. QED BY <1>2, <2>1, <2>3, <2>4 DEF Landing
<1>4. CASE Land \/ Drop
  <2>1. stage' = stage /\ Current' = Current /\ stray' = stray /\ asking > 0
    BY <1>4 DEF Land, Drop, Current
  <2>2. item # i /\ (fetched' = fetched \/ \E answer \in Answers : fetched' = [fetched EXCEPT ![item] = answer])
    BY <1>2, <1>4, <2>1 DEF Land, Drop
  <2>3. Reads(Current)' = item
    BY <2>1 DEF Reads
  <2>4. QED BY <1>1, <1>2, <2>1, <2>2, <2>3 DEF Landing
<1>5. CASE Break
  <2>1. /\ fetched' = fetched /\ stage' # "handler" /\ asking > 0
        /\ stray' = [stray EXCEPT ![item] = @ + asking - 1]
    BY <1>5 DEF Break, NextCall
  <2>2. item # i
    BY <1>2, <2>1
  <2>3. QED BY <1>1, <1>2, <2>1, <2>2 DEF Landing
<1>6. CASE Finish
  <2>1. fetched' = fetched /\ stray' = stray /\ stage' # "handler"
    BY <1>6 DEF Finish, NextCall
  <2>2. QED BY <1>2, <2>1 DEF Landing
<1>7. QED BY <1>3, <1>4, <1>5, <1>6

\* TradingContextClient and ToolContext.frame: what a turn was told of the account,
\* a failure included, is what every later tool of it is told, and so is what it was
\* told of a frame, once nobody is left who asked for it earlier; though looking,
\* awaiting and storing are three steps, whatever sources answer or raise, for any
\* tools, provided those of the account read the book once.
THEOREM SnapshotsHoldForAll == Spec => SnapshotsHold
<1>1. ASSUME IInv, Next PROVE BookStays
  <2> SUFFICES ASSUME fetched["book"] # "unasked" PROVE fetched'["book"] = fetched["book"]
    BY DEF BookStays
  <2>0. fetched \in [Item -> Answers \cup {"unasked"}] /\ stray["book"] = 0 /\ asking \in 0..2
        /\ "book" \in Item
    BY <1>1 DEF IInv, TypeOK, ReadInv, Item
  <2>1. CASE Look
    BY <2>0, <2>1 DEF Look
  <2>2. CASE Land
    <3>1. PICK answer \in Answers : fetched' = [fetched EXCEPT ![Reads(Current)] = answer]
      BY <2>2 DEF Land
    <3>2. Reads(Current) # "book"
      BY <1>1, <2>2, HandlerFacts DEF Land
    <3>3. QED BY <2>0, <3>1, <3>2
  <2>3. CASE StrayLands
    <3>1. PICK i \in Item :
             /\ stray[i] > 0
             /\ \/ \E answer \in Answers : fetched' = [fetched EXCEPT ![i] = answer]
                \/ UNCHANGED fetched
      BY <2>3 DEF StrayLands
    <3>2. i # "book"
      BY <2>0, <3>1
    <3>3. QED BY <2>0, <3>1, <3>2
  <2>4. CASE UNCHANGED fetched
    BY <2>4
  <2>5. QED
    BY <1>1, <2>1, <2>2, <2>3, <2>4 DEF Next, Triage, WrapUp, Answer, CallTools, ModelFails,
       Decline, Mishandle, Write, Run, Drop, Break, Finish, TimePasses, Turn, reading
<1>2. ASSUME IInv, Next PROVE FramesSettle
  <2> SUFFICES ASSUME NEW i \in Arg, fetched[i] # "unasked", ~Landing(i)
               PROVE  fetched'[i] = fetched[i] /\ ~Landing(i)'
    BY DEF FramesSettle
  <2>0. /\ fetched \in [Item -> Answers \cup {"unasked"}] /\ stray \in [Item -> Nat] /\ i \in Item
        /\ stray[i] = 0
    BY <1>2 DEF IInv, TypeOK, Item, Landing
  <2>1. CASE Look \/ Land \/ Drop \/ Break \/ Finish
    BY <1>2, <2>1, SettledStays DEF Look, Land, Drop, Break, Finish
  <2>2. CASE StrayLands
    <3>1. PICK k \in Item :
             /\ stray[k] > 0 /\ stray' = [stray EXCEPT ![k] = @ - 1]
             /\ \/ \E answer \in Answers : fetched' = [fetched EXCEPT ![k] = answer]
                \/ UNCHANGED fetched
      BY <2>2 DEF StrayLands
    <3>2. k # i
      BY <2>0, <3>1
    <3>3. UNCHANGED <<stage, pending, asking>>
      BY <2>2 DEF StrayLands, readers
    <3>4. Reads(Current)' = Reads(Current)
      BY <3>3 DEF Reads, Current
    <3>5. QED BY <2>0, <3>1, <3>2, <3>3, <3>4 DEF Landing
  <2>3. CASE /\ stage # "handler" /\ UNCHANGED <<fetched, asking, stray>>
    <3>1. asking = 0
      BY <1>2, <2>3 DEF IInv, ReadInv
    <3>2. QED BY <2>0, <2>3, <3>1 DEF Landing
  <2>4. CASE TimePasses
    <3>1. UNCHANGED <<stage, pending, asking, fetched, stray>>
      BY <2>4 DEF TimePasses, reading, readers
    <3>2. Reads(Current)' = Reads(Current)
      BY <3>1 DEF Reads, Current
    <3>3. QED BY <3>1, <3>2 DEF Landing
  <2>5. QED
    BY <1>2, <2>1, <2>2, <2>3, <2>4 DEF Next, Triage, WrapUp, StartRound, Answer, CallTools, ModelFails,
       Decline, Mishandle, Write, Run, Turn, reading, readers
<1>3. [Next]_vars /\ IInv => [BookStays /\ FramesSettle]_vars
  BY <1>1, <1>2
<1>4. QED BY <1>3, TurnInvariant, PTL DEF Spec, SnapshotsHold
(* Where figures come from: every account tool on the orchestrator's list has *)
(* run, be it in an earlier call that this one repeats; and an answer that    *)
(* states figures without any was given another way round, or a second time.  *)
FigureInv ==
    /\ \A c \in memo : c[1] \in Tool /\ counts[c[1]] > 0
    /\ \A t \in toolsCalled : counts[t] > 0
    /\ stage = "handler" => counts[Current[1]] > 0
    /\ stage # "done" => final = "none" /\ ~failed
    /\ ~failed => reason \in {"none", "answered_by_triage", "rounds", "time", "tokens"}
    /\ ~failed /\ final = "figures" => reason # "none" \/ retried \/ toolsCalled # {}

LEMMA FigureInitInv == Init => FigureInv
BY DEF Init, FigureInv

\* The next call of a response: what is listed has run.
LEMMA ListedRan ==
    ASSUME IInv, FigureInv, stage \in {"tools", "handler"}, NextCall,
           counts' \in [Tool -> Nat], \A t \in Tool : counts'[t] >= counts[t],
           Head(pending)[1] \in AccountTool => counts'[Head(pending)[1]] > 0,
           \A c \in memo' : c \in memo \/ (c[1] \in Tool /\ counts'[c[1]] > 0)
    PROVE  FigureInv'
<1>1. /\ toolsCalled' = toolsCalled \cup ({Head(pending)[1]} \cap AccountTool)
      /\ stage' \in {"loop", "tools"} /\ UNCHANGED <<retried, final, reason, failed>>
  BY DEF NextCall, texts
<1>2. counts \in [Tool -> Nat] /\ toolsCalled \subseteq Tool
  <2>1. counts \in [Tool -> Nat] /\ toolsCalled \subseteq AccountTool /\ AccountTool \subseteq Tool
    BY ToolAssumption DEF IInv, TypeOK
  <2>2. QED BY <2>1
<1>3. \A t \in Tool : counts[t] > 0 => counts'[t] > 0
  BY <1>2
<1>4. QED BY <1>1, <1>2, <1>3 DEF FigureInv

\* The account check, and what gets round it, keep it.
LEMMA LoopFigures ==
    ASSUME IInv, FigureInv, Triage \/ WrapUp \/ Answer \/ CallTools \/ ModelFails
    PROVE  FigureInv'
<1>1. UNCHANGED <<counts, memo, toolsCalled>> /\ stage \in {"triage", "loop"} /\ reason = "none"
  BY DEF Triage, WrapUp, Answer, CallTools, ModelFails, StartRound, runner, IInv, RequestInv
<1>2. CASE Triage \/ WrapUp \/ ModelFails
  <2>1. \/ /\ stage' = "done" /\ reason' \in {"answered_by_triage", "rounds", "time", "tokens"}
           /\ failed' = failed
        \/ stage' = "done" /\ failed' = TRUE
        \/ stage' = "loop" /\ UNCHANGED <<retried, final, reason, failed>>
    BY <1>2 DEF Triage, WrapUp, ModelFails, FailTurn, Exhausted, texts
  <2>2. QED BY <1>1, <2>1 DEF FigureInv
<1>3. CASE Answer
  <2>1. PICK text \in Text :
          IF ~retried /\ Unverified(text)
          THEN retried' = TRUE /\ UNCHANGED <<stage, final>>
          ELSE final' = text /\ stage' = "done" /\ UNCHANGED retried
    BY <1>3 DEF Answer
  <2>2. UNCHANGED <<reason, failed>>
    BY <1>3 DEF Answer
  <2>3. QED BY <1>1, <2>1, <2>2 DEF FigureInv, Unverified
<1>4. CASE CallTools
  <2>1. stage' = "tools" /\ UNCHANGED <<retried, final, reason, failed>>
    BY <1>4 DEF CallTools
  <2>2. QED BY <1>1, <2>1 DEF FigureInv
<1>5. QED BY <1>2, <1>3, <1>4

\* Calls that are declined, admitted or written keep it.
LEMMA RunnerFigures ==
    ASSUME IInv, FigureInv, Decline \/ Mishandle \/ Write \/ Run PROVE FigureInv'
<1> DEFINE call == Head(pending)
<1>0. stage = "tools" /\ call \in Call /\ counts \in [Tool -> Nat] /\ MaxCalls > 0 /\ MaxCalls \in Nat
  <2>1. stage = "tools"
    BY DEF Decline, Mishandle, Write, Run, Admit
  <2>2. pending \in Seq(Call) /\ pending # <<>> /\ counts \in [Tool -> Nat]
    BY <2>1 DEF IInv, TypeOK, ReadInv
  <2>3. QED BY <2>1, <2>2, PendingFacts, BoundFacts
<1> HIDE DEF call
<1>1. CASE Decline
  <2>1. NextCall /\ UNCHANGED <<counts, memo>>
    BY <1>1 DEF Decline, runner
  <2>2. call[1] \notin Tool \/ call \in memo \/ counts[call[1]] >= MaxCalls
    BY <1>1 DEF Decline, Repeat, Refused, call
  <2>3. ASSUME call[1] \in AccountTool PROVE counts[call[1]] > 0
    <3>1. call[1] \in Tool
      BY <2>3, ToolAssumption
    <3>2. counts[call[1]] \in Nat
      BY <1>0, <3>1
    <3>3. QED BY <1>0, <2>2, <3>1, <3>2 DEF FigureInv
  <2>4. counts' \in [Tool -> Nat] /\ \A t \in Tool : counts'[t] >= counts[t]
    BY <1>0, <2>1
  <2>5. QED BY <1>0, <2>1, <2>3, <2>4, ListedRan DEF call
<1>2. ASSUME Admit(call)
      PROVE  /\ counts' \in [Tool -> Nat] /\ \A t \in Tool : counts'[t] >= counts[t]
             /\ call[1] \in Tool /\ counts'[call[1]] > 0
  <2>1. /\ counts' \in [Tool -> Nat] /\ call[1] \in Tool
        /\ \A t \in Tool : counts'[t] = IF t = call[1] THEN counts[t] + 1 ELSE counts[t]
    BY <1>0, <1>2, AdmitFacts
  <2>2. QED BY <1>0, <2>1
<1>3. CASE Mishandle
  <2>1. /\ Admit(call) /\ stage' = "done" /\ failed' = TRUE /\ UNCHANGED <<memo, toolsCalled>>
    BY <1>3 DEF Mishandle, FailTurn, call
  <2>2. \A t \in Tool : counts[t] > 0 => counts'[t] > 0
    BY <1>0, <1>2, <2>1
  <2>3. toolsCalled \subseteq Tool
    BY ToolAssumption DEF IInv, TypeOK
  <2>4. QED BY <2>1, <2>2, <2>3 DEF FigureInv
<1>4. CASE Write
  <2>1. Admit(call) /\ NextCall /\ (Answered(call) \/ Erred)
    BY <1>4 DEF Write, call
  <2>2. \A c \in memo' : c \in memo \/ c = call
    BY <2>1 DEF Answered, Erred
  <2>3. QED BY <1>0, <1>2, <2>1, <2>2, ListedRan DEF call
<1>5. CASE Run
  <2>1. /\ Admit(call) /\ stage' = "handler" /\ Current' = call
        /\ UNCHANGED <<memo, toolsCalled, retried, final, reason, failed>>
    BY <1>5 DEF Run, texts, Current, call
  <2>2. \A t \in Tool : counts[t] > 0 => counts'[t] > 0
    BY <1>0, <1>2, <2>1
  <2>3. toolsCalled \subseteq Tool
    BY ToolAssumption DEF IInv, TypeOK
  <2>4. QED BY <1>0, <1>2, <2>1, <2>2, <2>3 DEF FigureInv
<1>6. QED BY <1>1, <1>3, <1>4, <1>5

\* So do a handler's steps and its end.
LEMMA HandlerFigures ==
    ASSUME IInv, FigureInv, Look \/ Land \/ Drop \/ StrayLands \/ Break \/ Finish PROVE FigureInv'
<1>1. CASE Look \/ Land \/ Drop \/ StrayLands
  <2>1. UNCHANGED <<stage, pending, toolsCalled, counts, memo, retried, final, reason, failed>>
    BY <1>1 DEF Look, Land, Drop, StrayLands, runner, texts
  <2>2. QED BY <2>1 DEF FigureInv, Current
<1>2. CASE Break \/ Finish
  <2>1. /\ stage = "handler" /\ NextCall /\ counts' = counts
        /\ \A c \in memo' : c \in memo \/ c = Current
    BY <1>2 DEF Break, Finish, Answered, Erred, runner
  <2>2. Current[1] \in Tool /\ counts[Current[1]] > 0 /\ Current = Head(pending)
    BY <2>1, HandlerFacts DEF FigureInv, Current
  <2>3. counts' \in [Tool -> Nat] /\ \A t \in Tool : counts'[t] >= counts[t]
    BY <2>1 DEF IInv, TypeOK
  <2>4. QED BY <2>1, <2>2, <2>3, ListedRan
<1>3. QED BY <1>1, <1>2

\* The check of account figures: whatever the model asks for and says, figures that
\* reach the user come after an account tool has run, but for the four ways round it
\* that FiguresChecked names.
THEOREM FiguresAreChecked == Spec => []FiguresChecked
<1>1. IInv /\ FigureInv /\ [Next]_vars => FigureInv'
  <2> SUFFICES ASSUME IInv, FigureInv, [Next]_vars PROVE FigureInv'
    OBVIOUS
  <2>1. CASE TimePasses \/ UNCHANGED vars
    BY <2>1 DEF TimePasses, vars, runner, texts, Current, FigureInv
  <2>2. QED BY <2>1, LoopFigures, RunnerFigures, HandlerFigures DEF Next, Turn
<1>2. IInv /\ FigureInv => FiguresChecked
  <2> SUFFICES ASSUME IInv, FigureInv, stage = "done", Said = "figures"
               PROVE  \/ \E t \in AccountTool : counts[t] > 0
                      \/ reason \in {"answered_by_triage", "rounds", "time", "tokens"}
                      \/ final = "none" \/ retried
    BY DEF FiguresChecked
  <2>1. ~failed /\ (final = "none" \/ final = "figures")
    BY DEF Said
  <2>2. toolsCalled \subseteq AccountTool
    BY DEF IInv, TypeOK
  <2>3. QED BY <2>1, <2>2 DEF FigureInv
<1>3. QED BY <1>1, <1>2, FigureInitInv, TurnInvariant, PTL DEF Spec
-----------------------------------------------------------------------------
(* The ceiling.                                                             *)

Message == [role : Role, size : Nat, stale : BOOLEAN]
Fits(ms) == Total(ms) <= Ceiling

\* The results in full among the first i messages.
FreshTo(ms, i) == {j \in 1..i : Fresh(ms[j])}
Count(ms, i) == Cardinality(FreshTo(ms, i))

LEMMA NoteFacts == Note \in Message /\ ~Fresh(Note) /\ Note.role = "tool" /\ Note.stale = TRUE
BY SizeAssumption DEF Note, Message, Fresh, Role

LEMMA CountFacts ==
    ASSUME NEW ms \in Seq(Message), NEW j \in 0..Len(ms)
    PROVE  /\ IsFiniteSet(FreshTo(ms, j)) /\ Count(ms, j) \in Nat
           /\ \A i \in 0..j : Count(ms, i) <= Count(ms, j)
           /\ j > 0 => Count(ms, j) = IF Fresh(ms[j]) THEN Count(ms, j - 1) + 1 ELSE Count(ms, j - 1)
           /\ j > 0 /\ Fresh(ms[j]) => \A i \in 0..(j - 1) : Count(ms, i) < Count(ms, j)
<1>1. Len(ms) \in Nat
  BY LenProperties
<1>2. ASSUME NEW i \in 0..Len(ms) PROVE IsFiniteSet(FreshTo(ms, i)) /\ Count(ms, i) \in Nat
  <2>1. IsFiniteSet(1..i)
    BY <1>1, FS_Interval
  <2>2. FreshTo(ms, i) \in SUBSET (1..i)
    BY DEF FreshTo
  <2>3. IsFiniteSet(FreshTo(ms, i))
    BY <2>1, <2>2, FS_Subset
  <2>4. QED BY <2>3, FS_CardinalityType DEF Count
<1>3. ASSUME NEW i \in 0..j PROVE Count(ms, i) <= Count(ms, j)
  <2>1. FreshTo(ms, i) \in SUBSET FreshTo(ms, j)
    BY <1>1 DEF FreshTo
  <2>2. QED BY <1>2, <2>1, FS_Subset DEF Count
<1>4. ASSUME j > 0 PROVE Count(ms, j) = IF Fresh(ms[j]) THEN Count(ms, j - 1) + 1 ELSE Count(ms, j - 1)
  <2>1. j - 1 \in 0..Len(ms) /\ 1..j = 1..(j - 1) \cup {j} /\ j \notin 1..(j - 1)
    BY <1>1, <1>4
  <2>2. FreshTo(ms, j) = IF Fresh(ms[j]) THEN FreshTo(ms, j - 1) \cup {j} ELSE FreshTo(ms, j - 1)
    BY <2>1 DEF FreshTo
  <2>3. j \notin FreshTo(ms, j - 1) /\ IsFiniteSet(FreshTo(ms, j - 1))
    BY <1>2, <2>1 DEF FreshTo
  <2>4. Cardinality(FreshTo(ms, j - 1) \cup {j}) = Cardinality(FreshTo(ms, j - 1)) + 1
    BY <2>3, FS_AddElement
  <2>5. QED BY <2>2, <2>4 DEF Count
<1>5. ASSUME j > 0, Fresh(ms[j]), NEW i \in 0..(j - 1) PROVE Count(ms, i) < Count(ms, j)
  <2>1. FreshTo(ms, i) \in SUBSET FreshTo(ms, j) /\ j \in FreshTo(ms, j) /\ j \notin FreshTo(ms, i)
    BY <1>1, <1>5 DEF FreshTo
  <2>2. i \in 0..Len(ms)
    BY <1>1
  <2>3. Count(ms, i) <= Count(ms, j) /\ Count(ms, i) # Count(ms, j)
    BY <1>2, <2>1, FS_Subset DEF Count
  <2>4. QED BY <1>2, <2>2, <2>3
<1>6. QED BY <1>2, <1>3, <1>4, <1>5

\* The first k results shed.
LEMMA ShedFirstFacts ==
    ASSUME NEW ms \in Seq(Message), NEW k \in Nat
    PROVE  /\ ShedFirst(ms, k) \in Seq(Message) /\ Len(ShedFirst(ms, k)) = Len(ms)
           /\ \A i \in 1..Len(ms) :
                 ShedFirst(ms, k)[i] = IF Fresh(ms[i]) /\ Count(ms, i) <= k THEN Note ELSE ms[i]
<1>1. Len(ms) \in Nat /\ DOMAIN ms = 1..Len(ms) /\ \A i \in 1..Len(ms) : ms[i] \in Message
  BY LenProperties
<1> DEFINE r == ShedFirst(ms, k)
<1>2. r = [i \in 1..Len(ms) |-> IF Fresh(ms[i]) /\ Count(ms, i) <= k THEN Note ELSE ms[i]]
  BY <1>1 DEF ShedFirst, Count, FreshTo
<1> HIDE DEF r
<1>3. \A i \in 1..Len(ms) : r[i] = IF Fresh(ms[i]) /\ Count(ms, i) <= k THEN Note ELSE ms[i]
  BY <1>2
<1>4. r \in [1..Len(ms) -> Message]
  BY <1>1, <1>2, NoteFacts
<1>5. r \in Seq(Message) /\ Len(r) = Len(ms)
  BY <1>1, <1>4
<1>6. QED BY <1>3, <1>5 DEF r

\* The walk of _enforce_ceiling has a list after every step.
LEMMA ShedFacts ==
    ASSUME NEW ms \in Seq(Message), NEW i \in 1..Len(ms)
    PROVE  /\ Shed(ms, i) \in Seq(Message) /\ Len(Shed(ms, i)) = Len(ms)
           /\ Fits(ms) \/ ~Fresh(ms[i]) => Shed(ms, i) = ms
           /\ ~Fits(ms) /\ Fresh(ms[i]) =>
                 \A j \in 1..Len(ms) : Shed(ms, i)[j] = IF j = i THEN Note ELSE ms[j]
<1>1. /\ [ms EXCEPT ![i] = Note] \in Seq(Message) /\ Len([ms EXCEPT ![i] = Note]) = Len(ms)
      /\ \A j \in 1..Len(ms) : [ms EXCEPT ![i] = Note][j] = IF j = i THEN Note ELSE ms[j]
  BY NoteFacts, ExceptSeq
<1>2. QED BY <1>1 DEF Shed, Fits

LEMMA AfterFacts ==
    ASSUME NEW ms \in Seq(Message)
    PROVE  /\ After(ms)[0] = ms
           /\ \A i \in 0..Len(ms) : After(ms)[i] \in Seq(Message) /\ Len(After(ms)[i]) = Len(ms)
           /\ \A i \in 1..Len(ms) : After(ms)[i] = Shed(After(ms)[i - 1], i)
<1> DEFINE n == Len(ms)
           S == {m \in Seq(Message) : Len(m) = n}
           step == [p \in S \X (1..n) |-> Shed(p[1], p[2])]
<1>1. n \in Nat /\ ms \in S
  BY LenProperties
<1>2. \A m \in S, i \in 1..n : step[<<m, i>>] = Shed(m, i)
  OBVIOUS
<1>3. \A m \in S, i \in 1..n : step[<<m, i>>] \in S
  BY <1>2, ShedFacts
<1> HIDE DEF S, step
<1>4. PICK g \in [0..n -> S] : g[0] = ms /\ \A i \in 1..n : g[i] = step[<<g[i - 1], i>>]
  <2>1. IsLoop(S, n, ms, step)
    BY <1>1, <1>3 DEF IsLoop
  <2>2. QED BY <2>1, LoopIsFunction
<1>5. ASSUME NEW i \in 1..n PROVE g[i] = Shed(g[i - 1], i)
  <2>1. i - 1 \in 0..n
    BY <1>1, <1>5
  <2>2. g[i - 1] \in S
    BY <2>1
  <2>3. QED BY <1>2, <1>4, <2>2
<1>6. g = [i \in 0..n |-> IF i = 0 THEN ms ELSE Shed(g[i - 1], i)]
  <2>1. \A i \in 0..n : g[i] = IF i = 0 THEN ms ELSE Shed(g[i - 1], i)
    <3>1. ASSUME NEW i \in 0..n, i # 0 PROVE i \in 1..n
      BY <1>1, <3>1
    <3>2. QED BY <1>4, <1>5, <3>1
  <2>2. QED BY <2>1
<1>7. After(ms) = [i \in 0..n |-> IF i = 0 THEN ms ELSE Shed(After(ms)[i - 1], i)]
  BY <1>6, Zenon DEF After
<1> DEFINE a == After(ms)
           T == {i \in 0..n : a[i] \in S}
<1>8. a[0] = ms /\ \A i \in 1..n : a[i] = Shed(a[i - 1], i)
  <2> HIDE DEF a
  <2>1. a = [i \in 0..n |-> IF i = 0 THEN ms ELSE Shed(a[i - 1], i)]
    BY <1>7 DEF a
  <2>2. QED BY <1>1, <2>1
<1> HIDE DEF a
<1>9. \A i \in 0..n : i \in T
  <2>1. 0 \in T
    BY <1>1, <1>8
  <2>2. ASSUME NEW i \in 0..(n - 1), i \in T PROVE i + 1 \in T
    <3>1. a[i] \in Seq(Message) /\ Len(a[i]) = n /\ i + 1 \in 1..n /\ a[i + 1] = Shed(a[i], i + 1)
      BY <1>1, <1>8, <2>2 DEF S
    <3>2. a[i + 1] \in S
      BY <3>1, ShedFacts DEF S
    <3>3. QED BY <1>1, <3>2
  <2> HIDE DEF T
  <2>3. QED BY <1>1, <2>1, <2>2, Climb
<1>10. QED BY <1>8, <1>9 DEF a, S

\* The list after i messages of the walk: the least k results are shed that make
\* it fit, or all there are so far.
LEMMA WalkFacts ==
    ASSUME NEW ms \in Seq(Message), NEW i \in 0..Len(ms)
    PROVE  \E k \in 0..Count(ms, i) :
              /\ After(ms)[i] = ShedFirst(ms, k)
              /\ \A l \in 0..(k - 1) : ~Fits(ShedFirst(ms, l))
              /\ Fits(ShedFirst(ms, k)) \/ k = Count(ms, i)
<1> DEFINE n == Len(ms)
           Stops(j, k) == /\ After(ms)[j] = ShedFirst(ms, k)
                          /\ \A l \in 0..(k - 1) : ~Fits(ShedFirst(ms, l))
                          /\ Fits(ShedFirst(ms, k)) \/ k = Count(ms, j)
           T == {j \in 0..n : \E k \in 0..Count(ms, j) : Stops(j, k)}
<1>1. n \in Nat
  BY LenProperties
<1>2. \A j \in 0..n : Count(ms, j) \in Nat
  BY CountFacts
<1>3. 0 \in T
  <2>1. Count(ms, 0) = 0
    BY FS_EmptySet DEF Count, FreshTo
  <2>2. \A j \in 1..n : Fresh(ms[j]) => Count(ms, j) > 0
    BY <1>1, <1>2, <2>1, CountFacts
  <2>3. ShedFirst(ms, 0) = ms
    <3>1. ShedFirst(ms, 0) \in Seq(Message) /\ Len(ShedFirst(ms, 0)) = n
      BY ShedFirstFacts
    <3>2. ASSUME NEW j \in 1..n PROVE ShedFirst(ms, 0)[j] = ms[j]
      <4>1. j \in 0..n
        BY <1>1
      <4>2. ~(Fresh(ms[j]) /\ Count(ms, j) <= 0)
        BY <1>2, <2>2, <4>1
      <4>3. ShedFirst(ms, 0)[j] = IF Fresh(ms[j]) /\ Count(ms, j) <= 0 THEN Note ELSE ms[j]
        BY ShedFirstFacts
      <4>4. QED BY <4>2, <4>3
    <3>3. QED BY <3>1, <3>2, SeqEqual
  <2>4. Stops(0, 0)
    BY <2>1, <2>3, AfterFacts
  <2>5. 0 \in 0..n /\ 0 \in 0..Count(ms, 0)
    BY <1>1, <2>1
  <2> HIDE DEF Stops, n
  <2>6. QED BY <2>4, <2>5
<1>4. ASSUME NEW j \in 0..(n - 1), j \in T PROVE j + 1 \in T
  <2>1. PICK k \in 0..Count(ms, j) : Stops(j, k)
    BY <1>4
  <2>2. /\ j \in 0..n /\ j + 1 \in 0..n /\ j + 1 \in 1..n /\ j + 1 > 0 /\ (j + 1) - 1 = j
    BY <1>1
  <2>3. /\ Count(ms, j) \in Nat /\ Count(ms, j + 1) \in Nat /\ k \in Nat
        /\ Count(ms, j + 1) = IF Fresh(ms[j + 1]) THEN Count(ms, j) + 1 ELSE Count(ms, j)
    BY <1>2, <2>2, CountFacts
  <2> DEFINE now == ShedFirst(ms, k)
  <2>4. /\ now \in Seq(Message) /\ Len(now) = n
        /\ \A h \in 1..n : now[h] = IF Fresh(ms[h]) /\ Count(ms, h) <= k THEN Note ELSE ms[h]
    BY <2>3, ShedFirstFacts
  <2>5. After(ms)[j] = now /\ After(ms)[j + 1] = Shed(now, j + 1)
    BY <2>1, <2>2, AfterFacts
  <2> HIDE DEF now
  <2>6. CASE Fits(now)
    <3>1. After(ms)[j + 1] = now
      BY <2>2, <2>4, <2>5, <2>6, ShedFacts
    <3>2. Stops(j + 1, k) /\ k \in 0..Count(ms, j + 1)
      BY <2>1, <2>3, <2>6, <3>1 DEF now
    <3> HIDE DEF Stops
    <3>3. QED BY <2>2, <3>2
  <2>7. CASE ~Fits(now)
    <3>1. k = Count(ms, j)
      BY <2>1, <2>7 DEF now
    <3>2. CASE ~Fresh(ms[j + 1])
      <4>1. ~Fresh(now[j + 1])
        BY <2>2, <2>4, <3>2
      <4>2. After(ms)[j + 1] = now
        BY <2>2, <2>4, <2>5, <4>1, ShedFacts
      <4>3. Stops(j + 1, k) /\ k \in 0..Count(ms, j + 1)
        BY <2>1, <2>3, <3>1, <3>2, <4>2 DEF now
      <4> HIDE DEF Stops
      <4>4. QED BY <2>2, <4>3
    <3>3. CASE Fresh(ms[j + 1])
      <4>1. Count(ms, j + 1) = k + 1
        BY <2>3, <3>1, <3>3
      <4>2. now[j + 1] = ms[j + 1]
        BY <2>2, <2>3, <2>4, <4>1
      <4> DEFINE later == ShedFirst(ms, k + 1)
                 shed == Shed(now, j + 1)
      <4>3. /\ later \in Seq(Message) /\ Len(later) = n
            /\ \A h \in 1..n : later[h] = IF Fresh(ms[h]) /\ Count(ms, h) <= k + 1 THEN Note ELSE ms[h]
        BY <2>3, ShedFirstFacts
      <4>4. /\ shed \in Seq(Message) /\ Len(shed) = n
            /\ \A h \in 1..n : shed[h] = IF h = j + 1 THEN Note ELSE now[h]
        BY <2>2, <2>4, <2>7, <3>3, <4>2, ShedFacts
      <4> HIDE DEF later, shed
      <4>5. ASSUME NEW h \in 1..n PROVE shed[h] = later[h]
        <5>1. CASE h = j + 1
          BY <3>3, <4>1, <4>3, <4>4, <5>1
        <5>2. CASE h # j + 1 /\ ~Fresh(ms[h])
          BY <2>4, <4>3, <4>4, <5>2
        <5>3. CASE h # j + 1 /\ Fresh(ms[h])
          <6>1. h <= j => Count(ms, h) <= k
            BY <2>2, <3>1, CountFacts
          <6>2. h > j => Count(ms, j + 1) < Count(ms, h)
            <7>1. ASSUME h > j PROVE j + 1 \in 0..(h - 1) /\ h \in 0..Len(ms) /\ h > 0
              BY <1>1, <5>3, <7>1
            <7>2. QED BY <5>3, <7>1, CountFacts
          <6>3. Count(ms, h) \in Nat
            BY <1>1, <1>2
          <6>4. Count(ms, h) <= k <=> Count(ms, h) <= k + 1
            BY <2>3, <4>1, <6>1, <6>2, <6>3
          <6>5. QED BY <2>4, <4>3, <4>4, <5>3, <6>4
        <5>4. QED BY <5>1, <5>2, <5>3
      <4>6. shed = later
        BY <4>3, <4>4, <4>5, SeqEqual
      <4>7. \A l \in 0..((k + 1) - 1) : ~Fits(ShedFirst(ms, l))
        <5>1. ASSUME NEW l \in 0..((k + 1) - 1) PROVE ~Fits(ShedFirst(ms, l))
          <6>1. l \in 0..(k - 1) \/ l = k
            BY <2>3
          <6>2. QED BY <2>1, <2>7, <6>1 DEF now
        <5>2. QED BY <5>1
      <4>8. Stops(j + 1, k + 1) /\ k + 1 \in 0..Count(ms, j + 1)
        BY <2>3, <2>5, <4>1, <4>6, <4>7 DEF later, shed
      <4> HIDE DEF Stops
      <4>9. QED BY <2>2, <4>8
    <3>4. QED BY <3>2, <3>3
  <2>8. QED BY <2>6, <2>7
<1>5. i \in T
  <2> HIDE DEF T, n
  <2>1. i \in 0..n
    BY DEF n
  <2>2. QED BY <1>1, <1>3, <1>4, <2>1, Climb
<1>6. QED BY <1>5

\* What _enforce_ceiling returns: the oldest results, as few as do, are shed.
LEMMA EnforceIsLeast ==
    ASSUME NEW ms \in Seq(Message)
    PROVE  \E k \in 0..Count(ms, Len(ms)) :
              /\ Enforce(ms) = ShedFirst(ms, k)
              /\ Ceiling = 0 => k = 0
              /\ Ceiling # 0 => \A l \in 0..(k - 1) : ~Fits(ShedFirst(ms, l))
              /\ Ceiling # 0 => Fits(ShedFirst(ms, k)) \/ k = Count(ms, Len(ms))
<1>1. Len(ms) \in Nat /\ Len(ms) \in 0..Len(ms) /\ 0 \in 0..Len(ms)
  BY LenProperties
<1>2. CASE Ceiling = 0
  <2>1. 0 \in 0..Count(ms, Len(ms)) /\ Count(ms, 0) \in Nat
    BY <1>1, CountFacts
  <2>2. Count(ms, 0) = 0
    BY FS_EmptySet DEF Count, FreshTo
  <2>3. PICK k \in 0..Count(ms, 0) : After(ms)[0] = ShedFirst(ms, k)
    BY <1>1, WalkFacts
  <2>4. k = 0
    BY <2>2
  <2>5. Enforce(ms) = ShedFirst(ms, 0)
    BY <1>2, <2>3, <2>4, AfterFacts DEF Enforce
  <2>6. QED BY <1>2, <2>1, <2>5
<1>3. CASE Ceiling # 0
  <2>1. Enforce(ms) = After(ms)[Len(ms)]
    BY <1>3 DEF Enforce
  <2>2. QED BY <1>1, <1>3, <2>1, WalkFacts
<1>4. QED BY <1>2, <1>3

\* The same, message by message.
LEMMA EnforceFacts ==
    ASSUME NEW ms \in Seq(Message)
    PROVE  /\ Enforce(ms) \in Seq(Message) /\ Len(Enforce(ms)) = Len(ms)
           /\ \A i \in 1..Len(ms) :
                 Enforce(ms)[i] = ms[i] \/ (Fresh(ms[i]) /\ Enforce(ms)[i] = Note)
           /\ \A i, j \in 1..Len(ms) :
                 i < j /\ Fresh(ms[i]) /\ Fresh(ms[j]) /\ Enforce(ms)[j] = Note => Enforce(ms)[i] = Note
           /\ Ceiling # 0 => Fits(Enforce(ms)) \/ \A i \in 1..Len(ms) : ~Fresh(Enforce(ms)[i])
<1> DEFINE n == Len(ms)
           e == Enforce(ms)
<1>1. PICK k \in 0..Count(ms, n) : /\ e = ShedFirst(ms, k)
                                   /\ Ceiling # 0 => Fits(ShedFirst(ms, k)) \/ k = Count(ms, n)
  BY EnforceIsLeast
<1>2. n \in Nat /\ \A i \in 0..n : Count(ms, i) \in Nat
  BY LenProperties, CountFacts
<1>3. k \in Nat
  BY <1>2
<1>4. /\ e \in Seq(Message) /\ Len(e) = n
      /\ \A i \in 1..n : e[i] = IF Fresh(ms[i]) /\ Count(ms, i) <= k THEN Note ELSE ms[i]
  BY <1>1, <1>3, ShedFirstFacts
<1>5. ASSUME Ceiling # 0, ~Fits(e), NEW i \in 1..n PROVE ~Fresh(e[i])
  <2>1. k = Count(ms, n)
    BY <1>1, <1>5
  <2>2. n \in 0..n /\ i \in 0..n
    BY <1>2
  <2>3. Count(ms, i) <= k
    BY <2>1, <2>2, CountFacts
  <2>4. QED BY <1>4, <2>3, NoteFacts
<1> HIDE DEF e
<1>6. ASSUME NEW i \in 1..n, NEW j \in 1..n, i < j, Fresh(ms[i]), Fresh(ms[j]), e[j] = Note
      PROVE  e[i] = Note
  <2>1. Count(ms, j) <= k
    BY <1>4, <1>6, NoteFacts
  <2>2. j \in 0..n /\ i \in 0..(j - 1) /\ j > 0 /\ i \in 0..n
    BY <1>2, <1>6
  <2>3. Count(ms, i) < Count(ms, j)
    BY <1>6, <2>2, CountFacts
  <2>4. Count(ms, i) <= k
    BY <1>2, <1>3, <2>1, <2>2, <2>3
  <2>5. QED BY <1>4, <1>6, <2>4
<1>7. QED BY <1>4, <1>5, <1>6 DEF e
-----------------------------------------------------------------------------
(* The list.                                                                *)

\* A message that was replaced is the note, and the counter knows of it.
ListInv ==
    /\ messages \in Seq(Message) /\ messages # <<>>
    /\ \A i \in 1..Len(messages) : messages[i].stale => messages[i] = Note
    /\ ListTypeOK /\ OldestFirst /\ FitsOrSpent
    /\ IsFiniteSet(Stale(messages)) /\ dropped = Cardinality(Stale(messages))

LEMMA MessagesFacts ==
    ASSUME NEW ms \in Seq(Message)
    PROVE  /\ Len(ms) \in Nat /\ DOMAIN ms = 1..Len(ms)
           /\ \A i \in 1..Len(ms) : /\ ms[i] \in Message /\ ms[i].role \in Role
                                    /\ ms[i].size \in Nat /\ ms[i].stale \in BOOLEAN
           /\ Stale(ms) = {i \in 1..Len(ms) : ms[i].stale} /\ IsFiniteSet(Stale(ms))
<1>1. /\ Len(ms) \in Nat /\ DOMAIN ms = 1..Len(ms) /\ \A i \in 1..Len(ms) : ms[i] \in Message
  BY LenProperties
<1>2. Stale(ms) = {i \in 1..Len(ms) : ms[i].stale}
  BY <1>1 DEF Stale
<1>3. IsFiniteSet(1..Len(ms)) /\ Stale(ms) \in SUBSET (1..Len(ms))
  BY <1>1, <1>2, FS_Interval
<1>4. IsFiniteSet(Stale(ms))
  BY <1>3, FS_Subset
<1>5. QED BY <1>1, <1>2, <1>4 DEF Message

LEMMA ListInitInv == ListInit => ListInv
<1> SUFFICES ASSUME ListInit PROVE ListInv
  OBVIOUS
<1> DEFINE Plain == {m \in Message : m.stale = FALSE /\ m.role # "tool"}
<1>1. PICK system \in TextSize, question \in TextSize, history \in TextSize \cup {0} :
        messages = <<Says("system", system)>>
                   \o (IF history = 0 THEN <<>> ELSE <<Says("assistant", history)>>)
                   \o <<Says("user", question)>>
  BY DEF ListInit
<1>2. {system, question, history} \subseteq Nat
  BY SizeAssumption
<1>3. /\ Says("system", system) \in Plain /\ Says("assistant", history) \in Plain
      /\ Says("user", question) \in Plain
  BY <1>2 DEF Says, Message, Role
<1> HIDE DEF Plain
<1> DEFINE first == <<Says("system", system)>>
           middle == IF history = 0 THEN <<>> ELSE <<Says("assistant", history)>>
           last == <<Says("user", question)>>
<1>4. first \in Seq(Plain) /\ middle \in Seq(Plain) /\ last \in Seq(Plain) /\ Len(last) = 1
  BY <1>3
<1>5. messages = (first \o middle) \o last
  BY <1>1
<1> HIDE DEF first, middle, last
<1>6. first \o middle \in Seq(Plain) /\ Len(first \o middle) \in Nat
  BY <1>4, ConcatProperties, LenProperties
<1>7. messages \in Seq(Plain) /\ Len(messages) = Len(first \o middle) + 1
  <2> DEFINE front == first \o middle
  <2>1. front \in Seq(Plain) /\ Len(front) \in Nat
    BY <1>6
  <2> HIDE DEF front
  <2>2. front \o last \in Seq(Plain) /\ Len(front \o last) = Len(front) + Len(last)
    BY <1>4, <2>1, ConcatProperties
  <2>3. QED BY <1>4, <1>5, <2>2 DEF front
<1>8. /\ \A i \in 1..Len(messages) : messages[i] \in Plain
      /\ Len(messages) \in 1..Len(messages) /\ messages # <<>>
  BY <1>6, <1>7, LenProperties, EmptySeq
<1>9. messages \in Seq(Message)
  <2>1. Plain \subseteq Message
    BY DEF Plain
  <2>2. QED BY <1>7, <2>1
<1>10. \A i \in 1..Len(messages) : messages[i].stale = FALSE /\ messages[i].role # "tool"
  BY <1>8 DEF Plain
<1>11. DOMAIN messages = 1..Len(messages)
  BY <1>9, MessagesFacts
<1>12. Stale(messages) = {}
  BY <1>10, <1>11 DEF Stale
<1>13. IsFiniteSet(Stale(messages)) /\ dropped = Cardinality(Stale(messages))
  BY <1>12, FS_EmptySet DEF ListInit
<1>14. ListTypeOK
  BY <1>9, MessagesFacts DEF ListInit, ListTypeOK
<1>15. OldestFirst
  BY <1>10, <1>11 DEF OldestFirst, Results
<1>16. FitsOrSpent
  BY <1>8, <1>10 DEF FitsOrSpent, Last
<1>17. QED BY <1>8, <1>9, <1>10, <1>13, <1>14, <1>15, <1>16 DEF ListInv

\* What the model says, and what the orchestrator adds, changes no result.
LEMMA SpokenInv ==
    ASSUME ListInv, NEW role \in Role \ {"tool"}, NEW size \in Nat,
           messages' = Append(messages, Says(role, size)),
           unanswered' \in Nat, UNCHANGED <<trimmed, dropped>>
    PROVE  ListInv'
<1> DEFINE n == Len(messages)
           said == Says(role, size)
<1>1. /\ said \in Message /\ said.stale = FALSE /\ said.role # "tool"
  BY DEF Says, Message
<1> HIDE DEF said
<1>2. /\ messages' \in Seq(Message) /\ messages' # <<>> /\ Len(messages') = n + 1
      /\ \A i \in 1..n : messages'[i] = messages[i]
      /\ messages'[n + 1] = said
  BY <1>1, AppendProperties DEF ListInv, said
<1>3. n \in Nat /\ DOMAIN messages = 1..n /\ DOMAIN messages' = 1..(n + 1)
  BY <1>2, MessagesFacts DEF ListInv
<1>4. \A i \in 1..(n + 1) : i \in 1..n \/ i = n + 1
  BY <1>3
<1>5. \A i \in 1..(n + 1) : messages'[i].stale => i \in 1..n
  BY <1>1, <1>2, <1>4
<1>6. Stale(messages') = Stale(messages)
  BY <1>2, <1>3, <1>5 DEF Stale
<1>7. \A i \in 1..Len(messages') : messages'[i].stale => messages'[i] = Note
  BY <1>2, <1>5 DEF ListInv
<1>8. ListTypeOK'
  BY <1>2, MessagesFacts DEF ListInv, ListTypeOK
<1>9. Results' = Results
  <2>1. \A i \in 1..(n + 1) : messages'[i].role = "tool" => i \in 1..n
    BY <1>1, <1>2, <1>4
  <2>2. QED BY <1>2, <1>3, <2>1 DEF Results
<1>10. OldestFirst'
  BY <1>2, <1>3, <1>9 DEF OldestFirst, ListInv, Results
<1>11. FitsOrSpent'
  BY <1>1, <1>2 DEF FitsOrSpent, Last
<1>12. QED BY <1>2, <1>6, <1>7, <1>8, <1>10, <1>11 DEF ListInv

\* A result comes in, and older ones may go: the facts behind every property.
LEMMA ResultFacts ==
    ASSUME ListInv, AddToolResult
    PROVE  \E ms \in Seq(Message) :
              /\ messages' = Enforce(ms) /\ Len(ms) = Len(messages) + 1
              /\ \A i \in 1..Len(messages) : ms[i] = messages[i]
              /\ ms[Len(messages) + 1].role = "tool" /\ ms[Len(messages) + 1].stale = FALSE
              /\ dropped' = dropped + Cardinality(Stale(messages') \ Stale(messages))
              /\ trimmed' \in {trimmed, trimmed + 1} /\ unanswered' = unanswered - 1 /\ unanswered > 0
<1>1. PICK raw \in ResultSize, size \in ResultSize :
        /\ messages' = Enforce(Append(messages, Says("tool", size)))
        /\ trimmed' = IF raw > MaxResult THEN trimmed + 1 ELSE trimmed
        /\ dropped' = dropped + Cardinality(Stale(Enforce(Append(messages, Says("tool", size)))) \ Stale(messages))
  BY DEF AddToolResult
<1> DEFINE result == Says("tool", size)
           ms == Append(messages, result)
<1>2. size \in Nat
  BY SizeAssumption
<1>3. result \in Message /\ result.stale = FALSE /\ result.role = "tool"
  BY <1>2 DEF Says, Message, Role
<1>4. messages' = Enforce(ms)
  BY <1>1
<1>5. dropped' = dropped + Cardinality(Stale(messages') \ Stale(messages))
  BY <1>1
<1>6. trimmed' \in {trimmed, trimmed + 1} /\ unanswered' = unanswered - 1 /\ unanswered > 0
  BY <1>1 DEF AddToolResult
<1> HIDE DEF result
<1>7. /\ ms \in Seq(Message) /\ Len(ms) = Len(messages) + 1
      /\ \A i \in 1..Len(messages) : ms[i] = messages[i]
      /\ ms[Len(messages) + 1] = result
  BY <1>3, AppendProperties DEF ListInv
<1> HIDE DEF ms
<1>8. QED BY <1>3, <1>4, <1>5, <1>6, <1>7

LEMMA ResultInv ==
    ASSUME ListInv, AddToolResult
    PROVE  /\ ListInv'
           /\ \A i \in DOMAIN messages : messages'[i] # messages[i] =>
                 messages[i].role = "tool" /\ ~messages[i].stale /\ messages'[i] = Note
<1> DEFINE n == Len(messages)
<1>1. PICK ms \in Seq(Message) :
        /\ messages' = Enforce(ms) /\ Len(ms) = n + 1
        /\ \A i \in 1..n : ms[i] = messages[i]
        /\ ms[n + 1].role = "tool" /\ ms[n + 1].stale = FALSE
        /\ dropped' = dropped + Cardinality(Stale(messages') \ Stale(messages))
        /\ trimmed' \in {trimmed, trimmed + 1} /\ unanswered' = unanswered - 1 /\ unanswered > 0
  BY ResultFacts
<1>2. /\ n \in Nat /\ DOMAIN messages = 1..n
      /\ Stale(messages) = {i \in 1..n : messages[i].stale} /\ IsFiniteSet(Stale(messages))
  BY MessagesFacts DEF ListInv
<1>3. /\ messages' \in Seq(Message) /\ Len(messages') = n + 1
      /\ \A i \in 1..(n + 1) : messages'[i] = ms[i] \/ (Fresh(ms[i]) /\ messages'[i] = Note)
      /\ \A i, j \in 1..(n + 1) :
            i < j /\ Fresh(ms[i]) /\ Fresh(ms[j]) /\ messages'[j] = Note => messages'[i] = Note
      /\ Ceiling # 0 => Fits(messages') \/ \A i \in 1..(n + 1) : ~Fresh(messages'[i])
  BY <1>1, EnforceFacts
<1>4. /\ DOMAIN messages' = 1..(n + 1) /\ messages' # <<>>
      /\ Stale(messages') = {i \in 1..(n + 1) : messages'[i].stale} /\ IsFiniteSet(Stale(messages'))
      /\ \A i \in 1..(n + 1) : messages'[i].stale \in BOOLEAN
  BY <1>2, <1>3, MessagesFacts, EmptySeq
<1>5. \A i \in 1..(n + 1) : i \in 1..n \/ i = n + 1
  BY <1>2
<1>6. \A i \in 1..(n + 1) : ms[i].stale => i \in 1..n /\ messages[i].stale /\ ms[i] = Note
  BY <1>1, <1>5 DEF ListInv
<1>7. \A i \in 1..(n + 1) : messages'[i].stale => messages'[i] = Note
  BY <1>3, <1>6
<1>8. Stale(messages) \subseteq Stale(messages')
  <2>1. ASSUME NEW i \in 1..n, messages[i].stale PROVE i \in 1..(n + 1) /\ messages'[i].stale
    <3>1. i \in 1..(n + 1) /\ ms[i] = messages[i]
      BY <1>1, <1>2
    <3>2. messages'[i] = ms[i]
      BY <1>3, <2>1, <3>1 DEF Fresh
    <3>3. QED BY <2>1, <3>1, <3>2
  <2>2. QED BY <1>2, <1>4, <2>1
<1>9. dropped' = Cardinality(Stale(messages'))
  <2> DEFINE now == Stale(messages')
             old == Stale(messages)
  <2>1. IsFiniteSet(now) /\ IsFiniteSet(old) /\ old \subseteq now
    BY <1>2, <1>4, <1>8
  <2>2. dropped = Cardinality(old) /\ dropped' = dropped + Cardinality(now \ old)
    BY <1>1 DEF ListInv
  <2> HIDE DEF now, old
  <2>3. Cardinality(now \ old) = Cardinality(now) - Cardinality(now \cap old)
    BY <2>1, FS_Difference
  <2>4. now \cap old = old
    BY <2>1
  <2>5. Cardinality(now) \in Nat /\ Cardinality(old) \in Nat
    BY <2>1, FS_CardinalityType
  <2>6. dropped' = Cardinality(now)
    <3>1. Cardinality(now \ old) = Cardinality(now) - Cardinality(old)
      BY <2>3, <2>4
    <3> DEFINE a == Cardinality(now)  b == Cardinality(old)  d == Cardinality(now \ old)
    <3>2. a \in Nat /\ b \in Nat /\ d = a - b /\ dropped' = b + d
      BY <2>2, <2>5, <3>1
    <3> HIDE DEF a, b, d
    <3>3. dropped' = a
      BY <3>2
    <3>4. QED BY <3>3 DEF a
  <2>7. QED BY <2>6 DEF now
<1>10. ListTypeOK'
  <2>1. unanswered' \in Nat /\ trimmed' \in Nat /\ dropped' \in Nat
    BY <1>1, <1>4, <1>9, FS_CardinalityType DEF ListInv, ListTypeOK
  <2>2. QED BY <1>3, <2>1, MessagesFacts DEF ListTypeOK
<1>11. OldestFirst'
  <2>1. ASSUME NEW i \in 1..(n + 1), NEW j \in 1..(n + 1), i < j, messages'[i].role = "tool",
               messages'[j].stale
        PROVE  messages'[i].stale
    <3>1. CASE messages'[i] = Note
      BY <3>1, NoteFacts
    <3>2. CASE messages'[i] # Note
      <4>1. messages'[i] = ms[i] /\ ms[i].role = "tool"
        BY <1>3, <2>1, <3>2
      <4>2. CASE Fresh(ms[j]) /\ messages'[j] = Note
        <5>1. ~Fresh(ms[i])
          BY <1>3, <2>1, <3>2, <4>2
        <5>2. QED BY <4>1, <5>1 DEF Fresh
      <4>3. CASE messages'[j] = ms[j]
        <5>1. j \in 1..n /\ messages[j].stale /\ messages[j] = Note
          BY <1>1, <1>6, <2>1, <4>3
        <5>2. i \in 1..n /\ messages[i] = ms[i]
          BY <1>1, <1>2, <2>1, <5>1
        <5>3. i \in Results /\ j \in Results
          BY <1>2, <4>1, <5>1, <5>2, NoteFacts DEF Results
        <5>4. QED BY <2>1, <4>1, <5>1, <5>2, <5>3 DEF ListInv, OldestFirst
      <4>4. QED BY <1>3, <4>2, <4>3
    <3>3. QED BY <3>1, <3>2
  <2>2. QED BY <1>4, <2>1 DEF OldestFirst, Results
<1>12. FitsOrSpent'
  <2>1. ASSUME Ceiling # 0, ~Fits(messages'), NEW i \in 1..(n + 1), messages'[i].role = "tool"
        PROVE  messages'[i].stale
    BY <1>3, <2>1 DEF Fresh
  <2>2. QED BY <1>4, <2>1 DEF FitsOrSpent, Results, Fits
<1>13. ListInv'
  BY <1>3, <1>4, <1>7, <1>9, <1>10, <1>11, <1>12 DEF ListInv
<1>14. ASSUME NEW i \in 1..n, messages'[i] # messages[i]
       PROVE  messages[i].role = "tool" /\ ~messages[i].stale /\ messages'[i] = Note
  <2>1. i \in 1..(n + 1) /\ ms[i] = messages[i]
    BY <1>1, <1>2
  <2>2. QED BY <1>3, <1>14, <2>1 DEF Fresh
<1>15. QED BY <1>2, <1>13, <1>14
-----------------------------------------------------------------------------
LEMMA ListStepInv == ListInv /\ [ListNext]_listVars => ListInv'
<1> SUFFICES ASSUME ListInv, [ListNext]_listVars PROVE ListInv'
  OBVIOUS
<1>1. CASE AddToolCalls
  <2>1. PICK size \in TextSize \cup {0}, m \in 1..(MaxMessages - Len(messages)) :
          messages' = Append(messages, Says("assistant", size)) /\ unanswered' = m
    BY <1>1 DEF AddToolCalls
  <2>2. Len(messages) \in Nat /\ MaxMessages \in Nat
    BY SizeAssumption, MessagesFacts DEF ListInv
  <2>3. size \in Nat /\ unanswered' \in Nat
    BY <2>1, <2>2, SizeAssumption
  <2>4. "assistant" \in Role \ {"tool"} /\ UNCHANGED <<trimmed, dropped>>
    BY <1>1 DEF Role, AddToolCalls
  <2>5. QED BY <2>1, <2>3, <2>4, SpokenInv
<1>2. CASE AddToolResult
  BY <1>2, ResultInv
<1>3. CASE AddInstruction
  <2>1. PICK size \in TextSize : messages' = Append(messages, Says("user", size))
    BY <1>3 DEF AddInstruction
  <2>2. size \in Nat /\ unanswered' \in Nat
    BY <1>3, SizeAssumption DEF AddInstruction, ListInv, ListTypeOK
  <2>3. "user" \in Role \ {"tool"} /\ UNCHANGED <<trimmed, dropped>>
    BY <1>3 DEF Role, AddInstruction
  <2>4. QED BY <2>1, <2>2, <2>3, SpokenInv
<1>4. CASE UNCHANGED listVars
  BY <1>4 DEF ListInv, ListTypeOK, OldestFirst, FitsOrSpent, Results, Stale, Last, listVars
<1>5. QED BY <1>1, <1>2, <1>3, <1>4 DEF ListNext

\* The list of a turn is well formed, and every note in it was counted.
THEOREM ListInvariant == ListSpec => []ListInv
<1>1. QED BY ListInitInv, ListStepInv, PTL DEF ListSpec

\* ShedFirst with the least k that fits is what the walk of _enforce_ceiling leaves.
LEMMA ShedsNoMore == ListInv => ShedsOnlyWhatItMust
<1> SUFFICES ASSUME ListInv, NEW size \in ResultSize
             PROVE  LET ms   == Append(messages, Says("tool", size))
                        n    == Cardinality({i \in DOMAIN ms : Fresh(ms[i])})
                        fits == {k \in 0..n : Total(ShedFirst(ms, k)) <= Ceiling}
                    IN  Enforce(ms) = ShedFirst(ms, IF Ceiling = 0 THEN 0
                                                    ELSE IF fits = {} THEN n ELSE Min(fits))
  BY DEF ShedsOnlyWhatItMust
<1> DEFINE ms == Append(messages, Says("tool", size))
           n == Cardinality({i \in DOMAIN ms : Fresh(ms[i])})
           fits == {k \in 0..n : Total(ShedFirst(ms, k)) <= Ceiling}
<1>1. ms \in Seq(Message)
  <2>1. Says("tool", size) \in Message
    BY SizeAssumption DEF Says, Message, Role
  <2>2. QED BY <2>1, AppendProperties DEF ListInv
<1> HIDE DEF ms
<1>2. n = Count(ms, Len(ms)) /\ n \in Nat
  <2>1. DOMAIN ms = 1..Len(ms) /\ Len(ms) \in 0..Len(ms)
    BY <1>1, LenProperties
  <2>2. QED BY <1>1, <2>1, CountFacts DEF Count, FreshTo
<1> HIDE DEF n
<1>3. PICK k \in 0..n : /\ Enforce(ms) = ShedFirst(ms, k)
                        /\ Ceiling = 0 => k = 0
                        /\ Ceiling # 0 => \A l \in 0..(k - 1) : ~Fits(ShedFirst(ms, l))
                        /\ Ceiling # 0 => Fits(ShedFirst(ms, k)) \/ k = n
  BY <1>1, <1>2, EnforceIsLeast
<1>4. \A l \in fits : l \in 0..n /\ Fits(ShedFirst(ms, l))
  BY DEF Fits
<1>5. Fits(ShedFirst(ms, k)) => k \in fits
  BY DEF Fits
<1> HIDE DEF fits
<1>6. k = IF Ceiling = 0 THEN 0 ELSE IF fits = {} THEN n ELSE Min(fits)
  <2>1. CASE Ceiling # 0 /\ fits # {}
    <3>1. \A l \in fits : l \in Nat /\ k <= l
      BY <1>2, <1>3, <1>4, <2>1
    <3>2. k \in fits
      <4>1. PICK l \in fits : TRUE
        BY <2>1
      <4>2. k = n => l = k
        BY <1>2, <1>4, <3>1
      <4>3. QED BY <1>3, <1>5, <2>1, <4>1, <4>2
    <3>3. Min(fits) = k
      <4>1. \A x \in fits : (\A y \in fits : x <= y) <=> x = k
        BY <1>2, <3>1, <3>2
      <4>2. QED BY <3>1, <3>2, <4>1 DEF Min
    <3>4. QED BY <2>1, <3>3
  <2>2. CASE Ceiling # 0 /\ fits = {}
    BY <1>3, <1>5, <2>2
  <2>3. QED BY <1>3, <2>1, <2>2
<1>7. Enforce(ms) = ShedFirst(ms, IF Ceiling = 0 THEN 0 ELSE IF fits = {} THEN n ELSE Min(fits))
  BY <1>3, <1>6
<1>8. QED BY <1>7 DEF ms, n, fits

\* _enforce_ceiling: "Shed the oldest tool results until the transcript fits":
\* the oldest go first, as few as make the list fit, and no more.
THEOREM ResultsAreShedInOrder == ListSpec => []ShedsInOrder
<1>1. ListInv => ShedsInOrder
  BY ShedsNoMore DEF ListInv, ShedsInOrder
<1>2. QED BY <1>1, ListInvariant, PTL

\* "Only tool results are shed", each once, and the turn's counter is their number.
THEOREM NothingElseIsShed == ListSpec => OnlyResultsShed
<1> DEFINE Sheds == /\ \A i \in DOMAIN messages :
                          messages'[i] # messages[i] =>
                             messages[i].role = "tool" /\ ~messages[i].stale /\ messages'[i] = Note
                    /\ dropped' = Cardinality(Stale(messages'))
<1>1. ListInv /\ [ListNext]_listVars => [Sheds]_listVars
  <2> SUFFICES ASSUME ListInv, ListNext PROVE Sheds
    OBVIOUS
  <2>1. dropped' = Cardinality(Stale(messages'))
    <3>1. ListInv'
      BY ListStepInv
    <3>2. QED BY <3>1 DEF ListInv
  <2>2. ASSUME NEW message, messages' = Append(messages, message), NEW i \in DOMAIN messages
        PROVE  messages'[i] = messages[i]
    <3>1. i \in 1..Len(messages)
      BY <2>2, MessagesFacts DEF ListInv
    <3>2. QED BY <2>2, <3>1, AppendProperties DEF ListInv
  <2>3. CASE AddToolCalls
    BY <2>1, <2>2, <2>3 DEF AddToolCalls
  <2>4. CASE AddToolResult
    BY <2>1, <2>4, ResultInv
  <2>5. CASE AddInstruction
    BY <2>1, <2>2, <2>5 DEF AddInstruction
  <2>6. QED BY <2>3, <2>4, <2>5 DEF ListNext
<1>2. QED BY <1>1, ListInvariant, PTL DEF ListSpec, OnlyResultsShed

-----------------------------------------------------------------------------
\* A bounded set of whole numbers has a greatest member.
LEMMA GreatestOfSome ==
    ASSUME NEW n \in Nat, NEW T, T \subseteq 0..n, T # {}
    PROVE  \E m \in T : \A k \in T : k <= m
<1> DEFINE Rest == {n - k : k \in T}
<1>1. PICK r \in Rest : \A q \in Rest : r <= q
  <2>1. \A k \in T : k \in Nat /\ n - k \in Nat
    OBVIOUS
  <2>2. Rest \subseteq Nat /\ Rest # {}
    BY <2>1
  <2> HIDE DEF Rest
  <2>3. QED BY <2>2, LeastOfSome
<1>2. PICK m \in T : r = n - m
  BY <1>1
<1>3. ASSUME NEW k \in T PROVE k <= m
  <2>1. n - m <= n - k
    BY <1>1, <1>2
  <2>2. QED BY <2>1
<1>4. QED BY <1>3

-----------------------------------------------------------------------------
\* The levels of a chart: some prices, and none of them the highest for ever.
Chart == {levels \in SUBSET Nat : \E n \in Nat : \A l \in levels : l <= n}

Far(l, price) == Plans!Distance(l, price)

\* How far two prices are apart.
LEMMA DistanceFacts ==
    ASSUME NEW l \in Int, NEW price \in Int
    PROVE  /\ Far(l, price) \in Nat /\ Far(l, price) = Plans!Distance(price, l)
           /\ Far(l, price) = IF l > price THEN l - price ELSE price - l
BY DEF Far, Plans!Distance

LEMMA FarIsFar ==
    ASSUME NEW a \in Int, NEW b \in Int
    PROVE  Far(a, b) \in Nat /\ Far(a, b) = Far(b, a) /\ Far(a, b) = IF a > b THEN a - b ELSE b - a
BY DEF Far, Plans!Distance

\* The nearest level is one of the levels, and none is nearer.
LEMMA NearestIs ==
    ASSUME NEW T \in SUBSET Int, T # {}, NEW price \in Int
    PROVE  /\ Plans!Nearest(T, price) \in T
           /\ \A k \in T : Far(Plans!Nearest(T, price), price) <= Far(k, price)
<1> DEFINE D == {Far(l, price) : l \in T}
<1>1. PICK d \in D : \A e \in D : d <= e
  <2>1. D \subseteq Nat /\ D # {}
    BY DistanceFacts
  <2> HIDE DEF D
  <2>2. QED BY <2>1, LeastOfSome
<1>2. \E l \in T : \A k \in T : Far(l, price) <= Far(k, price)
  BY <1>1
<1>3. QED BY <1>2 DEF Plans!Nearest, Far

\* The farthest level is one of the levels, where there is a highest one.
LEMMA FarthestIs ==
    ASSUME NEW T \in SUBSET Nat, NEW n \in Nat, T \subseteq 0..n, T # {}, NEW price \in Int
    PROVE  /\ Plans!Farthest(T, price) \in T
           /\ \A k \in T : Far(Plans!Farthest(T, price), price) >= Far(k, price)
<1> DEFINE D == {Far(l, price) : l \in T}
           most == n + Far(0, price)
<1>1. PICK d \in D : \A e \in D : e <= d
  <2>1. most \in Nat /\ \A l \in T : Far(l, price) \in 0..most
    <3>1. Far(0, price) = IF 0 > price THEN 0 - price ELSE price
      BY DistanceFacts
    <3>2. ASSUME NEW l \in T
          PROVE  l \in 0..n /\ Far(l, price) = IF l > price THEN l - price ELSE price - l
      <4>1. l \in 0..n /\ l \in Int
        OBVIOUS
      <4> HIDE DEF D, most
      <4>2. QED BY <4>1, DistanceFacts
    <3>3. QED BY <3>1, <3>2
  <2>2. D \subseteq 0..most /\ D # {}
    BY <2>1
  <2> HIDE DEF D, most
  <2>3. QED BY <2>1, <2>2, GreatestOfSome
<1>2. \E l \in T : \A k \in T : Far(l, price) >= Far(k, price)
  BY <1>1, DistanceFacts
<1>3. QED BY <1>2 DEF Plans!Farthest, Far

Side == {"BUY", "SELL"}
AheadOf(direction, price, entry) == IF direction = "BUY" THEN price > entry ELSE price < entry

\* The constants of the stop.
LEMMA SizesAre == Plans!Floor = 1002 /\ Plans!Ceiling = 3493
BY DEF Plans!Floor, Plans!Ceiling

LEMMA LargerIs == \A a, b \in Int : Plans!Max({a, b}) = IF a >= b THEN a ELSE b
BY DEF Plans!Max

LEMMA SmallerIs == \A a, b \in Int : Plans!Min({a, b}) = IF a <= b THEN a ELSE b
BY DEF Plans!Min

\* The levels on one side of a price.
LEMMA SidesAre ==
    ASSUME NEW direction \in Side, NEW levels \in SUBSET Nat, NEW price \in Int
    PROVE  /\ Plans!Behind(direction, levels, price) = {l \in levels : AheadOf(direction, price, l)}
           /\ Plans!Ahead(direction, levels, price) = {l \in levels : AheadOf(direction, l, price)}
           /\ Plans!Behind(direction, levels, price) \in SUBSET Int
<1>1. Plans!Behind(direction, levels, price) = {l \in levels : AheadOf(direction, price, l)}
  BY DEF AheadOf, Plans!Behind, Plans!Below, Plans!Above
<1>2. Plans!Ahead(direction, levels, price) = {l \in levels : AheadOf(direction, l, price)}
  BY DEF AheadOf, Plans!Ahead, Plans!Below, Plans!Above
<1>3. Plans!Behind(direction, levels, price) \in SUBSET Int
  <2>1. Nat \subseteq Int
    OBVIOUS
  <2>2. QED BY <1>1, <2>1, Zenon
<1>4. QED BY <1>1, <1>2, <1>3

\* The stop is behind the level that is behind the entry, but for the cap.
Shielded(direction, levels, entry, stop) ==
    LET behind == Plans!Behind(direction, levels, entry) IN
    \/ behind = {}
    \/ Far(entry, stop) = 3493
    \/ Far(entry, stop) >= Far(Plans!Nearest(behind, entry), entry) + 150

\* The stop is on its side, as far as the gate asks and no farther than it allows,
\* and behind the level but for the cap.
LEMMA StopIs ==
    ASSUME NEW direction \in Side, NEW levels \in SUBSET Nat, NEW entry \in Int
    PROVE  LET stop == Plans!Stop(direction, entry, levels) IN
           /\ stop \in Int /\ AheadOf(direction, entry, stop)
           /\ (Far(entry, stop) \in Nat /\ Far(entry, stop) >= 1002 /\ Far(entry, stop) <= 3493)
           /\ Shielded(direction, levels, entry, stop)
<1> DEFINE behind == Plans!Behind(direction, levels, entry)
           near == Far(Plans!Nearest(behind, entry), entry)
           wanted == IF behind = {} THEN 1002 ELSE IF 1002 >= near + 150 THEN 1002 ELSE near + 150
           risk == IF wanted <= 3493 THEN wanted ELSE 3493
           stop == Plans!Stop(direction, entry, levels)
<1>1. behind # {} => near \in Nat /\ near = Plans!Distance(entry, Plans!Nearest(behind, entry))
  <2>1. behind \in SUBSET Int
    BY SidesAre
  <2>2. behind # {} => Plans!Nearest(behind, entry) \in Int
    BY <2>1, NearestIs
  <2>3. QED BY <2>2, DistanceFacts
<1>2. stop = entry - Plans!Toward(direction, Plans!Min({IF behind = {} THEN 1002
                 ELSE Plans!Max({1002, near + 150}), 3493}))
  BY <1>1, SizesAre DEF Plans!Stop
<1> HIDE DEF near, behind, stop
<1>3. wanted \in Nat /\ wanted >= 1002
  BY <1>1
<1>4. wanted = IF behind = {} THEN 1002 ELSE Plans!Max({1002, near + 150})
  BY <1>1, LargerIs
<1>5. stop = entry - Plans!Toward(direction, Plans!Min({wanted, 3493}))
  BY <1>2, <1>4
<1>6. risk = Plans!Min({wanted, 3493}) /\ (risk \in Nat /\ risk >= 1002 /\ risk <= 3493) /\ (risk = 3493 \/ risk = wanted)
  <2> HIDE DEF wanted
  <2>1. QED BY <1>3, SmallerIs
<1> HIDE DEF risk
<1>7. stop = IF direction = "BUY" THEN entry - risk ELSE entry + risk
  <2>1. stop = entry - Plans!Toward(direction, risk)
    BY <1>5, <1>6
  <2>2. QED BY <1>6, <2>1 DEF Plans!Toward
<1>8. stop \in Int /\ AheadOf(direction, entry, stop)
  BY <1>6, <1>7 DEF AheadOf
<1>9. Far(entry, stop) = risk
  <2>1. Far(entry, stop) = IF entry > stop THEN entry - stop ELSE stop - entry
    BY <1>8, DistanceFacts
  <2>2. QED BY <1>6, <1>7, <1>8, <2>1
<1>10. (Far(entry, stop) \in Nat /\ Far(entry, stop) >= 1002 /\ Far(entry, stop) <= 3493)
  BY <1>6, <1>9
<1>11. behind = {} \/ Far(entry, stop) = 3493 \/ Far(entry, stop) >= near + 150
  <2>1. behind # {} => wanted >= near + 150
    BY <1>1
  <2> HIDE DEF wanted
  <2>2. QED BY <1>6, <1>9, <2>1
<1>12. Shielded(direction, levels, entry, stop)
  BY <1>11 DEF near, behind, Shielded
<1>13. QED BY <1>8, <1>10, <1>12 DEF stop

\* A level pays for the risk; a target that does not is all the chart has to offer.
Pays(l, entry, stop) == 2 * Far(l, entry) >= 3 * Far(entry, stop)

AllThereIs(direction, levels, entry, stop, target) ==
    ~Pays(target, entry, stop) => \A l \in Plans!Usable(direction, entry, levels) : ~Pays(l, entry, stop)

LEMMA UsableIs ==
    ASSUME NEW direction \in Side, NEW levels \in SUBSET Nat, NEW entry \in Int
    PROVE  Plans!Usable(direction, entry, levels)
             = {l \in levels : AheadOf(direction, l, entry) /\ 10 * Far(l, entry) > 3000}
BY DEF AheadOf, Far, Plans!Usable, Plans!Ahead, Plans!Below, Plans!Above

\* The target is ahead and not in the noise; it pays for the risk if any level that
\* may be aimed at does.
LEMMA TargetIs ==
    ASSUME NEW direction \in Side, NEW levels \in Chart, NEW entry \in Int,
           NEW stop \in Int, AheadOf(direction, entry, stop), Far(entry, stop) >= 1002
    PROVE  LET target == Plans!Target(direction, entry, stop, levels) IN
           /\ target \in Int /\ AheadOf(direction, target, entry)
           /\ 10 * Far(entry, target) > 3000
           /\ AllThereIs(direction, levels, entry, stop, target)
<1> DEFINE usable == Plans!Usable(direction, entry, levels)
           worth == {l \in usable : Pays(l, entry, stop)}
           target == Plans!Target(direction, entry, stop, levels)
<1>1. PICK n \in Nat : \A l \in levels : l <= n
  BY DEF Chart
<1>2. levels \in SUBSET Nat
  BY DEF Chart
<1>3. usable = {l \in levels : AheadOf(direction, l, entry) /\ 10 * Far(l, entry) > 3000}
  BY <1>2, UsableIs
<1>4. target = IF worth # {} THEN Plans!Nearest(worth, entry)
               ELSE IF usable # {} THEN Plans!Farthest(usable, entry) ELSE entry + 2 * (entry - stop)
  BY DEF Plans!Target, Pays, Far
<1>5. ASSUME Pays(target, entry, stop) \/ worth = {}
      PROVE  AllThereIs(direction, levels, entry, stop, target)
  BY <1>5 DEF AllThereIs
<1> HIDE DEF usable, target
<1>6. usable \in SUBSET Nat /\ usable \subseteq 0..n
  <2>1. usable \subseteq levels
    BY <1>3
  <2>2. QED BY <1>1, <1>2, <2>1
<1>7. ASSUME NEW l \in usable
      PROVE  l \in Int /\ AheadOf(direction, l, entry) /\ 10 * Far(entry, l) > 3000
  <2>1. l \in Nat /\ AheadOf(direction, l, entry) /\ 10 * Far(l, entry) > 3000
    BY <1>2, <1>3
  <2>2. Far(l, entry) = Far(entry, l)
    BY <2>1, FarIsFar
  <2>3. QED BY <2>1, <2>2
<1>8. worth # {} => target \in usable /\ Pays(target, entry, stop)
  <2>1. worth \in SUBSET Int
    BY <1>7
  <2>2. worth # {} => Plans!Nearest(worth, entry) \in worth
    <3> HIDE DEF worth
    <3>1. QED BY <2>1, NearestIs
  <2>3. QED BY <1>4, <2>2
<1>9. worth = {} /\ usable # {} => target \in usable
  <2> HIDE DEF worth
  <2>1. usable # {} => Plans!Farthest(usable, entry) \in usable
    BY <1>6, FarthestIs
  <2>2. QED BY <1>4, <2>1
<1>10. worth = {} /\ usable = {} => target = entry + 2 * (entry - stop)
  BY <1>4
<1> HIDE DEF worth
<1>11. target \in Int /\ AheadOf(direction, target, entry) /\ 10 * Far(entry, target) > 3000
  <2>1. CASE target \in usable
    BY <1>7, <2>1
  <2>2. CASE target = entry + 2 * (entry - stop)
    <3>1. target \in Int /\ AheadOf(direction, target, entry)
      BY <2>2 DEF AheadOf
    <3>2. Far(entry, target) = 2 * Far(entry, stop) /\ Far(entry, stop) \in Nat
      <4>1. /\ Far(entry, stop) = IF entry > stop THEN entry - stop ELSE stop - entry
            /\ Far(entry, stop) \in Nat
        BY FarIsFar
      <4>2. Far(entry, target) = IF entry > target THEN entry - target ELSE target - entry
        BY <3>1, FarIsFar
      <4>3. QED BY <2>2, <4>1, <4>2
    <3>3. 10 * Far(entry, target) > 3000
      BY <3>2
    <3>4. QED BY <3>1, <3>3
  <2>3. QED BY <1>8, <1>9, <1>10, <2>1, <2>2
<1>12. AllThereIs(direction, levels, entry, stop, target)
  BY <1>5, <1>8
<1>13. QED BY <1>11, <1>12 DEF target

\* The entry of a proposal is the one that was asked for, the last price, or one no
\* worse than that.
LEMMA EntryIs ==
    ASSUME NEW direction \in Side, NEW levels \in SUBSET Nat, NEW ltp \in Int, NEW mode
    PROVE  LET entry == Plans!EntryFor(mode, direction, ltp, levels) IN
           /\ entry \in Int /\ Plans!Toward(direction, ltp - entry) >= 0
           /\ mode = "market" => entry = ltp
<1> DEFINE behind == Plans!Behind(direction, levels, ltp)
           near == Plans!Nearest(behind, ltp)
           entry == Plans!EntryFor(mode, direction, ltp, levels)
<1>1. entry = IF mode = "market" \/ behind = {} THEN ltp
              ELSE near - IF mode = "retest" THEN Plans!Toward(direction, 100) ELSE 0
  BY DEF Plans!EntryFor
<1>2. behind # {} => near \in Int /\ AheadOf(direction, ltp, near)
  <2>1. behind \in SUBSET Int /\ behind = {l \in levels : AheadOf(direction, ltp, l)}
    BY SidesAre
  <2>2. behind # {} => near \in behind
    BY <2>1, NearestIs
  <2> HIDE DEF near
  <2>3. QED BY <2>1, <2>2
<1> HIDE DEF behind, near, entry
<1>3. entry \in Int /\ Plans!Toward(direction, ltp - entry) >= 0 /\ (mode = "market" => entry = ltp)
  <2>1. CASE entry = ltp
    BY <2>1 DEF Plans!Toward
  <2>2. CASE mode # "market" /\ behind # {}
    <3>1. near \in Int /\ AheadOf(direction, ltp, near)
      BY <1>2, <2>2
    <3>2. entry = near - IF mode = "retest" THEN Plans!Toward(direction, 100) ELSE 0
      BY <1>1, <2>2
    <3>3. entry \in Int /\ Plans!Toward(direction, ltp - entry) >= 0
      <4>1. CASE direction = "BUY"
        BY <3>1, <3>2, <4>1 DEF Plans!Toward, AheadOf
      <4>2. CASE direction = "SELL"
        BY <3>1, <3>2, <4>2 DEF Plans!Toward, AheadOf
      <4>3. QED BY <4>1, <4>2 DEF Side
    <3>4. QED BY <2>2, <3>3
  <2>3. QED BY <1>1, <2>1, <2>2
<1>4. QED BY <1>3 DEF entry

-----------------------------------------------------------------------------
Entry(direction, ask, mode, ltp, levels) ==
    IF ask # -1 THEN ask ELSE Plans!EntryFor(mode, direction, ltp, levels)

\* What propose_trade proposes.
Proper(direction, ask, mode, ltp, levels, p) ==
    /\ p.entry \in Int /\ p.stop \in Int /\ p.target \in Int
    /\ AheadOf(direction, p.entry, p.stop) /\ AheadOf(direction, p.target, p.entry)
    /\ (Far(p.entry, p.stop) \in Nat /\ Far(p.entry, p.stop) >= 1002 /\ Far(p.entry, p.stop) <= 3493)
    /\ 10 * Far(p.entry, p.target) > 3000
    /\ (mode = "market" /\ ask = -1) => p.entry = ltp
    /\ ask = -1 => Plans!Toward(direction, ltp - p.entry) >= 0
    /\ Shielded(direction, levels, p.entry, p.stop)
    /\ AllThereIs(direction, levels, p.entry, p.stop, p.target)

LEMMA ProposalIs ==
    ASSUME NEW direction \in Side, NEW levels \in Chart, NEW ltp \in Nat, NEW ask \in Nat \cup {-1}, NEW mode,
           NEW panel, NEW rsi
    PROVE  Proper(direction, ask, mode, ltp, levels,
                  Plans!Propose(direction, ask, mode, ltp, levels, panel, rsi, FALSE))
<1> DEFINE p == Plans!Propose(direction, ask, mode, ltp, levels, panel, rsi, FALSE)
           entry == Entry(direction, ask, mode, ltp, levels)
           stop == Plans!Stop(direction, entry, levels)
           target == Plans!Target(direction, entry, stop, levels)
<1>1. levels \in SUBSET Nat /\ ltp \in Int
  BY DEF Chart
<1>2. p.entry = entry /\ p.stop = stop /\ p.target = target
  BY DEF Plans!Propose, Entry, Plans!Absent
<1>3. /\ entry \in Int
      /\ mode = "market" /\ ask = -1 => entry = ltp
      /\ ask = -1 => Plans!Toward(direction, ltp - entry) >= 0
  <2>1. CASE ask = -1
    <3>1. entry = Plans!EntryFor(mode, direction, ltp, levels)
      BY <2>1 DEF Entry
    <3> HIDE DEF entry
    <3>2. QED BY <1>1, <3>1, EntryIs
  <2>2. CASE ask # -1
    BY <2>2 DEF Entry
  <2>3. QED BY <2>1, <2>2
<1> HIDE DEF entry
<1>4. /\ stop \in Int /\ AheadOf(direction, entry, stop)
      /\ (Far(entry, stop) \in Nat /\ Far(entry, stop) >= 1002 /\ Far(entry, stop) <= 3493)
      /\ Shielded(direction, levels, entry, stop)
  BY <1>1, <1>3, StopIs
<1> HIDE DEF stop
<1>5. /\ target \in Int /\ AheadOf(direction, target, entry)
      /\ 10 * Far(entry, target) > 3000
      /\ AllThereIs(direction, levels, entry, stop, target)
  <2>1. Far(entry, stop) >= 1002
    BY <1>4
  <2>2. QED BY <1>3, <1>4, <2>1, TargetIs
<1> HIDE DEF target, p
<1>6. /\ p.entry \in Int /\ p.stop \in Int /\ p.target \in Int
      /\ AheadOf(direction, p.entry, p.stop) /\ AheadOf(direction, p.target, p.entry)
      /\ Shielded(direction, levels, p.entry, p.stop)
      /\ AllThereIs(direction, levels, p.entry, p.stop, p.target)
  BY <1>2, <1>3, <1>4, <1>5
<1>7. /\ (Far(p.entry, p.stop) \in Nat /\ Far(p.entry, p.stop) >= 1002 /\ Far(p.entry, p.stop) <= 3493) /\ 10 * Far(p.entry, p.target) > 3000
      /\ mode = "market" /\ ask = -1 => p.entry = ltp
      /\ ask = -1 => Plans!Toward(direction, ltp - p.entry) >= 0
  BY <1>2, <1>3, <1>4, <1>5
<1>8. Proper(direction, ask, mode, ltp, levels, p)
  BY <1>6, <1>7 DEF Proper
<1>9. QED BY <1>8 DEF p

-----------------------------------------------------------------------------
\* The gates, for a stop and a target the tool computed.
LEMMA GatesDoPass ==
    ASSUME NEW direction \in Side, NEW entry \in Int, NEW stop \in Int, NEW target \in Int,
           AheadOf(direction, entry, stop), AheadOf(direction, target, entry), (Far(entry, stop) \in Nat /\ Far(entry, stop) >= 1002 /\ Far(entry, stop) <= 3493)
    PROVE  Plans!PriceOrdering(direction, entry, target, stop) /\ Plans!StopSize(entry, stop, 1000)
<1>1. Plans!PriceOrdering(direction, entry, target, stop)
  BY DEF AheadOf, Plans!PriceOrdering
<1>2. (Plans!Distance(entry, stop) \in Nat /\ Plans!Distance(entry, stop) >= 1002 /\ Plans!Distance(entry, stop) <= 3493)
  BY DEF Far
<1>3. Plans!StopSize(entry, stop, 1000)
  BY <1>2 DEF Plans!StopSize
<1>4. QED BY <1>1, <1>3

\* The gate takes no risk for less than a cent.
LEMMA GateIs ==
    ASSUME NEW entry \in Int, NEW stop \in Int, NEW target \in Int, (Far(entry, stop) \in Nat /\ Far(entry, stop) >= 1002 /\ Far(entry, stop) <= 3493),
           Far(entry, stop) >= PlanCent
    PROVE  Plans!RewardRisk(entry, target, stop) <=> Pays(target, entry, stop)
<1>1. Plans!Distance(entry, stop) \in Int /\ Plans!Distance(entry, stop) >= PlanCent /\ PlanCent \in Int
  BY PlanCentIs DEF Far
<1>2. Plans!Max({Plans!Distance(entry, stop), PlanCent}) = Plans!Distance(entry, stop)
  BY <1>1, LargerIs
<1>3. QED BY <1>2 DEF Plans!RewardRisk, Pays, Far

\* The target that is named instead pays for a risk of a cent or more, and for no
\* smaller one.
LEMMA InsteadPays ==
    ASSUME NEW direction \in Side, NEW entry \in Int, NEW stop \in Int, (Far(entry, stop) \in Nat /\ Far(entry, stop) >= 1002 /\ Far(entry, stop) <= 3493)
    PROVE  Plans!RewardRisk(entry, Plans!TargetForMinRr(direction, entry, stop), stop)
              <=> Far(entry, stop) >= PlanCent
<1> DEFINE risk == Far(entry, stop)
           reward == (3 * risk + 1) \div 2
           instead == Plans!TargetForMinRr(direction, entry, stop)
<1>1. instead = IF direction = "BUY" THEN entry + reward ELSE entry - reward
  <2>1. instead = entry + Plans!Toward(direction, reward)
    BY DEF Plans!TargetForMinRr, Far
  <2>2. reward \in Int
    OBVIOUS
  <2> HIDE DEF reward, instead
  <2>3. QED BY <2>1, <2>2 DEF Plans!Toward
<1>2. reward \in Nat /\ 2 * reward >= 3 * risk /\ 2 * reward <= 3 * risk + 1
  <2> HIDE DEF risk
  <2>1. (risk \in Nat /\ risk >= 1002 /\ risk <= 3493)
    BY DEF risk
  <2>2. QED BY <2>1
<1>0. risk \in Nat /\ PlanCent \in Nat
  BY PlanCentIs
<1> HIDE DEF reward, instead, risk
<1>3. instead \in Int
  BY <1>1, <1>2
<1>4. Far(instead, entry) = reward
  <2>1. Far(instead, entry) = IF instead > entry THEN instead - entry ELSE entry - instead
    BY <1>3 DEF Far, Plans!Distance
  <2>2. QED BY <1>1, <1>2, <1>3, <2>1
<1>5. CASE risk >= PlanCent
  <2>1. Pays(instead, entry, stop)
    BY <1>2, <1>4 DEF Pays, risk
  <2>2. Plans!RewardRisk(entry, instead, stop)
    BY <1>3, <1>5, <2>1, GateIs DEF risk
  <2>3. QED BY <1>5, <2>2 DEF instead, risk
<1>6. CASE ~(risk >= PlanCent)
  <2>1. Plans!Max({Plans!Distance(entry, stop), PlanCent}) = PlanCent
    <3>1. Plans!Distance(entry, stop) \in Int /\ PlanCent >= Plans!Distance(entry, stop) /\ PlanCent \in Int
      BY <1>0, <1>6 DEF risk, Far
    <3>2. {Plans!Distance(entry, stop), PlanCent} = {PlanCent, Plans!Distance(entry, stop)}
      OBVIOUS
    <3>3. QED BY <3>1, <3>2, LargerIs
  <2>2. Plans!Distance(instead, entry) = reward
    BY <1>4 DEF Far
  <2>3. ~(2 * reward >= 3 * PlanCent)
    BY <1>0, <1>2, <1>6
  <2>4. ~Plans!RewardRisk(entry, instead, stop)
    BY <2>1, <2>2, <2>3 DEF Plans!RewardRisk
  <2>5. QED BY <1>6, <2>4 DEF instead, risk
<1>7. QED BY <1>5, <1>6

-----------------------------------------------------------------------------
\* A trade is not refused for what the tool computed itself.
LEMMA OwnStopsDoPass ==
    ASSUME NEW direction \in Side, NEW levels \in Chart, NEW ltp \in Nat, NEW ask \in Nat \cup {-1}, NEW mode,
           NEW panel, NEW rsi
    PROVE  Plans!OwnStopsPass(direction, ask, mode, ltp, levels, panel, rsi)
<1> DEFINE p == Plans!Propose(direction, ask, mode, ltp, levels, panel, rsi, FALSE)
           atMarket == mode = "market" /\ ask = -1
<1>1. Proper(direction, ask, mode, ltp, levels, p)
  BY ProposalIs
<1>2. p.failed = Plans!Failed(direction, p.entry, p.target, p.stop, panel, rsi, ltp, atMarket)
  BY DEF Plans!Propose, Plans!Absent
<1> HIDE DEF p
<1>3. Plans!PriceOrdering(direction, p.entry, p.target, p.stop) /\ Plans!StopSize(p.entry, p.stop, 1000)
  BY <1>1, GatesDoPass DEF Proper
<1>5. atMarket => Plans!EntryDrift(p.entry, ltp, 1000)
  BY <1>1 DEF Proper, Plans!EntryDrift, Plans!Distance
<1> HIDE DEF atMarket
<1>6. "ordering" \notin p.failed /\ "stop" \notin p.failed /\ "drift" \notin p.failed
  BY <1>2, <1>3, <1>5 DEF Plans!Failed
<1>7. QED BY <1>6 DEF p, Plans!OwnStopsPass

\* The stop is where the level shields it.
LEMMA StopsDoHide ==
    ASSUME NEW direction \in Side, NEW levels \in Chart, NEW ltp \in Nat, NEW ask \in Nat \cup {-1}, NEW mode,
           NEW panel, NEW rsi
    PROVE  Plans!StopsAreBehindLevels(direction, ask, mode, ltp, levels, panel, rsi)
<1> DEFINE p == Plans!Propose(direction, ask, mode, ltp, levels, panel, rsi, FALSE)
           behind == Plans!Behind(direction, levels, p.entry)
           near == Plans!Nearest(behind, p.entry)
<1>1. Proper(direction, ask, mode, ltp, levels, p)
  BY ProposalIs
<1> HIDE DEF p
<1>2. \/ behind = {}
      \/ Far(p.entry, p.stop) = 3493
      \/ Far(p.entry, p.stop) >= Far(near, p.entry) + 150
  BY <1>1 DEF Proper, Shielded
<1>3. behind # {} => Far(near, p.entry) = Plans!Distance(p.entry, near)
  <2>1. levels \in SUBSET Nat /\ p.entry \in Int
    BY <1>1 DEF Chart, Proper
  <2>2. behind \in SUBSET Int
    BY <2>1, SidesAre
  <2> HIDE DEF behind
  <2>3. behind # {} => near \in Int
    BY <2>1, <2>2, NearestIs
  <2> HIDE DEF near
  <2>4. QED BY <2>1, <2>3, DistanceFacts
<1>4. Far(p.entry, p.stop) = Plans!Distance(p.entry, p.stop)
  BY DEF Far
<1> HIDE DEF behind, near
<1>5. \/ behind = {}
      \/ Plans!Distance(p.entry, p.stop) = 3493
      \/ Plans!Distance(p.entry, p.stop) >= Plans!Distance(p.entry, near) + 150
  BY <1>2, <1>3, <1>4
<1>6. \/ behind = {}
      \/ Plans!Distance(p.entry, p.stop) = Plans!Ceiling
      \/ Plans!Distance(p.entry, p.stop) >= Plans!Distance(p.entry, near) + (1000 * 15) \div 100
  BY <1>5, SizesAre
<1>7. QED BY <1>6, Zenon DEF p, behind, near, Plans!StopsAreBehindLevels

\* A pullback's entry is no worse than the last price.
LEMMA PullbacksCostNothing ==
    ASSUME NEW direction \in Side, NEW levels \in Chart, NEW ltp \in Nat, NEW mode, NEW panel, NEW rsi
    PROVE  Plans!PullbacksAreBetter(direction, mode, ltp, levels, panel, rsi)
<1> DEFINE p == Plans!Propose(direction, -1, mode, ltp, levels, panel, rsi, FALSE)
<1>1. Proper(direction, -1, mode, ltp, levels, p)
  BY ProposalIs
<1> HIDE DEF p
<1>2. Plans!Toward(direction, ltp - p.entry) >= 0 /\ 10 * Plans!Distance(p.entry, p.target) > 3 * 1000
  BY <1>1 DEF Proper, Far
<1>3. QED BY <1>2, Zenon DEF p, Plans!PullbacksAreBetter, Plans!Absent

\* A trade that is refused for its reward had nothing better to aim at.
LEMMA RefusalsAreHonest ==
    ASSUME NEW direction \in Side, NEW levels \in Chart, NEW ltp \in Nat, NEW ask \in Nat \cup {-1}, NEW mode,
           NEW panel, NEW rsi
    PROVE  Plans!RefusalIsHonest(direction, ask, mode, ltp, levels, panel, rsi)
<1> DEFINE p == Plans!Propose(direction, ask, mode, ltp, levels, panel, rsi, FALSE)
           atMarket == mode = "market" /\ ask = -1
           instead == Plans!TargetForMinRr(direction, p.entry, p.stop)
           usable == Plans!Usable(direction, p.entry, levels)
<1>1. Proper(direction, ask, mode, ltp, levels, p)
  BY ProposalIs
<1>2. p.failed = Plans!Failed(direction, p.entry, p.target, p.stop, panel, rsi, ltp, atMarket)
  BY DEF Plans!Propose, Plans!Absent
<1> HIDE DEF p
<1>3. /\ p.entry \in Int /\ p.stop \in Int /\ p.target \in Int /\ (Far(p.entry, p.stop) \in Nat /\ Far(p.entry, p.stop) >= 1002 /\ Far(p.entry, p.stop) <= 3493)
      /\ AllThereIs(direction, levels, p.entry, p.stop, p.target)
  BY <1>1 DEF Proper
<1>0. SUFFICES ASSUME "reward" \in p.failed
               PROVE  /\ Far(p.entry, p.stop) >= PlanCent => \A l \in usable : ~Plans!RewardRisk(p.entry, l, p.stop)
                      /\ Plans!RewardRisk(p.entry, instead, p.stop) = (Far(p.entry, p.stop) >= PlanCent)
  BY DEF p, usable, instead, Far, Plans!RefusalIsHonest
<1>4. ASSUME Far(p.entry, p.stop) >= PlanCent
      PROVE  \A l \in usable : ~Plans!RewardRisk(p.entry, l, p.stop)
  <2>1. ~Plans!RewardRisk(p.entry, p.target, p.stop)
    BY <1>0, <1>2 DEF Plans!Failed
  <2>2. ~Pays(p.target, p.entry, p.stop)
    BY <1>3, <1>4, <2>1, GateIs
  <2>3. \A l \in usable : ~Pays(l, p.entry, p.stop)
    BY <1>3, <2>2 DEF AllThereIs
  <2>4. \A l \in usable : l \in Int
    <3>1. levels \in SUBSET Nat
      BY DEF Chart
    <3>2. usable \subseteq levels
      BY <1>3, <3>1, UsableIs
    <3> HIDE DEF usable
    <3>3. QED BY <3>1, <3>2
  <2> HIDE DEF usable
  <2>5. ASSUME NEW l \in usable PROVE ~Plans!RewardRisk(p.entry, l, p.stop)
    <3>1. l \in Int /\ ~Pays(l, p.entry, p.stop)
      BY <2>3, <2>4
    <3>2. QED BY <1>3, <1>4, <3>1, GateIs
  <2>6. QED BY <2>5
<1>5. Plans!RewardRisk(p.entry, instead, p.stop) <=> Far(p.entry, p.stop) >= PlanCent
  BY <1>3, InsteadPays
<1>6. Plans!RewardRisk(p.entry, instead, p.stop) \in BOOLEAN
  BY DEF Plans!RewardRisk
<1> HIDE DEF usable, instead
<1>7. QED BY <1>4, <1>5, <1>6

\* The gates of the engine and of the tool let the same trades through, but for
\* what their panels confirm.
LEMMA TheEngineAgrees ==
    ASSUME NEW levels \in Chart, NEW ltp \in Nat, NEW panel, NEW rsi
    PROVE  Plans!SameButForThePanel(ltp, levels, panel, rsi)
<1> DEFINE p == Plans!Propose("BUY", -1, "market", ltp, levels, panel, rsi, FALSE)
           s == [direction |-> "BUY", entry |-> p.entry, target |-> p.target, stop |-> p.stop]
           few == Plans!EnginePanel(panel)
           says == Plans!EngineSays(p, ltp, panel, rsi)
           tool == Plans!Confirms("BUY", panel)
           engine == Plans!Confirms("BUY", few)
           rest == /\ ~Plans!RsiExtreme("BUY", rsi)
                   /\ Plans!RewardRisk(p.entry, p.target, p.stop)
<1>1. Proper("BUY", -1, "market", ltp, levels, p)
  BY ProposalIs DEF Side
<1>2. /\ p.failed = Plans!Failed("BUY", p.entry, p.target, p.stop, panel, rsi, ltp, TRUE)
      /\ p.verdict = IF p.failed = {} THEN "passes_every_gate" ELSE "rejected"
  BY DEF Plans!Propose, Plans!Absent
<1> HIDE DEF p
<1>3. p.entry = ltp /\ p.entry # -1
  BY <1>1 DEF Proper
<1>4. Plans!PriceOrdering("BUY", p.entry, p.target, p.stop) /\ Plans!StopSize(p.entry, p.stop, 1000)
  BY <1>1, GatesDoPass DEF Proper, Side
<1>6. Plans!EntryDrift(p.entry, ltp, 1000)
  BY <1>3 DEF Plans!EntryDrift, Plans!Distance
<1>7. (p.failed = {} <=> tool /\ rest) /\ (rest => p.failed \subseteq {"confluence"})
  BY <1>2, <1>4, <1>6 DEF Plans!Failed
<1>0. says = Plans!Validate(s, few, rsi, 1000, ltp)
  BY Zenon DEF Plans!EngineSays
<1>8. Plans!Validate(s, few, rsi, 1000, ltp) = "ok" <=> engine /\ rest
  BY <1>3, <1>4, <1>6, ZenonT(60) DEF Plans!Validate, Plans!Absent
<1>12. ASSUME rest, ~engine PROVE Plans!Validate(s, few, rsi, 1000, ltp) = "confluence"
  <2>1. /\ s.direction # "HOLD" /\ s.direction # "SELL" /\ s.entry # -1
        /\ Plans!PriceOrdering(s.direction, s.entry, s.target, s.stop) /\ Plans!EntryDrift(s.entry, ltp, 1000)
    BY <1>3, <1>4, <1>6
  <2>2. /\ ~Plans!Confirms(s.direction, few) /\ ~Plans!RsiExtreme(s.direction, rsi)
        /\ Plans!RewardRisk(s.entry, s.target, s.stop) /\ Plans!StopSize(s.entry, s.stop, 1000)
    BY <1>4, <1>12
  <2> HIDE DEF s, few
  <2>3. QED BY <2>1, <2>2, Zenon DEF Plans!Validate, Plans!Absent
<1>9. p.verdict = "passes_every_gate" <=> tool /\ rest
  BY <1>2, <1>7
<1>13. tool \in BOOLEAN /\ engine \in BOOLEAN
  BY DEF Plans!Confirms
<1> HIDE DEF tool, engine, rest, says
<1>10. /\ p.verdict = "passes_every_gate" => says \in {"ok", "confluence"}
       /\ says = "ok" => p.failed \subseteq {"confluence"}
       /\ tool = engine => (p.verdict = "passes_every_gate") = (says = "ok")
  BY <1>0, <1>7, <1>8, <1>9, <1>12, <1>13
<1>11. QED BY <1>10, Zenon DEF p, says, tool, engine, Plans!SameButForThePanel, Plans!Absent

-----------------------------------------------------------------------------
\* What a whole number of shares costs at most.
LEMMA QuotientIs ==
    ASSUME NEW sum \in Nat, NEW price \in Nat, price > 0
    PROVE  LET most == sum \div price IN
           /\ most \in Nat
           /\ \A k \in Nat : k <= most => k * price <= sum
           /\ (most + 1) * price > sum
<1> DEFINE most == sum \div price
<1>1. PICK left \in Int : sum = price * most + left /\ 0 <= left /\ left < price
  <2>1. sum = price * most + (sum % price) /\ (sum % price) \in 0..(price - 1)
    OBVIOUS
  <2>2. QED BY <2>1
<1>2. most \in Nat
  OBVIOUS
<1> HIDE DEF most
<1>3. ASSUME NEW k \in Nat, k <= most PROVE k * price <= most * price
  <2> DEFINE rest == most - k
  <2>1. rest \in Nat /\ most = k + rest
    BY <1>2, <1>3
  <2> HIDE DEF rest
  <2>2. rest * price >= 0
    BY <2>1
  <2>3. most * price = k * price + rest * price
    BY <2>1
  <2>4. QED BY <2>1, <2>2, <2>3
<1>4. QED BY <1>1, <1>2, <1>3 DEF most

\* An account: what is in it, what it began with, what of it is in cash, each a number or
\* nothing.
Account == [total : Nat \cup {-1}, initial : Nat \cup {-1}, cash : Nat \cup {-1},
            stale : BOOLEAN, error : BOOLEAN]

\* The least of three, and the share of an account that may be risked.
LEMMA ThirdIs == \A a, b, c \in Int : Plans!Min({a, b, c}) = IF a <= b /\ a <= c THEN a ELSE IF b <= c THEN b ELSE c
BY DEF Plans!Min

LEMMA ShareIs == \A percent \in Int : Plans!Clamp(25, percent, 200) \in Nat
<1> TAKE percent \in Int
<1>1. Plans!Clamp(25, percent, 200) = Plans!Max({25, IF percent <= 200 THEN percent ELSE 200})
  BY SmallerIs DEF Plans!Clamp
<1>2. QED BY <1>1, LargerIs

\* The tightest of three limits is the most that is within all of them.
Tightest(n, riskable, risk, cash, entry, part, whole) ==
    /\ n \in Nat
    /\ n * risk <= riskable /\ n * entry <= cash /\ n * whole <= part
    /\ ~(/\ (n + 1) * risk <= riskable /\ (n + 1) * entry <= cash
         /\ (n + 1) * whole <= part)

LEMMA TightestIs ==
    ASSUME NEW riskable \in Nat, NEW cash \in Nat, NEW part \in Nat,
           NEW risk \in Nat, risk > 0, NEW entry \in Nat, entry > 0, NEW whole \in Nat, whole > 0,
           NEW n, n = Plans!Min({riskable \div risk, cash \div entry, part \div whole})
    PROVE  Tightest(n, riskable, risk, cash, entry, part, whole)
<1> DEFINE a == riskable \div risk
           b == cash \div entry
           c == part \div whole
<1>1. a \in Nat /\ (\A k \in Nat : k <= a => k * risk <= riskable) /\ (a + 1) * risk > riskable
  BY QuotientIs
<1>2. b \in Nat /\ (\A k \in Nat : k <= b => k * entry <= cash) /\ (b + 1) * entry > cash
  BY QuotientIs
<1>3. c \in Nat /\ (\A k \in Nat : k <= c => k * whole <= part) /\ (c + 1) * whole > part
  BY QuotientIs
<1>0. n = Plans!Min({a, b, c})
  OBVIOUS
<1> HIDE DEF a, b, c
<1>4. n \in Nat /\ n <= a /\ n <= b /\ n <= c /\ (n = a \/ n = b \/ n = c)
  BY <1>0, <1>1, <1>2, <1>3, ThirdIs
<1>5. n * risk <= riskable /\ n * entry <= cash /\ n * whole <= part
  BY <1>1, <1>2, <1>3, <1>4
<1>6. ~((n + 1) * risk <= riskable /\ (n + 1) * entry <= cash /\ (n + 1) * whole <= part)
  <2>1. CASE n = a
    <3>1. (n + 1) * risk > riskable
      BY <1>1, <2>1
    <3>2. QED BY <1>1, <3>1, <2>1
  <2>2. CASE n = b
    <3>1. (n + 1) * entry > cash
      BY <1>2, <2>2
    <3>2. QED BY <1>2, <3>1, <2>2
  <2>3. CASE n = c
    <3>1. (n + 1) * whole > part
      BY <1>3, <2>3
    <3>2. QED BY <1>3, <3>1, <2>3
  <2>4. QED BY <1>4, <2>1, <2>2, <2>3
<1>7. QED BY <1>4, <1>5, <1>6 DEF Tightest

\* A size is the most the account can pay for.
LEMMA SizesAreTheLimit ==
    ASSUME NEW pf \in Account, NEW entry \in Nat, NEW stop \in Nat, NEW percent \in Int
    PROVE  Plans!SizeIsTheLimit(pf, entry, stop, percent)
<1> DEFINE account == IF pf.total \in {-1, 0} THEN pf.initial ELSE pf.total
           share == Plans!Clamp(25, percent, 200)
           risk == Plans!Distance(entry, stop)
           n == Plans!PositionSize(pf, entry, stop, percent)
           Affords(k) == /\ 10000 * k * risk <= account * share
                      /\ k * entry <= pf.cash /\ 10000 * k * entry <= account * 2000
           withheld == entry = stop \/ pf.error \/ account = -1 \/ pf.cash = -1 \/ pf.stale
           allowed == Plans!Allowed(account, pf.cash, entry, risk, percent)
<1>1. n = IF withheld THEN -1 ELSE Plans!Max({0, allowed})
  BY DEF Plans!PositionSize, Plans!Absent
<1>2. allowed = Plans!Min({(account * share) \div (10000 * risk),
                           IF entry > 0 THEN pf.cash \div entry ELSE 0,
                           IF entry > 0 THEN (account * 2000) \div (10000 * entry) ELSE 0})
  BY DEF Plans!Allowed
<1>3. share \in Nat
  BY ShareIs
<1>4. pf.cash \in Nat \cup {-1} /\ account \in Nat \cup {-1} /\ pf.stale \in BOOLEAN /\ pf.error \in BOOLEAN
  BY DEF Account
<1>5. risk \in Nat /\ (entry # stop => risk > 0)
  BY DEF Plans!Distance
<1> HIDE DEF account, share, risk, n, allowed
<1>6. CASE withheld
  <2>1. n = -1
    BY <1>1, <1>6
  <2>2. QED BY <2>1 DEF n, Plans!SizeIsTheLimit, Plans!Absent
<1>7. CASE ~withheld
  <2>1. /\ pf.cash \in Nat /\ account \in Nat /\ risk > 0 /\ ~pf.stale /\ ~pf.error
        /\ n = Plans!Max({0, allowed})
    BY <1>1, <1>4, <1>5, <1>7
  <2>2. account * share \in Nat /\ account * 2000 \in Nat /\ 10000 * risk \in Nat /\ 10000 * risk > 0
    BY <1>3, <1>5, <2>1
  <2>3. CASE entry = 0
    <3>1. (account * share) \div (10000 * risk) \in Nat
      BY <2>2, QuotientIs
    <3>2. allowed = 0
      BY <1>2, <2>3, <3>1, ThirdIs
    <3>3. n = 0
      BY <2>1, <3>2, LargerIs
    <3>4. ~(n > 0) /\ ~(entry > 0)
      BY <2>3, <3>3
    <3>5. QED BY <3>4 DEF n, Plans!SizeIsTheLimit
  <2>4. CASE entry > 0
    <3>1. 10000 * entry \in Nat /\ 10000 * entry > 0
      BY <2>4
    <3>2. /\ allowed \in Nat
          /\ allowed * (10000 * risk) <= account * share /\ allowed * entry <= pf.cash
          /\ allowed * (10000 * entry) <= account * 2000
          /\ ~(/\ (allowed + 1) * (10000 * risk) <= account * share /\ (allowed + 1) * entry <= pf.cash
               /\ (allowed + 1) * (10000 * entry) <= account * 2000)
      <4>1. allowed = Plans!Min({(account * share) \div (10000 * risk), pf.cash \div entry,
                                 (account * 2000) \div (10000 * entry)})
        BY <1>2, <2>4
      <4> DEFINE riskable == account * share
                 part == account * 2000
                 each == 10000 * risk
                 whole == 10000 * entry
                 cash == pf.cash
      <4>2. riskable \in Nat /\ part \in Nat /\ each \in Nat /\ each > 0 /\ whole \in Nat /\ whole > 0
            /\ cash \in Nat
        BY <2>1, <2>2, <3>1
      <4>3. allowed = Plans!Min({riskable \div each, cash \div entry, part \div whole})
        BY <4>1
      <4> HIDE DEF riskable, part, each, whole, cash, Affords, withheld
      <4>4. Tightest(allowed, riskable, each, cash, entry, part, whole)
        BY <2>4, <4>2, <4>3, TightestIs
      <4>5. QED BY <4>4 DEF Tightest, riskable, part, each, whole, cash
    <3>3. n = allowed
      BY <2>1, <3>2, LargerIs
    <3>4. /\ 10000 * n * risk = n * (10000 * risk) /\ 10000 * n * entry = n * (10000 * entry)
          /\ 10000 * (n + 1) * risk = (n + 1) * (10000 * risk)
          /\ 10000 * (n + 1) * entry = (n + 1) * (10000 * entry)
      BY <1>5, <3>2, <3>3
    <3>5. Affords(n) /\ ~Affords(n + 1)
      BY <3>2, <3>3, <3>4
    <3> HIDE DEF Affords
    <3>6. n = -1 \/ (/\ n > 0 => Affords(n) /\ ~pf.stale /\ ~pf.error
                     /\ entry > 0 => ~Affords(n + 1))
      BY <2>1, <3>5
    <3>7. QED BY <3>6 DEF n, Affords, account, share, risk, Plans!SizeIsTheLimit, Plans!Absent
  <2>5. QED BY <2>3, <2>4
<1>8. QED BY <1>6, <1>7

-----------------------------------------------------------------------------
\* Every question to the two tools: propose_trade about any chart of levels, at any price,
\* for either side, in any mode, for an entry that is asked for or not, whatever the panel
\* and the RSI; position_size of any account, prices and percentage.
Question(t) ==
    \/ /\ t.of = "plan" /\ t.direction \in Side /\ t.levels \in Chart
       /\ t.ltp \in Nat /\ t.ask \in Nat \cup {-1}
    \/ /\ t.of = "size" /\ t.pf \in Account /\ t.entry \in Nat /\ t.stop \in Nat /\ t.percent \in Int

\* Whatever the two tools are asked and whatever a cent is of the ATR, a plan passes the
\* gates on its own stop and differs from the engine's verdict by the panel alone; one that
\* risks a cent is refused for its reward only when the chart insists; and a size is the
\* most the account can pay for.
THEOREM EveryPlanIsSound == Question(trial) => PlansAreSound
<1> SUFFICES ASSUME Question(trial) PROVE PlansAreSound
  OBVIOUS
<1>1. CASE /\ trial.of = "plan" /\ trial.direction \in Side /\ trial.levels \in Chart
           /\ trial.ltp \in Nat /\ trial.ask \in Nat \cup {-1}
  <2>1. OwnStopsPass
    BY <1>1, OwnStopsDoPass DEF OwnStopsPass
  <2>2. StopsAreBehindLevels
    BY <1>1, StopsDoHide DEF StopsAreBehindLevels
  <2>3. RefusalIsHonest
    BY <1>1, RefusalsAreHonest DEF RefusalIsHonest
  <2>4. SameButForThePanel
    BY <1>1, TheEngineAgrees DEF SameButForThePanel
  <2>5. PullbacksAreBetter
    BY <1>1, PullbacksCostNothing DEF PullbacksAreBetter
  <2>6. SizeIsTheLimit
    BY <1>1 DEF SizeIsTheLimit
  <2>7. QED BY <2>1, <2>2, <2>3, <2>4, <2>5, <2>6 DEF PlansAreSound
<1>2. CASE /\ trial.of = "size" /\ trial.pf \in Account /\ trial.entry \in Nat /\ trial.stop \in Nat
           /\ trial.percent \in Int
  <2>1. SizeIsTheLimit
    BY <1>2, SizesAreTheLimit DEF SizeIsTheLimit
  <2>2. QED BY <1>2, <2>1 DEF PlansAreSound, OwnStopsPass, StopsAreBehindLevels, RefusalIsHonest,
            SameButForThePanel, PullbacksAreBetter
<1>3. QED BY <1>1, <1>2 DEF Question
=============================================================================
