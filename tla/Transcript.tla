----------------------------- MODULE Transcript -----------------------------
(***************************************************************************)
(* The message list of one chat turn (app/signals/agent/transcript.py) and *)
(* the ceiling it is held to: every tool result appended may cost older    *)
(* ones their content.  A message is its role, the length of its content   *)
(* and whether that content was replaced by STALE_NOTE.                    *)
(***************************************************************************)
EXTENDS Naturals, Sequences, FiniteSets

LOCAL INSTANCE FiniteSetsExt
LOCAL INSTANCE SequencesExt

CONSTANTS
    TextSize,        \* lengths of what the user and the model say
    ResultSize,      \* lengths of a serialised tool result
    NoteSize,        \* length of STALE_NOTE
    MaxResult,       \* max_tool_result_chars
    Ceiling,         \* max_total_tokens, 0 for none
    MaxMessages      \* bound: messages of a turn

ASSUME SizeAssumption ==
    /\ TextSize \subseteq Nat /\ ResultSize \subseteq Nat /\ NoteSize \in Nat
    /\ MaxResult \in Nat /\ Ceiling \in Nat /\ MaxMessages \in Nat \ {0}

VARIABLES
    messages,        \* _messages
    unanswered,      \* tool calls of the last request without a result yet
    trimmed,         \* trimmed_results
    dropped          \* dropped_results

listVars == <<messages, unanswered, trimmed, dropped>>

Role == {"system", "user", "assistant", "tool"}

ListTypeOK ==
    /\ \A i \in DOMAIN messages :
          /\ messages[i].role \in Role
          /\ messages[i].size \in Nat
          /\ messages[i].stale \in BOOLEAN
    /\ unanswered \in Nat /\ trimmed \in Nat /\ dropped \in Nat

Says(role, size) == [role |-> role, size |-> size, stale |-> FALSE]

\* Mutant: the note is not a tool's message any more.
NoteOfNobody == [role |-> "note", size |-> NoteSize, stale |-> TRUE]

Note == [role |-> "tool", size |-> NoteSize, stale |-> TRUE]

\* prepare(): the system prompt, the history, the question.
ListInit ==
    /\ \E system, question \in TextSize, history \in TextSize \cup {0} :
          messages = <<Says("system", system)>>
                     \o (IF history = 0 THEN <<>> ELSE <<Says("assistant", history)>>)
                     \o <<Says("user", question)>>
    /\ unanswered = 0 /\ trimmed = 0 /\ dropped = 0

-----------------------------------------------------------------------------
Total(ms) == FoldLeft(LAMBDA n, m : n + m.size, 0, ms)

\* Mutant: whatever was not shed may be shed.
FreshAnything(m) == ~m.stale

Fresh(m) == m.role = "tool" /\ ~m.stale

\* Mutants: the newest first; one result at most; a list that just fits does
\* not fit.
EnforceNewest(ms) ==
    LET n == Len(ms)
        after[i \in 0..n] ==
            IF i = 0 THEN ms
            ELSE LET cur == after[i - 1]  k == n + 1 - i IN
                 IF Total(cur) <= Ceiling \/ ~Fresh(cur[k]) THEN cur
                 ELSE [cur EXCEPT ![k] = Note]
    IN  IF Ceiling = 0 THEN ms ELSE after[n]

EnforceOnce(ms) ==
    LET fresh == {i \in DOMAIN ms : Fresh(ms[i])} IN
    IF Ceiling = 0 \/ Total(ms) <= Ceiling \/ fresh = {} THEN ms
    ELSE [ms EXCEPT ![Min(fresh)] = Note]

EnforceStrictly(ms) ==
    LET after[i \in 0..Len(ms)] ==
            IF i = 0 THEN ms
            ELSE LET cur == after[i - 1] IN
                 IF Total(cur) < Ceiling \/ ~Fresh(cur[i]) THEN cur
                 ELSE [cur EXCEPT ![i] = Note]
    IN  IF Ceiling = 0 THEN ms ELSE after[Len(ms)]

\* One step of _enforce_ceiling: a list that does not fit loses its i-th message,
\* if that is a result in full.
Shed(ms, i) ==
    IF Total(ms) <= Ceiling \/ ~Fresh(ms[i]) THEN ms ELSE [ms EXCEPT ![i] = Note]

\* _enforce_ceiling: message by message, oldest first, until the list fits.
After(ms) ==
    LET after[i \in 0..Len(ms)] == IF i = 0 THEN ms ELSE Shed(after[i - 1], i)
    IN  after

Enforce(ms) == IF Ceiling = 0 THEN ms ELSE After(ms)[Len(ms)]

Stale(ms) == {i \in DOMAIN ms : ms[i].stale}

\* The model asks for n tools, perhaps with prose.
AddToolCalls ==
    /\ unanswered = 0 /\ Len(messages) < MaxMessages
    /\ \E size \in TextSize \cup {0}, n \in 1..(MaxMessages - Len(messages)) :
          /\ messages' = Append(messages, Says("assistant", size))
          /\ unanswered' = n
    /\ UNCHANGED <<trimmed, dropped>>

\* A result comes back: one over the limit is shrunk, which shortens its lists
\* and leaves every other value whole; then the ceiling is enforced.
AddToolResult ==
    /\ unanswered > 0
    /\ \E raw, size \in ResultSize :
          LET added == Append(messages, Says("tool", size)) IN
          /\ IF raw <= MaxResult THEN size = raw ELSE size <= raw
          /\ messages' = Enforce(added)
          /\ trimmed' = IF raw > MaxResult THEN trimmed + 1 ELSE trimmed
          /\ dropped' = dropped + Cardinality(Stale(Enforce(added)) \ Stale(messages))
    /\ unanswered' = unanswered - 1

\* The orchestrator steers: the account check, or the wrap-up.
AddInstruction ==
    /\ unanswered = 0 /\ Len(messages) < MaxMessages
    /\ \E size \in TextSize : messages' = Append(messages, Says("user", size))
    /\ UNCHANGED <<unanswered, trimmed, dropped>>

ListNext == AddToolCalls \/ AddToolResult \/ AddInstruction

ListSpec == ListInit /\ [][ListNext]_listVars
-----------------------------------------------------------------------------
Results == {i \in DOMAIN messages : messages[i].role = "tool"}

\* _enforce_ceiling: "Shed the oldest tool results until the transcript fits":
\* over a whole turn of results, long and short, no result is shed while an
\* older one is kept.
OldestFirst ==
    \A i, j \in Results : i < j /\ messages[j].stale => messages[i].stale

\* Once a result is in, the list fits, or there is nothing left to shed.
FitsOrSpent ==
    Ceiling # 0 /\ Last(messages).role = "tool" =>
        \/ Total(messages) <= Ceiling
        \/ \A i \in Results : messages[i].stale

\* ... and no result is shed that need not be: the walk stops where the first k
\* results shed are enough, for the least such k.
ShedFirst(ms, k) ==
    [i \in DOMAIN ms |->
        IF Fresh(ms[i]) /\ Cardinality({j \in 1..i : Fresh(ms[j])}) <= k
        THEN Note ELSE ms[i]]

ShedsOnlyWhatItMust ==
    \A size \in ResultSize :
        LET ms   == Append(messages, Says("tool", size))
            n    == Cardinality({i \in DOMAIN ms : Fresh(ms[i])})
            fits == {k \in 0..n : Total(ShedFirst(ms, k)) <= Ceiling}
        IN  Enforce(ms) = ShedFirst(ms, IF Ceiling = 0 THEN 0
                                        ELSE IF fits = {} THEN n ELSE Min(fits))

\* "Only tool results are shed ... dropping those would change what was asked":
\* a message that changes was a result in full and is the note from then on,
\* and the counter the turn reports says how often that happened.
OnlyResultsShed ==
    [][/\ \A i \in DOMAIN messages :
            messages'[i] # messages[i] =>
                messages[i].role = "tool" /\ ~messages[i].stale /\ messages'[i] = Note
       /\ dropped' = Cardinality(Stale(messages'))]_listVars

\* What is shed is the oldest results, as few as do, until the list fits.
ShedsInOrder == ListTypeOK /\ OldestFirst /\ FitsOrSpent /\ ShedsOnlyWhatItMust
=============================================================================
