------------------------------ MODULE ChatTurn ------------------------------
(***************************************************************************)
(* One turn of the chat agent (app/signals/agent): triage, the loop of     *)
(* model calls and tool calls under three budgets (orchestrator.py,        *)
(* budget.py), what happens around a tool call (runner.py) and what a tool *)
(* reads of the market and of the account (tools/base.py, context.py).     *)
(* The language model is external: at every call it may say anything the   *)
(* API allows, or fail.                                                    *)
(*                                                                         *)
(* The state is TurnState's, the Budget's, the ToolRunner's and the        *)
(* ToolContext's; the messages themselves are in Transcript.               *)
(***************************************************************************)
EXTENDS Naturals, Sequences

CONSTANTS
    Tool,          \* names in the registry
    AccountTool,   \* _ACCOUNT_TOOLS
    Gathers,       \* tools that read one frame twice at once, with asyncio.gather
    Bounded,       \* tools that do so with gather_bounded, which drops a reader that fails
    Writer,        \* the tool that asks the model itself: generate_custom_indicator
    Arg,           \* argument objects
    Malformed,     \* argument texts that parse, to something not an object
    Call,          \* the <<name, arguments>> the model may ask for
    SignedIn,      \* the turn has a user_id
    MaxCalls,      \* max_calls_per_tool
    MaxRounds,     \* agent_max_tool_rounds
    MaxTokens,     \* chat_token_budget, in units of what one response costs
    MaxBatch       \* bound: tool calls in one response

ASSUME ToolAssumption ==
    /\ AccountTool \cup Gathers \cup Bounded \cup {Writer} \subseteq Tool
    /\ Writer \notin AccountTool /\ SignedIn \in BOOLEAN
ASSUME ReaderAssumption == (Gathers \cup Bounded) \cap (AccountTool \cup {Writer}) = {}
ASSUME CallAssumption ==
    Call \subseteq STRING \X (Arg \cup Malformed) /\ "book" \notin Arg
ASSUME BoundAssumption ==
    {MaxCalls, MaxRounds, MaxTokens, MaxBatch} \subseteq Nat \ {0}

\* What the model writes: nothing, prose, or prose with account figures in it.
Text == {"none", "plain", "figures"}
Reason == {"none", "answered_by_triage", "rounds", "time", "tokens", "error"}

\* What tools read and the turn remembers: the user's book, and one frame for
\* each <<symbol, interval>>, which here is told by the arguments.  A call reads
\* one item; its source may answer every time it is asked another way.
Item == Arg \cup {"book"}
Answers == {"missing", "old", "new"}

VARIABLES
    stage,         \* triage, loop (its head), tools (in _run_tools), handler (in a tool), done
    rounds,        \* budget.rounds_used
    spent,         \* budget.usage.total_tokens
    late,          \* the wall clock has passed chat_turn_budget_seconds
    pending,       \* tool calls of the response not executed yet
    counts,        \* runner._counts
    memo,          \* keys of runner._memo
    fetched,       \* ToolContext._frames and TradingContextClient._cached
    looking,       \* readers of the handler that have not looked into the cache yet
    asking,        \* readers of the handler that await the source
    told,          \* a reader of the handler was told of data
    stray,         \* readers that outlived their handler, by item
    toolsCalled,   \* the account tools in state.tools_called
    retried,       \* state.account_check_retried
    partial,       \* state.partial_text
    final,         \* state.final_text
    reason,        \* state.stop_reason
    failed,        \* state.failed
    asked,         \* history: requests the turn sent to the model
    drafted,       \* history: requests its handlers sent to the model
    won            \* history: how often each call's handler succeeded

budget  == <<rounds, spent, asked, drafted>>
runner  == <<counts, memo, won>>
readers == <<looking, asking, told>>
reading == <<fetched, readers, stray>>
texts   == <<retried, partial, final, reason, failed>>
vars == <<stage, late, pending, toolsCalled, budget, runner, reading, texts>>

TypeOK ==
    /\ stage \in {"triage", "loop", "tools", "handler", "done"}
    /\ rounds \in 0..MaxRounds /\ spent \in 0..MaxTokens
    /\ asked \in Nat /\ drafted \in Nat
    /\ late \in BOOLEAN
    /\ pending \in Seq(Call)
    /\ counts \in [Tool -> Nat] /\ won \in [Call -> Nat] /\ memo \subseteq Call
    /\ fetched \in [Item -> Answers \cup {"unasked"}] /\ stray \in [Item -> Nat]
    /\ looking \in 0..2 /\ asking \in 0..2 /\ told \in BOOLEAN
    /\ toolsCalled \subseteq AccountTool
    /\ partial \in Text /\ final \in Text /\ reason \in Reason
    /\ retried \in BOOLEAN /\ failed \in BOOLEAN

\* run_chat starts with the front desk unless triage_enabled is off.
Init ==
    /\ stage \in {"triage", "loop"}
    /\ rounds = 0 /\ spent = 0 /\ asked = 0 /\ drafted = 0
    /\ late = FALSE
    /\ pending = <<>> /\ toolsCalled = {}
    /\ counts = [t \in Tool |-> 0] /\ memo = {}
    /\ fetched = [i \in Item |-> "unasked"] /\ stray = [i \in Item |-> 0]
    /\ looking = 0 /\ asking = 0 /\ told = FALSE
    /\ won = [c \in Call |-> 0]
    /\ retried = FALSE /\ partial = "none" /\ final = "none"
    /\ reason = "none" /\ failed = FALSE

-----------------------------------------------------------------------------
\* budget.record: a response may come without `usage`, and then costs nothing.
\* Past the budget it makes no difference how far.
Spend == spent' \in {spent, IF spent < MaxTokens THEN spent + 1 ELSE spent}

Record == asked' = asked + 1 /\ Spend /\ UNCHANGED drafted

\* budget.exhausted()
Exhausted ==
    IF rounds >= MaxRounds THEN "rounds"
    ELSE IF late THEN "time"
    ELSE IF spent >= MaxTokens THEN "tokens"
    ELSE "none"

\* Mutant: a reason no reader of the turn record knows.
FailTurnUnnamed ==
    /\ failed' = TRUE /\ reason' = "exception" /\ stage' = "done"
    /\ UNCHANGED <<retried, partial, final>>

\* The except clause of run_chat.
FailTurn ==
    /\ failed' = TRUE /\ reason' = "error" /\ stage' = "done"
    /\ UNCHANGED <<retried, partial, final>>

\* The front desk answers, or hands over; one that fails hands over too.
Triage ==
    /\ stage = "triage"
    /\ Record
    /\ \/ /\ stage' = "done"
          /\ final' \in {"plain", "figures"} /\ reason' = "answered_by_triage"
          /\ UNCHANGED <<retried, partial, failed>>
       \/ stage' = "loop" /\ UNCHANGED texts
    /\ UNCHANGED <<late, pending, toolsCalled, rounds, runner, reading>>

\* A ceiling: one tool-free call to wrap up, which no budget counts.
WrapUp ==
    /\ stage = "loop" /\ Exhausted # "none"
    /\ Record
    /\ \/ /\ stage' = "done" /\ reason' = Exhausted
          /\ final' \in Text
          /\ UNCHANGED <<retried, partial, failed>>
       \/ FailTurn
    /\ UNCHANGED <<late, pending, toolsCalled, rounds, runner, reading>>

StartRound ==
    /\ stage = "loop" /\ Exhausted = "none"
    /\ rounds' = rounds + 1
    /\ Record

\* Mutant: any tool will do.
UnverifiedNoTools(text) == text = "figures" /\ \A t \in Tool : counts[t] = 0

\* _claims_unverified_account_figures
Unverified(text) == text = "figures" /\ toolsCalled = {}

\* Mutant: the retry is not a round.
AnswerFree ==
    /\ stage = "loop" /\ Exhausted = "none" /\ Record
    /\ \E text \in Text :
          IF ~retried /\ Unverified(text)
          THEN retried' = TRUE /\ UNCHANGED <<stage, final, rounds>>
          ELSE final' = text /\ stage' = "done" /\ rounds' = rounds + 1 /\ UNCHANGED retried
    /\ UNCHANGED <<late, pending, toolsCalled, runner, reading, partial, reason, failed>>

\* A response without tool calls is the answer -- once sent back if it states
\* account figures nobody looked up.
Answer ==
    /\ StartRound
    /\ \E text \in Text :
          IF ~retried /\ Unverified(text)
          THEN retried' = TRUE /\ UNCHANGED <<stage, final>>
          ELSE final' = text /\ stage' = "done" /\ UNCHANGED retried
    /\ UNCHANGED <<late, pending, toolsCalled, runner, reading, partial, reason, failed>>

\* A response with tool calls, and with or without prose.
CallTools ==
    /\ StartRound
    /\ pending' \in UNION {[1..n -> Call] : n \in 1..MaxBatch}
    /\ partial' \in {partial, "plain", "figures"}
    /\ stage' = "tools"
    /\ UNCHANGED <<late, toolsCalled, runner, reading, retried, final, reason, failed>>

ModelFails ==
    /\ StartRound
    /\ FailTurn
    /\ UNCHANGED <<late, pending, toolsCalled, runner, reading>>

-----------------------------------------------------------------------------

\* Mutant: _run_tools asks for the same call again.
NextCallAgain ==
    /\ toolsCalled' = toolsCalled \cup ({Head(pending)[1]} \cap AccountTool)
    /\ stage' = "tools"
    /\ UNCHANGED <<pending, late, rounds, asked, texts>>

\* _run_tools goes on with the next call, or back to the head of the loop.
NextCall ==
    /\ toolsCalled' = toolsCalled \cup ({Head(pending)[1]} \cap AccountTool)
    /\ pending' = Tail(pending)
    /\ stage' = IF Len(pending) = 1 THEN "loop" ELSE "tools"
    /\ UNCHANGED <<late, rounds, asked, texts>>

\* ToolRunner.run returns without running: no such tool, an answer already
\* known, or the tool's budget is used up.
Repeat(call) == call \in memo

\* Mutant: one call too many.
RefusedLate(tool) == tool \in Tool /\ counts[tool] > MaxCalls

Refused(tool) == tool \in Tool /\ counts[tool] >= MaxCalls

Decline ==
    /\ stage = "tools"
    /\ LET call == Head(pending) IN
       call[1] \notin Tool \/ Repeat(call) \/ Refused(call[1])
    /\ NextCall
    /\ UNCHANGED <<spent, drafted, runner, reading>>

\* The call is counted ...
Admit(call) ==
    /\ stage = "tools" /\ call[1] \in Tool
    /\ ~Repeat(call) /\ ~Refused(call[1])
    /\ counts' = [counts EXCEPT ![call[1]] = @ + 1]

\* ... and recorded as started, which raises on arguments that are no object,
\* outside the try: the turn fails.
Mishandle ==
    /\ stage = "tools"
    /\ LET call == Head(pending) IN
       call[2] \in Malformed /\ Admit(call)
    /\ FailTurn
    /\ UNCHANGED <<late, pending, toolsCalled, budget, memo, won, reading>>

\* The handler answers, which is remembered, or does not: no data, arguments it
\* dislikes or an exception, all of which come back as an error.
Answered(call) == memo' = memo \cup {call} /\ won' = [won EXCEPT ![call] = @ + 1]
Erred == UNCHANGED <<memo, won>>

\* Mutant: a second rejection is sent back as well.
WriteAgain ==
    /\ stage = "tools"
    /\ \E n \in 0..3 :
          /\ LET call == Head(pending) IN
             /\ call[1] = Writer /\ call[2] \notin Malformed /\ Admit(call)
             /\ (n > 0 /\ Answered(call)) \/ Erred
          /\ drafted' = drafted + n
          /\ spent' \in spent..(spent + n) /\ spent' <= MaxTokens
    /\ NextCall
    /\ UNCHANGED reading

\* generate_custom_indicator, given a description, has the model write a formula,
\* and write it again when the first one is rejected; both requests are recorded
\* into the turn's budget, which nothing looks at before the next round.
Write ==
    /\ stage = "tools"
    /\ \E n \in 0..2 :
          /\ LET call == Head(pending) IN
             /\ call[1] = Writer /\ call[2] \notin Malformed /\ Admit(call)
             /\ (n > 0 /\ Answered(call)) \/ Erred
          /\ drafted' = drafted + n
          /\ spent' \in spent..(spent + n) /\ spent' <= MaxTokens
    /\ NextCall
    /\ UNCHANGED reading

Reads(call) == IF call[1] \in AccountTool THEN "book" ELSE call[2]

\* Mutant: the account tools read the book twice at once.
ReadersAll(call) == IF call[1] \in Gathers \cup Bounded \cup AccountTool THEN 2 ELSE 1

\* How many readers the handler starts on its item: read_chart gathers two
\* tools, compare_symbols one for every symbol named, one named twice included.
Readers(call) == IF call[1] \in Gathers \cup Bounded THEN 2 ELSE 1

Run ==
    /\ stage = "tools"
    /\ LET call == Head(pending) IN
       /\ call[1] # Writer /\ call[2] \notin Malformed /\ Admit(call)
       /\ looking' = Readers(call)
    /\ stage' = "handler"
    /\ UNCHANGED <<late, pending, toolsCalled, budget, memo, won, fetched,
                   asking, told, stray, texts>>

\* The call being handled.
Current == Head(pending)

\* A reader tells its handler.
Tell(snapshot) == told' = (told \/ snapshot \in {"old", "new"})

\* Mutant: a failure is no answer.
LookForData ==
    /\ stage = "handler" /\ looking > 0
    /\ looking' = looking - 1
    /\ IF fetched[Reads(Current)] \in {"old", "new"}
       THEN Tell(fetched[Reads(Current)]) /\ UNCHANGED asking
       ELSE asking' = asking + 1 /\ UNCHANGED told
    /\ UNCHANGED <<stage, late, pending, toolsCalled, budget, runner, fetched, stray, texts>>

\* ToolContext.frame and TradingContextClient.get look into the cache; what is
\* not there is asked of the source, and others run until it answers.  Without
\* a user there is no book to ask for.
Look ==
    /\ stage = "handler" /\ looking > 0
    /\ looking' = looking - 1
    /\ LET item == Reads(Current) IN
       IF fetched[item] # "unasked"
       THEN Tell(fetched[item]) /\ UNCHANGED <<asking, fetched>>
       ELSE IF item = "book" /\ ~SignedIn
       THEN fetched' = [fetched EXCEPT ![item] = "missing"] /\ UNCHANGED <<asking, told>>
       ELSE asking' = asking + 1 /\ UNCHANGED <<fetched, told>>
    /\ UNCHANGED <<stage, late, pending, toolsCalled, budget, runner, stray, texts>>

\* The answer is stored, over whatever another reader stored meanwhile.
Land ==
    /\ stage = "handler" /\ asking > 0
    /\ asking' = asking - 1
    /\ \E answer \in Answers :
          /\ fetched' = [fetched EXCEPT ![Reads(Current)] = answer]
          /\ Tell(answer)
    /\ UNCHANGED <<stage, late, pending, toolsCalled, budget, runner, looking, stray, texts>>

\* A frame's source that raises is not remembered.  gather_bounded drops the
\* reader ...
Drop ==
    /\ stage = "handler" /\ asking > 0 /\ Current[1] \in Bounded
    /\ asking' = asking - 1
    /\ UNCHANGED <<stage, late, pending, toolsCalled, budget, runner, looking, told,
                   fetched, stray, texts>>

\* ... elsewhere the exception ends the handler at once, while a reader gathered
\* with it goes on asking.
Break ==
    /\ stage = "handler" /\ looking = 0 /\ asking > 0
    /\ Current[1] \notin Bounded \cup AccountTool
    /\ stray' = [stray EXCEPT ![Reads(Current)] = @ + asking - 1]
    /\ asking' = 0 /\ told' = FALSE
    /\ NextCall
    /\ UNCHANGED <<spent, drafted, runner, looking, fetched>>

StrayLands ==
    /\ stage # "done"
    /\ \E item \in Item :
          /\ stray[item] > 0
          /\ stray' = [stray EXCEPT ![item] = @ - 1]
          /\ \/ \E answer \in Answers : fetched' = [fetched EXCEPT ![item] = answer]
             \/ UNCHANGED fetched
    /\ UNCHANGED <<stage, late, pending, toolsCalled, budget, runner, readers, texts>>

\* All readers are back.
Finish ==
    /\ stage = "handler" /\ looking = 0 /\ asking = 0
    /\ (told /\ Answered(Current)) \/ Erred
    /\ told' = FALSE
    /\ NextCall
    /\ UNCHANGED <<counts, spent, drafted, looking, asking, fetched, stray>>

-----------------------------------------------------------------------------
TimePasses ==
    /\ ~late /\ stage # "done"
    /\ late' = TRUE
    /\ UNCHANGED <<stage, pending, toolsCalled, budget, runner, reading, texts>>

Turn ==
    \/ Triage \/ WrapUp \/ Answer \/ CallTools \/ ModelFails
    \/ Decline \/ Mishandle \/ Write \/ Run
    \/ Look \/ Land \/ Drop \/ Break \/ Finish

Next == Turn \/ StrayLands \/ TimePasses

Spec == Init /\ [][Next]_vars

(* The turn is one coroutine and every call it awaits carries a timeout.    *)
FairSpec == Spec /\ WF_vars(Turn)
-----------------------------------------------------------------------------
\* Over a whole turn, whatever the model asks for and however calls fail, no
\* tool runs more often than its budget allows, and no call that was answered
\* once is worked out again.
NoWastedRuns ==
    /\ \A t \in Tool : counts[t] <= MaxCalls
    /\ \A c \in Call : won[c] <= 1

\* The front desk, the rounds and the wrap-up: the turn itself sends the model
\* no more requests than that, the retry of the account check included, and one
\* that stopped by itself spent none on a wrap-up.  Its handlers send more, at
\* most two for every run of the tool that writes formulas: no round counts
\* them and nothing looks at the budgets between them.
RequestsAreBounded ==
    /\ asked <= MaxRounds + 2
    /\ stage = "done" /\ reason = "none" => asked <= MaxRounds + 1
    /\ drafted <= 2 * counts[Writer]

\* A turn's work is bounded on every path: calls, requests, and their records.
WorkIsBounded == TypeOK /\ NoWastedRuns /\ RequestsAreBounded

\* TradingContextClient looks, awaits and stores, and nothing keeps a second
\* reader out; it is the tools that never read the book twice at once.  So what
\* a turn was told of the account first, a failure included, is what every later
\* tool of it is told, whatever the service would say by then and whatever
\* readers of frames were left behind.
BookStays == fetched["book"] # "unasked" => UNCHANGED fetched["book"]

\* A reader that may still store what it is told of an item.
Landing(item) ==
    \/ stray[item] > 0
    \/ stage = "handler" /\ asking > 0 /\ Reads(Current) = item

\* A frame is not "fetched at most once per turn" (base.py:82): two readers may
\* look before either has stored it.  But it settles: once it is there and nobody
\* is left who asked for it earlier, it is what every later tool of the turn is
\* told, though an exception left readers behind and a source that raised is
\* asked again.
FramesSettle ==
    \A i \in Arg : fetched[i] # "unasked" /\ ~Landing(i) =>
        fetched'[i] = fetched[i] /\ ~Landing(i)'

\* Within a turn the tools do not contradict each other for longer than that.
SnapshotsHold == [][BookStays /\ FramesSettle]_vars

\* Mutant: prose of an earlier round before the final answer.
SaidEarlier ==
    IF failed THEN "plain" ELSE IF partial # "none" THEN partial ELSE final

\* TurnState.answer: what the user is told.  The texts for a turn that failed or
\* came to no conclusion state no figures.
Said == IF failed THEN "plain" ELSE IF final # "none" THEN final ELSE partial

\* orchestrator.py:48-49 calls the check of account figures the enforcement of
\* the instruction to look them up, and these are all the ways round it: an answer
\* of the front desk, a wrap-up, prose of an earlier round when the analyst ends
\* with nothing, and a second attempt.  Otherwise figures reach the user only
\* after an account tool has run, whatever was declined or repeated meanwhile.
FiguresChecked ==
    stage = "done" /\ Said = "figures" =>
        \/ \E t \in AccountTool : counts[t] > 0
        \/ reason \in {"answered_by_triage", "rounds", "time", "tokens"}
        \/ final = "none" \/ retried

\* Every turn ends.
TurnEnds == <>(stage = "done")
=============================================================================
