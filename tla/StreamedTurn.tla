---------------------------- MODULE StreamedTurn ----------------------------
(***************************************************************************)
(* A streamed chat turn whose tools run Pine in the sandbox (ChatStream    *)
(* with PineSandbox), beside the calls other clients make of the same      *)
(* sandbox (POST /pine/run), which nobody cancels.  A browser that leaves  *)
(* cancels the turn, and with it the sandbox call the turn awaits.         *)
(***************************************************************************)
EXTENDS PineSandbox, ChatStream

ASSUME ToolAssumption == Tool \subseteq Caller

allVars == <<vars, streamVars>>

TurnInit == Init /\ StreamInit

\* The turn awaits run_pine_script.
StartTool(t) == BeginTool(t) /\ Call(t)

\* ... which returns or raises.
ToolReturns == tool # NoTool /\ pc[tool] \in Over /\ EndTool /\ UNCHANGED vars

\* Mutant: the tool is shielded from the cancellation.
BrowserLeavesTool == Leave /\ UNCHANGED vars

\* task.cancel() reaches the await the turn is suspended in.
BrowserLeaves ==
    /\ Leave
    /\ IF tool # NoTool /\ pc[tool] \in Suspended
       THEN Cancel(tool)
       ELSE UNCHANGED vars

Stream == Progress \/ Finish \/ PutOutcome \/ PutEnd \/ Take

OtherCall(c) == c \notin Tool /\ Call(c) /\ UNCHANGED streamVars

Sandbox(c) == Step(c) /\ UNCHANGED streamVars

TurnNext ==
    \/ \E t \in Tool : StartTool(t)
    \/ ToolReturns \/ BrowserLeaves
    \/ Stream /\ UNCHANGED vars
    \/ Child /\ UNCHANGED streamVars
    \/ \E c \in Caller : OtherCall(c) \/ Sandbox(c)

(* Coroutines of the loop are resumed, the turn ends (its awaits carry      *)
(* timeouts) and a browser that stays reads.                                *)
TurnSpec ==
    /\ TurnInit /\ [][TurnNext]_allVars
    /\ \A c \in Caller : WF_allVars(Sandbox(c))
    /\ WF_allVars(ToolReturns)
    /\ WF_allVars((Finish \/ PutOutcome \/ PutEnd) /\ UNCHANGED vars)
    /\ WF_allVars(Take /\ UNCHANGED vars)
-----------------------------------------------------------------------------
\* A turn never waits for a call that is over, and a call nobody waits for any
\* more is over: cancelling the turn leaves no tool behind in the sandbox.
NoOrphanedCall ==
    \A t \in Tool : pc[t] \in Suspended => tool = t /\ task = "running"

\* The sandbox serves one request at a time and its pipes stay in step.
SandboxInStep == TypeOK /\ StreamTypeOK /\ OneAtATime /\ PipesInStep

\* Whoever stays sees the outcome, whoever leaves stops the turn, and nobody's call
\* outlives its turn.
TurnIsClean == OutcomeShown /\ LeftTurnStops /\ NoOrphanedCall

\* Every call and every stream comes to its end, and so does every turn, but for the
\* one that was left while the queue was full: it waits there, holding no call.
EndsUnlessFull == EveryCallReturns /\ StreamCloses /\ TurnEndsIfRoom /\ TurnEndsOrWaits
=============================================================================
