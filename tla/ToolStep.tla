------------------------------ MODULE ToolStep ------------------------------
(***************************************************************************)
(* What the tool phase promises to the loop of the turn (AgentRun, whose   *)
(* names are used here), without permits, approvals, attempts and sub-     *)
(* agents: while the turn is at its tools, calls act as they like.  Then   *)
(* it has one result for every call, all at once, or it leaves the loop    *)
(* with an exception and no results, which only a single call can bring    *)
(* about (that the task of the turn is cancelled from outside is in        *)
(* AgentRun).  Whichever it is, none of the calls acts any more, at any    *)
(* depth, and the results do not change.                                   *)
(***************************************************************************)
CONSTANT Uses      \* the tool_use blocks of one message

VARIABLES place,   \* where the turn is: at its tools, the top of the loop, closing
          results, \* the tool_result blocks
          acting   \* some call, or a call below one, is not over

stepVars == <<place, results, acting>>

StepInit ==
    /\ place = "tools"
    /\ results = [u \in Uses |-> "none"]
    /\ acting = FALSE

Work ==
    /\ place = "tools"
    /\ acting' \in BOOLEAN
    /\ UNCHANGED <<place, results>>

\* The calls returned, or their deadline made errors of all of them.
ToolsReturn ==
    /\ place = "tools"
    /\ place' = "top"
    /\ results' \in [Uses -> {"ok", "error"}]
    /\ acting' = FALSE

Interrupt ==
    /\ place = "tools"
    /\ \E u \in Uses : Uses = {u}
    /\ place' = "closing"
    /\ acting' = FALSE
    /\ UNCHANGED results

StepNext == Work \/ ToolsReturn \/ Interrupt

StepSpec == StepInit /\ [][StepNext]_stepVars
=============================================================================
