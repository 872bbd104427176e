---------------------------- MODULE ToolExecution ----------------------------
(***************************************************************************)
(* The tool phase of a turn: koraku/agent/tool_executor.py, and the sub-   *)
(* agents that the Task and ComposioRun tools run inside it                *)
(* (agent/delegation.py).  Every tool runs under one process-wide          *)
(* semaphore.  A sub-agent is a tool: it keeps its permit while the tools  *)
(* of its own phase ask for theirs.  Tools of sub-agents are not sub-      *)
(* agents (with the default subagent_max_depth of 1 the delegation tools   *)
(* are taken out of their tool list), so phases nest once.                 *)
(*                                                                         *)
(* One tool phase per attempt of a sub-agent is modelled, and the results  *)
(* of a call only as success or failure.                                   *)
(***************************************************************************)
EXTENDS Naturals, FiniteSets

CONSTANTS Calls,      \* tool_use blocks, of the turn and of its sub-agents
          SubAgents,  \* those of Task and ComposioRun
          Top,        \* the turn itself
          ParentOf,   \* the sub-agent, or Top, whose model made the call
          Sensitive,  \* calls that need the user's approval
          Permits,    \* settings.tool_concurrency_limit
          Attempts    \* max_retries + 1

ASSUME ToolAssumption ==
    /\ IsFiniteSet(Calls)
    /\ SubAgents \subseteq Calls
    /\ Top \notin Calls
    /\ ParentOf \in [Calls -> SubAgents \cup {Top}]
    /\ \A c \in SubAgents : ParentOf[c] = Top
    /\ Sensitive \subseteq Calls
    /\ Permits \in Nat \ {0}
    /\ Attempts \in Nat \ {0}

VARIABLES state,     \* each call in _execute_single_tool
          attempt,   \* how often tool.run was entered for it
          approved,  \* sensitive calls the user allowed
          result,    \* the tool_result of the call
          phase      \* the tool phase of the turn and of each sub-agent

vars == <<state, attempt, approved, result, phase>>

Parents == SubAgents \cup {Top}
Children(p) == {c \in Calls : ParentOf[c] = p}

\* Whatever is cancelled with the tool phase of p: its calls, and the calls of
\* its sub-agents (the mutant cancels the calls and leaves theirs alone).
BelowShallow(p) == Children(p)
Below(p) == Children(p) \cup {c \in Calls : ParentOf[c] \in Children(p)}

Active == {"new", "asking", "queued", "running"}

TypeOK ==
    /\ state \in [Calls -> {"absent", "finished", "aborted"} \cup Active]
    /\ attempt \in [Calls -> 0..Attempts]
    /\ approved \subseteq Sensitive
    /\ result \in [Calls -> {"none", "ok", "error"}]
    /\ phase \in [Parents -> {"closed", "open", "over", "raised"}]

Init ==
    /\ state = [c \in Calls |-> "absent"]
    /\ attempt = [c \in Calls |-> 0]
    /\ approved = {}
    /\ result = [c \in Calls |-> "none"]
    /\ phase = [p \in Parents |-> "closed"]

\* Tools inside tool.run hold a permit of _TOOL_RUN_SEMAPHORE.
Holders == {c \in Calls : state[c] = "running"}

\* A waiter gets in while a permit is free.
PermitFree == Cardinality(Holders) < Permits

\* requires_user_approval looks at the permission mode and the tool, wherever
\* the call was made (the mutant asks for the turn's own calls only).
AsksAtTop(c) == c \in Sensitive /\ ParentOf[c] = Top
AsksUser(c) == c \in Sensitive

\* range(max_retries + 1).
MayRetry(c) == attempt[c] < Attempts

\* The results that stand in for those of a phase that timed out.
TimeoutResults(p) == [c \in Calls |-> IF c \in Children(p) THEN "error" ELSE result[c]]
-----------------------------------------------------------------------------
\* _execute_tools_parallel starts every call of the message at once.  The
\* calls a sub-agent makes in another attempt are new calls.
OpenPhase(p) ==
    /\ phase[p] = "closed"
    /\ p # Top => state[p] = "running"
    /\ Children(p) # {}
    /\ phase' = [phase EXCEPT ![p] = "open"]
    /\ state' = [c \in Calls |-> IF c \in Children(p) THEN "new" ELSE state[c]]
    /\ attempt' = [c \in Calls |-> IF c \in Children(p) THEN 0 ELSE attempt[c]]
    /\ result' = [c \in Calls |-> IF c \in Children(p) THEN "none" ELSE result[c]]
    /\ approved' = approved \ Children(p)

Fail(c) ==
    /\ state' = [state EXCEPT ![c] = "finished"]
    /\ result' = [result EXCEPT ![c] = "error"]

\* Truncated arguments, an unknown tool, a tool the permission mode blocks.
Refuse(c) ==
    /\ state[c] = "new"
    /\ Fail(c)
    /\ UNCHANGED <<attempt, approved, phase>>

AskApproval(c) ==
    /\ state[c] = "new" /\ AsksUser(c)
    /\ state' = [state EXCEPT ![c] = "asking"]
    /\ UNCHANGED <<attempt, approved, result, phase>>

Allow(c) ==
    /\ state[c] = "asking"
    /\ state' = [state EXCEPT ![c] = "queued"]
    /\ approved' = approved \cup {c}
    /\ UNCHANGED <<attempt, result, phase>>

\* Denied, timed out, or answered without approval.
Deny(c) ==
    /\ state[c] = "asking"
    /\ Fail(c)
    /\ UNCHANGED <<attempt, approved, phase>>

Enqueue(c) ==
    /\ state[c] = "new" /\ ~AsksUser(c)
    /\ state' = [state EXCEPT ![c] = "queued"]
    /\ UNCHANGED <<attempt, approved, result, phase>>

\* pre_tool_use raises.  With several calls gather turns the exception into
\* that call's error; with a single one it leaves the phase.
HookRaises(c) ==
    /\ state[c] \in {"new", "asking"}
    /\ AsksUser(c) => state[c] = "asking"
    /\ IF Cardinality(Children(ParentOf[c])) > 1
       THEN Fail(c) /\ UNCHANGED phase
       ELSE /\ state' = [state EXCEPT ![c] = "aborted"]
            /\ phase' = [phase EXCEPT ![ParentOf[c]] = "raised"]
            /\ UNCHANGED result
    /\ UNCHANGED <<attempt, approved>>

\* async with _TOOL_RUN_SEMAPHORE, and tool.run starts.
Acquire(c) ==
    /\ state[c] = "queued"
    /\ PermitFree
    /\ state' = [state EXCEPT ![c] = "running"]
    /\ attempt' = [attempt EXCEPT ![c] = @ + 1]
    /\ UNCHANGED <<approved, result, phase>>

\* tool.run returned and its output is no error.  A sub-agent returns when
\* its phase, if it had one, is over.
Succeed(c) ==
    /\ state[c] = "running"
    /\ c \in SubAgents => phase[c] \in {"closed", "over"}
    /\ state' = [state EXCEPT ![c] = "finished"]
    /\ result' = [result EXCEPT ![c] = "ok"]
    /\ phase' = IF c \in SubAgents THEN [phase EXCEPT ![c] = "closed"] ELSE phase
    /\ UNCHANGED <<attempt, approved>>

\* tool.run raised or returned an error: the permit is given back, and the
\* call waits for another unless this was its last attempt.
Stumble(c) ==
    /\ state[c] = "running"
    /\ c \in SubAgents => phase[c] # "open"
    /\ IF MayRetry(c)
       THEN state' = [state EXCEPT ![c] = "queued"] /\ UNCHANGED result
       ELSE Fail(c)
    /\ phase' = IF c \in SubAgents THEN [phase EXCEPT ![c] = "closed"] ELSE phase
    /\ UNCHANGED <<attempt, approved>>

\* gather has all results.
ClosePhase(p) ==
    /\ phase[p] = "open"
    /\ \A c \in Children(p) : state[c] = "finished"
    /\ phase' = [phase EXCEPT ![p] = "over"]
    /\ UNCHANGED <<state, attempt, approved, result>>

\* The mutant of the deadline: the phase is awaited without one.
NoPhaseTimeout(p) == FALSE

\* wait_for around the phase expires: whatever still runs below it is
\* cancelled, down to the tools of sub-agents, and every call of the phase is
\* reported as failed, the ones that had finished included.
PhaseTimeout(p) ==
    /\ phase[p] = "open"
    /\ state' = [c \in Calls |-> IF c \in Below(p) /\ state[c] \in Active
                                 THEN "aborted" ELSE state[c]]
    /\ result' = TimeoutResults(p)
    /\ phase' = [q \in Parents |->
                   IF q = p THEN "over"
                   ELSE IF q \in Children(p) THEN "closed" ELSE phase[q]]
    /\ UNCHANGED <<attempt, approved>>

Step(c) ==
    \/ Refuse(c) \/ AskApproval(c) \/ Allow(c) \/ Deny(c) \/ Enqueue(c)
    \/ HookRaises(c) \/ Acquire(c) \/ Succeed(c) \/ Stumble(c)

Next ==
    \/ \E c \in Calls : Step(c)
    \/ \E p \in Parents : OpenPhase(p) \/ ClosePhase(p) \/ PhaseTimeout(p)

Spec == Init /\ [][Next]_vars

\* The semaphore wakes its waiters in order, and tool.run ends or fails.  A
\* phase whose tools keep everybody waiting is ended by its deadline.
Fairness ==
    /\ \A c \in Calls : SF_vars(Acquire(c)) /\ WF_vars(Step(c))
    /\ \A p \in Parents : WF_vars(OpenPhase(p)) /\ WF_vars(ClosePhase(p))

FairSpec == Spec /\ Fairness /\ \A p \in Parents : WF_vars(PhaseTimeout(p))
-----------------------------------------------------------------------------
\* A sensitive tool runs only after the user allowed that very call, also in
\* the second and third attempt and inside a sub-agent.
ApprovedBeforeRun ==
    \A c \in Sensitive : attempt[c] > 0 => c \in approved

\* Cancellation reaches the bottom: no tool of a sub-agent is still asking,
\* queueing or running, with a permit, when the sub-agent itself is over.
NoStrayTools ==
    \A c \in Calls : ParentOf[c] # Top /\ state[c] \in Active =>
        /\ state[ParentOf[c]] = "running"
        /\ phase[ParentOf[c]] = "open"

\* A phase that is over has a result for each of its calls (the messages API
\* wants one per tool_use), and a call reported as a success did run.
AllCallsAnswered ==
    /\ \A p \in Parents : phase[p] = "over" => \A c \in Children(p) : result[c] # "none"
    /\ \A c \in Calls : result[c] = "ok" => attempt[c] > 0 /\ state[c] = "finished"

\* Every permit is held by a sub-agent whose tools all queue for a permit:
\* nothing can move until a deadline ends one of the phases.
Wedged ==
    /\ Holders # {} /\ ~PermitFree
    /\ \A c \in Holders :
        /\ c \in SubAgents /\ phase[c] = "open"
        /\ \A d \in Children(c) : state[d] \in {"queued", "finished"}
        /\ \E d \in Children(c) : state[d] = "queued"

\* The Task tool: several calls in one message run their sub-agents in
\* parallel.  They do unless they starve each other of permits.
SubAgentsProgress == ~Wedged

\* The tool phase of the turn ends.  FairSpec lets its deadline end
\* it: sub-agents that starve each other cannot (SubAgentsProgress).
TurnPhaseEnds == <>(phase[Top] \in {"over", "raised"})
-----------------------------------------------------------------------------
\* Where the loop of the turn is, and the results it has been handed.
Place ==
    CASE phase[Top] \in {"closed", "open"} -> "tools"
      [] phase[Top] = "over" -> "top"
      [] phase[Top] = "raised" -> "closing"

HandedOver(c) == IF phase[Top] = "over" THEN result[c] ELSE "none"

Stepped == INSTANCE ToolStep WITH
    Uses <- Children(Top),
    place <- Place,
    results <- [c \in Children(Top) |-> HandedOver(c)],
    acting <- \E c \in Calls : state[c] \in Active

\* The tool phase is the step that AgentRun takes it for: whatever the calls
\* and their sub-agents do, the turn gets all results at once or an exception,
\* and it goes on only when nothing below it is still at work.
ImplementsToolStep == Stepped!StepSpec
=============================================================================
