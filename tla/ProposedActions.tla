--------------------------- MODULE ProposedActions ---------------------------
(***************************************************************************)
(* One-click actions: the ProposeAction tool registers one                 *)
(* (koraku/tools/propose_action.py), a click runs its tool                 *)
(* (koraku/actions/pending_actions.py, koraku/api/action_routes.py).       *)
(*                                                                         *)
(* executed is read before the tool is awaited and set after it, so clicks *)
(* on one action may run side by side.  A tool has its effect at some      *)
(* moment of its run, or none; Tool.run turns its exceptions into a text,  *)
(* so a tool that failed counts as executed.                               *)
(* An input is the proposal's own (NoOverride) or that of a click.         *)
(***************************************************************************)
EXTENDS FiniteSets, Naturals

CONSTANTS Proposals,     \* ids of proposed actions
          Clicks,        \* requests to /api/action/execute
          ClickOn,       \* the id each names
          Overriding,    \* clicks that bring overrides
          KnownTools,    \* proposals whose tool is registered
          NoOverride

ASSUME ActionAssumption ==
    /\ NoOverride \notin Clicks
    /\ Overriding \subseteq Clicks /\ KnownTools \subseteq Proposals

VARIABLES pendingActions, \* _pending: id -> input, executed
          clickPc,        \* where each click is, or how it was answered
          clickInput,     \* the input its tool is run with
          effects,        \* clicks whose tool had its effect
          excused         \* clicks that ran beside another click on the same
                          \* action, or after one that timed out (history)

actionVars == <<pendingActions, clickPc, clickInput, effects, excused>>

ClickErrors == {"not_found", "already_executed", "tool_not_found", "tool_timeout", "failed"}

ActionTypeOK ==
    /\ DOMAIN pendingActions \subseteq Proposals
    /\ \A a \in DOMAIN pendingActions :
           pendingActions[a] \in [input : Clicks \cup {NoOverride}, executed : BOOLEAN]
    /\ clickPc \in [Clicks -> {"new", "running", "ok"} \cup ClickErrors]
    /\ clickInput \in [Clicks -> Clicks \cup {NoOverride}]
    /\ effects \subseteq Clicks /\ excused \subseteq Clicks

ActionInit ==
    /\ pendingActions = <<>>
    /\ clickPc = [c \in Clicks |-> "new"]
    /\ clickInput = [c \in Clicks |-> NoOverride]
    /\ effects = {}
    /\ excused = {}

Known(c) == ClickOn[c] \in DOMAIN pendingActions
Answer(c, how) == clickPc' = [clickPc EXCEPT ![c] = how]
SameAction(c) == {d \in Clicks \ {c} : ClickOn[d] = ClickOn[c]}

\* register_action, from the ProposeAction tool; the id is a fresh uuid.
NewAction == [input |-> NoOverride, executed |-> FALSE]
Propose(a) ==
    /\ a \notin DOMAIN pendingActions
    /\ pendingActions' = [b \in DOMAIN pendingActions \cup {a} |->
           IF b = a THEN NewAction ELSE pendingActions[b]]
    /\ UNCHANGED <<clickPc, clickInput, effects, excused>>

\* The answers of execute_action that run nothing.
RefuseClick(c) ==
    /\ clickPc[c] = "new"
    /\ \/ ~Known(c) /\ Answer(c, "not_found")
       \/ Known(c) /\ pendingActions[ClickOn[c]].executed /\ Answer(c, "already_executed")
       \/ /\ Known(c) /\ ~pendingActions[ClickOn[c]].executed
          /\ ClickOn[c] \notin KnownTools
          /\ Answer(c, "tool_not_found")
    /\ UNCHANGED <<pendingActions, clickInput, effects, excused>>

\* tool_input is a copy, updated with the overrides.  The mutant updates the
\* registered input.
RegisteredAfter(c, input) == [pendingActions EXCEPT ![ClickOn[c]].input = input]
Registered(c, input) == pendingActions
StartClick(c) ==
    /\ clickPc[c] = "new" /\ Known(c) /\ ClickOn[c] \in KnownTools
    /\ ~pendingActions[ClickOn[c]].executed
    /\ LET input == IF c \in Overriding THEN c ELSE pendingActions[ClickOn[c]].input
       IN /\ clickInput' = [clickInput EXCEPT ![c] = input]
          /\ pendingActions' = Registered(c, input)
    /\ Answer(c, "running")
    /\ excused' = excused
         \cup {d \in SameAction(c) : clickPc[d] = "running"}
         \cup (IF \E d \in SameAction(c) : clickPc[d] \in {"running", "tool_timeout"}
               THEN {c} ELSE {})
    /\ UNCHANGED effects

\* A tool that works in a thread is not stopped by the timeout.
ToolTakesEffect(c) ==
    /\ clickPc[c] \in {"running", "tool_timeout"} /\ c \notin effects
    /\ effects' = effects \cup {c}
    /\ UNCHANGED <<pendingActions, clickPc, clickInput, excused>>

\* A tool that returned marks the action as executed, whether it had its
\* effect or failed.  Mutant: nothing marks it.
Unmarked(c) == pendingActions
Marked(c) == [pendingActions EXCEPT ![ClickOn[c]].executed = TRUE]
FinishClick(c) ==
    /\ clickPc[c] = "running"
    /\ pendingActions' = Marked(c)
    /\ Answer(c, "ok")
    /\ UNCHANGED <<clickInput, effects, excused>>

\* wait_for gives up after 120 seconds, with the effect or without; or the
\* tool cannot be called with this input.
FailClick(c) ==
    /\ clickPc[c] = "running"
    /\ Answer(c, "tool_timeout") \/ (c \notin effects /\ Answer(c, "failed"))
    /\ UNCHANGED <<pendingActions, clickInput, effects, excused>>

ActionNext ==
    \/ \E a \in Proposals : Propose(a)
    \/ \E c \in Clicks : RefuseClick(c) \/ StartClick(c) \/ ToolTakesEffect(c)
                         \/ FinishClick(c) \/ FailClick(c)

ActionSpec == ActionInit /\ [][ActionNext]_actionVars
-----------------------------------------------------------------------------
\* An action has its effect once, except through clicks that overlapped or
\* that followed one that had timed out: a click alone after one that was
\* answered, however long ago, has none.
RepeatsExplained ==
    \A c, d \in effects :
        c # d /\ ClickOn[c] = ClickOn[d] => c \in excused \/ d \in excused

\* What a click runs is its own override or the proposal as it was made,
\* never what another click had put in its place.
OverridesStayPrivate ==
    \A c \in Clicks : clickPc[c] \notin {"new"} \cup (ClickErrors \ {"tool_timeout", "failed"}) =>
        clickInput[c] = IF c \in Overriding THEN c ELSE NoOverride
=============================================================================
