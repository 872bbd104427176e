------------------------- MODULE SharedServicesProofs -------------------------
(***************************************************************************)
(* Theorems about services that several turns share: pending interactions, *)
(* SDK sessions, proposed actions, runs of automations, sandboxes, MCP     *)
(* servers and the rate limiter, for any number of interactions, messages, *)
(* clicks, calls, processes, servers and requests.                         *)
(***************************************************************************)
EXTENDS PendingInteractions, SdkSession, ProposedActions, AutomationRuns, Sandboxes,
        McpServers, RateLimits,
        FiniteSetTheorems, SequenceTheorems, TLAPS

-----------------------------------------------------------------------------
(* Pending interactions.  All that is proved of them rests on one inductive *)
(* invariant, TableInv: an entry in the table means that nobody has         *)
(* completed its future and that its coroutine still waits, and everything  *)
(* a caller was told can be read off the future.                            *)

\* What an interaction that has not been asked looks like.
Unasked(i) == waiter[i] = "idle" =>
    i \notin pending /\ future[i] = "open" /\ i \notin expired /\ i \notin stopped

\* The table, the future and the acknowledgement tell the same story.
Agrees(i) ==
    /\ i \in pending => waiter[i] = "waiting" /\ future[i] = "open"
    /\ future[i] = "result" <=> acked[i] = 1
    /\ future[i] = "result" <=> body[i] # NoBody
    /\ acked[i] \in {0, 1}
    /\ waiter[i] = "waiting" /\ future[i] = "open" => i \in pending
    /\ future[i] = "failed" => waiter[i] = "timeout"

Explained(i) ==
    /\ waiter[i] = "replied" => acked[i] = 1 /\ future[i] = "result"
    /\ waiter[i] = "timeout" => i \in expired
    /\ waiter[i] = "cancelled" => i \in stopped

TableInv ==
    /\ TypeOK
    /\ \A i \in Interactions : Unasked(i) /\ Agrees(i) /\ Explained(i)

\* The invariant holds in the initial state.
LEMMA InitTableInv == Init => TableInv
BY PendingAssumption DEF Init, TableInv, TypeOK, Unasked, Agrees, Explained, Over

\* Every step keeps the types.
LEMMA NextTypeOK == TypeOK /\ [Next]_vars => TypeOK'
<1> SUFFICES ASSUME TypeOK, [Next]_vars PROVE TypeOK'
  OBVIOUS
<1> USE DEF TypeOK, Over
<1>1. ASSUME NEW i \in Interactions, NEW r \in Runs \cup {NoRun}, Ask(i, r)
      PROVE  TypeOK'
  BY <1>1 DEF Ask
<1>2. ASSUME NEW i \in Interactions, NEW b \in Bodies, Resolve(i, b)
      PROVE  TypeOK'
  BY <1>2 DEF Resolve
<1>3. ASSUME NEW i \in Interactions, Expire(i) PROVE TypeOK'
  BY <1>3 DEF Expire
<1>4. ASSUME NEW i \in Interactions, Stop(i) PROVE TypeOK'
  BY <1>4 DEF Stop
<1>5. ASSUME NEW i \in Interactions, ReturnReply(i) PROVE TypeOK'
  BY <1>5 DEF ReturnReply, DropEntry
<1>6. ASSUME NEW i \in Interactions, RaiseTimeout(i) PROVE TypeOK'
  BY <1>6 DEF RaiseTimeout, DropEntry, FailIfOpen
<1>7. ASSUME NEW i \in Interactions, RaiseCancelled(i) PROVE TypeOK'
  BY <1>7 DEF RaiseCancelled, DropEntry
<1>8. ASSUME NEW r \in Runs, EndRun(r) PROVE TypeOK'
  BY <1>8 DEF EndRun, FailIfOpen
<1>9. CASE UNCHANGED vars
  BY <1>9 DEF vars
<1> QED
  BY <1>1, <1>2, <1>3, <1>4, <1>5, <1>6, <1>7, <1>8, <1>9 DEF Next

\* Every step keeps the whole invariant.
LEMMA NextTableInv == TableInv /\ [Next]_vars => TableInv'
<1> SUFFICES ASSUME TableInv, [Next]_vars PROVE TableInv'
  OBVIOUS
<1>0. TypeOK /\ TypeOK'
  BY NextTypeOK DEF TableInv
<1> SUFFICES ASSUME NEW j \in Interactions
             PROVE  (Unasked(j) /\ Agrees(j) /\ Explained(j))'
  BY <1>0 DEF TableInv
<1>j. Unasked(j) /\ Agrees(j) /\ Explained(j)
  BY DEF TableInv
<1> USE <1>0, <1>j, PendingAssumption
    DEF TypeOK, Over, Unasked, Agrees, Explained
<1>1. ASSUME NEW i \in Interactions, NEW r \in Runs \cup {NoRun}, Ask(i, r)
      PROVE  (Unasked(j) /\ Agrees(j) /\ Explained(j))'
  BY <1>1 DEF Ask
<1>2. ASSUME NEW i \in Interactions, NEW b \in Bodies, Resolve(i, b)
      PROVE  (Unasked(j) /\ Agrees(j) /\ Explained(j))'
  <2>1. CASE i = j
    BY <1>2, <2>1 DEF Resolve
  <2>2. CASE i # j
    BY <1>2, <2>2 DEF Resolve
  <2> QED BY <2>1, <2>2
<1>3. ASSUME NEW i \in Interactions, Expire(i)
      PROVE  (Unasked(j) /\ Agrees(j) /\ Explained(j))'
  BY <1>3 DEF Expire
<1>4. ASSUME NEW i \in Interactions, Stop(i)
      PROVE  (Unasked(j) /\ Agrees(j) /\ Explained(j))'
  BY <1>4 DEF Stop
<1>5. ASSUME NEW i \in Interactions, ReturnReply(i)
      PROVE  (Unasked(j) /\ Agrees(j) /\ Explained(j))'
  BY <1>5 DEF ReturnReply, DropEntry
<1>6. ASSUME NEW i \in Interactions, RaiseTimeout(i)
      PROVE  (Unasked(j) /\ Agrees(j) /\ Explained(j))'
  BY <1>6 DEF RaiseTimeout, DropEntry, FailIfOpen
<1>7. ASSUME NEW i \in Interactions, RaiseCancelled(i)
      PROVE  (Unasked(j) /\ Agrees(j) /\ Explained(j))'
  BY <1>7 DEF RaiseCancelled, DropEntry
<1>8. ASSUME NEW r \in Runs, EndRun(r)
      PROVE  (Unasked(j) /\ Agrees(j) /\ Explained(j))'
  BY <1>8 DEF EndRun, FailIfOpen
<1>9. CASE UNCHANGED vars
  BY <1>9 DEF vars
<1> QED
  BY <1>1, <1>2, <1>3, <1>4, <1>5, <1>6, <1>7, <1>8, <1>9 DEF Next

\* The invariant holds in every reachable state.
THEOREM SpecTableInv == Spec => []TableInv
BY InitTableInv, NextTableInv, PTL DEF Spec

\* Type correctness of the table, its futures and its waiters.
THEOREM SpecTypeOK == Spec => []TypeOK
<1>1. TableInv => TypeOK
  BY DEF TableInv
<1> QED BY <1>1, SpecTableInv, PTL

\* No entry outlives the wait it was made for, whichever way the wait ended
\* and whether or not its run had an identifier to sweep by.
THEOREM SpecNoOrphanEntry == Spec => []NoOrphanEntry
<1>1. TableInv => NoOrphanEntry
  BY DEF TableInv, TypeOK, Agrees, NoOrphanEntry
<1> QED BY <1>1, SpecTableInv, PTL

\* An interaction acknowledges at most one answer: the one its future holds.
THEOREM SpecOneAcknowledgement == Spec => []OneAcknowledgement
<1>1. TableInv => OneAcknowledgement
  <2> SUFFICES ASSUME TableInv, NEW i \in Interactions
               PROVE  acked[i] <= 1 /\ (acked[i] = 1 <=> body[i] # NoBody)
    BY DEF OneAcknowledgement
  <2>1. acked[i] = 0 \/ acked[i] = 1
    BY DEF TableInv, Agrees
  <2>2. acked[i] = 1 <=> body[i] # NoBody
    BY DEF TableInv, Agrees
  <2> QED BY <2>1, <2>2
<1> QED BY <1>1, SpecTableInv, PTL

\* Whatever a waiter goes on with was caused: by an acknowledged answer, by
\* its deadline, or by the cancellation of its task.
THEOREM SpecOutcomeExplained == Spec => []OutcomeExplained
<1>1. TableInv => OutcomeExplained
  BY DEF TableInv, Explained, OutcomeExplained
<1> QED BY <1>1, SpecTableInv, PTL

\* An answer that comes when the wait is over is never acknowledged.
THEOREM SpecLateAnswerRefused == Spec => LateAnswerRefused
<1> DEFINE Refused == \A i \in Interactions : waiter[i] \in Over => acked'[i] = acked[i]
<1>1. TableInv /\ [Next]_vars => [Refused]_vars
  <2> SUFFICES ASSUME TableInv, Next, NEW j \in Interactions, waiter[j] \in Over
               PROVE  acked'[j] = acked[j]
    BY DEF vars
  <2>1. j \notin pending
    BY DEF TableInv, Agrees, Over
  <2>2. ASSUME NEW i \in Interactions, NEW b \in Bodies, Resolve(i, b)
        PROVE  acked'[j] = acked[j]
    BY <2>1, <2>2 DEF Resolve, TableInv, TypeOK
  <2> QED
    BY <2>2 DEF Next, Ask, Expire, Stop, ReturnReply, RaiseTimeout, RaiseCancelled, EndRun
<1> QED BY <1>1, SpecTableInv, PTL DEF Spec, LateAnswerRefused

\* The sweep of cancel_run at the end of a run changes nothing.
THEOREM SpecSweepFindsNothing == Spec => SweepFindsNothing
<1> DEFINE Quiet == ended' # ended => UNCHANGED <<pending, future>>
<1>1. TableInv /\ [Next]_vars => [Quiet]_vars
  <2> SUFFICES ASSUME TableInv, Next, ended' # ended
               PROVE  UNCHANGED <<pending, future>>
    BY DEF vars
  <2>1. PICK r \in Runs : EndRun(r)
    BY DEF Next, Ask, Resolve, Expire, Stop, ReturnReply, RaiseTimeout, RaiseCancelled
  <2>2. {i \in pending : runOf[i] = r} = {}
    BY <2>1 DEF EndRun, TableInv, TypeOK, Agrees
  <2> QED
    BY <2>1, <2>2 DEF EndRun, FailIfOpen, TableInv, TypeOK
<1> QED BY <1>1, SpecTableInv, PTL DEF Spec, SweepFindsNothing

\* Where an interaction stands after a step, one fact per kind of step; what
\* the mapping says of the others is unchanged.
LEMMA CellsPointwise ==
    ASSUME NEW i \in Interactions, TypeOK, TypeOK',
           \A j \in Interactions \ {i} :
             waiter'[j] = waiter[j] /\ future'[j] = future[j] /\ body'[j] = body[j],
           NEW c, NEW g, CellState(i)' = c, GivenBody(i)' = g
    PROVE  /\ [j \in Interactions |-> CellState(j)]'
                = [[j \in Interactions |-> CellState(j)] EXCEPT ![i] = c]
           /\ [j \in Interactions |-> GivenBody(j)]'
                = [[j \in Interactions |-> GivenBody(j)] EXCEPT ![i] = g]
<1>1. \A j \in Interactions \ {i} :
        CellState(j)' = CellState(j) /\ GivenBody(j)' = GivenBody(j)
  BY DEF CellState, GivenBody
<1> QED BY <1>1

\* A step of the table is a step of one cell, or no step.
LEMMA StepImplements ==
    TableInv /\ TableInv' /\ [Next]_vars => [Cell!CellNext]_(Cell!cellVars)
<1> SUFFICES ASSUME TableInv, TableInv', [Next]_vars
             PROVE  [Cell!CellNext]_(Cell!cellVars)
  OBVIOUS
<1>0. TypeOK /\ TypeOK'
  BY DEF TableInv
<1> DEFINE Cells == [j \in Interactions |-> CellState(j)]
           Givens == [j \in Interactions |-> GivenBody(j)]
<1>1. ASSUME NEW i \in Interactions, NEW r \in Runs \cup {NoRun}, Ask(i, r)
      PROVE  Cell!Open(i)
  <2>1. waiter[i] = "idle" /\ waiter'[i] = "waiting" /\ future[i] = "open"
        /\ UNCHANGED <<future, body>>
        /\ \A j \in Interactions \ {i} : waiter'[j] = waiter[j]
    BY <1>0, <1>1 DEF Ask, TypeOK, TableInv, Unasked
  <2>2. CellState(i) = "idle" /\ CellState(i)' = "open" /\ GivenBody(i)' = GivenBody(i)
    BY <2>1 DEF CellState, GivenBody, Over
  <2>3. Cells' = [Cells EXCEPT ![i] = "open"] /\ Givens' = Givens
    BY <1>0, <2>1, <2>2, CellsPointwise
  <2> QED BY <2>1, <2>2, <2>3 DEF Cell!Open
<1>2. ASSUME NEW i \in Interactions, NEW b \in Bodies, Resolve(i, b)
      PROVE  Cell!Take(i, b)
  <2>1. waiter[i] = "waiting" /\ future[i] = "open" /\ future'[i] = "result"
        /\ body' = [body EXCEPT ![i] = b] /\ UNCHANGED waiter
        /\ \A j \in Interactions \ {i} : future'[j] = future[j] /\ body'[j] = body[j]
    BY <1>0, <1>2 DEF Resolve, TypeOK, TableInv, Agrees
  <2>2. CellState(i) = "open" /\ CellState(i)' = "taken" /\ GivenBody(i)' = GivenBody(i)
    BY <2>1 DEF CellState, GivenBody, Over
  <2>3. Cells' = [Cells EXCEPT ![i] = "taken"] /\ Givens' = Givens
    BY <1>0, <2>1, <2>2, CellsPointwise
  <2> QED BY <2>1, <2>2, <2>3 DEF Cell!Take
<1>5. ASSUME NEW i \in Interactions, ReturnReply(i) PROVE Cell!CloseWithAnswer(i)
  <2>1. waiter[i] = "waiting" /\ future[i] = "result" /\ waiter'[i] = "replied"
        /\ UNCHANGED <<future, body>>
        /\ \A j \in Interactions \ {i} : waiter'[j] = waiter[j]
    BY <1>0, <1>5 DEF ReturnReply, TypeOK
  <2>2. CellState(i) = "taken" /\ CellState(i)' = "closed" /\ GivenBody(i)' = body[i]
    BY <2>1 DEF CellState, GivenBody, Over
  <2>3. Cells' = [Cells EXCEPT ![i] = "closed"] /\ Givens' = [Givens EXCEPT ![i] = body[i]]
    BY <1>0, <2>1, <2>2, CellsPointwise
  <2> QED BY <2>1, <2>2, <2>3 DEF Cell!CloseWithAnswer
<1>6. ASSUME NEW i \in Interactions, RaiseTimeout(i) \/ RaiseCancelled(i)
      PROVE  Cell!CloseEmpty(i)
  <2>1. waiter[i] = "waiting" /\ waiter'[i] \in {"timeout", "cancelled"}
        /\ UNCHANGED body
        /\ \A j \in Interactions \ {i} : waiter'[j] = waiter[j] /\ future'[j] = future[j]
    BY <1>0, <1>6 DEF RaiseTimeout, RaiseCancelled, FailIfOpen, TypeOK
  <2>2. CellState(i) \in {"open", "taken"} /\ CellState(i)' = "closed"
        /\ GivenBody(i)' = GivenBody(i)
    BY <2>1 DEF CellState, GivenBody, Over
  <2>3. Cells' = [Cells EXCEPT ![i] = "closed"] /\ Givens' = Givens
    BY <1>0, <2>1, <2>2, CellsPointwise
  <2> QED BY <2>1, <2>2, <2>3 DEF Cell!CloseEmpty
<1>7. ASSUME UNCHANGED <<waiter, future, body>> PROVE UNCHANGED Cell!cellVars
  BY <1>7 DEF Cell!cellVars, CellState, GivenBody
<1>8. ASSUME NEW r \in Runs, EndRun(r) PROVE UNCHANGED <<waiter, future, body>>
  BY <1>0, <1>8 DEF EndRun, FailIfOpen, TableInv, TypeOK, Agrees
<1> QED
  BY <1>1, <1>2, <1>5, <1>6, <1>7, <1>8
     DEF Next, vars, Expire, Stop, Cell!CellNext

\* The table implements the abstract reply cells: one answer at most, taken
\* only while somebody waits, and given to the one who asked or dropped.
THEOREM SpecImplementsCells == Spec => ImplementsCells
<1>1. Init => Cell!CellInit
  BY DEF Init, Cell!CellInit, CellState, GivenBody, Over
<1> QED
  BY <1>1, StepImplements, SpecTableInv, PTL DEF Spec, ImplementsCells, Cell!CellSpec
-----------------------------------------------------------------------------
(* SDK sessions.  A turn whose consumer reads it alone is the one whose     *)
(* event _turn_cancel holds; consumers that read side by side are marked.   *)
TurnsTracked ==
    /\ sdkPending # NoMessage => sdkTask[sdkPending] = "none"
    /\ \A m \in SdkMessages :
          /\ sdkTask[m] = "none" <=> sdkReader[m] = "none"
          /\ sdkReader[m] = "drained" => sdkTask[m] = "over"
          /\ sdkReader[m] = "reading" /\ m \notin sdkMixed => sdkCancel = m
    /\ \A m, n \in SdkMessages :
          m # n /\ sdkReader[m] = "reading" /\ sdkReader[n] = "reading" => m \in sdkMixed

SdkInv == SdkTypeOK /\ TurnsTracked /\ OnlyStraysSurviveClose

\* A fresh session tracks its turns.
LEMMA SdkInitInv == SdkInit => SdkInv
BY DEF SdkInit, SdkInv, SdkTypeOK, TurnsTracked, OnlyStraysSurviveClose

\* Every call of a session, and every end of a task or a consumer, keeps it.
LEMMA SdkStepInv == SdkInv /\ [SdkNext]_sdkVars => SdkInv'
<1> SUFFICES ASSUME SdkInv, [SdkNext]_sdkVars PROVE SdkInv'
  OBVIOUS
<1> USE SdkAssumption DEF SdkInv, SdkTypeOK, TurnsTracked, OnlyStraysSurviveClose
<1>1. ASSUME NEW m \in SdkMessages, SdkSend(m) PROVE SdkInv'
  BY <1>1 DEF SdkSend
<1>2. ASSUME NEW m \in SdkMessages, SdkStream(m) PROVE SdkInv'
  BY <1>2 DEF SdkStream, StartedTask, Reading
<1>3. ASSUME NEW m \in SdkMessages, SdkTaskEnds(m) PROVE SdkInv'
  BY <1>3 DEF SdkTaskEnds
<1>4. ASSUME NEW m \in SdkMessages, SdkDrained(m) PROVE SdkInv'
  BY <1>4 DEF SdkDrained, ForgetTurn
<1>5. ASSUME NEW m \in SdkMessages, SdkLeave(m) PROVE SdkInv'
  BY <1>5 DEF SdkLeave, ForgetTurn
<1>6. CASE SdkClose
  BY <1>6 DEF SdkClose, CancelInFlight
<1>7. CASE UNCHANGED sdkVars
  BY <1>7 DEF sdkVars
<1> QED
  BY <1>1, <1>2, <1>3, <1>4, <1>5, <1>6, <1>7 DEF SdkNext

\* The inductive invariant of an SDK session.
THEOREM SpecSdkInv == SdkSpec => []SdkInv
BY SdkInitInv, SdkStepInv, PTL DEF SdkSpec

\* close reaches every turn in flight, except one whose consumer left it or
\* read it together with another.
THEOREM SpecOnlyStraysSurviveClose == SdkSpec => []OnlyStraysSurviveClose
<1>1. SdkInv => OnlyStraysSurviveClose
  BY DEF SdkInv
<1> QED
  BY <1>1, SpecSdkInv, PTL
-----------------------------------------------------------------------------
(* Proposed actions.  Two clicks whose tools were started on one action are *)
(* told apart by excused; an action that was answered "ok" stays executed.  *)
Started == {c \in Clicks : clickPc[c] \in {"running", "ok", "tool_timeout"}}

ClicksTracked ==
    /\ effects \subseteq Started
    /\ \A a \in DOMAIN pendingActions : pendingActions[a].input = NoOverride
    /\ \A c \in Started : Known(c)
    /\ \A c \in Clicks : clickPc[c] = "ok" => pendingActions[ClickOn[c]].executed
    /\ \A c, d \in Started : c # d /\ ClickOn[c] = ClickOn[d] => c \in excused \/ d \in excused

\* What marking an entry leaves of it.
LEMMA MarkedEntry ==
    ASSUME NEW S, NEW entry \in [input : S, executed : BOOLEAN]
    PROVE  [entry EXCEPT !.executed = TRUE] = [input |-> entry.input, executed |-> TRUE]
<1> DEFINE marked == [entry EXCEPT !.executed = TRUE]
<1>1. /\ marked \in [input : S, executed : BOOLEAN]
      /\ marked.input = entry.input /\ marked.executed = TRUE
  OBVIOUS
<1> HIDE DEF marked
<1>2. marked = [input |-> marked.input, executed |-> marked.executed]
  BY <1>1
<1> QED
  BY <1>1, <1>2

ActionInv == ActionTypeOK /\ ClicksTracked /\ OverridesStayPrivate

\* Before the first proposal.
LEMMA ActionInitInv == ActionInit => ActionInv
BY DEF ActionInit, ActionInv, ActionTypeOK, ClicksTracked, OverridesStayPrivate, Started,
       ClickErrors, Known

\* Every proposal, click and tool keeps the invariant.
LEMMA ActionStepInv == ActionInv /\ [ActionNext]_actionVars => ActionInv'
<1> SUFFICES ASSUME ActionInv, [ActionNext]_actionVars PROVE ActionInv'
  OBVIOUS
<1> USE ActionAssumption DEF ActionInv, ActionTypeOK, ClicksTracked, OverridesStayPrivate, Started,
                             ClickErrors, Known
<1>1. ASSUME NEW a \in Proposals, Propose(a) PROVE ActionInv'
  BY <1>1 DEF Propose, NewAction
<1>2. ASSUME NEW c \in Clicks, RefuseClick(c) PROVE ActionInv'
  BY <1>2 DEF RefuseClick, Answer
<1>3. ASSUME NEW c \in Clicks, StartClick(c) PROVE ActionInv'
  BY <1>3 DEF StartClick, Answer, SameAction, Registered
<1>4. ASSUME NEW c \in Clicks, ToolTakesEffect(c) PROVE ActionInv'
  BY <1>4 DEF ToolTakesEffect
<1>5. ASSUME NEW c \in Clicks, FinishClick(c) PROVE ActionInv'
  <2> DEFINE entry == pendingActions[ClickOn[c]]
  <2>1. /\ DOMAIN pendingActions' = DOMAIN pendingActions
        /\ \A a \in DOMAIN pendingActions : a # ClickOn[c] => pendingActions'[a] = pendingActions[a]
        /\ ClickOn[c] \in DOMAIN pendingActions => pendingActions'[ClickOn[c]] = [entry EXCEPT !.executed = TRUE]
    BY <1>5, Zenon DEF FinishClick, Marked
  <2>2. c \in Started
    BY <1>5 DEF FinishClick
  <2>3. entry \in [input : Clicks \cup {NoOverride}, executed : BOOLEAN]
    BY <2>2
  <2>4. entry.input = NoOverride
    BY <2>2
  <2>5. pendingActions'[ClickOn[c]] = [input |-> NoOverride, executed |-> TRUE]
    <3>1. [entry EXCEPT !.executed = TRUE] = [input |-> NoOverride, executed |-> TRUE]
      BY <2>3, <2>4, MarkedEntry
    <3> HIDE DEF entry
    <3> QED
      BY <2>1, <2>2, <3>1
  <2>6. \A a \in DOMAIN pendingActions' :
           /\ pendingActions'[a] \in [input : Clicks \cup {NoOverride}, executed : BOOLEAN]
           /\ pendingActions'[a].input = NoOverride
    <3> SUFFICES ASSUME NEW a \in DOMAIN pendingActions
                 PROVE /\ pendingActions'[a] \in [input : Clicks \cup {NoOverride}, executed : BOOLEAN]
                       /\ pendingActions'[a].input = NoOverride
      BY <2>1
    <3>1. CASE a = ClickOn[c]
      BY <3>1, <2>5
    <3>2. CASE a # ClickOn[c]
      <4>1. pendingActions'[a] = pendingActions[a]
        BY <3>2, <2>1
      <4> QED
        BY <4>1
    <3> QED
      BY <3>1, <3>2
  <2>7. Started' = Started
    BY <1>5 DEF FinishClick, Answer
  <2>8. \A d \in Clicks : clickPc'[d] = "ok" => pendingActions'[ClickOn[d]].executed
    <3> SUFFICES ASSUME NEW d \in Clicks, clickPc'[d] = "ok"
                 PROVE pendingActions'[ClickOn[d]].executed
      OBVIOUS
    <3>1. CASE ClickOn[d] = ClickOn[c]
      BY <3>1, <2>5
    <3>2. CASE ClickOn[d] # ClickOn[c]
      <4>1. clickPc[d] = "ok"
        BY <3>2, <1>5 DEF FinishClick, Answer
      <4>2. ClickOn[d] \in DOMAIN pendingActions /\ pendingActions[ClickOn[d]].executed
        BY <4>1
      <4>3. pendingActions'[ClickOn[d]] = pendingActions[ClickOn[d]]
        BY <4>2, <3>2, <2>1
      <4> QED
        BY <4>2, <4>3
    <3> QED
      BY <3>1, <3>2
  <2>9. ActionTypeOK'
    BY <1>5, <2>1, <2>6 DEF FinishClick, Answer
  <2>3a. ClicksTracked'
    BY <1>5, <2>1, <2>6, <2>7, <2>8 DEF FinishClick, Answer
  <2>11. OverridesStayPrivate'
    BY <1>5 DEF FinishClick, Answer
  <2> QED
    BY <2>9, <2>3a, <2>11
<1>6. ASSUME NEW c \in Clicks, FailClick(c) PROVE ActionInv'
  BY <1>6 DEF FailClick, Answer
<1>7. CASE UNCHANGED actionVars
  BY <1>7 DEF actionVars
<1> QED
  BY <1>1, <1>2, <1>3, <1>4, <1>5, <1>6, <1>7 DEF ActionNext

\* The inductive invariant of the table of proposed actions.
THEOREM SpecActionInv == ActionSpec => []ActionInv
BY ActionInitInv, ActionStepInv, PTL DEF ActionSpec

\* An action has its effect once, but for clicks that overlapped or followed
\* one that timed out.
THEOREM SpecRepeatsExplained == ActionSpec => []RepeatsExplained
<1>1. ActionInv => RepeatsExplained
  BY DEF ActionInv, ClicksTracked, RepeatsExplained, Started
<1> QED
  BY <1>1, SpecActionInv, PTL

\* No click runs with what another click had put in place of the proposal.
THEOREM SpecOverridesStayPrivate == ActionSpec => []OverridesStayPrivate
<1>1. ActionInv => OverridesStayPrivate
  BY DEF ActionInv
<1> QED
  BY <1>1, SpecActionInv, PTL
-----------------------------------------------------------------------------
(* Runs of automations.  Whoever runs an automation is at the head of the   *)
(* line for its lock, and whoever waits is somewhere in it.                 *)
LineOf(c) == runLine[<<RunWorkerOf[c], runOn[c]>>]

LinesTracked ==
    /\ runOn \in [RunCalls -> Autos \cup {NoAuto}]
    /\ runPc \in [RunCalls -> {"new", "looping", "waiting", "running",
                               "ok", "refused", "unmatched"}]
    /\ runLine \in [RunWorkers \X Autos -> Seq(RunCalls)]
    /\ \A c \in RunCalls : runPc[c] \in {"waiting", "running"} => runOn[c] \in Autos
    /\ \A c \in RunCalls : runPc[c] = "waiting" => \E i \in 1..Len(LineOf(c)) : LineOf(c)[i] = c
    /\ \A c \in RunCalls : runPc[c] = "running" => LineOf(c) # <<>> /\ LineOf(c)[1] = c
    /\ runStale \subseteq runWaited
    /\ \A c \in RunCalls : runPc[c] = "waiting" => c \in runWaited

TodoInAutos == \A c \in RunCalls : runTodo[c] \in Seq(Autos)

LineInv == LinesTracked /\ TodoInAutos

\* Before the first call.
LEMMA LineInitInv == AutoRunInit => LineInv
BY AutomationRunAssumption DEF AutoRunInit, LineInv, LinesTracked, TodoInAutos

\* Every edit and every step of a call keeps the lines.
LEMMA LineStepInv == LineInv /\ [AutoRunNext]_runVars => LineInv'
<1> SUFFICES ASSUME LineInv, [AutoRunNext]_runVars PROVE LineInv'
  OBVIOUS
<1> USE AutomationRunAssumption DEF LineInv, LinesTracked, TodoInAutos, LineOf, RunCalls
<1>1. ASSUME NEW a \in Autos, EditRow(a) PROVE LineInv'
  BY <1>1 DEF EditRow
<1>2. ASSUME NEW c \in RunCalls, StartTick(c) PROVE LineInv'
  BY <1>2 DEF StartTick
<1>3. ASSUME NEW c \in RunCalls, StartTrigger(c) PROVE LineInv'
  <2>1. Matching \subseteq Autos /\ Cardinality(Matching) \in Nat
    BY FS_Subset, FS_CardinalityType DEF Matching
  <2>2. \A order \in Orders(Matching) : order \in Seq(Autos)
    BY <2>1 DEF Orders
  <2> QED
    BY <1>3, <2>2 DEF StartTrigger
<1>4. ASSUME NEW c \in RunCalls, RefuseSecret(c) PROVE LineInv'
  BY <1>4 DEF RefuseSecret
<1>5. ASSUME NEW c \in RunCalls, RunNothing(c) PROVE LineInv'
  BY <1>5 DEF RunNothing
<1>6. ASSUME NEW c \in RunCalls, EnterRun(c) PROVE LineInv'
  <2> DEFINE a == Head(runTodo[c])
             l == <<RunWorkerOf[c], a>>
  <2>1. a \in Autos /\ Tail(runTodo[c]) \in Seq(Autos)
    BY <1>6 DEF EnterRun
  <2>2. l \in RunWorkers \X Autos /\ runLine[l] \in Seq(RunCalls)
    BY <2>1
  <2>3. /\ runLine' = [runLine EXCEPT ![l] = Append(@, c)]
        /\ runOn' = [runOn EXCEPT ![c] = a]
        /\ runPc[c] = "looping"
        /\ runPc' = [runPc EXCEPT ![c] = IF runLine[l] = <<>> THEN "running" ELSE "waiting"]
        /\ runTodo' = [runTodo EXCEPT ![c] = Tail(@)]
        /\ runWaited' = IF runLine[l] = <<>> THEN runWaited ELSE runWaited \cup {c}
        /\ runStale' = runStale
    BY <1>6 DEF EnterRun, LockLine, JoinLine, VersionRead
  <2> HIDE DEF a, l
  <2>4. /\ runOn' \in [RunCalls -> Autos \cup {NoAuto}]
        /\ runPc' \in [RunCalls -> {"new", "looping", "waiting", "running",
                                    "ok", "refused", "unmatched"}]
        /\ runLine' \in [RunWorkers \X Autos -> Seq(RunCalls)]
        /\ TodoInAutos'
    BY <2>1, <2>2, <2>3
  <2>5. runLine'[l] = Append(runLine[l], c)
    BY <2>2, <2>3
  <2>6. LineOf(c)' = Append(runLine[l], c)
    BY <2>3, <2>5 DEF l
  <2>7. ASSUME NEW d \in RunCalls, d # c, runPc[d] \in {"waiting", "running"}
        PROVE LineOf(d)' = LineOf(d) \/ (LineOf(d) = runLine[l] /\ LineOf(d)' = Append(runLine[l], c))
    BY <2>3, <2>5, <2>7 DEF l
  <2>8. ASSUME NEW d \in RunCalls, d # c, runPc[d] = "waiting"
        PROVE \E i \in 1..Len(LineOf(d)') : LineOf(d)'[i] = d
    <3>1. PICK i \in 1..Len(LineOf(d)) : LineOf(d)[i] = d
      BY <2>8
    <3> HIDE DEF LineOf
    <3>2. CASE LineOf(d)' = LineOf(d)
      BY <3>1, <3>2
    <3>3. CASE LineOf(d) = runLine[l] /\ LineOf(d)' = Append(runLine[l], c)
      <4>1. /\ \A j \in 1..Len(runLine[l]) : Append(runLine[l], c)[j] = runLine[l][j]
            /\ Len(Append(runLine[l], c)) = Len(runLine[l]) + 1 /\ Len(runLine[l]) \in Nat
        BY <2>2
      <4>2. i \in 1..Len(LineOf(d)') /\ LineOf(d)'[i] = LineOf(d)[i]
        BY <3>1, <3>3, <4>1
      <4> QED
        BY <4>2, <3>1
    <3> QED
      BY <3>2, <3>3, <2>7, <2>8
  <2>9. ASSUME NEW d \in RunCalls, d # c, runPc[d] = "running"
        PROVE LineOf(d)' # <<>> /\ LineOf(d)'[1] = d
    <3>1. LineOf(d) # <<>> /\ LineOf(d)[1] = d
      BY <2>9
    <3> HIDE DEF LineOf
    <3>2. CASE LineOf(d) = runLine[l] /\ LineOf(d)' = Append(runLine[l], c)
      <4> DEFINE s == runLine[l]
      <4>1. s \in Seq(RunCalls) /\ s # <<>>
        BY <3>1, <3>2, <2>2
      <4>2. Append(s, c) # <<>> /\ Append(s, c)[1] = s[1]
        <5> HIDE DEF s
        <5> QED
          BY <4>1
      <4> QED
        BY <3>1, <3>2, <4>2
    <3> QED
      BY <3>1, <3>2, <2>7, <2>9
  <2>3a. LineOf(c)' # <<>> /\ LineOf(c)'[Len(runLine[l]) + 1] = c /\ Len(LineOf(c)') = Len(runLine[l]) + 1
    <3> DEFINE line == runLine[l]
    <3>1. line \in Seq(RunCalls)
      BY <2>2
    <3> HIDE DEF line
    <3>2. Len(Append(line, c)) = Len(line) + 1 /\ Len(line) \in Nat
      BY <3>1
    <3>3. Append(line, c)[Len(line) + 1] = c
      BY <3>1
    <3>4. Append(line, c) # <<>>
      BY <3>2
    <3> QED
      BY <3>2, <3>3, <3>4, <2>6 DEF line
  <2>11. \A d \in RunCalls : runPc'[d] = "waiting" => \E i \in 1..Len(LineOf(d)') : LineOf(d)'[i] = d
    <3>1. \E i \in 1..Len(LineOf(c)') : LineOf(c)'[i] = c
      BY <2>3a, <2>2
    <3>2. \A d \in RunCalls : d # c => runPc'[d] = runPc[d]
      BY <2>3
    <3> HIDE DEF LineOf
    <3> QED
      BY <3>1, <3>2, <2>8
  <2>12. \A d \in RunCalls : runPc'[d] = "running" => LineOf(d)' # <<>> /\ LineOf(d)'[1] = d
    <3>1. \A d \in RunCalls : d # c => runPc'[d] = runPc[d]
      BY <2>3
    <3>2. runPc'[c] = "running" => Len(runLine[l]) = 0
      BY <2>3, <2>2
    <3> HIDE DEF LineOf
    <3> QED
      BY <3>1, <3>2, <2>9, <2>3a
  <2> QED
    BY <2>1, <2>3, <2>4, <2>11, <2>12
<1>7. ASSUME NEW c \in RunCalls, ResumeRun(c) PROVE LineInv'
  <2>1. /\ runPc[c] = "waiting" /\ Head(LineOf(c)) = c
        /\ runPc' = [runPc EXCEPT ![c] = "running"]
        /\ runOn' = runOn /\ runLine' = runLine /\ runTodo' = runTodo /\ runWaited' = runWaited
        /\ runStale' \subseteq runStale \cup {c}
    BY <1>7 DEF ResumeRun, LockLine
  <2>2. LineOf(c) \in Seq(RunCalls) /\ LineOf(c) # <<>>
    BY <2>1
  <2>3. LineOf(c)[1] = c
    BY <2>1, <2>2
  <2>4. \A d \in RunCalls : LineOf(d)' = LineOf(d)
    BY <2>1
  <2>5. \A d \in RunCalls : runPc'[d] = "running" => LineOf(d)' # <<>> /\ LineOf(d)'[1] = d
    <3>1. \A d \in RunCalls : d # c => runPc'[d] = runPc[d]
      BY <2>1
    <3>2. \A d \in RunCalls : runPc[d] = "running" => LineOf(d) # <<>> /\ LineOf(d)[1] = d
      OBVIOUS
    <3> HIDE DEF LineOf
    <3> QED
      BY <3>1, <3>2, <2>2, <2>3, <2>4
  <2>6. \A d \in RunCalls : runPc'[d] = "waiting" => runPc[d] = "waiting"
    BY <2>1
  <2> QED
    BY <2>1, <2>4, <2>5, <2>6
<1>8. ASSUME NEW c \in RunCalls, EndAgentRun(c) PROVE LineInv'
  <2> DEFINE l == <<RunWorkerOf[c], runOn[c]>>
  <2>1. /\ runPc[c] = "running"
        /\ runPc' = [runPc EXCEPT ![c] = "looping"]
        /\ runOn' = [runOn EXCEPT ![c] = NoAuto]
        /\ runLine' = [runLine EXCEPT ![l] = Tail(@)]
        /\ runTodo' = runTodo /\ runWaited' = runWaited /\ runStale' = runStale
    BY <1>8 DEF EndAgentRun, LeaveLine
  <2>2. l \in RunWorkers \X Autos /\ runLine[l] \in Seq(RunCalls) /\ runLine[l] # <<>> /\ runLine[l][1] = c
    BY <2>1
  <2> HIDE DEF l
  <2>3. /\ runOn' \in [RunCalls -> Autos \cup {NoAuto}]
        /\ runPc' \in [RunCalls -> {"new", "looping", "waiting", "running",
                                    "ok", "refused", "unmatched"}]
        /\ runLine' \in [RunWorkers \X Autos -> Seq(RunCalls)]
    BY <2>1, <2>2
  <2>4. ASSUME NEW d \in RunCalls, d # c, runPc[d] \in {"waiting", "running"}
        PROVE LineOf(d)' = LineOf(d) \/ (LineOf(d) = runLine[l] /\ LineOf(d)' = Tail(runLine[l]))
    <3>1. <<RunWorkerOf[d], runOn[d]>> \in RunWorkers \X Autos /\ runOn'[d] = runOn[d]
      BY <2>1, <2>4
    <3>2. \A k \in RunWorkers \X Autos : runLine'[k] = IF k = l THEN Tail(runLine[l]) ELSE runLine[k]
      BY <2>1, <2>2
    <3> QED
      BY <3>1, <3>2
  <2>5. ASSUME NEW d \in RunCalls, runPc'[d] = "waiting"
        PROVE \E i \in 1..Len(LineOf(d)') : LineOf(d)'[i] = d
    <3>1. d # c /\ runPc[d] = "waiting"
      BY <2>1, <2>5
    <3>2. PICK i \in 1..Len(LineOf(d)) : LineOf(d)[i] = d
      BY <3>1
    <3> HIDE DEF LineOf
    <3>3. CASE LineOf(d)' = LineOf(d)
      BY <3>2, <3>3
    <3>4. CASE LineOf(d) = runLine[l] /\ LineOf(d)' = Tail(runLine[l])
      <4>1. i # 1
        BY <3>1, <3>2, <3>4, <2>2
      <4>2. i - 1 \in 1..Len(LineOf(d)') /\ LineOf(d)'[i - 1] = LineOf(d)[i]
        BY <4>1, <3>2, <3>4, <2>2
      <4> QED
        BY <4>2, <3>2
    <3> QED
      BY <3>1, <3>3, <3>4, <2>4
  <2>6. ASSUME NEW d \in RunCalls, runPc'[d] = "running"
        PROVE LineOf(d)' # <<>> /\ LineOf(d)'[1] = d
    <3>1. d # c /\ runPc[d] = "running"
      BY <2>1, <2>6
    <3>2. LineOf(d) # <<>> /\ LineOf(d)[1] = d
      BY <3>1
    <3>3. LineOf(d)' = LineOf(d)
      BY <3>1, <3>2, <2>2, <2>4
    <3> QED
      BY <3>2, <3>3
  <2>7. \A d \in RunCalls : runPc'[d] \in {"waiting", "running"} =>
           runPc[d] = runPc'[d] /\ runOn'[d] = runOn[d]
    BY <2>1
  <2> QED
    BY <2>1, <2>3, <2>5, <2>6, <2>7
<1>9. ASSUME NEW c \in RunCalls, AnswerTrigger(c) PROVE LineInv'
  BY <1>9 DEF AnswerTrigger
<1>10. CASE UNCHANGED runVars
  BY <1>10 DEF runVars
<1> QED
  BY <1>1, <1>2, <1>3, <1>4, <1>5, <1>6, <1>7, <1>8, <1>9, <1>10 DEF AutoRunNext, RunStep

\* The inductive invariant of the locks of automations.
THEOREM SpecLineInv == AutoRunSpec => []LineInv
BY LineInitInv, LineStepInv, PTL DEF AutoRunSpec

\* A process runs an automation once at a time.
THEOREM SpecOneRunPerWorker == AutoRunSpec => []OneRunPerWorker
<1>1. LineInv => OneRunPerWorker
  <2> SUFFICES ASSUME LineInv, NEW c \in RunCalls, NEW d \in RunCalls,
                      c # d, RunWorkerOf[c] = RunWorkerOf[d],
                      runPc[c] = "running", runPc[d] = "running", runOn[c] = runOn[d]
               PROVE FALSE
    BY DEF OneRunPerWorker
  <2>1. LineOf(c)[1] = c /\ LineOf(d)[1] = d
    BY DEF LineInv, LinesTracked
  <2>2. LineOf(c) = LineOf(d)
    BY DEF LineOf
  <2> QED
    BY <2>1, <2>2
<1> QED
  BY <1>1, SpecLineInv, PTL

\* Only a call that had to wait runs instructions that were replaced.
THEOREM SpecStaleOnlyAfterWaiting == AutoRunSpec => []StaleOnlyAfterWaiting
<1>1. LineInv => StaleOnlyAfterWaiting
  BY DEF LineInv, LinesTracked, StaleOnlyAfterWaiting
<1> QED
  BY <1>1, SpecLineInv, PTL

(* What a call has matched is what it has a result for, what it runs or     *)
(* waits to run, and what is still to come.                                 *)
Busy(c) == runPc[c] \in {"waiting", "running"}
Reached(c) == IF Busy(c) THEN Len(runResults[c]) + 1 ELSE Len(runResults[c])
Untrusted == Triggers \ Trusted

Covered(c) ==
    /\ Len(runListed[c]) = Reached(c) + Len(runTodo[c])
    /\ \A n \in 1..Len(runResults[c]) : runListed[c][n] = runResults[c][n]
    /\ Busy(c) => runListed[c][Reached(c)] = runOn[c]
    /\ \A n \in 1..Len(runTodo[c]) :
           runListed[c][Reached(c) + n] = runTodo[c][n]
    /\ runPc[c] = "new" => Len(runResults[c]) = 0
    /\ runPc[c] = "ok" => Len(runTodo[c]) = 0
    /\ runPc[c] = "refused" => c \in Untrusted /\ Len(runTodo[c]) > 0 /\ runTodo[c][1] \in Secured
    /\ c \in Untrusted =>
           \A n \in 1..Reached(c) : runListed[c][n] \notin Secured

RunTypes ==
    /\ runPc \in [RunCalls -> {"new", "looping", "waiting", "running",
                               "ok", "refused", "unmatched"}]
    /\ runOn \in [RunCalls -> Autos \cup {NoAuto}]
    /\ runTodo \in [RunCalls -> Seq(Autos)]
    /\ runResults \in [RunCalls -> Seq(Autos)]
    /\ runListed \in [RunCalls -> Seq(Autos)]

CoverInv == RunTypes /\ \A c \in RunCalls : Covered(c)

\* Before the first call.
LEMMA CoverInitInv == AutoRunInit => CoverInv
BY AutomationRunAssumption DEF AutoRunInit, CoverInv, RunTypes, Covered, Reached, Busy

\* A step of one call is judged by that call alone.
LEMMA CoveredByCall ==
    ASSUME CoverInv, RunTypes', NEW c \in RunCalls, Covered(c)',
           \A d \in RunCalls \ {c} :
               /\ runPc'[d] = runPc[d] /\ runOn'[d] = runOn[d] /\ runTodo'[d] = runTodo[d]
               /\ runResults'[d] = runResults[d] /\ runListed'[d] = runListed[d]
    PROVE  CoverInv'
<1>1. ASSUME NEW d \in RunCalls \ {c} PROVE Covered(d)'
  <2>1. Covered(d)
    BY DEF CoverInv
  <2>2. /\ runPc'[d] = runPc[d] /\ runOn'[d] = runOn[d] /\ runTodo'[d] = runTodo[d]
        /\ runResults'[d] = runResults[d] /\ runListed'[d] = runListed[d]
    OBVIOUS
  <2> QED
    BY ONLY <2>1, <2>2 DEF Covered, Reached, Busy
<1> QED
  BY <1>1 DEF CoverInv

\* Every edit and every step of a call keeps the results with the matches.
LEMMA CoverStepInv == CoverInv /\ [AutoRunNext]_runVars => CoverInv'
<1> SUFFICES ASSUME CoverInv, [AutoRunNext]_runVars PROVE CoverInv'
  OBVIOUS
<1> USE AutomationRunAssumption
<1>1. ASSUME NEW a \in Autos, EditRow(a) PROVE CoverInv'
  BY <1>1 DEF EditRow, CoverInv, RunTypes, Covered, Reached, Busy
<1>2. ASSUME NEW c \in RunCalls, StartTick(c) PROVE CoverInv'
  <2>1. /\ runPc[c] = "new" /\ runPc' = [runPc EXCEPT ![c] = "looping"]
        /\ runTodo' = [runTodo EXCEPT ![c] = <<TickOf[c]>>]
        /\ runListed' = [runListed EXCEPT ![c] = <<TickOf[c]>>]
        /\ runOn' = runOn /\ runResults' = runResults /\ TickOf[c] \in Autos
    BY <1>2 DEF StartTick
  <2>2. RunTypes'
    BY <2>1 DEF CoverInv, RunTypes
  <2>3. Covered(c)'
    BY <2>1 DEF CoverInv, RunTypes, Covered, Reached, Busy
  <2> QED
    BY <2>1, <2>2, <2>3, CoveredByCall DEF CoverInv, RunTypes
<1>3. ASSUME NEW c \in RunCalls, StartTrigger(c) PROVE CoverInv'
  <2>1. PICK order \in Orders(Matching) :
        /\ runTodo' = [runTodo EXCEPT ![c] = order]
        /\ runListed' = [runListed EXCEPT ![c] = order]
        /\ runPc' = [runPc EXCEPT ![c] = IF order = <<>> THEN "unmatched" ELSE "looping"]
    BY <1>3 DEF StartTrigger
  <2>2. runPc[c] = "new" /\ runOn' = runOn /\ runResults' = runResults
    BY <1>3 DEF StartTrigger
  <2>3. Matching \subseteq Autos /\ Cardinality(Matching) \in Nat
    BY FS_Subset, FS_CardinalityType DEF Matching
  <2>4. order \in Seq(Autos)
    BY <2>3 DEF Orders
  <2>5. RunTypes'
    BY <2>1, <2>2, <2>4 DEF CoverInv, RunTypes
  <2>6. Covered(c)'
    BY <2>1, <2>2, <2>4 DEF CoverInv, RunTypes, Covered, Reached, Busy
  <2> QED
    BY <2>1, <2>2, <2>5, <2>6, CoveredByCall DEF CoverInv, RunTypes
<1>4. ASSUME NEW c \in RunCalls, RefuseSecret(c) PROVE CoverInv'
  <2>1. /\ runPc[c] = "looping" /\ runPc' = [runPc EXCEPT ![c] = "refused"]
        /\ runTodo' = runTodo /\ runListed' = runListed /\ runOn' = runOn /\ runResults' = runResults
        /\ c \in Untrusted /\ runTodo[c] # <<>> /\ Head(runTodo[c]) \in Secured
    BY <1>4 DEF RefuseSecret, SecretFails, Untrusted
  <2>2. RunTypes'
    BY <2>1 DEF CoverInv, RunTypes
  <2>3. Covered(c)'
    <3>1. runTodo[c] \in Seq(Autos)
      BY DEF CoverInv, RunTypes
    <3>2. Len(runTodo[c]) > 0 /\ runTodo[c][1] \in Secured
      BY <2>1, <3>1
    <3>3. /\ Covered(c) /\ runPc'[c] = "refused" /\ runPc[c] = "looping"
          /\ Reached(c)' = Reached(c) /\ ~Busy(c)' /\ ~Busy(c)
      BY <2>1 DEF CoverInv, RunTypes, Reached, Busy
    <3> QED
      BY ONLY <2>1, <3>2, <3>3 DEF Covered
  <2> QED
    BY <2>1, <2>2, <2>3, CoveredByCall DEF CoverInv, RunTypes
<1>5. ASSUME NEW c \in RunCalls, RunNothing(c) PROVE CoverInv'
  <2>1. /\ runPc[c] = "looping" /\ runPc' = runPc /\ runOn' = runOn /\ runListed' = runListed
        /\ runTodo[c] # <<>> /\ ~(c \in Untrusted /\ Head(runTodo[c]) \in Secured)
        /\ runTodo' = [runTodo EXCEPT ![c] = Tail(@)]
        /\ runResults' = [runResults EXCEPT ![c] = Append(@, Head(runTodo[c]))]
    BY <1>5 DEF RunNothing, SecretFails, Untrusted
  <2>2. RunTypes'
    BY <2>1 DEF CoverInv, RunTypes
  <2>3. Covered(c)'
    <3> DEFINE todo == runTodo[c]
               results == runResults[c]
               listed == runListed[c]
    <3>1. todo \in Seq(Autos) /\ results \in Seq(Autos) /\ listed \in Seq(Autos) /\ todo # <<>>
      BY <2>1 DEF CoverInv, RunTypes
    <3>2. /\ runTodo'[c] = Tail(todo) /\ runResults'[c] = Append(results, Head(todo))
          /\ runListed'[c] = listed /\ runPc[c] = "looping" /\ runPc'[c] = "looping"
          /\ Reached(c) = Len(results) /\ Reached(c)' = Len(Append(results, Head(todo)))
          /\ ~Busy(c) /\ ~Busy(c)'
      BY <2>1 DEF CoverInv, RunTypes, Reached, Busy
    <3>3. /\ Len(listed) = Len(results) + Len(todo)
          /\ \A n \in 1..Len(results) : listed[n] = results[n]
          /\ \A n \in 1..Len(todo) : listed[Len(results) + n] = todo[n]
          /\ c \in Untrusted => \A n \in 1..Len(results) : listed[n] \notin Secured
          /\ c \in Untrusted => todo[1] \notin Secured
      <4>1. Covered(c) /\ Head(todo) = todo[1]
        BY <3>1 DEF CoverInv
      <4>2. c \in Untrusted => Head(todo) \notin Secured
        BY <2>1
      <4> QED
        BY ONLY <4>1, <4>2, <3>2 DEF Covered
    <3> HIDE DEF todo, results, listed
    <3>4. /\ Len(Tail(todo)) = Len(todo) - 1 /\ Len(todo) > 0 /\ Head(todo) = todo[1]
          /\ \A n \in 1..(Len(todo) - 1) : Tail(todo)[n] = todo[n + 1]
      BY <3>1
    <3>5. /\ Len(Append(results, Head(todo))) = Len(results) + 1
          /\ \A n \in 1..Len(results) : Append(results, Head(todo))[n] = results[n]
          /\ Append(results, Head(todo))[Len(results) + 1] = Head(todo)
      BY <3>1
    <3>6. listed[Len(results) + 1] = todo[1]
      BY <3>1, <3>3, <3>4
    <3>7. Len(listed) = Len(Append(results, Head(todo))) + Len(Tail(todo))
      BY <3>1, <3>3, <3>4, <3>5
    <3>8. ASSUME NEW n \in 1..(Len(results) + 1)
          PROVE /\ listed[n] = Append(results, Head(todo))[n]
                /\ c \in Untrusted => listed[n] \notin Secured
      <4>1. n \in 1..Len(results) \/ n = Len(results) + 1
        BY <3>1
      <4> QED
        BY <4>1, <3>3, <3>4, <3>5, <3>6
    <3>9. ASSUME NEW n \in 1..(Len(todo) - 1)
          PROVE listed[Len(results) + 1 + n] = Tail(todo)[n]
      <4>1. n + 1 \in 1..Len(todo) /\ Len(results) + (n + 1) = Len(results) + 1 + n
        BY <3>1
      <4> QED
        BY <4>1, <3>3, <3>4
    <3> QED
      BY <3>2, <3>4, <3>5, <3>7, <3>8, <3>9 DEF Covered
  <2> QED
    BY <2>1, <2>2, <2>3, CoveredByCall DEF CoverInv, RunTypes
<1>6. ASSUME NEW c \in RunCalls, EnterRun(c) PROVE CoverInv'
  <2>1. /\ runPc[c] = "looping" /\ runResults' = runResults /\ runListed' = runListed
        /\ runTodo[c] # <<>> /\ ~(c \in Untrusted /\ Head(runTodo[c]) \in Secured)
        /\ runTodo' = [runTodo EXCEPT ![c] = Tail(@)]
        /\ runOn' = [runOn EXCEPT ![c] = Head(runTodo[c])]
        /\ \E place \in {"running", "waiting"} : runPc' = [runPc EXCEPT ![c] = place]
    BY <1>6 DEF EnterRun, SecretFails, Untrusted
  <2>2. RunTypes'
    BY <2>1 DEF CoverInv, RunTypes
  <2>3. Covered(c)'
    <3> DEFINE todo == runTodo[c]
               results == runResults[c]
               listed == runListed[c]
    <3>1. todo \in Seq(Autos) /\ results \in Seq(Autos) /\ listed \in Seq(Autos) /\ todo # <<>>
      BY <2>1 DEF CoverInv, RunTypes
    <3>2. /\ runTodo'[c] = Tail(todo) /\ runResults'[c] = results /\ runOn'[c] = Head(todo)
          /\ runListed'[c] = listed /\ runPc'[c] \in {"running", "waiting"}
          /\ Reached(c) = Len(results) /\ Reached(c)' = Len(results) + 1
          /\ ~Busy(c) /\ Busy(c)'
      BY <2>1 DEF CoverInv, RunTypes, Reached, Busy
    <3>3. /\ Len(listed) = Len(results) + Len(todo)
          /\ \A n \in 1..Len(results) : listed[n] = results[n]
          /\ \A n \in 1..Len(todo) : listed[Len(results) + n] = todo[n]
          /\ c \in Untrusted => \A n \in 1..Len(results) : listed[n] \notin Secured
          /\ c \in Untrusted => todo[1] \notin Secured
      <4>1. Covered(c) /\ Head(todo) = todo[1]
        BY <3>1 DEF CoverInv
      <4>2. c \in Untrusted => Head(todo) \notin Secured
        BY <2>1
      <4> QED
        BY ONLY <4>1, <4>2, <3>2 DEF Covered
    <3> HIDE DEF todo, results, listed
    <3>4. /\ Len(Tail(todo)) = Len(todo) - 1 /\ Len(todo) > 0 /\ Head(todo) = todo[1]
          /\ \A n \in 1..(Len(todo) - 1) : Tail(todo)[n] = todo[n + 1]
      BY <3>1
    <3>5. listed[Len(results) + 1] = Head(todo)
      BY <3>1, <3>3, <3>4
    <3>6. Len(listed) = Len(results) + 1 + Len(Tail(todo))
      BY <3>1, <3>3, <3>4
    <3>7. ASSUME c \in Untrusted, NEW n \in 1..(Len(results) + 1)
          PROVE listed[n] \notin Secured
      <4>1. n \in 1..Len(results) \/ n = Len(results) + 1
        BY <3>1
      <4> QED
        BY <4>1, <3>3, <3>4, <3>5, <3>7
    <3>8. ASSUME NEW n \in 1..(Len(todo) - 1)
          PROVE listed[Len(results) + 1 + n] = Tail(todo)[n]
      <4>1. n + 1 \in 1..Len(todo) /\ Len(results) + (n + 1) = Len(results) + 1 + n
        BY <3>1
      <4> QED
        BY <4>1, <3>3, <3>4
    <3> QED
      BY <3>2, <3>3, <3>4, <3>5, <3>6, <3>7, <3>8 DEF Covered
  <2> QED
    BY <2>1, <2>2, <2>3, CoveredByCall DEF CoverInv, RunTypes
<1>7. ASSUME NEW c \in RunCalls, ResumeRun(c) PROVE CoverInv'
  <2>1. /\ runPc[c] = "waiting" /\ runPc' = [runPc EXCEPT ![c] = "running"]
        /\ runTodo' = runTodo /\ runListed' = runListed /\ runOn' = runOn /\ runResults' = runResults
    BY <1>7 DEF ResumeRun
  <2>2. RunTypes'
    BY <2>1 DEF CoverInv, RunTypes
  <2>3. Covered(c)'
    BY <2>1 DEF CoverInv, RunTypes, Covered, Reached, Busy
  <2> QED
    BY <2>1, <2>2, <2>3, CoveredByCall DEF CoverInv, RunTypes
<1>8. ASSUME NEW c \in RunCalls, EndAgentRun(c) PROVE CoverInv'
  <2>1. /\ runPc[c] = "running" /\ runPc' = [runPc EXCEPT ![c] = "looping"]
        /\ runOn' = [runOn EXCEPT ![c] = NoAuto]
        /\ runResults' = [runResults EXCEPT ![c] = Append(@, runOn[c])]
        /\ runTodo' = runTodo /\ runListed' = runListed
    BY <1>8 DEF EndAgentRun
  <2>2. runOn[c] \in Autos
    <3>1. Covered(c) /\ Busy(c) /\ Reached(c) = Len(runResults[c]) + 1
      BY <2>1 DEF CoverInv, Reached, Busy
    <3>2. runListed[c] \in Seq(Autos) /\ runResults[c] \in Seq(Autos) /\ runTodo[c] \in Seq(Autos)
      BY DEF CoverInv, RunTypes
    <3>3. Len(runListed[c]) = Reached(c) + Len(runTodo[c]) /\ runListed[c][Reached(c)] = runOn[c]
      BY ONLY <3>1 DEF Covered
    <3>4. Reached(c) \in 1..Len(runListed[c])
      <4> DEFINE results == Len(runResults[c])
                 listed == Len(runListed[c])
                 todo == Len(runTodo[c])
      <4>1. results \in Nat /\ todo \in Nat /\ listed \in Nat
        BY <3>2
      <4>2. listed = results + 1 + todo /\ Reached(c) = results + 1
        BY <3>1, <3>3
      <4> HIDE DEF results, listed, todo
      <4>3. results + 1 \in 1..listed
        BY ONLY <4>1, <4>2
      <4> QED
        BY <4>2, <4>3 DEF listed
    <3> QED
      BY <3>2, <3>3, <3>4
  <2>3. RunTypes'
    BY <2>1, <2>2 DEF CoverInv, RunTypes
  <2>4. Covered(c)'
    <3> DEFINE todo == runTodo[c]
               results == runResults[c]
               listed == runListed[c]
               now == runOn[c]
    <3>1. todo \in Seq(Autos) /\ results \in Seq(Autos) /\ listed \in Seq(Autos) /\ now \in Autos
      BY <2>2 DEF CoverInv, RunTypes
    <3>2. /\ runTodo'[c] = todo /\ runResults'[c] = Append(results, now)
          /\ runListed'[c] = listed /\ runPc'[c] = "looping"
          /\ Reached(c) = Len(results) + 1 /\ Reached(c)' = Len(Append(results, now))
          /\ Busy(c) /\ ~Busy(c)'
      BY <2>1 DEF CoverInv, RunTypes, Reached, Busy
    <3>3. /\ Len(listed) = Len(results) + 1 + Len(todo)
          /\ \A n \in 1..Len(results) : listed[n] = results[n]
          /\ listed[Len(results) + 1] = now
          /\ \A n \in 1..Len(todo) : listed[Len(results) + 1 + n] = todo[n]
          /\ c \in Untrusted => \A n \in 1..(Len(results) + 1) : listed[n] \notin Secured
      <4>1. Covered(c)
        BY DEF CoverInv
      <4> QED
        BY ONLY <4>1, <3>2 DEF Covered
    <3> HIDE DEF todo, results, listed, now
    <3>4. /\ Len(Append(results, now)) = Len(results) + 1
          /\ \A n \in 1..Len(results) : Append(results, now)[n] = results[n]
          /\ Append(results, now)[Len(results) + 1] = now
      BY <3>1
    <3>5. ASSUME NEW n \in 1..(Len(results) + 1)
          PROVE listed[n] = Append(results, now)[n]
      <4>1. n \in 1..Len(results) \/ n = Len(results) + 1
        BY <3>1
      <4> QED
        BY <4>1, <3>3, <3>4
    <3> QED
      BY <3>2, <3>3, <3>4, <3>5 DEF Covered
  <2> QED
    BY <2>1, <2>3, <2>4, CoveredByCall DEF CoverInv, RunTypes
<1>9. ASSUME NEW c \in RunCalls, AnswerTrigger(c) PROVE CoverInv'
  <2>1. /\ runPc[c] = "looping" /\ runPc' = [runPc EXCEPT ![c] = "ok"] /\ runTodo[c] = <<>>
        /\ runTodo' = runTodo /\ runListed' = runListed /\ runOn' = runOn /\ runResults' = runResults
    BY <1>9 DEF AnswerTrigger
  <2>2. RunTypes'
    BY <2>1 DEF CoverInv, RunTypes
  <2>3. Covered(c)'
    <3>1. /\ Covered(c) /\ runPc'[c] = "ok" /\ runPc[c] = "looping"
          /\ Reached(c)' = Reached(c) /\ ~Busy(c)' /\ ~Busy(c)
          /\ Len(runTodo[c]) = 0
      BY <2>1 DEF CoverInv, RunTypes, Reached, Busy
    <3> QED
      BY ONLY <2>1, <3>1 DEF Covered
  <2> QED
    BY <2>1, <2>2, <2>3, CoveredByCall DEF CoverInv, RunTypes
<1>10. CASE UNCHANGED runVars
  BY <1>10 DEF runVars, CoverInv, RunTypes, Covered, Reached, Busy
<1> QED
  BY <1>1, <1>2, <1>3, <1>4, <1>5, <1>6, <1>7, <1>8, <1>9, <1>10 DEF AutoRunNext, RunStep

\* The inductive invariant of the results of ticks and events.
THEOREM SpecCoverInv == AutoRunSpec => []CoverInv
BY CoverInitInv, CoverStepInv, PTL DEF AutoRunSpec

\* What a caller is told covers what was run.
THEOREM SpecResultsCoverMatches == AutoRunSpec => []ResultsCoverMatches
<1>1. CoverInv => ResultsCoverMatches
  <2> SUFFICES ASSUME CoverInv, NEW c \in RunCalls
               PROVE LET done == Len(runResults[c])
                     IN /\ runResults[c] = SubSeq(runListed[c], 1, done)
                        /\ runPc[c] = "ok" => done = Len(runListed[c])
                        /\ runPc[c] = "refused" => /\ runListed[c][done + 1] \in Secured
                                                   /\ \A n \in 1..done : runListed[c][n] \notin Secured
                        /\ c \in Triggers \ Trusted /\ runPc[c] = "ok" =>
                               \A n \in 1..done : runListed[c][n] \notin Secured
    BY DEF ResultsCoverMatches
  <2> DEFINE done == Len(runResults[c])
  <2>1. /\ runListed[c] \in Seq(Autos) /\ runResults[c] \in Seq(Autos) /\ runTodo[c] \in Seq(Autos)
        /\ Covered(c) /\ Reached(c) \in {Len(runResults[c]), Len(runResults[c]) + 1}
    BY DEF CoverInv, RunTypes, Reached
  <2>2. done \in Nat /\ done <= Len(runListed[c])
    BY <2>1 DEF Covered
  <2>3. runResults[c] = SubSeq(runListed[c], 1, done)
    <3>1. /\ SubSeq(runListed[c], 1, done) \in Seq(Autos)
          /\ Len(SubSeq(runListed[c], 1, done)) = done
          /\ \A n \in 1..done : SubSeq(runListed[c], 1, done)[n] = runListed[c][n]
      BY <2>1, <2>2
    <3>2. \A n \in 1..done : runResults[c][n] = SubSeq(runListed[c], 1, done)[n]
      BY <2>1, <3>1 DEF Covered
    <3>3. /\ runResults[c] \in Seq(Autos) /\ SubSeq(runListed[c], 1, done) \in Seq(Autos)
          /\ Len(runResults[c]) = Len(SubSeq(runListed[c], 1, done))
      BY <2>1, <3>1
    <3> QED
      BY <3>2, <3>3, SeqEqual
  <2>4. runPc[c] = "ok" => done = Len(runListed[c])
    <3>1. runPc[c] = "ok" => Reached(c) = done /\ Len(runTodo[c]) = 0
      BY <2>1 DEF Covered, Reached, Busy
    <3> QED
      BY <2>1, <2>2, <3>1 DEF Covered
  <2>5. ASSUME runPc[c] = "refused"
        PROVE /\ runListed[c][done + 1] \in Secured
              /\ \A n \in 1..done : runListed[c][n] \notin Secured
    <3>1. Reached(c) = done /\ c \in Untrusted /\ runTodo[c][1] \in Secured /\ 1 \in 1..Len(runTodo[c])
      BY <2>1, <2>5 DEF Covered, Reached, Busy
    <3>2. runListed[c][done + 1] = runTodo[c][1]
      BY <2>1, <3>1 DEF Covered
    <3> QED
      BY <2>1, <3>1, <3>2 DEF Covered
  <2>6. c \in Triggers \ Trusted /\ runPc[c] = "ok" => \A n \in 1..done : runListed[c][n] \notin Secured
    BY <2>1, <2>2 DEF Covered, Reached, Busy, Untrusted
  <2> QED
    BY <2>3, <2>4, <2>5, <2>6
<1> QED
  BY <1>1, SpecCoverInv, PTL
-----------------------------------------------------------------------------
(* MCP servers.  Until a run breaks off, every open server is one that the  *)
(* run will close, has failed, refused to close, or is being connected.     *)
Closable == {mcpServers[i] : i \in 1..Len(mcpServers)}

ServersTracked ==
    /\ mcpAt \in Nat /\ mcpServers \in Seq(Nat)
    /\ ~mcpBroken => mcpOpen \subseteq Closable \cup mcpFailed \cup mcpUnclean
                                       \cup (IF Connecting THEN {mcpAt} ELSE {})
    /\ mcpRun = "over" /\ ~mcpBroken => mcpServers = <<>>

\* Before the first server.
LEMMA McpInitInv == McpInit => ServersTracked
BY DEF McpInit, ServersTracked, Closable

\* Every step of the run keeps it.
LEMMA McpStepInv == ServersTracked /\ [McpNext]_mcpVars => ServersTracked'
<1> SUFFICES ASSUME ServersTracked, [McpNext]_mcpVars PROVE ServersTracked'
  OBVIOUS
<1> USE DEF ServersTracked, Closable, Connecting
<1>1. CASE EnterServer
  BY <1>1 DEF EnterServer
<1>2. CASE ServerReady
  BY <1>2 DEF ServerReady
<1>3. CASE ServerFails
  BY <1>3 DEF ServerFails
<1>4. CASE ServersStarted
  BY <1>4 DEF ServersStarted
<1>5. CASE McpTurnBegins
  BY <1>5 DEF McpTurnBegins
<1>6. CASE McpInterrupted
  BY <1>6 DEF McpInterrupted
<1>7. CASE McpTurnEnds
  BY <1>7 DEF McpTurnEnds
<1>8. CASE CloseServer
  BY <1>8 DEF CloseServer, CloseNext
<1>9. CASE CloseInterrupted
  BY <1>9 DEF CloseInterrupted
<1>10. CASE McpClosed
  BY <1>10 DEF McpClosed
<1>11. CASE UNCHANGED mcpVars
  BY <1>11 DEF mcpVars
<1> QED
  BY <1>1, <1>2, <1>3, <1>4, <1>5, <1>6, <1>7, <1>8, <1>9, <1>10, <1>11 DEF McpNext

\* The inductive invariant of the servers of a run.
THEOREM SpecServersTracked == McpSpec => []ServersTracked
BY McpInitInv, McpStepInv, PTL DEF McpSpec

\* A server that outlives its run failed to connect, refused to close, or
\* belongs to a run that broke off outside its protected part.
THEOREM SpecMcpStraysExplained == McpSpec => []McpStraysExplained
<1>1. ServersTracked => McpStraysExplained
  BY DEF ServersTracked, McpStraysExplained, Closable, Connecting
<1> QED
  BY <1>1, SpecServersTracked, PTL
-----------------------------------------------------------------------------
(* Sandboxes.  The call that provisions a user's VM is at the head of the   *)
(* line for the user's lock; a VM on request is the only one, and no cached *)
(* handle stands beside it.                                                 *)
BoxLineOf(c) == boxLine[BoxUserOf[c]]
InLine == {"waiting"} \cup Provisioning

BoxTracked ==
    /\ boxPc \in [FileCalls -> {"new", "waiting", "bound", "read"} \cup Provisioning \cup BoxOver]
    /\ boxLine \in [BoxUsers -> Seq(FileCalls)]
    /\ boxMade \in [BoxUsers -> Nat]
    /\ \A c \in FileCalls : boxPc[c] \in InLine => \E i \in 1..Len(BoxLineOf(c)) : BoxLineOf(c)[i] = c
    /\ \A c \in FileCalls : boxPc[c] \in Provisioning => BoxLineOf(c)[1] = c
    /\ \A c \in FileCalls : boxPc[c] = "creating" =>
          boxMade[BoxUserOf[c]] = 1 /\ BoxUserOf[c] \notin boxCache

BoxInv == BoxTracked /\ ProvisionedOnce

\* Before the first call.
LEMMA BoxInitInv == BoxInit => BoxInv
BY SandboxAssumption DEF BoxInit, BoxInv, BoxTracked, ProvisionedOnce, InLine, Provisioning, BoxOver

LinesKept(c) ==
    /\ boxLine' \in [BoxUsers -> Seq(FileCalls)]
    /\ \A d \in FileCalls \ {c} :
          (\E i \in 1..Len(BoxLineOf(d)) : BoxLineOf(d)[i] = d)
          => /\ \E i \in 1..Len(BoxLineOf(d)') : BoxLineOf(d)'[i] = d
             /\ BoxLineOf(d)[1] = d => BoxLineOf(d)'[1] = d

\* A sequence without its i-th element: the elements before it keep their
\* place, those behind it move one place forward.
CutOut(s, i) == SubSeq(s, 1, i - 1) \o SubSeq(s, i + 1, Len(s))
LEMMA OneOut ==
    ASSUME NEW S, NEW s \in Seq(S), NEW i \in 1..Len(s)
    PROVE  /\ CutOut(s, i) \in Seq(S)
           /\ Len(CutOut(s, i)) = Len(s) - 1
           /\ \A k \in 1..Len(CutOut(s, i)) :
                 CutOut(s, i)[k] = IF k < i THEN s[k] ELSE s[k + 1]
<1> DEFINE r == CutOut(s, i)
           n == Len(s)
           before == SubSeq(s, 1, i - 1)
           after  == SubSeq(s, i + 1, n)
<1>1. n \in Nat /\ i \in Nat /\ 1 <= i /\ i <= n
  OBVIOUS
<1>2. before \in Seq(S) /\ Len(before) = i - 1
  <2>1. \A k \in 1..(i - 1) : s[k] \in S
    BY <1>1
  <2> QED
    BY <2>1, <1>1, SubSeqProperties
<1>3. \A k \in 1..(i - 1) : before[k] = s[k]
  BY <1>1, <1>2, SubSeqProperties
<1>4. after \in Seq(S) /\ Len(after) = n - i
  <2>1. \A k \in (i + 1)..n : s[k] \in S
    BY <1>1
  <2> QED
    BY <2>1, <1>1, SubSeqProperties
<1>5. \A k \in 1..(n - i) : after[k] = s[i + k]
  BY <1>1, <1>4, SubSeqProperties
<1>6. r = before \o after
  BY DEF CutOut
<1> HIDE DEF n, before, after, r
<1>7. r \in Seq(S) /\ Len(r) = n - 1
  <2>1. r \in Seq(S) /\ Len(r) = Len(before) + Len(after)
    BY <1>2, <1>4, <1>6, ConcatProperties
  <2>2. Len(before) + Len(after) = n - 1
    BY <1>1, <1>2, <1>4
  <2> QED
    BY <2>1, <2>2
<1>8. ASSUME NEW k \in 1..(n - 1)
      PROVE r[k] = IF k < i THEN s[k] ELSE s[k + 1]
  <2>1. CASE k < i
    <3>1. /\ k \in 1..(Len(before) + Len(after)) /\ k <= Len(before)
          /\ k \in 1..(i - 1)
      BY <1>1, <1>2, <1>4, <2>1
    <3>2. (before \o after)[k] = before[k]
      BY <1>2, <1>4, <3>1, ConcatProperties
    <3> QED
      BY <1>3, <1>6, <2>1, <3>1, <3>2
  <2>2. CASE ~(k < i)
    <3>1. /\ k \in 1..(Len(before) + Len(after)) /\ ~(k <= Len(before))
          /\ k - Len(before) \in 1..(n - i)
          /\ i + (k - Len(before)) = k + 1
      BY <1>1, <1>2, <1>4, <2>2
    <3>2. (before \o after)[k] = after[k - Len(before)]
      BY <1>2, <1>4, <3>1, ConcatProperties
    <3>3. after[k - Len(before)] = s[k + 1]
      BY <1>5, <3>1
    <3> QED
      BY <1>6, <2>2, <3>2, <3>3
  <2> QED
    BY <2>1, <2>2
<1> QED
  BY <1>7, <1>8 DEF n, r

\* A call leaves its line: the others stay in theirs, and whoever is at the
\* head of one without being the call stays there.
LEMMA LeavesLine ==
    ASSUME NEW c \in FileCalls, BoxLeave(c), boxLine \in [BoxUsers -> Seq(FileCalls)]
    PROVE  LinesKept(c)
<1> USE SandboxAssumption
<1> DEFINE u == BoxUserOf[c]
           line == boxLine[u]
<1>1. u \in BoxUsers /\ line \in Seq(FileCalls)
  OBVIOUS
<1>2. CASE BoxPlaces(c) = {}
  <2>1. boxLine' = boxLine
    BY <1>1, <1>2 DEF BoxLeave
  <2> QED
    BY <2>1 DEF BoxLineOf, LinesKept
<1>3. CASE BoxPlaces(c) # {}
  <2> DEFINE i == CHOOSE j \in BoxPlaces(c) : TRUE
             rest == SubSeq(line, 1, i - 1) \o SubSeq(line, i + 1, Len(line))
  <2>1. i \in 1..Len(line) /\ line[i] = c
    BY <1>3 DEF BoxPlaces
  <2>2. boxLine' = [boxLine EXCEPT ![u] = rest]
    BY <1>1, <1>3 DEF BoxLeave
  <2> HIDE DEF i, u
  <2>3. /\ rest \in Seq(FileCalls)
        /\ Len(rest) = Len(line) - 1
        /\ \A k \in 1..Len(rest) : rest[k] = IF k < i THEN line[k] ELSE line[k + 1]
    <3> HIDE DEF line
    <3>1. line \in Seq(FileCalls) /\ i \in 1..Len(line)
      BY <1>1, <2>1
    <3>2. rest = CutOut(line, i)
      BY DEF CutOut
    <3> HIDE DEF rest
    <3> QED
      BY <3>1, <3>2, OneOut
  <2> HIDE DEF rest, line
  <2>3a. /\ Len(line) \in Nat /\ Len(rest) = Len(line) - 1
        /\ i \in Nat /\ 1 <= i /\ i <= Len(line)
    <3>1. Len(line) \in Nat
      BY <1>1
    <3> QED
      BY <3>1, <2>1, <2>3
  <2>4. boxLine' \in [BoxUsers -> Seq(FileCalls)]
    BY <1>1, <2>2, <2>3
  <2>5. \A d \in FileCalls : (BoxLineOf(d)' = BoxLineOf(d)) \/ (BoxLineOf(d) = line /\ BoxLineOf(d)' = rest)
    BY <1>1, <2>2 DEF BoxLineOf, line
  <2>6. ASSUME NEW k \in 1..Len(line), line[k] # c
        PROVE \E j \in 1..Len(rest) : rest[j] = line[k] /\ (k = 1 => j = 1)
    <3>1. CASE k < i
      <4>1. k \in 1..Len(rest) /\ rest[k] = line[k]
        <5>1. k \in 1..Len(rest)
          BY <3>1, <2>3a
        <5> QED
          BY <3>1, <5>1, <2>3
      <4> QED
        BY <4>1
    <3>2. CASE k > i
      <4>1. k - 1 \in 1..Len(rest) /\ ~(k - 1 < i) /\ k - 1 + 1 = k /\ k # 1
        BY <3>2, <2>3a
      <4> QED
        BY <4>1, <2>3
    <3>3. k # i
      BY <2>1, <2>6
    <3> QED
      BY <3>1, <3>2, <3>3, <2>3a
  <2>7. ASSUME NEW d \in FileCalls, d # c, NEW k \in 1..Len(BoxLineOf(d)), BoxLineOf(d)[k] = d
        PROVE \E j \in 1..Len(BoxLineOf(d)') : BoxLineOf(d)'[j] = d
    BY <2>5, <2>6, <2>7
  <2>8. ASSUME NEW d \in FileCalls, d # c, NEW k \in 1..Len(BoxLineOf(d)), BoxLineOf(d)[1] = d
        PROVE BoxLineOf(d)'[1] = d
    <3>1. CASE BoxLineOf(d)' = BoxLineOf(d)
      BY <3>1, <2>8
    <3>2. CASE BoxLineOf(d) = line /\ BoxLineOf(d)' = rest
      <4>1. 1 \in 1..Len(line) /\ line[1] # c
        BY <3>2, <2>8, <1>1
      <4>2. PICK j \in 1..Len(rest) : rest[j] = line[1] /\ j = 1
        BY <4>1, <2>6
      <4> QED
        BY <4>2, <3>2, <2>8
    <3> QED
      BY <3>1, <3>2, <2>5
  <2> QED
    BY <2>4, <2>7, <2>8 DEF LinesKept
<1> QED
  BY <1>2, <1>3

\* At most one call of a user has a VM on request.
LEMMA OneCreator ==
    ASSUME BoxTracked, NEW c \in FileCalls, NEW d \in FileCalls,
           boxPc[c] = "creating", boxPc[d] = "creating", BoxUserOf[c] = BoxUserOf[d]
    PROVE  c = d
<1>1. BoxLineOf(c)[1] = c /\ BoxLineOf(d)[1] = d
  BY DEF BoxTracked, Provisioning
<1>2. BoxLineOf(c) = BoxLineOf(d)
  BY DEF BoxLineOf
<1> QED
  BY <1>1, <1>2

\* A call that leaves its line, with its VM or without, keeps the invariant.
LEMMA LeftLine ==
    ASSUME BoxInv, NEW c \in FileCalls, LinesKept(c), boxCache' = boxCache,
           NEW how \in {"done", "bound", "error", "cancelled"},
           boxPc' = [boxPc EXCEPT ![c] = how],
           boxMade' = IF boxPc[c] = "creating"
                      THEN [boxMade EXCEPT ![BoxUserOf[c]] = @ - 1] ELSE boxMade
    PROVE  BoxInv'
<1> USE SandboxAssumption DEF BoxInv, BoxTracked, InLine, Provisioning, BoxOver
<1>1. /\ boxPc' \in [FileCalls -> {"new", "waiting", "bound", "read"} \cup Provisioning \cup BoxOver]
      /\ \A d \in FileCalls : boxPc'[d] = IF d = c THEN how ELSE boxPc[d]
  OBVIOUS
<1>2. boxMade' \in [BoxUsers -> Nat]
  <2>1. CASE boxPc[c] = "creating"
    <3>1. boxMade[BoxUserOf[c]] = 1 /\ boxMade[BoxUserOf[c]] - 1 = 0
      BY <2>1
    <3>2. boxMade' = [boxMade EXCEPT ![BoxUserOf[c]] = 0]
      BY <2>1, <3>1
    <3>3. boxMade \in [BoxUsers -> Nat] /\ 0 \in Nat
      OBVIOUS
    <3> HIDE DEF BoxInv
    <3> QED
      BY ONLY <3>2, <3>3
  <2> QED
    BY <2>1
<1>3. ASSUME NEW d \in FileCalls, boxPc'[d] \in InLine
      PROVE /\ \E i \in 1..Len(BoxLineOf(d)') : BoxLineOf(d)'[i] = d
            /\ boxPc'[d] \in Provisioning => BoxLineOf(d)'[1] = d
  <2>1. d \in FileCalls \ {c} /\ boxPc[d] = boxPc'[d]
    BY <1>1, <1>3
  <2>2. /\ \E i \in 1..Len(BoxLineOf(d)) : BoxLineOf(d)[i] = d
        /\ boxPc[d] \in Provisioning => BoxLineOf(d)[1] = d
    BY <2>1, <1>3
  <2> QED
    BY <2>1, <2>2 DEF LinesKept
<1>4. ASSUME NEW d \in FileCalls, boxPc'[d] = "creating"
      PROVE boxMade'[BoxUserOf[d]] = 1 /\ BoxUserOf[d] \notin boxCache'
  <2>1. d # c /\ boxPc[d] = "creating"
    BY <1>1, <1>4
  <2>2. boxPc[c] = "creating" => BoxUserOf[c] # BoxUserOf[d]
    BY <2>1, OneCreator
  <2> QED
    BY <2>1, <2>2
<1>5. BoxTracked'
  <2>1. boxLine' \in [BoxUsers -> Seq(FileCalls)]
    BY DEF LinesKept
  <2> QED
    BY <1>1, <1>2, <1>3, <1>4, <2>1
<1>6. ASSUME NEW u \in BoxUsers
      PROVE /\ boxMade'[u] <= 1
            /\ boxMade'[u] = 1 => \/ u \in boxCache'
                                  \/ \E d \in FileCalls : BoxUserOf[d] = u /\ boxPc'[d] = "creating"
  <2>1. CASE boxPc[c] = "creating" /\ u = BoxUserOf[c]
    BY <2>1
  <2>2. CASE ~(boxPc[c] = "creating" /\ u = BoxUserOf[c])
    <3>1. boxMade'[u] = boxMade[u]
      BY <2>2
    <3>2. \A d \in FileCalls : BoxUserOf[d] = u /\ boxPc[d] = "creating" => boxPc'[d] = "creating"
      BY <2>2, <1>1
    <3> QED
      BY <3>1, <3>2 DEF ProvisionedOnce
  <2> QED
    BY <2>1, <2>2
<1> QED
  BY <1>5, <1>6 DEF ProvisionedOnce

\* Every step of a call and every expiry keeps the invariant.
LEMMA BoxStepInv == BoxInv /\ [BoxNext]_boxVars => BoxInv'
<1> SUFFICES ASSUME BoxInv, [BoxNext]_boxVars PROVE BoxInv'
  OBVIOUS
<1> USE SandboxAssumption DEF BoxInv, BoxTracked, ProvisionedOnce, InLine, Provisioning, BoxOver, BoxGoto
<1>1. ASSUME NEW c \in FileCalls, StartBound(c) PROVE BoxInv'
  BY <1>1 DEF StartBound, BoxLineOf
<1>2. ASSUME NEW c \in FileCalls, StartLazy(c) PROVE BoxInv'
  <2> DEFINE u == BoxUserOf[c]
             line == boxLine[u]
  <2>1. /\ boxPc[c] = "new" /\ boxPc' = [boxPc EXCEPT ![c] = "waiting"]
        /\ boxLine' = [boxLine EXCEPT ![u] = Append(@, c)]
        /\ boxMade' = boxMade /\ boxCache' = boxCache
    BY <1>2 DEF StartLazy
  <2>2. u \in BoxUsers /\ line \in Seq(FileCalls)
    OBVIOUS
  <2>3. /\ Append(line, c) \in Seq(FileCalls)
        /\ Len(Append(line, c)) = Len(line) + 1 /\ Append(line, c)[Len(line) + 1] = c
        /\ \A k \in 1..Len(line) : Append(line, c)[k] = line[k]
    <3> HIDE DEF line
    <3> QED
      BY <2>2
  <2>4. BoxLineOf(c) = line /\ BoxLineOf(c)' = Append(line, c)
    BY <2>1, <2>2 DEF BoxLineOf
  <2>5. \A d \in FileCalls : (BoxLineOf(d)' = BoxLineOf(d))
                           \/ (BoxLineOf(d) = line /\ BoxLineOf(d)' = Append(line, c))
    BY <2>1, <2>2 DEF BoxLineOf
  <2>6. boxLine' \in [BoxUsers -> Seq(FileCalls)] /\ boxPc' \in [FileCalls ->
            {"new", "waiting", "bound", "read"} \cup Provisioning \cup BoxOver]
    BY <2>1, <2>2, <2>3
  <2> HIDE DEF line, u
  <2>7. ASSUME NEW d \in FileCalls, boxPc'[d] \in InLine
        PROVE \E i \in 1..Len(BoxLineOf(d)') : BoxLineOf(d)'[i] = d
    <3>1. CASE d = c
      <4>1. Len(line) + 1 \in 1..Len(Append(line, c))
        BY <2>2, <2>3
      <4> QED
        BY <4>1, <3>1, <2>3, <2>4
    <3>2. CASE d # c
      <4>1. PICK i \in 1..Len(BoxLineOf(d)) : BoxLineOf(d)[i] = d
        BY <3>2, <2>1, <2>7
      <4>2. CASE BoxLineOf(d) = line /\ BoxLineOf(d)' = Append(line, c)
        <5>1. i \in 1..Len(BoxLineOf(d)') /\ BoxLineOf(d)'[i] = d
          BY <4>1, <4>2, <2>2, <2>3
        <5> QED
          BY <5>1
      <4> QED
        BY <4>1, <4>2, <2>5
    <3> QED
      BY <3>1, <3>2
  <2>8. ASSUME NEW d \in FileCalls, boxPc'[d] \in Provisioning
        PROVE BoxLineOf(d)'[1] = d
    <3>1. d # c /\ boxPc[d] \in Provisioning
      BY <2>1, <2>8
    <3>2. PICK i \in 1..Len(BoxLineOf(d)) : BoxLineOf(d)[i] = d
      BY <3>1
    <3>3. BoxLineOf(d)[1] = d
      BY <3>1
    <3>4. CASE BoxLineOf(d) = line /\ BoxLineOf(d)' = Append(line, c)
      <4>1. 1 \in 1..Len(line)
        BY <3>2, <3>4, <2>2
      <4> QED
        BY <4>1, <3>3, <3>4, <2>3
    <3> QED
      BY <3>3, <3>4, <2>5
  <2>9. \A d \in FileCalls : boxPc'[d] = "creating" <=> boxPc[d] = "creating"
    BY <2>1
  <2> QED
    BY <2>1, <2>6, <2>7, <2>8, <2>9
<1>3. ASSUME NEW c \in FileCalls, Provision(c) PROVE BoxInv'
  <2> DEFINE u == BoxUserOf[c]
             how == IF u \in boxCache THEN "mkdir" ELSE "creating"
  <2>1. /\ boxPc[c] = "waiting" /\ boxPc' = [boxPc EXCEPT ![c] = how]
        /\ boxMade' = IF u \in boxCache THEN boxMade ELSE [boxMade EXCEPT ![u] = @ + 1]
        /\ boxLine' = boxLine /\ boxCache' = boxCache
    BY <1>3 DEF Provision
  <2>2. BoxLineOf(c)[1] = c
    <3>1. \E i \in 1..Len(BoxLineOf(c)) : BoxLineOf(c)[i] = c
      BY <2>1
    <3>2. Head(BoxLineOf(c)) = c /\ BoxLineOf(c) \in Seq(FileCalls)
      BY <1>3 DEF Provision, HasLock, BoxLineOf
    <3> QED
      BY <3>1, <3>2
  <2>3. \A d \in FileCalls : BoxLineOf(d)' = BoxLineOf(d)
    BY <2>1 DEF BoxLineOf
  <2>4. ASSUME NEW d \in FileCalls, boxPc[d] = "creating" PROVE BoxUserOf[d] # u
    <3>1. BoxLineOf(d)[1] = d /\ d # c
      BY <2>1, <2>4
    <3> QED
      BY <2>2, <3>1 DEF BoxLineOf
  <2>5. u \in BoxUsers /\ (u \notin boxCache => boxMade[u] = 0)
    BY <2>4
  <2>6. boxPc' \in [FileCalls -> {"new", "waiting", "bound", "read"} \cup Provisioning \cup BoxOver]
    BY <2>1
  <2>7. \A d \in FileCalls : /\ boxPc'[d] \in InLine <=> boxPc[d] \in InLine
                             /\ d # c => boxPc'[d] = boxPc[d]
    BY <2>1
  <2>8. boxPc'[c] = how
    BY <2>1
  <2>9. /\ boxMade' \in [BoxUsers -> Nat]
        /\ \A v \in BoxUsers : boxMade'[v] = IF v = u /\ u \notin boxCache THEN 1 ELSE boxMade[v]
    BY <2>1, <2>5
  <2> HIDE DEF u, how
  <2>3a. \A d \in FileCalls : boxPc'[d] \in Provisioning => BoxLineOf(d)'[1] = d
    BY <2>2, <2>3, <2>7
  <2>11. \A d \in FileCalls : boxPc'[d] = "creating" =>
            boxMade'[BoxUserOf[d]] = 1 /\ BoxUserOf[d] \notin boxCache'
    BY <2>1, <2>4, <2>7, <2>8, <2>9 DEF u, how
  <2>12. BoxTracked'
    <3>1. ASSUME NEW d \in FileCalls, boxPc'[d] \in InLine
          PROVE  \E i \in 1..Len(BoxLineOf(d)') : BoxLineOf(d)'[i] = d
      <4>1. boxPc[d] \in InLine /\ BoxLineOf(d)' = BoxLineOf(d)
        BY <2>3, <2>7, <3>1
      <4>2. \E i \in 1..Len(BoxLineOf(d)) : BoxLineOf(d)[i] = d
        BY <4>1
      <4> HIDE DEF InLine
      <4> QED
        BY ONLY <4>1, <4>2
    <3> QED
      BY <2>1, <2>6, <2>9, <2>3a, <2>11, <3>1
  <2>13. ASSUME NEW v \in BoxUsers
         PROVE  /\ boxMade'[v] <= 1
                /\ boxMade'[v] = 1 => \/ v \in boxCache'
                                     \/ \E d \in FileCalls : BoxUserOf[d] = v /\ boxPc'[d] = "creating"
    <3>1. CASE v = u /\ u \notin boxCache
      BY <2>8, <2>9, <3>1 DEF u, how
    <3>2. CASE ~(v = u /\ u \notin boxCache)
      <4>1. boxMade'[v] = boxMade[v]
        BY <2>9, <3>2
      <4>2. \A d \in FileCalls : boxPc[d] = "creating" => boxPc'[d] = "creating"
        BY <2>1, <2>7
      <4> QED
        BY <2>1, <4>1, <4>2
    <3> QED
      BY <3>1, <3>2
  <2> QED
    BY <2>12, <2>13
<1>4. ASSUME NEW c \in FileCalls, Created(c) PROVE BoxInv'
  <2>1. /\ boxPc[c] = "creating" /\ boxPc' = [boxPc EXCEPT ![c] = "mkdir"]
        /\ boxCache' = boxCache \cup {BoxUserOf[c]} /\ boxLine' = boxLine /\ boxMade' = boxMade
    BY <1>4 DEF Created, BoxGoto
  <2>2. \A d \in FileCalls : BoxLineOf(d)' = BoxLineOf(d)
    BY <2>1 DEF BoxLineOf
  <2>3. \A d \in FileCalls : /\ boxPc'[d] \in InLine <=> boxPc[d] \in InLine
                             /\ boxPc'[d] \in Provisioning <=> boxPc[d] \in Provisioning
    BY <2>1
  <2>4. \A d \in FileCalls : boxPc'[d] = "creating" => d # c /\ boxPc[d] = "creating"
    BY <2>1
  <2>5. \A d \in FileCalls : boxPc'[d] = "creating" => BoxUserOf[d] # BoxUserOf[c]
    <3> SUFFICES ASSUME NEW d \in FileCalls, boxPc'[d] = "creating", BoxUserOf[d] = BoxUserOf[c]
                 PROVE  FALSE
      OBVIOUS
    <3>1. BoxLineOf(d)[1] = d /\ BoxLineOf(c)[1] = c
      BY <2>1, <2>4
    <3> QED
      BY <2>4, <3>1 DEF BoxLineOf
  <2>6. boxPc' \in [FileCalls -> {"new", "waiting", "bound", "read"} \cup Provisioning \cup BoxOver]
    BY <2>1
  <2>7. BoxTracked'
    <3>1. ASSUME NEW d \in FileCalls, boxPc'[d] \in InLine
          PROVE  \E i \in 1..Len(BoxLineOf(d)') : BoxLineOf(d)'[i] = d
      <4>1. boxPc[d] \in InLine /\ BoxLineOf(d)' = BoxLineOf(d)
        BY <2>2, <2>3, <3>1
      <4>2. \E i \in 1..Len(BoxLineOf(d)) : BoxLineOf(d)[i] = d
        BY <4>1
      <4> HIDE DEF InLine, Provisioning
      <4> QED
        BY ONLY <4>1, <4>2
    <3>2. \A d \in FileCalls : boxPc'[d] \in Provisioning => BoxLineOf(d)'[1] = d
      <4> HIDE DEF InLine, Provisioning
      <4> QED
        BY <2>2, <2>3
    <3>3. \A d \in FileCalls : boxPc'[d] = "creating" =>
             boxMade'[BoxUserOf[d]] = 1 /\ BoxUserOf[d] \notin boxCache'
      BY <2>1, <2>4, <2>5
    <3> QED
      BY <2>1, <2>6, <3>1, <3>2, <3>3
  <2>8. ProvisionedOnce'
    BY <2>1, <2>4
  <2> QED
    BY <2>7, <2>8
<1>5. ASSUME NEW c \in FileCalls, NotCreated(c) PROVE BoxInv'
  <2>1. LinesKept(c)
    BY <1>5, LeavesLine DEF NotCreated
  <2> QED
    BY <1>5, <2>1, LeftLine DEF NotCreated
<1>6. ASSUME NEW c \in FileCalls, Bind(c) PROVE BoxInv'
  <2>1. LinesKept(c)
    BY <1>6, LeavesLine DEF Bind
  <2>2. /\ boxPc[c] # "creating" /\ boxMade' = boxMade /\ boxCache' = boxCache
        /\ \E how \in {"done", "bound"} : boxPc' = [boxPc EXCEPT ![c] = how]
    BY <1>6 DEF Bind
  <2> QED
    BY <2>1, <2>2, LeftLine
<1>7. ASSUME NEW c \in FileCalls,
             BoxRead(c) \/ BoxGlob(c) \/ BoxGrep(c) \/ BoxWrite(c) \/ BoxBash(c)
                \/ EditRead(c) \/ EditWrite(c) \/ OnHost(c)
      PROVE BoxInv'
  <2>1. /\ BoxUnchanged
        /\ boxPc[c] \notin InLine
        /\ \E how \in {"done", "error", "read"} : boxPc' = [boxPc EXCEPT ![c] = how]
    BY <1>7 DEF BoxRead, BoxGlob, BoxGrep, Looks, BoxWrite, BoxBash, EditRead, EditWrite, OnHost
  <2> QED
    BY <2>1 DEF BoxUnchanged, BoxLineOf
<1>8. ASSUME NEW c \in FileCalls, CancelCall(c) PROVE BoxInv'
  <2>1. LinesKept(c)
    BY <1>8, LeavesLine DEF CancelCall
  <2> QED
    BY <1>8, <2>1, LeftLine DEF CancelCall
<1>9. ASSUME NEW u \in BoxUsers, HandleExpires(u) PROVE BoxInv'
  BY <1>9 DEF HandleExpires, BoxLineOf
<1>10. CASE UNCHANGED boxVars
  BY <1>10 DEF boxVars, BoxLineOf
<1> QED
  BY <1>1, <1>2, <1>3, <1>4, <1>5, <1>6, <1>7, <1>8, <1>9, <1>10 DEF BoxNext

\* The inductive invariant of the provisioning of sandboxes.
THEOREM SpecBoxInv == BoxSpec => []BoxInv
BY BoxInitInv, BoxStepInv, PTL DEF BoxSpec

\* A user's VM is requested once until its handle expires.
THEOREM SpecProvisionedOnce == BoxSpec => []ProvisionedOnce
<1>1. BoxInv => ProvisionedOnce
  BY DEF BoxInv
<1> QED
  BY <1>1, SpecBoxInv, PTL
-----------------------------------------------------------------------------
(* Edits in a sandbox.  What an edit has read is in the file or accounted   *)
(* for, and between its read and its write the file has gained nothing that *)
(* is not: so nothing leaves the file unaccounted for when it is written.   *)
FileOf(c) == boxFile[BoxUserOf[c]]

FilesTyped ==
    /\ boxPc \in [FileCalls -> {"new", "waiting", "bound", "read"} \cup Provisioning \cup BoxOver]
    /\ boxFile \in [BoxUsers -> SUBSET FileCalls]
    /\ boxSeen \in [FileCalls -> SUBSET FileCalls]
    /\ boxTogether \subseteq FileCalls

ReadsAccounted ==
    /\ \A c \in FileCalls : boxSeen[c] \subseteq FileOf(c) \cup boxTogether
    /\ \A c \in FileCalls : boxPc[c] = "read" => FileOf(c) \subseteq boxSeen[c] \cup boxTogether

BoxEdits == FilesTyped /\ ReadsAccounted /\ EditsLostOnlyTogether

\* Before the first call.
LEMMA InitBoxEdits == BoxInit => BoxEdits
<1> SUFFICES ASSUME BoxInit PROVE BoxEdits
  OBVIOUS
<1>1. FilesTyped
  <2>1. boxPc \in [FileCalls -> {"new", "cancelled"}]
    BY DEF BoxInit
  <2>2. boxFile \in [BoxUsers -> SUBSET FileCalls] /\ boxTogether \subseteq FileCalls
    BY DEF BoxInit
  <2>3. boxSeen \in [FileCalls -> SUBSET FileCalls]
    BY DEF BoxInit
  <2> QED
    BY <2>1, <2>2, <2>3 DEF FilesTyped, BoxOver
<1>2. \A c \in FileCalls : boxPc[c] \in {"new", "cancelled"} /\ boxSeen[c] = {}
  BY DEF BoxInit
<1> QED
  BY <1>1, <1>2 DEF BoxEdits, ReadsAccounted, EditsLostOnlyTogether

\* A call that moves on without touching the file.
LEMMA QuietBoxEdits ==
    ASSUME BoxEdits, NEW c \in FileCalls, NoChange, boxSeen' = boxSeen,
           NEW how \in {"waiting", "bound"} \cup Provisioning \cup BoxOver,
           boxPc' = [boxPc EXCEPT ![c] = how],
           how = "done" => CallKind[c] # "edit"
    PROVE  BoxEdits'
<1>1. FilesTyped'
  BY DEF BoxEdits, FilesTyped, NoChange
<1>2. \A d \in FileCalls : FileOf(d)' = FileOf(d) /\ (d # c => boxPc'[d] = boxPc[d])
  BY DEF FileOf, NoChange, BoxEdits, FilesTyped
<1>3. boxPc'[c] = how /\ how # "read"
  BY DEF BoxEdits, FilesTyped, Provisioning, BoxOver
<1>4. ReadsAccounted'
  BY <1>2, <1>3 DEF BoxEdits, ReadsAccounted, NoChange
<1>5. EditsLostOnlyTogether'
  BY <1>2, <1>3 DEF BoxEdits, EditsLostOnlyTogether, FileOf, NoChange
<1> QED
  BY <1>1, <1>4, <1>5 DEF BoxEdits

\* A call that changes the file and is over: it replaces the whole file, adds
\* to it, or writes what it had read with its replacement.
LEMMA ChangeBoxEdits ==
    ASSUME BoxEdits, NEW c \in FileCalls, NEW content, Change(c, content), boxSeen' = boxSeen,
           \/ CallKind[c] \in {"write", "shell"} /\ content = {c}
           \/ content = FileOf(c) \cup {c}
           \/ boxPc[c] = "read" /\ content = boxSeen[c] \cup {c},
           NEW how \in BoxOver, boxPc' = [boxPc EXCEPT ![c] = how]
    PROVE  BoxEdits'
<1> USE SandboxAssumption
<1>1. /\ c \in content /\ content \in SUBSET FileCalls
      /\ boxTogether \subseteq boxTogether'
      /\ FileOf(c)' = content
      /\ \A d \in FileCalls : BoxUserOf[d] # BoxUserOf[c] => FileOf(d)' = FileOf(d)
      /\ \A d \in FileCalls : BoxUserOf[d] = BoxUserOf[c] => FileOf(d)' = content /\ FileOf(d) = FileOf(c)
  BY DEF Change, FileOf, BoxEdits, FilesTyped
<1>2. FilesTyped'
  <2>1. boxPc' \in [FileCalls -> {"new", "waiting", "bound", "read"} \cup Provisioning \cup BoxOver]
    BY DEF BoxEdits, FilesTyped
  <2>2. boxFile' \in [BoxUsers -> SUBSET FileCalls]
    BY <1>1 DEF BoxEdits, FilesTyped, Change
  <2>3. FileOf(c) \subseteq FileCalls /\ boxTogether \subseteq FileCalls
    BY DEF BoxEdits, FilesTyped, FileOf
  <2>4. boxTogether' \subseteq FileCalls
    BY <2>3 DEF Change, FileOf
  <2> QED
    BY <2>1, <2>2, <2>4 DEF BoxEdits, FilesTyped, Provisioning, BoxOver
<1>3. FileOf(c) \subseteq content \cup boxTogether'
  <2>1. CASE CallKind[c] \in {"write", "shell"}
    BY <2>1 DEF Change, FileOf
  <2>2. CASE content = FileOf(c) \cup {c}
    BY <2>2
  <2>3. CASE boxPc[c] = "read" /\ content = boxSeen[c] \cup {c}
    BY <2>3, <1>1 DEF BoxEdits, ReadsAccounted
  <2> QED
    BY <2>1, <2>2, <2>3
<1>4. content \subseteq FileOf(c) \cup boxTogether \cup {c}
  BY DEF BoxEdits, ReadsAccounted
<1>5. \A d \in FileCalls : d # c => boxPc'[d] = boxPc[d]
  BY DEF BoxEdits, FilesTyped
<1>6. boxPc'[c] = how /\ how # "read"
  BY DEF BoxEdits, FilesTyped, BoxOver
<1>7. \A d \in FileCalls : FileOf(d) \subseteq FileOf(d)' \cup boxTogether'
  BY <1>1, <1>3
<1>8. ReadsAccounted'
  <2>1. ASSUME NEW d \in FileCalls PROVE boxSeen'[d] \subseteq FileOf(d)' \cup boxTogether'
    BY <1>1, <1>7 DEF BoxEdits, ReadsAccounted
  <2>2. ASSUME NEW d \in FileCalls, boxPc'[d] = "read"
        PROVE FileOf(d)' \subseteq boxSeen'[d] \cup boxTogether'
    <3>1. d # c /\ boxPc[d] = "read" /\ FileOf(d) \subseteq boxSeen[d] \cup boxTogether
      BY <1>5, <1>6, <2>2 DEF BoxEdits, ReadsAccounted
    <3>2. CASE BoxUserOf[d] # BoxUserOf[c]
      BY <1>1, <3>1, <3>2
    <3>3. CASE BoxUserOf[d] = BoxUserOf[c]
      <4>1. c \in boxTogether'
        BY <3>1, <3>3 DEF Change, BetweenReadAndWrite
      <4> QED
        BY <1>1, <1>4, <3>1, <3>3, <4>1
    <3> QED
      BY <3>2, <3>3
  <2> QED
    BY <2>1, <2>2 DEF ReadsAccounted
<1>9. EditsLostOnlyTogether'
  <2> SUFFICES ASSUME NEW d \in FileCalls, boxPc'[d] = "done", CallKind[d] = "edit"
               PROVE d \in FileOf(d)' \/ d \in boxTogether'
    BY DEF EditsLostOnlyTogether, FileOf
  <2>1. CASE d = c
    BY <1>1, <2>1
  <2>2. CASE d # c
    <3>1. d \in FileOf(d) \/ d \in boxTogether
      BY <1>5, <2>2 DEF BoxEdits, EditsLostOnlyTogether, FileOf
    <3> QED
      BY <1>1, <1>7, <3>1
  <2> QED
    BY <2>1, <2>2
<1> QED
  BY <1>2, <1>8, <1>9 DEF BoxEdits

\* An edit reads the file.
LEMMA ReadBoxEdits == ASSUME BoxEdits, NEW c \in FileCalls, EditRead(c) PROVE BoxEdits'
<1>1. CASE BoxGoto(c, "error") /\ UNCHANGED boxSeen
  BY <1>1, QuietBoxEdits DEF EditRead, BoxGoto, BoxOver
<1>2. CASE BoxGoto(c, "read") /\ boxSeen' = [boxSeen EXCEPT ![c] = boxFile[BoxUserOf[c]]]
  <2>0. /\ boxPc' = [boxPc EXCEPT ![c] = "read"] /\ boxSeen' = [boxSeen EXCEPT ![c] = FileOf(c)]
        /\ boxFile' = boxFile /\ boxTogether' = boxTogether
        /\ FileOf(c) \in SUBSET FileCalls
    BY <1>2, SandboxAssumption DEF BoxEdits, FilesTyped, EditRead, NoChange, BoxGoto, FileOf
  <2>1. /\ FilesTyped'
        /\ boxSeen'[c] = FileOf(c) /\ boxPc'[c] = "read" /\ boxTogether' = boxTogether
        /\ \A d \in FileCalls : FileOf(d)' = FileOf(d)
        /\ \A d \in FileCalls : d # c => boxPc'[d] = boxPc[d] /\ boxSeen'[d] = boxSeen[d]
    <3>1. FilesTyped'
      BY <2>0 DEF BoxEdits, FilesTyped
    <3>2. \A d \in FileCalls : FileOf(d)' = FileOf(d)
      BY <2>0 DEF FileOf
    <3> HIDE DEF FileOf
    <3> QED
      BY <2>0, <3>1, <3>2 DEF BoxEdits, FilesTyped
  <2>2. ReadsAccounted'
    BY <2>1 DEF BoxEdits, ReadsAccounted
  <2>3. EditsLostOnlyTogether'
    BY <2>1 DEF BoxEdits, EditsLostOnlyTogether, FileOf
  <2> QED
    BY <2>1, <2>2, <2>3 DEF BoxEdits
<1> QED
  BY <1>1, <1>2 DEF EditRead

\* Every step.
LEMMA BoxEditsStep == BoxEdits /\ [BoxNext]_boxVars => BoxEdits'
<1> SUFFICES ASSUME BoxEdits, [BoxNext]_boxVars PROVE BoxEdits'
  OBVIOUS
<1>1. ASSUME NEW c \in FileCalls,
             StartBound(c) \/ StartLazy(c) \/ Provision(c) \/ Created(c) \/ NotCreated(c) \/ Bind(c)
      PROVE BoxEdits'
  <2>1. PICK how \in {"waiting", "bound", "creating", "mkdir", "done", "error"} :
               boxPc' = [boxPc EXCEPT ![c] = how] /\ (how = "done" => CallKind[c] = "warm")
    BY <1>1 DEF StartBound, StartLazy, Provision, Created, NotCreated, Bind, BoxGoto
  <2>2. NoChange /\ boxSeen' = boxSeen
    BY <1>1 DEF StartBound, StartLazy, Provision, Created, NotCreated, Bind, NoChange
  <2> QED
    BY <2>1, <2>2, QuietBoxEdits DEF Provisioning, BoxOver
<1>2. ASSUME NEW c \in FileCalls, BoxRead(c) \/ BoxGlob(c) \/ BoxGrep(c) PROVE BoxEdits'
  <2>1. PICK how \in {"done", "error"} : boxPc' = [boxPc EXCEPT ![c] = how]
    BY <1>2 DEF BoxRead, BoxGlob, BoxGrep, Looks, BoxGoto
  <2>2. NoChange /\ boxSeen' = boxSeen /\ CallKind[c] # "edit"
    BY <1>2 DEF BoxRead, BoxGlob, BoxGrep, Looks
  <2> QED
    BY <2>1, <2>2, QuietBoxEdits DEF BoxOver
<1>3. ASSUME NEW c \in FileCalls, BoxWrite(c) \/ BoxBash(c) PROVE BoxEdits'
  <2>1. PICK how \in {"done", "error"} : boxPc' = [boxPc EXCEPT ![c] = how]
    BY <1>3 DEF BoxWrite, BoxBash, BoxGoto
  <2>2. boxSeen' = boxSeen /\ CallKind[c] \in {"write", "shell"} /\ (NoChange \/ Change(c, {c}))
    BY <1>3 DEF BoxWrite, BoxBash
  <2> QED
    BY <2>1, <2>2, QuietBoxEdits, ChangeBoxEdits DEF BoxOver
<1>4. ASSUME NEW c \in FileCalls, EditWrite(c) PROVE BoxEdits'
  <2>1. CASE BoxGoto(c, "error") /\ NoChange
    BY <1>4, <2>1, QuietBoxEdits DEF EditWrite, BoxGoto, BoxOver
  <2>2. CASE Change(c, Replaced(c))
    <3>1. PICK how \in {"done", "error"} : boxPc' = [boxPc EXCEPT ![c] = how]
      BY <1>4 DEF EditWrite, BoxGoto
    <3>2. boxSeen' = boxSeen /\ boxPc[c] = "read" /\ Change(c, boxSeen[c] \cup {c})
      BY <1>4, <2>2 DEF EditWrite, Replaced
    <3> QED
      BY <3>1, <3>2, ChangeBoxEdits DEF BoxOver
  <2> QED
    BY <1>4, <2>1, <2>2 DEF EditWrite
<1>5. ASSUME NEW c \in FileCalls, OnHost(c) PROVE BoxEdits'
  <2>1. boxSeen' = boxSeen /\ boxPc' = [boxPc EXCEPT ![c] = "done"] /\ "done" \in BoxOver
    BY <1>5 DEF OnHost, BoxGoto, BoxOver
  <2>2. \/ CallKind[c] = "edit" /\ Change(c, FileOf(c) \cup {c})
        \/ CallKind[c] \in {"write", "shell"} /\ (Change(c, {c}) \/ NoChange)
        \/ CallKind[c] \notin {"edit", "write", "shell"} /\ NoChange
    BY <1>5 DEF OnHost, FileOf
  <2> QED
    BY <2>1, <2>2, QuietBoxEdits, ChangeBoxEdits
<1>6. ASSUME NEW c \in FileCalls, CancelCall(c) PROVE BoxEdits'
  <2>1. boxSeen' = boxSeen /\ boxPc' = [boxPc EXCEPT ![c] = "cancelled"] /\ "cancelled" \in BoxOver
    BY <1>6 DEF CancelCall, BoxGoto, BoxOver
  <2>2. \/ NoChange
        \/ boxPc[c] = "read" /\ Change(c, boxSeen[c] \cup {c})
        \/ CallKind[c] \in {"write", "shell"} /\ Change(c, {c})
    BY <1>6 DEF CancelCall, Replaced
  <2> QED
    BY <2>1, <2>2, QuietBoxEdits, ChangeBoxEdits
<1>7. CASE (\E u \in BoxUsers : HandleExpires(u)) \/ UNCHANGED boxVars
  <2>1. UNCHANGED <<boxPc, boxFile, boxSeen, boxTogether>>
    BY <1>7 DEF HandleExpires, boxVars
  <2> QED
    BY <2>1 DEF BoxEdits, FilesTyped, ReadsAccounted, EditsLostOnlyTogether, FileOf
<1> QED
  BY <1>1, <1>2, <1>3, <1>4, <1>5, <1>6, <1>7, ReadBoxEdits DEF BoxNext

\* An edit that was reported as made is in the file unless the whole file was
\* replaced after it or another edit was between its read and its write, for
\* any number of users and parallel calls cancelled at any moment.
THEOREM SpecEditsLostOnlyTogether == BoxSpec => []EditsLostOnlyTogether
<1>1. BoxEdits => EditsLostOnlyTogether
  BY DEF BoxEdits
<1> QED
  BY <1>1, InitBoxEdits, BoxEditsStep, PTL DEF BoxSpec
-----------------------------------------------------------------------------
(* The rate limiter.  A worker's list holds admitted requests of the key   *)
(* alone, and all of those whose window is not over; a counter of Redis is *)
(* never behind the requests that were admitted by it.                     *)
Memory(w, k) == {r \in Admitted("memory", k) : rateAnswer[r].worker = w}
Stretch(w, k, t) == {r \in Memory(w, k) : rateAnswer[r].at \in t..(t + RateWindow)}
CountedIn(k, b) == {r \in Admitted("redis", k) : rateAnswer[r].at \div RateWindow = b}

AtMost(S, n) == IsFiniteSet(S) /\ Cardinality(S) <= n

AnswersTyped ==
    /\ rateAnswer \in [RateReqs -> Answers \cup {NotYet}]
    /\ rateNow \in 0..MaxRateNow
    /\ DOMAIN hits = RateWorkers
    /\ \A b \in DOMAIN redisHits : redisHits[b] \in Nat
    /\ \A r \in RateReqs : rateAnswer[r] # NotYet => rateAnswer[r].at <= rateNow

ListsRemember ==
    \A w \in RateWorkers, k \in RateKeys :
        /\ k \in DOMAIN hits[w] => IsFiniteSet(hits[w][k]) /\ hits[w][k] \subseteq Memory(w, k)
        /\ \A r \in Memory(w, k) :
              rateAnswer[r].at + RateWindow >= rateNow => k \in DOMAIN hits[w] /\ r \in hits[w][k]

StretchesHold ==
    \A w \in RateWorkers, k \in RateKeys, t \in 0..MaxRateNow : AtMost(Stretch(w, k, t), RateLimit)

CountersHold ==
    \A k \in RateKeys, b \in 0..MaxRateNow :
        AtMost(CountedIn(k, b), RateLimit) /\ AtMost(CountedIn(k, b), Entry(redisHits, <<k, b>>, 0))

RateInv == AnswersTyped /\ ListsRemember /\ StretchesHold /\ CountersHold

LEMMA InitRateInv == RateInit => RateInv
<1> SUFFICES ASSUME RateInit PROVE RateInv
  OBVIOUS
<1>1. \A w, k : Memory(w, k) = {}
  BY DEF RateInit, Memory, Admitted, NotYet
<1>2. \A w, k, t : Stretch(w, k, t) = {}
  BY <1>1 DEF Stretch
<1>3. \A k, b : CountedIn(k, b) = {}
  BY DEF RateInit, CountedIn, Admitted, NotYet
<1>4. \A k, b : Entry(redisHits, <<k, b>>, 0) = 0
  BY DEF RateInit, Entry
<1>5. AnswersTyped
  BY RateAssumption DEF RateInit, AnswersTyped
<1>6. ListsRemember
  BY <1>1 DEF RateInit, ListsRemember
<1>7. \A n \in Nat : AtMost({}, n)
  BY FS_EmptySet DEF AtMost
<1>8. StretchesHold /\ CountersHold
  BY <1>2, <1>3, <1>4, <1>7, RateAssumption DEF StretchesHold, CountersHold
<1> QED
  BY <1>5, <1>6, <1>8 DEF RateInv

\* The key of a request is never another one's later.
LEMMA KeysStay == (\A r \in RateReqs : RateKey(r)' = RateKey(r)) /\ RateKeys' = RateKeys
BY DEF RateKey, RateKeys, ClientIp

\* An answer adds the request to those its limiter admitted, or to none.
LEMMA SayAdds ==
    ASSUME AnswersTyped, NEW r \in RateReqs, rateAnswer[r] = NotYet, NEW w \in RateWorkers,
           NEW ok \in BOOLEAN, NEW by \in {"memory", "redis"}, Say(r, w, ok, by)
    PROVE  /\ rateAnswer' \in [RateReqs -> Answers \cup {NotYet}]
           /\ rateAnswer'[r] # NotYet /\ rateAnswer'[r].at = rateNow
           /\ \A q \in RateReqs \ {r} : rateAnswer'[q] = rateAnswer[q]
           /\ \A v, k : r \notin Memory(v, k)
           /\ \A k, b : r \notin CountedIn(k, b)
           /\ \A v, k : Memory(v, k)' =
                 IF by = "memory" /\ ok /\ v = w /\ k = RateKey(r) THEN Memory(v, k) \cup {r}
                 ELSE Memory(v, k)
           /\ \A k, b : CountedIn(k, b)' =
                 IF by = "redis" /\ ok /\ k = RateKey(r) /\ b = rateNow \div RateWindow
                 THEN CountedIn(k, b) \cup {r} ELSE CountedIn(k, b)
<1> DEFINE answer == [admitted |-> ok, by |-> by, at |-> rateNow, worker |-> w]
<1>1. rateAnswer' = [rateAnswer EXCEPT ![r] = answer]
  BY DEF Say
<1>2. /\ answer \in Answers /\ answer.at = rateNow /\ answer.by = by /\ answer.worker = w
      /\ answer.admitted = ok
  BY DEF AnswersTyped, Answers
<1>3. NotYet.by = "none" /\ answer # NotYet
  BY <1>2 DEF NotYet
<1> HIDE DEF answer
<1>4. /\ rateAnswer' \in [RateReqs -> Answers \cup {NotYet}] /\ rateAnswer'[r] = answer
      /\ \A q \in RateReqs \ {r} : rateAnswer'[q] = rateAnswer[q]
  BY <1>1, <1>2 DEF AnswersTyped
<1>5. ASSUME NEW limiter \in {"memory", "redis"}, NEW k
      PROVE  /\ r \notin Admitted(limiter, k)
             /\ Admitted(limiter, k)' = IF by = limiter /\ ok /\ k = RateKey(r)
                                        THEN Admitted(limiter, k) \cup {r} ELSE Admitted(limiter, k)
  <2>1. r \notin Admitted(limiter, k)
    BY <1>3 DEF Admitted
  <2>2. Admitted(limiter, k)' = {q \in RateReqs : /\ rateAnswer'[q].by = limiter /\ RateKey(q) = k
                                                  /\ rateAnswer'[q].admitted}
    BY KeysStay DEF Admitted
  <2>3. \A q \in RateReqs \ {r} : q \in Admitted(limiter, k)' <=> q \in Admitted(limiter, k)
    BY <1>4, <2>2 DEF Admitted
  <2>4. r \in Admitted(limiter, k)' <=> by = limiter /\ ok /\ k = RateKey(r)
    BY <1>2, <1>4, <2>2
  <2>5. Admitted(limiter, k) \subseteq RateReqs /\ Admitted(limiter, k)' \subseteq RateReqs
    BY <2>2 DEF Admitted
  <2> QED BY <2>1, <2>3, <2>4, <2>5
<1>6. ASSUME NEW v, NEW k
      PROVE  Memory(v, k)' = IF by = "memory" /\ ok /\ v = w /\ k = RateKey(r)
                             THEN Memory(v, k) \cup {r} ELSE Memory(v, k)
  <2>1. Memory(v, k)' = {q \in Admitted("memory", k)' : rateAnswer'[q].worker = v}
    BY DEF Memory
  <2>2. \A q \in Admitted("memory", k) : q \in RateReqs \ {r}
    BY <1>5 DEF Admitted
  <2> QED BY <1>2, <1>4, <1>5, <2>1, <2>2 DEF Memory
<1>7. ASSUME NEW k, NEW b
      PROVE  CountedIn(k, b)' = IF by = "redis" /\ ok /\ k = RateKey(r) /\ b = rateNow \div RateWindow
                            THEN CountedIn(k, b) \cup {r} ELSE CountedIn(k, b)
  <2>1. CountedIn(k, b)' = {q \in Admitted("redis", k)' : rateAnswer'[q].at \div RateWindow = b}
    BY DEF CountedIn
  <2>2. \A q \in Admitted("redis", k) : q \in RateReqs \ {r}
    BY <1>5 DEF Admitted
  <2>3. rateAnswer'[r].at \div RateWindow = rateNow \div RateWindow
    BY <1>2, <1>4
  <2> QED BY <1>4, <1>5, <2>1, <2>2, <2>3 DEF CountedIn
<1> QED
  BY <1>2, <1>3, <1>4, <1>5, <1>6, <1>7 DEF Memory, CountedIn

\* What the list of a worker still holds of a key is finite, and it is what the
\* worker admitted of that key in the window that ends now.
LEMMA AskedFacts ==
    ASSUME RateInv, NEW w \in RateWorkers, NEW k \in RateKeys
    PROVE  LET asked == Recent(Entry(hits[w], k, {}))
           IN /\ IsFiniteSet(asked) /\ asked \subseteq Memory(w, k)
              /\ \A q \in Memory(w, k) : rateAnswer[q].at + RateWindow >= rateNow => q \in asked
<1> DEFINE held == Entry(hits[w], k, {})
           asked == Recent(held)
<1>1. asked \subseteq held
  BY DEF Recent
<1>2. IsFiniteSet(held) /\ held \subseteq Memory(w, k)
  <2>1. CASE k \in DOMAIN hits[w]
    BY <2>1 DEF RateInv, ListsRemember, Entry
  <2>2. CASE k \notin DOMAIN hits[w]
    BY <2>2, FS_EmptySet DEF Entry
  <2> QED BY <2>1, <2>2
<1>3. IsFiniteSet(asked)
  BY <1>1, <1>2, FS_Subset
<1>4. \A q \in Memory(w, k) : rateAnswer[q].at + RateWindow >= rateNow => q \in asked
  BY DEF RateInv, ListsRemember, Entry, Recent
<1> QED BY <1>1, <1>2, <1>3, <1>4

\* A counter that is only increased, or left alone.
CountersGrow ==
    /\ \A b \in DOMAIN redisHits' : redisHits'[b] \in Nat
    /\ \A b : Entry(redisHits', b, 0) >= Entry(redisHits, b, 0)

\* A bound that grows still bounds.
LEMMA AtMostGrows ==
    ASSUME NEW S, NEW m \in Nat, NEW n \in Nat, m <= n, AtMost(S, m)
    PROVE  AtMost(S, n)
BY FS_CardinalityType DEF AtMost

\* One more element than a set that is smaller than the bound.
LEMMA OneMore ==
    ASSUME NEW S, NEW T, NEW x, NEW n \in Nat, IsFiniteSet(T), Cardinality(T) < n, S \subseteq T
    PROVE  AtMost(S \cup {x}, n)
<1>1. IsFiniteSet(S) /\ Cardinality(S) <= Cardinality(T)
  BY FS_Subset
<1>2. Cardinality(S) \in Nat /\ Cardinality(T) \in Nat
  BY <1>1, FS_CardinalityType
<1>3. /\ IsFiniteSet(S \cup {x})
      /\ Cardinality(S \cup {x}) = IF x \in S THEN Cardinality(S) ELSE Cardinality(S) + 1
  BY <1>1, FS_AddElement
<1> QED
  BY <1>1, <1>2, <1>3 DEF AtMost

\* The same of the set itself.
LEMMA OneElementMore ==
    ASSUME NEW S, NEW x, NEW n \in Nat, IsFiniteSet(S), Cardinality(S) < n
    PROVE  AtMost(S \cup {x}, n)
<1> DEFINE T == S \cup {}
<1>1. IsFiniteSet(T) /\ Cardinality(T) < n /\ S \subseteq T
  <2>1. T = S
    OBVIOUS
  <2> QED BY <2>1
<1> HIDE DEF T
<1> QED BY <1>1, OneMore

\* A count is a number, none when there is no counter.
LEMMA EntriesAreCounts ==
    ASSUME AnswersTyped, NEW b
    PROVE  Entry(redisHits, b, 0) \in Nat
BY DEF AnswersTyped, Entry

\* The list of the process decides: whatever of a stretch it admitted is among
\* what it still holds, so that a full stretch refuses the request.
LEMMA MemoryKeepsRate ==
    ASSUME RateInv, NEW r \in RateReqs, rateAnswer[r] = NotYet, NEW w \in RateWorkers,
           EnforceInMemory(r, w), CountersGrow, UNCHANGED rateNow
    PROVE  RateInv'
<1> USE RateAssumption
<1> DEFINE key == RateKey(r)
           asked == Recent(Entry(hits[w], key, {}))
           ok == Cardinality(asked) < RateLimit
           next == IF ok THEN asked \cup {r} ELSE asked
<1>1. Say(r, w, ok, "memory") /\ hits' = [hits EXCEPT ![w] = Record(@, key, next)]
  BY DEF EnforceInMemory
<1>2. key \in RateKeys /\ AnswersTyped
  BY DEF RateKeys, RateInv
<1>3. /\ IsFiniteSet(asked) /\ asked \subseteq Memory(w, key)
      /\ \A q \in Memory(w, key) : rateAnswer[q].at + RateWindow >= rateNow => q \in asked
  BY <1>2, AskedFacts
<1>4. ok \in BOOLEAN
  OBVIOUS
<1>9. IsFiniteSet(next) /\ next \subseteq asked \cup {r} /\ (next = asked \/ ok)
  BY <1>3, FS_AddElement
<1> HIDE DEF next, asked, ok
<1>5. /\ rateAnswer' \in [RateReqs -> Answers \cup {NotYet}]
      /\ rateAnswer'[r].at = rateNow
      /\ \A q \in RateReqs \ {r} : rateAnswer'[q] = rateAnswer[q]
      /\ \A v, k : r \notin Memory(v, k)
      /\ \A v, k : Memory(v, k)' = IF ok /\ v = w /\ k = key THEN Memory(v, k) \cup {r}
                                   ELSE Memory(v, k)
      /\ \A k, b : CountedIn(k, b)' = CountedIn(k, b)
  BY <1>1, <1>2, <1>4, SayAdds
<1>6. \A v, k : Memory(v, k) \subseteq RateReqs \ {r}
  BY <1>5 DEF Memory, Admitted
<1>7. \A v, k : \A q \in Memory(v, k) : /\ rateAnswer'[q] = rateAnswer[q]
                                        /\ rateAnswer[q].at \in Nat /\ rateAnswer[q].at <= rateNow
  BY <1>2, <1>5, <1>6 DEF AnswersTyped, Memory, Admitted, Answers, NotYet
<1>8. rateNow \in Nat /\ rateNow' = rateNow /\ DOMAIN hits = RateWorkers
  BY <1>2 DEF AnswersTyped
<1>14. next \subseteq Memory(w, key)'
  BY <1>3, <1>5 DEF next
<1>10. AnswersTyped'
  <2>1. rateNow' \in 0..MaxRateNow /\ DOMAIN hits' = RateWorkers
    BY <1>1, <1>2 DEF AnswersTyped
  <2>2. \A q \in RateReqs : rateAnswer'[q] # NotYet => rateAnswer'[q].at <= rateNow'
    BY <1>2, <1>5, <1>8 DEF AnswersTyped
  <2> QED
    BY <1>5, <2>1, <2>2 DEF AnswersTyped, CountersGrow, Answers, NotYet
<1>11. ASSUME NEW v \in RateWorkers, NEW k \in RateKeys
       PROVE  /\ k \in DOMAIN hits'[v] => IsFiniteSet(hits'[v][k]) /\ hits'[v][k] \subseteq Memory(v, k)'
              /\ \A q \in Memory(v, k)' :
                    rateAnswer'[q].at + RateWindow >= rateNow' => k \in DOMAIN hits'[v] /\ q \in hits'[v][k]
  <2>1. CASE v = w /\ k = key
    <3>1. k \in DOMAIN hits'[v] /\ hits'[v][k] = next
      BY <1>1, <1>8, <2>1 DEF Record
    <3>2. ASSUME NEW q \in Memory(v, k)', rateAnswer'[q].at + RateWindow >= rateNow'
          PROVE  q \in next
      <4>1. CASE q = r
        BY <1>5, <1>6, <2>1, <4>1 DEF next
      <4>2. CASE q # r
        <5>1. q \in Memory(w, key)
          BY <1>5, <2>1, <4>2
        <5> QED BY <1>3, <1>7, <1>8, <3>2, <5>1 DEF next
      <4> QED BY <4>1, <4>2
    <3> QED BY <1>9, <1>14, <2>1, <3>1, <3>2
  <2>2. CASE ~(v = w /\ k = key)
    <3>1. /\ k \in DOMAIN hits'[v] <=> k \in DOMAIN hits[v]
          /\ k \in DOMAIN hits[v] => hits'[v][k] = hits[v][k]
      BY <1>1, <1>8, <2>2 DEF Record
    <3>2. Memory(v, k)' = Memory(v, k)
      BY <1>5, <2>2
    <3> QED BY <1>7, <1>8, <3>1, <3>2 DEF RateInv, ListsRemember
  <2> QED BY <2>1, <2>2
<1>12. ASSUME NEW v \in RateWorkers, NEW k \in RateKeys, NEW t \in 0..MaxRateNow
       PROVE  AtMost(Stretch(v, k, t)', RateLimit)
  <2>1. Stretch(v, k, t)' = {q \in Memory(v, k)' : rateAnswer'[q].at \in t..(t + RateWindow)}
    BY DEF Stretch
  <2>2. AtMost(Stretch(v, k, t), RateLimit)
    BY DEF RateInv, StretchesHold
  <2>3. CASE ok /\ v = w /\ k = key /\ rateNow \in t..(t + RateWindow)
    <3>1. Stretch(v, k, t)' = Stretch(v, k, t) \cup {r}
      BY <1>5, <1>7, <2>1, <2>3 DEF Stretch
    <3>2. Stretch(v, k, t) \subseteq asked
      <4> SUFFICES ASSUME NEW q \in Memory(w, key), rateAnswer[q].at \in t..(t + RateWindow)
                   PROVE  rateAnswer[q].at + RateWindow >= rateNow
        BY <1>3, <2>3 DEF Stretch
      <4> QED BY <1>7, <1>8, <2>3
    <3>3. Cardinality(asked) < RateLimit /\ RateLimit \in Nat
      BY <2>3 DEF ok
    <3>4. AtMost(Stretch(v, k, t) \cup {r}, RateLimit)
      BY <1>3, <3>2, <3>3, OneMore
    <3> QED BY <3>1, <3>4
  <2>4. CASE ~(ok /\ v = w /\ k = key /\ rateNow \in t..(t + RateWindow))
    <3>1. Stretch(v, k, t)' = Stretch(v, k, t)
      <4>1. Memory(v, k)' = Memory(v, k) \/ (Memory(v, k)' = Memory(v, k) \cup {r} /\ rateNow \notin t..(t + RateWindow))
        BY <1>5, <2>4
      <4> QED BY <1>5, <1>7, <2>1, <4>1 DEF Stretch
    <3> QED BY <2>2, <3>1
  <2> QED BY <2>3, <2>4
<1>13. ASSUME NEW k \in RateKeys, NEW b \in 0..MaxRateNow
       PROVE  AtMost(CountedIn(k, b)', RateLimit) /\ AtMost(CountedIn(k, b)', Entry(redisHits, <<k, b>>, 0)')
  <2>1. AtMost(CountedIn(k, b), RateLimit) /\ AtMost(CountedIn(k, b), Entry(redisHits, <<k, b>>, 0))
    BY DEF RateInv, CountersHold
  <2>2. /\ Entry(redisHits, <<k, b>>, 0)' = Entry(redisHits', <<k, b>>, 0)
        /\ Entry(redisHits, <<k, b>>, 0)' \in Nat
    BY <1>10, EntriesAreCounts DEF Entry, AnswersTyped
  <2>3. Entry(redisHits, <<k, b>>, 0) \in Nat
    BY <1>2, EntriesAreCounts
  <2> QED BY <1>5, <2>1, <2>2, <2>3, AtMostGrows DEF CountersGrow
<1> QED
  BY <1>10, <1>11, <1>12, <1>13, KeysStay DEF RateInv, ListsRemember, StretchesHold, CountersHold, AtMost

\* Counting in a box leaves the other boxes alone.
LEMMA IncrementGrows ==
    ASSUME AnswersTyped, NEW box, redisHits' = Increment(box)
    PROVE  /\ CountersGrow
           /\ Entry(redisHits', box, 0) = Entry(redisHits, box, 0) + 1
           /\ redisHits'[box] = Entry(redisHits', box, 0)
<1>1. /\ DOMAIN redisHits' = DOMAIN redisHits \cup {box}
      /\ redisHits'[box] = Entry(redisHits, box, 0) + 1
      /\ \A b \in DOMAIN redisHits \ {box} : redisHits'[b] = redisHits[b]
  BY DEF Increment, Record
<1>2. \A b : Entry(redisHits, b, 0) \in Nat
  BY EntriesAreCounts
<1> QED
  BY <1>1, <1>2 DEF CountersGrow, Entry, AnswersTyped

\* The counter decides: it was increased before the request was admitted.
LEMMA RedisKeepsRate ==
    ASSUME RateInv, NEW r \in RateReqs, rateAnswer[r] = NotYet, NEW w \in RateWorkers,
           redisHits' = Increment(BoxOf(r)), Say(r, w, redisHits'[BoxOf(r)] <= RateLimit, "redis"),
           UNCHANGED <<hits, rateNow>>
    PROVE  RateInv'
<1> USE RateAssumption
<1> DEFINE key == RateKey(r)
           now == rateNow \div RateWindow
           count == Entry(redisHits', <<key, now>>, 0)
           ok == redisHits'[BoxOf(r)] <= RateLimit
<1>1. AnswersTyped /\ BoxOf(r) = <<key, now>>
  BY DEF RateInv, BoxOf
<1>2. /\ CountersGrow /\ redisHits'[BoxOf(r)] = count
      /\ count = Entry(redisHits, <<key, now>>, 0) + 1
      /\ Entry(redisHits, <<key, now>>, 0) \in Nat
  BY <1>1, IncrementGrows, EntriesAreCounts
<1>3. ok \in BOOLEAN /\ Say(r, w, ok, "redis")
  OBVIOUS
<1>4. ok => count <= RateLimit
  BY <1>2
<1> HIDE DEF count, ok, now
<1>5. /\ rateAnswer' \in [RateReqs -> Answers \cup {NotYet}]
      /\ rateAnswer'[r].at = rateNow
      /\ \A q \in RateReqs \ {r} : rateAnswer'[q] = rateAnswer[q]
      /\ \A v, k : r \notin Memory(v, k)
      /\ \A v, k : Memory(v, k)' = Memory(v, k)
      /\ \A k, b : CountedIn(k, b)' = IF ok /\ k = key /\ b = now THEN CountedIn(k, b) \cup {r}
                                  ELSE CountedIn(k, b)
  BY <1>1, <1>3, SayAdds DEF now
<1>6. rateNow \in Nat /\ rateNow' = rateNow /\ hits' = hits
  BY <1>1 DEF AnswersTyped
<1>7. \A v, k : \A q \in Memory(v, k) : rateAnswer'[q] = rateAnswer[q]
  BY <1>5 DEF Memory, Admitted
<1>8. AnswersTyped'
  <2>1. \A q \in RateReqs : rateAnswer'[q] # NotYet => rateAnswer'[q].at <= rateNow'
    BY <1>1, <1>5, <1>6 DEF AnswersTyped
  <2> QED
    BY <1>1, <1>2, <1>5, <1>6, <2>1 DEF AnswersTyped, CountersGrow, Answers, NotYet
<1>9. ASSUME NEW v \in RateWorkers, NEW k \in RateKeys
      PROVE  /\ k \in DOMAIN hits'[v] => IsFiniteSet(hits'[v][k]) /\ hits'[v][k] \subseteq Memory(v, k)'
             /\ \A q \in Memory(v, k)' :
                   rateAnswer'[q].at + RateWindow >= rateNow' => k \in DOMAIN hits'[v] /\ q \in hits'[v][k]
  BY <1>5, <1>6, <1>7 DEF RateInv, ListsRemember
<1>10. ASSUME NEW v \in RateWorkers, NEW k \in RateKeys, NEW t \in 0..MaxRateNow
       PROVE  AtMost(Stretch(v, k, t)', RateLimit)
  <2>1. Stretch(v, k, t)' = {q \in Memory(v, k)' : rateAnswer'[q].at \in t..(t + RateWindow)}
    BY DEF Stretch
  <2>2. Stretch(v, k, t)' = Stretch(v, k, t)
    BY <1>5, <1>7, <2>1 DEF Stretch
  <2> QED BY <2>2 DEF RateInv, StretchesHold
<1>11. ASSUME NEW k \in RateKeys, NEW b \in 0..MaxRateNow
       PROVE  AtMost(CountedIn(k, b)', RateLimit) /\ AtMost(CountedIn(k, b)', Entry(redisHits', <<k, b>>, 0))
  <2>1. AtMost(CountedIn(k, b), RateLimit) /\ AtMost(CountedIn(k, b), Entry(redisHits, <<k, b>>, 0))
    BY DEF RateInv, CountersHold
  <2>2. Entry(redisHits, <<k, b>>, 0) \in Nat
    BY <1>1, EntriesAreCounts
  <2>3. Entry(redisHits', <<k, b>>, 0) \in Nat
    BY <1>8 DEF Entry, AnswersTyped
  <2>4. CASE ok /\ k = key /\ b = now
    <3>1. AtMost(CountedIn(k, b)', count)
      <4>1. CountedIn(k, b)' = CountedIn(k, b) \cup {r} /\ Cardinality(CountedIn(k, b)) \in Nat
        BY <1>5, <2>1, <2>4, FS_CardinalityType DEF AtMost
      <4>2. Cardinality(CountedIn(k, b)) < count /\ count \in Nat /\ IsFiniteSet(CountedIn(k, b))
        BY <1>2, <2>1, <2>2, <2>4, <4>1 DEF AtMost
      <4> QED BY <4>1, <4>2, OneElementMore
    <3>2. count = Entry(redisHits', <<k, b>>, 0) /\ count <= RateLimit /\ count \in Nat
      BY <1>2, <1>4, <2>4 DEF count
    <3> QED BY <3>1, <3>2, AtMostGrows
  <2>5. CASE ~(ok /\ k = key /\ b = now)
    BY <1>2, <1>5, <2>1, <2>2, <2>3, <2>5, AtMostGrows DEF CountersGrow
  <2> QED BY <2>4, <2>5
<1>12. \A k, b : Entry(redisHits, <<k, b>>, 0)' = Entry(redisHits', <<k, b>>, 0)
  BY DEF Entry
<1> QED
  BY <1>8, <1>9, <1>10, <1>11, <1>12, KeysStay
     DEF RateInv, ListsRemember, StretchesHold, CountersHold, AtMost

\* Time passes, or nothing happens: what was remembered is still enough.
LEMMA TimeKeepsRate ==
    ASSUME RateInv, UNCHANGED <<hits, redisHits, rateAnswer>>,
           rateNow' = rateNow \/ (rateNow < MaxRateNow /\ rateNow' = rateNow + 1)
    PROVE  RateInv'
<1> USE RateAssumption
<1>1. (\A v, k : Memory(v, k)' = Memory(v, k)) /\ \A k, b : CountedIn(k, b)' = CountedIn(k, b)
  <2>1. \A by, k : Admitted(by, k)' = Admitted(by, k)
    BY KeysStay DEF Admitted
  <2> QED BY <2>1 DEF Memory, CountedIn
<1>2. \A v, k, t : Stretch(v, k, t)' = Stretch(v, k, t)
  BY <1>1 DEF Stretch
<1>3. \A v, k : \A q \in Memory(v, k) : rateAnswer[q].at \in Nat
  BY DEF RateInv, AnswersTyped, Memory, Admitted, Answers, NotYet
<1>4. rateNow \in Nat /\ rateNow' \in 0..MaxRateNow /\ rateNow <= rateNow'
  BY DEF RateInv, AnswersTyped
<1>5. AnswersTyped'
  <2>1. \A q \in RateReqs : rateAnswer[q] # NotYet => rateAnswer[q].at \in Nat
    BY DEF RateInv, AnswersTyped, Answers
  <2> QED BY <1>4, <2>1 DEF RateInv, AnswersTyped, Answers, NotYet
<1>6. ListsRemember'
  <2>1. \A v, k : \A q \in Memory(v, k) :
            rateAnswer[q].at + RateWindow >= rateNow' => rateAnswer[q].at + RateWindow >= rateNow
    BY <1>3, <1>4
  <2> QED BY <1>1, <2>1, KeysStay DEF RateInv, ListsRemember
<1>7. \A k, b : Entry(redisHits, <<k, b>>, 0)' = Entry(redisHits, <<k, b>>, 0)
  BY DEF Entry
<1> QED
  BY <1>1, <1>2, <1>5, <1>6, <1>7, KeysStay DEF RateInv, StretchesHold, CountersHold, AtMost

\* enforce_rate_limit, whatever Redis did.
LEMMA EnforceKeepsRate ==
    ASSUME RateInv, NEW r \in RateReqs, NEW w \in RateWorkers, Enforce(r, w)
    PROVE  RateInv'
<1>1. PICK client \in Clients(w), counted \in BOOLEAN, told \in BOOLEAN :
         LET counters == IF counted THEN Increment(BoxOf(r)) ELSE redisHits
         IN /\ told => counted
            /\ redisHits' = counters
            /\ IF told THEN /\ Say(r, w, counters[BoxOf(r)] <= RateLimit, "redis")
                            /\ UNCHANGED hits
               ELSE EnforceInMemory(r, w)
  BY DEF Enforce
<1>2. rateAnswer[r] = NotYet /\ UNCHANGED rateNow
  BY DEF Enforce
<1>3. CASE told
  BY <1>1, <1>2, <1>3, RedisKeepsRate
<1>4. CASE ~told
  <2>1. CountersGrow
    <3>1. AnswersTyped /\ \A b : Entry(redisHits, b, 0) \in Nat
      BY EntriesAreCounts DEF RateInv
    <3>2. CASE counted
      BY <1>1, <3>1, <3>2, IncrementGrows
    <3>3. CASE ~counted
      BY <1>1, <3>1, <3>3 DEF CountersGrow, AnswersTyped
    <3> QED BY <3>2, <3>3
  <2> QED BY <1>1, <1>2, <1>4, <2>1, MemoryKeepsRate
<1> QED
  BY <1>3, <1>4

LEMMA SpecRateInv == RateSpec => []RateInv
<1>1. RateInv /\ UNCHANGED rateVars => RateInv'
  BY TimeKeepsRate DEF rateVars
<1>2. RateInv /\ RateTick => RateInv'
  BY TimeKeepsRate DEF RateTick
<1>3. RateInv /\ [RateNext]_rateVars => RateInv'
  BY <1>1, <1>2, EnforceKeepsRate DEF RateNext
<1> QED BY <1>3, InitRateInv, PTL DEF RateSpec

\* Whatever Redis does in between, the list of one process admits at most
\* RateLimit requests of a principal in any stretch of a window's length, and
\* Redis at most RateLimit in each window of its own: for any number of
\* requests, principals and processes, and any limit and window.
THEOREM SpecWindowHolds == RateSpec => []WindowHolds
<1>1. RateInv => WindowHolds
  <2> SUFFICES ASSUME RateInv, NEW k \in RateKeys, NEW t \in 0..MaxRateNow
               PROVE  /\ \A w \in RateWorkers :
                            Cardinality({r \in Admitted("memory", k) :
                                /\ rateAnswer[r].worker = w
                                /\ rateAnswer[r].at \in t..(t + RateWindow)}) <= RateLimit
                      /\ Cardinality({r \in Admitted("redis", k) :
                             rateAnswer[r].at \div RateWindow = t}) <= RateLimit
    BY DEF WindowHolds
  <2>1. ASSUME NEW w \in RateWorkers
        PROVE  Cardinality({r \in Admitted("memory", k) :
                   /\ rateAnswer[r].worker = w
                   /\ rateAnswer[r].at \in t..(t + RateWindow)}) <= RateLimit
    <3>1. Stretch(w, k, t) = {r \in Admitted("memory", k) :
              /\ rateAnswer[r].worker = w
              /\ rateAnswer[r].at \in t..(t + RateWindow)}
      BY DEF Stretch, Memory
    <3> QED BY <3>1 DEF RateInv, StretchesHold, AtMost
  <2>2. Cardinality({r \in Admitted("redis", k) : rateAnswer[r].at \div RateWindow = t}) <= RateLimit
    BY DEF RateInv, CountersHold, AtMost, CountedIn
  <2> QED BY <2>1, <2>2
<1> QED BY <1>1, SpecRateInv, PTL

=============================================================================
