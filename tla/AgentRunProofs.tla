---------------------------- MODULE AgentRunProofs ----------------------------
(***************************************************************************)
(* Proofs about AgentRun for any number of turns and sessions, any budget  *)
(* of rounds and any limit on turns at once.  Three inductive invariants:  *)
(* the types, the budget of each session, and the verdict of each turn.    *)
(***************************************************************************)
EXTENDS AgentRun, SequenceTheorems, TLAPS

\* The messages of a turn are a sequence of records of the right kind.
LEMMA SayKeepsType ==
    ASSUME TypeOK, NEW r \in Runs, NEW kinds \in Seq(Kinds), Say(r, kinds)
    PROVE  messages' \in [Sessions -> Seq([by : Runs, kind : Kinds])]
<1> DEFINE M == [by : Runs, kind : Kinds]
           new == [n \in 1..Len(kinds) |-> [by |-> r, kind |-> kinds[n]]]
<1>1. new \in Seq(M)
  <2>1. Len(kinds) \in Nat /\ \A n \in 1..Len(kinds) : kinds[n] \in Kinds
    OBVIOUS
  <2>2. \A n \in 1..Len(kinds) : [by |-> r, kind |-> kinds[n]] \in M
    BY <2>1
  <2> QED BY <2>1, <2>2, IsASeq
<1>2. SessionOf[r] \in Sessions /\ messages[SessionOf[r]] \in Seq(M)
  BY AgentAssumption DEF TypeOK
<1>3. messages[SessionOf[r]] \o new \in Seq(M)
  BY <1>1, <1>2, ConcatProperties
<1> QED BY <1>3 DEF Say, TypeOK

\* Counting in one session keeps a counter of natural numbers one.
LEMMA CountType ==
    ASSUME NEW r \in Runs, NEW f \in [Sessions -> Nat]
    PROVE  /\ [f EXCEPT ![SessionOf[r]] = @ + 1] \in [Sessions -> Nat]
           /\ [f EXCEPT ![SessionOf[r]] = 0] \in [Sessions -> Nat]
<1>1. SessionOf[r] \in Sessions
  BY AgentAssumption
<1>2. f[SessionOf[r]] + 1 \in Nat
  BY <1>1
<1> QED BY <1>1, <1>2

\* A verdict is appended to a sequence of verdicts.
LEMMA ConcludeKeepsType ==
    ASSUME TypeOK, NEW r \in Runs, NEW v \in Verdicts, Conclude(r, v)
    PROVE  verdicts' \in [Runs -> Seq(Verdicts)] /\ verdicts'[r] = Append(verdicts[r], v)
BY AppendProperties DEF TypeOK, Conclude

\* What the log says, for the verdicts a turn can have.
LEMMA StatusOfVerdict ==
    ASSUME NEW r \in Runs
    PROVE  /\ verdicts[r] = <<>> => RunStatus(r) = "completed"
           /\ \A v \in Verdicts : verdicts[r] = <<v>> => RunStatus(r) = v
<1>1. ASSUME verdicts[r] = <<>> PROVE RunStatus(r) = "completed"
  BY <1>1 DEF RunStatus
<1>2. ASSUME NEW v \in Verdicts, verdicts[r] = <<v>> PROVE RunStatus(r) = v
  <2>1. DOMAIN verdicts[r] = {1} /\ verdicts[r][1] = v
    BY <1>2
  <2>2. CASE v = "completed"
    BY <2>1, <2>2 DEF RunStatus
  <2>3. CASE v # "completed"
    <3>1. {n \in DOMAIN verdicts[r] : verdicts[r][n] # "completed"} = {1}
      BY <2>1, <2>3
    <3>2. (CHOOSE n \in {1} : \A m \in {1} : m <= n) = 1
      OBVIOUS
    <3> QED BY <2>1, <3>1, <3>2 DEF RunStatus
  <2> QED BY <2>2, <2>3
<1> QED BY <1>1, <1>2

\* The status written to the log is a verdict.
LEMMA StatusType ==
    ASSUME NEW r \in Runs, verdicts[r] = <<>> \/ \E v \in Verdicts : verdicts[r] = <<v>>
    PROVE  RunStatus(r) \in Verdicts
BY StatusOfVerdict DEF Verdicts

-----------------------------------------------------------------------------
\* The verdict of a turn: none before its end, one at its end unless it
\* raised, and the log repeats it.
Judged(r) ==
    /\ verdicts[r] = <<>> \/ \E v \in Verdicts : verdicts[r] = <<v>>
    /\ pc[r] \notin {"closing", "done"} => verdicts[r] = <<>> /\ r \notin raised
    /\ pc[r] \in {"closing", "done"} /\ r \notin raised => verdicts[r] # <<>>
    /\ pc[r] = "done" =>
         /\ r \notin raised => mcp[r] = "closed"
         /\ verdicts[r] # <<>> => runLog[r] = verdicts[r][1]
         /\ verdicts[r] = <<>> => runLog[r] \in {"open", "completed"}
    /\ pc[r] \in {"starting", "prepared"} => runLog[r] = "open"

VerdictInv == TypeOK /\ \A r \in Runs : Judged(r)

LEMMA InitVerdictInv == Init => VerdictInv
<1>1. \A s \in Sessions : <<>> \in Seq([by : Runs, kind : Kinds])
  OBVIOUS
<1> QED BY <1>1, AgentAssumption DEF Init, VerdictInv, TypeOK, Judged, Phases

\* The steps of a turn that emit no terminal event and do not end it.
Silent(r) ==
    \/ Start(r) \/ Prepare(r) \/ BeginTurn(r) \/ Prefetched(r) \/ OutOfTime(r)
    \/ CallModel(r) \/ ModelCallsTools(r) \/ ToolsReturn(r) \/ ToolsTimeOut(r)

\* The steps that emit one.
Ending(r) ==
    \/ UnknownSkill(r) \/ CancelledAtTop(r) \/ ModelTimesOut(r) \/ CancelledAtModel(r)
    \/ ModelReplies(r) \/ SynthesisReplies(r)

\* The steps after which the turn is not in its loop any more and says nothing.
Leaving(r) == PrepareRaises(r) \/ Interrupt(r) \/ Close(r) \/ InterruptClose(r)

Outside(r) == SetCancel(r) \/ WallClock(r)

\* The next-state relation, grouped.
LEMMA NextGroups ==
    ASSUME Next
    PROVE  \E r \in Runs : Silent(r) \/ Ending(r) \/ OutOfRounds(r) \/ Leaving(r) \/ Outside(r)
BY DEF Next, Progress, Silent, Ending, Leaving, Outside

\* Every step keeps the types.
LEMMA AgentTypeStep == VerdictInv /\ [Next]_vars => TypeOK'
<1> SUFFICES ASSUME VerdictInv, [Next]_vars PROVE TypeOK'
  OBVIOUS
<1>0. TypeOK
  BY DEF VerdictInv
<1> USE <1>0 DEF Goto, runVars, envVars, sessionVars, Phases
<1>1. ASSUME NEW r \in Runs, Silent(r) PROVE TypeOK'
  <2>1. CASE Start(r) \/ Prepare(r) \/ Prefetched(r)
    BY <2>1 DEF Start, Prepare, Prefetched, TypeOK
  <2>2. CASE CallModel(r)
    <3>1. stepCount' \in [Sessions -> Nat] /\ rounds' \in [Sessions -> Nat]
      BY <2>2, CountType DEF CallModel, CountStep, TypeOK
    <3> QED BY <2>2, <3>1 DEF CallModel, TypeOK
  <2>3. <<"user">> \in Seq(Kinds) /\ <<"steering">> \in Seq(Kinds) /\ <<"uses">> \in Seq(Kinds)
        /\ AfterTools \subseteq Seq(Kinds)
    BY DEF Kinds, AfterTools
  <2>4. CASE BeginTurn(r)
    <3>1. messages' \in [Sessions -> Seq([by : Runs, kind : Kinds])]
      BY <2>3, <2>4, SayKeepsType DEF BeginTurn
    <3>2. stepCount' \in [Sessions -> Nat] /\ turns' \in [Sessions -> Nat]
      BY <2>4, CountType DEF BeginTurn, TypeOK
    <3> QED BY <2>4, <3>1, <3>2 DEF BeginTurn, TypeOK
  <2>5. CASE OutOfTime(r)
    <3>1. messages' \in [Sessions -> Seq([by : Runs, kind : Kinds])]
      BY <2>3, <2>5, SayKeepsType DEF OutOfTime
    <3>2. stepCount' \in [Sessions -> Nat]
      BY <2>5, CountType DEF OutOfTime, CountStep, TypeOK
    <3> QED BY <2>5, <3>1, <3>2 DEF OutOfTime, TypeOK
  <2>6. CASE ModelCallsTools(r)
    <3>1. messages' \in [Sessions -> Seq([by : Runs, kind : Kinds])]
      BY <2>3, <2>6, SayKeepsType DEF ModelCallsTools
    <3> QED BY <2>6, <3>1 DEF ModelCallsTools, TypeOK
  <2>7. CASE ToolsReturn(r) \/ ToolsTimeOut(r)
    <3>1. messages' \in [Sessions -> Seq([by : Runs, kind : Kinds])]
      BY <2>3, <2>7, SayKeepsType DEF ToolsReturn, ToolsTimeOut
    <3> QED BY <2>7, <3>1 DEF ToolsReturn, ToolsTimeOut, TypeOK
  <2> QED BY <1>1, <2>1, <2>2, <2>4, <2>5, <2>6, <2>7 DEF Silent
<1>2. ASSUME NEW r \in Runs, Ending(r) PROVE TypeOK'
  <2>1. verdicts' \in [Runs -> Seq(Verdicts)]
    BY <1>2, ConcludeKeepsType
       DEF Ending, UnknownSkill, CancelledAtTop, ModelTimesOut, CancelledAtModel,
           ModelReplies, SynthesisReplies, Verdicts
  <2>2. CASE UnknownSkill(r) \/ ModelTimesOut(r) \/ CancelledAtModel(r)
    BY <2>1, <2>2 DEF UnknownSkill, ModelTimesOut, CancelledAtModel, TypeOK
  <2>3. CASE CancelledAtTop(r)
    <3>1. stepCount' \in [Sessions -> Nat]
      BY <2>3, CountType DEF CancelledAtTop, CountStep, TypeOK
    <3> QED BY <2>1, <2>3, <3>1 DEF CancelledAtTop, TypeOK
  <2>4. CASE ModelReplies(r) \/ SynthesisReplies(r)
    <3>1. <<"reply">> \in Seq(Kinds)
      BY DEF Kinds
    <3>2. messages' \in [Sessions -> Seq([by : Runs, kind : Kinds])]
      BY <2>4, <3>1, SayKeepsType DEF ModelReplies, SynthesisReplies
    <3> QED BY <2>1, <2>4, <3>2 DEF ModelReplies, SynthesisReplies, TypeOK
  <2> QED BY <1>2, <2>2, <2>3, <2>4 DEF Ending
<1>3. ASSUME NEW r \in Runs, OutOfRounds(r) PROVE TypeOK'
  <2>1. CASE Synthesize
    <3>1. <<"steering">> \in Seq(Kinds)
      BY DEF Kinds
    <3>2. messages' \in [Sessions -> Seq([by : Runs, kind : Kinds])]
      BY <1>3, <2>1, <3>1, SayKeepsType DEF OutOfRounds
    <3> QED BY <1>3, <2>1, <3>2 DEF OutOfRounds, TypeOK
  <2>2. CASE ~Synthesize
    <3>1. verdicts' \in [Runs -> Seq(Verdicts)]
      BY <1>3, <2>2, ConcludeKeepsType DEF OutOfRounds, Verdicts
    <3> QED BY <1>3, <2>2, <3>1 DEF OutOfRounds, TypeOK
  <2> QED BY <2>1, <2>2
<1>4. ASSUME NEW r \in Runs, Leaving(r) PROVE TypeOK'
  <2>1. RunStatus(r) \in Verdicts
    BY StatusType DEF VerdictInv, Judged
  <2> QED BY <1>4, <2>1 DEF Leaving, PrepareRaises, Interrupt, Close, InterruptClose, TypeOK
<1>5. ASSUME NEW r \in Runs, Outside(r) PROVE TypeOK'
  BY <1>5 DEF Outside, SetCancel, WallClock, TypeOK
<1>6. CASE UNCHANGED vars
  BY <1>6 DEF vars, TypeOK
<1> QED BY <1>1, <1>2, <1>3, <1>4, <1>5, <1>6, NextGroups

\* A step of one turn leaves the judgement of the others alone.
LEMMA OthersJudged ==
    ASSUME NEW r \in Runs, NEW q \in Runs, q # r, Judged(q),
           pc'[q] = pc[q], verdicts'[q] = verdicts[q], runLog'[q] = runLog[q],
           mcp'[q] = mcp[q], q \in raised' <=> q \in raised
    PROVE  Judged(q)'
BY DEF Judged

\* Every step keeps the judgement of every turn.
LEMMA JudgedStep == VerdictInv /\ [Next]_vars => \A q \in Runs : Judged(q)'
<1> SUFFICES ASSUME VerdictInv, [Next]_vars, NEW q \in Runs PROVE Judged(q)'
  OBVIOUS
<1>0. TypeOK /\ Judged(q) /\ \A r \in Runs : Judged(r)
  BY DEF VerdictInv
<1> USE <1>0 DEF Goto, runVars, envVars, sessionVars
<1>1. ASSUME NEW r \in Runs, Silent(r) PROVE Judged(q)'
  <2>1. /\ verdicts' = verdicts /\ (mcp'[q] = mcp[q] \/ pc'[q] # "done")
        /\ pc[r] \notin {"closing", "done"} /\ raised' = raised
    BY <1>1 DEF Silent, Start, Prepare, BeginTurn, Prefetched, OutOfTime, CallModel,
           ModelCallsTools, ToolsReturn, ToolsTimeOut, TypeOK
  <2> QED
    BY <1>1, <2>1 DEF Silent, Start, Prepare, BeginTurn, Prefetched, OutOfTime, CallModel,
           ModelCallsTools, ToolsReturn, ToolsTimeOut, TypeOK, Judged
<1>2. ASSUME NEW r \in Runs, NEW v \in Verdicts, Conclude(r, v), pc' = [pc EXCEPT ![r] = "closing"],
             pc[r] \notin {"closing", "done"}, UNCHANGED <<raised, runLog, mcp>>
      PROVE  Judged(q)'
  <2>1. CASE q = r
    <3>1. verdicts[r] = <<>> /\ verdicts'[r] = <<v>>
      BY <1>2, ConcludeKeepsType DEF Judged
    <3> QED BY <1>2, <2>1, <3>1 DEF Judged, TypeOK
  <2>2. CASE q # r
    BY <1>2, <2>2, OthersJudged DEF Conclude, TypeOK
  <2> QED BY <2>1, <2>2
<1>3. ASSUME NEW r \in Runs, Ending(r) PROVE Judged(q)'
  <2>1. /\ \E v \in Verdicts : Conclude(r, v)
        /\ pc' = [pc EXCEPT ![r] = "closing"] /\ pc[r] \notin {"closing", "done"}
        /\ UNCHANGED <<raised, runLog, mcp>>
    BY <1>3 DEF Ending, UnknownSkill, CancelledAtTop, ModelTimesOut, CancelledAtModel,
           ModelReplies, SynthesisReplies, Verdicts
  <2> QED BY <1>2, <2>1
<1>4. ASSUME NEW r \in Runs, OutOfRounds(r) PROVE Judged(q)'
  <2>1. CASE Synthesize
    BY <1>4, <2>1 DEF OutOfRounds, Judged, TypeOK
  <2>2. CASE ~Synthesize
    BY <1>2, <1>4, <2>2 DEF OutOfRounds, Verdicts
  <2> QED BY <2>1, <2>2
<1>5. ASSUME NEW r \in Runs, Leaving(r) PROVE Judged(q)'
  <2>1. CASE q # r
    BY <1>5, <2>1, OthersJudged
       DEF Leaving, PrepareRaises, Interrupt, Close, InterruptClose, TypeOK
  <2>2. CASE q = r /\ (PrepareRaises(r) \/ Interrupt(r))
    BY <2>2 DEF PrepareRaises, Interrupt, Judged, TypeOK
  <2>3. CASE q = r /\ (Close(r) \/ InterruptClose(r))
    <3>1. /\ verdicts[r] = <<>> => RunStatus(r) = "completed"
          /\ \A v \in Verdicts : verdicts[r] = <<v>> => RunStatus(r) = v
      BY StatusOfVerdict
    <3>2. runLog'[r] = RunStatus(r) /\ verdicts' = verdicts /\ pc[r] = "closing" /\ pc'[r] = "done"
          /\ (r \notin raised' => mcp'[r] = "closed" /\ r \notin raised)
      BY <2>3 DEF Close, InterruptClose, TypeOK
    <3> QED BY <2>3, <3>1, <3>2 DEF Judged
  <2> QED BY <1>5, <2>1, <2>2, <2>3 DEF Leaving
<1>6. ASSUME NEW r \in Runs, Outside(r) PROVE Judged(q)'
  BY <1>6 DEF Outside, SetCancel, WallClock, Judged
<1>7. CASE UNCHANGED vars
  BY <1>7 DEF vars, Judged
<1> QED BY <1>1, <1>3, <1>4, <1>5, <1>6, <1>7, NextGroups

\* Types and verdicts hold in every reachable state.
THEOREM SpecVerdictInv == Spec => []VerdictInv
<1>1. VerdictInv /\ [Next]_vars => VerdictInv'
  BY AgentTypeStep, JudgedStep DEF VerdictInv
<1> QED BY <1>1, InitVerdictInv, PTL DEF Spec

\* Type correctness of the turns, the sessions and their messages.
THEOREM SpecAgentTypeOK == Spec => []TypeOK
<1>1. VerdictInv => TypeOK
  BY DEF VerdictInv
<1> QED BY <1>1, SpecVerdictInv, PTL

\* A turn reports one terminal event at most, and exactly one unless it raised.
THEOREM SpecOneVerdict == Spec => []OneVerdict
<1>1. VerdictInv => OneVerdict
  <2> SUFFICES ASSUME VerdictInv, NEW r \in Runs
               PROVE  Len(verdicts[r]) <= 1
                      /\ (pc[r] = "done" /\ r \notin raised => Len(verdicts[r]) = 1)
    BY DEF OneVerdict
  <2>1. Judged(r)
    BY DEF VerdictInv
  <2>2. CASE verdicts[r] = <<>>
    <3>1. Len(verdicts[r]) = 0
      BY <2>2
    <3> QED BY <2>1, <2>2, <3>1 DEF Judged
  <2>3. CASE \E v \in Verdicts : verdicts[r] = <<v>>
    <3>1. Len(verdicts[r]) = 1
      BY <2>3
    <3> QED BY <3>1
  <2> QED BY <2>1, <2>2, <2>3 DEF Judged
<1> QED BY <1>1, SpecVerdictInv, PTL

\* The log of a turn repeats the verdict its client saw.
THEOREM SpecLogTellsVerdict == Spec => []LogTellsVerdict
<1>1. VerdictInv => LogTellsVerdict
  <2> SUFFICES ASSUME VerdictInv, NEW r \in Runs, pc[r] = "done"
               PROVE  /\ r \notin raised => mcp[r] = "closed" /\ runLog[r] = verdicts[r][1]
                      /\ runLog[r] \in {"cancelled", "error"} => verdicts[r] = <<runLog[r]>>
                      /\ verdicts[r] # <<>> => runLog[r] = verdicts[r][1]
    BY DEF LogTellsVerdict
  <2>1. Judged(r)
    BY DEF VerdictInv
  <2>2. CASE verdicts[r] = <<>>
    BY <2>1, <2>2 DEF Judged
  <2>3. ASSUME NEW v \in Verdicts, verdicts[r] = <<v>>
        PROVE  runLog[r] = v /\ verdicts[r][1] = v
    BY <2>1, <2>3 DEF Judged
  <2>4. CASE verdicts[r] # <<>>
    BY <2>1, <2>3, <2>4 DEF Judged
  <2> QED BY <2>2, <2>4
<1> QED BY <1>1, SpecVerdictInv, PTL
-----------------------------------------------------------------------------
\* What is left of the budget: before its first user message a session has
\* made no round; afterwards the rounds made and the rounds the counter still
\* allows fit in MaxRounds for each user message.  This is what makes the
\* bound inductive although every turn of the session resets the counter.
Budgeted(s) ==
    /\ turns[s] = 0 => rounds[s] = 0
    /\ stepCount[s] <= MaxRounds
    /\ turns[s] > 0 => rounds[s] + MaxRounds <= MaxRounds * turns[s] + stepCount[s]

BudgetInv ==
    /\ TypeOK
    /\ \A s \in Sessions : Budgeted(s)
    /\ \A r \in Runs : pc[r] \in {"prefetch", "top", "llm", "tools"} => turns[SessionOf[r]] > 0

\* A round more, and a step of the counter: the bound moves along.
LEMMA BudgetArithmetic ==
    ASSUME NEW M \in Nat, NEW t \in Nat
    PROVE  M * t \in Nat /\ M * (t + 1) = M * t + M /\ M * 0 = 0 /\ M * 1 = M
           /\ (t > 0 => M <= M * t)
<1>1. M * t \in Nat /\ M * (t + 1) = M * t + M /\ M * 0 = 0 /\ M * 1 = M
  OBVIOUS
<1>2. ASSUME t > 0 PROVE M <= M * t
  <2>1. t - 1 \in Nat /\ M * t = M * (t - 1) + M /\ M * (t - 1) \in Nat
    BY <1>2
  <2> QED BY <2>1
<1> QED BY <1>1, <1>2

\* What the steps do to the counters of a session: only a user message adds a
\* turn, and only a call of the model adds a round.
LEMMA CounterSteps ==
    ASSUME TypeOK, Next, NEW s \in Sessions
    PROVE  \/ UNCHANGED <<turns[s], rounds[s], stepCount[s]>>
           \/ /\ turns'[s] = turns[s] + 1 /\ stepCount'[s] = 0 /\ rounds'[s] = rounds[s]
           \/ /\ turns'[s] = turns[s] /\ stepCount[s] < MaxRounds
              /\ stepCount'[s] = stepCount[s] + 1
              /\ \/ rounds'[s] = rounds[s]
                 \/ /\ rounds'[s] = rounds[s] + 1
                    /\ \E r \in Runs : SessionOf[r] = s /\ pc[r] = "top"
<1> PICK r \in Runs : Silent(r) \/ Ending(r) \/ OutOfRounds(r) \/ Leaving(r) \/ Outside(r)
  BY NextGroups
<1> USE DEF runVars, envVars, sessionVars, TypeOK
<1>0. SessionOf[r] \in Sessions
  BY AgentAssumption
<1>1. CASE BeginTurn(r)
  BY <1>0, <1>1 DEF BeginTurn
<1>2. CASE CallModel(r)
  BY <1>0, <1>2 DEF CallModel, CountStep, RoundsLeft
<1>3. CASE OutOfTime(r) \/ CancelledAtTop(r)
  BY <1>0, <1>3 DEF OutOfTime, CancelledAtTop, CountStep, RoundsLeft
<1>4. CASE Start(r) \/ Prepare(r) \/ Prefetched(r) \/ ModelCallsTools(r) \/ ToolsReturn(r)
           \/ ToolsTimeOut(r)
  BY <1>4 DEF Start, Prepare, Prefetched, ModelCallsTools, ToolsReturn, ToolsTimeOut
<1>5. CASE UnknownSkill(r) \/ ModelTimesOut(r) \/ CancelledAtModel(r) \/ ModelReplies(r)
           \/ SynthesisReplies(r) \/ OutOfRounds(r)
  BY <1>5 DEF UnknownSkill, ModelTimesOut, CancelledAtModel, ModelReplies, SynthesisReplies,
       OutOfRounds
<1>6. CASE Leaving(r) \/ Outside(r)
  BY <1>6 DEF Leaving, PrepareRaises, Interrupt, Close, InterruptClose, Outside, SetCancel,
       WallClock
<1> QED BY <1>1, <1>2, <1>3, <1>4, <1>5, <1>6 DEF Silent, Ending

\* A turn enters its loop only after its own user message was appended.
LEMMA LoopEntry ==
    ASSUME TypeOK, Next, NEW q \in Runs,
           pc'[q] \in {"prefetch", "top", "llm", "tools"},
           pc[q] \in {"prefetch", "top", "llm", "tools"} => turns[SessionOf[q]] > 0
    PROVE  turns'[SessionOf[q]] > 0
<1> PICK r \in Runs : Silent(r) \/ Ending(r) \/ OutOfRounds(r) \/ Leaving(r) \/ Outside(r)
  BY NextGroups
<1> USE DEF runVars, envVars, sessionVars, Goto
<1>0. SessionOf[q] \in Sessions /\ turns[SessionOf[q]] \in Nat
  BY AgentAssumption DEF TypeOK
<1>1. CASE BeginTurn(r)
  <2>1. CASE q = r
    BY <1>0, <1>1, <2>1 DEF BeginTurn, TypeOK
  <2>2. CASE q # r
    <3>1. turns'[SessionOf[q]] \in {turns[SessionOf[q]], turns[SessionOf[q]] + 1}
      BY <1>0, <1>1 DEF BeginTurn, TypeOK
    <3>2. pc'[q] = pc[q]
      BY <1>1, <2>2 DEF BeginTurn, TypeOK
    <3> QED BY <1>0, <3>1, <3>2
  <2> QED BY <2>1, <2>2
<1>2. CASE ~BeginTurn(r)
  <2>1. turns' = turns
    BY <1>2 DEF Silent, Start, Prepare, Prefetched, OutOfTime, CallModel, ModelCallsTools,
         ToolsReturn, ToolsTimeOut, Ending, UnknownSkill, CancelledAtTop, ModelTimesOut,
         CancelledAtModel, ModelReplies, SynthesisReplies, OutOfRounds, Leaving, PrepareRaises,
         Interrupt, Close, InterruptClose, Outside, SetCancel, WallClock
  <2>2. pc[q] \in {"prefetch", "top", "llm", "tools"}
    BY <1>2 DEF Silent, Start, Prepare, Prefetched, OutOfTime, CallModel, ModelCallsTools,
         ToolsReturn, ToolsTimeOut, Ending, UnknownSkill, CancelledAtTop, ModelTimesOut,
         CancelledAtModel, ModelReplies, SynthesisReplies, OutOfRounds, Leaving, PrepareRaises,
         Interrupt, Close, InterruptClose, Outside, SetCancel, WallClock, TypeOK
  <2> QED BY <2>1, <2>2
<1> QED BY <1>1, <1>2

\* Every step keeps every session within its budget.
LEMMA BudgetStep == BudgetInv /\ TypeOK' /\ [Next]_vars => BudgetInv'
<1> SUFFICES ASSUME BudgetInv, TypeOK', [Next]_vars PROVE BudgetInv'
  OBVIOUS
<1>1. CASE UNCHANGED vars
  BY <1>1 DEF vars, runVars, sessionVars, BudgetInv, Budgeted
<1>2. CASE Next
  <2>1. ASSUME NEW q \in Runs, pc'[q] \in {"prefetch", "top", "llm", "tools"}
        PROVE  turns'[SessionOf[q]] > 0
    BY <1>2, <2>1, LoopEntry DEF BudgetInv
  <2>2. ASSUME NEW s \in Sessions PROVE Budgeted(s)'
    <3> DEFINE t == turns[s]  n == rounds[s]  k == stepCount[s]
    <3>1. t \in Nat /\ n \in Nat /\ k \in Nat /\ MaxRounds \in Nat
      BY AgentAssumption DEF BudgetInv, TypeOK
    <3>2. Budgeted(s)
      BY DEF BudgetInv
    <3>3. MaxRounds * t \in Nat /\ MaxRounds * (t + 1) = MaxRounds * t + MaxRounds
          /\ MaxRounds * 0 = 0
      BY <3>1, BudgetArithmetic
    <3>4. CASE UNCHANGED <<t, n, k>>
      BY <3>2, <3>4 DEF Budgeted
    <3>5. CASE turns'[s] = t + 1 /\ stepCount'[s] = 0 /\ rounds'[s] = n
      <4>1. n <= MaxRounds * t
        <5>1. CASE t = 0
          BY <3>1, <3>2, <3>3, <5>1 DEF Budgeted
        <5>2. CASE t > 0
          BY <3>1, <3>2, <3>3, <5>2 DEF Budgeted
        <5> QED BY <3>1, <5>1, <5>2
      <4>2. rounds'[s] + MaxRounds <= MaxRounds * turns'[s] + stepCount'[s]
        BY <3>1, <3>3, <3>5, <4>1
      <4> QED BY <3>1, <3>5, <4>2 DEF Budgeted
    <3>6. CASE /\ turns'[s] = t /\ k < MaxRounds /\ stepCount'[s] = k + 1
               /\ \/ rounds'[s] = n
                  \/ rounds'[s] = n + 1 /\ \E r \in Runs : SessionOf[r] = s /\ pc[r] = "top"
      <4>1. rounds'[s] = n + 1 => t > 0
        BY <3>1, <3>6 DEF BudgetInv
      <4>2. MaxRounds * turns'[s] = MaxRounds * t
        BY <3>6
      <4>3. t > 0 => n + MaxRounds <= MaxRounds * t + k
        BY <3>2 DEF Budgeted
      <4>4. t > 0 => rounds'[s] + MaxRounds <= MaxRounds * turns'[s] + stepCount'[s]
        BY <3>1, <3>3, <3>6, <4>2, <4>3
      <4>5. turns'[s] = 0 => rounds'[s] = 0
        BY <3>1, <3>2, <3>6, <4>1 DEF Budgeted
      <4>6. stepCount'[s] <= MaxRounds
        BY <3>1, <3>6
      <4> QED BY <3>6, <4>4, <4>5, <4>6 DEF Budgeted
    <3>7. TypeOK
      BY DEF BudgetInv
    <3> QED BY <1>2, <3>4, <3>5, <3>6, <3>7, CounterSteps
  <2> QED BY <2>1, <2>2 DEF BudgetInv
<1> QED BY <1>1, <1>2

\* The budget of rounds is kept in every session, however its turns overlap.
THEOREM SpecRoundsWithinBudget == Spec => []RoundsWithinBudget
<1>1. Init => BudgetInv
  <2> SUFFICES ASSUME Init PROVE BudgetInv
    OBVIOUS
  <2>1. TypeOK
    BY InitVerdictInv DEF VerdictInv
  <2> QED BY <2>1, AgentAssumption DEF Init, BudgetInv, Budgeted
<1>2. BudgetInv /\ VerdictInv /\ VerdictInv' /\ [Next]_vars => BudgetInv'
  BY BudgetStep DEF VerdictInv
<1>3. BudgetInv => RoundsWithinBudget
  <2> SUFFICES ASSUME BudgetInv, NEW s \in Sessions
               PROVE  rounds[s] <= MaxRounds * turns[s]
    BY DEF RoundsWithinBudget
  <2>1. turns[s] \in Nat /\ rounds[s] \in Nat /\ stepCount[s] \in Nat /\ MaxRounds \in Nat
    BY AgentAssumption DEF BudgetInv, TypeOK
  <2>2. MaxRounds * turns[s] \in Nat /\ MaxRounds * 0 = 0
    BY <2>1, BudgetArithmetic
  <2>3. Budgeted(s)
    BY DEF BudgetInv
  <2>4. CASE turns[s] = 0
    BY <2>2, <2>3, <2>4 DEF Budgeted
  <2>5. CASE turns[s] > 0
    BY <2>1, <2>2, <2>3, <2>5 DEF Budgeted
  <2> QED BY <2>1, <2>4, <2>5
<1> QED BY <1>1, <1>2, <1>3, SpecVerdictInv, PTL DEF Spec

\* A turn that was cancelled starts no round and no tool afterwards.
THEOREM SpecCancelStopsWork == Spec => CancelStopsWork
<1> DEFINE Quiet == \A r \in cancel : pc'[r] # pc[r] => pc'[r] \notin {"llm", "tools"}
<1>1. TypeOK /\ [Next]_vars => [Quiet]_vars
  <2> SUFFICES ASSUME TypeOK, Next, NEW q \in cancel, pc'[q] # pc[q]
               PROVE  pc'[q] \notin {"llm", "tools"}
    BY DEF vars
  <2> PICK r \in Runs : Silent(r) \/ Ending(r) \/ OutOfRounds(r) \/ Leaving(r) \/ Outside(r)
    BY NextGroups
  <2> USE DEF Goto, runVars, TypeOK
  <2>1. CASE CallModel(r) \/ ModelCallsTools(r)
    BY <2>1 DEF CallModel, ModelCallsTools, Cancelled
  <2>2. CASE Start(r) \/ Prepare(r) \/ BeginTurn(r) \/ Prefetched(r) \/ OutOfTime(r)
             \/ ToolsReturn(r) \/ ToolsTimeOut(r) \/ OutOfRounds(r)
    BY <2>2 DEF Start, Prepare, BeginTurn, Prefetched, OutOfTime, ToolsReturn, ToolsTimeOut,
         OutOfRounds
  <2>3. CASE Ending(r) \/ Leaving(r) \/ Outside(r)
    BY <2>3 DEF Ending, UnknownSkill, CancelledAtTop, ModelTimesOut, CancelledAtModel,
         ModelReplies, SynthesisReplies, Leaving, PrepareRaises, Interrupt, Close,
         InterruptClose, Outside, SetCancel, WallClock
  <2> QED BY <2>1, <2>2, <2>3 DEF Silent
<1> QED BY <1>1, SpecAgentTypeOK, PTL DEF Spec, CancelStopsWork
-----------------------------------------------------------------------------
\* What an append does to the history: the old places keep their messages,
\* the new ones are the turn's own.
LEMMA SayPlaces ==
    ASSUME TypeOK, NEW r \in Runs, NEW kinds \in Seq(Kinds), Say(r, kinds)
    PROVE  /\ Len(Log(r)) \in Nat /\ DOMAIN Log(r) = 1..Len(Log(r)) /\ Len(kinds) \in Nat
           /\ DOMAIN Log(r)' = 1..(Len(Log(r)) + Len(kinds))
           /\ \A n \in DOMAIN Log(r) : Log(r)'[n] = Log(r)[n]
           /\ \A n \in DOMAIN Log(r)' : n \notin DOMAIN Log(r) =>
                 /\ n - Len(Log(r)) \in 1..Len(kinds)
                 /\ Log(r)'[n] = [by |-> r, kind |-> kinds[n - Len(Log(r))]]
           /\ \A q \in Runs : SessionOf[q] = SessionOf[r] => Log(q) = Log(r) /\ Log(q)' = Log(r)'
           /\ \A q \in Runs : SessionOf[q] # SessionOf[r] => Log(q)' = Log(q)
<1> DEFINE M == [by : Runs, kind : Kinds]
           new == [n \in 1..Len(kinds) |-> [by |-> r, kind |-> kinds[n]]]
<1>1. new \in Seq(M) /\ Len(new) = Len(kinds) /\ Len(kinds) \in Nat
  <2>1. Len(kinds) \in Nat /\ \A n \in 1..Len(kinds) : kinds[n] \in Kinds
    OBVIOUS
  <2>2. \A n \in 1..Len(kinds) : [by |-> r, kind |-> kinds[n]] \in M
    BY <2>1
  <2> QED BY <2>1, <2>2, IsASeq
<1>2. SessionOf[r] \in Sessions /\ Log(r) \in Seq(M)
  BY AgentAssumption DEF TypeOK, Log
<1>3. Log(r)' = Log(r) \o new
  BY <1>2 DEF Say, TypeOK, Log
<1>4. /\ Len(Log(r)) \in Nat /\ DOMAIN Log(r) = 1..Len(Log(r))
      /\ DOMAIN Log(r)' = 1..(Len(Log(r)) + Len(kinds))
      /\ \A n \in 1..Len(Log(r)) : Log(r)'[n] = Log(r)[n]
      /\ \A n \in 1..(Len(Log(r)) + Len(kinds)) : n > Len(Log(r)) =>
            Log(r)'[n] = new[n - Len(Log(r))]
  <2> HIDE DEF new
  <2>1. Len(Log(r)) \in Nat /\ DOMAIN Log(r) = 1..Len(Log(r))
    BY <1>2
  <2>2. Log(r)' \in Seq(M) /\ Len(Log(r)') = Len(Log(r)) + Len(kinds)
    BY <1>1, <1>2, <1>3, ConcatProperties
  <2>3. DOMAIN Log(r)' = 1..(Len(Log(r)) + Len(kinds))
    BY <2>2
  <2>4. \A n \in 1..(Len(Log(r)) + Len(new)) :
          Log(r)'[n] = IF n <= Len(Log(r)) THEN Log(r)[n] ELSE new[n - Len(Log(r))]
    BY <1>1, <1>2, <1>3, ConcatProperties
  <2> QED BY <1>1, <2>1, <2>3, <2>4
<1>5. \A q \in Runs : SessionOf[q] # SessionOf[r] => Log(q)' = Log(q)
  BY AgentAssumption DEF Say, TypeOK, Log
<1>6. \A q \in Runs : SessionOf[q] = SessionOf[r] => Log(q) = Log(r) /\ Log(q)' = Log(r)'
  BY DEF Log
<1>7. ASSUME NEW n \in DOMAIN Log(r)', n \notin DOMAIN Log(r)
      PROVE  /\ n - Len(Log(r)) \in 1..Len(kinds)
             /\ Log(r)'[n] = [by |-> r, kind |-> kinds[n - Len(Log(r))]]
  <2>1. n \in 1..(Len(Log(r)) + Len(kinds)) /\ n > Len(Log(r))
    BY <1>1, <1>4, <1>7
  <2>2. n - Len(Log(r)) \in 1..Len(kinds)
    BY <1>1, <1>4, <2>1
  <2>3. Log(r)'[n] = new[n - Len(Log(r))]
    BY <1>4, <2>1
  <2> QED BY <2>2, <2>3
<1>8. \A n \in DOMAIN Log(r) : Log(r)'[n] = Log(r)[n]
  BY <1>4
<1> HIDE DEF new
<1> QED BY <1>1, <1>4, <1>5, <1>6, <1>7, <1>8

\* What another turn says leaves a turn's own part of the history alone.
LEMMA OthersKeepTheirWord ==
    ASSUME TypeOK, NEW r \in Runs, NEW kinds \in Seq(Kinds), Say(r, kinds),
           NEW q \in Runs, q # r
    PROVE  Said(q)' = Said(q) /\ \A n \in Said(q) : Log(q)'[n] = Log(q)[n]
<1>1. CASE SessionOf[q] # SessionOf[r]
  BY <1>1, SayPlaces DEF Said
<1>2. CASE SessionOf[q] = SessionOf[r]
  <2>1. Log(q) = Log(r) /\ Log(q)' = Log(r)'
    BY <1>2, SayPlaces
  <2>2. \A n \in DOMAIN Log(r)' : n \notin DOMAIN Log(r) => Log(r)'[n].by = r
    BY SayPlaces
  <2>3. DOMAIN Log(r) \subseteq DOMAIN Log(r)' /\ \A n \in DOMAIN Log(r) : Log(r)'[n] = Log(r)[n]
    BY SayPlaces
  <2> QED BY <2>1, <2>2, <2>3 DEF Said
<1> QED BY <1>1, <1>2

\* A turn's own words: what it had said, and what it says now behind it.
LEMMA OwnWords ==
    ASSUME TypeOK, NEW r \in Runs, NEW kinds \in Seq(Kinds), Say(r, kinds)
    PROVE  /\ Said(r) \subseteq Said(r)' /\ Said(r)' \subseteq Nat
           /\ \A n \in Said(r) : Log(r)'[n] = Log(r)[n] /\ n <= Len(Log(r))
           /\ \A n \in Said(r)' : n \notin Said(r) =>
                 /\ n > Len(Log(r)) /\ n - Len(Log(r)) \in 1..Len(kinds)
                 /\ Log(r)'[n].kind = kinds[n - Len(Log(r))]
           /\ \A i \in 1..Len(kinds) :
                 /\ Len(Log(r)) + i \in Said(r)' /\ Len(Log(r)) + i \notin Said(r)
                 /\ Log(r)'[Len(Log(r)) + i].kind = kinds[i]
BY SayPlaces DEF Said

\* An answer that was the next word stays the next word.
LEMMA AnswerStays ==
    ASSUME TypeOK, NEW r \in Runs, NEW kinds \in Seq(Kinds), Say(r, kinds),
           NEW n \in Said(r), ResultsNext(r, n)
    PROVE  ResultsNext(r, n)'
<1> PICK k \in Said(r) : /\ k > n /\ Log(r)[k].kind = "results"
                         /\ \A j \in Said(r) : j > n => k <= j
  BY DEF ResultsNext
<1>1. k \in Said(r)' /\ Log(r)'[k].kind = "results" /\ k <= Len(Log(r)) /\ k \in Nat
      /\ Len(Log(r)) \in Nat
  BY OwnWords, SayPlaces
<1>2. \A j \in Said(r)' : j > n => k <= j
  BY <1>1, OwnWords
<1> QED BY <1>1, <1>2 DEF ResultsNext

\* The conversation of a turn: its tool calls are answered, or it is in its
\* tool phase, or it raised; and a verdict "completed" comes with a reply.
Spoken(r) ==
    \A n \in Said(r) :
        Log(r)[n].kind = "uses" =>
            \/ ResultsNext(r, n)
            \/ LastWord(r, n) /\ (pc[r] = "tools" \/ r \in raised)

Rounded(r) ==
    verdicts[r] = <<"completed">> /\ Synthesize =>
        \E n \in Said(r) : Log(r)[n].kind = "reply" /\ LastWord(r, n)

TalkInv == \A r \in Runs : Spoken(r) /\ Rounded(r)

\* A word of a turn without open tool calls: only "uses" opens new ones.
LEMMA OneWord ==
    ASSUME TypeOK, NEW r \in Runs, NEW kind \in Kinds, Say(r, <<kind>>),
           Spoken(r), pc[r] # "tools", r \notin raised,
           kind = "uses" => pc'[r] = "tools"
    PROVE  /\ Spoken(r)'
           /\ \E n \in Said(r)' : Log(r)'[n].kind = kind /\ \A k \in Said(r)' : k <= n
<1> DEFINE words == <<kind>>
           last == Len(Log(r)) + 1
<1>a. words \in Seq(Kinds) /\ Len(words) = 1 /\ words[1] = kind /\ Say(r, words)
  OBVIOUS
<1> HIDE DEF words
<1>0. /\ words \in Seq(Kinds) /\ Len(words) = 1 /\ words[1] = kind /\ Say(r, words)
      /\ Len(Log(r)) \in Nat
  BY <1>a, SayPlaces
<1>1. last \in Said(r)' /\ last \notin Said(r) /\ Log(r)'[last].kind = kind
  <2>1. \A i \in 1..Len(words) :
          /\ Len(Log(r)) + i \in Said(r)' /\ Len(Log(r)) + i \notin Said(r)
          /\ Log(r)'[Len(Log(r)) + i].kind = words[i]
    BY <1>0, OwnWords
  <2>2. 1 \in 1..Len(words)
    BY <1>0
  <2> QED BY <1>0, <2>1, <2>2
<1>2. \A n \in Said(r)' : n <= last /\ (n \notin Said(r) => n = last)
  <2> SUFFICES ASSUME NEW n \in Said(r)' PROVE n <= last /\ (n \notin Said(r) => n = last)
    OBVIOUS
  <2>1. n \in Nat /\ (n \in Said(r) => n <= Len(Log(r)))
    BY <1>0, OwnWords
  <2>2. n \notin Said(r) => n - Len(Log(r)) \in 1..Len(words)
    BY <1>0, OwnWords
  <2>3. n \notin Said(r) => n = last
    BY <1>0, <2>1, <2>2
  <2> QED BY <1>0, <2>1, <2>3
<1>3. ASSUME NEW n \in Said(r)', Log(r)'[n].kind = "uses"
      PROVE  ResultsNext(r, n)' \/ (LastWord(r, n)' /\ pc'[r] = "tools")
  <2>1. CASE n \in Said(r)
    <3>1. ResultsNext(r, n)
      BY <1>0, <1>3, <2>1, OwnWords DEF Spoken
    <3> QED BY <1>0, <2>1, <3>1, AnswerStays
  <2>2. CASE n \notin Said(r)
    BY <1>1, <1>2, <1>3, <2>2 DEF LastWord
  <2> QED BY <2>1, <2>2
<1>4. Spoken(r)'
  BY <1>3 DEF Spoken
<1> QED BY <1>1, <1>2, <1>4

\* The results of a tool phase answer its calls.
LEMMA ResultsAnswer ==
    ASSUME TypeOK, NEW r \in Runs, NEW kinds \in AfterTools, Say(r, kinds), Spoken(r)
    PROVE  Spoken(r)'
<1> DEFINE first == Len(Log(r)) + 1
<1>0. /\ kinds \in Seq(Kinds) /\ Len(kinds) \in 1..2 /\ kinds[1] = "results"
      /\ \A i \in 1..Len(kinds) : kinds[i] # "uses"
  <2>1. CASE kinds = <<"results">>
    BY <2>1 DEF Kinds
  <2>2. CASE kinds = <<"results", "steering">>
    BY <2>2 DEF Kinds
  <2> QED BY <2>1, <2>2 DEF AfterTools
<1>1. Len(Log(r)) \in Nat
  BY <1>0, SayPlaces
<1>2. first \in Said(r)' /\ Log(r)'[first].kind = "results"
  BY <1>0, OwnWords
<1>3. \A n \in Said(r)' : n \notin Said(r) => first <= n /\ Log(r)'[n].kind # "uses"
  BY <1>0, <1>1, OwnWords
<1>4. ASSUME NEW n \in Said(r)', Log(r)'[n].kind = "uses" PROVE ResultsNext(r, n)'
  <2>1. n \in Said(r) /\ Log(r)[n].kind = "uses" /\ n <= Len(Log(r)) /\ n \in Nat
    BY <1>0, <1>3, <1>4, OwnWords
  <2>2. CASE ResultsNext(r, n)
    BY <1>0, <2>1, <2>2, AnswerStays
  <2>3. CASE LastWord(r, n)
    <3>1. \A j \in Said(r)' : j > n => first <= j
      <4> SUFFICES ASSUME NEW j \in Said(r)', j > n PROVE first <= j
        OBVIOUS
      <4>1. j \in Said(r) => j <= n /\ j \in Nat
        BY <2>3, <1>0, OwnWords DEF LastWord
      <4> QED BY <1>3, <2>1, <4>1
    <3> QED BY <1>1, <1>2, <2>1, <3>1 DEF ResultsNext
  <2> QED BY <2>1, <2>2, <2>3 DEF Spoken
<1> QED BY <1>4 DEF Spoken

\* A step that adds no message keeps the conversation of a turn, as long as
\* the turn leaves its tool phase by raising only and is not judged anew.
LEMMA NoWord ==
    ASSUME NEW q \in Runs, messages' = messages, Spoken(q), Rounded(q),
           pc[q] = "tools" => pc'[q] = "tools" \/ q \in raised',
           raised \subseteq raised',
           verdicts'[q] = <<"completed">> /\ Synthesize => verdicts[q] = <<"completed">>
    PROVE  Spoken(q)' /\ Rounded(q)'
<1>1. Log(q)' = Log(q) /\ Said(q)' = Said(q)
  BY DEF Log, Said
<1>2. \A n : (ResultsNext(q, n)' <=> ResultsNext(q, n)) /\ (LastWord(q, n)' <=> LastWord(q, n))
  BY <1>1 DEF ResultsNext, LastWord
<1>3. Spoken(q)'
  BY <1>1, <1>2 DEF Spoken
<1>4. Rounded(q)'
  BY <1>1, <1>2 DEF Rounded
<1> QED BY <1>3, <1>4

\* A word of another turn keeps it too.
LEMMA OthersWord ==
    ASSUME TypeOK, NEW r \in Runs, NEW kinds \in Seq(Kinds), Say(r, kinds),
           NEW q \in Runs, q # r, Spoken(q), Rounded(q),
           pc'[q] = pc[q], raised' = raised, verdicts'[q] = verdicts[q]
    PROVE  Spoken(q)' /\ Rounded(q)'
<1>1. Said(q)' = Said(q) /\ \A n \in Said(q) : Log(q)'[n] = Log(q)[n]
  BY OthersKeepTheirWord
<1>2. \A n \in Said(q) : /\ ResultsNext(q, n) => ResultsNext(q, n)'
                         /\ LastWord(q, n) => LastWord(q, n)'
  BY <1>1 DEF ResultsNext, LastWord
<1>3. Spoken(q)'
  BY <1>1, <1>2 DEF Spoken
<1>4. Rounded(q)'
  BY <1>1, <1>2 DEF Rounded
<1> QED BY <1>3, <1>4

\* The verdict of a turn that has not ended is none, before and after a
\* step that concludes nothing.
LEMMA NotJudgedYet ==
    ASSUME VerdictInv, NEW r \in Runs, pc[r] \notin {"closing", "done"}
    PROVE  verdicts[r] = <<>> /\ r \notin raised /\ verdicts[r] # <<"completed">>
<1>1. verdicts[r] = <<>> /\ r \notin raised
  BY DEF VerdictInv, Judged
<1>2. <<>> # <<"completed">>
  OBVIOUS
<1> QED BY <1>1, <1>2

\* Every step keeps the conversation of every turn.
LEMMA TalkStep == VerdictInv /\ TalkInv /\ [Next]_vars => TalkInv'
<1> SUFFICES ASSUME VerdictInv, TalkInv, [Next]_vars, NEW q \in Runs
             PROVE  Spoken(q)' /\ Rounded(q)'
  BY DEF TalkInv
<1>0. TypeOK /\ Spoken(q) /\ Rounded(q) /\ \A r \in Runs : Spoken(r) /\ Rounded(r)
  BY DEF VerdictInv, TalkInv
<1> USE <1>0 DEF Goto, runVars, envVars, sessionVars
\* A single word that concludes nothing.
<1>1. ASSUME NEW r \in Runs, NEW kind \in Kinds, Say(r, <<kind>>), UNCHANGED <<verdicts, raised>>,
             pc[r] \notin {"tools", "closing", "done"},
             kind = "uses" => pc'[r] = "tools",
             \A p \in Runs : p # r => pc'[p] = pc[p]
      PROVE  Spoken(q)' /\ Rounded(q)'
  <2>1. CASE q = r
    <3>1. r \notin raised /\ verdicts'[r] # <<"completed">>
      BY <1>1, NotJudgedYet
    <3>2. Spoken(r)'
      BY <1>1, <3>1, OneWord
    <3> QED BY <2>1, <3>1, <3>2 DEF Rounded
  <2>2. CASE q # r
    <3>1. <<kind>> \in Seq(Kinds)
      OBVIOUS
    <3> QED BY <1>1, <2>2, <3>1, OthersWord
  <2> QED BY <2>1, <2>2
<1>2. ASSUME NEW r \in Runs, ToolsReturn(r) \/ ToolsTimeOut(r) PROVE Spoken(q)' /\ Rounded(q)'
  <2>1. PICK kinds \in AfterTools : Say(r, kinds)
    BY <1>2 DEF ToolsReturn, ToolsTimeOut
  <2>2. /\ UNCHANGED <<verdicts, raised>> /\ pc[r] = "tools"
        /\ \A p \in Runs : p # r => pc'[p] = pc[p]
    BY <1>2 DEF ToolsReturn, ToolsTimeOut, TypeOK
  <2>3. CASE q = r
    <3>1. verdicts'[r] # <<"completed">>
      BY <2>2, NotJudgedYet
    <3>2. Spoken(r)'
      BY <2>1, ResultsAnswer
    <3> QED BY <2>3, <3>1, <3>2 DEF Rounded
  <2>4. CASE q # r
    <3>1. kinds \in Seq(Kinds)
      <4>1. CASE kinds = <<"results">>
        BY <4>1 DEF Kinds
      <4>2. CASE kinds = <<"results", "steering">>
        BY <4>2 DEF Kinds
      <4> QED BY <2>1, <4>1, <4>2 DEF AfterTools
    <3> QED BY <2>1, <2>2, <2>4, <3>1, OthersWord
  <2> QED BY <2>3, <2>4
<1>3. ASSUME NEW r \in Runs, ModelReplies(r) \/ SynthesisReplies(r) PROVE Spoken(q)' /\ Rounded(q)'
  <2>1. /\ Say(r, <<"reply">>) /\ "reply" \in Kinds /\ UNCHANGED raised
        /\ pc[r] \in {"llm", "synthesis"}
        /\ \A p \in Runs : p # r => pc'[p] = pc[p] /\ verdicts'[p] = verdicts[p]
    BY <1>3 DEF ModelReplies, SynthesisReplies, Conclude, Kinds, TypeOK
  <2>2. CASE q = r
    <3>1. r \notin raised
      BY <2>1, NotJudgedYet
    <3>2. /\ Spoken(r)'
          /\ \E n \in Said(r)' : Log(r)'[n].kind = "reply" /\ \A k \in Said(r)' : k <= n
      BY <2>1, <3>1, OneWord
    <3> QED BY <2>2, <3>2 DEF Rounded, LastWord
  <2>3. CASE q # r
    <3>1. <<"reply">> \in Seq(Kinds)
      BY <2>1
    <3> QED BY <2>1, <2>3, <3>1, OthersWord
  <2> QED BY <2>2, <2>3
\* The steps without a word.
<1>4. ASSUME NEW r \in Runs, Start(r) \/ Prepare(r) \/ Prefetched(r) \/ CallModel(r)
      PROVE  Spoken(q)' /\ Rounded(q)'
  BY <1>4, NoWord DEF Start, Prepare, Prefetched, CallModel, TypeOK
<1>5. ASSUME NEW r \in Runs, NEW v \in {"cancelled", "error"}, Conclude(r, v),
             UNCHANGED <<messages, raised>>, pc[r] \notin {"tools", "closing", "done"},
             \A p \in Runs : p # r => pc'[p] = pc[p]
      PROVE  Spoken(q)' /\ Rounded(q)'
  <2>1. verdicts'[q] # <<"completed">> \/ verdicts'[q] = verdicts[q]
    <3>1. CASE q = r
      <4>1. verdicts[r] = <<>>
        BY <1>5, NotJudgedYet
      <4>2. verdicts'[r] = <<v>>
        BY <1>5, <4>1, ConcludeKeepsType DEF Verdicts
      <4> QED BY <3>1, <4>2
    <3>2. CASE q # r
      BY <1>5, <3>2 DEF Conclude, TypeOK
    <3> QED BY <3>1, <3>2
  <2> QED BY <1>5, <2>1, NoWord
<1>6. ASSUME NEW r \in Runs,
             UnknownSkill(r) \/ CancelledAtTop(r) \/ ModelTimesOut(r) \/ CancelledAtModel(r)
      PROVE  Spoken(q)' /\ Rounded(q)'
  <2>1. /\ \E v \in {"cancelled", "error"} : Conclude(r, v)
        /\ UNCHANGED <<messages, raised>> /\ pc[r] \notin {"tools", "closing", "done"}
        /\ \A p \in Runs : p # r => pc'[p] = pc[p]
    BY <1>6 DEF UnknownSkill, CancelledAtTop, ModelTimesOut, CancelledAtModel, TypeOK
  <2> QED BY <1>5, <2>1
<1>7. ASSUME NEW r \in Runs, BeginTurn(r) \/ OutOfTime(r) \/ ModelCallsTools(r)
      PROVE  Spoken(q)' /\ Rounded(q)'
  <2>1. /\ \E kind \in Kinds : Say(r, <<kind>>) /\ (kind = "uses" => pc'[r] = "tools")
        /\ UNCHANGED <<verdicts, raised>> /\ pc[r] \notin {"tools", "closing", "done"}
        /\ \A p \in Runs : p # r => pc'[p] = pc[p]
    BY <1>7 DEF BeginTurn, OutOfTime, ModelCallsTools, Kinds, TypeOK
  <2> QED BY <1>1, <2>1
<1>8. ASSUME NEW r \in Runs, OutOfRounds(r) PROVE Spoken(q)' /\ Rounded(q)'
  <2>1. CASE Synthesize
    <3>1. /\ Say(r, <<"steering">>) /\ "steering" \in Kinds /\ UNCHANGED <<verdicts, raised>>
          /\ pc[r] = "top" /\ \A p \in Runs : p # r => pc'[p] = pc[p]
      BY <1>8, <2>1 DEF OutOfRounds, Kinds, TypeOK
    <3> QED BY <1>1, <3>1
  <2>2. CASE ~Synthesize
    <3>1. messages' = messages /\ raised' = raised /\ (pc[q] = "tools" => pc'[q] = "tools")
      BY <1>8, <2>2 DEF OutOfRounds, TypeOK
    <3> QED BY <2>2, <3>1, NoWord
  <2> QED BY <2>1, <2>2
<1>9. ASSUME NEW r \in Runs, Leaving(r) \/ Outside(r) PROVE Spoken(q)' /\ Rounded(q)'
  <2>1. /\ messages' = messages /\ verdicts' = verdicts /\ raised \subseteq raised'
        /\ pc[q] = "tools" => pc'[q] = "tools" \/ q \in raised'
    BY <1>9 DEF Leaving, PrepareRaises, Interrupt, Close, InterruptClose, Outside, SetCancel,
         WallClock, TypeOK
  <2> QED BY <2>1, NoWord
<1>10. CASE UNCHANGED vars
  BY <1>10, NoWord DEF vars
<1> QED BY <1>2, <1>3, <1>4, <1>6, <1>7, <1>8, <1>9, <1>10, NextGroups DEF Silent, Ending

\* Every turn's tool calls are answered and its good end is a reply.
THEOREM SpecTalkInv == Spec => []TalkInv
<1>1. Init => TalkInv
  <2> SUFFICES ASSUME Init, NEW r \in Runs PROVE Spoken(r) /\ Rounded(r)
    BY DEF TalkInv
  <2>1. Log(r) = <<>> /\ verdicts[r] = <<>>
    BY AgentAssumption DEF Init, Log
  <2>2. Said(r) = {}
    BY <2>1 DEF Said
  <2> QED BY <2>1, <2>2 DEF Spoken, Rounded
<1> QED BY <1>1, TalkStep, SpecVerdictInv, PTL DEF Spec

\* No turn leaves tool calls without results, unless it raised.
THEOREM SpecToolCallsAnswered == Spec => []ToolCallsAnswered
<1>1. TalkInv => ToolCallsAnswered
  BY DEF TalkInv, Spoken, ToolCallsAnswered
<1> QED BY <1>1, SpecTalkInv, PTL

\* A turn that completed with synthesis on has left a reply as its last word.
THEOREM SpecEndsWithReply == Spec => []EndsWithReply
<1>1. TalkInv => EndsWithReply
  BY DEF TalkInv, Rounded, EndsWithReply
<1> QED BY <1>1, SpecTalkInv, PTL
=============================================================================
