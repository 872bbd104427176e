------------------------- MODULE ToolExecutionProofs -------------------------
(***************************************************************************)
(* Proofs about ToolExecution for any finite set of calls, any assignment  *)
(* of calls to sub-agents, and any number of permits and attempts.  ToolInv*)
(* is the inductive invariant behind the safety properties, StepInv the one*)
(* behind the refinement of ToolStep.                                      *)
(***************************************************************************)
EXTENDS ToolExecution, FiniteSetTheorems, TLAPS

\* A call that waits for a permit, or ever had one, passed the approval.
Approved(c) ==
    /\ c \in Sensitive /\ state[c] = "queued" => c \in approved
    /\ c \in Sensitive /\ attempt[c] > 0 => c \in approved
    /\ state[c] = "running" => attempt[c] > 0

\* A call below a sub-agent is active only inside the sub-agent's open phase.
Sheltered(c) ==
    ParentOf[c] # Top /\ state[c] \in Active =>
        state[ParentOf[c]] = "running" /\ phase[ParentOf[c]] = "open"

\* Results appear when a call ends, and a success only after it ran.
Reported(c) ==
    /\ state[c] = "finished" => result[c] # "none"
    /\ result[c] = "ok" => attempt[c] > 0 /\ state[c] = "finished"
    /\ phase[ParentOf[c]] = "over" => result[c] # "none"

\* Before the phase of the turn nothing has been started in it.
Unstarted(c) == phase[Top] = "closed" /\ ParentOf[c] = Top => state[c] = "absent"

\* Only sensitive calls ask, and one that waits for a permit has an attempt left.
Waits(c) ==
    /\ state[c] = "asking" => c \in Sensitive
    /\ state[c] \in {"new", "asking"} => attempt[c] = 0
    /\ state[c] = "queued" => attempt[c] < Attempts

CallInv(c) == Waits(c) /\ Approved(c) /\ Sheltered(c) /\ Reported(c) /\ Unstarted(c)

ToolInv == TypeOK /\ \A c \in Calls : CallInv(c)

\* The parent of a call has a phase, and is a call itself unless it is Top.
LEMMA ParentFacts ==
    ASSUME NEW c \in Calls
    PROVE  /\ ParentOf[c] \in Parents
           /\ ParentOf[c] # Top => ParentOf[c] \in Calls /\ ParentOf[ParentOf[c]] = Top
           /\ c # Top /\ c \in Children(ParentOf[c])
BY ToolAssumption DEF Parents, Children

\* A phase with a call and not more than one has just that call.
LEMMA OnlyChild ==
    ASSUME NEW p, NEW c \in Children(p), ~(Cardinality(Children(p)) > 1)
    PROVE  Children(p) = {c}
<1>1. IsFiniteSet(Children(p))
  <2>1. Children(p) \subseteq Calls
    BY DEF Children
  <2> QED BY <2>1, ToolAssumption, FS_Subset
<1>2. IsFiniteSet(Children(p) \ {c}) /\ Cardinality(Children(p) \ {c}) = Cardinality(Children(p)) - 1
  BY <1>1, FS_RemoveElement
<1>3. Cardinality(Children(p)) \in Nat /\ Cardinality(Children(p) \ {c}) \in Nat
  BY <1>1, <1>2, FS_CardinalityType
<1>4. Cardinality(Children(p) \ {c}) = 0
  BY <1>2, <1>3
<1>5. Children(p) \ {c} = {}
  BY <1>2, <1>4, FS_EmptySet
<1> QED BY <1>5

LEMMA InitToolInv == Init => ToolInv
BY ToolAssumption, ParentFacts DEF Init, ToolInv, TypeOK, CallInv, Waits, Approved,
   Sheltered, Reported, Unstarted, Active, Parents

\* Every step keeps the types.
LEMMA ToolTypeStep == ToolInv /\ [Next]_vars => TypeOK'
<1> SUFFICES ASSUME ToolInv, [Next]_vars PROVE TypeOK'
  OBVIOUS
<1> USE ToolAssumption DEF ToolInv, TypeOK, Active
<1>1. ASSUME NEW p \in Parents, OpenPhase(p) PROVE TypeOK'
  BY <1>1 DEF OpenPhase
<1>2. ASSUME NEW p \in Parents, ClosePhase(p) PROVE TypeOK'
  BY <1>2 DEF ClosePhase
<1>3. ASSUME NEW p \in Parents, PhaseTimeout(p) PROVE TypeOK'
  BY <1>3 DEF PhaseTimeout, TimeoutResults
<1>4. ASSUME NEW c \in Calls, Refuse(c) \/ Deny(c) PROVE TypeOK'
  BY <1>4 DEF Refuse, Deny, Fail
<1>5. ASSUME NEW c \in Calls, AskApproval(c) \/ Enqueue(c) PROVE TypeOK'
  BY <1>5 DEF AskApproval, Enqueue
<1>6. ASSUME NEW c \in Calls, Allow(c) PROVE TypeOK'
  BY <1>6 DEF Allow, CallInv, Waits
<1>7. ASSUME NEW c \in Calls, HookRaises(c) PROVE TypeOK'
  BY <1>7 DEF HookRaises, Fail
<1>8. ASSUME NEW c \in Calls, Acquire(c) PROVE TypeOK'
  BY <1>8 DEF Acquire, CallInv, Waits
<1>9. ASSUME NEW c \in Calls, Succeed(c) PROVE TypeOK'
  BY <1>9 DEF Succeed
<1>10. ASSUME NEW c \in Calls, Stumble(c) PROVE TypeOK'
  BY <1>10 DEF Stumble, Fail
<1>11. CASE UNCHANGED vars
  BY <1>11 DEF vars
<1> QED
  BY <1>1, <1>2, <1>3, <1>4, <1>5, <1>6, <1>7, <1>8, <1>9, <1>10, <1>11 DEF Next, Step

\* A step of one call that changes its own entries only.
LEMMA OwnStep ==
    ASSUME NEW c \in Calls, NEW j \in Calls, ToolInv, TypeOK',
           \/ Refuse(c) \/ AskApproval(c) \/ Allow(c) \/ Deny(c) \/ Enqueue(c) \/ Acquire(c)
    PROVE  CallInv(j)'
<1> USE ToolAssumption, ParentFacts
    DEF ToolInv, TypeOK, CallInv, Waits, Approved, Sheltered, Reported, Unstarted, Active
<1>1. CASE Refuse(c) \/ Deny(c)
  BY <1>1 DEF Refuse, Deny, Fail
<1>2. CASE AskApproval(c) \/ Enqueue(c)
  BY <1>2 DEF AskApproval, Enqueue, AsksUser
<1>3. CASE Allow(c)
  BY <1>3 DEF Allow
<1>4. CASE Acquire(c)
  BY <1>4 DEF Acquire
<1> QED BY <1>1, <1>2, <1>3, <1>4

\* A call that ends or is tried again: if it is a sub-agent its phase is not
\* open, so nothing below it is active.
LEMMA EndOfRun ==
    ASSUME NEW c \in Calls, NEW j \in Calls, ToolInv, TypeOK', Succeed(c) \/ Stumble(c)
    PROVE  CallInv(j)'
<1> USE ToolAssumption, ParentFacts
    DEF ToolInv, TypeOK, CallInv, Waits, Approved, Sheltered, Reported, Unstarted, Active
<1>1. ASSUME c \in SubAgents PROVE phase[c] # "open"
  BY <1>1 DEF Succeed, Stumble
<1>2. ParentOf[j] = c => c \in SubAgents
  OBVIOUS
<1>3. CASE Succeed(c)
  BY <1>1, <1>2, <1>3 DEF Succeed, Parents
<1>4. CASE Stumble(c) /\ MayRetry(c)
  BY <1>1, <1>2, <1>4 DEF Stumble, MayRetry, Parents
<1>5. CASE Stumble(c) /\ ~MayRetry(c)
  BY <1>1, <1>2, <1>5 DEF Stumble, Fail, Parents
<1> QED BY <1>3, <1>4, <1>5

\* An exception in a hook: with siblings it is one failed call; alone it ends
\* the phase, in which there is nobody else.
LEMMA HookStep ==
    ASSUME NEW c \in Calls, NEW j \in Calls, ToolInv, TypeOK', HookRaises(c)
    PROVE  CallInv(j)'
<1> USE ToolAssumption, ParentFacts
    DEF ToolInv, TypeOK, CallInv, Waits, Approved, Sheltered, Reported, Unstarted, Active
<1>1. CASE Cardinality(Children(ParentOf[c])) > 1
  BY <1>1 DEF HookRaises, Fail
<1>2. CASE ~(Cardinality(Children(ParentOf[c])) > 1)
  <2>1. Children(ParentOf[c]) = {c}
    BY <1>2, OnlyChild
  <2>2. ParentOf[j] = ParentOf[c] => j = c
    BY <2>1 DEF Children
  <2> QED BY <1>2, <2>2 DEF HookRaises
<1> QED BY <1>1, <1>2

\* The beginning and the two ends of a phase.
LEMMA PhaseStep ==
    ASSUME NEW p \in Parents, NEW j \in Calls, ToolInv, TypeOK',
           OpenPhase(p) \/ ClosePhase(p) \/ PhaseTimeout(p)
    PROVE  CallInv(j)'
<1> USE ToolAssumption, ParentFacts
    DEF ToolInv, TypeOK, CallInv, Waits, Approved, Sheltered, Reported, Unstarted, Active
<1>1. CASE OpenPhase(p)
  <2>1. ParentOf[j] # Top => ParentOf[j] \in Calls /\ ParentOf[ParentOf[j]] = Top
    OBVIOUS
  <2>2. CASE p = Top
    BY <1>1, <2>1, <2>2 DEF OpenPhase, Children
  <2>3. CASE p # Top
    BY <1>1, <2>1, <2>3 DEF OpenPhase, Children, Parents
  <2> QED BY <2>2, <2>3
<1>2. CASE ClosePhase(p)
  BY <1>2 DEF ClosePhase, Children
<1>3. CASE PhaseTimeout(p)
  <2>1. j \in Children(p) <=> ParentOf[j] = p
    BY DEF Children
  <2>2. ParentOf[j] \in Children(p) => j \in Below(p) /\ p = Top
    BY DEF Below, Children, Parents
  <2>3. phase'[ParentOf[j]] = IF ParentOf[j] = p THEN "over"
                              ELSE IF ParentOf[j] \in Children(p) THEN "closed"
                              ELSE phase[ParentOf[j]]
    BY <1>3 DEF PhaseTimeout
  <2>4. /\ state'[j] = IF j \in Below(p) /\ state[j] \in Active THEN "aborted" ELSE state[j]
        /\ result'[j] = IF j \in Children(p) THEN "error" ELSE result[j]
        /\ UNCHANGED <<attempt, approved>>
    BY <1>3 DEF PhaseTimeout, TimeoutResults
  <2>5. Waits(j)' /\ Approved(j)' /\ Reported(j)'
    BY <2>1, <2>3, <2>4
  <2>6. Unstarted(j)'
    BY <1>3, <2>4 DEF PhaseTimeout, Children
  <2>7. Sheltered(j)'
    <3> SUFFICES ASSUME ParentOf[j] # Top, state'[j] \in Active
                 PROVE  state'[ParentOf[j]] = "running" /\ phase'[ParentOf[j]] = "open"
      OBVIOUS
    <3>1. j \notin Below(p) /\ state[j] \in Active
      BY <2>4
    <3>2. ParentOf[j] # p /\ ParentOf[j] \notin Children(p)
      BY <2>1, <2>2, <3>1 DEF Below
    <3>3. ParentOf[j] \in Calls /\ state[ParentOf[j]] = "running" /\ phase[ParentOf[j]] = "open"
      BY <3>1
    <3>4. ParentOf[j] \notin Below(p)
      BY <3>2, <3>3 DEF Below, Children, Parents
    <3> QED BY <1>3, <2>3, <3>2, <3>3, <3>4 DEF PhaseTimeout
  <2> QED BY <2>5, <2>6, <2>7
<1> QED BY <1>1, <1>2, <1>3

\* Every step keeps the invariant.
LEMMA NextToolInv == ToolInv /\ [Next]_vars => ToolInv'
<1> SUFFICES ASSUME ToolInv, [Next]_vars PROVE ToolInv'
  OBVIOUS
<1>1. TypeOK'
  BY ToolTypeStep
<1>2. ASSUME NEW j \in Calls PROVE CallInv(j)'
  <2>1. CASE Next
    BY <1>1, <2>1, OwnStep, EndOfRun, HookStep, PhaseStep DEF Next, Step
  <2>2. CASE UNCHANGED vars
    BY <2>2 DEF vars, ToolInv, CallInv, Waits, Approved, Sheltered, Reported, Unstarted
  <2> QED BY <2>1, <2>2
<1> QED BY <1>1, <1>2 DEF ToolInv

\* The invariant holds in every reachable state of the tool phase.
THEOREM SpecToolInv == Spec => []ToolInv
BY InitToolInv, NextToolInv, PTL DEF Spec

\* Type correctness of the calls and the phases.
THEOREM SpecToolTypeOK == Spec => []TypeOK
<1>1. ToolInv => TypeOK
  BY DEF ToolInv
<1> QED BY <1>1, SpecToolInv, PTL

\* No sensitive tool runs before the user allowed that call: at any nesting, on
\* any attempt, with any number of permits.
THEOREM SpecApprovedBeforeRun == Spec => []ApprovedBeforeRun
<1>1. ToolInv => ApprovedBeforeRun
  BY ToolAssumption DEF ToolInv, CallInv, Approved, ApprovedBeforeRun
<1> QED BY <1>1, SpecToolInv, PTL

\* No tool of a sub-agent outlives the phase of the sub-agent or the sub-agent.
THEOREM SpecNoStrayTools == Spec => []NoStrayTools
<1>1. ToolInv => NoStrayTools
  BY DEF ToolInv, CallInv, Sheltered, NoStrayTools
<1> QED BY <1>1, SpecToolInv, PTL

\* A phase that is over has a result for every call, and success means it ran.
THEOREM SpecAllCallsAnswered == Spec => []AllCallsAnswered
<1>1. ToolInv => AllCallsAnswered
  BY DEF ToolInv, CallInv, Reported, AllCallsAnswered, Children
<1> QED BY <1>1, SpecToolInv, PTL

-----------------------------------------------------------------------------
\* Once the tool phase of the turn has ended, none of its calls acts.
Quiet(c) == ParentOf[c] = Top /\ phase[Top] \in {"over", "raised"} => state[c] \notin Active

StepInv == ToolInv /\ \A c \in Calls : Quiet(c)

\* The phase of the turn is over or raised in the step of one of its calls
\* only: then the call was the only one.
LEMMA TopRaises ==
    ASSUME StepInv, NEW c \in Calls, HookRaises(c), phase'[Top] # phase[Top]
    PROVE  /\ ParentOf[c] = Top /\ Children(Top) = {c}
           /\ phase[Top] \in {"closed", "open"} /\ phase'[Top] = "raised"
           /\ state' = [state EXCEPT ![c] = "aborted"] /\ UNCHANGED result
<1> USE DEF StepInv, ToolInv, TypeOK, Parents
<1>1. ~(Cardinality(Children(ParentOf[c])) > 1)
  BY DEF HookRaises, Fail
<1>2. /\ state' = [state EXCEPT ![c] = "aborted"] /\ UNCHANGED result
      /\ phase' = [phase EXCEPT ![ParentOf[c]] = "raised"]
  BY <1>1 DEF HookRaises
<1>3. ParentOf[c] = Top /\ phase'[Top] = "raised"
  BY <1>2
<1>4. Children(Top) = {c}
  BY <1>1, <1>3, ParentFacts, OnlyChild
<1>5. phase[Top] \notin {"over", "raised"}
  BY <1>3 DEF Quiet, HookRaises, Active
<1> QED BY <1>2, <1>3, <1>4, <1>5

\* How a step changes the phase of the turn: not at all, by starting it, or
\* by one of its three ends, each from a phase that has not ended.
LEMMA TopChanges ==
    ASSUME StepInv, Next, phase'[Top] # phase[Top]
    PROVE  \/ OpenPhase(Top) \/ ClosePhase(Top) \/ PhaseTimeout(Top)
           \/ \E c \in Calls : HookRaises(c)
<1> USE ToolAssumption DEF StepInv, ToolInv, TypeOK, Parents
<1>1. ASSUME NEW c \in Calls, Step(c) PROVE HookRaises(c)
  <2>1. CASE \/ Refuse(c) \/ AskApproval(c) \/ Allow(c) \/ Deny(c) \/ Enqueue(c) \/ Acquire(c)
    BY <2>1 DEF Refuse, AskApproval, Allow, Deny, Enqueue, Acquire
  <2>2. CASE Succeed(c) \/ Stumble(c)
    BY <2>2, ParentFacts DEF Succeed, Stumble
  <2> QED BY <1>1, <2>1, <2>2 DEF Step
<1>2. ASSUME NEW p \in Parents, OpenPhase(p) \/ ClosePhase(p) \/ PhaseTimeout(p), p # Top
      PROVE  FALSE
  <2>1. Top \notin Children(p)
    BY DEF Children
  <2> QED BY <1>2, <2>1 DEF OpenPhase, ClosePhase, PhaseTimeout
<1> QED BY <1>1, <1>2 DEF Next

\* A call becomes active by its own step, which an inactive one cannot take,
\* or when its phase opens.
LEMMA NobodyWakes ==
    ASSUME StepInv, Next, NEW j \in Calls, state[j] \notin Active, state'[j] \in Active
    PROVE  OpenPhase(ParentOf[j])
<1> USE ToolAssumption DEF StepInv, ToolInv, TypeOK, Active
<1>1. ASSUME NEW c \in Calls, Step(c) PROVE FALSE
  <2>1. state[c] \in Active /\ \A d \in Calls \ {c} : state'[d] = state[d]
    BY <1>1 DEF Step, Refuse, AskApproval, Allow, Deny, Enqueue, HookRaises, Acquire,
       Succeed, Stumble, Fail
  <2> QED BY <2>1
<1>2. ASSUME NEW p \in Parents, ClosePhase(p) \/ PhaseTimeout(p) PROVE FALSE
  BY <1>2 DEF ClosePhase, PhaseTimeout
<1>3. ASSUME NEW p \in Parents, OpenPhase(p) PROVE p = ParentOf[j]
  BY <1>3 DEF OpenPhase, Children
<1> QED BY <1>1, <1>2, <1>3 DEF Next

\* When the phase of the turn ends no call of it is left active.
LEMMA EndsQuiet ==
    ASSUME StepInv, ToolInv', Next, phase'[Top] # phase[Top], phase'[Top] # "open",
           NEW j \in Calls, ParentOf[j] = Top
    PROVE  state'[j] \notin Active
<1> USE ToolAssumption DEF StepInv, ToolInv, TypeOK
<1>1. j \in Children(Top) /\ j \in Below(Top)
  BY DEF Children, Below
<1>2. CASE OpenPhase(Top)
  BY <1>2 DEF OpenPhase, Parents
<1>3. CASE ClosePhase(Top)
  BY <1>1, <1>3 DEF ClosePhase, Active
<1>4. CASE PhaseTimeout(Top)
  BY <1>1, <1>4 DEF PhaseTimeout, Active
<1>5. ASSUME NEW c \in Calls, HookRaises(c) PROVE state'[j] \notin Active
  <2>1. j = c /\ state' = [state EXCEPT ![c] = "aborted"]
    BY <1>1, <1>5, TopRaises
  <2> QED BY <2>1 DEF Active
<1> QED BY <1>2, <1>3, <1>4, <1>5, TopChanges

\* Every step keeps the invariant.
LEMMA NextStepInv == StepInv /\ [Next]_vars => StepInv'
<1> SUFFICES ASSUME StepInv, [Next]_vars PROVE StepInv'
  OBVIOUS
<1>1. ToolInv'
  BY NextToolInv DEF StepInv
<1>2. CASE UNCHANGED vars
  BY <1>1, <1>2 DEF StepInv, Quiet, vars
<1>3. ASSUME Next, NEW j \in Calls, ParentOf[j] = Top, phase'[Top] \in {"over", "raised"}
      PROVE  state'[j] \notin Active
  <2>1. CASE phase'[Top] # phase[Top]
    BY <1>1, <1>3, <2>1, EndsQuiet
  <2>2. CASE phase'[Top] = phase[Top]
    <3>1. state[j] \notin Active
      BY <1>3, <2>2 DEF StepInv, Quiet
    <3>2. ~OpenPhase(ParentOf[j])
      BY <1>3, <2>2 DEF OpenPhase
    <3> QED BY <1>3, <3>1, <3>2, NobodyWakes
  <2> QED BY <2>1, <2>2
<1> QED BY <1>1, <1>2, <1>3 DEF StepInv, Quiet

\* The invariant of the refinement, in every reachable state.
LEMMA SpecStepInv == Spec => []StepInv
<1>1. Init => StepInv
  BY InitToolInv DEF Init, StepInv, Quiet, Active
<1> QED BY <1>1, NextStepInv, PTL DEF Spec

\* After the phase of the turn nothing acts at any depth: a call below a sub-
\* agent acts only while the sub-agent does.
LEMMA NothingActs ==
    StepInv /\ phase[Top] \in {"over", "raised"} => ~(\E c \in Calls : state[c] \in Active)
<1> SUFFICES ASSUME StepInv, phase[Top] \in {"over", "raised"},
                    NEW c \in Calls, state[c] \in Active
             PROVE  FALSE
  OBVIOUS
<1>1. CASE ParentOf[c] = Top
  BY <1>1 DEF StepInv, Quiet
<1>2. CASE ParentOf[c] # Top
  <2>1. state[ParentOf[c]] = "running"
    BY <1>2 DEF StepInv, ToolInv, CallInv, Sheltered
  <2>2. ParentOf[c] \in Calls /\ ParentOf[ParentOf[c]] = Top
    BY <1>2, ParentFacts
  <2> QED BY <2>1, <2>2 DEF StepInv, Quiet, Active
<1> QED BY <1>1, <1>2

\* The results of the turn's calls do not change once it has been handed them.
LEMMA ResultsFinal ==
    ASSUME StepInv, Next, phase[Top] = "over", phase'[Top] = "over",
           NEW j \in Children(Top)
    PROVE  result'[j] = result[j]
<1> USE ToolAssumption DEF StepInv, ToolInv, TypeOK
<1>1. j \in Calls /\ ParentOf[j] = Top /\ state[j] \notin Active
  BY DEF Children, Quiet
<1>2. ASSUME NEW c \in Calls, Step(c) PROVE result'[j] = result[j]
  <2>1. state[c] \in Active /\ \A d \in Calls \ {c} : result'[d] = result[d]
    BY <1>2 DEF Active, Step, Refuse, AskApproval, Allow, Deny, Enqueue, HookRaises, Acquire,
       Succeed, Stumble, Fail
  <2> QED BY <1>1, <2>1
<1>3. ASSUME NEW p \in Parents, OpenPhase(p) \/ ClosePhase(p) \/ PhaseTimeout(p)
      PROVE  result'[j] = result[j]
  <2>1. CASE p = Top
    BY <1>3, <2>1 DEF OpenPhase, ClosePhase, PhaseTimeout
  <2>2. CASE p # Top
    <3>1. j \notin Children(p)
      BY <1>1, <2>2 DEF Children
    <3> QED BY <1>1, <1>3, <3>1 DEF OpenPhase, ClosePhase, PhaseTimeout, TimeoutResults
  <2> QED BY <2>1, <2>2
<1> QED BY <1>2, <1>3 DEF Next

\* Every step of the calls is a step of ToolStep, or changes nothing in it.
LEMMA NextImplementsStep ==
    StepInv /\ StepInv' /\ [Next]_vars => [Stepped!StepNext]_(Stepped!stepVars)
<1> SUFFICES ASSUME StepInv, StepInv', [Next]_vars
             PROVE  [Stepped!StepNext]_(Stepped!stepVars)
  OBVIOUS
<1> DEFINE results == [c \in Children(Top) |-> HandedOver(c)]
           acting  == \E c \in Calls : state[c] \in Active
<1>0. /\ phase[Top] \in {"closed", "open", "over", "raised"}
      /\ phase'[Top] \in {"closed", "open", "over", "raised"}
  BY DEF StepInv, ToolInv, TypeOK, Parents
<1>1. CASE UNCHANGED vars
  BY <1>1 DEF vars, Place, HandedOver, Stepped!stepVars
<1>2. (StepInv /\ phase[Top] \in {"over", "raised"} => ~acting)'
  BY NothingActs, PTL
<1>3. ASSUME Next, phase[Top] \in {"closed", "open"}, phase'[Top] \in {"closed", "open"}
      PROVE  Stepped!Work
  <2>1. Place = "tools" /\ Place' = "tools"
    BY <1>3 DEF Place
  <2>2. results' = results
    BY <1>3 DEF HandedOver
  <2>3. acting' \in BOOLEAN
    OBVIOUS
  <2> QED BY <2>1, <2>2, <2>3 DEF Stepped!Work
<1>4. ASSUME Next, phase[Top] \in {"over", "raised"}, phase'[Top] = phase[Top]
      PROVE  UNCHANGED Stepped!stepVars
  <2>1. Place' = Place
    BY <1>4 DEF Place
  <2>2. results' = results
    BY <1>4, ResultsFinal DEF HandedOver
  <2>3. ~acting /\ ~acting'
    BY <1>2, <1>4, NothingActs
  <2> QED BY <2>1, <2>2, <2>3 DEF Stepped!stepVars
<1>5. ASSUME Next, phase'[Top] # phase[Top], phase'[Top] \in {"over", "raised"}
      PROVE  phase[Top] \in {"closed", "open"}
  BY <1>5, TopChanges, TopRaises DEF OpenPhase, ClosePhase, PhaseTimeout
<1>6. ASSUME Next, phase'[Top] # phase[Top], phase'[Top] = "over"
      PROVE  Stepped!ToolsReturn
  <2>1. Place = "tools" /\ Place' = "top"
    BY <1>5, <1>6 DEF Place
  <2>2. ~acting'
    BY <1>2, <1>6
  <2>3. results' \in [Children(Top) -> {"ok", "error"}]
    <3>1. \A c \in Children(Top) : c \in Calls /\ ParentOf[c] = Top
      BY DEF Children
    <3>2. \A c \in Children(Top) : result'[c] \in {"ok", "error"}
      BY <1>6, <3>1 DEF StepInv, ToolInv, TypeOK, CallInv, Reported
    <3> QED BY <1>6, <3>2 DEF HandedOver
  <2> QED BY <2>1, <2>2, <2>3 DEF Stepped!ToolsReturn
<1>7. ASSUME Next, phase'[Top] # phase[Top], phase'[Top] = "raised"
      PROVE  Stepped!Interrupt
  <2>1. Place = "tools" /\ Place' = "closing"
    BY <1>5, <1>7 DEF Place
  <2>2. ~acting'
    BY <1>2, <1>7
  <2>3. results' = results
    BY <1>5, <1>7 DEF HandedOver
  <2>4. PICK c \in Calls : HookRaises(c)
    BY <1>7, TopChanges DEF OpenPhase, ClosePhase, PhaseTimeout, StepInv, ToolInv, TypeOK, Parents
  <2>5. c \in Children(Top) /\ Children(Top) = {c}
    BY <1>7, <2>4, TopRaises
  <2> QED BY <2>1, <2>2, <2>3, <2>5 DEF Stepped!Interrupt
<1>8. ASSUME Next, phase[Top] \in {"over", "raised"}, phase'[Top] # phase[Top] PROVE FALSE
  BY <1>8, TopChanges, TopRaises
     DEF OpenPhase, ClosePhase, PhaseTimeout
<1> QED
  BY <1>0, <1>1, <1>3, <1>4, <1>6, <1>7, <1>8 DEF Stepped!StepNext

\* The tool phase, with permits, approvals, attempts and sub-agents, implements
\* the step that the loop of the turn takes it for, for any tree of calls: all
\* results at once or an exception of a single call, nothing below it at work
\* when the turn goes on, and results that stay what they were.
THEOREM SpecImplementsToolStep == Spec => ImplementsToolStep
<1>1. Init => Stepped!StepInit
  BY DEF Init, Stepped!StepInit, Place, HandedOver, Active, Parents
<1> QED
  BY <1>1, SpecStepInv, NextImplementsStep, PTL DEF Spec, ImplementsToolStep, Stepped!StepSpec

\* With more permits than sub-agents the sub-agents cannot starve each other:
\* the bound a deployment needs on tool_concurrency_limit.
THEOREM SparePermitsProgress ==
    ASSUME Cardinality(SubAgents) < Permits
    PROVE  Spec => []SubAgentsProgress
<1>1. SubAgentsProgress
  <2> SUFFICES ASSUME Wedged PROVE FALSE
    BY DEF SubAgentsProgress
  <2>1. Holders \subseteq SubAgents
    BY DEF Wedged
  <2>2. IsFiniteSet(SubAgents)
    BY ToolAssumption, FS_Subset
  <2>3. IsFiniteSet(Holders) /\ Cardinality(Holders) <= Cardinality(SubAgents)
    BY <2>1, <2>2, FS_Subset
  <2>4. Cardinality(Holders) \in Nat /\ Cardinality(SubAgents) \in Nat /\ Permits \in Nat
    BY <2>2, <2>3, FS_CardinalityType, ToolAssumption
  <2>5. ~(Cardinality(Holders) < Permits)
    BY DEF Wedged, PermitFree
  <2> QED BY <2>3, <2>4, <2>5
<1> QED BY <1>1, PTL
=============================================================================
