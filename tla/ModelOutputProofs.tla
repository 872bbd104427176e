------------------------- MODULE ModelOutputProofs -------------------------
(***************************************************************************)
(* Proofs about what becomes of a model's output, for any number of        *)
(* sub-agents, ids, tools, blocks, calls and attempts, and for any text:   *)
(* the events of one model call (ModelStream), the filter of the calls     *)
(* written into its text (VisibleText), and the mapping of the events of a *)
(* turn onto the stream (StreamMapping).                                   *)
(***************************************************************************)
EXTENDS StreamMapping, ModelStream, VisibleText, FiniteSetTheorems, SequenceTheorems, TLAPS

-----------------------------------------------------------------------------
(* The mapping.  MapInv says what the two tables of the mapper are worth: a *)
(* recorded call is that of the run with its prefix, and a suppressed       *)
(* index has a tool block to show for it.                                   *)
CallsRecorded ==
    \A a \in Agents : stage[a] = "tools" /\ Unmistakable(a) =>
        \A i \in Called(a) : recorded[ScopedId(a, i)] = calls[a][i]

SuppressionJustified == suppressed \subseteq broken \cup OpenTools(Agents)

\* Sub-agents speak only while the turn waits for its tools.
WorkersSheltered ==
    \A w \in Workers : stage[w] \in {"ready", "streaming", "tools"} => stage[Top] = "tools"

MapInv ==
    /\ TypeOK
    /\ CallsRecorded
    /\ SuppressionJustified
    /\ WorkersSheltered
    /\ ResultNamesItsCall
    /\ TextWithheldForTools
    /\ CompletionIsLast

\* The ids of the turn are never those of a sub-agent: the proviso of
\* ResultNamesItsCall is always met for the turn itself.
THEOREM TurnUnmistakable == Unmistakable(Top)
  BY MappingAssumption DEF Unmistakable, Agents

\* The keys of the runs: one per run and id, shared only by equal prefixes.
LEMMA ScopedIdFacts ==
    /\ \A a \in Agents, i \in Ids : ScopedId(a, i) \in ScopedIds
    /\ \A a \in Agents, i \in Ids : ScopedId(a, i)[2] = i
    /\ \A a, b \in Agents, i, j \in Ids :
         Unmistakable(b) /\ ScopedId(a, i) = ScopedId(b, j) => a = b /\ i = j
  BY DEF ScopedId, ScopedIds, Unmistakable

\* Every action keeps the types.
LEMMA StepTypeOK == TypeOK /\ [Next]_vars => TypeOK'
<1> SUFFICES ASSUME TypeOK, [Next]_vars PROVE TypeOK'
  OBVIOUS
<1> USE MappingAssumption, ScopedIdFacts
<1>0. NoBlock \in Blocks /\ Top \in Agents /\ Workers \subseteq Agents
  BY DEF Blocks, Agents
<1>1. /\ Forwarded \in Rows /\ Completed \in Rows /\ Announced \in Rows
      /\ \A a \in Agents, i \in Ids, t \in Tools \cup {NoTool} :
            Started(a, i, t) \in Rows /\ Result(a, i, t) \in Rows
  BY DEF Rows, Started, Result
<1>2. \A a \in Agents, ty \in {"start", "delta", "stop", "message", "tools", "results", "end", "spawn"},
         b \in Blocks, out \in SUBSET Rows : Emit(a, ty, b, out) => event' \in Events /\ rows' \subseteq Rows
  BY DEF Emit, Events, Chunks
<1>3. \A S \in SUBSET Agents : OpenTools(S) \subseteq Indexes
  BY DEF TypeOK, OpenTools, Blocks, NoBlock
<1>4. CASE UNCHANGED vars
  BY <1>4 DEF TypeOK, vars, runs, mapper
<1>5. ASSUME NEW a \in Agents, CallModel(a) PROVE TypeOK'
  BY <1>0, <1>1, <1>2, <1>5 DEF CallModel, TypeOK, NoCalls, mapper
<1>6. ASSUME NEW a \in Agents, Retry(a) PROVE TypeOK'
  BY <1>0, <1>1, <1>2, <1>6 DEF Retry, TypeOK, NoCalls, mapper
<1>7. ASSUME NEW a \in Agents, NEW k \in {"text", "tool"}, Open(a, k)
      PROVE /\ block' \in [Agents -> Blocks] /\ block'[a] \in Blocks
            /\ next' \in [Agents -> 0..(MaxIndex + 1)]
            /\ next[a] \in Indexes /\ block'[a] = [kind |-> k, index |-> next[a]]
  BY <1>7 DEF Open, TypeOK, Blocks, Indexes
<1>8. ASSUME NEW a \in Agents, OpenText(a) PROVE TypeOK'
  <2>1. Open(a, "text") /\ Emit(a, "start", block'[a], {Forwarded})
    BY <1>8 DEF OpenText
  <2>2. /\ block' \in [Agents -> Blocks] /\ block'[a] \in Blocks
        /\ next' \in [Agents -> 0..(MaxIndex + 1)]
    BY <1>7, <2>1
  <2>3. event' \in Events /\ rows' \subseteq Rows
    BY <1>1, <1>2, <2>1, <2>2
  <2> QED BY <1>8, <2>2, <2>3 DEF OpenText, TypeOK, mapper
<1>9. ASSUME NEW a \in Agents, NEW i \in Ids, NEW t \in Tools, OpenTool(a, i, t) PROVE TypeOK'
  <2>1. calls' \in [Agents -> [Ids -> Tools \cup {NoTool}]]
    BY <1>9 DEF OpenTool, TypeOK
  <2>2. recorded' \in [ScopedIds -> Tools \cup {NoTool}]
    BY <1>9 DEF OpenTool, TypeOK
  <2>3. Open(a, "tool") /\ Emit(a, "start", block'[a], {Started(a, i, t)})
    BY <1>9 DEF OpenTool
  <2>4. /\ block' \in [Agents -> Blocks] /\ block'[a] \in Blocks
        /\ next' \in [Agents -> 0..(MaxIndex + 1)] /\ next[a] \in Indexes
    BY <1>7, <2>3
  <2>5. event' \in Events /\ rows' \subseteq Rows
    BY <1>1, <1>2, <2>3, <2>4
  <2> QED BY <1>9, <2>1, <2>2, <2>4, <2>5 DEF OpenTool, TypeOK
<1>10. ASSUME NEW a \in Agents, NEW i \in Ids, NEW t \in Tools, Pending(a, i, t) PROVE TypeOK'
  <2>1. calls' \in [Agents -> [Ids -> Tools \cup {NoTool}]]
    BY <1>10 DEF Pending, TypeOK
  <2>2. recorded' \in [ScopedIds -> Tools \cup {NoTool}]
    BY <1>10 DEF Pending, TypeOK
  <2> QED BY <1>0, <1>1, <1>2, <1>10, <2>1, <2>2 DEF Pending, TypeOK
<1>11. ASSUME NEW a \in Agents, Delta(a) PROVE TypeOK'
  BY <1>1, <1>2, <1>11 DEF Delta, TypeOK, runs, mapper
<1>12. ASSUME NEW a \in Agents, Stop(a) PROVE TypeOK'
  BY <1>0, <1>1, <1>2, <1>12 DEF Stop, TypeOK, Unhide
<1>13. ASSUME NEW a \in Agents, Reply(a) PROVE TypeOK'
  <2>1. {Forwarded} \cup Terminal(a) \in SUBSET Rows
    BY <1>1 DEF Terminal
  <2>2. event' \in Events /\ rows' \subseteq Rows
    BY <1>0, <1>2, <1>13, <2>1 DEF Reply
  <2> QED BY <1>13, <2>2 DEF Reply, TypeOK, mapper
<1>14. ASSUME NEW a \in Agents, NEW found \in [Ids -> Tools \cup {NoTool}], Execute(a, found)
       PROVE TypeOK'
  <2>1. recorded' \in [ScopedIds -> Tools \cup {NoTool}]
    BY <1>14 DEF Execute, TypeOK, CallsIn
  <2>2. {Started(a, i, found[i]) : i \in CallsIn(found)} \in SUBSET Rows
    BY <1>1 DEF CallsIn
  <2> QED BY <1>0, <1>2, <1>14, <2>1, <2>2 DEF Execute, TypeOK
<1>15. ASSUME NEW w \in Workers, Spawn(w) PROVE TypeOK'
  BY <1>0, <1>1, <1>2, <1>15 DEF Spawn, TypeOK, mapper
<1>16. ASSUME NEW a \in Agents, Results(a) PROVE TypeOK'
  <2>1. recorded' \in [ScopedIds -> Tools \cup {NoTool}]
    BY <1>16 DEF Results, TypeOK
  <2>2. {Result(a, i, recorded[ScopedId(a, i)]) : i \in Called(a)} \in SUBSET Rows
    BY <1>1 DEF Called, CallsIn, TypeOK
  <2>3. sent' \in [Agents -> 0..MaxMessages] /\ block' \in [Agents -> Blocks] /\ broken' \subseteq Indexes
    <3>1. CASE a = Top
      <4>1. Dismiss
        BY <1>16, <3>1 DEF Results
      <4> QED BY <1>0, <1>3, <4>1 DEF Dismiss, TypeOK
    <3>2. CASE a # Top
      BY <1>16, <3>2 DEF Results, TypeOK
    <3> QED BY <3>1, <3>2
  <2>4. stage' \in [Agents -> {"absent", "ready", "streaming", "tools", "over"}]
    BY <1>16 DEF Results, TypeOK
  <2> QED BY <1>0, <1>2, <1>16, <2>1, <2>2, <2>3, <2>4 DEF Results, TypeOK
<1>17. ASSUME NEW a \in Agents, CutOff(a) PROVE TypeOK'
  <2>1. block' \in [Agents -> Blocks] /\ broken' \subseteq Indexes
    BY <1>0, <1>3, <1>17 DEF CutOff, TypeOK
  <2>2. Terminal(a) \in SUBSET Rows
    BY <1>1 DEF Terminal
  <2>3. event' \in Events /\ rows' \subseteq Rows
    BY <1>0, <1>2, <1>17, <2>2 DEF CutOff
  <2> QED BY <1>17, <2>1, <2>3 DEF CutOff, TypeOK, mapper
<1> QED BY <1>4, <1>5, <1>6, <1>8, <1>9, <1>10, <1>11, <1>12, <1>13, <1>14, <1>15, <1>16, <1>17 DEF Next

\* The tables of the mapper: what an event of one run does to the records of
\* the others.
LEMMA StepCallsRecorded == TypeOK /\ CallsRecorded /\ Next => CallsRecorded'
<1> SUFFICES ASSUME TypeOK, CallsRecorded, Next,
                    NEW b \in Agents, stage'[b] = "tools", Unmistakable(b),
                    NEW j \in Called(b)'
             PROVE  recorded'[ScopedId(b, j)] = calls'[b][j]
  BY DEF CallsRecorded, Unmistakable
<1>0. ASSUME stage[b] = "tools", calls'[b] = calls[b],
             recorded'[ScopedId(b, j)] = recorded[ScopedId(b, j)]
      PROVE  recorded'[ScopedId(b, j)] = calls'[b][j]
  BY <1>0 DEF CallsRecorded, Called, CallsIn
<1>1. j \in Ids
  BY DEF Called, CallsIn
<1>2. ASSUME NEW a \in Agents,
             CallModel(a) \/ Retry(a) \/ OpenText(a) \/ Delta(a) \/ Stop(a) \/ Reply(a) \/ CutOff(a)
      PROVE  recorded'[ScopedId(b, j)] = calls'[b][j]
  <2>1. stage[b] = "tools" /\ calls'[b] = calls[b] /\ recorded' = recorded
    BY <1>2 DEF CallModel, Retry, OpenText, Open, Delta, Stop, Reply, CutOff, runs, mapper, TypeOK
  <2> QED BY <1>0, <2>1
<1>3. ASSUME NEW a \in Agents, NEW i \in Ids, NEW t \in Tools, OpenTool(a, i, t) \/ Pending(a, i, t)
      PROVE  recorded'[ScopedId(b, j)] = calls'[b][j]
  <2>1. stage[a] = "streaming" /\ stage' = stage /\ a # b
    BY <1>3 DEF OpenTool, Pending, Open
  <2>2. calls'[b] = calls[b]
    BY <1>3, <2>1 DEF OpenTool, Pending, TypeOK
  <2>3. recorded' = [recorded EXCEPT ![ScopedId(a, i)] = t]
    BY <1>3 DEF OpenTool, Pending
  <2>4. recorded'[ScopedId(b, j)] = recorded[ScopedId(b, j)]
    BY <1>1, <2>1, <2>3, ScopedIdFacts DEF TypeOK
  <2> QED BY <1>0, <2>1, <2>2, <2>4
<1>4. ASSUME NEW a \in Agents, NEW found \in [Ids -> Tools \cup {NoTool}], Execute(a, found)
      PROVE  recorded'[ScopedId(b, j)] = calls'[b][j]
  <2>1. recorded'[ScopedId(b, j)] =
           IF \E i \in CallsIn(found) : ScopedId(b, j) = ScopedId(a, i)
           THEN found[ScopedId(b, j)[2]] ELSE recorded[ScopedId(b, j)]
    BY <1>1, <1>4, ScopedIdFacts DEF Execute
  <2>2. calls' = [calls EXCEPT ![a] = found] /\ stage' = [stage EXCEPT ![a] = "tools"]
    BY <1>4 DEF Execute
  <2>3. CASE a = b
    <3>1. calls'[b] = found /\ j \in CallsIn(found)
      BY <2>2, <2>3 DEF TypeOK, Called
    <3> QED BY <1>1, <2>1, <2>3, <3>1, ScopedIdFacts
  <2>4. CASE a # b
    <3>1. \A i \in CallsIn(found) : ScopedId(b, j) # ScopedId(a, i)
      BY <1>1, <2>4, ScopedIdFacts DEF CallsIn
    <3>2. stage[b] = "tools" /\ calls'[b] = calls[b]
      BY <2>2, <2>4 DEF TypeOK
    <3> QED BY <1>0, <2>1, <3>1, <3>2
  <2> QED BY <2>3, <2>4
<1>5. ASSUME NEW w \in Workers, Spawn(w) PROVE recorded'[ScopedId(b, j)] = calls'[b][j]
  <2>1. stage[b] = "tools" /\ calls' = calls /\ recorded' = recorded
    BY <1>5 DEF Spawn, mapper, TypeOK
  <2> QED BY <1>0, <2>1
<1>6. ASSUME NEW a \in Agents, Results(a) PROVE recorded'[ScopedId(b, j)] = calls'[b][j]
  <2>1. a # b /\ stage[b] = "tools" /\ calls' = calls
    BY <1>6 DEF Results, TypeOK
  <2>2. recorded'[ScopedId(b, j)] =
           IF \E i \in Called(a) : ScopedId(b, j) = ScopedId(a, i) THEN NoTool
           ELSE recorded[ScopedId(b, j)]
    BY <1>1, <1>6, ScopedIdFacts DEF Results
  <2>3. \A i \in Called(a) : ScopedId(b, j) # ScopedId(a, i)
    BY <1>1, <2>1, ScopedIdFacts DEF Called, CallsIn
  <2> QED BY <1>0, <2>1, <2>2, <2>3
<1> QED BY <1>2, <1>3, <1>4, <1>5, <1>6 DEF Next

\* Membership in OpenTools, without the set constructors.
LEMMA OpenToolsMember ==
    ASSUME NEW S, NEW i
    PROVE  i \in OpenTools(S) <=> \E a \in S : block[a].kind = "tool" /\ block[a].index = i
  BY DEF OpenTools

LEMMA StepSuppression == TypeOK /\ SuppressionJustified /\ Next => SuppressionJustified'
<1> SUFFICES ASSUME TypeOK, SuppressionJustified, Next PROVE SuppressionJustified'
  OBVIOUS
<1> DEFINE Justified(i) == i \in broken \/ \E a \in Agents : block[a].kind = "tool" /\ block[a].index = i
<1>1. \A i \in suppressed : Justified(i)
  BY OpenToolsMember DEF SuppressionJustified
<1>2. SUFFICES ASSUME NEW i \in suppressed' PROVE Justified(i)'
  BY OpenToolsMember DEF SuppressionJustified, OpenTools
<1>3. ASSUME block' = block, suppressed' = suppressed, broken' = broken PROVE Justified(i)'
  BY <1>1, <1>3
<1>4. ASSUME NEW a \in Agents, CallModel(a) \/ Delta(a) \/ Reply(a) PROVE Justified(i)'
  <2>1. block' = block /\ suppressed' = suppressed /\ broken' = broken
    BY <1>4 DEF CallModel, Delta, Reply, runs, mapper
  <2> QED BY <1>3, <2>1
<1>5. ASSUME NEW a \in Agents, NEW k \in Ids, NEW t \in Tools, Pending(a, k, t) PROVE Justified(i)'
  <2>1. block' = block /\ suppressed' = suppressed /\ broken' = broken
    BY <1>5 DEF Pending
  <2> QED BY <1>3, <2>1
<1>6. ASSUME NEW a \in Agents, NEW found, Execute(a, found) PROVE Justified(i)'
  <2>1. block' = block /\ suppressed' = suppressed /\ broken' = broken
    BY <1>6 DEF Execute
  <2> QED BY <1>3, <2>1
<1>7. ASSUME NEW w \in Workers, Spawn(w) PROVE Justified(i)'
  <2>1. block' = block /\ suppressed' = suppressed /\ broken' = broken
    BY <1>7 DEF Spawn, mapper
  <2> QED BY <1>3, <2>1
<1>8. ASSUME NEW a \in Agents, Retry(a) \/ OpenText(a) PROVE Justified(i)'
  <2>1. block[a].kind # "tool" /\ suppressed' = suppressed /\ broken' = broken
    BY <1>8 DEF Retry, OpenText, Open, mapper, NoBlock
  <2>2. \A b \in Agents \ {a} : block'[b] = block[b]
    BY <1>8 DEF Retry, OpenText, Open, TypeOK
  <2> QED BY <1>1, <2>1, <2>2
<1>9. ASSUME NEW a \in Agents, NEW k \in Ids, NEW t \in Tools, OpenTool(a, k, t) PROVE Justified(i)'
  <2>1. block[a].kind # "tool" /\ suppressed' = suppressed \cup {next[a]} /\ broken' = broken
    BY <1>9 DEF OpenTool, Open, NoBlock
  <2>2. block'[a] = [kind |-> "tool", index |-> next[a]] /\ \A b \in Agents \ {a} : block'[b] = block[b]
    BY <1>9 DEF OpenTool, Open, TypeOK
  <2> QED BY <1>1, <2>1, <2>2
<1>10. ASSUME NEW a \in Agents, Stop(a) PROVE Justified(i)'
  <2>1. suppressed' = suppressed \ {block[a].index} /\ broken' = broken
    BY <1>10 DEF Stop, Unhide
  <2>2. \A b \in Agents \ {a} : block'[b] = block[b]
    BY <1>10 DEF Stop, TypeOK
  <2> QED BY <1>1, <2>1, <2>2
<1>11. ASSUME NEW a \in Agents, Results(a) PROVE Justified(i)'
  <2>1. CASE a = Top
    <3>1. Dismiss /\ suppressed' = suppressed
      BY <1>11, <2>1 DEF Results
    <3>2. broken' = broken \cup OpenTools(Workers) /\ block'[Top] = block[Top]
      BY <3>1 DEF Dismiss, Agents
    <3> QED BY <1>1, <3>1, <3>2, OpenToolsMember DEF Agents
  <2>2. CASE a # Top
    BY <1>3, <1>11, <2>2 DEF Results
  <2> QED BY <2>1, <2>2
<1>12. ASSUME NEW a \in Agents, CutOff(a) PROVE Justified(i)'
  <2>1. broken' = broken \cup OpenTools({a}) /\ suppressed' = suppressed
    BY <1>12 DEF CutOff, mapper
  <2>2. \A b \in Agents \ {a} : block'[b] = block[b]
    BY <1>12 DEF CutOff, TypeOK
  <2> QED BY <1>1, <2>1, <2>2, OpenToolsMember
<1> QED BY <1>4, <1>5, <1>6, <1>7, <1>8, <1>9, <1>10, <1>11, <1>12 DEF Next

\* Sub-agents are started by the tool phase of the turn and end with it.
LEMMA StepSheltered == TypeOK /\ WorkersSheltered /\ Next => WorkersSheltered'
<1> SUFFICES ASSUME TypeOK, WorkersSheltered, Next PROVE WorkersSheltered'
  OBVIOUS
<1> USE MappingAssumption DEF Agents
<1>1. ASSUME NEW a \in Agents, stage[a] \in {"ready", "streaming"}, NEW to,
             stage' = [stage EXCEPT ![a] = to], a # Top \/ to # "absent"
      PROVE  WorkersSheltered'
  BY <1>1 DEF WorkersSheltered, TypeOK
<1>2. ASSUME stage' = stage PROVE WorkersSheltered'
  BY <1>2 DEF WorkersSheltered
<1>3. ASSUME NEW a \in Agents,
             Retry(a) \/ OpenText(a) \/ Delta(a) \/ Stop(a)
      PROVE  WorkersSheltered'
  BY <1>2, <1>3 DEF Retry, OpenText, Open, Delta, Stop, runs
<1>4. ASSUME NEW a \in Agents, CallModel(a) PROVE WorkersSheltered'
  BY <1>1, <1>4 DEF CallModel
<1>5. ASSUME NEW a \in Agents, Reply(a) PROVE WorkersSheltered'
  BY <1>1, <1>5 DEF Reply
<1>6. ASSUME NEW a \in Agents, NEW found, Execute(a, found) PROVE WorkersSheltered'
  BY <1>1, <1>6 DEF Execute
<1>7. ASSUME NEW a \in Agents, NEW k \in Ids, NEW t \in Tools, OpenTool(a, k, t) \/ Pending(a, k, t)
      PROVE  WorkersSheltered'
  BY <1>2, <1>7 DEF OpenTool, Open, Pending
<1>8. ASSUME NEW w \in Workers, Spawn(w) PROVE WorkersSheltered'
  BY <1>8 DEF Spawn, WorkersSheltered, TypeOK
<1>9. ASSUME NEW a \in Agents, Results(a) PROVE WorkersSheltered'
  <2>1. stage[a] = "tools" /\ \A b \in Agents : stage'[b] =
           CASE b = a -> "ready" [] b # a /\ a = Top -> "absent" [] OTHER -> stage[b]
    BY <1>9 DEF Results
  <2>2. CASE a = Top
    BY <2>1, <2>2 DEF WorkersSheltered
  <2>3. CASE a # Top
    BY <2>1, <2>3 DEF WorkersSheltered
  <2> QED BY <2>2, <2>3
<1>10. ASSUME NEW a \in Agents, CutOff(a) PROVE WorkersSheltered'
  <2>1. stage' = [stage EXCEPT ![a] = "over"]
    BY <1>10 DEF CutOff
  <2>2. CASE a = Top
    BY <1>10, <2>1, <2>2 DEF CutOff, WorkersSheltered, TypeOK
  <2>3. CASE a # Top
    BY <1>10, <2>1, <2>3 DEF CutOff, WorkersSheltered, TypeOK
  <2> QED BY <2>2, <2>3
<1> QED BY <1>3, <1>4, <1>5, <1>6, <1>7, <1>8, <1>9, <1>10 DEF Next

LEMMA StepResultNames == MapInv /\ [Next]_vars => ResultNamesItsCall'
<1> SUFFICES ASSUME MapInv, [Next]_vars PROVE ResultNamesItsCall'
  OBVIOUS
<1>1. CASE UNCHANGED vars
  BY <1>1 DEF MapInv, ResultNamesItsCall, Called, CallsIn, vars, runs
<1>2. ASSUME NEW a \in Agents, Results(a) PROVE ResultNamesItsCall'
  <2>1. /\ event'.by = a /\ calls' = calls /\ stage[a] = "tools"
        /\ rows' = {Result(a, i, recorded[ScopedId(a, i)]) : i \in Called(a)}
    BY <1>2 DEF Results, Emit
  <2>2. Unmistakable(a) => \A i \in Called(a) : recorded[ScopedId(a, i)] = calls[a][i]
    BY <2>1 DEF MapInv, CallsRecorded
  <2>3. Unmistakable(a) => rows' = {Result(a, i, calls[a][i]) : i \in Called(a)}
    BY <2>1, <2>2
  <2>4. Called(a)' = Called(a)
    BY <2>1 DEF Called, CallsIn
  <2> QED BY <2>1, <2>3, <2>4 DEF ResultNamesItsCall, Unmistakable
<1>3. ASSUME event'.type # "results" PROVE ResultNamesItsCall'
  BY <1>3 DEF ResultNamesItsCall
<1>4. ASSUME NEW a \in Agents,
             \/ CallModel(a) \/ Retry(a) \/ OpenText(a) \/ Delta(a) \/ Stop(a) \/ Reply(a) \/ CutOff(a)
             \/ \E i \in Ids, t \in Tools : OpenTool(a, i, t) \/ Pending(a, i, t)
             \/ \E found \in [Ids -> Tools \cup {NoTool}] : Execute(a, found)
      PROVE  ResultNamesItsCall'
  BY <1>3, <1>4 DEF CallModel, Retry, OpenText, Delta, Stop, Reply, CutOff, OpenTool, Pending,
                    Execute, Emit
<1>5. ASSUME NEW w \in Workers, Spawn(w) PROVE ResultNamesItsCall'
  BY <1>3, <1>5 DEF Spawn, Emit
<1> QED BY <1>1, <1>2, <1>4, <1>5 DEF Next

LEMMA StepTextWithheld == MapInv /\ [Next]_vars => TextWithheldForTools'
<1> SUFFICES ASSUME MapInv, [Next]_vars PROVE TextWithheldForTools'
  OBVIOUS
<1>1. CASE UNCHANGED vars
  BY <1>1 DEF MapInv, TextWithheldForTools, OpenTools, vars, runs
<1>2. ASSUME NEW a \in Agents, Delta(a) PROVE TextWithheldForTools'
  <2>1. /\ event'.by = a /\ event'.block = block[a] /\ block' = block /\ broken' = broken
        /\ rows' = IF Withheld(block[a]) THEN {} ELSE {Forwarded}
    BY <1>2 DEF Delta, Emit, runs
  <2>2. ASSUME block[a].kind = "text", rows' = {}
        PROVE  block[a].index \in broken \cup OpenTools(Agents \ {a})
    <3>1. block[a].index \in suppressed
      BY <2>1, <2>2 DEF Withheld
    <3>2. block[a].index \in broken \cup OpenTools(Agents)
      BY <3>1 DEF MapInv, SuppressionJustified
    <3> QED BY <2>2, <3>2, OpenToolsMember
  <2> QED BY <2>1, <2>2 DEF TextWithheldForTools, OpenTools
<1>3. ASSUME event'.type # "delta" PROVE TextWithheldForTools'
  BY <1>3 DEF TextWithheldForTools
<1>4. ASSUME NEW a \in Agents,
             \/ CallModel(a) \/ Retry(a) \/ OpenText(a) \/ Stop(a) \/ Reply(a) \/ Results(a) \/ CutOff(a)
             \/ \E i \in Ids, t \in Tools : OpenTool(a, i, t) \/ Pending(a, i, t)
             \/ \E found \in [Ids -> Tools \cup {NoTool}] : Execute(a, found)
      PROVE  TextWithheldForTools'
  BY <1>3, <1>4 DEF CallModel, Retry, OpenText, Stop, Reply, Results, CutOff, OpenTool, Pending,
                    Execute, Emit
<1>5. ASSUME NEW w \in Workers, Spawn(w) PROVE TextWithheldForTools'
  BY <1>3, <1>5 DEF Spawn, Emit
<1> QED BY <1>1, <1>2, <1>4, <1>5 DEF Next

LEMMA StepCompletion == MapInv /\ [Next]_vars => CompletionIsLast'
<1> SUFFICES ASSUME MapInv, [Next]_vars PROVE CompletionIsLast'
  OBVIOUS
<1> USE MappingAssumption DEF MapInv, Agents
<1>1. CASE UNCHANGED vars
  BY <1>1 DEF CompletionIsLast, vars, runs
<1>2. ASSUME Completed \notin rows' PROVE CompletionIsLast'
  BY <1>2 DEF CompletionIsLast
<1>3. /\ Completed # Forwarded /\ Completed # Announced
      /\ \A a, i, t : Completed # Started(a, i, t) /\ Completed # Result(a, i, t)
  <2>1. /\ Completed.row = "completed" /\ Forwarded.row = "stream_event" /\ Announced.row = "subagent"
        /\ \A a, i, t : Started(a, i, t).row = "started" /\ Result(a, i, t).row = "result"
    BY DEF Completed, Forwarded, Announced, Started, Result
  <2> QED BY <2>1
<1>4. ASSUME NEW a \in Agents, CallModel(a) \/ Retry(a) \/ OpenText(a) \/ Delta(a) \/ Stop(a)
      PROVE  CompletionIsLast'
  BY <1>2, <1>3, <1>4 DEF CallModel, Retry, OpenText, Delta, Stop, Emit
<1>5. ASSUME NEW a \in Agents, NEW i \in Ids, NEW t \in Tools, OpenTool(a, i, t) \/ Pending(a, i, t)
      PROVE  CompletionIsLast'
  BY <1>2, <1>3, <1>5 DEF OpenTool, Pending, Emit
<1>6. ASSUME NEW a \in Agents, NEW found, Execute(a, found) PROVE CompletionIsLast'
  BY <1>2, <1>3, <1>6 DEF Execute, Emit
<1>7. ASSUME NEW a \in Agents, Results(a) PROVE CompletionIsLast'
  BY <1>2, <1>3, <1>7 DEF Results, Emit
<1>8. ASSUME NEW w \in Workers, Spawn(w) PROVE CompletionIsLast'
  BY <1>2, <1>3, <1>8 DEF Spawn, Emit
<1>9. ASSUME NEW a \in Agents, Reply(a) \/ CutOff(a) PROVE CompletionIsLast'
  <2>1. CASE a # Top
    <3>1. rows' \subseteq {Forwarded}
      BY <1>9, <2>1 DEF Reply, CutOff, Emit, Terminal
    <3> QED BY <1>2, <1>3, <3>1
  <2>2. CASE a = Top
    <3>1. stage' = [stage EXCEPT ![Top] = "over"] /\ stage[Top] # "over"
      BY <1>9, <2>2 DEF Reply, CutOff
    <3>2. \A w \in Workers : stage[w] \in {"absent", "over"}
      <4>1. CASE Reply(Top)
        BY <4>1 DEF Reply, WorkersSheltered, TypeOK
      <4>2. CASE CutOff(Top)
        BY <4>2 DEF CutOff
      <4> QED BY <1>9, <2>2, <4>1, <4>2
    <3> QED BY <3>1, <3>2 DEF CompletionIsLast, TypeOK
  <2> QED BY <2>1, <2>2
<1> QED BY <1>1, <1>4, <1>5, <1>6, <1>7, <1>8, <1>9 DEF Next

LEMMA InitMapInv == Init => MapInv
<1> SUFFICES ASSUME Init PROVE MapInv
  OBVIOUS
<1> USE MappingAssumption DEF Init
<1>1. TypeOK
  BY DEF TypeOK, Agents, Blocks, NoBlock, Indexes, NoCalls, Events, Chunks, ScopedIds
<1>2. CallsRecorded /\ SuppressionJustified /\ WorkersSheltered
  BY DEF CallsRecorded, SuppressionJustified, WorkersSheltered, Agents
<1>3. ResultNamesItsCall /\ TextWithheldForTools /\ CompletionIsLast
  BY DEF ResultNamesItsCall, TextWithheldForTools, CompletionIsLast
<1> QED BY <1>1, <1>2, <1>3 DEF MapInv

\* MapInv is inductive.
LEMMA StepMapInv == MapInv /\ [Next]_vars => MapInv'
<1> SUFFICES ASSUME MapInv, [Next]_vars PROVE MapInv'
  OBVIOUS
<1>1. TypeOK' /\ ResultNamesItsCall' /\ TextWithheldForTools' /\ CompletionIsLast'
  BY StepTypeOK, StepResultNames, StepTextWithheld, StepCompletion DEF MapInv
<1>2. CASE Next
  BY <1>1, <1>2, StepCallsRecorded, StepSuppression, StepSheltered DEF MapInv
<1>3. CASE UNCHANGED vars
  <2>1. CallsRecorded' /\ SuppressionJustified' /\ WorkersSheltered'
    BY <1>3 DEF MapInv, CallsRecorded, Called, CallsIn, Unmistakable, SuppressionJustified, OpenTools,
                WorkersSheltered, vars, runs, mapper
  <2> QED BY <1>1, <2>1 DEF MapInv
<1> QED BY <1>2, <1>3

\* The inductive invariant of the mapper, for any runs, ids and tools.
THEOREM SpecMapInv == Spec => []MapInv
  BY InitMapInv, StepMapInv, PTL DEF Spec

\* Type correctness of the runs, the mapper and its rows.
THEOREM SpecMappingTypeOK == Spec => []TypeOK
<1>1. MapInv => TypeOK
  BY DEF MapInv
<1> QED BY <1>1, SpecMapInv, PTL

\* A result row names the tool that its run called, whatever ids other runs
\* use: for the turn always (TurnUnmistakable), for a sub-agent while it is the
\* only one of its name.
THEOREM SpecResultNamesItsCall == Spec => []ResultNamesItsCall
<1>1. MapInv => ResultNamesItsCall
  BY DEF MapInv
<1> QED BY <1>1, SpecMapInv, PTL

\* Text is withheld only for a tool call of another run at the same index, or
\* for one that broke off.
THEOREM SpecTextWithheldForTools == Spec => []TextWithheldForTools
<1>1. MapInv => TextWithheldForTools
  BY DEF MapInv
<1> QED BY <1>1, SpecMapInv, PTL

\* Completion rows come when no run can add anything.
THEOREM SpecCompletionIsLast == Spec => []CompletionIsLast
<1>1. MapInv => CompletionIsLast
  BY DEF MapInv
<1> QED BY <1>1, SpecMapInv, PTL
-----------------------------------------------------------------------------
(* One model call.  Every announcement is of a call that has its name, and  *)
(* bears the id the call has unless the id came later; the anthropic        *)
(* backend announces nothing.                                               *)
IsSeq(s) == \E S : s \in Seq(S)
EventsOf(out) == {out[i] : i \in DOMAIN out}
PendingOf(out) == {ev \in EventsOf(out) : ev.e = "pending"}

Shaped(h) ==
    /\ {"thinking", "text", "body", "held", "slots", "announced", "out"} = DOMAIN h
    /\ IsSeq(h.out)

\* What a helper that announces nothing leaves alone.
Quiet(h, g) ==
    /\ Shaped(g) /\ g.slots = h.slots /\ g.announced = h.announced
    /\ PendingOf(g.out) = PendingOf(h.out)

LEMMA JoinedEvents ==
    ASSUME NEW s, NEW t, IsSeq(s), IsSeq(t)
    PROVE  IsSeq(s \o t) /\ EventsOf(s \o t) = EventsOf(s) \cup EventsOf(t)
<1>1. PICK S, T : s \in Seq(S) /\ t \in Seq(T)
  BY DEF IsSeq
<1>2. s \in Seq(S \cup T) /\ t \in Seq(S \cup T)
  <2>1. ASSUME NEW A, NEW B, A \subseteq B, NEW q \in Seq(A) PROVE q \in Seq(B)
    BY <2>1, SeqMonotonic
  <2> QED BY <1>1, <2>1
<1>3. /\ s \o t \in Seq(S \cup T)
      /\ Len(s) \in Nat /\ Len(t) \in Nat /\ Len(s \o t) = Len(s) + Len(t)
      /\ \A i \in 1..Len(s) : (s \o t)[i] = s[i]
      /\ \A i \in 1..Len(t) : (s \o t)[Len(s) + i] = t[i]
      /\ DOMAIN s = 1..Len(s) /\ DOMAIN t = 1..Len(t) /\ DOMAIN (s \o t) = 1..Len(s \o t)
  BY <1>2, ConcatProperties, LenProperties
<1>4. ASSUME NEW i \in DOMAIN (s \o t) PROVE (s \o t)[i] \in EventsOf(s) \cup EventsOf(t)
  <2>1. CASE i \in 1..Len(s)
    BY <1>3, <2>1 DEF EventsOf
  <2>2. CASE i \notin 1..Len(s)
    <3>1. i - Len(s) \in 1..Len(t) /\ i = Len(s) + (i - Len(s))
      BY <1>3, <2>2
    <3> QED BY <1>3, <3>1 DEF EventsOf
  <2> QED BY <2>1, <2>2
<1>5. ASSUME NEW i \in DOMAIN s PROVE s[i] \in EventsOf(s \o t)
  BY <1>3 DEF EventsOf
<1>6. ASSUME NEW i \in DOMAIN t PROVE t[i] \in EventsOf(s \o t)
  <2>1. Len(s) + i \in DOMAIN (s \o t) /\ (s \o t)[Len(s) + i] = t[i]
    BY <1>3
  <2> QED BY <2>1 DEF EventsOf
<1>7. EventsOf(s \o t) \subseteq EventsOf(s) \cup EventsOf(t)
  BY <1>4 DEF EventsOf
<1>8. EventsOf(s) \subseteq EventsOf(s \o t) /\ EventsOf(t) \subseteq EventsOf(s \o t)
  BY <1>5, <1>6 DEF EventsOf
<1> QED BY <1>3, <1>7, <1>8 DEF IsSeq

LEMMA OneEvent ==
    ASSUME NEW ev
    PROVE  IsSeq(<<ev>>) /\ EventsOf(<<ev>>) = {ev} /\ IsSeq(<<>>) /\ EventsOf(<<>>) = {}
<1>1. <<ev>> \in Seq({ev}) /\ DOMAIN <<ev>> = {1} /\ <<ev>>[1] = ev
  OBVIOUS
<1>2. <<>> \in Seq({ev}) /\ DOMAIN <<>> = {}
  OBVIOUS
<1> QED BY <1>1, <1>2 DEF IsSeq, EventsOf

\* Events that announce nothing.
LEMMA AddOutQuiet ==
    ASSUME NEW h, Shaped(h), NEW evs, IsSeq(evs), PendingOf(evs) = {}
    PROVE  /\ Quiet(h, AddOut(h, evs))
           /\ AddOut(h, evs).thinking = h.thinking /\ AddOut(h, evs).text = h.text
           /\ AddOut(h, evs).body = h.body /\ AddOut(h, evs).held = h.held
           /\ DOMAIN AddOut(h, evs) = DOMAIN h
<1>1. IsSeq(h.out \o evs) /\ EventsOf(h.out \o evs) = EventsOf(h.out) \cup EventsOf(evs)
  BY JoinedEvents DEF Shaped
<1>2. PendingOf(h.out \o evs) = PendingOf(h.out)
  BY <1>1 DEF PendingOf
<1> QED BY <1>1, <1>2 DEF AddOut, Shaped, Quiet

LEMMA QuietTrans ==
    ASSUME NEW f, NEW g, NEW h, Quiet(f, g), Quiet(g, h)
    PROVE  Quiet(f, h)
BY DEF Quiet

\* The other fields of a handler.
LEMMA FieldsQuiet ==
    ASSUME NEW h, Shaped(h), NEW field \in {"thinking", "text", "body", "held"}, NEW v
    PROVE  Quiet(h, [h EXCEPT ![field] = v])
BY DEF Shaped, Quiet

LEMMA BlockEvents ==
    ASSUME NEW at, NEW kind, NEW ps
    PROVE  /\ PendingOf(<<Opened(at, kind)>>) = {} /\ PendingOf(<<Closed(at)>>) = {}
           /\ PendingOf(<<BlockDelta(at, ps)>>) = {} /\ PendingOf(<<[e |-> "assistant"]>>) = {}
           /\ PendingOf(<<>>) = {}
BY OneEvent DEF PendingOf, Opened, Closed, BlockDelta

LEMMA CloseThinkingQuiet == ASSUME NEW h, Shaped(h) PROVE Quiet(h, CloseThinking(h))
<1>1. CASE h.thinking = "open"
  <2> DEFINE g == AddOut(h, <<Closed(0)>>)
  <2>1. Quiet(h, g)
    BY OneEvent, BlockEvents, AddOutQuiet
  <2>2. Quiet(g, [g EXCEPT !["thinking"] = "closed"])
    BY <2>1, FieldsQuiet DEF Quiet
  <2>3. CloseThinking(h) = [g EXCEPT !["thinking"] = "closed"]
    BY <1>1 DEF CloseThinking
  <2> HIDE DEF g
  <2> QED BY <2>1, <2>2, <2>3, QuietTrans
<1>2. CASE h.thinking # "open"
  BY <1>2 DEF CloseThinking, Quiet
<1> QED BY <1>1, <1>2

LEMMA StartTextQuiet == ASSUME NEW h, Shaped(h) PROVE Quiet(h, StartText(h))
<1>1. CASE ~h.text
  <2> DEFINE g == AddOut(h, <<Opened(TextIndex(h), <<"text">>)>>)
  <2>1. Quiet(h, g)
    BY OneEvent, BlockEvents, AddOutQuiet
  <2>2. Quiet(g, [g EXCEPT !["text"] = TRUE])
    BY <2>1, FieldsQuiet DEF Quiet
  <2>3. StartText(h) = [g EXCEPT !["text"] = TRUE]
    BY <1>1 DEF StartText
  <2> HIDE DEF g
  <2> QED BY <2>1, <2>2, <2>3, QuietTrans
<1>2. CASE h.text
  BY <1>2 DEF StartText, Quiet
<1> QED BY <1>1, <1>2

LEMMA ShowPiecesQuiet == ASSUME NEW h, Shaped(h), NEW ps PROVE Quiet(h, ShowPieces(h, ps))
<1>1. Quiet(h, AddOut(h, <<BlockDelta(TextIndex(h), Prose(ps))>>))
  BY OneEvent, BlockEvents, AddOutQuiet
<1> QED BY <1>1 DEF ShowPieces, Quiet

\* Text that comes, whatever the filter shows of it.
LEMMA IterTextQuiet ==
    ASSUME NEW h, Shaped(h), NEW p, NEW showing \in BOOLEAN
    PROVE  Quiet(h, IterText(h, p, showing))
<1> DEFINE closed == CloseThinking(h)
           started == StartText(closed)
           heard == [started EXCEPT !["body"] = Append(@, p)]
           grown == [heard EXCEPT !["held"] = Append(@, p)]
           told == ShowPieces(grown, grown.held)
           done == [told EXCEPT !["held"] = <<>>]
<1>1. Quiet(h, closed)
  BY CloseThinkingQuiet
<1>2. Quiet(closed, started)
  BY <1>1, StartTextQuiet DEF Quiet
<1>3. Quiet(started, heard)
  BY <1>2, FieldsQuiet DEF Quiet
<1>4. Quiet(heard, grown)
  BY <1>3, FieldsQuiet DEF Quiet
<1>5. Quiet(grown, told)
  BY <1>4, ShowPiecesQuiet DEF Quiet
<1>6. Quiet(told, done)
  BY <1>5, FieldsQuiet DEF Quiet
<1>7. IterText(h, p, showing) = IF showing THEN done ELSE grown
  <2> DEFINE both == [started EXCEPT !.body = Append(@, p), !.held = Append(@, p)]
  <2>1. IterText(h, p, showing) =
            IF showing THEN [ShowPieces(both, both.held) EXCEPT !.held = <<>>] ELSE both
    BY DEF IterText
  <2>2. both = grown
    <3> HIDE DEF started
    <3> QED OBVIOUS
  <2> HIDE DEF both, grown
  <2> QED BY <2>1, <2>2
<1> HIDE DEF closed, started, heard, grown, told, done
<1> QED BY <1>1, <1>2, <1>3, <1>4, <1>5, <1>6, <1>7, QuietTrans

LEMMA ReasonQuiet == ASSUME NEW h, Shaped(h), NEW p PROVE Quiet(h, Reason(h, p))
<1> DEFINE g == [h EXCEPT !["thinking"] = "open"]
           first == IF h.thinking = "none" THEN <<Opened(0, <<"thinking">>)>> ELSE <<>>
           told == <<BlockDelta(0, <<[p EXCEPT !.kind = "reason"]>>)>>
<1>1. Quiet(h, g)
  BY FieldsQuiet
<1>2. /\ IsSeq(first) /\ PendingOf(first) = {} /\ IsSeq(told) /\ PendingOf(told) = {}
  BY OneEvent, BlockEvents
<1> HIDE DEF first, told
<1>3. IsSeq(first \o told) /\ PendingOf(first \o told) = {}
  BY <1>2, JoinedEvents DEF PendingOf
<1>4. Quiet(g, AddOut(g, first \o told))
  BY <1>1, <1>3, AddOutQuiet DEF Quiet
<1>5. Reason(h, p) = AddOut(g, first \o told)
  BY DEF Reason, first, told
<1> HIDE DEF g
<1> QED BY <1>1, <1>4, <1>5, QuietTrans

LEMMA FlushQuiet ==
    ASSUME NEW h, Shaped(h), NEW showing \in BOOLEAN
    PROVE  Quiet(h, FlushStream(h, showing))
<1> DEFINE shut == CloseThinking(h)
           tail == IF showing THEN ShowPieces(shut, shut.held) ELSE shut
           over == IF tail.text THEN AddOut(tail, <<Closed(TextIndex(tail))>>) ELSE tail
<1>1. Quiet(h, shut)
  BY CloseThinkingQuiet
<1>2. Quiet(shut, tail)
  <2>1. Quiet(shut, shut) /\ Quiet(shut, ShowPieces(shut, shut.held))
    BY <1>1, ShowPiecesQuiet DEF Quiet
  <2> QED BY <2>1
<1> HIDE DEF shut, tail
<1>3. Quiet(tail, over)
  <2>1. Quiet(tail, tail) /\ Quiet(tail, AddOut(tail, <<Closed(TextIndex(tail))>>))
    BY <1>2, OneEvent, BlockEvents, AddOutQuiet DEF Quiet
  <2> QED BY <2>1
<1>4. FlushStream(h, showing) = [over EXCEPT !["held"] = <<>>]
  BY DEF FlushStream, tail, shut
<1> HIDE DEF over
<1>5. Quiet(over, [over EXCEPT !["held"] = <<>>])
  BY <1>3, FieldsQuiet DEF Quiet
<1> QED BY <1>1, <1>2, <1>3, <1>4, <1>5, QuietTrans

\* The calls of a model call: each announcement is kept, as it should be.
KeptCall(h, late, ev) ==
    /\ ev.slot \in CallSlots /\ h.slots[ev.slot].name /\ ev.slot \in h.announced
    /\ ev.id = SlotId(h, ev.slot) \/ (ev.slot \in late /\ h.slots[ev.slot].id)

SlotsTyped(h) == h.slots \in [CallSlots -> [id : BOOLEAN, name : BOOLEAN]]

CallInv ==
    /\ Shaped(handler) /\ SlotsTyped(handler)
    /\ callBackend = "anthropic" => PendingOf(handler.out) = {}
    /\ \A ev \in PendingOf(handler.out) : KeptCall(handler, idCameLate, ev)
    /\ AnnouncedCallsKept

\* The handler before anything came.
LEMMA FreshOk ==
    /\ Shaped(FreshHandler) /\ SlotsTyped(FreshHandler) /\ PendingOf(FreshHandler.out) = {}
<1> DEFINE start == <<[e |-> "message_start"]>>
<1>1. IsSeq(start) /\ PendingOf(start) = {}
  BY OneEvent DEF PendingOf
<1>2. FreshHandler.out = start
  BY DEF FreshHandler
<1>3. FreshHandler.slots \in [CallSlots -> [id : BOOLEAN, name : BOOLEAN]]
  BY DEF FreshHandler, NoCallSlot
<1>4. DOMAIN FreshHandler = {"thinking", "text", "body", "held", "slots", "announced", "out"}
  BY DEF FreshHandler
<1> QED BY <1>1, <1>2, <1>3, <1>4 DEF Shaped, SlotsTyped

\* The invariant of the next state, from what is known of its handler.
LEMMA CallInvNext ==
    ASSUME Shaped(handler'), SlotsTyped(handler'),
           callBackend' = "anthropic" => PendingOf(handler'.out) = {},
           \A ev \in PendingOf(handler'.out) : KeptCall(handler', idCameLate', ev),
           AnnouncedCallsKept'
    PROVE  CallInv'
<1>1. /\ Shaped(handler)' /\ SlotsTyped(handler)'
  BY DEF Shaped, SlotsTyped, IsSeq
<1>2. PendingOf(handler.out)' = PendingOf(handler'.out)
  BY DEF PendingOf, EventsOf
<1>3. ASSUME NEW ev \in PendingOf(handler'.out) PROVE KeptCall(handler, idCameLate, ev)'
  <2>1. KeptCall(handler', idCameLate', ev)
    OBVIOUS
  <2> QED BY <2>1 DEF KeptCall, SlotId
<1> QED BY <1>1, <1>2, <1>3 DEF CallInv

\* Steps that announce nothing, before the call is over.
LEMMA QuietKeepsCalls ==
    ASSUME CallInv, NEW h, Quiet(handler, h), handler' = h, idCameLate' = idCameLate,
           callBackend' = callBackend, AnnouncedCallsKept'
    PROVE  CallInv'
<1>1. /\ Shaped(handler') /\ handler'.slots = handler.slots
      /\ handler'.announced = handler.announced
      /\ PendingOf(handler'.out) = PendingOf(handler.out)
  BY DEF Quiet
<1>2. ASSUME NEW ev \in PendingOf(handler'.out) PROVE KeptCall(handler', idCameLate', ev)
  BY <1>1 DEF CallInv, KeptCall, SlotId
<1>3. SlotsTyped(handler') /\ (callBackend' = "anthropic" => PendingOf(handler'.out) = {})
  BY <1>1 DEF CallInv, SlotsTyped
<1> QED BY <1>1, <1>2, <1>3, CallInvNext

\* The fragments of a line name calls or give them ids; those that have their
\* name now are announced.
LEMMA CallArrivesKeeps ==
    ASSUME CallInv, CallArrives
    PROVE  CallInv'
<1>1. PICK ids \in SUBSET CallSlots, names \in SUBSET CallSlots :
         LET grown == Accumulate(handler, ids, names)
         IN /\ \E line \in InOrderOf(ToAnnounce(grown)) : Serve(EmitPending(grown, line))
            /\ idCameLate' = idCameLate \cup {s \in ids \cap handler.announced : ~handler.slots[s].id}
  BY DEF CallArrives
<1> DEFINE grown == Accumulate(handler, ids, names)
           new == ToAnnounce(grown)
<1>2. PICK line \in InOrderOf(new) : handler' = EmitPending(grown, line)
  BY <1>1 DEF Serve
<1>3. callStage' = callStage /\ callStage = "streaming" /\ callBackend' = callBackend /\ callBackend = "compatible"
  BY DEF CallArrives, Serving
<1>4. /\ Shaped(grown) /\ grown.out = handler.out /\ grown.announced = handler.announced
      /\ SlotsTyped(grown)
      /\ \A s \in CallSlots : /\ grown.slots[s].id = (handler.slots[s].id \/ s \in ids)
                              /\ grown.slots[s].name = (handler.slots[s].name \/ s \in names)
  <2> DEFINE slots == [s \in CallSlots |-> [id |-> handler.slots[s].id \/ s \in ids,
                                            name |-> handler.slots[s].name \/ s \in names]]
  <2>1. grown = [handler EXCEPT !.slots = slots]
    BY DEF Accumulate
  <2>2. slots \in [CallSlots -> [id : BOOLEAN, name : BOOLEAN]]
    BY DEF CallInv, SlotsTyped
  <2>3. \A s \in CallSlots : /\ slots[s].id = (handler.slots[s].id \/ s \in ids)
                             /\ slots[s].name = (handler.slots[s].name \/ s \in names)
    OBVIOUS
  <2> HIDE DEF slots, grown
  <2> QED BY <2>1, <2>2, <2>3 DEF CallInv, Shaped, SlotsTyped
<1> HIDE DEF grown
<1> DEFINE evs == [i \in DOMAIN line |-> PendingEvent(grown, line[i])]
<1>5. IsSeq(evs) /\ \A ev \in EventsOf(evs) : \E s \in new : ev = PendingEvent(grown, s)
  <2> DEFINE n == Cardinality(new)
  <2>1. line \in [1..n -> new]
    BY DEF InOrderOf
  <2>2. n \in Nat
    <3>1. new \subseteq CallSlots /\ IsFiniteSet(CallSlots)
      BY ModelStreamAssumption DEF ToAnnounce
    <3> QED BY <3>1, FS_Subset, FS_CardinalityType
  <2> HIDE DEF n, new
  <2>3. evs \in [1..n -> {PendingEvent(grown, s) : s \in new}]
    BY <2>1
  <2>4. evs \in Seq({PendingEvent(grown, s) : s \in new})
    BY <2>2, <2>3, IsASeq
  <2> QED BY <2>3, <2>4 DEF IsSeq, EventsOf
<1>6. /\ Shaped(handler') /\ handler'.slots = grown.slots
      /\ handler'.announced = handler.announced \cup new
      /\ handler'.out = handler.out \o evs
  <2>1. handler' = [AddOut(grown, evs) EXCEPT !.announced = @ \cup new]
    BY <1>2 DEF EmitPending
  <2>2. IsSeq(grown.out \o evs)
    BY <1>4, <1>5, JoinedEvents DEF Shaped
  <2> HIDE DEF evs, new
  <2> QED BY <1>4, <2>1, <2>2 DEF AddOut, Shaped
<1>7. \A ev \in PendingOf(handler'.out) : \/ ev \in PendingOf(handler.out)
                                          \/ \E s \in new : ev = PendingEvent(grown, s)
  BY <1>4, <1>5, <1>6, JoinedEvents DEF PendingOf, Shaped, CallInv
<1>8. ASSUME NEW ev \in PendingOf(handler.out) PROVE KeptCall(handler', idCameLate', ev)
  <2>1. KeptCall(handler, idCameLate, ev)
    BY DEF CallInv
  <2>2. CASE ~handler.slots[ev.slot].id /\ ev.slot \in ids
    BY <1>1, <1>4, <1>6, <2>1, <2>2 DEF KeptCall
  <2>3. CASE handler.slots[ev.slot].id \/ ev.slot \notin ids
    <3>1. SlotId(handler', ev.slot) = SlotId(handler, ev.slot)
      BY <1>4, <1>6, <2>1, <2>3 DEF SlotId, KeptCall
    <3> QED BY <1>1, <1>4, <1>6, <2>1, <3>1 DEF KeptCall
  <2> QED BY <2>2, <2>3
<1>9. ASSUME NEW s \in new PROVE KeptCall(handler', idCameLate', PendingEvent(grown, s))
  <2>1. s \in CallSlots /\ grown.slots[s].name
    BY DEF ToAnnounce
  <2>2. SlotId(handler', s) = SlotId(grown, s)
    BY <1>6 DEF SlotId
  <2> QED BY <1>6, <2>1, <2>2 DEF KeptCall, PendingEvent
<1>10. AnnouncedCallsKept'
  BY <1>3 DEF AnnouncedCallsKept
<1>11. SlotsTyped(handler')
  BY <1>4, <1>6 DEF SlotsTyped
<1>12. \A ev \in PendingOf(handler'.out) : KeptCall(handler', idCameLate', ev)
  BY <1>7, <1>8, <1>9
<1> QED
  BY <1>3, <1>6, <1>10, <1>11, <1>12, CallInvNext

\* The property, told of the announcements as a set.
LEMMA KeptInMessage ==
    ASSUME callStage' = "over" /\ ~final'.failed =>
              \A ev \in PendingOf(handler'.out) :
                  ev.id \in final'.calls \/ (ev.slot \in idCameLate' /\ <<"given", ev.slot>> \in final'.calls)
    PROVE  AnnouncedCallsKept'
BY DEF AnnouncedCallsKept, PendingOf, EventsOf

\* A new attempt, or the first event of one, starts with a fresh handler.
LEMMA FreshKeepsCalls ==
    ASSUME handler' = FreshHandler, callStage' # "over"
    PROVE  CallInv'
<1>1. AnnouncedCallsKept'
  BY KeptInMessage
<1> QED BY <1>1, FreshOk, CallInvNext

\* Steps of a stream that announce nothing.
LEMMA StreamKeepsCalls ==
    ASSUME CallInv, NEW h, Quiet(handler, h), handler' = h, callStage' # "over",
           UNCHANGED <<callBackend, idCameLate>>
    PROVE  CallInv'
<1>1. AnnouncedCallsKept'
  BY KeptInMessage
<1> QED BY <1>1, QuietKeepsCalls

LEMMA PiecesKeepCalls ==
    ASSUME CallInv, TextArrives \/ ReasoningArrives
    PROVE  CallInv'
<1>1. /\ callStage' = callStage /\ callStage = "streaming"
      /\ UNCHANGED <<callBackend, idCameLate>>
  BY DEF TextArrives, ReasoningArrives, Serving
<1>2. \E h : Quiet(handler, h) /\ handler' = h
  <2>1. Shaped(handler)
    BY DEF CallInv
  <2>2. CASE TextArrives
    <3>1. PICK kind \in {"word", "blob"}, showing \in BOOLEAN :
             handler' = IterText(handler, NextPiece(kind), showing)
      BY <2>2 DEF TextArrives, Serve
    <3> QED BY <2>1, <3>1, IterTextQuiet
  <2>3. CASE ReasoningArrives
    <3>1. PICK showing \in BOOLEAN : handler' = EmitReasoning(handler, NextPiece("word"), showing)
      BY <2>3 DEF ReasoningArrives, Serve
    <3>2. \/ handler' = IterText(handler, NextPiece("word"), showing)
          \/ handler' = Reason(handler, NextPiece("word"))
      BY <3>1 DEF EmitReasoning
    <3> QED BY <2>1, <3>2, IterTextQuiet, ReasonQuiet
  <2> QED BY <2>2, <2>3
<1> QED BY <1>1, <1>2, StreamKeepsCalls

LEMMA CopiesKeepCalls ==
    ASSUME CallInv, CopyStart \/ CopyDelta \/ CopyStop
    PROVE  CallInv'
<1>1. /\ callStage' = callStage /\ callStage = "streaming"
      /\ UNCHANGED <<callBackend, idCameLate>>
  BY DEF CopyStart, CopyDelta, CopyStop, Serving
<1>2. Shaped(handler)
  BY DEF CallInv
<1>3. CASE CopyStart
  <2>1. PICK kind : handler' = AddOut(handler, <<Opened(NextAt(handler), kind)>>)
    BY <1>3 DEF CopyStart, Serve
  <2>2. Quiet(handler, handler')
    BY <1>2, <2>1, OneEvent, BlockEvents, AddOutQuiet
  <2> QED BY <1>1, <2>2, StreamKeepsCalls
<1>4. CASE CopyDelta
  <2>1. PICK at, p, body : handler' = [AddOut(handler, <<BlockDelta(at, <<p>>)>>) EXCEPT !["body"] = body]
    <3> DEFINE at == LastAt(handler)
               kind == KindOf(handler, at)
               p == NextPiece(IF kind = <<"text">> THEN "word" ELSE "reason")
               g == AddOut(handler, <<BlockDelta(at, <<p>>)>>)
    <3>1. handler' = [g EXCEPT !.body = IF kind = <<"text">> THEN Append(@, p) ELSE @]
      BY <1>4 DEF CopyDelta, Serve
    <3> DEFINE body == IF kind = <<"text">> THEN Append(g.body, p) ELSE g.body
    <3>2. handler' = [g EXCEPT !["body"] = body]
      BY <3>1
    <3> HIDE DEF at, kind, p, body
    <3> QED BY <3>2
  <2> DEFINE g == AddOut(handler, <<BlockDelta(at, <<p>>)>>)
  <2>2. Quiet(handler, g)
    BY <1>2, OneEvent, BlockEvents, AddOutQuiet
  <2>3. Quiet(g, [g EXCEPT !["body"] = body])
    BY <2>2, FieldsQuiet DEF Quiet
  <2>4. Quiet(handler, handler')
    BY <2>1, <2>2, <2>3, QuietTrans
  <2> QED BY <1>1, <2>4, StreamKeepsCalls
<1>5. CASE CopyStop
  <2>1. handler' = AddOut(handler, <<Closed(LastAt(handler))>>)
    BY <1>5 DEF CopyStop
  <2>2. Quiet(handler, handler')
    BY <1>2, <2>1, OneEvent, BlockEvents, AddOutQuiet
  <2> QED BY <1>1, <2>2, StreamKeepsCalls
<1> QED BY <1>3, <1>4, <1>5

\* The message that ends the call has what was announced.
LEMMA StreamEndsKeeps ==
    ASSUME CallInv, StreamEnds
    PROVE  CallInv'
<1>1. PICK showing \in BOOLEAN :
         handler' = AddOut(FlushStream(handler, showing), <<[e |-> "assistant"]>>)
  BY DEF StreamEnds
<1>2. final' = AssembledMessage(handler) /\ UNCHANGED <<callBackend, idCameLate>>
  BY DEF StreamEnds
<1> DEFINE g == FlushStream(handler, showing)
<1>3. Quiet(handler, g)
  BY FlushQuiet DEF CallInv
<1>4. Quiet(g, handler')
  <2> HIDE DEF g
  <2>1. handler' = AddOut(g, <<[e |-> "assistant"]>>)
    BY <1>1 DEF g
  <2> QED BY <1>3, <2>1, OneEvent, BlockEvents, AddOutQuiet DEF Quiet
<1>5. Quiet(handler, handler')
  BY <1>3, <1>4, QuietTrans
<1>6. ASSUME NEW ev \in PendingOf(handler'.out)
      PROVE  ev.id \in final'.calls \/ (ev.slot \in idCameLate' /\ <<"given", ev.slot>> \in final'.calls)
  <2>1. KeptCall(handler, idCameLate, ev)
    BY <1>5 DEF CallInv, Quiet
  <2>2. SlotId(handler, ev.slot) \in NativeBlocks(handler)
    BY <2>1 DEF KeptCall, NativeBlocks
  <2>3. final'.calls = NativeBlocks(handler)
    BY <1>2, <2>2 DEF AssembledMessage, FinalCalls
  <2>4. handler.slots[ev.slot].id => SlotId(handler, ev.slot) = <<"given", ev.slot>>
    BY DEF SlotId
  <2> QED BY <1>2, <2>1, <2>2, <2>3, <2>4 DEF KeptCall
<1>7. AnnouncedCallsKept'
  BY <1>6, KeptInMessage
<1> QED BY <1>2, <1>5, <1>7, QuietKeepsCalls

\* The message of the service's own SDK, and the message of a failed call.
LEMMA OtherEndsKeep ==
    ASSUME CallInv, FinalMessage \/ GiveUp
    PROVE  CallInv'
<1>1. /\ handler' = AddOut(handler, <<[e |-> "assistant"]>>)
      /\ UNCHANGED <<callBackend, idCameLate>>
  BY DEF FinalMessage, GiveUp
<1>2. Quiet(handler, handler')
  BY <1>1, OneEvent, BlockEvents, AddOutQuiet DEF CallInv
<1>3. AnnouncedCallsKept'
  <2>1. CASE FinalMessage
    <3>1. PendingOf(handler'.out) = {}
      BY <1>2, <2>1 DEF FinalMessage, CallInv, Quiet
    <3> QED BY <3>1, KeptInMessage
  <2>2. CASE GiveUp
    BY <2>2, KeptInMessage DEF GiveUp, Failure
  <2> QED BY <2>1, <2>2
<1> QED BY <1>1, <1>2, <1>3, QuietKeepsCalls

LEMMA SpecCallInv == CallSpec => []CallInv
<1>1. CallInit => CallInv
  <2> SUFFICES ASSUME CallInit PROVE CallInv
    OBVIOUS
  <2>1. handler = FreshHandler /\ callStage = "asking"
    BY DEF CallInit
  <2> QED BY <2>1, FreshOk DEF CallInv, AnnouncedCallsKept
<1>2. CallInv /\ [CallNext]_callVars => CallInv'
  <2> SUFFICES ASSUME CallInv, [CallNext]_callVars PROVE CallInv'
    OBVIOUS
  <2>1. CASE Accepted \/ Again
    BY <2>1, FreshKeepsCalls DEF Accepted, Again
  <2>2. CASE LeaveStream
    <3>1. Quiet(handler, handler')
      BY <2>2 DEF LeaveStream, Quiet, CallInv
    <3> QED BY <2>2, <3>1, StreamKeepsCalls DEF LeaveStream
  <2>3. CASE UNCHANGED callVars
    <3>1. Quiet(handler, handler')
      BY <2>3 DEF callVars, Quiet, CallInv
    <3>2. AnnouncedCallsKept'
      BY <2>3 DEF callVars, CallInv, AnnouncedCallsKept
    <3> QED BY <2>3, <3>1, <3>2, QuietKeepsCalls DEF callVars
  <2>4. CASE FinalMessage \/ GiveUp
    BY <2>4, OtherEndsKeep
  <2>5. \/ Accepted \/ Again \/ LeaveStream \/ UNCHANGED callVars \/ FinalMessage \/ GiveUp
        \/ TextArrives \/ ReasoningArrives \/ CallArrives \/ CopyStart \/ CopyDelta \/ CopyStop
        \/ StreamEnds
    BY DEF CallNext, CallEvents, RetryRefused, Refused, RetryConnection, ConnectionFails
  <2> QED
    BY <2>1, <2>2, <2>3, <2>4, <2>5, PiecesKeepCalls, CopiesKeepCalls, CallArrivesKeeps, StreamEndsKeeps
<1> QED BY <1>1, <1>2, PTL DEF CallSpec

\* A call that was announced while it streamed is in the message that ends the
\* call, under the id it was announced with unless its id came later: for any
\* number of calls, of attempts and of things the service sends.
THEOREM SpecAnnouncedCallsKept == CallSpec => []AnnouncedCallsKept
<1>1. CallInv => AnnouncedCallsKept
  BY DEF CallInv
<1> QED BY <1>1, SpecCallInv, PTL

-----------------------------------------------------------------------------
(* VisibleText.  Everything the parser finds in the text is described by    *)
(* the pieces at positions (At, ObjectAt, CallShape), and so is what the    *)
(* filter sees in its buffer, a window of the text (Window).                *)

\* The pieces at a position of the text.
At(n, piece) == n \in 1..Len(said) /\ said[n] = piece
JsonAt(n) == At(n, "brace") /\ At(n + 1, "to") /\ At(n + 2, "ol")
CallTagAt(n) == At(n, "[") /\ At(n + 1, "Call")
AngleAt(n) == At(n, "<") /\ At(n + 1, "angle")
BracketAt(n) == At(n, "[") /\ At(n + 1, "TOOL_CALL")
MarkerAt(n) == JsonAt(n) \/ CallTagAt(n) \/ AngleAt(n) \/ BracketAt(n)
ObjectAt(n) == IF JsonAt(n) /\ At(n + 3, "body") THEN 4
               ELSE IF At(n, "brace") /\ At(n + 1, "body") THEN 2 ELSE 0

\* s is the part of the text that follows its first off pieces.
Window(s, off) ==
    /\ off \in Nat /\ s \in Seq(Pieces) /\ off + Len(s) <= Len(said)
    /\ \A i \in 1..Len(s) : s[i] = said[off + i]

LEMMA FirstPieces ==
    ASSUME NEW S, NEW s \in Seq(S), NEW n \in 0..Len(s)
    PROVE  /\ SubSeq(s, 1, n) \in Seq(S) /\ Len(SubSeq(s, 1, n)) = n
           /\ \A i \in 1..n : SubSeq(s, 1, n)[i] = s[i]
<1>1. /\ Len(s) \in Nat /\ 1 \in Int /\ n \in Int
      /\ n - 1 + 1 = n /\ (1 <= n \/ n = 0) /\ \A i \in 1..n : 1 + i - 1 = i
  BY LenProperties
<1>2. \A i \in 1..n : s[i] \in S
  BY <1>1, ElementOfSeq
<1>3. /\ SubSeq(s, 1, n) \in Seq(S)
      /\ Len(SubSeq(s, 1, n)) = IF 1 <= n THEN n - 1 + 1 ELSE 0
      /\ \A i \in 1..(n - 1 + 1) : SubSeq(s, 1, n)[i] = s[1 + i - 1]
  BY <1>1, <1>2, SubSeqProperties
<1>4. Len(SubSeq(s, 1, n)) = n
  BY <1>1, <1>3
<1> QED BY <1>1, <1>3, <1>4, Zenon

LEMMA StartsPointwise ==
    ASSUME NEW S, NEW s \in Seq(S), NEW p \in Seq(S)
    PROVE  StartsWith(s, p) <=> Len(p) <= Len(s) /\ \A i \in 1..Len(p) : s[i] = p[i]
<1>1. CASE Len(p) <= Len(s)
  <2>1. /\ SubSeq(s, 1, Len(p)) \in Seq(S) /\ Len(SubSeq(s, 1, Len(p))) = Len(p)
        /\ \A i \in 1..Len(p) : SubSeq(s, 1, Len(p))[i] = s[i]
    <3>1. Len(p) \in 0..Len(s)
      BY <1>1, LenProperties
    <3> QED BY <3>1, FirstPieces
  <2>2. SubSeq(s, 1, Len(p)) = p <=> \A i \in 1..Len(p) : s[i] = p[i]
    BY <2>1, SeqEqual
  <2> QED BY <2>2, <1>1 DEF StartsWith
<1>2. CASE ~(Len(p) <= Len(s))
  BY <1>2 DEF StartsWith
<1> QED BY <1>1, <1>2

LEMMA AfterPieces ==
    ASSUME NEW S, NEW s \in Seq(S), NEW n \in 0..Len(s)
    PROVE  /\ After(s, n) \in Seq(S) /\ Len(After(s, n)) = Len(s) - n
           /\ \A i \in 1..(Len(s) - n) : After(s, n)[i] = s[n + i]
<1>1. Len(s) \in Nat
  BY LenProperties
<1>2. CASE n < Len(s)
  <2>1. /\ n + 1 \in Int /\ Len(s) \in Int /\ n + 1 <= Len(s)
        /\ Len(s) - (n + 1) + 1 = Len(s) - n
        /\ \A i \in 1..(Len(s) - n) : (n + 1) + i - 1 = n + i
    BY <1>1, <1>2
  <2>2. \A i \in (n + 1)..Len(s) : s[i] \in S
    <3> TAKE i \in (n + 1)..Len(s)
    <3>1. i \in 1..Len(s)
      BY <1>1
    <3> QED BY <3>1, ElementOfSeq
  <2>3. /\ SubSeq(s, n + 1, Len(s)) \in Seq(S)
        /\ Len(SubSeq(s, n + 1, Len(s))) = IF n + 1 <= Len(s) THEN Len(s) - (n + 1) + 1 ELSE 0
        /\ \A i \in 1..(Len(s) - (n + 1) + 1) : SubSeq(s, n + 1, Len(s))[i] = s[(n + 1) + i - 1]
    BY <2>1, <2>2, SubSeqProperties
  <2> QED BY <2>1, <2>3, Zenon DEF After
<1>3. CASE n = Len(s)
  <2>1. After(s, n) = << >>
    BY <1>1, <1>3 DEF After
  <2> QED BY <2>1, <1>3, <1>1
<1> QED BY <1>1, <1>2, <1>3

LEMMA WindowAfter ==
    ASSUME NEW s, NEW off, Window(s, off), NEW n \in 0..Len(s)
    PROVE  /\ Window(After(s, n), off + n)
           /\ Len(After(s, n)) = Len(s) - n
<1> DEFINE a == After(s, n)
<1>1. Len(s) \in Nat /\ s \in Seq(Pieces)
  BY DEF Window
<1>2. /\ a \in Seq(Pieces) /\ Len(a) = Len(s) - n
      /\ \A i \in 1..(Len(s) - n) : a[i] = s[n + i]
  BY <1>1, AfterPieces
<1>3. \A i \in 1..Len(a) : a[i] = said[(off + n) + i]
  <2> TAKE i \in 1..Len(a)
  <2>1. n + i \in 1..Len(s) /\ i \in 1..(Len(s) - n) /\ off + (n + i) = (off + n) + i
    BY <1>2, <1>1 DEF Window
  <2> QED BY <2>1, <1>2 DEF Window
<1> HIDE DEF a
<1>4. Window(a, off + n)
  BY <1>1, <1>2, <1>3 DEF Window
<1> QED BY <1>4, <1>2 DEF a

LEMMA WholeText ==
    ASSUME said \in Seq(Pieces), NEW n \in 0..Len(said)
    PROVE  Window(After(said, n), n) /\ Len(After(said, n)) = Len(said) - n
<1>1. Window(said, 0)
  BY DEF Window
<1>2. n \in 0..Len(said)
  OBVIOUS
<1>3. Window(After(said, n), 0 + n) /\ Len(After(said, n)) = Len(said) - n
  BY <1>1, <1>2, WindowAfter
<1> QED BY <1>3

LEMMA StartsWith1 ==
    ASSUME NEW S, NEW s \in Seq(S), NEW a \in S
    PROVE  StartsWith(s, <<a>>) <=> Len(s) >= 1 /\ s[1] = a
<1> DEFINE p == <<a>>
<1>1. p \in Seq(S) /\ Len(p) = 1 /\ p[1] = a
  OBVIOUS
<1> HIDE DEF p
<1>2. Len(s) \in Nat /\ \A i \in 1..1 : i = 1
  BY LenProperties
<1>3. StartsWith(s, p) <=> Len(p) <= Len(s) /\ \A i \in 1..Len(p) : s[i] = p[i]
  <2>1. p \in Seq(S)
    BY <1>1
  <2> QED BY <2>1, StartsPointwise, Zenon
<1>4. 1 \in 1..1
  OBVIOUS
<1>5. (\A i \in 1..1 : s[i] = p[i]) <=> s[1] = a
  BY <1>1, <1>2, <1>4, Zenon
<1>6. StartsWith(s, p) <=> Len(s) >= 1 /\ s[1] = a
  <2>1. StartsWith(s, p) <=> 1 <= Len(s) /\ \A i \in 1..1 : s[i] = p[i]
    BY <1>1, <1>3, Zenon
  <2>2. 1 <= Len(s) <=> Len(s) >= 1
    BY <1>2
  <2> QED BY <2>1, <2>2, <1>5, Zenon
<1> QED BY <1>6 DEF p

LEMMA StartsWith2 ==
    ASSUME NEW S, NEW s \in Seq(S), NEW a \in S, NEW b \in S
    PROVE  StartsWith(s, <<a, b>>) <=> Len(s) >= 2 /\ s[1] = a /\ s[2] = b
<1> DEFINE p == <<a, b>>
<1>1. p \in Seq(S) /\ Len(p) = 2 /\ p[1] = a /\ p[2] = b
  OBVIOUS
<1> HIDE DEF p
<1>2. Len(s) \in Nat /\ \A i \in 1..2 : i = 1 \/ i = 2
  BY LenProperties
<1>3. StartsWith(s, p) <=> Len(p) <= Len(s) /\ \A i \in 1..Len(p) : s[i] = p[i]
  <2>1. p \in Seq(S)
    BY <1>1
  <2> QED BY <2>1, StartsPointwise, Zenon
<1>4. 1 \in 1..2 /\ 2 \in 1..2
  OBVIOUS
<1>5. (\A i \in 1..2 : s[i] = p[i]) <=> s[1] = a /\ s[2] = b
  BY <1>1, <1>2, <1>4, Zenon
<1>6. StartsWith(s, p) <=> Len(s) >= 2 /\ s[1] = a /\ s[2] = b
  <2>1. StartsWith(s, p) <=> 2 <= Len(s) /\ \A i \in 1..2 : s[i] = p[i]
    BY <1>1, <1>3, Zenon
  <2>2. 2 <= Len(s) <=> Len(s) >= 2
    BY <1>2
  <2> QED BY <2>1, <2>2, <1>5, Zenon
<1> QED BY <1>6 DEF p

LEMMA StartsWith3 ==
    ASSUME NEW S, NEW s \in Seq(S), NEW a \in S, NEW b \in S, NEW c \in S
    PROVE  StartsWith(s, <<a, b, c>>) <=> Len(s) >= 3 /\ s[1] = a /\ s[2] = b /\ s[3] = c
<1> DEFINE p == <<a, b, c>>
<1>1. p \in Seq(S) /\ Len(p) = 3 /\ p[1] = a /\ p[2] = b /\ p[3] = c
  OBVIOUS
<1> HIDE DEF p
<1>2. Len(s) \in Nat /\ \A i \in 1..3 : i = 1 \/ i = 2 \/ i = 3
  BY LenProperties
<1>3. StartsWith(s, p) <=> Len(p) <= Len(s) /\ \A i \in 1..Len(p) : s[i] = p[i]
  <2>1. p \in Seq(S)
    BY <1>1
  <2> QED BY <2>1, StartsPointwise, Zenon
<1>4. 1 \in 1..3 /\ 2 \in 1..3 /\ 3 \in 1..3
  OBVIOUS
<1>5. (\A i \in 1..3 : s[i] = p[i]) <=> s[1] = a /\ s[2] = b /\ s[3] = c
  BY <1>1, <1>2, <1>4, Zenon
<1>6. StartsWith(s, p) <=> Len(s) >= 3 /\ s[1] = a /\ s[2] = b /\ s[3] = c
  <2>1. StartsWith(s, p) <=> 3 <= Len(s) /\ \A i \in 1..3 : s[i] = p[i]
    BY <1>1, <1>3, Zenon
  <2>2. 3 <= Len(s) <=> Len(s) >= 3
    BY <1>2
  <2> QED BY <2>1, <2>2, <1>5, Zenon
<1> QED BY <1>6 DEF p

LEMMA StartsWith4 ==
    ASSUME NEW S, NEW s \in Seq(S), NEW a \in S, NEW b \in S, NEW c \in S, NEW d \in S
    PROVE  StartsWith(s, <<a, b, c, d>>) <=> Len(s) >= 4 /\ s[1] = a /\ s[2] = b /\ s[3] = c /\ s[4] = d
<1> DEFINE p == <<a, b, c, d>>
<1>1. p \in Seq(S) /\ Len(p) = 4 /\ p[1] = a /\ p[2] = b /\ p[3] = c /\ p[4] = d
  OBVIOUS
<1> HIDE DEF p
<1>2. Len(s) \in Nat /\ \A i \in 1..4 : i = 1 \/ i = 2 \/ i = 3 \/ i = 4
  BY LenProperties
<1>3. StartsWith(s, p) <=> Len(p) <= Len(s) /\ \A i \in 1..Len(p) : s[i] = p[i]
  <2>1. p \in Seq(S)
    BY <1>1
  <2> QED BY <2>1, StartsPointwise, Zenon
<1>4. 1 \in 1..4 /\ 2 \in 1..4 /\ 3 \in 1..4 /\ 4 \in 1..4
  OBVIOUS
<1>5. (\A i \in 1..4 : s[i] = p[i]) <=> s[1] = a /\ s[2] = b /\ s[3] = c /\ s[4] = d
  BY <1>1, <1>2, <1>4, Zenon
<1>6. StartsWith(s, p) <=> Len(s) >= 4 /\ s[1] = a /\ s[2] = b /\ s[3] = c /\ s[4] = d
  <2>1. StartsWith(s, p) <=> 4 <= Len(s) /\ \A i \in 1..4 : s[i] = p[i]
    BY <1>1, <1>3, Zenon
  <2>2. 4 <= Len(s) <=> Len(s) >= 4
    BY <1>2
  <2> QED BY <2>1, <2>2, <1>5, Zenon
<1> QED BY <1>6 DEF p

\* What a window says of the text.
LEMMA WindowPieces ==
    ASSUME NEW s, NEW off, Window(s, off), NEW n \in 1..Len(s), NEW x
    PROVE  At(off + n, x) <=> s[n] = x
<1>1. off + n \in 1..Len(said) /\ s[n] = said[off + n]
  BY DEF Window
<1> QED BY <1>1 DEF At

LEMMA WindowHeads ==
    ASSUME said \in Seq(Pieces), NEW s, NEW off, Window(s, off)
    PROVE  /\ StartsWith(s, JsonHead) <=> Len(s) >= 3 /\ JsonAt(off + 1)
           /\ StartsWith(s, CallHead) <=> Len(s) >= 2 /\ CallTagAt(off + 1)
           /\ StartsWith(s, AngleHead) <=> Len(s) >= 2 /\ AngleAt(off + 1)
           /\ StartsWith(s, BracketHead) <=> Len(s) >= 2 /\ BracketAt(off + 1)
           /\ StartsWith(s, <<"brace", "to", "ol", "body">>) <=>
                Len(s) >= 4 /\ JsonAt(off + 1) /\ At(off + 4, "body")
           /\ StartsWith(s, <<"brace", "body">>) <=>
                Len(s) >= 2 /\ At(off + 1, "brace") /\ At(off + 2, "body")
           /\ StartsWith(s, <<"</>">>) <=> Len(s) >= 1 /\ At(off + 1, "</>")
           /\ StartsWith(s, <<"/TOOL_CALL">>) <=> Len(s) >= 1 /\ At(off + 1, "/TOOL_CALL")
<1>1. s \in Seq(Pieces) /\ Len(s) \in Nat /\ off \in Nat
  BY DEF Window
<1>2. /\ "brace" \in Pieces /\ "to" \in Pieces /\ "ol" \in Pieces /\ "body" \in Pieces
      /\ "[" \in Pieces /\ "Call" \in Pieces /\ "<" \in Pieces /\ "angle" \in Pieces
      /\ "</>" \in Pieces /\ "TOOL_CALL" \in Pieces /\ "/TOOL_CALL" \in Pieces
  BY DEF Pieces
<1>3. StartsWith(s, <<"brace", "to", "ol">>) <=> Len(s) >= 3 /\ s[1] = "brace" /\ s[2] = "to" /\ s[3] = "ol"
  BY <1>1, <1>2, StartsWith3
<1>4. StartsWith(s, <<"[", "Call">>) <=> Len(s) >= 2 /\ s[1] = "[" /\ s[2] = "Call"
  BY <1>1, <1>2, StartsWith2
<1>5. StartsWith(s, <<"<", "angle">>) <=> Len(s) >= 2 /\ s[1] = "<" /\ s[2] = "angle"
  BY <1>1, <1>2, StartsWith2
<1>6. StartsWith(s, <<"[", "TOOL_CALL">>) <=> Len(s) >= 2 /\ s[1] = "[" /\ s[2] = "TOOL_CALL"
  BY <1>1, <1>2, StartsWith2
<1>7. StartsWith(s, <<"brace", "to", "ol", "body">>) <=>
        Len(s) >= 4 /\ s[1] = "brace" /\ s[2] = "to" /\ s[3] = "ol" /\ s[4] = "body"
  BY <1>1, <1>2, StartsWith4
<1>8. StartsWith(s, <<"brace", "body">>) <=> Len(s) >= 2 /\ s[1] = "brace" /\ s[2] = "body"
  BY <1>1, <1>2, StartsWith2
<1>9. StartsWith(s, <<"</>">>) <=> Len(s) >= 1 /\ s[1] = "</>"
  BY <1>1, <1>2, StartsWith1
<1>10. StartsWith(s, <<"/TOOL_CALL">>) <=> Len(s) >= 1 /\ s[1] = "/TOOL_CALL"
  BY <1>1, <1>2, StartsWith1
<1>11. /\ Len(s) >= 1 => 1 \in 1..Len(s)
       /\ Len(s) >= 2 => 1 \in 1..Len(s) /\ 2 \in 1..Len(s)
       /\ Len(s) >= 3 => 1 \in 1..Len(s) /\ 2 \in 1..Len(s) /\ 3 \in 1..Len(s)
       /\ Len(s) >= 4 => 1 \in 1..Len(s) /\ 2 \in 1..Len(s) /\ 3 \in 1..Len(s) /\ 4 \in 1..Len(s)
  BY <1>1
<1>12. \A n \in 1..Len(s) : \A x : At(off + n, x) <=> s[n] = x
  BY WindowPieces
<1>13. (off + 1) + 1 = off + 2 /\ (off + 1) + 2 = off + 3
  BY <1>1
<1>14. StartsWith(s, JsonHead) <=> Len(s) >= 3 /\ JsonAt(off + 1)
  BY <1>3, <1>11, <1>12, <1>13, Zenon DEF JsonHead, JsonAt
<1>15. StartsWith(s, CallHead) <=> Len(s) >= 2 /\ CallTagAt(off + 1)
  BY <1>4, <1>11, <1>12, <1>13, Zenon DEF CallHead, CallTagAt
<1>16. StartsWith(s, AngleHead) <=> Len(s) >= 2 /\ AngleAt(off + 1)
  BY <1>5, <1>11, <1>12, <1>13, Zenon DEF AngleHead, AngleAt
<1>17. StartsWith(s, BracketHead) <=> Len(s) >= 2 /\ BracketAt(off + 1)
  BY <1>6, <1>11, <1>12, <1>13, Zenon DEF BracketHead, BracketAt
<1>18. StartsWith(s, <<"brace", "to", "ol", "body">>) <=>
        Len(s) >= 4 /\ JsonAt(off + 1) /\ At(off + 4, "body")
  BY <1>7, <1>11, <1>12, <1>13, Zenon DEF JsonAt
<1>19. StartsWith(s, <<"brace", "body">>) <=>
        Len(s) >= 2 /\ At(off + 1, "brace") /\ At(off + 2, "body")
  BY <1>8, <1>11, <1>12, Zenon
<1>20. StartsWith(s, <<"</>">>) <=> Len(s) >= 1 /\ At(off + 1, "</>")
  BY <1>9, <1>11, <1>12, Zenon
<1>21. StartsWith(s, <<"/TOOL_CALL">>) <=> Len(s) >= 1 /\ At(off + 1, "/TOOL_CALL")
  BY <1>10, <1>11, <1>12, Zenon
<1> QED BY <1>14, <1>15, <1>16, <1>17, <1>18, <1>19, <1>20, <1>21

\* What is decoded at the start of a window.
LEMMA WindowDecode ==
    ASSUME said \in Seq(Pieces), NEW s, NEW off, Window(s, off)
    PROVE  /\ Decode(s) \in {0, 2, 4} /\ Decode(s) <= Len(s)
           /\ Decode(s) # 0 => Decode(s) = ObjectAt(off + 1)
           /\ off + Len(s) = Len(said) => Decode(s) = ObjectAt(off + 1)
<1> DEFINE four == StartsWith(s, <<"brace", "to", "ol", "body">>)
           two == StartsWith(s, <<"brace", "body">>)
<1>1. Len(s) \in Nat /\ off \in Nat /\ off + Len(s) <= Len(said) /\ Len(said) \in Nat
  BY DEF Window
<1>2. four <=> Len(s) >= 4 /\ JsonAt(off + 1) /\ At(off + 4, "body")
  BY WindowHeads
<1>3. two <=> Len(s) >= 2 /\ At(off + 1, "brace") /\ At(off + 2, "body")
  BY WindowHeads
<1>4. (off + 1) + 3 = off + 4 /\ (off + 1) + 1 = off + 2 /\ (off + 1) + 2 = off + 3
  BY <1>1
<1>5. JsonAt(off + 1) <=> At(off + 1, "brace") /\ At(off + 2, "to") /\ At(off + 3, "ol")
  BY <1>4 DEF JsonAt
<1>6. ~(At(off + 2, "to") /\ At(off + 2, "body"))
  BY DEF At
<1>7. /\ At(off + 4, "body") => off + 4 <= Len(said)
      /\ At(off + 2, "body") => off + 2 <= Len(said)
  BY <1>1 DEF At
<1>8. ObjectAt(off + 1) = IF JsonAt(off + 1) /\ At(off + 4, "body") THEN 4
                          ELSE IF At(off + 1, "brace") /\ At(off + 2, "body") THEN 2 ELSE 0
  BY <1>4 DEF ObjectAt
<1>9. Decode(s) = IF four THEN 4 ELSE IF two THEN 2 ELSE 0
  BY DEF Decode
<1> HIDE DEF four, two
<1>10. Decode(s) \in {0, 2, 4} /\ Decode(s) <= Len(s)
  BY <1>1, <1>2, <1>3, <1>9
<1>11. Decode(s) # 0 => Decode(s) = ObjectAt(off + 1)
  BY <1>2, <1>3, <1>5, <1>6, <1>8, <1>9
<1>12. ASSUME off + Len(s) = Len(said) PROVE Decode(s) = ObjectAt(off + 1)
  <2>1. /\ At(off + 4, "body") => Len(s) >= 4
        /\ At(off + 2, "body") => Len(s) >= 2
    BY <1>1, <1>7, <1>12
  <2> QED BY <1>2, <1>3, <1>8, <1>9, <2>1
<1> QED BY <1>10, <1>11, <1>12

\* What an object at n says of the text.
LEMMA ObjectPieces ==
    ASSUME said \in Seq(Pieces), NEW n \in Int
    PROVE  /\ ObjectAt(n) \in {0, 2, 4}
           /\ ObjectAt(n) # 0 => /\ n \in 1..Len(said) /\ n + ObjectAt(n) - 1 <= Len(said)
                                 /\ said[n] = "brace"
           /\ ObjectAt(n) = 4 => said[n + 1] = "to" /\ said[n + 2] = "ol" /\ said[n + 3] = "body"
           /\ ObjectAt(n) = 2 => said[n + 1] = "body"
<1>1. Len(said) \in Nat
  OBVIOUS
<1> QED BY <1>1 DEF ObjectAt, JsonAt, At

LEMMA WholeDecode ==
    ASSUME said \in Seq(Pieces), NEW n \in 0..Len(said)
    PROVE  Decode(After(said, n)) = ObjectAt(n + 1)
<1>1. Window(After(said, n), n) /\ n + Len(After(said, n)) = Len(said)
  BY WholeText
<1> QED BY <1>1, WindowDecode

LEMMA WholeHeads ==
    ASSUME said \in Seq(Pieces), NEW n \in 1..Len(said)
    PROVE  /\ StartsWith(After(said, n - 1), JsonHead) <=> JsonAt(n)
           /\ StartsWith(After(said, n - 1), CallHead) <=> CallTagAt(n)
           /\ StartsWith(After(said, n - 1), AngleHead) <=> AngleAt(n)
           /\ StartsWith(After(said, n - 1), BracketHead) <=> BracketAt(n)
<1> DEFINE a == After(said, n - 1)
<1>1. n - 1 \in 0..Len(said) /\ (n - 1) + 1 = n /\ Len(said) \in Nat
  OBVIOUS
<1>2. Window(a, n - 1) /\ Len(a) = Len(said) - (n - 1)
  BY <1>1, WholeText
<1>3. /\ JsonAt(n) => Len(a) >= 3
      /\ CallTagAt(n) \/ AngleAt(n) \/ BracketAt(n) => Len(a) >= 2
  BY <1>1, <1>2 DEF JsonAt, CallTagAt, AngleAt, BracketAt, At
<1> HIDE DEF a
<1>4. /\ StartsWith(a, JsonHead) <=> Len(a) >= 3 /\ JsonAt((n - 1) + 1)
      /\ StartsWith(a, CallHead) <=> Len(a) >= 2 /\ CallTagAt((n - 1) + 1)
      /\ StartsWith(a, AngleHead) <=> Len(a) >= 2 /\ AngleAt((n - 1) + 1)
      /\ StartsWith(a, BracketHead) <=> Len(a) >= 2 /\ BracketAt((n - 1) + 1)
  BY <1>2, WindowHeads
<1>5. /\ StartsWith(a, JsonHead) <=> JsonAt(n)
      /\ StartsWith(a, CallHead) <=> CallTagAt(n)
      /\ StartsWith(a, AngleHead) <=> AngleAt(n)
      /\ StartsWith(a, BracketHead) <=> BracketAt(n)
  BY <1>1, <1>3, <1>4
<1> QED BY <1>5 DEF a

\* Where the calls of the parser begin and end.
CallShape(b, e) ==
    \/ BracketAt(b) /\ ObjectAt(b + 2) = 4 /\ At(b + 6, "/TOOL_CALL") /\ e = b + 6
    \/ /\ AngleAt(b) /\ ObjectAt(b + 2) # 0
       /\ e = b + 1 + ObjectAt(b + 2) + (IF At(b + 2 + ObjectAt(b + 2), "</>") THEN 1 ELSE 0)
    \/ CallTagAt(b) /\ ObjectAt(b + 2) # 0 /\ e = b + 1 + ObjectAt(b + 2)
    \/ JsonAt(b) /\ ObjectAt(b) = 4 /\ e = b + 3

LEMMA CallShapes ==
    ASSUME said \in Seq(Pieces), NEW c \in ParsedCalls
    PROVE  c[1] \in 1..Len(said) /\ c[2] \in 1..Len(said) /\ CallShape(c[1], c[2])
<1>0. Len(said) \in Nat /\ DOMAIN said = 1..Len(said)
  OBVIOUS
<1>1. CASE c \in BracketCalls
  <2>1. PICK m \in HeadsAt(BracketHead) :
          /\ c = <<m, m + 6>> /\ IsToolObject(After(said, m + 1))
          /\ StartsWith(After(said, m + 5), <<"/TOOL_CALL">>)
    BY <1>1 DEF BracketCalls
  <2>2. m \in 1..Len(said) /\ BracketAt(m)
    BY <2>1, <1>0, WholeHeads DEF HeadsAt
  <2>3. m + 1 \in 0..Len(said) /\ (m + 1) + 1 = m + 2
    BY <2>2, <1>0 DEF BracketAt, At
  <2>4. ObjectAt(m + 2) = 4
    BY <2>1, <2>3, WholeDecode DEF IsToolObject
  <2>5. m + 5 \in 0..Len(said) /\ (m + 5) + 1 = m + 6
    BY <2>2, <2>4, <1>0, ObjectPieces
  <2>6. Window(After(said, m + 5), m + 5)
    BY <2>5, WholeText
  <2>7. At((m + 5) + 1, "/TOOL_CALL")
    BY <2>1, <2>6, WindowHeads
  <2>8. At(m + 6, "/TOOL_CALL")
    BY <2>7, <2>5
  <2>9. m + 6 \in 1..Len(said)
    BY <2>8 DEF At
  <2> QED BY <2>1, <2>2, <2>4, <2>8, <2>9 DEF CallShape
<1>2. CASE c \in AngleCalls
  <2>1. PICK m \in HeadsAt(AngleHead) :
          /\ Decode(After(said, m + 1)) > 0
          /\ c = <<m, m + 1 + Decode(After(said, m + 1))
                    + (IF StartsWith(After(said, m + 1 + Decode(After(said, m + 1))), <<"</>">>)
                       THEN 1 ELSE 0)>>
    BY <1>2 DEF AngleCalls
  <2>2. m \in 1..Len(said) /\ AngleAt(m)
    BY <2>1, <1>0, WholeHeads DEF HeadsAt
  <2>3. m + 1 \in 0..Len(said) /\ (m + 1) + 1 = m + 2
    BY <2>2, <1>0 DEF AngleAt, At
  <2>4. Decode(After(said, m + 1)) = ObjectAt(m + 2)
    BY <2>3, WholeDecode
  <2> DEFINE o == ObjectAt(m + 2)
  <2>5. o \in {2, 4} /\ m + 1 + o \in 0..Len(said) /\ (m + 1 + o) + 1 = m + 2 + o
    BY <2>1, <2>2, <2>4, <1>0, ObjectPieces
  <2> HIDE DEF o
  <2>6. Window(After(said, m + 1 + o), m + 1 + o) /\ Len(After(said, m + 1 + o)) = Len(said) - (m + 1 + o)
    BY <2>5, WholeText
  <2>7. StartsWith(After(said, m + 1 + o), <<"</>">>) <=>
          Len(After(said, m + 1 + o)) >= 1 /\ At((m + 1 + o) + 1, "</>")
    BY <2>6, WindowHeads
  <2>8. At(m + 2 + o, "</>") => m + 2 + o <= Len(said)
    BY <2>2, <2>5, <1>0 DEF At
  <2>9. StartsWith(After(said, m + 1 + o), <<"</>">>) <=> At(m + 2 + o, "</>")
    BY <2>2, <2>5, <2>6, <2>7, <2>8, <1>0
  <2>10. c[1] = m /\ c[2] = m + 1 + o + (IF At(m + 2 + o, "</>") THEN 1 ELSE 0)
    BY <2>1, <2>4, <2>9 DEF o
  <2>11. c[2] \in 1..Len(said)
    BY <2>10, <2>8, <2>5, <2>2, <1>0
  <2> QED BY <2>10, <2>11, <2>2, <2>5 DEF CallShape, o
<1>3. CASE c \in CallCalls
  <2>1. PICK m \in HeadsAt(CallHead) :
          /\ Decode(After(said, m + 1)) > 0
          /\ c = <<m, m + 1 + Decode(After(said, m + 1))>>
    BY <1>3 DEF CallCalls
  <2>2. m \in 1..Len(said) /\ CallTagAt(m)
    BY <2>1, <1>0, WholeHeads DEF HeadsAt
  <2>3. m + 1 \in 0..Len(said) /\ (m + 1) + 1 = m + 2
    BY <2>2, <1>0 DEF CallTagAt, At
  <2>4. Decode(After(said, m + 1)) = ObjectAt(m + 2)
    BY <2>3, WholeDecode
  <2>5. ObjectAt(m + 2) # 0 /\ m + 1 + ObjectAt(m + 2) \in 1..Len(said)
    BY <2>1, <2>2, <2>4, <1>0, ObjectPieces
  <2> QED BY <2>1, <2>2, <2>4, <2>5 DEF CallShape
<1>4. CASE c \in CompactCalls
  <2>1. PICK m \in HeadsAt(JsonHead) : IsToolObject(After(said, m - 1)) /\ c = <<m, m + 3>>
    BY <1>4 DEF CompactCalls
  <2>2. m \in 1..Len(said) /\ JsonAt(m)
    BY <2>1, <1>0, WholeHeads DEF HeadsAt
  <2>3. m - 1 \in 0..Len(said) /\ (m - 1) + 1 = m
    BY <2>2, <1>0
  <2>4. ObjectAt(m) = 4
    BY <2>1, <2>3, WholeDecode DEF IsToolObject
  <2>5. m + 3 \in 1..Len(said)
    BY <2>2, <2>4, <1>0, ObjectPieces
  <2> QED BY <2>1, <2>2, <2>4, <2>5 DEF CallShape
<1> QED BY <1>1, <1>2, <1>3, <1>4 DEF ParsedCalls

\* A call begins with a head, lies within the text and closes no bracket
\* before its last piece.
LEMMA CallBounds ==
    ASSUME said \in Seq(Pieces), NEW c \in ParsedCalls
    PROVE  /\ c[1] \in Nat /\ c[2] \in Nat /\ c[1] <= c[2] /\ c[2] <= Len(said) /\ MarkerAt(c[1])
           /\ said[c[1]] \in {"[", "<", "brace"}
           /\ \A i \in c[1]..(c[2] - 1) : said[i] # "/TOOL_CALL"
<1> DEFINE b == c[1]
           e == c[2]
           o == ObjectAt(b + 2)
<1>1. b \in 1..Len(said) /\ e \in 1..Len(said) /\ CallShape(b, e) /\ Len(said) \in Nat
  BY CallShapes
<1>2. /\ o \in {0, 2, 4}
      /\ o # 0 => said[b + 2] = "brace"
      /\ o = 4 => said[(b + 2) + 1] = "to" /\ said[(b + 2) + 2] = "ol" /\ said[(b + 2) + 3] = "body"
      /\ o = 2 => said[(b + 2) + 1] = "body"
  <2>1. b + 2 \in Int
    BY <1>1
  <2> HIDE DEF b
  <2> QED BY <2>1, ObjectPieces
<1>3. ObjectAt(b) = 4 => /\ said[b] = "brace" /\ said[b + 1] = "to" /\ said[b + 2] = "ol"
                        /\ said[b + 3] = "body"
  BY <1>1, ObjectPieces
<1>4. (b + 2) + 1 = b + 3 /\ (b + 2) + 2 = b + 4 /\ (b + 2) + 3 = b + 5
  BY <1>1
<1> HIDE DEF b, e, o
<1>5. CASE BracketAt(b) /\ o = 4 /\ At(b + 6, "/TOOL_CALL") /\ e = b + 6
  <2>1. said[b] = "[" /\ said[b + 1] = "TOOL_CALL"
    BY <1>5 DEF BracketAt, At
  <2>2. \A i \in b..(e - 1) : i = b \/ i = b + 1 \/ i = b + 2 \/ i = b + 3 \/ i = b + 4 \/ i = b + 5
    BY <1>1, <1>5
  <2>3. \A i \in b..(e - 1) : said[i] # "/TOOL_CALL"
    BY <1>2, <1>4, <1>5, <2>1, <2>2
  <2> QED BY <1>1, <1>5, <2>1, <2>3 DEF MarkerAt, b, e
<1>6. CASE /\ AngleAt(b) /\ o # 0
           /\ e = b + 1 + o + (IF At(b + 2 + o, "</>") THEN 1 ELSE 0)
  <2>1. said[b] = "<" /\ said[b + 1] = "angle"
    BY <1>6 DEF AngleAt, At
  <2>2. e >= b /\ \A i \in b..(e - 1) : i \in b..(b + 1 + o)
    BY <1>1, <1>2, <1>6
  <2>3. \A i \in b..(b + 1 + o) : \/ i = b \/ i = b + 1 \/ i = b + 2 \/ i = b + 3
                                  \/ o = 4 /\ (i = b + 4 \/ i = b + 5)
    BY <1>1, <1>2, <1>6
  <2>4. \A i \in b..(e - 1) : said[i] # "/TOOL_CALL"
    BY <1>2, <1>4, <1>6, <2>1, <2>2, <2>3
  <2> QED BY <1>1, <1>6, <2>1, <2>2, <2>4 DEF MarkerAt, b, e
<1>7. CASE CallTagAt(b) /\ o # 0 /\ e = b + 1 + o
  <2>1. said[b] = "[" /\ said[b + 1] = "Call"
    BY <1>7 DEF CallTagAt, At
  <2>2. e >= b /\ \A i \in b..(e - 1) : i \in b..(b + 1 + o)
    BY <1>1, <1>2, <1>7
  <2>3. \A i \in b..(b + 1 + o) : \/ i = b \/ i = b + 1 \/ i = b + 2 \/ i = b + 3
                                  \/ o = 4 /\ (i = b + 4 \/ i = b + 5)
    BY <1>1, <1>2, <1>7
  <2>4. \A i \in b..(e - 1) : said[i] # "/TOOL_CALL"
    BY <1>2, <1>4, <1>7, <2>1, <2>2, <2>3
  <2> QED BY <1>1, <1>7, <2>1, <2>2, <2>4 DEF MarkerAt, b, e
<1>8. CASE JsonAt(b) /\ ObjectAt(b) = 4 /\ e = b + 3
  <2>1. \A i \in b..(e - 1) : i = b \/ i = b + 1 \/ i = b + 2
    BY <1>1, <1>8
  <2>2. \A i \in b..(e - 1) : said[i] # "/TOOL_CALL"
    BY <1>3, <1>8, <2>1
  <2> QED BY <1>1, <1>3, <1>8, <2>2 DEF MarkerAt, b, e
<1> QED BY <1>1, <1>5, <1>6, <1>7, <1>8 DEF CallShape, o

\* No call that begins among the k pieces behind off goes on behind them.
Contained(off, k) == \A c \in ParsedCalls : c[1] \in (off + 1)..(off + k) => c[2] <= off + k

\* What each stripper may answer for a window.
Drops(s, off, k) ==
    \/ k = NoMatch
    \/ MarkerAt(off + 1) /\ k = Hold
    \/ MarkerAt(off + 1) /\ k \in 1..Len(s) /\ Contained(off, k)

LEMMA ContainedAtEnd ==
    ASSUME said \in Seq(Pieces), NEW off, NEW k, off + k = Len(said)
    PROVE  Contained(off, k)
BY CallBounds DEF Contained

\* No call goes on behind a closing bracket that it does not contain.
LEMMA BracketDrops ==
    ASSUME said \in Seq(Pieces), NEW s, NEW off, Window(s, off), NEW eof \in BOOLEAN,
           eof => off + Len(s) = Len(said)
    PROVE  Drops(s, off, StripBracket(s, eof))
<1> DEFINE close == FirstAt(s, "/TOOL_CALL")
           k == CHOOSE n \in close : TRUE
<1>1. /\ Len(s) \in Nat /\ DOMAIN s = 1..Len(s) /\ off \in Nat /\ Len(said) \in Nat
      /\ \A i \in 1..Len(s) : s[i] = said[off + i]
  BY DEF Window
<1>2. SUFFICES ASSUME StartsWith(s, BracketHead) PROVE Drops(s, off, StripBracket(s, eof))
  BY DEF StripBracket, Drops
<1>3. Len(s) >= 2 /\ MarkerAt(off + 1)
  BY <1>2, WindowHeads DEF MarkerAt
<1>4. CASE close # {}
  <2>1. k \in close /\ StripBracket(s, eof) = k
    BY <1>2, <1>4 DEF StripBracket
  <2>2. k \in 1..Len(s) /\ said[off + k] = "/TOOL_CALL"
    BY <2>1, <1>1 DEF FirstAt
  <2> HIDE DEF k
  <2>3. Contained(off, k)
    <3> SUFFICES ASSUME NEW c \in ParsedCalls, c[1] \in (off + 1)..(off + k), ~(c[2] <= off + k)
                 PROVE  FALSE
      BY DEF Contained
    <3>1. /\ c[1] \in Nat /\ c[2] \in Nat
          /\ \A i \in c[1]..(c[2] - 1) : said[i] # "/TOOL_CALL"
      BY CallBounds
    <3>2. off + k \in c[1]..(c[2] - 1)
      BY <3>1, <2>2, <1>1
    <3> QED BY <3>1, <3>2, <2>2
  <2> QED BY <1>3, <2>1, <2>2, <2>3 DEF Drops
<1>5. CASE close = {} /\ eof
  <2>1. StripBracket(s, eof) = Len(s)
    BY <1>2, <1>5 DEF StripBracket
  <2>2. Contained(off, Len(s)) /\ Len(s) \in 1..Len(s)
    BY <1>5, <1>3, <1>1, ContainedAtEnd
  <2> QED BY <1>3, <2>1, <2>2 DEF Drops
<1>6. CASE close = {} /\ ~eof
  <2>1. StripBracket(s, eof) = Hold
    BY <1>2, <1>6 DEF StripBracket
  <2> QED BY <1>3, <2>1 DEF Drops
<1> QED BY <1>4, <1>5, <1>6

\* The dropped pieces of a tagged object: no call begins at the tag's second
\* piece or inside the object, but the object itself may be one.
LEMMA TaggedObject ==
    ASSUME said \in Seq(Pieces), NEW n \in Nat, ObjectAt(n) # 0,
           NEW c \in ParsedCalls, c[1] \in n..(n + ObjectAt(n) - 1)
    PROVE  c[1] = n /\ c[2] <= n + ObjectAt(n) - 1
<1> DEFINE b == c[1]
           o == ObjectAt(n)
<1>1. /\ b \in Nat /\ c[2] \in Nat /\ CallShape(b, c[2])
      /\ said[b] \in {"[", "<", "brace"}
  BY CallBounds, CallShapes
<1>2. /\ o \in {2, 4}
      /\ said[n] = "brace"
      /\ o = 4 => said[n + 1] = "to" /\ said[n + 2] = "ol" /\ said[n + 3] = "body"
      /\ o = 2 => said[n + 1] = "body"
  BY ObjectPieces
<1>3. b \in n..(n + o - 1)
  OBVIOUS
<1> HIDE DEF b, o
<1>4. b = n \/ b = n + 1 \/ (o = 4 /\ (b = n + 2 \/ b = n + 3))
  BY <1>1, <1>2, <1>3
<1>5. b = n
  BY <1>1, <1>2, <1>4
<1>6. JsonAt(b) /\ ObjectAt(b) = 4 /\ c[2] = b + 3
  BY <1>1, <1>2, <1>5 DEF CallShape, BracketAt, AngleAt, CallTagAt, At
<1> QED BY <1>5, <1>6 DEF b

LEMMA CallDrops ==
    ASSUME said \in Seq(Pieces), NEW s, NEW off, Window(s, off), NEW eof \in BOOLEAN,
           eof => off + Len(s) = Len(said)
    PROVE  Drops(s, off, StripCall(s, eof))
<1> DEFINE rest == After(s, 2)
           d == Decode(rest)
<1>1. Len(s) \in Nat /\ off \in Nat /\ Len(said) \in Nat
  BY DEF Window
<1>2. SUFFICES ASSUME StartsWith(s, CallHead) PROVE Drops(s, off, StripCall(s, eof))
  BY DEF StripCall, Drops
<1>3. Len(s) >= 2 /\ MarkerAt(off + 1) /\ CallTagAt(off + 1)
  BY <1>2, WindowHeads DEF MarkerAt
<1>4. /\ said[off + 1] = "[" /\ said[off + 2] = "Call"
      /\ (off + 1) + 1 = off + 2 /\ (off + 1) + 2 = off + 3 /\ (off + 2) + 1 = off + 3
  <2>1. (off + 1) + 1 = off + 2 /\ (off + 1) + 2 = off + 3 /\ (off + 2) + 1 = off + 3
    BY <1>1
  <2> QED BY <1>3, <2>1 DEF CallTagAt, At
<1>5. Window(rest, off + 2) /\ Len(rest) = Len(s) - 2
  BY <1>1, <1>3, WindowAfter
<1>6. /\ d \in {0, 2, 4} /\ d <= Len(rest)
      /\ d # 0 => d = ObjectAt(off + 3)
  BY <1>4, <1>5, WindowDecode
\* A call that begins at the front is a tagged one; none begins at the tag.
<1>7. ASSUME NEW c \in ParsedCalls, c[1] \in (off + 1)..(off + 2)
      PROVE  ObjectAt(off + 3) # 0 /\ c[2] = off + 2 + ObjectAt(off + 3)
  <2>1. /\ c[1] \in Nat /\ c[2] \in Nat /\ CallShape(c[1], c[2])
        /\ said[c[1]] \in {"[", "<", "brace"}
    BY CallBounds, CallShapes
  <2>2. c[1] = off + 1 \/ c[1] = off + 2
    BY <1>1, <1>7, <2>1
  <2>3. c[1] = off + 1
    BY <1>4, <2>1, <2>2
  <2>4. CallShape(off + 1, c[2])
    BY <2>1, <2>3
  <2>5. ~BracketAt(off + 1) /\ ~AngleAt(off + 1) /\ ~JsonAt(off + 1)
    BY <1>4 DEF BracketAt, AngleAt, JsonAt, At
  <2>6. ObjectAt((off + 1) + 2) # 0 /\ c[2] = (off + 1) + 1 + ObjectAt((off + 1) + 2)
    BY <2>4, <2>5 DEF CallShape
  <2> QED BY <2>6, <1>4
<1>8. CASE rest # <<>> /\ d > 0
  <2>1. StripCall(s, eof) = 2 + d
    BY <1>2, <1>8 DEF StripCall
  <2>2. d = ObjectAt(off + 3) /\ d \in {2, 4}
    BY <1>6, <1>8
  <2> HIDE DEF d
  <2>3. Contained(off, 2 + d)
    <3> SUFFICES ASSUME NEW c \in ParsedCalls, c[1] \in (off + 1)..(off + (2 + d))
                 PROVE  c[2] <= off + (2 + d)
      BY DEF Contained
    <3>0. c[1] \in Nat /\ c[2] \in Nat
      BY CallBounds
    <3>1. CASE c[1] \in (off + 1)..(off + 2)
      BY <3>1, <3>0, <1>7, <2>2, <1>1
    <3>2. CASE c[1] \in (off + 3)..(off + 3 + d - 1)
      <4>1. c[2] <= off + 3 + ObjectAt(off + 3) - 1
        BY <3>2, <2>2, <1>1, TaggedObject
      <4> QED BY <4>1, <3>0, <2>2, <1>1
    <3> QED BY <3>0, <3>1, <3>2, <2>2, <1>1
  <2>4. 2 + d \in 1..Len(s)
    BY <2>2, <1>1, <1>3, <1>5, <1>6
  <2> QED BY <1>3, <2>1, <2>3, <2>4 DEF Drops
<1>9. CASE ~(rest # <<>> /\ d > 0) /\ eof
  <2>1. StripCall(s, eof) = Len(s)
    BY <1>2, <1>9 DEF StripCall
  <2>2. Contained(off, Len(s)) /\ Len(s) \in 1..Len(s)
    BY <1>9, <1>3, <1>1, ContainedAtEnd
  <2> QED BY <1>3, <2>1, <2>2 DEF Drops
<1>10. CASE ~(rest # <<>> /\ d > 0) /\ ~eof /\ (rest = <<>> \/ Head(rest) = "brace")
  <2>1. StripCall(s, eof) = Hold
    BY <1>2, <1>10 DEF StripCall
  <2> QED BY <1>3, <2>1 DEF Drops
<1>11. CASE ~(rest # <<>> /\ d > 0) /\ ~eof /\ ~(rest = <<>> \/ Head(rest) = "brace")
  <2>1. StripCall(s, eof) = 2
    BY <1>2, <1>11 DEF StripCall
  <2>2. said[off + 3] # "brace"
    <3>1. rest \in Seq(Pieces) /\ rest # <<>> /\ Head(rest) # "brace"
      BY <1>5, <1>11 DEF Window
    <3> HIDE DEF rest
    <3>2. 1 \in 1..Len(rest) /\ rest[1] # "brace"
      BY <3>1
    <3>3. rest[1] = said[(off + 2) + 1]
      BY <3>2, <1>5 DEF Window
    <3> QED BY <3>2, <3>3, <1>4
  <2>3. ObjectAt(off + 3) = 0
    BY <2>2, <1>1, ObjectPieces
  <2>4. Contained(off, 2)
    BY <2>3, <1>7 DEF Contained
  <2> QED BY <1>3, <1>1, <2>1, <2>4 DEF Drops
<1> QED BY <1>8, <1>9, <1>10, <1>11

\* An object and the closing tag, if it has come, are dropped together.
LEMMA AngleDrops ==
    ASSUME said \in Seq(Pieces), NEW s, NEW off, Window(s, off), NEW eof \in BOOLEAN,
           eof => off + Len(s) = Len(said)
    PROVE  Drops(s, off, StripAngle(s, eof))
<1> DEFINE rest == After(s, 2)
           d == Decode(rest)
           tail == After(rest, d)
           ends == StartsWith(tail, <<"</>">>)
<1>1. Len(s) \in Nat /\ off \in Nat /\ Len(said) \in Nat
  BY DEF Window
<1>2. SUFFICES ASSUME StartsWith(s, AngleHead) PROVE Drops(s, off, StripAngle(s, eof))
  BY DEF StripAngle, Drops
<1>3. Len(s) >= 2 /\ MarkerAt(off + 1) /\ AngleAt(off + 1)
  BY <1>2, WindowHeads DEF MarkerAt
<1>4. /\ said[off + 1] = "<" /\ said[off + 2] = "angle"
      /\ (off + 1) + 1 = off + 2 /\ (off + 1) + 2 = off + 3 /\ (off + 2) + 1 = off + 3
  <2>1. (off + 1) + 1 = off + 2 /\ (off + 1) + 2 = off + 3 /\ (off + 2) + 1 = off + 3
    BY <1>1
  <2> QED BY <1>3, <2>1 DEF AngleAt, At
<1>5. Window(rest, off + 2) /\ Len(rest) = Len(s) - 2
  BY <1>1, <1>3, WindowAfter
<1>6. /\ d \in {0, 2, 4} /\ d <= Len(rest)
      /\ d # 0 => d = ObjectAt(off + 3)
  BY <1>4, <1>5, WindowDecode
<1>7. Window(tail, (off + 2) + d) /\ Len(tail) = Len(rest) - d
  <2>1. d \in 0..Len(rest)
    BY <1>5, <1>6, <1>1, <1>3
  <2> HIDE DEF d, rest
  <2> QED BY <1>5, <2>1, WindowAfter
<1>8. ends <=> Len(tail) >= 1 /\ At(((off + 2) + d) + 1, "</>")
  BY <1>7, WindowHeads
\* A call that begins at the front is a tagged one; none begins at the tag.
<1>9. ASSUME NEW c \in ParsedCalls, c[1] \in (off + 1)..(off + 2)
      PROVE  /\ ObjectAt(off + 3) # 0
             /\ c[2] = off + 2 + ObjectAt(off + 3)
                        + (IF At(off + 3 + ObjectAt(off + 3), "</>") THEN 1 ELSE 0)
  <2>1. /\ c[1] \in Nat /\ c[2] \in Nat /\ CallShape(c[1], c[2])
        /\ said[c[1]] \in {"[", "<", "brace"}
    BY CallBounds, CallShapes
  <2>2. c[1] = off + 1 \/ c[1] = off + 2
    BY <1>1, <1>9, <2>1
  <2>3. c[1] = off + 1
    BY <1>4, <2>1, <2>2
  <2>4. CallShape(off + 1, c[2])
    BY <2>1, <2>3
  <2>5. ~BracketAt(off + 1) /\ ~CallTagAt(off + 1) /\ ~JsonAt(off + 1)
    BY <1>4 DEF BracketAt, CallTagAt, JsonAt, At
  <2>6. /\ ObjectAt((off + 1) + 2) # 0
        /\ c[2] = (off + 1) + 1 + ObjectAt((off + 1) + 2)
                   + (IF At((off + 1) + 2 + ObjectAt((off + 1) + 2), "</>") THEN 1 ELSE 0)
    BY <2>4, <2>5 DEF CallShape
  <2> QED BY <2>6, <1>4
<1>10. CASE rest # <<>> /\ d > 0
  <2>1. StripAngle(s, eof) = IF ends THEN 3 + d ELSE IF eof THEN 2 + d ELSE Hold
    BY <1>2, <1>10 DEF StripAngle
  <2>2. d = ObjectAt(off + 3) /\ d \in {2, 4}
    BY <1>6, <1>10
  <2>3. 2 + d <= Len(s) /\ Len(tail) = Len(s) - (2 + d)
    BY <2>2, <1>1, <1>3, <1>5, <1>6, <1>7
  <2>4. ends <=> Len(tail) >= 1 /\ At(off + 3 + d, "</>")
    <3>1. ((off + 2) + d) + 1 = off + 3 + d
      BY <2>2, <1>1
    <3> QED BY <3>1, <1>8
  <2> HIDE DEF d, ends, tail
  <2>5. ASSUME NEW c \in ParsedCalls, c[1] \in (off + 1)..(off + (2 + d))
        PROVE  c[2] <= off + 2 + d + (IF At(off + 3 + d, "</>") THEN 1 ELSE 0)
    <3>0. c[1] \in Nat /\ c[2] \in Nat
      BY CallBounds
    <3>1. CASE c[1] \in (off + 1)..(off + 2)
      BY <3>1, <3>0, <1>9, <2>2, <1>1
    <3>2. CASE c[1] \in (off + 3)..(off + 3 + d - 1)
      <4>1. c[2] <= off + 3 + ObjectAt(off + 3) - 1
        BY <3>2, <2>2, <1>1, TaggedObject
      <4> QED BY <4>1, <3>0, <2>2, <1>1
    <3> QED BY <3>0, <3>1, <3>2, <2>2, <2>5, <1>1
  <2>6. CASE ends
    <3>1. Contained(off, 3 + d)
      <4> SUFFICES ASSUME NEW c \in ParsedCalls, c[1] \in (off + 1)..(off + (3 + d))
                   PROVE  c[2] <= off + (3 + d)
        BY DEF Contained
      <4>1. c[1] \in Nat /\ c[2] \in Nat /\ said[c[1]] \in {"[", "<", "brace"}
        BY CallBounds
      <4>2. c[1] # off + 3 + d
        BY <4>1, <2>4, <2>6 DEF At
      <4>3. c[1] \in (off + 1)..(off + (2 + d))
        <5>1. \A b \in (off + 1)..(off + (3 + d)) : b = off + 3 + d \/ b \in (off + 1)..(off + (2 + d))
          BY <2>2, <1>1
        <5> QED BY <5>1, <4>2
      <4>4. c[2] <= off + 2 + d + 1
        BY <4>3, <2>4, <2>5, <2>6
      <4> QED BY <4>1, <4>4, <2>2, <1>1
    <3>2. 3 + d \in 1..Len(s)
      BY <2>2, <2>3, <2>4, <2>6, <1>1
    <3> QED BY <3>1, <3>2, <2>1, <2>6, <1>3 DEF Drops
  <2>7. CASE ~ends /\ eof
    <3>1. ~At(off + 3 + d, "</>")
      BY <2>2, <2>3, <2>4, <2>7, <1>1 DEF At
    <3>2. Contained(off, 2 + d)
      <4> SUFFICES ASSUME NEW c \in ParsedCalls, c[1] \in (off + 1)..(off + (2 + d))
                   PROVE  c[2] <= off + (2 + d)
        BY DEF Contained
      <4>1. c[2] \in Nat
        BY CallBounds
      <4> QED BY <4>1, <3>1, <2>5, <2>2, <1>1
    <3>3. 2 + d \in 1..Len(s)
      BY <2>2, <2>3, <1>1
    <3> QED BY <3>2, <3>3, <2>1, <2>7, <1>3 DEF Drops
  <2>8. CASE ~ends /\ ~eof
    BY <2>1, <2>8, <1>3 DEF Drops
  <2> QED BY <2>6, <2>7, <2>8
<1>11. CASE ~(rest # <<>> /\ d > 0) /\ eof
  <2>1. StripAngle(s, eof) = Len(s)
    BY <1>2, <1>11 DEF StripAngle
  <2>2. Contained(off, Len(s)) /\ Len(s) \in 1..Len(s)
    BY <1>11, <1>3, <1>1, ContainedAtEnd
  <2> QED BY <1>3, <2>1, <2>2 DEF Drops
<1>12. CASE ~(rest # <<>> /\ d > 0) /\ ~eof /\ (rest = <<>> \/ Head(rest) = "brace")
  <2>1. StripAngle(s, eof) = Hold
    BY <1>2, <1>12 DEF StripAngle
  <2> QED BY <1>3, <2>1 DEF Drops
<1>13. CASE ~(rest # <<>> /\ d > 0) /\ ~eof /\ ~(rest = <<>> \/ Head(rest) = "brace")
  <2>1. StripAngle(s, eof) = 2
    BY <1>2, <1>13 DEF StripAngle
  <2>2. said[off + 3] # "brace"
    <3>1. rest \in Seq(Pieces) /\ rest # <<>> /\ Head(rest) # "brace"
      BY <1>5, <1>13 DEF Window
    <3> HIDE DEF rest
    <3>2. 1 \in 1..Len(rest) /\ rest[1] # "brace"
      BY <3>1
    <3>3. rest[1] = said[(off + 2) + 1]
      BY <3>2, <1>5 DEF Window
    <3> QED BY <3>2, <3>3, <1>4
  <2>3. ObjectAt(off + 3) = 0
    BY <2>2, <1>1, ObjectPieces
  <2>4. Contained(off, 2)
    BY <2>3, <1>9 DEF Contained
  <2> QED BY <1>3, <1>1, <2>1, <2>4 DEF Drops
<1> QED BY <1>10, <1>11, <1>12, <1>13

LEMMA JsonDrops ==
    ASSUME said \in Seq(Pieces), NEW s, NEW off, Window(s, off), NEW eof \in BOOLEAN,
           eof => off + Len(s) = Len(said)
    PROVE  Drops(s, off, StripJson(s, eof))
<1>1. Len(s) \in Nat /\ off \in Nat /\ Len(said) \in Nat
  BY DEF Window
<1>2. CASE IsToolObject(s)
  <2>1. StripJson(s, eof) = 4
    BY <1>2 DEF StripJson
  <2>2. ObjectAt(off + 1) = 4 /\ 4 \in 1..Len(s)
    BY <1>1, <1>2, WindowDecode DEF IsToolObject
  <2>3. MarkerAt(off + 1)
    BY <2>2 DEF ObjectAt, MarkerAt
  <2>4. Contained(off, 4)
    <3> SUFFICES ASSUME NEW c \in ParsedCalls, c[1] \in (off + 1)..(off + 4)
                 PROVE  c[2] <= off + 4
      BY DEF Contained
    <3>1. c[2] <= (off + 1) + ObjectAt(off + 1) - 1
      BY <2>2, <1>1, TaggedObject
    <3> QED BY <3>1, <2>2, <1>1
  <2> QED BY <2>1, <2>2, <2>3, <2>4 DEF Drops
<1>3. CASE ~IsToolObject(s) /\ StartsWith(s, JsonHead)
  <2>1. StripJson(s, eof) = IF eof THEN Len(s) ELSE Hold
    BY <1>3 DEF StripJson
  <2>2. Len(s) >= 3 /\ MarkerAt(off + 1)
    BY <1>3, WindowHeads DEF MarkerAt
  <2>3. eof => Contained(off, Len(s)) /\ Len(s) \in 1..Len(s)
    BY <1>1, <2>2, ContainedAtEnd
  <2> QED BY <2>1, <2>2, <2>3 DEF Drops
<1>4. CASE ~IsToolObject(s) /\ ~StartsWith(s, JsonHead)
  BY <1>4 DEF StripJson, Drops
<1> QED BY <1>2, <1>3, <1>4

\* Whichever stripper answers, what it drops begins with a head and cuts no
\* call in two.
LEMMA StripDrops ==
    ASSUME said \in Seq(Pieces), NEW s, NEW off, Window(s, off), NEW eof \in BOOLEAN,
           eof => off + Len(s) = Len(said)
    PROVE  Drops(s, off, Strip(s, eof))
<1>1. Drops(s, off, StripBracket(s, eof)) /\ Drops(s, off, StripCall(s, eof))
  BY BracketDrops, CallDrops
<1>2. Drops(s, off, StripAngle(s, eof)) /\ Drops(s, off, StripJson(s, eof))
  BY AngleDrops, JsonDrops
<1> QED BY <1>1, <1>2 DEF Strip

\* The heads in a window: one that is found there is in the text, and one of
\* the text is found where all of it is in the window.
LEMMA WindowMarkers ==
    ASSUME said \in Seq(Pieces), NEW s, NEW off, Window(s, off), NEW n \in 1..Len(s)
    PROVE  /\ n \in Markers(s) => MarkerAt(off + n) /\ n + 1 <= Len(s)
           /\ /\ MarkerAt(off + n)
              /\ \/ n + 2 <= Len(s)
                 \/ n + 1 <= Len(s) /\ ~At(off + n, "brace")
                 \/ off + Len(s) = Len(said)
              => n \in Markers(s)
<1> DEFINE a == After(s, n - 1)
<1>1. /\ Len(s) \in Nat /\ off \in Nat /\ Len(said) \in Nat /\ DOMAIN s = 1..Len(s)
      /\ n - 1 \in 0..Len(s) /\ (off + (n - 1)) + 1 = off + n
  BY DEF Window
<1>2. Window(a, off + (n - 1)) /\ Len(a) = Len(s) - (n - 1)
  BY <1>1, WindowAfter
<1> HIDE DEF a
<1>3. /\ StartsWith(a, JsonHead) <=> Len(a) >= 3 /\ JsonAt((off + (n - 1)) + 1)
      /\ StartsWith(a, CallHead) <=> Len(a) >= 2 /\ CallTagAt((off + (n - 1)) + 1)
      /\ StartsWith(a, AngleHead) <=> Len(a) >= 2 /\ AngleAt((off + (n - 1)) + 1)
      /\ StartsWith(a, BracketHead) <=> Len(a) >= 2 /\ BracketAt((off + (n - 1)) + 1)
  BY <1>2, WindowHeads
<1>4. n \in Markers(s) <=> \/ StartsWith(a, JsonHead) \/ StartsWith(a, CallHead)
                          \/ StartsWith(a, AngleHead) \/ StartsWith(a, BracketHead)
  BY <1>1 DEF Markers, Heads, a
<1>5. n \in Markers(s) <=>
        \/ Len(s) - (n - 1) >= 3 /\ JsonAt(off + n)
        \/ Len(s) - (n - 1) >= 2 /\ (CallTagAt(off + n) \/ AngleAt(off + n) \/ BracketAt(off + n))
  BY <1>1, <1>2, <1>3, <1>4
<1>6. /\ JsonAt(off + n) => At(off + n, "brace") /\ off + n + 2 <= Len(said)
      /\ CallTagAt(off + n) \/ AngleAt(off + n) \/ BracketAt(off + n) => off + n + 1 <= Len(said)
  BY <1>1 DEF JsonAt, CallTagAt, AngleAt, BracketAt, At
<1> QED BY <1>1, <1>5, <1>6 DEF MarkerAt

\* What is held back at the end of a window.
LEMMA WindowPartial ==
    ASSUME said \in Seq(Pieces), NEW s, NEW off, Window(s, off), Len(s) >= 1
    PROVE  /\ Partial(s) \in 0..Len(s)
           /\ said[off + Len(s)] \in {"[", "<"} => Partial(s) >= 1
           /\ Len(s) >= 2 /\ At(off + Len(s) - 1, "brace") /\ At(off + Len(s), "to")
                => Partial(s) = 2
<1>1. /\ s \in Seq(Pieces) /\ Len(s) \in Nat /\ off \in Nat /\ Len(said) \in Nat
      /\ \A i \in 1..Len(s) : s[i] = said[off + i]
  BY DEF Window
<1>2. s # << >> /\ Last(s) = said[off + Len(s)]
  BY <1>1 DEF Last
<1>3. Partial(s) \in 0..Len(s) /\ (said[off + Len(s)] \in {"[", "<"} => Partial(s) >= 1)
  BY <1>1, <1>2 DEF Partial
<1>4. ASSUME Len(s) >= 2, At(off + Len(s) - 1, "brace"), At(off + Len(s), "to")
      PROVE  Partial(s) = 2
  <2> DEFINE a == After(s, Len(s) - 2)
             p == <<"brace", "to">>
  <2>1. Len(s) - 2 \in 0..Len(s) /\ Len(s) - (Len(s) - 2) = 2
    BY <1>1, <1>4
  <2>2. /\ a \in Seq(Pieces) /\ Len(a) = 2
        /\ \A i \in 1..2 : a[i] = s[Len(s) - 2 + i]
    <3>1. /\ a \in Seq(Pieces) /\ Len(a) = Len(s) - (Len(s) - 2)
          /\ \A i \in 1..(Len(s) - (Len(s) - 2)) : a[i] = s[(Len(s) - 2) + i]
      BY <2>1, <1>1, AfterPieces
    <3> HIDE DEF a
    <3> QED BY <3>1, <2>1
  <2>3. p \in Seq(Pieces) /\ Len(p) = 2 /\ p[1] = "brace" /\ p[2] = "to"
    BY DEF Pieces
  <2> HIDE DEF a, p
  <2>4. s[Len(s) - 1] = "brace" /\ s[Len(s)] = "to"
    <3>1. /\ Len(s) - 1 \in 1..Len(s) /\ Len(s) \in 1..Len(s)
          /\ off + (Len(s) - 1) = off + Len(s) - 1
      BY <1>1, <1>4
    <3> QED BY <3>1, <1>1, <1>4 DEF At
  <2>5. a[1] = "brace" /\ a[2] = "to"
    <3>1. Len(s) - 2 + 1 = Len(s) - 1 /\ Len(s) - 2 + 2 = Len(s) /\ 1 \in 1..2 /\ 2 \in 1..2
      BY <1>1
    <3> QED BY <3>1, <2>2, <2>4
  <2>6. \A i \in 1..2 : a[i] = p[i]
    <3>1. \A i \in 1..2 : i = 1 \/ i = 2
      OBVIOUS
    <3> QED BY <3>1, <2>3, <2>5
  <2>7. a = p
    BY <2>2, <2>3, <2>6, SeqEqual
  <2> QED BY <2>7, <1>4 DEF Partial, a, p
<1> QED BY <1>3, <1>4

-----------------------------------------------------------------------------
(* The inductive invariant of the filter.                                   *)

\* How much of the text was shown or dropped.
Done == fed - Len(textBuf)
BraceBefore(n) == \E m \in 1..n : said[m] = "brace" /\ m \in cutAfter

FilterTyped ==
    /\ said \in Seq(Pieces) /\ fed \in 0..Len(said)
    /\ textBuf \in Seq(Nat) /\ shown \in Seq(Nat)
    /\ textMode \in {"idle", "feed", "flush", "over"}
    /\ cutAfter \subseteq 1..fed

\* The buffer is what has come and was neither shown nor dropped.
BufferFollows ==
    /\ Len(textBuf) <= fed
    /\ \A k \in 1..Len(textBuf) : textBuf[k] = Done + k

ChunksCut == fed = 0 \/ fed \in cutAfter

ShownIsDone == \A k \in 1..Len(shown) : shown[k] \in 1..Done

DropsBehindHeads == \A n \in 1..Done : ShownAt(n) \/ HeadBefore(n)

\* A call that is cut in two by what was done began with a brace on its own.
CallsKeptWhole == \A c \in ParsedCalls : c[1] <= Done /\ Done < c[2] => BraceBefore(c[1])

ShownCallsExcused ==
    \A k \in 1..Len(shown) : CallAt(shown[k]) => BraceBefore(shown[k])

EndReached ==
    /\ textMode \in {"flush", "over"} => fed = Len(said)
    /\ textMode = "over" => Done = Len(said)

FilterInv ==
    /\ FilterTyped /\ BufferFollows /\ ChunksCut /\ ShownIsDone /\ DropsBehindHeads
    /\ CallsKeptWhole /\ ShownCallsExcused /\ EndReached

\* The buffer is a window of the text.
LEMMA BufferWindow ==
    ASSUME FilterInv
    PROVE  /\ Window(PiecesAt(textBuf), Done) /\ Len(PiecesAt(textBuf)) = Len(textBuf)
           /\ Done \in Nat /\ Done + Len(textBuf) = fed /\ Len(textBuf) \in Nat
           /\ textBuf # << >> => Len(textBuf) >= 1
<1> DEFINE s == PiecesAt(textBuf)
           d == Done
<1>1. /\ Len(textBuf) \in Nat /\ DOMAIN textBuf = 1..Len(textBuf) /\ fed \in Nat
      /\ Len(said) \in Nat /\ fed <= Len(said) /\ Len(textBuf) <= fed
      /\ \A k \in 1..Len(textBuf) : textBuf[k] = d + k
      /\ textBuf # << >> => Len(textBuf) >= 1
  BY DEF FilterInv, FilterTyped, BufferFollows
<1>2. d \in Nat /\ d + Len(textBuf) = fed
  BY <1>1 DEF Done
<1> HIDE DEF d
<1>3. s = [k \in 1..Len(textBuf) |-> said[d + k]]
  BY <1>1 DEF PiecesAt
<1>4. \A k \in 1..Len(textBuf) : said[d + k] \in Pieces
  <2> TAKE k \in 1..Len(textBuf)
  <2>1. d + k \in 1..Len(said)
    BY <1>1, <1>2
  <2> QED BY <2>1, ElementOfSeq DEF FilterInv, FilterTyped
<1> HIDE DEF s
<1>5. s \in Seq(Pieces) /\ Len(s) = Len(textBuf)
  BY <1>1, <1>3, <1>4
<1>6. Window(s, d)
  BY <1>1, <1>2, <1>3, <1>5 DEF Window
<1> QED BY <1>1, <1>2, <1>5, <1>6 DEF s, d

LEMMA HeadHere ==
    ASSUME said \in Seq(Pieces), NEW m \in Nat, MarkerAt(m), NEW n \in Nat, m <= n
    PROVE  HeadBefore(n)
<1>1. m \in 1..Len(said) /\ m \in 1..n
  BY DEF MarkerAt, JsonAt, CallTagAt, AngleAt, BracketAt, At
<1>2. \E head \in Heads : StartsWith(After(said, m - 1), head)
  BY <1>1, WholeHeads DEF MarkerAt, Heads
<1> QED BY <1>1, <1>2 DEF HeadBefore

\* What only depends on the text does not change while the text does not.
LEMMA SameText ==
    ASSUME said' = said
    PROVE  /\ ParsedCalls' = ParsedCalls
           /\ \A n : CallAt(n)' = CallAt(n)
           /\ \A n : HeadBefore(n)' = HeadBefore(n)
<1>1. ParsedCalls' = ParsedCalls
  BY DEF ParsedCalls, BracketCalls, AngleCalls, CallCalls, CompactCalls, HeadsAt
<1>2. \A n : CallAt(n)' = CallAt(n)
  BY <1>1 DEF CallAt
<1>3. \A n : HeadBefore(n)' = HeadBefore(n)
  BY DEF HeadBefore
<1> QED BY <1>1, <1>2, <1>3

\* A new filter has done nothing yet.
LEMMA InitFilterInv ==
    ASSUME TextInit PROVE FilterInv
<1>1. said \in Seq(Pieces) /\ Len(said) \in Nat
  BY TextAssumption DEF TextInit
<1>2. /\ fed = 0 /\ textBuf = << >> /\ shown = << >> /\ textMode = "idle" /\ cutAfter = {}
      /\ << >> \in Seq(Nat) /\ Len(textBuf) = 0
  BY EmptySeq DEF TextInit
<1>3. FilterTyped
  BY <1>1, <1>2 DEF FilterTyped
<1>4. BufferFollows /\ ChunksCut /\ EndReached /\ Done = 0
  <2>1. Done = 0
    <3>1. 0 - 0 = 0
      OBVIOUS
    <3> QED BY <1>2, <3>1, Zenon DEF Done
  <2>2. \A k \in 1..Len(textBuf) : textBuf[k] = Done + k
    BY <1>2
  <2>3. BufferFollows
    BY <1>2, <2>2 DEF BufferFollows
  <2> QED BY <1>2, <2>1, <2>3 DEF ChunksCut, EndReached
<1>5. ShownIsDone /\ ShownCallsExcused
  BY DEF TextInit, ShownIsDone, ShownCallsExcused
<1>6. DropsBehindHeads
  BY <1>4 DEF DropsBehindHeads
<1>7. CallsKeptWhole
  <2>1. \A c \in ParsedCalls : c[1] \in 1..Len(said)
    BY <1>1, CallShapes
  <2> QED BY <1>1, <1>4, <2>1 DEF CallsKeptWhole
<1> QED BY <1>3, <1>4, <1>5, <1>6, <1>7 DEF FilterInv

\* The first k pieces of the buffer are shown or dropped.
LEMMA Advance ==
    ASSUME FilterInv, NEW k \in 0..Len(textBuf), said' = said, fed' = fed, cutAfter' = cutAfter,
           textBuf' = After(textBuf, k),
           textMode' \in {"idle", "feed", "flush", "over"},
           textMode' \in {"flush", "over"} => textMode = "flush",
           textMode' = "over" => Done = Len(said) 
    PROVE  /\ Done' = Done + k /\ BufferFollows' /\ ChunksCut' /\ EndReached'
           /\ textBuf' \in Seq(Nat)
           /\ \A n : BraceBefore(n)' <=> BraceBefore(n)
<1>1. /\ textBuf \in Seq(Nat) /\ Len(textBuf) \in Nat /\ fed \in Nat /\ Len(textBuf) <= fed
      /\ Len(said) \in Nat /\ fed <= Len(said)
      /\ \A i \in 1..Len(textBuf) : textBuf[i] = Done + i
  BY DEF FilterInv, FilterTyped, BufferFollows
<1>2. /\ textBuf' \in Seq(Nat) /\ Len(textBuf') = Len(textBuf) - k
      /\ \A i \in 1..(Len(textBuf) - k) : textBuf'[i] = textBuf[k + i]
  BY <1>1, AfterPieces
<1>3. Done' = Done + k /\ Done \in Nat /\ Len(textBuf') \in Nat
  BY <1>1, <1>2 DEF Done
<1>4. BufferFollows'
  <2>1. \A i \in 1..Len(textBuf') : textBuf'[i] = Done' + i
    <3> TAKE i \in 1..Len(textBuf')
    <3>1. i \in 1..(Len(textBuf) - k) /\ k + i \in 1..Len(textBuf) /\ Done + (k + i) = (Done + k) + i
      BY <1>1, <1>2, <1>3
    <3> QED BY <3>1, <1>1, <1>2, <1>3
  <2>2. Len(textBuf') <= fed'
    BY <1>1, <1>2
  <2> QED BY <2>1, <2>2 DEF BufferFollows
<1>5. ChunksCut'
  BY DEF FilterInv, ChunksCut
<1>6. EndReached'
  <2>1. textMode' = "over" => k = 0
    BY <1>1, <1>3 DEF Done
  <2> QED BY <2>1, <1>3 DEF FilterInv, EndReached
<1>7. \A n : BraceBefore(n)' <=> BraceBefore(n)
  BY DEF BraceBefore
<1> QED BY <1>2, <1>3, <1>4, <1>5, <1>6, <1>7

\* Dropping pieces behind a head, without cutting a call, keeps the account.
LEMMA DropKeeps ==
    ASSUME FilterInv, NEW k \in 0..Len(textBuf), said' = said, fed' = fed, cutAfter' = cutAfter,
           textBuf' = After(textBuf, k), shown' = shown,
           textMode' \in {"idle", "feed", "flush", "over"},
           textMode' \in {"flush", "over"} => textMode = "flush",
           textMode' = "over" => Done = Len(said),
           k = 0 \/ (MarkerAt(Done + 1) /\ Contained(Done, k))
    PROVE  FilterInv'
<1>1. /\ Done' = Done + k /\ BufferFollows' /\ ChunksCut' /\ EndReached'
      /\ textBuf' \in Seq(Nat)
      /\ \A n : BraceBefore(n)' <=> BraceBefore(n)
  BY Advance
<1>2. Done \in Nat /\ k \in Nat /\ said \in Seq(Pieces) /\ shown \in Seq(Nat)
  BY BufferWindow DEF FilterInv, FilterTyped
<1>3. /\ ParsedCalls' = ParsedCalls
      /\ \A n : CallAt(n)' = CallAt(n)
      /\ \A n : HeadBefore(n)' = HeadBefore(n)
  BY SameText
<1>4. FilterTyped'
  BY <1>1 DEF FilterInv, FilterTyped
<1>5. ShownIsDone'
  BY <1>1, <1>2 DEF FilterInv, ShownIsDone
<1>6. DropsBehindHeads'
  <2>1. ASSUME NEW n \in 1..(Done + k) PROVE ShownAt(n)' \/ HeadBefore(n)'
    <3>1. CASE n \in 1..Done
      <4>1. ShownAt(n) \/ HeadBefore(n)
        BY <3>1 DEF FilterInv, DropsBehindHeads
      <4> QED BY <4>1, <1>3 DEF ShownAt
    <3>2. CASE n \notin 1..Done
      <4>1. MarkerAt(Done + 1) /\ Done + 1 \in Nat /\ n \in Nat /\ Done + 1 <= n
        BY <3>2, <1>2
      <4>2. HeadBefore(n)
        BY <4>1, <1>2, HeadHere
      <4> QED BY <4>2, <1>3
    <3> QED BY <3>1, <3>2
  <2> QED BY <2>1, <1>1 DEF DropsBehindHeads
<1>7. CallsKeptWhole'
  <2>1. ASSUME NEW c \in ParsedCalls, c[1] <= Done + k, Done + k < c[2] PROVE BraceBefore(c[1])
    <3>1. c[1] \in Nat /\ c[2] \in Nat
      BY <1>2, CallBounds
    <3>2. CASE c[1] <= Done
      <4>1. Done < c[2]
        BY <2>1, <3>1, <1>2
      <4> QED BY <4>1, <3>2 DEF FilterInv, CallsKeptWhole
    <3>3. CASE ~(c[1] <= Done)
      <4>1. c[1] \in (Done + 1)..(Done + k) /\ k # 0
        BY <3>3, <2>1, <3>1, <1>2
      <4>2. c[2] <= Done + k
        BY <4>1 DEF Contained
      <4> QED BY <4>2, <2>1, <3>1, <1>2
    <3> QED BY <3>2, <3>3
  <2> QED BY <2>1, <1>1, <1>3 DEF CallsKeptWhole
<1>8. ShownCallsExcused'
  BY <1>1, <1>3 DEF FilterInv, ShownCallsExcused
<1> QED BY <1>1, <1>4, <1>5, <1>6, <1>7, <1>8 DEF FilterInv

\* Showing pieces keeps it when each call among them has its excuse.
LEMMA ShowKeeps ==
    ASSUME FilterInv, NEW k \in 0..Len(textBuf), said' = said, fed' = fed, cutAfter' = cutAfter,
           textBuf' = After(textBuf, k), shown' = shown \o SubSeq(textBuf, 1, k),
           textMode' \in {"idle", "feed", "flush", "over"},
           textMode' \in {"flush", "over"} => textMode = "flush",
           textMode' # "over",
           \A c \in ParsedCalls : c[1] \in (Done + 1)..(Done + k) => BraceBefore(c[1])
    PROVE  FilterInv'
<1>1. /\ Done' = Done + k /\ BufferFollows' /\ ChunksCut' /\ EndReached'
      /\ textBuf' \in Seq(Nat)
      /\ \A n : BraceBefore(n)' <=> BraceBefore(n)
  BY Advance
<1>2. /\ Done \in Nat /\ k \in Nat /\ said \in Seq(Pieces)
      /\ shown \in Seq(Nat) /\ textBuf \in Seq(Nat) /\ Len(shown) \in Nat
  BY BufferWindow DEF FilterInv, FilterTyped
<1>3. /\ ParsedCalls' = ParsedCalls
      /\ \A n : CallAt(n)' = CallAt(n)
      /\ \A n : HeadBefore(n)' = HeadBefore(n)
  BY SameText
<1> DEFINE new == SubSeq(textBuf, 1, k)
<1>4. new \in Seq(Nat) /\ Len(new) = k /\ \A i \in 1..k : new[i] = Done + i
  <2>1. /\ new \in Seq(Nat) /\ Len(new) = k /\ \A i \in 1..k : new[i] = textBuf[i]
    BY <1>2, FirstPieces
  <2>2. \A i \in 1..k : textBuf[i] = Done + i
    BY <1>2, BufferWindow DEF FilterInv, BufferFollows
  <2> QED BY <2>1, <2>2
<1> HIDE DEF new
<1>5. /\ shown' \in Seq(Nat) /\ Len(shown') = Len(shown) + Len(new)
      /\ \A i \in 1..(Len(shown) + Len(new)) :
           shown'[i] = IF i <= Len(shown) THEN shown[i] ELSE new[i - Len(shown)]
  <2>1. shown' = shown \o new
    BY DEF new
  <2>2. /\ shown \o new \in Seq(Nat) /\ Len(shown \o new) = Len(shown) + Len(new)
        /\ \A i \in 1..(Len(shown) + Len(new)) :
             (shown \o new)[i] = IF i <= Len(shown) THEN shown[i] ELSE new[i - Len(shown)]
    BY <1>2, <1>4, ConcatProperties
  <2> QED BY <2>1, <2>2, Zenon
<1>6. DOMAIN shown' = 1..(Len(shown) + k) /\ DOMAIN shown = 1..Len(shown)
  BY <1>5, <1>4, <1>2
\* An old position stays where it was, a new one is one of the first k.
<1>7. /\ \A i \in 1..Len(shown) : i \in 1..(Len(shown) + k) /\ shown'[i] = shown[i]
      /\ \A i \in 1..k : Len(shown) + i \in 1..(Len(shown) + k) /\ shown'[Len(shown) + i] = Done + i
      /\ \A i \in 1..(Len(shown) + k) :
           \/ i \in 1..Len(shown) /\ shown'[i] = shown[i]
           \/ shown'[i] \in (Done + 1)..(Done + k)
  <2>1. ASSUME NEW i \in 1..Len(shown)
        PROVE  i \in 1..(Len(shown) + k) /\ shown'[i] = shown[i]
    BY <1>2, <1>4, <1>5
  <2>2. ASSUME NEW i \in 1..k
        PROVE  /\ Len(shown) + i \in 1..(Len(shown) + k)
               /\ shown'[Len(shown) + i] = Done + i
    <3>1. /\ Len(shown) + i \in 1..(Len(shown) + k) /\ ~(Len(shown) + i <= Len(shown))
          /\ (Len(shown) + i) - Len(shown) = i
      BY <1>2
    <3> QED BY <3>1, <1>4, <1>5
  <2>3. ASSUME NEW i \in 1..(Len(shown) + k)
        PROVE  \/ i \in 1..Len(shown) /\ shown'[i] = shown[i]
               \/ shown'[i] \in (Done + 1)..(Done + k)
    <3>1. CASE i <= Len(shown)
      BY <3>1, <1>2, <2>1
    <3>2. CASE ~(i <= Len(shown))
      <4>1. i - Len(shown) \in 1..k /\ Len(shown) + (i - Len(shown)) = i
        BY <3>2, <1>2
      <4>2. shown'[i] = Done + (i - Len(shown))
        BY <4>1, <2>2
      <4> QED BY <4>1, <4>2, <1>2
    <3> QED BY <3>1, <3>2
  <2> QED BY <2>1, <2>2, <2>3
<1>8. FilterTyped'
  BY <1>1, <1>5 DEF FilterInv, FilterTyped
<1>9. ShownIsDone'
  <2>1. ASSUME NEW i \in 1..(Len(shown) + k) PROVE shown'[i] \in 1..(Done + k)
    <3>1. CASE i \in 1..Len(shown) /\ shown'[i] = shown[i]
      <4>1. shown[i] \in 1..Done
        BY <3>1 DEF FilterInv, ShownIsDone
      <4> QED BY <3>1, <4>1, <1>2
    <3>2. CASE shown'[i] \in (Done + 1)..(Done + k)
      BY <3>2, <1>2
    <3> QED BY <3>1, <3>2, <1>7
  <2> QED BY <2>1, <1>1, <1>4, <1>5 DEF ShownIsDone
<1>10. DropsBehindHeads'
  <2>1. ASSUME NEW n \in 1..(Done + k) PROVE ShownAt(n)' \/ HeadBefore(n)'
    <3>1. CASE n \in 1..Done /\ HeadBefore(n)
      BY <3>1, <1>3
    <3>2. CASE n \in 1..Done /\ ShownAt(n)
      <4>1. PICK i \in 1..Len(shown) : shown[i] = n
        BY <3>2, <1>6 DEF ShownAt
      <4> QED BY <4>1, <1>6, <1>7 DEF ShownAt
    <3>3. CASE n \notin 1..Done
      <4>1. n - Done \in 1..k /\ Done + (n - Done) = n
        BY <3>3, <1>2
      <4> QED BY <4>1, <1>6, <1>7 DEF ShownAt
    <3> QED BY <3>1, <3>2, <3>3 DEF FilterInv, DropsBehindHeads
  <2> QED BY <2>1, <1>1 DEF DropsBehindHeads
\* A call that began before the end of what is now done has its excuse.
<1>11. ASSUME NEW c \in ParsedCalls, c[1] <= Done + k, Done < c[2] PROVE BraceBefore(c[1])
  <2>1. c[1] \in Nat /\ c[2] \in Nat
    BY <1>2, CallBounds
  <2>2. CASE c[1] <= Done
    BY <1>11, <2>2 DEF FilterInv, CallsKeptWhole
  <2>3. CASE ~(c[1] <= Done)
    <3>1. c[1] \in (Done + 1)..(Done + k)
      BY <1>11, <2>1, <2>3, <1>2
    <3> QED BY <3>1
  <2> QED BY <2>2, <2>3
<1>12. CallsKeptWhole'
  <2>1. ASSUME NEW c \in ParsedCalls, c[1] <= Done + k, Done + k < c[2] PROVE BraceBefore(c[1])
    <3>1. c[1] \in Nat /\ c[2] \in Nat
      BY <1>2, CallBounds
    <3> QED BY <3>1, <2>1, <1>2, <1>11
  <2> QED BY <2>1, <1>1, <1>3 DEF CallsKeptWhole
<1>13. ShownCallsExcused'
  <2>1. ASSUME NEW i \in 1..(Len(shown) + k), CallAt(shown'[i]) PROVE BraceBefore(shown'[i])
    <3>1. CASE i \in 1..Len(shown) /\ shown'[i] = shown[i]
      BY <2>1, <3>1 DEF FilterInv, ShownCallsExcused
    <3>2. CASE shown'[i] \in (Done + 1)..(Done + k)
      <4>1. PICK c \in ParsedCalls : shown'[i] \in c[1]..c[2]
        BY <2>1 DEF CallAt
      <4>2. c[1] \in Nat /\ c[2] \in Nat
        BY <1>2, CallBounds
      <4>3. shown'[i] \in c[1]..c[2] /\ shown'[i] \in (Done + 1)..(Done + k)
        BY <4>1, <3>2
      <4>4. \A b, e \in Nat : \A n \in b..e : n \in (Done + 1)..(Done + k) =>
              n \in Nat /\ b <= n /\ b <= Done + k /\ Done < e
        BY <1>2
      <4>5. c[1] <= shown'[i] /\ c[1] <= Done + k /\ Done < c[2] /\ shown'[i] \in Nat
        BY <4>2, <4>3, <4>4, Zenon
      <4>6. BraceBefore(c[1])
        BY <4>5, <1>11
      <4> QED BY <4>2, <4>5, <4>6 DEF BraceBefore
    <3> QED BY <3>1, <3>2, <1>7
  <2> QED BY <2>1, <1>1, <1>3, <1>4, <1>5 DEF ShownCallsExcused
<1> QED BY <1>1, <1>8, <1>9, <1>10, <1>12, <1>13 DEF FilterInv

LEMMA FeedKeeps ==
    ASSUME FilterInv, FeedChunk PROVE FilterInv'
<1>1. PICK n \in 1..MaxChunk :
        /\ fed + n <= Len(said) /\ fed' = fed + n
        /\ textBuf' = textBuf \o [k \in 1..n |-> fed + k]
        /\ cutAfter' = cutAfter \cup {fed + n}
  BY DEF FeedChunk
<1>2. textMode' = "feed" /\ said' = said /\ shown' = shown
  BY DEF FeedChunk
<1>3. /\ n \in Nat /\ n >= 1 /\ fed \in Nat /\ Len(said) \in Nat /\ Len(textBuf) \in Nat
      /\ textBuf \in Seq(Nat) /\ said \in Seq(Pieces) /\ Done \in Nat /\ Done + Len(textBuf) = fed
      /\ \A k \in 1..Len(textBuf) : textBuf[k] = Done + k
  BY BufferWindow DEF FilterInv, FilterTyped, BufferFollows
<1> DEFINE more == [k \in 1..n |-> fed + k]
<1>4. more \in Seq(Nat) /\ Len(more) = n /\ \A k \in 1..n : more[k] = fed + k
  BY <1>3
<1> HIDE DEF more
<1>5. /\ textBuf' \in Seq(Nat) /\ Len(textBuf') = Len(textBuf) + n
      /\ \A k \in 1..(Len(textBuf) + n) :
           textBuf'[k] = IF k <= Len(textBuf) THEN textBuf[k] ELSE more[k - Len(textBuf)]
  <2>1. /\ textBuf \o more \in Seq(Nat) /\ Len(textBuf \o more) = Len(textBuf) + Len(more)
        /\ \A k \in 1..(Len(textBuf) + Len(more)) :
             (textBuf \o more)[k] = IF k <= Len(textBuf) THEN textBuf[k] ELSE more[k - Len(textBuf)]
    BY <1>3, <1>4, ConcatProperties
  <2>2. textBuf' = textBuf \o more
    BY <1>1 DEF more
  <2> QED BY <2>1, <2>2, <1>4, Zenon
<1>6. Done' = Done
  BY <1>1, <1>3, <1>5 DEF Done
<1>7. BufferFollows'
  <2>1. ASSUME NEW k \in 1..(Len(textBuf) + n) PROVE textBuf'[k] = Done + k
    <3>1. CASE k <= Len(textBuf)
      <4>1. k \in 1..Len(textBuf)
        BY <3>1, <1>3
      <4>2. textBuf'[k] = textBuf[k]
        BY <3>1, <1>5
      <4> QED BY <4>1, <4>2, <1>3
    <3>2. CASE ~(k <= Len(textBuf))
      <4>1. k - Len(textBuf) \in 1..n /\ fed + (k - Len(textBuf)) = Done + k
        BY <3>2, <1>3
      <4> QED BY <3>2, <4>1, <1>4, <1>5
    <3> QED BY <3>1, <3>2
  <2>2. Len(textBuf') <= fed'
    BY <1>1, <1>3, <1>5
  <2> QED BY <2>1, <2>2, <1>5, <1>6 DEF BufferFollows
<1>8. FilterTyped'
  BY <1>1, <1>2, <1>3, <1>5 DEF FilterInv, FilterTyped
<1>9. ChunksCut'
  BY <1>1 DEF ChunksCut
<1>10. \A i : BraceBefore(i) => BraceBefore(i)'
  BY <1>1, <1>2 DEF BraceBefore
<1>11. /\ ParsedCalls' = ParsedCalls
       /\ \A i : CallAt(i)' = CallAt(i)
       /\ \A i : HeadBefore(i)' = HeadBefore(i)
  BY <1>2, SameText
<1>12. ShownIsDone'
  BY <1>2, <1>6 DEF FilterInv, ShownIsDone
<1>13. DropsBehindHeads'
  BY <1>2, <1>6, <1>11 DEF FilterInv, DropsBehindHeads, ShownAt
<1>14. CallsKeptWhole'
  BY <1>6, <1>10, <1>11 DEF FilterInv, CallsKeptWhole
<1>15. ShownCallsExcused'
  BY <1>2, <1>10, <1>11 DEF FilterInv, ShownCallsExcused
<1>16. EndReached'
  BY <1>2 DEF EndReached
<1> QED BY <1>7, <1>8, <1>9, <1>12, <1>13, <1>14, <1>15, <1>16 DEF FilterInv

\* Between the chunks only the mode changes.
LEMMA ModeKeeps ==
    ASSUME FilterInv, said' = said, fed' = fed, textBuf' = textBuf, shown' = shown,
           cutAfter' = cutAfter, EndReached', textMode' \in {"idle", "feed", "flush", "over"}
    PROVE  FilterInv'
<1>1. Done' = Done /\ \A n : BraceBefore(n)' <=> BraceBefore(n)
  BY DEF Done, BraceBefore
<1>2. /\ ParsedCalls' = ParsedCalls
      /\ \A i : CallAt(i)' = CallAt(i)
      /\ \A i : HeadBefore(i)' = HeadBefore(i)
  BY SameText
<1>3. FilterTyped' /\ BufferFollows' /\ ChunksCut' /\ ShownIsDone'
  BY <1>1 DEF FilterInv, FilterTyped, BufferFollows, ChunksCut, ShownIsDone
<1>4. DropsBehindHeads'
  BY <1>1, <1>2 DEF FilterInv, DropsBehindHeads, ShownAt
<1>5. CallsKeptWhole' /\ ShownCallsExcused'
  BY <1>1, <1>2 DEF FilterInv, CallsKeptWhole, ShownCallsExcused
<1> QED BY <1>3, <1>4, <1>5 DEF FilterInv

LEMMA StripKeeps ==
    ASSUME FilterInv, StripLeading PROVE FilterInv'
<1>1. /\ Window(PiecesAt(textBuf), Done) /\ Len(PiecesAt(textBuf)) = Len(textBuf)
      /\ Done + Len(textBuf) = fed /\ Len(textBuf) \in Nat
  BY BufferWindow
<1>2. Eof \in BOOLEAN /\ (Eof => Done + Len(PiecesAt(textBuf)) = Len(said))
  BY <1>1 DEF Eof, FilterInv, EndReached
<1>3. Drops(PiecesAt(textBuf), Done, Found)
  BY <1>1, <1>2, StripDrops DEF Found, FilterInv, FilterTyped
<1>4. /\ Found \in 1..Len(textBuf) /\ MarkerAt(Done + 1) /\ Contained(Done, Found)
  BY <1>1, <1>3 DEF StripLeading, Drops, Hold, NoMatch
<1>5. /\ said' = said /\ fed' = fed /\ cutAfter' = cutAfter /\ shown' = shown
      /\ textBuf' = After(textBuf, Found) /\ textMode' = textMode
      /\ textMode \in {"feed", "flush"}
  BY DEF StripLeading, Scanning
<1>6. Found \in 0..Len(textBuf)
  BY <1>4
<1> QED BY <1>4, <1>5, <1>6, DropKeeps

\* No call begins before the first head of the buffer.
LEMMA PrefixKeeps ==
    ASSUME FilterInv, ShowPrefix PROVE FilterInv'
<1> DEFINE s == PiecesAt(textBuf)
<1>1. /\ Window(s, Done) /\ Len(s) = Len(textBuf) /\ Len(textBuf) \in Nat /\ Done \in Nat
      /\ said \in Seq(Pieces)
  BY BufferWindow DEF FilterInv, FilterTyped
<1>2. PICK n \in Markers(s) : (\A m \in Markers(s) : n <= m) /\ Pass(n - 1)
  BY DEF ShowPrefix
<1>3. n \in 1..Len(s)
  BY <1>1 DEF Markers, Window
<1> HIDE DEF s
<1>4. n + 1 <= Len(s)
  BY <1>1, <1>2, <1>3, WindowMarkers
<1>5. ASSUME NEW c \in ParsedCalls, c[1] \in (Done + 1)..(Done + (n - 1)) PROVE FALSE
  <2> DEFINE j == c[1] - Done
  <2>1. /\ MarkerAt(Done + j) /\ j \in 1..Len(s) /\ j < n /\ j + 2 <= Len(s)
    <3>1. c[1] \in Nat /\ MarkerAt(c[1])
      BY <1>1, CallBounds
    <3>2. Done + j = c[1]
      BY <3>1, <1>1
    <3> QED BY <3>1, <3>2, <1>1, <1>3, <1>4, <1>5
  <2> HIDE DEF j
  <2>2. j \in Markers(s)
    BY <2>1, <1>1, WindowMarkers
  <2>3. n <= j
    BY <1>2, <2>2
  <2> QED BY <2>1, <2>3, <1>3
<1>6. n - 1 \in 0..Len(textBuf)
  BY <1>1, <1>3
<1>7. /\ said' = said /\ fed' = fed /\ cutAfter' = cutAfter /\ textMode' = textMode
      /\ textMode \in {"feed", "flush"}
      /\ textBuf' = After(textBuf, n - 1) /\ shown' = shown \o SubSeq(textBuf, 1, n - 1)
  BY <1>2 DEF ShowPrefix, Scanning, Pass
<1> DEFINE k == n - 1
<1>8. /\ k \in 0..Len(textBuf) /\ textBuf' = After(textBuf, k)
      /\ shown' = shown \o SubSeq(textBuf, 1, k)
      /\ \A c \in ParsedCalls : c[1] \in (Done + 1)..(Done + k) => BraceBefore(c[1])
  BY <1>5, <1>6, <1>7
<1> HIDE DEF k
<1> QED BY <1>7, <1>8, ShowKeeps

\* A call that begins in a buffer without heads has only its brace there.
LEMMA RestKeeps ==
    ASSUME FilterInv, ShowRest PROVE FilterInv'
<1> DEFINE s == PiecesAt(textBuf)
           k == Len(textBuf) - (IF Eof THEN 0 ELSE Partial(s))
<1>1. /\ Window(s, Done) /\ Len(s) = Len(textBuf) /\ Len(textBuf) \in Nat /\ Done \in Nat
      /\ said \in Seq(Pieces) /\ Done + Len(s) = fed /\ Len(s) >= 1
  BY BufferWindow DEF FilterInv, FilterTyped, ShowRest, Scanning
<1>2. Markers(s) = {}
  BY DEF ShowRest
<1>3. Eof => Done + Len(s) = Len(said)
  BY <1>1 DEF Eof, FilterInv, EndReached
<1>4. /\ said' = said /\ fed' = fed /\ cutAfter' = cutAfter
      /\ textMode' = IF Eof THEN "flush" ELSE "idle"
      /\ textBuf' = After(textBuf, k) /\ shown' = shown \o SubSeq(textBuf, 1, k)
  BY DEF ShowRest, Pass
<1> HIDE DEF s
<1>5. /\ Partial(s) \in 0..Len(s)
      /\ said[Done + Len(s)] \in {"[", "<"} => Partial(s) >= 1
      /\ Len(s) >= 2 /\ At(Done + Len(s) - 1, "brace") /\ At(Done + Len(s), "to")
           => Partial(s) = 2
  BY <1>1, WindowPartial
<1>6. k \in 0..Len(textBuf)
  BY <1>1, <1>5
<1>7. ASSUME NEW c \in ParsedCalls, c[1] \in (Done + 1)..(Done + k) PROVE BraceBefore(c[1])
  <2> DEFINE j == c[1] - Done
  <2>1. /\ c[1] \in Nat /\ MarkerAt(c[1]) /\ said[c[1]] \in {"[", "<", "brace"}
    BY <1>1, CallBounds
  <2>2. Done + j = c[1] /\ j \in 1..Len(s) /\ j <= k
    BY <2>1, <1>1, <1>6, <1>7
  <2> HIDE DEF j, k
  <2>3. /\ MarkerAt(Done + j)
        /\ ~(\/ j + 2 <= Len(s)
             \/ j + 1 <= Len(s) /\ ~At(Done + j, "brace")
             \/ Done + Len(s) = Len(said))
    BY <2>1, <2>2, <1>1, <1>2, WindowMarkers
  <2>4. ~Eof
    BY <2>3, <1>3
  <2>5. k = Len(s) - Partial(s)
    BY <2>4, <1>1 DEF k
  <2>6. CASE j = Len(s)
    <3>1. said[c[1]] = "brace"
      BY <2>1, <2>2, <2>5, <2>6, <1>1, <1>5
    <3>2. c[1] = fed /\ fed \in cutAfter
      BY <2>1, <2>2, <2>6, <1>1 DEF FilterInv, ChunksCut
    <3> QED BY <3>1, <3>2, <2>1, <2>2, <1>1 DEF BraceBefore
  <2>7. CASE j + 1 = Len(s)
    <3>1. At(Done + j, "brace")
      BY <2>3, <2>7
    <3>2. JsonAt(Done + j)
      BY <2>3, <3>1 DEF MarkerAt, CallTagAt, AngleAt, BracketAt, At
    <3>3. Done + j = Done + Len(s) - 1 /\ (Done + j) + 1 = Done + Len(s) /\ Len(s) >= 2
      BY <2>2, <2>7, <1>1
    <3>4. At(Done + Len(s), "to")
      BY <3>2, <3>3 DEF JsonAt
    <3>5. Partial(s) = 2
      BY <3>1, <3>3, <3>4, <1>5
    <3> QED BY <3>5, <2>2, <2>5, <2>7, <1>1
  <2> QED BY <2>2, <2>3, <2>6, <2>7, <1>1
<1> HIDE DEF k
<1>8. /\ textMode' \in {"idle", "feed", "flush", "over"} /\ textMode' # "over"
      /\ textMode' \in {"flush", "over"} => textMode = "flush"
  BY <1>4 DEF Eof
<1> QED BY <1>4, <1>6, <1>7, <1>8, ShowKeeps

LEMMA LoopEndKeeps ==
    ASSUME FilterInv, LoopEnds PROVE FilterInv'
<1>1. /\ said' = said /\ fed' = fed /\ textBuf' = textBuf /\ shown' = shown /\ cutAfter' = cutAfter
      /\ textMode' = IF Eof THEN "over" ELSE "idle"
      /\ textBuf = << >>
  BY DEF LoopEnds
<1>2. Len(textBuf) = 0 /\ fed \in Nat
  BY <1>1 DEF FilterInv, FilterTyped
<1>3. EndReached'
  BY <1>1, <1>2 DEF FilterInv, EndReached, Eof, Done
<1> QED BY <1>1, <1>3, ModeKeeps

\* The filter, on any text and any way to cut it into chunks, keeps account of
\* what it did with each piece.
THEOREM SpecFilterInv == TextSpec => []FilterInv
<1>1. TextInit => FilterInv
  BY InitFilterInv
<1>2. FilterInv /\ [TextNext]_textVars => FilterInv'
  <2> SUFFICES ASSUME FilterInv, [TextNext]_textVars PROVE FilterInv'
    OBVIOUS
  <2>1. CASE FeedChunk
    BY <2>1, FeedKeeps
  <2>2. CASE FlushText
    <3>1. EndReached'
      BY <2>2 DEF FlushText, EndReached
    <3> QED BY <2>2, <3>1, ModeKeeps DEF FlushText
  <2>3. CASE StripLeading
    BY <2>3, StripKeeps
  <2>4. CASE HoldLeading
    <3>1. EndReached'
      BY <2>4 DEF HoldLeading, EndReached
    <3> QED BY <2>4, <3>1, ModeKeeps DEF HoldLeading
  <2>5. CASE ShowPrefix
    BY <2>5, PrefixKeeps
  <2>6. CASE ShowRest
    BY <2>6, RestKeeps
  <2>7. CASE LoopEnds
    BY <2>7, LoopEndKeeps
  <2>8. CASE UNCHANGED textVars
    <3>1. EndReached'
      BY <2>8 DEF textVars, FilterInv, EndReached, Done
    <3> QED BY <2>8, <3>1, ModeKeeps DEF textVars, FilterInv, FilterTyped
  <2> QED BY <2>1, <2>2, <2>3, <2>4, <2>5, <2>6, <2>7, <2>8 DEF TextNext
<1> QED BY <1>1, <1>2, PTL DEF TextSpec

\* What the filter showed and what the parser finds agree: no piece of a call
\* that will be run was shown, unless a chunk had ended in a bare brace before
\* it, and no other piece was hidden but behind a head (sanitize.py against
\* tool_call_parse.py).
THEOREM SpecFilterMatchesParser == TextSpec => []FilterMatchesParser
<1>1. FilterInv => FilterMatchesParser
  <2> SUFFICES ASSUME FilterInv PROVE FilterMatchesParser
    OBVIOUS
  <2>1. DOMAIN shown = 1..Len(shown) /\ DOMAIN said = 1..Len(said)
    BY DEF FilterInv, FilterTyped
  <2>2. \A n \in DOMAIN shown : CallAt(shown[n]) =>
          \E m \in 1..shown[n] : said[m] = "brace" /\ m \in cutAfter
    BY <2>1 DEF FilterInv, ShownCallsExcused, BraceBefore
  <2>3. textMode = "over" => \A n \in ParsedText : ShownAt(n) \/ HeadBefore(n)
    BY <2>1 DEF FilterInv, EndReached, DropsBehindHeads, ParsedText
  <2> QED BY <2>2, <2>3 DEF FilterMatchesParser
<1> QED BY <1>1, SpecFilterInv, PTL
=============================================================================
