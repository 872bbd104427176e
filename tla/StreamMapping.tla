--------------------------- MODULE StreamMapping ---------------------------
(***************************************************************************)
(* How the events of a turn become rows of the chat stream:                *)
(* map_koraku_stream_events of koraku/streaming/koraku_sse.py.  One        *)
(* KorakuStreamState serves the turn and all its sub-agents, whose model   *)
(* streams interleave.  It hides the chunks of tool calls by the index of  *)
(* their content block, which says nothing of whose block it is, and finds *)
(* the call of a result by an id that is prefixed with the sub-agent.      *)
(*                                                                         *)
(* The queue in between is ChatStream's: here an event is mapped when it   *)
(* is emitted.  Both model backends are covered: Anthropic streams a tool  *)
(* call as a block, the OpenAI-compatible one announces it without a block *)
(* or finds it in the text of the message.  Sub-agents do not delegate     *)
(* (subagent_max_depth is 1 unless configured otherwise).  Rows that only  *)
(* copy their event (traces, questions, usage) are left out.               *)
(***************************************************************************)
EXTENDS Naturals, FiniteSets

CONSTANTS Top,         \* the turn
          Workers,     \* runs of sub-agents
          Prefix,      \* what _scoped_tool_use_id puts before the ids of a run
          Ids,         \* tool_use ids, which backends number from zero
          Tools,       \* names of tools
          Task,        \* the one that delegates
          NoTool,      \* absent from tool_calls_by_id, or from a message
          MaxIndex,    \* bound on the blocks of a message
          MaxMessages  \* bound on the model calls of a run

Agents == Workers \cup {Top}

ASSUME MappingAssumption ==
    /\ Top \notin Workers
    /\ Task \in Tools
    /\ NoTool \notin Tools
    /\ MaxIndex \in Nat
    /\ MaxMessages \in Nat
    /\ \A w \in Workers : Prefix[w] # Prefix[Top]

VARIABLES stage,       \* what a run is doing
          sent,        \* model calls it made
          block,       \* the content block its model is streaming
          next,        \* the index of the block after that
          calls,       \* tool calls of its current message
          suppressed,  \* suppressed_tool_block_indexes
          recorded,    \* tool_calls_by_id
          event,       \* the last event that was mapped
          rows,        \* and what the client got for it
          broken       \* history: indexes of tool blocks that never stopped

runs == <<stage, sent, block, next, calls>>
mapper == <<suppressed, recorded>>
vars == <<runs, mapper, event, rows, broken>>

Indexes == 0..MaxIndex
NoBlock == [kind |-> "none", index |-> 0]
Blocks == [kind : {"text", "tool"}, index : Indexes] \cup {NoBlock}
NoCalls == [i \in Ids |-> NoTool]
CallsIn(m) == {i \in Ids : m[i] # NoTool}
Called(a) == CallsIn(calls[a])

\* The key of a tool call (the mutant uses the id as the backend made it).
BareId(a, i) == <<Prefix[Top], i>>
ScopedId(a, i) == <<Prefix[a], i>>
ScopedIds == {ScopedId(a, i) : a \in Agents, i \in Ids}

Forwarded == [row |-> "stream_event"]
Completed == [row |-> "completed"]
Announced == [row |-> "subagent"]
Started(a, i, t) == [row |-> "started", id |-> ScopedId(a, i), tool |-> t]
Result(a, i, t) == [row |-> "result", id |-> ScopedId(a, i), tool |-> t]

Rows == {Forwarded, Completed, Announced}
        \cup [row : {"started", "result"}, id : ScopedIds, tool : Tools \cup {NoTool}]
Chunks == {"start", "delta", "stop"}
Events == [by : Agents, type : Chunks \cup {"message", "tools", "results", "end", "spawn"},
           block : Blocks]

TypeOK ==
    /\ stage \in [Agents -> {"absent", "ready", "streaming", "tools", "over"}]
    /\ sent \in [Agents -> 0..MaxMessages]
    /\ block \in [Agents -> Blocks]
    /\ next \in [Agents -> 0..(MaxIndex + 1)]
    /\ calls \in [Agents -> [Ids -> Tools \cup {NoTool}]]
    /\ suppressed \subseteq Indexes
    /\ recorded \in [ScopedIds -> Tools \cup {NoTool}]
    /\ event \in Events
    /\ rows \subseteq Rows
    /\ broken \subseteq Indexes

Init ==
    /\ stage = [a \in Agents |-> IF a = Top THEN "ready" ELSE "absent"]
    /\ sent = [a \in Agents |-> 0]
    /\ block = [a \in Agents |-> NoBlock]
    /\ next = [a \in Agents |-> 0]
    /\ calls = [a \in Agents |-> NoCalls]
    /\ suppressed = {}
    /\ recorded = [k \in ScopedIds |-> NoTool]
    /\ event = [by |-> Top, type |-> "message", block |-> NoBlock]
    /\ rows = {}
    /\ broken = {}

\* The step maps an event of type ty by a, about block b, to the rows out.
Emit(a, ty, b, out) ==
    /\ event' = [by |-> a, type |-> ty, block |-> b]
    /\ rows' = out

OpenTools(S) == {block[a].index : a \in {b \in S : block[b].kind = "tool"}}
-----------------------------------------------------------------------------
\* The next round of a run asks the model.
CallModel(a) ==
    /\ stage[a] = "ready" /\ sent[a] < MaxMessages
    /\ stage' = [stage EXCEPT ![a] = "streaming"]
    /\ sent' = [sent EXCEPT ![a] = @ + 1]
    /\ next' = [next EXCEPT ![a] = 0]
    /\ calls' = [calls EXCEPT ![a] = NoCalls]
    /\ Emit(a, "message", NoBlock, {Forwarded})
    /\ UNCHANGED <<block, mapper, broken>>

\* The OpenAI-compatible backend lost its connection and starts again.
Retry(a) ==
    /\ stage[a] = "streaming" /\ block[a].kind # "tool"
    /\ block' = [block EXCEPT ![a] = NoBlock]
    /\ next' = [next EXCEPT ![a] = 0]
    /\ calls' = [calls EXCEPT ![a] = NoCalls]
    /\ Emit(a, "message", NoBlock, {Forwarded})
    /\ UNCHANGED <<stage, sent, mapper, broken>>

Open(a, kind) ==
    /\ stage[a] = "streaming" /\ block[a] = NoBlock /\ next[a] <= MaxIndex
    /\ block' = [block EXCEPT ![a] = [kind |-> kind, index |-> next[a]]]
    /\ next' = [next EXCEPT ![a] = @ + 1]

OpenText(a) ==
    /\ Open(a, "text")
    /\ Emit(a, "start", block'[a], {Forwarded})
    /\ UNCHANGED <<stage, sent, calls, mapper, broken>>

\* content_block_start of a tool call.
OpenTool(a, i, t) ==
    /\ Open(a, "tool") /\ i \notin Called(a)
    /\ calls' = [calls EXCEPT ![a][i] = t]
    /\ suppressed' = suppressed \cup {next[a]}
    /\ recorded' = [recorded EXCEPT ![ScopedId(a, i)] = t]
    /\ Emit(a, "start", block'[a], {Started(a, i, t)})
    /\ UNCHANGED <<stage, sent, broken>>

\* tool_use_pending: a call without a block.
Pending(a, i, t) ==
    /\ stage[a] = "streaming" /\ block[a].kind # "tool" /\ i \notin Called(a)
    /\ calls' = [calls EXCEPT ![a][i] = t]
    /\ recorded' = [recorded EXCEPT ![ScopedId(a, i)] = t]
    /\ Emit(a, "tools", NoBlock, {Started(a, i, t)})
    /\ UNCHANGED <<stage, sent, block, next, suppressed, broken>>

\* content_block_delta: those of tool calls carry input_json.
Withheld(b) == b.index \in suppressed \/ b.kind = "tool"
Delta(a) ==
    /\ stage[a] = "streaming" /\ block[a] # NoBlock
    /\ Emit(a, "delta", block[a], IF Withheld(block[a]) THEN {} ELSE {Forwarded})
    /\ UNCHANGED <<runs, mapper, broken>>

\* content_block_stop (the mutant forgets to lift the suppression).
StayHidden(i) == suppressed
Unhide(i) == suppressed \ {i}
Stop(a) ==
    /\ stage[a] = "streaming" /\ block[a] # NoBlock
    /\ block' = [block EXCEPT ![a] = NoBlock]
    /\ suppressed' = Unhide(block[a].index)
    /\ Emit(a, "stop", block[a],
            IF block[a].index \in suppressed THEN {} ELSE {Forwarded})
    /\ UNCHANGED <<stage, sent, next, calls, recorded, broken>>

\* What the terminal event of a run becomes.
Terminal(a) == IF a = Top THEN {Completed} ELSE {}

\* A message without tool calls is the reply of the run.
Reply(a) ==
    /\ stage[a] = "streaming" /\ block[a] = NoBlock /\ Called(a) = {}
    /\ stage' = [stage EXCEPT ![a] = "over"]
    /\ Emit(a, "end", NoBlock, {Forwarded} \cup Terminal(a))
    /\ UNCHANGED <<sent, block, next, calls, mapper, broken>>

\* The message ends and its calls, or those found in its text when it has no
\* other, are executed: one tool_execution for each.  (The row of the message
\* itself, without its calls, is not shown.)
Execute(a, found) ==
    /\ stage[a] = "streaming" /\ block[a] = NoBlock
    /\ \A i \in Called(a) : found[i] = calls[a][i]
    /\ found # calls[a] => Called(a) = {}
    /\ found # NoCalls
    /\ stage' = [stage EXCEPT ![a] = "tools"]
    /\ calls' = [calls EXCEPT ![a] = found]
    /\ recorded' = [k \in ScopedIds |->
                      IF \E i \in CallsIn(found) : k = ScopedId(a, i)
                      THEN found[k[2]] ELSE recorded[k]]
    /\ Emit(a, "tools", NoBlock, {Started(a, i, found[i]) : i \in CallsIn(found)})
    /\ UNCHANGED <<sent, block, next, suppressed, broken>>

\* A Task call starts a sub-agent.
Spawn(w) ==
    /\ stage[Top] = "tools" /\ \E i \in Called(Top) : calls[Top][i] = Task
    /\ stage[w] = "absent"
    /\ stage' = [stage EXCEPT ![w] = "ready"]
    /\ Emit(w, "spawn", NoBlock, {Announced})
    /\ UNCHANGED <<sent, block, next, calls, mapper, broken>>

\* Sub-agents end with the tool phase of the turn: they have returned, or are
\* cancelled by its deadline.
Dismiss ==
    /\ sent' = [a \in Agents |-> IF a = Top THEN sent[a] ELSE 0]
    /\ block' = [a \in Agents |-> IF a = Top THEN block[a] ELSE NoBlock]
    /\ broken' = broken \cup OpenTools(Workers)

\* One user event for each tool result.
Results(a) ==
    /\ stage[a] = "tools"
    /\ stage' = [b \in Agents |-> CASE b = a -> "ready"
                                    [] b # a /\ a = Top -> "absent"
                                    [] OTHER -> stage[b]]
    /\ IF a = Top THEN Dismiss ELSE UNCHANGED <<sent, block, broken>>
    /\ recorded' = [k \in ScopedIds |->
                      IF \E i \in Called(a) : k = ScopedId(a, i) THEN NoTool ELSE recorded[k]]
    /\ Emit(a, "results", NoBlock,
            {Result(a, i, recorded[ScopedId(a, i)]) : i \in Called(a)})
    /\ UNCHANGED <<next, calls, suppressed>>

\* A run ends elsewhere: its rounds or its time are over, it is cancelled, the
\* model does not answer or the stream breaks off, or an exception escapes.
CutOff(a) ==
    /\ stage[a] \in {"ready", "streaming", "tools"}
    /\ a = Top => \A w \in Workers : stage[w] \in {"absent", "over"}
    /\ stage' = [stage EXCEPT ![a] = "over"]
    /\ block' = [block EXCEPT ![a] = NoBlock]
    /\ broken' = broken \cup OpenTools({a})
    /\ Emit(a, "end", NoBlock, Terminal(a))
    /\ UNCHANGED <<sent, next, calls, mapper>>

Next ==
    \/ \E a \in Agents :
          \/ CallModel(a) \/ Retry(a) \/ OpenText(a) \/ Delta(a) \/ Stop(a)
          \/ Reply(a) \/ Results(a) \/ CutOff(a)
          \/ \E i \in Ids, t \in Tools : OpenTool(a, i, t) \/ Pending(a, i, t)
          \/ \E found \in [Ids -> Tools \cup {NoTool}] : Execute(a, found)
    \/ \E w \in Workers : Spawn(w)

Spec == Init /\ [][Next]_vars
-----------------------------------------------------------------------------
\* A run whose prefix no other run has.
Unmistakable(a) == \A b \in Agents \ {a} : Prefix[b] # Prefix[a]

\* The row of a tool result names the tool that was called, however many runs
\* use the same ids at the same time: always for the turn, and for a sub-agent
\* as long as no other one of the same name is running (_scoped_tool_use_id;
\* the call is looked up and popped when its result is mapped).
ResultNamesItsCall ==
    event.type = "results" /\ Unmistakable(event.by) =>
        rows = {Result(event.by, i, calls[event.by][i]) : i \in Called(event.by)}

\* Text of a model is withheld only while another run streams a tool call in a
\* block of that index, or after a tool call of that index broke off without
\* its stop (suppressed_tool_block_indexes has no other reason to grow or
\* to stay).
TextWithheldForTools ==
    event.type = "delta" /\ event.block.kind = "text" /\ rows = {} =>
        event.block.index \in broken \cup OpenTools(Agents \ {event.by})

\* The completion rows, at which clients stop reading, come with the end of the
\* turn, when no sub-agent can still speak (terminal events of sub-agents are
\* swallowed).
CompletionIsLast ==
    Completed \in rows =>
        stage[Top] = "over" /\ \A w \in Workers : stage[w] \in {"absent", "over"}

\* The chunks of a tool call never reach the client, as
\* test_tool_use_stream_chunks_are_not_forwarded asserts for one run.
ToolChunksNotForwarded ==
    event.type \in Chunks /\ event.block.kind = "tool" => Forwarded \notin rows
=============================================================================
