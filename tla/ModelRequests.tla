---------------------------- MODULE ModelRequests ----------------------------
(***************************************************************************)
(* What the model is sent: the messages of a session as the turns append   *)
(* them (koraku/agent/run.py), cut down for one call                       *)
(* (koraku/agent/context_manager.py), with notes of the run behind them    *)
(* (koraku/agent/utils.py), and in the shape of a provider                 *)
(* (koraku/llm/canonical.py).                                              *)
(*                                                                         *)
(* A block is its kind and an id: a text is named by the message it was    *)
(* said in, a call and its result by the call, a summary by the texts in   *)
(* it.  The content of a message that is a string is one text block.       *)
(***************************************************************************)
EXTENDS Integers, Sequences, FiniteSets, SequencesExt

CONSTANTS SummarizeAfter, \* summarize_after
          KeepRecent,     \* keep_recent of _summarize_if_needed
          MaxMessages,    \* max_messages
          SummaryTurns,   \* _SUMMARY_MAX_VISIBLE_TURNS
          LongCalls,      \* calls whose result exceeds max_tool_result_chars
          MaxTalk         \* bound: messages of the session

ASSUME RequestAssumption ==
    /\ SummarizeAfter \in Nat \ {0} /\ KeepRecent \in Nat \ {0}
    /\ MaxMessages \in Nat \ {0, 1} /\ SummaryTurns \in Nat \ {0} /\ MaxTalk \in Nat
    \* Each ContextManager of the code has a window for what a summary leaves.
    /\ SummarizeAfter <= MaxMessages /\ KeepRecent + 2 <= MaxMessages

VARIABLES talk,     \* session.messages
          compact,  \* settings.chat_compact_tool_context
          findings, \* whether the run's working memory holds something
          steered   \* whether budget steering is due at the next call

requestVars == <<talk, compact, findings, steered>>

Block(kind, id) == [kind |-> kind, id |-> id]
Message(role, blocks) == [role |-> role, blocks |-> blocks]
Kinds(message) == {message.blocks[n].kind : n \in DOMAIN message.blocks}
IdsOf(message, kind) ==
    {message.blocks[n].id : n \in {m \in DOMAIN message.blocks : message.blocks[m].kind = kind}}

\* The elements of a sequence at some of its positions, in order.
Kept(s, at) ==
    LET upTo[n \in 0..Len(s)] ==
            IF n = 0 THEN <<>>
            ELSE IF n \in at THEN Append(upTo[n - 1], s[n]) ELSE upTo[n - 1]
    IN upTo[Len(s)]
Only(blocks, kinds) == Kept(blocks, {n \in DOMAIN blocks : blocks[n].kind \in kinds})
OtherThan(blocks, kinds) == Kept(blocks, {n \in DOMAIN blocks : blocks[n].kind \notin kinds})

RequestTypeOK ==
    /\ \A n \in DOMAIN talk :
         /\ talk[n].role \in {"user", "assistant"} /\ talk[n].blocks # <<>>
         /\ Kinds(talk[n]) \subseteq {"text", "thinking", "image", "use", "result", "note"}
    /\ Len(talk) <= MaxTalk
    /\ compact \in BOOLEAN /\ findings \in BOOLEAN /\ steered \in BOOLEAN

RequestInit ==
    /\ talk = <<>>
    /\ compact \in BOOLEAN
    /\ findings = FALSE
    /\ steered = FALSE
-----------------------------------------------------------------------------
AtMessage == Len(talk) + 1
Said == Block("text", AtMessage)
Thought == Block("thinking", AtMessage)
RoomFor(n) == Len(talk) + n <= MaxTalk

\* The user's turn: images before the text; a new run has an empty memory.
AskQuestion ==
    /\ RoomFor(1)
    /\ \E blocks \in {<<Said>>, <<Block("image", AtMessage), Said>>} :
         talk' = Append(talk, Message("user", blocks))
    /\ findings' = FALSE /\ steered' = FALSE
    /\ UNCHANGED compact

ModelsTurn == talk # <<>> /\ Last(talk).role = "user"

\* The model answers in text, or calls one tool or two, with text or without.
AnswerQuestion ==
    /\ ModelsTurn /\ RoomFor(1)
    /\ talk' = Append(talk, Message("assistant", <<Thought, Said>>))
    /\ UNCHANGED <<compact, findings, steered>>

CallTools ==
    /\ ModelsTurn /\ RoomFor(1)
    /\ LET call(k) == Block("use", <<AtMessage, k>>)
       IN \E blocks \in {<<call(1)>>, <<Said, call(1)>>, <<Thought, call(1), call(2)>>} :
            talk' = Append(talk, Message("assistant", blocks))
    /\ UNCHANGED <<compact, findings, steered>>

\* The results of a tool phase are one message; a repeated call is followed by
\* a note; a result worth it enters the working memory.
ReportResults ==
    /\ talk # <<>> /\ Last(talk).role = "assistant" /\ "use" \in Kinds(Last(talk))
    /\ LET calls == Only(Last(talk).blocks, {"use"})
           results == [n \in DOMAIN calls |-> Block("result", calls[n].id)]
           steering == Message("user", <<Block("note", AtMessage + 1)>>)
       IN \/ RoomFor(1) /\ talk' = Append(talk, Message("user", results))
          \/ RoomFor(2) /\ talk' = talk \o <<Message("user", results), steering>>
    /\ findings' \in {findings, TRUE}
    /\ steered' \in {steered, TRUE}
    /\ UNCHANGED compact

RequestNext == AskQuestion \/ AnswerQuestion \/ CallTools \/ ReportResults

RequestSpec == RequestInit /\ [][RequestNext]_requestVars
-----------------------------------------------------------------------------
ToolUseOnly(m) ==
    m.role = "assistant" /\ "use" \in Kinds(m) /\ Kinds(m) \subseteq {"use", "thinking"}
ToolResultsOnly(m) == m.role = "user" /\ Kinds(m) = {"result"}
HasVisibleText(m) == m.role = "assistant" /\ "text" \in Kinds(m)

DropThinking(ms) == [n \in DOMAIN ms |-> [ms[n] EXCEPT !.blocks = OtherThan(@, {"thinking"})]]

\* A round of tools that the next message answers.
Droppable(ms, n) ==
    /\ n + 2 <= Len(ms)
    /\ ToolUseOnly(ms[n]) /\ ToolResultsOnly(ms[n + 1]) /\ HasVisibleText(ms[n + 2])

DropCompletedRounds(ms) ==
    LET dropped == {n \in DOMAIN ms : Droppable(ms, n) \/ (n > 1 /\ Droppable(ms, n - 1))}
    IN Kept(ms, DOMAIN ms \ dropped)

TruncateResults(ms) ==
    LET short(b) == IF b.kind = "result" /\ b.id \in LongCalls THEN [b EXCEPT !.kind = "cut"] ELSE b
    IN [n \in DOMAIN ms |-> [ms[n] EXCEPT !.blocks = [k \in DOMAIN @ |-> short(@[k])]]]

\* The summary quotes the last visible texts; what it says of tools is left
\* out.  Mutant: it quotes the first ones.
Spoken(ms) == Kept(ms, {n \in DOMAIN ms : Kinds(ms[n]) \cap {"text", "note"} # {}})
FirstSpoken(ms) ==
    IF Len(Spoken(ms)) <= SummaryTurns THEN Spoken(ms)
    ELSE SubSeq(Spoken(ms), 1, SummaryTurns)
Quoted(ms) ==
    IF Len(Spoken(ms)) <= SummaryTurns THEN Spoken(ms)
    ELSE SubSeq(Spoken(ms), Len(Spoken(ms)) - SummaryTurns + 1, Len(Spoken(ms)))
SummaryOf(ms) ==
    LET texts == UNION {IdsOf(Quoted(ms)[n], "text") : n \in DOMAIN Quoted(ms)}
    IN Message("user", <<Block("summary", texts)>>)

\* The first message, a summary and the recent messages.  Mutant: the last
\* message is cut off as well.
NewestButOne(ms) == SubSeq(ms, Len(ms) - KeepRecent + 1, Len(ms) - 1)
Newest(ms) == SubSeq(ms, Len(ms) - KeepRecent + 1, Len(ms))
Summarize(ms) ==
    IF Len(ms) <= SummarizeAfter \/ Len(ms) - KeepRecent <= 1 THEN ms
    ELSE <<ms[1], SummaryOf(SubSeq(ms, 2, Len(ms) - KeepRecent))>> \o Newest(ms)

SlidingWindow(ms) ==
    IF Len(ms) <= MaxMessages THEN ms
    ELSE <<ms[1]>> \o SubSeq(ms, Len(ms) - MaxMessages + 2, Len(ms))

ProcessMessages(ms) ==
    LET spoken == DropThinking(ms)
        rounds == IF compact THEN DropCompletedRounds(spoken) ELSE spoken
    IN SlidingWindow(Summarize(TruncateResults(rounds)))

\* The context of one call, with the notes of the run at its end.
ContextMessages ==
    ProcessMessages(talk)
      \o (IF findings THEN <<Message("user", <<Block("note", "memory")>>)>> ELSE <<>>)
      \o (IF steered THEN <<Message("user", <<Block("note", "budget")>>)>> ELSE <<>>)
-----------------------------------------------------------------------------
\* Chat Completions: a tool message for each result.
Wire(role, blocks) == [role |-> role, blocks |-> blocks]
ResultKinds == {"result", "cut"}

AssistantWire(m) == <<Wire("assistant", m.blocks)>>
UserWire(m) ==
    LET results == Only(m.blocks, ResultKinds)
        text == OtherThan(m.blocks, ResultKinds)
    IN (IF text = <<>> THEN <<>> ELSE <<Wire("user", text)>>)
         \o [n \in DOMAIN results |-> Wire("tool", <<results[n]>>)]

\* A message with an image is one message, whatever else is in it.
MessageWire(m) ==
    IF m.role = "user" /\ "image" \in Kinds(m) THEN <<Wire("user", m.blocks)>>
    ELSE IF m.role = "assistant" THEN AssistantWire(m) ELSE UserWire(m)
OpenAIMessages(ms) == FlattenSeq([n \in DOMAIN ms |-> MessageWire(ms[n])])

\* The Messages API takes them as they are.
AnthropicMessages(ms) == ms
-----------------------------------------------------------------------------
AnsweredCalls == UNION {IdsOf(talk[n], "result") : n \in DOMAIN talk}
CutIds(m) == IdsOf(m, "result") \cup IdsOf(m, "cut")

\* The providers want a call and its result side by side.  On the wire every
\* answered call that is still there has its results behind it, one after the
\* other; a result without its call comes only where the history was cut.
ResultsFollowCalls ==
    ModelsTurn =>
        LET sent == ProcessMessages(talk)
            wire == OpenAIMessages(ContextMessages)
        IN /\ \A n \in DOMAIN wire :
                LET calls == IdsOf(wire[n], "use") \cap AnsweredCalls
                IN \A k \in 1..Cardinality(calls) :
                     n + k <= Len(wire) /\ wire[n + k].role = "tool"
                     /\ CutIds(wire[n + k]) \subseteq calls
           /\ \A n \in DOMAIN sent :
                CutIds(sent[n]) # {} =>
                    \/ n > 1 /\ CutIds(sent[n]) = IdsOf(sent[n - 1], "use")
                    \/ n = 3 /\ "summary" \in Kinds(sent[2])

\* The question of the turn reaches every call of the turn, as a message or in
\* the summary, unless as many texts as a summary quotes were said after it.
QuestionSurvives ==
    ModelsTurn =>
        LET asked == {n \in DOMAIN talk : talk[n].role = "user" /\ "text" \in Kinds(talk[n])}
            latest == CHOOSE n \in asked : \A m \in asked : m <= n
            after == {n \in DOMAIN talk : n > latest /\ Kinds(talk[n]) \cap {"text", "note"} # {}}
            sent == ProcessMessages(talk)
        IN \/ \E n \in DOMAIN sent : latest \in IdsOf(sent[n], "text")
           \/ \E n \in DOMAIN sent : \E ids \in IdsOf(sent[n], "summary") : latest \in ids
           \/ Cardinality(after) >= SummaryTurns
=============================================================================
