---------------------------- MODULE ModelStream ----------------------------
(***************************************************************************)
(* One model call on either backend (koraku/llm/providers): what the       *)
(* service sends is turned into normalized events and one assistant        *)
(* message.  The OpenAI-compatible backend invents the content blocks, and *)
(* retries even a stream that broke after events went out; the Anthropic   *)
(* one copies the blocks of the service and retries only a refused call.   *)
(*                                                                         *)
(* Text is a sequence of pieces, each a word or an inline tool call.  The  *)
(* filter of koraku/llm/sanitize.py is VisibleText's: here it shows what   *)
(* it holds or keeps holding it, and what it shows of a chunk is one delta *)
(* here.  A data line with tool calls, reasoning and text is one step for  *)
(* each of them, in the order process_line looks at them: nothing comes    *)
(* between.  Lines that carry nothing, arguments of calls and usage are    *)
(* left out.                                                               *)
(***************************************************************************)
EXTENDS Integers, Sequences, FiniteSets

CONSTANTS CallSlots,       \* indexes of native tool_calls
          MaxCallAttempts, \* llm_max_retries + 1
          MaxServed        \* bound on what the service sends in all

ASSUME ModelStreamAssumption ==
    /\ CallSlots \subseteq Nat /\ IsFiniteSet(CallSlots)
    /\ MaxCallAttempts \in Nat \ {0}
    /\ MaxServed \in Nat

VARIABLES callBackend, \* "compatible" or "anthropic"
          callStage,   \* "asking", "streaming", "over" or "left"
          attempt,
          served,      \* what the service sent so far
          handler,     \* _OpenAIStreamHandler, and the events of the attempt
          final,       \* the message of the last assistant_message, or <<>>
          idCameLate   \* history: slots whose id came after their announcement

callVars == <<callBackend, callStage, attempt, served, handler, final, idCameLate>>

NoCallSlot == [id |-> FALSE, name |-> FALSE]
FreshHandler == [thinking |-> "none", text |-> FALSE, body |-> <<>>, held |-> <<>>,
                 slots |-> [s \in CallSlots |-> NoCallSlot], announced |-> {},
                 out |-> <<[e |-> "message_start"]>>]

CallTypeOK ==
    /\ callBackend \in {"compatible", "anthropic"}
    /\ callStage \in {"asking", "streaming", "over", "left"}
    /\ attempt \in 1..MaxCallAttempts
    /\ served \in 0..MaxServed
    /\ handler.slots \in [CallSlots -> [id : BOOLEAN, name : BOOLEAN]]
    /\ handler.announced \subseteq CallSlots
    /\ idCameLate \subseteq CallSlots

CallInit ==
    /\ callBackend \in {"compatible", "anthropic"}
    /\ callStage = "asking"
    /\ attempt = 1
    /\ served = 0
    /\ handler = FreshHandler
    /\ final = <<>>
    /\ idCameLate = {}

Opened(at, kind) == [e |-> "open", at |-> at, kind |-> kind]
BlockDelta(at, ps) == [e |-> "delta", at |-> at, pieces |-> ps]
Closed(at) == [e |-> "close", at |-> at]
AddOut(h, evs) == [h EXCEPT !.out = @ \o evs]
Prose(ps) == SelectSeq(ps, LAMBDA p : p.kind = "word")
PiecesOf(ps) == {ps[i] : i \in DOMAIN ps}
-----------------------------------------------------------------------------
\* The OpenAI-compatible handler.  A block is named by its index.
CloseThinking(h) ==
    IF h.thinking = "open" THEN [AddOut(h, <<Closed(0)>>) EXCEPT !.thinking = "closed"] ELSE h

TextIndex(h) == IF h.thinking = "none" THEN 0 ELSE 1

StartText(h) ==
    IF h.text THEN h
    ELSE [AddOut(h, <<Opened(TextIndex(h), <<"text">>)>>) EXCEPT !.text = TRUE]

ShowPieces(h, ps) ==
    IF Prose(ps) = <<>> THEN h ELSE AddOut(h, <<BlockDelta(TextIndex(h), Prose(ps))>>)

\* iter_text_stream: the filter shows what it held, or holds the chunk too.
IterText(h, p, showing) ==
    LET started == StartText(CloseThinking(h))
        grown == [started EXCEPT !.body = Append(@, p), !.held = Append(@, p)]
    IN  IF showing THEN [ShowPieces(grown, grown.held) EXCEPT !.held = <<>>] ELSE grown

\* emit_reasoning_delta: reasoning that comes after the first text is text.
Reason(h, p) ==
    AddOut([h EXCEPT !.thinking = "open"],
           (IF h.thinking = "none" THEN <<Opened(0, <<"thinking">>)>> ELSE <<>>)
           \o <<BlockDelta(0, <<[p EXCEPT !.kind = "reason"]>>)>>)
EmitReasoning(h, p, showing) == IF h.text THEN IterText(h, p, showing) ELSE Reason(h, p)

\* _accumulate_openai_tool_call_deltas: the fragments of a line give some
\* calls their id and some their name.
Accumulate(h, ids, names) ==
    [h EXCEPT !.slots = [s \in CallSlots |-> [id |-> @[s].id \/ s \in ids,
                                              name |-> @[s].name \/ s \in names]]]

SlotId(h, s) == IF h.slots[s].id THEN <<"given", s>> ELSE <<"tool", s>>

\* _emit_pending_native_tool_events announces a call once its name is there,
\* in the order of the indexes.
ToAnnounce(h) == {s \in CallSlots : h.slots[s].name /\ s \notin h.announced}
InOrderOf(S) == {line \in [1..Cardinality(S) -> S] : \A i, j \in DOMAIN line : i < j => line[i] < line[j]}
PendingEvent(h, s) == [e |-> "pending", slot |-> s, id |-> SlotId(h, s)]
EmitPending(h, line) ==
    [AddOut(h, [i \in DOMAIN line |-> PendingEvent(h, line[i])])
     EXCEPT !.announced = @ \cup ToAnnounce(h)]

\* flush: the held text comes out, or it was part of a tool call and does not.
FlushStream(h, showing) ==
    LET shut == CloseThinking(h)
        tail == IF showing THEN ShowPieces(shut, shut.held) ELSE shut
    IN  [IF tail.text THEN AddOut(tail, <<Closed(TextIndex(tail))>>) ELSE tail
         EXCEPT !.held = <<>>]

\* _tool_call_slots_to_blocks (the mutant drops the calls that got no id).
IdentifiedBlocks(h) == {SlotId(h, s) : s \in {x \in CallSlots : h.slots[x].name /\ h.slots[x].id}}
NativeBlocks(h) == {SlotId(h, s) : s \in {x \in CallSlots : h.slots[x].name}}

\* get_final_messages: with native calls the body stays as it is, inline calls
\* included; without, the inline calls become calls.
FinalText(h) == IF NativeBlocks(h) # {} THEN PiecesOf(h.body) ELSE PiecesOf(Prose(h.body))
FinalCalls(h) ==
    IF NativeBlocks(h) # {} THEN NativeBlocks(h)
    ELSE {<<"inline", p.n>> : p \in {q \in PiecesOf(h.body) : q.kind = "blob"}}
AssembledMessage(h) == [text |-> FinalText(h), calls |-> FinalCalls(h), failed |-> FALSE]
Failure == [text |-> {}, calls |-> {}, failed |-> TRUE]
-----------------------------------------------------------------------------
Serving(b) == callStage = "streaming" /\ callBackend = b /\ served < MaxServed
Serve(h) == handler' = h /\ served' = served + 1
NextPiece(kind) == [kind |-> kind, n |-> served + 1]

\* The service accepts the call and the stream begins.
Accepted ==
    /\ callStage = "asking"
    /\ callStage' = "streaming"
    /\ handler' = FreshHandler
    /\ UNCHANGED <<callBackend, attempt, served, final, idCameLate>>

\* One part of a data line of the OpenAI-compatible stream.
TextArrives ==
    /\ Serving("compatible")
    /\ \E kind \in {"word", "blob"}, showing \in BOOLEAN :
          Serve(IterText(handler, NextPiece(kind), showing))
    /\ UNCHANGED <<callBackend, callStage, attempt, final, idCameLate>>

ReasoningArrives ==
    /\ Serving("compatible")
    /\ \E showing \in BOOLEAN : Serve(EmitReasoning(handler, NextPiece("word"), showing))
    /\ UNCHANGED <<callBackend, callStage, attempt, final, idCameLate>>

CallArrives ==
    /\ Serving("compatible")
    /\ \E ids, names \in SUBSET CallSlots :
         LET grown == Accumulate(handler, ids, names)
         IN /\ \E line \in InOrderOf(ToAnnounce(grown)) : Serve(EmitPending(grown, line))
            /\ idCameLate' = idCameLate
                   \cup {s \in ids \cap handler.announced : ~handler.slots[s].id}
    /\ UNCHANGED <<callBackend, callStage, attempt, final>>

\* The body ends, with [DONE] or without: it is flushed and the message built.
StreamEnds ==
    /\ callStage = "streaming" /\ callBackend = "compatible"
    /\ \E showing \in BOOLEAN : handler' = AddOut(FlushStream(handler, showing), <<[e |-> "assistant"]>>)
    /\ final' = AssembledMessage(handler)
    /\ callStage' = "over"
    /\ UNCHANGED <<callBackend, attempt, served, idCameLate>>

\* Anthropic: the events of a block are copied, one block at a time.
Openings(h) == {i \in DOMAIN h.out : h.out[i].e = "open"}
NextAt(h) == Cardinality(Openings(h))
LastAt(h) == NextAt(h) - 1
CopiedCalls == {<<"given", s>> : s \in CallSlots}
InBlock(h) == h.out[Len(h.out)].e \in {"open", "delta"}
CopyStart ==
    /\ Serving("anthropic") /\ ~InBlock(handler)
    /\ \E kind \in {<<"thinking">>, <<"text">>} \cup CopiedCalls :
          Serve(AddOut(handler, <<Opened(NextAt(handler), kind)>>))
    /\ UNCHANGED <<callBackend, callStage, attempt, final, idCameLate>>

KindOf(h, at) == h.out[CHOOSE i \in Openings(h) : h.out[i].at = at].kind
CopyDelta ==
    /\ Serving("anthropic") /\ InBlock(handler)
    /\ LET at == LastAt(handler)
           kind == KindOf(handler, at)
           p == NextPiece(IF kind = <<"text">> THEN "word" ELSE "reason")
       IN  Serve([AddOut(handler, <<BlockDelta(at, <<p>>)>>) EXCEPT
                     !.body = IF kind = <<"text">> THEN Append(@, p) ELSE @])
    /\ UNCHANGED <<callBackend, callStage, attempt, final, idCameLate>>

CopyStop ==
    /\ callStage = "streaming" /\ callBackend = "anthropic" /\ InBlock(handler)
    /\ handler' = AddOut(handler, <<Closed(LastAt(handler))>>)
    /\ UNCHANGED <<callBackend, callStage, attempt, served, final, idCameLate>>

\* The message is assembled from the SDK's snapshot.
Assembled(h) ==
    [text |-> PiecesOf(h.body), failed |-> FALSE,
     calls |-> {ev.kind : ev \in {h.out[i] : i \in Openings(h)}} \cap CopiedCalls]
FinalMessage ==
    /\ callStage = "streaming" /\ callBackend = "anthropic" /\ ~InBlock(handler)
    /\ handler' = AddOut(handler, <<[e |-> "assistant"]>>)
    /\ final' = Assembled(handler)
    /\ callStage' = "over"
    /\ UNCHANGED <<callBackend, attempt, served, idCameLate>>
-----------------------------------------------------------------------------
\* What is tried again: a call refused with a transient status by either
\* service, a connection that fails, before or within the stream, only by the
\* compatible backend.
Again ==
    /\ attempt < MaxCallAttempts
    /\ attempt' = attempt + 1
    /\ callStage' = "asking"
    /\ handler' = FreshHandler
    /\ idCameLate' = {}
    /\ UNCHANGED <<callBackend, served, final>>

GiveUp ==
    /\ callStage' = "over"
    /\ final' = Failure
    /\ handler' = AddOut(handler, <<[e |-> "assistant"]>>)
    /\ UNCHANGED <<callBackend, attempt, served, idCameLate>>

RetryRefused == callStage = "asking" /\ Again
Refused == callStage = "asking" /\ GiveUp
RetryConnection == callStage \in {"asking", "streaming"} /\ callBackend = "compatible" /\ Again
ConnectionFails ==
    /\ callStage \in {"asking", "streaming"}
    /\ callBackend = "compatible" => attempt = MaxCallAttempts
    /\ GiveUp

\* The turn stops reading: cancelled, timed out or out of wall clock.
LeaveStream ==
    /\ callStage \in {"asking", "streaming"}
    /\ callStage' = "left"
    /\ UNCHANGED <<callBackend, attempt, served, handler, final, idCameLate>>

CallEvents == TextArrives \/ ReasoningArrives \/ CallArrives \/ CopyStart \/ CopyDelta \/ CopyStop
CallNext ==
    \/ Accepted \/ CallEvents \/ StreamEnds \/ FinalMessage
    \/ RetryRefused \/ Refused \/ RetryConnection \/ ConnectionFails \/ LeaveStream

CallSpec == CallInit /\ [][CallNext]_callVars
-----------------------------------------------------------------------------
\* A call that was announced while it streamed is in the message that ends the
\* call, under the id it was announced with unless its id came later.
AnnouncedCallsKept ==
    callStage = "over" /\ ~final.failed =>
        \A i \in DOMAIN handler.out : handler.out[i].e = "pending" =>
            \/ handler.out[i].id \in final.calls
            \/ handler.out[i].slot \in idCameLate /\ <<"given", handler.out[i].slot>> \in final.calls
=============================================================================
