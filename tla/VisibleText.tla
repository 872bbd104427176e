----------------------------- MODULE VisibleText -----------------------------
(***************************************************************************)
(* Tool calls written into the text of a model that has no tool channel:   *)
(* the filter that keeps them out of the text shown while it streams       *)
(* (koraku/llm/sanitize.py), and the parser that finds them when the text  *)
(* is complete (koraku/llm/tool_call_parse.py).                            *)
(*                                                                         *)
(* A text is a sequence of pieces: a word, and the pieces of the four ways *)
(* to write a call:                                                        *)
(*     {  "to  ol":  json}               [  Call X]:  {  json}             *)
(*     <  tool_call>[X]  {  json}  </>   [  TOOL_CALL]  ...  [/TOOL_CALL]   *)
(* Chunks of the stream end between pieces; of the ends inside a piece the *)
(* one inside {"tool": is kept.  White space and Ruby arrows are left out; *)
(* "brace" is {, and "body" is json}, the rest of any object.  The filter's*)
(* loop is walked one turn at a time, on positions of the text.            *)
(***************************************************************************)
EXTENDS Integers, Sequences, FiniteSets, SequencesExt

CONSTANTS Texts,    \* texts a model may write
          MaxChunk  \* bound: pieces in a chunk

VARIABLES said,     \* the text of the model, all of it
          fed,      \* how many of its pieces have come
          textBuf,  \* _buf: positions of the text
          shown,    \* what was emitted: positions of the text
          textMode, \* between chunks, in feed, in flush, or over
          cutAfter  \* positions that ended a chunk (history variable)

textVars == <<said, fed, textBuf, shown, textMode, cutAfter>>

Pieces == {"word", "brace", "to", "ol", "body", "[", "Call", "<", "angle", "</>",
           "TOOL_CALL", "/TOOL_CALL"}

ASSUME TextAssumption == Texts \subseteq Seq(Pieces) /\ MaxChunk \in Nat

TextTypeOK ==
    /\ said \in Seq(Pieces) /\ fed \in 0..Len(said)
    /\ textBuf \in Seq(1..fed) /\ shown \in Seq(1..fed)
    /\ textMode \in {"idle", "feed", "flush", "over"}
    /\ cutAfter \subseteq 1..fed

TextInit ==
    /\ said \in Texts
    /\ fed = 0
    /\ textBuf = <<>>
    /\ shown = <<>>
    /\ textMode = "idle"
    /\ cutAfter = {}
-----------------------------------------------------------------------------
\* The pieces at the positions of a buffer.
PiecesAt(buf) == [n \in DOMAIN buf |-> said[buf[n]]]
StartsWith(s, prefix) == Len(prefix) <= Len(s) /\ SubSeq(s, 1, Len(prefix)) = prefix
After(s, n) == SubSeq(s, n + 1, Len(s))
FirstAt(s, piece) == {n \in DOMAIN s : s[n] = piece /\ \A m \in 1..(n - 1) : s[m] # piece}

JsonHead == <<"brace", "to", "ol">>
CallHead == <<"[", "Call">>
AngleHead == <<"<", "angle">>
BracketHead == <<"[", "TOOL_CALL">>
Heads == {JsonHead, CallHead, AngleHead, BracketHead}

\* raw_decode: how many pieces the object at the start has, 0 if there is none.
Decode(s) ==
    IF StartsWith(s, <<"brace", "to", "ol", "body">>) THEN 4
    ELSE IF StartsWith(s, <<"brace", "body">>) THEN 2 ELSE 0
IsToolObject(s) == Decode(s) = 4

\* The four strippers: how many leading pieces to drop, Hold when more must
\* come first, or NoMatch.
Hold == -1
NoMatch == -2

StripBracket(s, eof) ==
    LET close == FirstAt(s, "/TOOL_CALL")
    IN IF ~StartsWith(s, BracketHead) THEN NoMatch
       ELSE IF close # {} THEN CHOOSE n \in close : TRUE
       ELSE IF eof THEN Len(s) ELSE Hold

StripCall(s, eof) ==
    LET rest == After(s, 2)
    IN IF ~StartsWith(s, CallHead) THEN NoMatch
       ELSE IF rest # <<>> /\ Decode(rest) > 0 THEN 2 + Decode(rest)
       ELSE IF eof THEN Len(s)
       ELSE IF rest = <<>> \/ Head(rest) = "brace" THEN Hold
       ELSE 2

StripAngle(s, eof) ==
    LET rest == After(s, 2)
        tail == After(rest, Decode(rest))
    IN IF ~StartsWith(s, AngleHead) THEN NoMatch
       ELSE IF rest # <<>> /\ Decode(rest) > 0
            THEN IF StartsWith(tail, <<"</>">>) THEN 3 + Decode(rest)
                 ELSE IF eof THEN 2 + Decode(rest) ELSE Hold
       ELSE IF eof THEN Len(s)
       ELSE IF rest = <<>> \/ Head(rest) = "brace" THEN Hold
       ELSE 2

StripJson(s, eof) ==
    IF IsToolObject(s) THEN 4
    ELSE IF StartsWith(s, JsonHead) THEN IF eof THEN Len(s) ELSE Hold
    ELSE NoMatch

\* The strippers are tried in this order.
Strip(s, eof) ==
    IF StripBracket(s, eof) # NoMatch THEN StripBracket(s, eof)
    ELSE IF StripCall(s, eof) # NoMatch THEN StripCall(s, eof)
    ELSE IF StripAngle(s, eof) # NoMatch THEN StripAngle(s, eof)
    ELSE StripJson(s, eof)

\* _first_tool_marker: where a head begins.
Markers(s) == {n \in DOMAIN s : \E head \in Heads : StartsWith(After(s, n - 1), head)}

\* The four _split_partial: how many pieces at the end may begin a head.  A
\* brace alone does not count.  Mutant: nor do a brace and the first letters.
OnlyOpeners(s) ==
    IF s # <<>> /\ Last(s) \in {"[", "<"} THEN 1 ELSE 0
Partial(s) ==
    IF Len(s) >= 2 /\ After(s, Len(s) - 2) = <<"brace", "to">> THEN 2
    ELSE IF s # <<>> /\ Last(s) \in {"[", "<"} THEN 1 ELSE 0
-----------------------------------------------------------------------------
\* feed is called with the next chunk.
FeedChunk ==
    /\ textMode = "idle"
    /\ \E n \in 1..MaxChunk :
         /\ fed + n <= Len(said)
         /\ fed' = fed + n
         /\ textBuf' = textBuf \o [k \in 1..n |-> fed + k]
         /\ cutAfter' = cutAfter \cup {fed + n}
    /\ textMode' = "feed"
    /\ UNCHANGED <<said, shown>>

FlushText ==
    /\ textMode = "idle" /\ fed = Len(said)
    /\ textMode' = "flush"
    /\ UNCHANGED <<said, fed, textBuf, shown, cutAfter>>

Scanning == textMode \in {"feed", "flush"} /\ textBuf # <<>>
Eof == textMode = "flush"
Found == Strip(PiecesAt(textBuf), Eof)

StripLeading ==
    /\ Scanning /\ Found >= 0
    /\ textBuf' = After(textBuf, Found)
    /\ UNCHANGED <<said, fed, shown, textMode, cutAfter>>

\* An incomplete call at the front waits for the next chunk.
HoldLeading ==
    /\ Scanning /\ Found = Hold
    /\ textMode' = "idle"
    /\ UNCHANGED <<said, fed, textBuf, shown, cutAfter>>

\* The text before the first head is shown; without one, and before the end,
\* all of it but what may begin a head.
Pass(n) == /\ shown' = shown \o SubSeq(textBuf, 1, n)
           /\ textBuf' = After(textBuf, n)

ShowPrefix ==
    /\ Scanning /\ Found = NoMatch
    /\ \E n \in Markers(PiecesAt(textBuf)) :
         /\ \A m \in Markers(PiecesAt(textBuf)) : n <= m
         /\ Pass(n - 1)
    /\ UNCHANGED <<said, fed, textMode, cutAfter>>

ShowRest ==
    /\ Scanning /\ Found = NoMatch
    /\ Markers(PiecesAt(textBuf)) = {}
    /\ Pass(Len(textBuf) - (IF Eof THEN 0 ELSE Partial(PiecesAt(textBuf))))
    /\ textMode' = IF Eof THEN "flush" ELSE "idle"
    /\ UNCHANGED <<said, fed, cutAfter>>

LoopEnds ==
    /\ textMode \in {"feed", "flush"} /\ textBuf = <<>>
    /\ textMode' = IF Eof THEN "over" ELSE "idle"
    /\ UNCHANGED <<said, fed, textBuf, shown, cutAfter>>

TextNext ==
    \/ FeedChunk \/ FlushText \/ StripLeading \/ HoldLeading \/ ShowPrefix \/ ShowRest
    \/ LoopEnds

TextSpec == TextInit /\ [][TextNext]_textVars
-----------------------------------------------------------------------------
\* parse_tool_calls_from_text, on the whole text: where each scanner finds a
\* call, from its first position to its last.
HeadsAt(head) == {n \in DOMAIN said : StartsWith(After(said, n - 1), head)}

BracketCalls ==
    {<<n, n + 6>> : n \in {m \in HeadsAt(BracketHead) :
        /\ IsToolObject(After(said, m + 1))
        /\ StartsWith(After(said, m + 5), <<"/TOOL_CALL">>)}}

AngleCalls ==
    {<<n, n + 1 + Decode(After(said, n + 1))
            + (IF StartsWith(After(said, n + 1 + Decode(After(said, n + 1))), <<"</>">>) THEN 1 ELSE 0)>> :
        n \in {m \in HeadsAt(AngleHead) : Decode(After(said, m + 1)) > 0}}

CallCalls ==
    {<<n, n + 1 + Decode(After(said, n + 1))>> :
        n \in {m \in HeadsAt(CallHead) : Decode(After(said, m + 1)) > 0}}

\* A tool object inside a call found before is part of it.
CompactCalls ==
    {<<n, n + 3>> : n \in {m \in HeadsAt(JsonHead) :
        /\ IsToolObject(After(said, m - 1))
        /\ ~\E c \in BracketCalls \cup AngleCalls \cup CallCalls : m \in c[1]..c[2]}}

ParsedCalls == BracketCalls \cup AngleCalls \cup CallCalls \cup CompactCalls

\* The blocks of the message: the calls, and the text around them.
CallAt(n) == \E c \in ParsedCalls : n \in c[1]..c[2]
ParsedText == {n \in DOMAIN said : ~CallAt(n)}
-----------------------------------------------------------------------------
ShownAt(n) == \E k \in DOMAIN shown : shown[k] = n

\* Filter and parser agree: a piece of a call that will be run is never shown
\* unless the chunk before it had ended in a bare brace, and a piece that is
\* no part of a call is hidden only behind a head the model left incomplete.
HeadBefore(n) == \E m \in 1..n : \E head \in Heads : StartsWith(After(said, m - 1), head)
FilterMatchesParser ==
    /\ \A n \in DOMAIN shown : CallAt(shown[n]) =>
          \E m \in 1..shown[n] : said[m] = "brace" /\ m \in cutAfter
    /\ textMode = "over" => \A n \in ParsedText : ShownAt(n) \/ HeadBefore(n)
=============================================================================
