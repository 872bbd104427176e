----------------------------- MODULE MCServices -----------------------------
(* Thirteen services of the server, each a state machine of its own that    *)
(* shares no variable with the others.  A behaviour exercises one of them,  *)
(* its focus, while the others keep one initial state: the states of the    *)
(* run are the sum of theirs and not the product.                           *)
EXTENDS ChatSessions, SdkSession, ProposedActions, AutomationRuns, Sandboxes,
        RateLimits, LookupCaches, McpServers, ModelRequests, VisibleText,
        ModelStream, ToolSurface, HostTools

CONSTANT Focuses  \* the services a run exercises

VARIABLE focus

vars == <<focus, chatVars, sdkVars, actionVars, runVars, boxVars, rateVars,
          lookVars, mcpVars, requestVars, textVars, callVars, toolVars, hostVars>>
-----------------------------------------------------------------------------
(* Chat: three requests of one owner on one chat and one of another owner,  *)
(* against a store that keeps one session; or, on Redis, two requests.      *)
FirstChat == "k1"
IdsOfChats == [r \in ChatReqs |-> IF r = "c4" THEN NoChat ELSE FirstChat]
OwnersOfChats == [r \in ChatReqs |-> IF r = "c3" THEN "o2" ELSE "o1"]
-----------------------------------------------------------------------------
(* Actions: three clicks on one proposal, one of them with overrides, and   *)
(* one on a proposal whose tool is not registered.                          *)
ActionOfClick == [c \in Clicks |-> IF c = "b4" THEN "a2" ELSE "a1"]
-----------------------------------------------------------------------------
(* Automations: a tick and two triggers of one process, the second without  *)
(* the secret of the second automation.                                     *)
FirstAuto == [t \in Ticks |-> "u1"]
SameWorker == [c \in Ticks \cup Triggers |-> "w1"]
-----------------------------------------------------------------------------
(* Sandboxes: a warm-up and tool calls of one user; "h1" and "h2" are made  *)
(* by a turn on the host.                                                   *)
KindOfFileCall == [c \in FileCalls |->
    CASE c = "f1" -> "warm" [] c \in {"f4", "h1"} -> "write" [] c = "f5" -> "read"
      [] c = "f6" -> "shell" [] c = "f7" -> "glob" [] c = "f8" -> "grep" [] OTHER -> "edit"]
FourFilePlans == {{"f1", "f2", "f3", "h1"}, {"f2", "f4", "f5", "h2"},
                  {"f2", "f6", "h2"}, {"f7", "f8"}}
UserOfFileCall == [c \in FileCalls |-> "v1"]
-----------------------------------------------------------------------------
(* Rate limiter: three requests of a user, one known by its address only.   *)
SentBy == [r \in RateReqs |->
    IF r = "q4" THEN [user |-> Nobody, org |-> Nobody, peer |-> "p", forwarded |-> "i"]
    ELSE [user |-> "u", org |-> "o", peer |-> "p", forwarded |-> Nobody]]
-----------------------------------------------------------------------------
(* Caches: lookups of one key of a cache.                                   *)
KeyOfLookup == [q \in Lookups |-> "k1"]
CacheOfKey == [k \in LookKeys |-> IF k = "k1" THEN "connections" ELSE "learned"]
OneTick == [c \in Caches |-> 1]
-----------------------------------------------------------------------------
(* MCP: two servers and a malformed item, in lists of up to three.          *)
ToolsOfServer == [i \in McpItems |->
    CASE i = "x" -> <<"x1">> [] i = "y" -> <<"y1", "y2">> [] OTHER -> <<>>]
-----------------------------------------------------------------------------
(* Requests to a model: long results come from calls made at messages 2, 4. *)
EarlyCalls == {<<2, 1>>, <<4, 1>>}
-----------------------------------------------------------------------------
(* Texts: two of these parts, with a word between them or without.          *)
Parts == {<<"word">>, <<"brace", "body">>, <<"brace", "to", "ol", "body">>,
          <<"[", "Call", "brace", "body">>, <<"[", "Call", "word">>,
          <<"<", "angle", "brace", "body", "</>">>, <<"<", "angle", "brace", "body">>,
          <<"[", "TOOL_CALL", "/TOOL_CALL">>,
          <<"[", "TOOL_CALL", "brace", "to", "ol", "body", "/TOOL_CALL">>,
          <<"[", "TOOL_CALL">>, <<"brace", "to", "ol">>}
PairsOfParts == {p \o between \o q : p, q \in Parts, between \in {<<>>, <<"word">>}}
-----------------------------------------------------------------------------
(* Tool surfaces: four configurations; one toolkit fills the listed page.   *)
SetupFor(m, c, tg, bx, ag, ex, more) ==
    [mode |-> m, composio |-> c, target |-> tg, box |-> bx, agents |-> ag, extra |-> ex,
     askUser |-> more, propose |-> TRUE, exa |-> more, firecrawl |-> TRUE]
FourSetups ==
    {SetupFor("default", "direct", "local", FALSE, TRUE, {"Look"}, TRUE),
     SetupFor("default", "worker", "sandbox", FALSE, TRUE, {"Bash"}, FALSE),
     SetupFor("plan", "worker", "sandbox", TRUE, TRUE, {"Look", "Task"}, TRUE),
     SetupFor("default", "off", "sandbox", TRUE, TRUE, {"Task"}, FALSE)}
FieldsOfAgents == {{}, {"Read", "Bash"}, {"Task"}}
RowOf(slug, kit) == [slug |-> slug, toolkit |-> kit]
SentRows == <<RowOf("G_SEND", "g")>>
AllRows == <<RowOf("G_1", "g"), RowOf("G_2", "g"), RowOf("G_SEND", "g"), RowOf("G_3", "g"),
             RowOf("C_1", "c")>>
-----------------------------------------------------------------------------
(* Host tools: a turn "m" with a sub-agent "s", beside another turn "o".    *)
HostCallsMade == {"task", "t1", "t2", "t3", "sh1", "sh2", "sh3", "r1", "r2", "r3",
                  "w1", "e1", "g1", "g2"}
MakerOf == [c \in LocalCalls |->
    CASE c \in {"task", "t1", "sh1", "sh3", "e1"} -> "m"
      [] c \in {"t2", "sh2", "g1"} -> "s"
      [] OTHER -> "o"]
Nested == [c \in LocalCalls |-> IF c = "task" THEN "s" ELSE NoRun]
Ask(tool) == [tool |-> tool, inside |-> TRUE]
Requests == [c \in LocalCalls |->
    CASE c = "task" -> Ask("Task")
      [] c = "t1" -> [tool |-> "TodoWrite", merge |-> TRUE, items |-> {1}]
      [] c = "t2" -> [tool |-> "TodoWrite", merge |-> FALSE, items |-> {2}]
      [] c = "t3" -> [tool |-> "TodoWrite", merge |-> TRUE, items |-> {1, 2}]
      [] c = "sh1" -> [tool |-> "Bash", forks |-> TRUE, dangerous |-> FALSE]
      [] c = "sh2" -> [tool |-> "Bash", forks |-> FALSE, dangerous |-> FALSE]
      [] c = "sh3" -> [tool |-> "Bash", forks |-> FALSE, dangerous |-> TRUE]
      [] c \in {"r1", "r2", "r3"} -> Ask("Read")
      [] c = "w1" -> [tool |-> "Write", inside |-> TRUE, lines |-> <<"a">>]
      [] c = "e1" -> [tool |-> "Edit", inside |-> TRUE, old |-> "b", new |-> "x"]
      [] c = "g1" -> [tool |-> "Grep", inside |-> TRUE, tree |-> <<<<1, 2, 1>>, <<1>>>>]
      [] c = "g2" -> [tool |-> "Glob", inside |-> FALSE, matches |-> 2]]
ThreePlans == {{"task", "t1", "sh1", "t2", "t3"}, {"r1", "r2", "r3", "e1", "w1"},
               {"task", "sh2", "sh3", "g1", "g2"}}
ThreeLines == <<"a", "b", "c">>
-----------------------------------------------------------------------------
(* A component out of focus keeps one of its initial states.                *)
Settled ==
    /\ IF focus = "box" THEN TRUE
       ELSE boxCache = {} /\ boxPc = [c \in FileCalls |-> IF c \in {"f1", "f2", "f3", "h1"}
                                                          THEN "new" ELSE "cancelled"]
    /\ IF focus = "mcp" THEN TRUE ELSE mcpConfigs = <<>>
    /\ IF focus = "request" THEN TRUE ELSE compact = TRUE
    /\ IF focus = "text" THEN TRUE ELSE said = <<"word", "word">>
    /\ IF focus = "call" THEN TRUE ELSE callBackend = "anthropic"
    /\ IF focus = "tools" THEN TRUE
       ELSE setup = [t \in ToolTurns |-> CHOOSE s \in Setups : s.mode = "plan"]
    /\ IF focus = "host" THEN TRUE
       ELSE /\ localCall = [c \in LocalCalls |-> IF c \in {"task", "t1", "sh1", "t2", "t3"}
                                                 THEN "waiting" ELSE "never"]
            /\ paging = [r \in LocalRuns |-> FirstPage(0)]

ServicesInit ==
    /\ focus \in Focuses
    /\ Settled
    /\ ChatInit /\ SdkInit /\ ActionInit /\ AutoRunInit /\ BoxInit /\ RateInit
    /\ LookupInit /\ McpInit /\ RequestInit /\ TextInit /\ CallInit /\ ToolInit /\ HostInit

Others(name) ==
    /\ UNCHANGED focus
    /\ IF name = "chat" THEN TRUE ELSE UNCHANGED chatVars
    /\ IF name = "sdk" THEN TRUE ELSE UNCHANGED sdkVars
    /\ IF name = "action" THEN TRUE ELSE UNCHANGED actionVars
    /\ IF name = "run" THEN TRUE ELSE UNCHANGED runVars
    /\ IF name = "box" THEN TRUE ELSE UNCHANGED boxVars
    /\ IF name = "rate" THEN TRUE ELSE UNCHANGED rateVars
    /\ IF name = "look" THEN TRUE ELSE UNCHANGED lookVars
    /\ IF name = "mcp" THEN TRUE ELSE UNCHANGED mcpVars
    /\ IF name = "request" THEN TRUE ELSE UNCHANGED requestVars
    /\ IF name = "text" THEN TRUE ELSE UNCHANGED textVars
    /\ IF name = "call" THEN TRUE ELSE UNCHANGED callVars
    /\ IF name = "tools" THEN TRUE ELSE UNCHANGED toolVars
    /\ IF name = "host" THEN TRUE ELSE UNCHANGED hostVars

ServicesNext ==
    \/ focus = "chat" /\ ChatNext /\ Others("chat")
    \/ focus = "sdk" /\ SdkNext /\ Others("sdk")
    \/ focus = "action" /\ ActionNext /\ Others("action")
    \/ focus = "run" /\ AutoRunNext /\ Others("run")
    \/ focus = "box" /\ BoxNext /\ Others("box")
    \/ focus = "rate" /\ RateNext /\ Others("rate")
    \/ focus = "look" /\ LookupNext /\ Others("look")
    \/ focus = "mcp" /\ McpNext /\ Others("mcp")
    \/ focus = "request" /\ RequestNext /\ Others("request")
    \/ focus = "text" /\ TextNext /\ Others("text")
    \/ focus = "call" /\ CallNext /\ Others("call")
    \/ focus = "tools" /\ ToolNext /\ Others("tools")
    \/ focus = "host" /\ HostNext /\ Others("host")

ServicesSpec == ServicesInit /\ [][ServicesNext]_vars
=============================================================================
