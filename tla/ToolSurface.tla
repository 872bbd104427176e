---------------------------- MODULE ToolSurface ----------------------------
(***************************************************************************)
(* Which tools a turn and its sub-agents are offered: koraku/tools/        *)
(* registry.py, Agent._setup_active_tools, koraku/agent/permissions.py,    *)
(* the tool lists of koraku/agent/delegation.py and budget.py, and the     *)
(* selection of Composio actions in koraku/integrations/composio.py.       *)
(*                                                                         *)
(* Turns of several Koraku objects share a process: each runs under its    *)
(* own settings, but the list of available tools is built once, by the     *)
(* first of them, and kept for all.  A tool is its name and where it comes *)
(* from.  What a tool does, and the approvals, are ToolExecution's.        *)
(***************************************************************************)
EXTENDS Naturals, FiniteSets, SequencesExt

CONSTANTS ToolTurns,    \* turns of one process
          Setups,       \* what a turn may be configured with
          AgentTools,   \* the tools fields of AgentDefinitions ({}: not given)
          Toolkits,     \* active Composio toolkits, in the order of the connections
          PriorityRows, \* actions loaded by slug
          ListedRows,   \* actions of the toolkits as the service lists them
          ToolsLimit,   \* composio_tools_limit
          CapFloor,     \* 8 in the code
          CapCeiling,   \* 120 in the code
          LoadFailures  \* whether a request for actions may fail: a set of BOOLEANs

ASSUME ToolSurfaceAssumption ==
    /\ ToolsLimit \in Nat /\ CapFloor \in Nat /\ CapCeiling \in Nat
    /\ LoadFailures \subseteq BOOLEAN
    /\ ToolTurns \cap {"process", "composio", "delegation"} = {}
    /\ \A r \in Range(PriorityRows) \cup Range(ListedRows) :
          DOMAIN r = {"slug", "toolkit"}

VARIABLES setup,         \* the settings and run context of a turn
          surface,       \* "new", "loading", "ready" or "over"
          toolsCache,    \* _AVAILABLE_TOOLS_CACHE ({}: not built)
          offered,       \* active_tools of a turn
          worker,        \* the tools of the sub-agent a turn is running
          cacheBuilder   \* history: the turn whose settings built the cache

toolVars == <<setup, surface, toolsCache, offered, worker, cacheBuilder>>

Named(names, origin) == {[name |-> n, from |-> origin] : n \in names}
NamesIn(tools) == {x.name : x \in tools}
Keep(tools, names) == {x \in tools : x.name \in names}
Omit(tools, names) == {x \in tools : x.name \notin names}

NoTurn == "no turn"
TaskTool == [name |-> "Task", from |-> "delegation"]
ComposioRun == [name |-> "ComposioRun", from |-> "delegation"]
-----------------------------------------------------------------------------
\* The lists of the source.
BaseTools == {"Read", "Write", "Edit", "Bash", "Glob", "Grep", "TodoWrite",
              "WebSearch", "WebFetch"}
MemoryTools == {"MemorySearch", "MemorySave"}
AutomationTools == {"AutomationsList", "AutomationsCreate", "AutomationsUpdate",
                    "AutomationsDelete"}
ReadOnlyTools == {"AskUser", "Read", "Glob", "Grep", "WebSearch", "WebFetch"}
PlanModeTools == ReadOnlyTools \cup {"TodoWrite"}
StrippedForWorkers == (BaseTools \cup MemoryTools \cup AutomationTools) \cup {"ComposioRun"}

\* _build_available_tools, under settings s.
BuildTools(s) ==
    Named({n \in BaseTools : (n = "WebSearch" => s.exa) /\ (n = "WebFetch" => s.firecrawl)}
          \cup MemoryTools \cup AutomationTools
          \cup (IF s.askUser THEN {"AskUser"} ELSE {})
          \cup (IF s.propose THEN {"ProposeAction"} ELSE {}), "process")

\* available_tools: built by the first who asks.
Available(s) == IF toolsCache = {} THEN BuildTools(s) ELSE toolsCache

\* tools_for_execution_target: no shell on the host of a sandboxed turn.
ForTarget(tools, s) ==
    IF s.target = "sandbox" /\ ~s.box THEN Omit(tools, {"Bash"}) ELSE tools

\* filter_tools_for_permission_mode and tool_blocked_message.
Allowed(mode) == IF mode = "plan" THEN PlanModeTools ELSE ReadOnlyTools
Restricted(mode) == mode \in {"plan", "read_only"}
Filtered(tools, mode) == IF Restricted(mode) THEN Keep(tools, Allowed(mode)) ELSE tools
BlockedBy(tool, mode) == Restricted(mode) /\ tool.name \notin Allowed(mode)
-----------------------------------------------------------------------------
\* _build_dynamic_composio_tools_for_slugs: every toolkit gets the same share
\* of the limit, after the actions loaded by slug.  The service answers one
\* request for all toolkits, and no more than twice the limit.
Cap == LET low == IF ToolsLimit < CapCeiling THEN ToolsLimit ELSE CapCeiling
       IN  IF low < CapFloor THEN CapFloor ELSE low

OfToolkits(rows, kits) == SelectSeq(rows, LAMBDA r : r.toolkit \in kits)
ListedPage(kits) ==
    LET all == OfToolkits(ListedRows, kits)
    IN  SubSeq(all, 1, IF Len(all) < 2 * Cap THEN Len(all) ELSE 2 * Cap)

Fresh(taken, r) == \A i \in DOMAIN taken : taken[i].slug # r.slug
AddPriority(taken, r) == IF Fresh(taken, r) THEN Append(taken, r) ELSE taken
Share(kits) == LET each == Cap \div Cardinality(kits) IN IF each = 0 THEN 1 ELSE each
AddListed(share, taken, r) ==
    IF Fresh(taken, r) /\ Len(OfToolkits(taken, {r.toolkit})) < share
    THEN Append(taken, r) ELSE taken

\* Either request may fail; what the other brought is kept.
DynamicTools(kits, slugsFail, listFails) ==
    LET first == IF slugsFail THEN <<>>
                 ELSE FoldLeft(AddPriority, <<>>, OfToolkits(PriorityRows, kits))
        rows == IF listFails THEN first
                ELSE FoldLeft(LAMBDA taken, r : AddListed(Share(kits), taken, r), first, ListedPage(kits))
    IN  Named({r.slug : r \in Range(rows)}, "composio")

\* build_dynamic_composio_tools / build_dynamic_composio_tools_for_toolkits.
LoadComposio(kits, slugsFail, listFails) ==
    IF kits \cap Toolkits = {} THEN {}
    ELSE DynamicTools(kits \cap Toolkits, slugsFail, listFails)
-----------------------------------------------------------------------------
ToolTypeOK ==
    /\ setup \in [ToolTurns -> Setups]
    /\ surface \in [ToolTurns -> {"new", "loading", "ready", "over"}]
    /\ \A t \in ToolTurns : IsFiniteSet(offered[t]) /\ IsFiniteSet(worker[t])

ToolInit ==
    /\ setup \in [ToolTurns -> Setups]
    /\ surface = [t \in ToolTurns |-> "new"]
    /\ toolsCache = {}
    /\ offered = [t \in ToolTurns |-> {}]
    /\ worker = [t \in ToolTurns |-> {}]
    /\ cacheBuilder = NoTurn

\* What a list handed out becomes when its reader appends to it: nothing, since
\* it is a copy.  (The mutant hands out the cache.)
SharedList(tools) == tools
CopiedList(tools) == toolsCache

\* _setup_active_tools up to the await in which Composio is asked.
StartSetup(t) ==
    /\ surface[t] = "new"
    /\ surface' = [surface EXCEPT ![t] = "loading"]
    /\ toolsCache' = Available(setup[t])
    /\ cacheBuilder' = IF toolsCache = {} THEN t ELSE cacheBuilder
    /\ offered' = [offered EXCEPT ![t] = ForTarget(Available(setup[t]), setup[t])]
    /\ UNCHANGED <<setup, worker>>

\* Extra tools (the embedder's, then those of MCP servers) come unless their
\* name is taken.
WithExtras(tools, t) ==
    tools \cup Named(setup[t].extra \ NamesIn(tools), t)

\* Task joins after the filter of the permission mode.
WithTask(tools, s) ==
    IF s.agents /\ "Task" \notin NamesIn(tools) THEN tools \cup {TaskTool} ELSE tools

\* Composio's actions, or the tool that delegates to them.
Integrations(s, slugsFail, listFails) ==
    (IF s.composio = "worker" THEN {ComposioRun} ELSE {}) \cup
    (IF s.composio = "direct" THEN LoadComposio(Toolkits, slugsFail, listFails) ELSE {})

\* The rest: Composio's, the extra tools, the filter, Task.  An exception of
\* Composio is a warning.
FinishSetup(t) ==
    /\ surface[t] = "loading"
    /\ \E slugsFail, listFails \in LoadFailures :
          LET s == setup[t]
              extended == WithExtras(offered[t] \cup Integrations(s, slugsFail, listFails), t)
          IN  /\ offered' = [offered EXCEPT ![t] = WithTask(Filtered(extended, s.mode), s)]
              /\ toolsCache' = CopiedList(extended)
    /\ surface' = [surface EXCEPT ![t] = "ready"]
    /\ UNCHANGED <<setup, worker, cacheBuilder>>

\* A call of another tool changes no surface, and neither does a refused one.
Callable(t, tool) ==
    surface[t] = "ready" /\ tool \in offered[t] /\ ~BlockedBy(tool, setup[t].mode)

\* _tools_for_task_subagent, at the default nesting limit: no delegation.
TaskSubagentTools(s, names) ==
    LET pool == Omit(ForTarget(Available(s), s), {"Task", "ComposioRun"})
    IN  IF names = {} THEN pool ELSE Keep(pool, names)

DelegateTask(t) ==
    /\ worker[t] = {} /\ Callable(t, TaskTool)
    /\ \E names \in AgentTools :
          /\ TaskSubagentTools(setup[t], names) # {}
          /\ worker' = [worker EXCEPT ![t] = TaskSubagentTools(setup[t], names)]
    /\ UNCHANGED <<setup, surface, toolsCache, offered, cacheBuilder>>

\* tools_for_composio_worker: the class of the goal narrows the surface.
WorkerTools(base, actions, goal) ==
    CASE goal = "simple"  -> actions
      [] goal = "compose" -> Omit(base \cup actions, StrippedForWorkers)
      [] goal = "full"    -> Omit(base \cup actions, {"ComposioRun"})

DelegateComposio(t) ==
    /\ worker[t] = {} /\ Callable(t, ComposioRun)
    /\ \E kits \in (SUBSET Toolkits) \ {{}}, slugsFail, listFails \in LoadFailures,
          goal \in {"simple", "compose", "full"} :
          LET actions == LoadComposio(kits, slugsFail, listFails)
              base == ForTarget(Available(setup[t]), setup[t])
          IN  /\ actions # {}
              /\ worker' = [worker EXCEPT ![t] = WorkerTools(base, actions, goal)]
    /\ UNCHANGED <<setup, surface, toolsCache, offered, cacheBuilder>>

WorkerEnds(t) ==
    /\ worker[t] # {}
    /\ worker' = [worker EXCEPT ![t] = {}]
    /\ UNCHANGED <<setup, surface, toolsCache, offered, cacheBuilder>>

ToolTurnEnds(t) ==
    /\ surface[t] \in {"loading", "ready"}
    /\ surface' = [surface EXCEPT ![t] = "over"]
    /\ offered' = [offered EXCEPT ![t] = {}]
    /\ worker' = [worker EXCEPT ![t] = {}]
    /\ UNCHANGED <<setup, toolsCache, cacheBuilder>>

ToolNext == \E t \in ToolTurns :
    \/ StartSetup(t) \/ FinishSetup(t) \/ DelegateTask(t) \/ DelegateComposio(t)
    \/ WorkerEnds(t) \/ ToolTurnEnds(t)

ToolSpec == ToolInit /\ [][ToolNext]_toolVars
-----------------------------------------------------------------------------
\* A tool a turn or its sub-agent is offered is its own (its extra tools, the
\* actions of its integrations, delegation) or was built for the process; it
\* is never another turn's extra tool, nor a shell on the host of a sandboxed
\* turn.
OwnToolsOnly ==
    \A t \in ToolTurns : \A x \in offered[t] \cup worker[t] :
        /\ x.from \in {t, "process", "composio", "delegation"}
        /\ x.from = "process" /\ x.name = "Bash" => setup[t].target # "sandbox" \/ setup[t].box

\* Turns under equal settings have equal tools of the process; a turn lacks one
\* its settings enable, or has one they do not, only when a turn under other
\* settings built the list.
StaleToolsExplained ==
    \A t \in ToolTurns :
        surface[t] = "ready" /\ setup[t].mode = "default" =>
            \/ {x \in offered[t] : x.from = "process"} = ForTarget(BuildTools(setup[t]), setup[t])
            \/ BuildTools(setup[cacheBuilder]) # BuildTools(setup[t])
=============================================================================
