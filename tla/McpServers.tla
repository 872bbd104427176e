----------------------------- MODULE McpServers -----------------------------
(***************************************************************************)
(* The MCP servers of one run (koraku/mcp/config.py, koraku/mcp/loader.py) *)
(* and the part of the run that starts and closes them                     *)
(* (koraku/agent/run.py).  Each server is a child process behind two       *)
(* asynchronous contexts, which its exit stack leaves when it is closed.   *)
(***************************************************************************)
EXTENDS Naturals, Sequences, FiniteSets

CONSTANTS McpItems,    \* items of the servers list in .koraku/mcp.json
          Wellformed,  \* those with a name and a command
          McpToolsOf,  \* names of the tools a server lists
          MaxMcpItems  \* bound: length of the list

ASSUME McpAssumption ==
    /\ Wellformed \subseteq McpItems /\ MaxMcpItems \in Nat
    /\ DOMAIN McpToolsOf = McpItems

VARIABLES mcpConfigs, \* load_mcp_config
          mcpAt,      \* position of the server being connected
          mcpOpen,    \* positions of servers whose contexts were entered
          mcpServers, \* runtime.servers, as positions
          mcpTools,   \* the tools handed to the run
          mcpRun,     \* where the run is
          mcpFailed,  \* positions that failed after entering a context
          mcpUnclean, \* positions whose exit stack raised and left it open
          mcpBroken   \* the run ended outside the protected part (history variable)

mcpVars == <<mcpConfigs, mcpAt, mcpOpen, mcpServers, mcpTools, mcpRun, mcpFailed,
             mcpUnclean, mcpBroken>>

\* Items that are not an object with a name and a command are passed over; an
\* unreadable file and one without a list count as no items.
LoadConfig(items) == SelectSeq(items, LAMBDA item : item \in Wellformed)

McpTypeOK ==
    /\ mcpConfigs \in Seq(Wellformed)
    /\ mcpAt \in 1..(Len(mcpConfigs) + 1)
    /\ mcpOpen \subseteq 1..Len(mcpConfigs)
    /\ mcpServers \in Seq(1..Len(mcpConfigs))
    /\ mcpRun \in {"starting", "setup", "turn", "closing", "over"}
    /\ mcpFailed \subseteq 1..Len(mcpConfigs) /\ mcpUnclean \subseteq 1..Len(mcpConfigs)
    /\ mcpBroken \in BOOLEAN

McpInit ==
    /\ \E n \in 0..MaxMcpItems : \E items \in [1..n -> McpItems] :
           mcpConfigs = LoadConfig(items)
    /\ mcpAt = 1
    /\ mcpOpen = {}
    /\ mcpServers = <<>>
    /\ mcpTools = <<>>
    /\ mcpRun = "starting"
    /\ mcpFailed = {}
    /\ mcpUnclean = {}
    /\ mcpBroken = FALSE
-----------------------------------------------------------------------------
Connecting == mcpRun = "starting" /\ mcpAt <= Len(mcpConfigs)

\* stdio_client starts the process.
EnterServer ==
    /\ Connecting /\ mcpAt \notin mcpOpen
    /\ mcpOpen' = mcpOpen \cup {mcpAt}
    /\ UNCHANGED <<mcpConfigs, mcpAt, mcpServers, mcpTools, mcpRun, mcpFailed, mcpUnclean, mcpBroken>>

\* The session is initialised and lists its tools.
ServerReady ==
    /\ Connecting /\ mcpAt \in mcpOpen
    /\ mcpServers' = Append(mcpServers, mcpAt)
    /\ mcpTools' = mcpTools \o McpToolsOf[mcpConfigs[mcpAt]]
    /\ mcpAt' = mcpAt + 1
    /\ UNCHANGED <<mcpConfigs, mcpOpen, mcpRun, mcpFailed, mcpUnclean, mcpBroken>>

\* An exception at any of these awaits is a warning, and the next server has
\* its turn; what the failed one had entered nobody leaves.
ServerFails ==
    /\ Connecting
    /\ mcpFailed' = mcpFailed \cup ({mcpAt} \cap mcpOpen)
    /\ mcpAt' = mcpAt + 1
    /\ UNCHANGED <<mcpConfigs, mcpOpen, mcpServers, mcpTools, mcpRun, mcpUnclean, mcpBroken>>

ServersStarted ==
    /\ mcpRun = "starting" /\ mcpAt > Len(mcpConfigs)
    /\ mcpRun' = "setup"
    /\ UNCHANGED <<mcpConfigs, mcpAt, mcpOpen, mcpServers, mcpTools, mcpFailed, mcpUnclean, mcpBroken>>

\* The rest of the setup, up to the try whose finally closes the servers.
McpTurnBegins ==
    /\ mcpRun = "setup"
    /\ mcpRun' = "turn"
    /\ UNCHANGED <<mcpConfigs, mcpAt, mcpOpen, mcpServers, mcpTools, mcpFailed, mcpUnclean, mcpBroken>>

\* Cancellation of the task, an exception of the setup, or a consumer that
\* stops at one of its events: outside the try, so nothing is closed.
McpInterrupted ==
    /\ mcpRun \in {"starting", "setup"}
    /\ mcpRun' = "over"
    /\ mcpBroken' = TRUE
    /\ UNCHANGED <<mcpConfigs, mcpAt, mcpOpen, mcpServers, mcpTools, mcpFailed, mcpUnclean>>

\* However the turn ends, the finally runs.
McpTurnEnds ==
    /\ mcpRun = "turn"
    /\ mcpRun' = "closing"
    /\ UNCHANGED <<mcpConfigs, mcpAt, mcpOpen, mcpServers, mcpTools, mcpFailed, mcpUnclean, mcpBroken>>

\* close goes through the servers from the last to the first; an exit stack
\* that raises does not keep the others open.  Mutant: it ends the loop.
StopAtError(raised) == IF raised THEN <<>> ELSE SubSeq(mcpServers, 1, Len(mcpServers) - 1)
CloseNext(raised) == SubSeq(mcpServers, 1, Len(mcpServers) - 1)
CloseServer ==
    /\ mcpRun = "closing" /\ mcpServers # <<>>
    /\ LET last == mcpServers[Len(mcpServers)]
       IN \E raised, left \in BOOLEAN :
            /\ left => raised
            /\ mcpOpen' = IF left THEN mcpOpen ELSE mcpOpen \ {last}
            /\ mcpUnclean' = IF left THEN mcpUnclean \cup {last} ELSE mcpUnclean
            /\ mcpServers' = CloseNext(raised)
    /\ UNCHANGED <<mcpConfigs, mcpAt, mcpTools, mcpRun, mcpFailed, mcpBroken>>

\* A cancellation that arrives inside close is no Exception: the loop ends.
CloseInterrupted ==
    /\ mcpRun = "closing" /\ mcpServers # <<>>
    /\ mcpRun' = "over"
    /\ mcpBroken' = TRUE
    /\ UNCHANGED <<mcpConfigs, mcpAt, mcpOpen, mcpServers, mcpTools, mcpFailed, mcpUnclean>>

McpClosed ==
    /\ mcpRun = "closing" /\ mcpServers = <<>>
    /\ mcpRun' = "over"
    /\ UNCHANGED <<mcpConfigs, mcpAt, mcpOpen, mcpServers, mcpTools, mcpFailed, mcpUnclean, mcpBroken>>

McpNext ==
    \/ EnterServer \/ ServerReady \/ ServerFails \/ ServersStarted
    \/ McpTurnBegins \/ McpInterrupted \/ McpTurnEnds
    \/ CloseServer \/ CloseInterrupted \/ McpClosed

McpSpec == McpInit /\ [][McpNext]_mcpVars
-----------------------------------------------------------------------------
\* A server that is still open after its run failed while it was connected,
\* refused to leave its contexts, or belongs to a run that broke off before
\* its turn or inside close.
McpStraysExplained ==
    mcpRun = "over" /\ ~mcpBroken => mcpOpen \subseteq mcpFailed \cup mcpUnclean
=============================================================================
