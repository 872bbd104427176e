------------------------------ MODULE AgentRun ------------------------------
(***************************************************************************)
(* One agent turn, from Agent.run to the end of its cleanup                *)
(* (koraku/agent/run.py), for any number of turns at once.  Turns with the *)
(* same session id share one SessionState: its messages and its step_count *)
(* are written by all of them, and nothing serialises them but the global  *)
(* semaphore of Agent.run.                                                 *)
(*                                                                         *)
(* A message is the turn that appended it and its kind; what the model and *)
(* the tools say is left out, and so is the context sent to the model.     *)
(* The environment decides when the cancel event is set, when the wall     *)
(* clock of the turn runs out, which answer the model gives, whether the   *)
(* tools finish, time out or raise, and when the task is cancelled.        *)
(***************************************************************************)
EXTENDS Naturals, Sequences, FiniteSets

CONSTANTS Runs,           \* calls of Agent.run
          Sessions,       \* SessionState objects
          SessionOf,      \* the session each call was given
          MaxRounds,      \* limits.max_rounds
          Synthesize,     \* limits.synthesize_on_exhaust
          RunLimit        \* settings.agent_concurrency_limit

ASSUME AgentAssumption ==
    /\ SessionOf \in [Runs -> Sessions]
    /\ MaxRounds \in Nat \ {0}
    /\ Synthesize \in BOOLEAN
    /\ RunLimit \in Nat \ {0}

VARIABLES pc,        \* where each call is
          messages,  \* session.messages
          stepCount, \* session.step_count
          cancel,    \* calls whose cancel_event is set
          wallOut,   \* calls whose wall clock ran out
          verdicts,  \* terminal events each call emitted
          raised,    \* calls that ended by an exception or a cancellation
          runLog,    \* meta.json of the artifact logger
          mcp,       \* the MCP servers of the call
          turns,     \* user messages of each session (history variable)
          rounds     \* model calls with tools, by session (history variable)

runVars == <<pc, verdicts, raised, runLog, mcp>>
envVars == <<cancel, wallOut>>
sessionVars == <<messages, stepCount, turns, rounds>>
vars == <<runVars, envVars, sessionVars>>

Phases == {"idle", "starting", "prepared", "prefetch", "top", "llm", "tools",
           "synthesis", "closing", "done"}
Verdicts == {"completed", "cancelled", "error"}
Kinds == {"user", "uses", "results", "steering", "reply"}

TypeOK ==
    /\ pc \in [Runs -> Phases]
    /\ messages \in [Sessions -> Seq([by : Runs, kind : Kinds])]
    /\ stepCount \in [Sessions -> Nat]
    /\ cancel \subseteq Runs
    /\ wallOut \subseteq Runs
    /\ verdicts \in [Runs -> Seq(Verdicts)]
    /\ raised \subseteq Runs
    /\ runLog \in [Runs -> {"none", "open"} \cup Verdicts]
    /\ mcp \in [Runs -> {"none", "open", "closed"}]
    /\ turns \in [Sessions -> Nat]
    /\ rounds \in [Sessions -> Nat]

Init ==
    /\ pc = [r \in Runs |-> "idle"]
    /\ messages = [s \in Sessions |-> <<>>]
    /\ stepCount = [s \in Sessions |-> 0]
    /\ cancel = {}
    /\ wallOut = {}
    /\ verdicts = [r \in Runs |-> <<>>]
    /\ raised = {}
    /\ runLog = [r \in Runs |-> "none"]
    /\ mcp = [r \in Runs |-> "none"]
    /\ turns = [s \in Sessions |-> 0]
    /\ rounds = [s \in Sessions |-> 0]
-----------------------------------------------------------------------------
\* Calls that hold a permit of _AGENT_RUN_SEMAPHORE (never given back in the
\* mutant).
EverStarted == {r \in Runs : pc[r] # "idle"}
Running == {r \in Runs : pc[r] \notin {"idle", "done"}}

Goto(r, place) == pc' = [pc EXCEPT ![r] = place]

\* cancel_event.is_set(); the mutant is the event that is not passed down.
NoEvent(r) == FALSE
Cancelled(r) == r \in cancel

\* session.add_message, several times in a row.
Say(r, kinds) ==
    messages' = [messages EXCEPT ![SessionOf[r]] =
                   @ \o [n \in 1..Len(kinds) |-> [by |-> r, kind |-> kinds[n]]]]

\* A terminal event goes through _emit, which keeps run_status for the log.
Conclude(r, verdict) == verdicts' = [verdicts EXCEPT ![r] = Append(@, verdict)]

\* Mutant: a log that is always closed with the default status of finalize.
DefaultStatus(r) == "completed"

\* run_status as the nested _emit leaves it: the last error or cancellation.
RunStatus(r) ==
    LET bad == {n \in DOMAIN verdicts[r] : verdicts[r][n] # "completed"}
    IN IF bad = {} THEN "completed"
       ELSE verdicts[r][CHOOSE n \in bad : \A m \in bad : m <= n]

\* async with _AGENT_RUN_SEMAPHORE, then the artifact logger and MCP servers.
Start(r) ==
    /\ pc[r] = "idle"
    /\ Cardinality(Running) < RunLimit
    /\ Goto(r, "starting")
    /\ runLog' = [runLog EXCEPT ![r] = "open"]
    /\ UNCHANGED <<verdicts, raised, mcp, envVars, sessionVars>>

\* start_mcp_runtime, the mode and tool events, _setup_active_tools, bindings.
Prepare(r) ==
    /\ pc[r] = "starting"
    /\ mcp' = [mcp EXCEPT ![r] = "open"]
    /\ Goto(r, "prepared")
    /\ UNCHANGED <<verdicts, raised, runLog, envVars, sessionVars>>

\* An exception before the try block that owns the cleanup: the semaphore is
\* released, the log stays without a status, the servers may stay open.
PrepareRaises(r) ==
    /\ pc[r] = "starting"
    /\ \E state \in {"none", "open"} : mcp' = [mcp EXCEPT ![r] = state]
    /\ raised' = raised \cup {r}
    /\ Goto(r, "done")
    /\ UNCHANGED <<verdicts, runLog, envVars, sessionVars>>

\* A slash command that names no skill.
UnknownSkill(r) ==
    /\ pc[r] = "prepared"
    /\ Conclude(r, "error")
    /\ Goto(r, "closing")
    /\ UNCHANGED <<raised, runLog, mcp, envVars, sessionVars>>

\* The user message is appended and the shared step counter restarts.
BeginTurn(r) ==
    /\ pc[r] = "prepared"
    /\ Say(r, <<"user">>)
    /\ stepCount' = [stepCount EXCEPT ![SessionOf[r]] = 0]
    /\ turns' = [turns EXCEPT ![SessionOf[r]] = @ + 1]
    /\ Goto(r, "prefetch")
    /\ UNCHANGED <<verdicts, raised, runLog, mcp, envVars, rounds>>

\* Integration and memory sections of the system prompt are awaited.
Prefetched(r) ==
    /\ pc[r] = "prefetch"
    /\ Goto(r, "top")
    /\ UNCHANGED <<verdicts, raised, runLog, mcp, envVars, sessionVars>>
-----------------------------------------------------------------------------
CountStep(r) == stepCount' = [stepCount EXCEPT ![SessionOf[r]] = @ + 1]

\* The loop condition.
RoundsLeft(r) == stepCount[SessionOf[r]] < MaxRounds

\* Top of the loop, the wall clock is out: one reply without tools follows.
OutOfTime(r) ==
    /\ pc[r] = "top" /\ RoundsLeft(r) /\ r \in wallOut
    /\ CountStep(r)
    /\ Say(r, <<"steering">>)
    /\ Goto(r, "synthesis")
    /\ UNCHANGED <<verdicts, raised, runLog, mcp, envVars, turns, rounds>>

CancelledAtTop(r) ==
    /\ pc[r] = "top" /\ RoundsLeft(r) /\ r \notin wallOut /\ Cancelled(r)
    /\ CountStep(r)
    /\ Conclude(r, "cancelled")
    /\ Goto(r, "closing")
    /\ UNCHANGED <<raised, runLog, mcp, envVars, messages, turns, rounds>>

CallModel(r) ==
    /\ pc[r] = "top" /\ RoundsLeft(r) /\ r \notin wallOut /\ ~Cancelled(r)
    /\ CountStep(r)
    /\ rounds' = [rounds EXCEPT ![SessionOf[r]] = @ + 1]
    /\ Goto(r, "llm")
    /\ UNCHANGED <<verdicts, raised, runLog, mcp, envVars, messages, turns>>

\* The while condition fails: a last reply without tools, or just the event.
OutOfRounds(r) ==
    /\ pc[r] = "top" /\ ~RoundsLeft(r)
    /\ IF Synthesize
       THEN /\ Say(r, <<"steering">>)
            /\ Goto(r, "synthesis")
            /\ UNCHANGED verdicts
       ELSE /\ Conclude(r, "completed")
            /\ Goto(r, "closing")
            /\ UNCHANGED messages
    /\ UNCHANGED <<raised, runLog, mcp, envVars, stepCount, turns, rounds>>

\* The stream deadline or the deadline of one chunk: reported before a
\* cancellation is looked at.
ModelTimesOut(r) ==
    /\ pc[r] = "llm"
    /\ Conclude(r, "error")
    /\ Goto(r, "closing")
    /\ UNCHANGED <<raised, runLog, mcp, envVars, sessionVars>>

CancelledAtModel(r) ==
    /\ pc[r] = "llm" /\ Cancelled(r)
    /\ Conclude(r, "cancelled")
    /\ Goto(r, "closing")
    /\ UNCHANGED <<raised, runLog, mcp, envVars, sessionVars>>

\* The stream ended with no tool call.
ModelReplies(r) ==
    /\ pc[r] = "llm" /\ ~Cancelled(r)
    /\ Say(r, <<"reply">>)
    /\ Conclude(r, "completed")
    /\ Goto(r, "closing")
    /\ UNCHANGED <<raised, runLog, mcp, envVars, stepCount, turns, rounds>>

ModelCallsTools(r) ==
    /\ pc[r] = "llm" /\ ~Cancelled(r)
    /\ Say(r, <<"uses">>)
    /\ Goto(r, "tools")
    /\ UNCHANGED <<verdicts, raised, runLog, mcp, envVars, stepCount, turns, rounds>>

\* The tool results, and what the loop tracker may add to steer the model (a
\* mutant forgets the results).
SteeringAlone == {<<>>, <<"steering">>}
AfterTools == {<<"results">>, <<"results", "steering">>}

\* The tool results are appended.
ToolsReturn(r) ==
    /\ pc[r] = "tools"
    /\ \E kinds \in AfterTools : Say(r, kinds)
    /\ Goto(r, "top")
    /\ UNCHANGED <<verdicts, raised, runLog, mcp, envVars, stepCount, turns, rounds>>

\* wait_for around the tools expires: every call gets an error as its result,
\* and the loop goes on as after any results.
ToolsTimeOut(r) ==
    /\ pc[r] = "tools"
    /\ \E kinds \in AfterTools : Say(r, kinds)
    /\ Goto(r, "top")
    /\ UNCHANGED <<verdicts, raised, runLog, mcp, envVars, stepCount, turns, rounds>>

\* The mutant emits the event and forgets the message.
SynthesisForgotten(r) ==
    /\ pc[r] = "synthesis"
    /\ Conclude(r, "completed")
    /\ Goto(r, "closing")
    /\ UNCHANGED <<raised, runLog, mcp, envVars, sessionVars>>

\* _synthesize_final_reply after its steering message; no cancel event and no
\* deadline is looked at here.
SynthesisReplies(r) ==
    /\ pc[r] = "synthesis"
    /\ Say(r, <<"reply">>)
    /\ Conclude(r, "completed")
    /\ Goto(r, "closing")
    /\ UNCHANGED <<raised, runLog, mcp, envVars, stepCount, turns, rounds>>

\* Where an exception of the provider, of a memory or integration fetch, or of
\* a hook around a single tool call leaves the loop, and where the task of the
\* run can be cancelled: the finally clause follows.
Interrupt(r) ==
    /\ pc[r] \in {"prefetch", "llm", "tools", "synthesis"}
    /\ raised' = raised \cup {r}
    /\ Goto(r, "closing")
    /\ UNCHANGED <<verdicts, runLog, mcp, envVars, sessionVars>>

\* The finally clause: finalize, close the servers, release the semaphore.
Close(r) ==
    /\ pc[r] = "closing"
    /\ runLog' = [runLog EXCEPT ![r] = RunStatus(r)]
    /\ mcp' = [mcp EXCEPT ![r] = "closed"]
    /\ Goto(r, "done")
    /\ UNCHANGED <<verdicts, raised, envVars, sessionVars>>

\* The task is cancelled while the servers are being closed.
InterruptClose(r) ==
    /\ pc[r] = "closing"
    /\ runLog' = [runLog EXCEPT ![r] = RunStatus(r)]
    /\ raised' = raised \cup {r}
    /\ Goto(r, "done")
    /\ UNCHANGED <<verdicts, mcp, envVars, sessionVars>>
-----------------------------------------------------------------------------
\* The client went away, its queue was full, or close() was called.
SetCancel(r) ==
    /\ r \in Running \ cancel
    /\ cancel' = cancel \cup {r}
    /\ UNCHANGED <<runVars, wallOut, sessionVars>>

WallClock(r) ==
    /\ r \in Running \ wallOut
    /\ wallOut' = wallOut \cup {r}
    /\ UNCHANGED <<runVars, cancel, sessionVars>>

Progress(r) ==
    \/ Start(r) \/ Prepare(r) \/ PrepareRaises(r)
    \/ UnknownSkill(r) \/ BeginTurn(r) \/ Prefetched(r)
    \/ OutOfTime(r) \/ CancelledAtTop(r) \/ CallModel(r) \/ OutOfRounds(r)
    \/ ModelTimesOut(r) \/ CancelledAtModel(r)
    \/ ModelReplies(r) \/ ModelCallsTools(r)
    \/ ToolsReturn(r) \/ ToolsTimeOut(r)
    \/ SynthesisReplies(r) \/ Interrupt(r) \/ Close(r) \/ InterruptClose(r)

Next == \E r \in Runs : Progress(r) \/ SetCancel(r) \/ WallClock(r)

Spec == Init /\ [][Next]_vars

\* A call that can go on does: the model stream and the tools have deadlines;
\* the provider ends the stream of the last reply; the semaphore is fair.
FairSpec == Spec /\ \A r \in Runs : WF_vars(Progress(r))
-----------------------------------------------------------------------------
\* The places in its session's history where a call has spoken.
Log(r) == messages[SessionOf[r]]
Said(r) == {n \in DOMAIN Log(r) : Log(r)[n].by = r}

\* The tool calls at place n of the history: the next that the turn says is
\* their results, or they are the last it has said so far.
ResultsNext(r, n) ==
    \E k \in Said(r) : /\ k > n /\ Log(r)[k].kind = "results"
                      /\ \A j \in Said(r) : j > n => k <= j
LastWord(r, n) == \A k \in Said(r) : k <= n

\* A model provider rejects a conversation in which tool calls have no
\* results.  Every message with tool calls is followed by its results before
\* the same turn says anything else, also when the tool phase timed out; only
\* a turn that is in its tool phase or that raised can have it as its last.
ToolCallsAnswered ==
    \A r \in Runs : \A n \in Said(r) :
        Log(r)[n].kind = "uses" =>
            \/ ResultsNext(r, n)
            \/ LastWord(r, n) /\ (pc[r] = "tools" \/ r \in raised)

\* A client sees at most one terminal event for a turn, and exactly one if
\* the turn neither raised nor was cancelled from outside.
OneVerdict ==
    \A r \in Runs :
        /\ Len(verdicts[r]) <= 1
        /\ pc[r] = "done" /\ r \notin raised => Len(verdicts[r]) = 1

\* The status in meta.json is the verdict the client saw, and a turn that did
\* not raise has released its MCP servers.  The log of a turn that raised
\* says "completed", which run_status starts with, when no verdict was
\* emitted, or has no status at all when it raised before its try block.
LogTellsVerdict ==
    \A r \in Runs : pc[r] = "done" =>
        /\ r \notin raised => mcp[r] = "closed" /\ runLog[r] = verdicts[r][1]
        /\ runLog[r] \in {"cancelled", "error"} => verdicts[r] = <<runLog[r]>>
        /\ verdicts[r] # <<>> => runLog[r] = verdicts[r][1]

\* The model is called with tools at most MaxRounds times for each user
\* message of a session.  A turn that shares its session can itself go on for
\* longer, because every new turn restarts the counter both of them use.
RoundsWithinBudget ==
    \A s \in Sessions : rounds[s] <= MaxRounds * turns[s]

\* A turn that has ended well ends its part of the conversation with a reply
\* of the assistant, unless a cancellation or an error was reported or the
\* budget ran out with synthesis off.
EndsWithReply ==
    \A r \in Runs :
        verdicts[r] = <<"completed">> /\ Synthesize =>
            \E n \in Said(r) : Log(r)[n].kind = "reply" /\ LastWord(r, n)

\* Once its cancel event is set a turn starts no round and no tool; what it
\* may still do is the last reply when its budget is used up.
CancelStopsWork ==
    [][\A r \in cancel : pc'[r] # pc[r] => pc'[r] \notin {"llm", "tools"}]_vars

\* Every call that is waiting for the semaphore or running comes to its end.
EveryRunEnds == \A r \in Runs : <>(pc[r] = "done")
=============================================================================
