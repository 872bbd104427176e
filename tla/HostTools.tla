----------------------------- MODULE HostTools -----------------------------
(***************************************************************************)
(* The tools that work on the server itself (koraku/tools/registry.py):    *)
(* Bash, Read, Write, Edit, Glob and Grep on the workspace that all local  *)
(* turns share, and TodoWrite on the session of the run that calls it      *)
(* (koraku/tools/runtime.py).  Read also stands for its twin in a sandbox  *)
(* (koraku/tools/blaxel_dispatch.py), whose numbering differs.             *)
(*                                                                         *)
(* A run is a turn or a sub-agent, which a Task call starts and waits for. *)
(* The calls of one round start together.  File tools do not give up the   *)
(* loop: each is one step.  One file stands for the workspace; a line is   *)
(* its text.  What a call is allowed to do is ToolSurface's and            *)
(* ToolExecution's, the sandbox is Sandboxes'.                             *)
(***************************************************************************)
EXTENDS Naturals, FiniteSets, SequencesExt

CONSTANTS LocalRuns,   \* turns and sub-agents
          LocalCalls,  \* tool calls
          MadeBy,      \* the run each call belongs to
          Does,        \* what each call asks for
          LocalPlans,  \* sets of calls that may be made in one behaviour
          Spawns,      \* the sub-agent a Task call starts, else NoRun
          Boxed,       \* runs whose Read is the sandbox's
          Confined,    \* host_file_tools_restrict_to_workspace
          FileAtFirst, \* the lines of the file
          PageLimit,   \* lines of a page
          GlobMax,     \* 30 in the code
          GrepMax,     \* 100 in the code
          NoRun

ASSUME HostAssumption ==
    /\ NoRun \notin LocalRuns /\ LocalRuns \cap LocalCalls = {}
    /\ MadeBy \in [LocalCalls -> LocalRuns]
    /\ Spawns \in [LocalCalls -> LocalRuns \cup {NoRun}]
    /\ \A c \in LocalCalls : Does[c].tool = "Task" <=> Spawns[c] # NoRun
    /\ LocalPlans \subseteq SUBSET LocalCalls
    /\ Boxed \subseteq LocalRuns /\ Confined \in BOOLEAN
    /\ FileAtFirst \in Seq(Range(FileAtFirst))
    /\ \A c \in LocalCalls : Does[c].tool = "Write" => Does[c].lines \in Seq(Range(Does[c].lines))
    /\ PageLimit \in Nat \ {0} /\ GlobMax \in Nat /\ GrepMax \in Nat

VARIABLES localCall,     \* where each call is
          activeSession, \* _active_session in the context of each task
          todos,         \* the list of each session: id -> the call that wrote it
          hostFile,      \* the lines of the file
          paging,        \* the pages each run has read
          shells,        \* the shell and the program of each Bash call
          matched       \* matches each Glob or Grep call answered

hostVars == <<localCall, activeSession, todos, hostFile, paging, shells, matched>>

\* The task a run lives in: the call it was started by, or its own.
TaskOf(r) == IF \E c \in LocalCalls : Spawns[c] = r
             THEN CHOOSE c \in LocalCalls : Spawns[c] = r ELSE r
CallsOf(r) == {c \in LocalCalls : MadeBy[c] = r}
Running(r) == {c \in CallsOf(r) : localCall[c] = "running"}
Below(r) == Running(r) \cup UNION {Running(Spawns[c]) : c \in {d \in Running(r) : Spawns[d] # NoRun}}
FirstPage(n) == [next |-> n, seen |-> {}, ended |-> FALSE, moved |-> FALSE]

HostTypeOK ==
    /\ localCall \in [LocalCalls -> {"never", "waiting", "running", "answered", "late", "refused", "cancelled"}]
    /\ activeSession \in [LocalRuns \cup LocalCalls -> LocalRuns \cup {NoRun}]
    /\ \A r \in LocalRuns : \A id \in DOMAIN todos[r] : todos[r][id] \in LocalCalls
    /\ \A r \in LocalRuns : paging[r].next \in Nat /\ paging[r].ended \in BOOLEAN
    /\ \A c \in LocalCalls : /\ shells[c].shell \in {"none", "running", "over"}
                             /\ shells[c].program \in {"none", "running", "over"}
    /\ matched \in [LocalCalls -> Nat]

\* The first page is asked for at line 1 or, as some models do, at 0.
HostInit ==
    /\ \E plan \in LocalPlans :
          localCall = [c \in LocalCalls |-> IF c \in plan THEN "waiting" ELSE "never"]
    /\ activeSession = [t \in LocalRuns \cup LocalCalls |-> NoRun]
    /\ todos = [r \in LocalRuns |-> <<>>]
    /\ hostFile = FileAtFirst
    /\ \E offset \in {0, 1} : paging = [r \in LocalRuns |-> FirstPage(offset)]
    /\ shells = [c \in LocalCalls |-> [shell |-> "none", program |-> "none"]]
    /\ matched = [c \in LocalCalls |-> 0]
-----------------------------------------------------------------------------
\* A round: the session is set in the context of the run's task, and the calls
\* start with copies of that context.  (A call made alone is awaited in the
\* context itself, where nothing else runs meanwhile.  The mutant sets the
\* session for everybody.)
SetForAll(r, calls) == [t \in DOMAIN activeSession |-> r]
SetActive(r, calls) ==
    [t \in DOMAIN activeSession |-> IF t = TaskOf(r) \/ t \in calls THEN r ELSE activeSession[t]]
StartRound(r) ==
    /\ Running(r) = {}
    /\ TaskOf(r) \in LocalCalls => localCall[TaskOf(r)] = "running"
    /\ \E calls \in SUBSET {c \in CallsOf(r) : localCall[c] = "waiting"} :
          /\ calls # {}
          /\ localCall' = [c \in LocalCalls |-> IF c \in calls THEN "running" ELSE localCall[c]]
          /\ activeSession' = SetActive(r, calls)
    /\ UNCHANGED <<todos, hostFile, paging, shells, matched>>

Reply(c, how) == localCall' = [localCall EXCEPT ![c] = how]

\* The last answer of a round: the finally forgets the session.
Finishes(c, how) ==
    /\ Reply(c, how)
    /\ activeSession' = IF Running(MadeBy[c]) = {c}
                        THEN [activeSession EXCEPT ![TaskOf(MadeBy[c])] = NoRun]
                        ELSE activeSession

\* The deadline of the round, or the end of the turn: what runs is cancelled,
\* a sub-agent with the call that waits for it.
StopRound(r) ==
    /\ Running(r) # {}
    /\ localCall' = [c \in LocalCalls |-> IF c \in Below(r) THEN "cancelled" ELSE localCall[c]]
    /\ activeSession' = [t \in DOMAIN activeSession |->
           IF t = TaskOf(r) \/ \E c \in Below(r) : t = TaskOf(MadeBy[c]) THEN NoRun ELSE activeSession[t]]
    /\ UNCHANGED <<todos, hostFile, paging, shells, matched>>

Asks(c, tool) == localCall[c] = "running" /\ Does[c].tool = tool

SubAgentEnds(c) ==
    /\ Asks(c, "Task") /\ Running(Spawns[c]) = {}
    /\ Finishes(c, "answered")
    /\ UNCHANGED <<todos, hostFile, paging, shells, matched>>

\* _todo_write: the session is the one of the call's context.
Listed(list, c) ==
    LET items == Does[c].items
        kept == IF Does[c].merge THEN DOMAIN list ELSE {}
    IN  [id \in kept \cup items |-> IF id \in items THEN c ELSE list[id]]
TodoWrite(c) ==
    /\ Asks(c, "TodoWrite")
    /\ IF activeSession[c] = NoRun
       THEN Finishes(c, "refused") /\ UNCHANGED todos
       ELSE /\ Finishes(c, "answered")
            /\ todos' = [todos EXCEPT ![activeSession[c]] = Listed(@, c)]
    /\ UNCHANGED <<hostFile, paging, shells, matched>>
-----------------------------------------------------------------------------
\* _bash: a command on the list of dangerous ones is refused; others run in a
\* shell, which some make start a program of its own.
RefuseCommand(c) ==
    /\ Asks(c, "Bash") /\ Does[c].dangerous
    /\ Finishes(c, "refused")
    /\ UNCHANGED <<todos, hostFile, paging, shells, matched>>

StartShell(c) ==
    /\ Asks(c, "Bash") /\ ~Does[c].dangerous /\ shells[c].shell = "none"
    /\ shells' = [shells EXCEPT ![c] = [shell |-> "running",
                     program |-> IF Does[c].forks THEN "running" ELSE "none"]]
    /\ UNCHANGED <<localCall, activeSession, todos, hostFile, paging, matched>>

ProgramEnds(c) ==
    /\ shells[c].program = "running"
    /\ shells' = [shells EXCEPT ![c].program = "over"]
    /\ UNCHANGED <<localCall, activeSession, todos, hostFile, paging, matched>>

ShellEnds(c) ==
    /\ shells[c].shell = "running" /\ shells[c].program # "running"
    /\ shells' = [shells EXCEPT ![c].shell = "over"]
    /\ UNCHANGED <<localCall, activeSession, todos, hostFile, paging, matched>>

\* communicate returns once the pipes are closed by everyone who holds them.
ShellAnswers(c) ==
    /\ Asks(c, "Bash") /\ shells[c].shell = "over" /\ shells[c].program # "running"
    /\ Finishes(c, "answered")
    /\ UNCHANGED <<todos, hostFile, paging, shells, matched>>

\* The timeout kills the shell, and only the shell.  (The mutant kills nobody.)
KillNobody(c) == shells
KillShell(c) == [shells EXCEPT ![c].shell = "over"]
ShellTimesOut(c) ==
    /\ Asks(c, "Bash") /\ shells[c].shell # "none"
    /\ shells' = KillShell(c)
    /\ Finishes(c, "late")
    /\ UNCHANGED <<todos, hostFile, paging, matched>>
-----------------------------------------------------------------------------
\* _resolve_host_path.
Outside(c) == Confined /\ ~Does[c].inside
RefusePath(c) ==
    /\ \E tool \in {"Read", "Write", "Edit", "Glob", "Grep"} : Asks(c, tool)
    /\ Outside(c)
    /\ Finishes(c, "refused")
    /\ UNCHANGED <<todos, hostFile, paging, shells, matched>>

\* _read and blaxel_read: both begin at line 1 for an offset of 0 or 1, but
\* the sandbox numbers the lines from the offset itself.  (The mutant skips a
\* line.)
FromOffset(offset) == offset
StartAt(offset) == IF offset = 0 THEN 0 ELSE offset - 1
PrintedFrom(r, offset) == IF r \in Boxed THEN offset ELSE StartAt(offset) + 1

\* A run reads on at the number after the last one printed, as long as the
\* answer says there are more lines; or begins again.
ReadPage(c) ==
    /\ Asks(c, "Read") /\ ~Outside(c)
    /\ LET r == MadeBy[c]
           page == IF paging[r].ended THEN FirstPage(1) ELSE paging[r]
           start == StartAt(page.next)
           end == IF start + PageLimit < Len(hostFile) THEN start + PageLimit ELSE Len(hostFile)
           shown == (start + 1)..end
       IN  paging' = [paging EXCEPT ![r] =
              [next |-> PrintedFrom(r, page.next) + Cardinality(shown),
               seen |-> page.seen \cup {hostFile[n] : n \in shown},
               ended |-> ~(start + PageLimit < Len(hostFile)),
               moved |-> page.moved]]
    /\ Finishes(c, "answered")
    /\ UNCHANGED <<todos, hostFile, shells, matched>>

MovedForAll == [r \in LocalRuns |-> [paging[r] EXCEPT !.moved = TRUE]]

\* _write replaces the file, _edit the first occurrence of a text, if any.
WriteFile(c) ==
    /\ Asks(c, "Write") /\ ~Outside(c)
    /\ hostFile' = Does[c].lines
    /\ paging' = MovedForAll
    /\ Finishes(c, "answered")
    /\ UNCHANGED <<todos, shells, matched>>

Places(text) == {n \in DOMAIN hostFile : hostFile[n] = text}
EditFile(c) ==
    /\ Asks(c, "Edit") /\ ~Outside(c)
    /\ IF Places(Does[c].old) = {}
       THEN Finishes(c, "refused") /\ UNCHANGED <<hostFile, paging>>
       ELSE \E first \in Places(Does[c].old) :
                /\ \A n \in Places(Does[c].old) : first <= n
                /\ hostFile' = [hostFile EXCEPT ![first] = Does[c].new]
                /\ paging' = MovedForAll
                /\ Finishes(c, "answered")
    /\ UNCHANGED <<todos, shells, matched>>

\* _glob keeps the first matches.  _grep leaves a file when it has enough, but
\* looks at the other files of the directory, one line of each.
Least(a, b) == IF a < b THEN a ELSE b
GrepFile(found, hits) ==
    IF hits = 0 THEN found
    ELSE IF found >= GrepMax THEN found + 1 ELSE Least(found + hits, GrepMax)
GrepDirectory(found, files) ==
    IF found >= GrepMax THEN found ELSE FoldLeft(GrepFile, found, files)
Search(c) ==
    /\ \/ /\ Asks(c, "Glob")
          /\ matched' = [matched EXCEPT ![c] = Least(Does[c].matches, GlobMax)]
       \/ /\ Asks(c, "Grep")
          /\ matched' = [matched EXCEPT ![c] =
                 Least(FoldLeft(GrepDirectory, 0, Does[c].tree), GrepMax)]
    /\ ~Outside(c)
    /\ Finishes(c, "answered")
    /\ UNCHANGED <<todos, hostFile, paging, shells>>

HostNext ==
    \/ \E r \in LocalRuns : StartRound(r) \/ StopRound(r)
    \/ \E c \in LocalCalls :
         \/ SubAgentEnds(c) \/ TodoWrite(c)
         \/ RefuseCommand(c) \/ StartShell(c) \/ ProgramEnds(c) \/ ShellEnds(c)
         \/ ShellAnswers(c) \/ ShellTimesOut(c)
         \/ RefusePath(c) \/ ReadPage(c) \/ WriteFile(c) \/ EditFile(c) \/ Search(c)

HostSpec == HostInit /\ [][HostNext]_hostVars
-----------------------------------------------------------------------------
\* A to-do list holds what its own run wrote, and no run is told that it has
\* no session, though turns and sub-agents take turns on one event loop and
\* the session is found through the context of the task.
TodosStayHome ==
    /\ \A r \in LocalRuns : \A id \in DOMAIN todos[r] : MadeBy[todos[r][id]] = r
    /\ \A c \in LocalCalls : Does[c].tool = "TodoWrite" => localCall[c] # "refused"

\* Something a Bash call started still runs after the call is over only if the
\* call was cancelled, or timed out with a program under its shell.
StrayShellsExplained ==
    \A c \in LocalCalls :
        localCall[c] # "running" /\ "running" \in {shells[c].shell, shells[c].program} =>
            \/ localCall[c] = "cancelled"
            \/ localCall[c] = "late" /\ shells[c].shell = "over" /\ shells[c].program = "running"

\* A run that reads a file page by page until no more lines are announced has
\* seen every line, wherever it began, unless the file was changed meanwhile.
PagesCover ==
    \A r \in LocalRuns :
        paging[r].ended /\ ~paging[r].moved => paging[r].seen = Range(hostFile)
=============================================================================
