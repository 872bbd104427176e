--------------------------- MODULE AutomationRuns ---------------------------
(***************************************************************************)
(* Runs of automations (koraku/automations/runner.py): a tick of the       *)
(* scheduler runs one, an event runs every active automation with its key, *)
(* one after the other (koraku/automations/event_triggers.py).  Runs of    *)
(* one automation in one process queue for a lock.                         *)
(*                                                                         *)
(* A row is the version of its instructions, whether it is active and      *)
(* whether it asks for a secret.  What an edit does to files and jobs is   *)
(* the subject of Automations; here it is one step.                        *)
(***************************************************************************)
EXTENDS Naturals, Sequences, FiniteSets

CONSTANTS Autos,       \* automation ids
          EventAutos,  \* those triggered by the event
          Secured,     \* those of them with an event_secret
          Ticks,       \* calls of queue_automation_run by the scheduler
          TickOf,      \* the automation each runs
          Triggers,    \* calls of trigger_event
          Trusted,     \* those that bring the right secret
          RunWorkers,  \* processes
          RunWorkerOf, \* the process of each call
          MaxVersion,  \* bound: edits of one automation
          NoAuto

ASSUME AutomationRunAssumption ==
    /\ IsFiniteSet(Autos) /\ NoAuto \notin Autos
    /\ Secured \subseteq EventAutos /\ EventAutos \subseteq Autos
    /\ TickOf \in [Ticks -> Autos]
    /\ RunWorkerOf \in [Ticks \cup Triggers -> RunWorkers]
    /\ Ticks \cap Triggers = {}
    /\ MaxVersion \in Nat

RunCalls == Ticks \cup Triggers

VARIABLES autoRows,   \* the stored rows
          runPc,      \* where each call is
          runTodo,    \* the matches a call has not come to yet
          runOn,      \* the automation a call runs or waits to run
          runVersion, \* the version of the row it read
          runLine,    \* holder of and waiters for the lock of an automation
          runResults, \* automations a call ran or tried to run, in order
          runListed,  \* what the event matched (history variable)
          runWaited,  \* calls that had to wait for a lock (history variable)
          runStale    \* calls that started another version than the stored one
                      \* (history variable)

runVars == <<autoRows, runPc, runTodo, runOn, runVersion, runLine, runResults,
             runListed, runWaited, runStale>>

Row == [version : 0..MaxVersion, active : BOOLEAN]
NoRow == [version |-> 0, active |-> FALSE, gone |-> TRUE]

AutoRunTypeOK ==
    /\ autoRows \in [Autos -> Row \cup {NoRow}]
    /\ runPc \in [RunCalls -> {"new", "looping", "waiting", "running",
                               "ok", "refused", "unmatched"}]
    /\ runOn \in [RunCalls -> Autos \cup {NoAuto}]
    /\ runVersion \in [RunCalls -> 0..MaxVersion]
    /\ runLine \in [RunWorkers \X Autos -> Seq(RunCalls)]
    /\ runWaited \subseteq RunCalls /\ runStale \subseteq RunCalls

AutoRunInit ==
    /\ autoRows = [a \in Autos |-> [version |-> 0, active |-> TRUE]]
    /\ runPc = [c \in RunCalls |-> "new"]
    /\ runTodo = [c \in RunCalls |-> <<>>]
    /\ runOn = [c \in RunCalls |-> NoAuto]
    /\ runVersion = [c \in RunCalls |-> 0]
    /\ runLine = [l \in RunWorkers \X Autos |-> <<>>]
    /\ runResults = [c \in RunCalls |-> <<>>]
    /\ runListed = [c \in RunCalls |-> <<>>]
    /\ runWaited = {}
    /\ runStale = {}
-----------------------------------------------------------------------------
\* The matching rows in any order, each once.
Orders(S) == {s \in [1..Cardinality(S) -> S] : \A i, j \in DOMAIN s : s[i] = s[j] => i = j}

\* _lock_for: one lock per automation and process.
LockLine(c, a) == runLine[<<RunWorkerOf[c], a>>]

JoinLine(c, a) == runLine' = [runLine EXCEPT ![<<RunWorkerOf[c], a>>] = Append(@, c)]
LeaveLine(c, a) == runLine' = [runLine EXCEPT ![<<RunWorkerOf[c], a>>] = Tail(@)]

EditRow(a) ==
    /\ autoRows[a] # NoRow
    /\ \E row \in {NoRow, [autoRows[a] EXCEPT !.active = FALSE]} \cup
                  (IF autoRows[a].version < MaxVersion
                   THEN {[autoRows[a] EXCEPT !.version = @ + 1]} ELSE {}) :
         autoRows' = [autoRows EXCEPT ![a] = row]
    /\ UNCHANGED <<runPc, runTodo, runOn, runVersion, runLine, runResults,
                   runListed, runWaited, runStale>>

\* A tick has one row to run.
StartTick(c) ==
    /\ c \in Ticks /\ runPc[c] = "new"
    /\ runPc' = [runPc EXCEPT ![c] = "looping"]
    /\ runTodo' = [runTodo EXCEPT ![c] = <<TickOf[c]>>]
    /\ runListed' = [runListed EXCEPT ![c] = <<TickOf[c]>>]
    /\ UNCHANGED <<autoRows, runOn, runVersion, runLine, runResults, runWaited, runStale>>

\* find_automations_for_event over list_event_active.
Matching == {a \in EventAutos : autoRows[a] # NoRow /\ autoRows[a].active}
StartTrigger(c) ==
    /\ c \in Triggers /\ runPc[c] = "new"
    /\ \E order \in Orders(Matching) :
         /\ runTodo' = [runTodo EXCEPT ![c] = order]
         /\ runListed' = [runListed EXCEPT ![c] = order]
         /\ runPc' = [runPc EXCEPT ![c] = IF order = <<>> THEN "unmatched" ELSE "looping"]
    /\ UNCHANGED <<autoRows, runOn, runVersion, runLine, runResults, runWaited, runStale>>

\* A wrong secret ends the loop, whatever ran before.  Mutant: the row is
\* passed over.
SecretSkips(c) == FALSE
SecretFails(c) == c \in Triggers \ Trusted /\ Head(runTodo[c]) \in Secured
RefuseSecret(c) ==
    /\ runPc[c] = "looping" /\ runTodo[c] # <<>>
    /\ SecretFails(c)
    /\ runPc' = [runPc EXCEPT ![c] = "refused"]
    /\ UNCHANGED <<autoRows, runTodo, runOn, runVersion, runLine, runResults,
                   runListed, runWaited, runStale>>

\* run_automation of a row that is gone has an error for its result; with no
\* agent every row ends like this.
RunNothing(c) ==
    /\ runPc[c] = "looping" /\ runTodo[c] # <<>>
    /\ ~SecretFails(c)
    /\ autoRows[Head(runTodo[c])] = NoRow
    /\ runResults' = [runResults EXCEPT ![c] = Append(@, Head(runTodo[c]))]
    /\ runTodo' = [runTodo EXCEPT ![c] = Tail(@)]
    /\ UNCHANGED <<autoRows, runPc, runOn, runVersion, runLine, runListed, runWaited, runStale>>

\* run_automation reads the row, then enters the lock, at once if it is free.
\* Mutant: it keeps the row of an earlier run.
VersionKept(c) == 0
VersionRead(c) == autoRows[Head(runTodo[c])].version
EnterRun(c) ==
    /\ runPc[c] = "looping" /\ runTodo[c] # <<>>
    /\ ~SecretFails(c)
    /\ LET a == Head(runTodo[c])
           free == LockLine(c, a) = <<>>
       IN /\ autoRows[a] # NoRow
          /\ runOn' = [runOn EXCEPT ![c] = a]
          /\ runVersion' = [runVersion EXCEPT ![c] = VersionRead(c)]
          /\ JoinLine(c, a)
          /\ runPc' = [runPc EXCEPT ![c] = IF free THEN "running" ELSE "waiting"]
          /\ runWaited' = IF free THEN runWaited ELSE runWaited \cup {c}
          /\ runStale' = IF free /\ VersionRead(c) # autoRows[a].version
                         THEN runStale \cup {c} ELSE runStale
    /\ runTodo' = [runTodo EXCEPT ![c] = Tail(@)]
    /\ UNCHANGED <<autoRows, runResults, runListed>>

\* The lock is handed to the first waiter, which goes on with the row it read.
ResumeRun(c) ==
    /\ runPc[c] = "waiting"
    /\ Head(LockLine(c, runOn[c])) = c
    /\ runPc' = [runPc EXCEPT ![c] = "running"]
    /\ runStale' = IF autoRows[runOn[c]] = NoRow \/ autoRows[runOn[c]].version # runVersion[c]
                   THEN runStale \cup {c} ELSE runStale
    /\ UNCHANGED <<autoRows, runTodo, runOn, runVersion, runLine, runResults,
                   runListed, runWaited>>

\* The agent ends, reports an error, raises or exceeds the time limit: every
\* way leaves the lock and has a result.
EndAgentRun(c) ==
    /\ runPc[c] = "running"
    /\ LeaveLine(c, runOn[c])
    /\ runResults' = [runResults EXCEPT ![c] = Append(@, runOn[c])]
    /\ runPc' = [runPc EXCEPT ![c] = "looping"]
    /\ runOn' = [runOn EXCEPT ![c] = NoAuto]
    /\ UNCHANGED <<autoRows, runTodo, runVersion, runListed, runWaited, runStale>>

AnswerTrigger(c) ==
    /\ runPc[c] = "looping" /\ runTodo[c] = <<>>
    /\ runPc' = [runPc EXCEPT ![c] = "ok"]
    /\ UNCHANGED <<autoRows, runTodo, runOn, runVersion, runLine, runResults,
                   runListed, runWaited, runStale>>

RunStep(c) ==
    \/ RefuseSecret(c) \/ RunNothing(c) \/ EnterRun(c) \/ ResumeRun(c)
    \/ EndAgentRun(c) \/ AnswerTrigger(c)

AutoRunNext ==
    \/ \E a \in Autos : EditRow(a)
    \/ \E c \in RunCalls : StartTick(c) \/ StartTrigger(c) \/ RunStep(c)

AutoRunSpec == AutoRunInit /\ [][AutoRunNext]_runVars
-----------------------------------------------------------------------------
\* One process runs an automation once at a time, whether ticks and events
\* ask for it together or in turn.
OneRunPerWorker ==
    \A c, d \in RunCalls :
        /\ c # d /\ RunWorkerOf[c] = RunWorkerOf[d]
        /\ runPc[c] = "running" /\ runPc[d] = "running"
        => runOn[c] # runOn[d]

\* What a caller is told covers what was run: an accepted event has a result
\* for every match, in order; a refused one ran exactly the matches before
\* the first that wanted another secret, and nothing if that was the first.
ResultsCoverMatches ==
    \A c \in RunCalls :
        LET done == Len(runResults[c])
        IN /\ runResults[c] = SubSeq(runListed[c], 1, done)
           /\ runPc[c] = "ok" => done = Len(runListed[c])
           /\ runPc[c] = "refused" => /\ runListed[c][done + 1] \in Secured
                                      /\ \A n \in 1..done : runListed[c][n] \notin Secured
           /\ c \in Triggers \ Trusted /\ runPc[c] = "ok" =>
                  \A n \in 1..done : runListed[c][n] \notin Secured

\* Replaced instructions, or those of a deleted automation, are run only by a
\* call that read them before it had to wait for the lock.
StaleOnlyAfterWaiting == runStale \subseteq runWaited
=============================================================================
