------------------------ MODULE ToolsAndStoresProofs ------------------------
(***************************************************************************)
(* Proofs about the tools on the host, the tools a turn is offered, the    *)
(* caches in front of slow services and the session store: one inductive   *)
(* invariant each, for any number of runs, calls, turns, lookups, requests *)
(* and workers.                                                            *)
(***************************************************************************)
EXTENDS HostTools, ToolSurface, LookupCaches, ChatSessions,
        FiniteSetTheorems, TLAPS

\* HostTools: a call that writes a to-do list finds the session of its own
\* run, because the task of a run is the run itself or the Task call it was
\* started by, never a call that writes a list.
LEMMA TasksAreNotTodos ==
    ASSUME NEW r \in LocalRuns, NEW c \in LocalCalls, TaskOf(r) = c
    PROVE  Does[c].tool = "Task"
<1>1. CASE \E d \in LocalCalls : Spawns[d] = r
  <2>1. TaskOf(r) \in LocalCalls /\ Spawns[TaskOf(r)] = r
    BY <1>1 DEF TaskOf
  <2> QED BY <2>1, HostAssumption
<1>2. CASE ~\E d \in LocalCalls : Spawns[d] = r
  <2>1. TaskOf(r) = r
    BY <1>2 DEF TaskOf
  <2> QED BY <2>1, HostAssumption
<1> QED BY <1>1, <1>2

\* Where the calls are, and the shells they leave.
HostTypes ==
    /\ localCall \in [LocalCalls -> {"never", "waiting", "running", "answered", "late",
                                     "refused", "cancelled"}]
    /\ activeSession \in [LocalRuns \cup LocalCalls -> LocalRuns \cup {NoRun}]
    /\ shells \in [LocalCalls -> [shell : {"none", "running", "over"},
                                  program : {"none", "running", "over"}]]
    /\ todos = [r \in LocalRuns |-> todos[r]]

\* The session of a running call that writes a list.
AtHome(c) ==
    /\ Does[c].tool = "TodoWrite" /\ localCall[c] = "running" => activeSession[c] = MadeBy[c]
    /\ Does[c].tool = "TodoWrite" => localCall[c] # "refused"

OwnLists == \A r \in LocalRuns : \A id \in DOMAIN todos[r] :
                todos[r][id] \in LocalCalls /\ MadeBy[todos[r][id]] = r

\* The shell and the program of a call: none before it runs, none unless it is
\* a Bash call that was not refused, none alive behind an answer.
ShellOf(c) ==
    /\ shells[c].shell = "none" => shells[c].program = "none"
    /\ shells[c].shell # "none" =>
          /\ Does[c].tool = "Bash" /\ ~Does[c].dangerous
          /\ localCall[c] \in {"running", "answered", "late", "cancelled"}
    /\ localCall[c] = "answered" => "running" \notin {shells[c].shell, shells[c].program}
    /\ localCall[c] = "late" => shells[c].shell = "over"

HostInv ==
    /\ HostTypes
    /\ OwnLists
    /\ \A c \in LocalCalls : AtHome(c) /\ ShellOf(c)

LEMMA InitHostInv == HostInit => HostInv
<1> SUFFICES ASSUME HostInit PROVE HostInv
  OBVIOUS
<1>1. HostTypes
  BY DEF HostInit, HostTypes
<1>2. OwnLists
  BY DEF HostInit, OwnLists
<1>3. \A c \in LocalCalls : AtHome(c) /\ ShellOf(c)
  BY DEF HostInit, AtHome, ShellOf
<1> QED BY <1>1, <1>2, <1>3 DEF HostInv

\* A round starts with the session of its run in every call.
LEMMA StartRoundKeepsHost ==
    ASSUME HostInv, NEW r \in LocalRuns, StartRound(r)
    PROVE  HostInv'
<1> PICK calls \in SUBSET {c \in CallsOf(r) : localCall[c] = "waiting"} :
        /\ localCall' = [c \in LocalCalls |-> IF c \in calls THEN "running" ELSE localCall[c]]
        /\ activeSession' = SetActive(r, calls)
  BY DEF StartRound
<1>0. UNCHANGED <<todos, shells>>
  BY DEF StartRound
<1>1. \A c \in calls : c \in LocalCalls /\ MadeBy[c] = r /\ localCall[c] = "waiting"
  BY DEF CallsOf
<1>2. /\ DOMAIN activeSession = LocalRuns \cup LocalCalls
      /\ activeSession' \in [LocalRuns \cup LocalCalls -> LocalRuns \cup {NoRun}]
      /\ \A c \in LocalCalls : activeSession'[c] =
            IF c = TaskOf(r) \/ c \in calls THEN r ELSE activeSession[c]
  BY DEF SetActive, HostInv, HostTypes
<1>3. HostTypes'
  BY <1>0, <1>2 DEF HostInv, HostTypes
<1>4. OwnLists'
  BY <1>0 DEF HostInv, OwnLists
<1>5. ASSUME NEW c \in LocalCalls PROVE AtHome(c)' /\ ShellOf(c)'
  <2>1. AtHome(c) /\ ShellOf(c) /\ (c = TaskOf(r) => Does[c].tool = "Task")
    BY TasksAreNotTodos DEF HostInv
  <2>2. AtHome(c)'
    BY <1>1, <1>2, <2>1 DEF AtHome
  <2>3. ShellOf(c)'
    BY <1>0, <1>1, <2>1 DEF ShellOf
  <2> QED BY <2>2, <2>3
<1> QED BY <1>3, <1>4, <1>5 DEF HostInv

\* A round that is stopped forgets sessions of tasks only.
LEMMA StopRoundKeepsHost ==
    ASSUME HostInv, NEW r \in LocalRuns, StopRound(r)
    PROVE  HostInv'
<1>0. /\ UNCHANGED <<todos, shells>>
      /\ localCall' = [c \in LocalCalls |-> IF c \in Below(r) THEN "cancelled" ELSE localCall[c]]
      /\ activeSession' = [t \in DOMAIN activeSession |->
             IF t = TaskOf(r) \/ \E c \in Below(r) : t = TaskOf(MadeBy[c]) THEN NoRun
             ELSE activeSession[t]]
  BY DEF StopRound
<1>1. \A c \in Below(r) : c \in LocalCalls /\ localCall[c] = "running" /\ MadeBy[c] \in LocalRuns
  BY HostAssumption DEF Below, Running, CallsOf
<1>2. HostTypes'
  BY <1>0 DEF HostInv, HostTypes
<1>3. OwnLists'
  BY <1>0 DEF HostInv, OwnLists
<1>4. ASSUME NEW c \in LocalCalls PROVE AtHome(c)' /\ ShellOf(c)'
  <2>1. AtHome(c) /\ ShellOf(c) /\ HostTypes
    BY DEF HostInv
  <2>2. Does[c].tool = "TodoWrite" => activeSession'[c] = activeSession[c]
    <3> SUFFICES ASSUME Does[c].tool = "TodoWrite" PROVE activeSession'[c] = activeSession[c]
      OBVIOUS
    <3>1. c # TaskOf(r) /\ \A d \in Below(r) : c # TaskOf(MadeBy[d])
      BY <1>1, TasksAreNotTodos
    <3> QED BY <1>0, <2>1, <3>1 DEF HostTypes
  <2>3. AtHome(c)'
    BY <1>0, <2>1, <2>2 DEF AtHome
  <2>4. ShellOf(c)'
    BY <1>0, <1>1, <2>1 DEF ShellOf
  <2> QED BY <2>3, <2>4
<1> QED BY <1>2, <1>3, <1>4 DEF HostInv

\* A call that ends: its own place changes, and the session of a task.
LEMMA FinishedCall ==
    ASSUME HostTypes, NEW c \in LocalCalls, NEW how \in {"answered", "late", "refused"},
           Finishes(c, how)
    PROVE  /\ localCall' = [localCall EXCEPT ![c] = how]
           /\ activeSession' \in [LocalRuns \cup LocalCalls -> LocalRuns \cup {NoRun}]
           /\ \A d \in LocalCalls : Does[d].tool = "TodoWrite" => activeSession'[d] = activeSession[d]
<1>0. MadeBy[c] \in LocalRuns
  BY HostAssumption
<1>1. localCall' = [localCall EXCEPT ![c] = how]
  BY DEF Finishes, Reply
<1>2. activeSession' \in {activeSession, [activeSession EXCEPT ![TaskOf(MadeBy[c])] = NoRun]}
  BY DEF Finishes
<1>3. activeSession' \in [LocalRuns \cup LocalCalls -> LocalRuns \cup {NoRun}]
  BY <1>2 DEF HostTypes
<1>4. ASSUME NEW d \in LocalCalls, Does[d].tool = "TodoWrite" PROVE activeSession'[d] = activeSession[d]
  <2>1. d # TaskOf(MadeBy[c])
    BY <1>0, <1>4, TasksAreNotTodos
  <2> QED BY <1>2, <2>1 DEF HostTypes
<1> QED BY <1>1, <1>3, <1>4

\* A call that ends as its tool lets it, with its shell as it should be.
LEMMA FinishKeepsHost ==
    ASSUME HostInv, NEW c \in LocalCalls, NEW how \in {"answered", "late", "refused"},
           Finishes(c, how), localCall[c] = "running",
           how = "refused" => Does[c].tool # "TodoWrite",
           HostTypes', OwnLists', ShellOf(c)',
           \A d \in LocalCalls : d # c => shells'[d] = shells[d]
    PROVE  HostInv'
<1>0. /\ localCall' = [localCall EXCEPT ![c] = how]
      /\ \A d \in LocalCalls : Does[d].tool = "TodoWrite" => activeSession'[d] = activeSession[d]
  BY FinishedCall DEF HostInv
<1>1. ASSUME NEW d \in LocalCalls PROVE AtHome(d)' /\ ShellOf(d)'
  <2>1. AtHome(d) /\ ShellOf(d) /\ HostTypes
    BY DEF HostInv
  <2>2. AtHome(d)'
    BY <1>0, <2>1 DEF AtHome, HostTypes
  <2>3. ShellOf(d)'
    BY <1>0, <2>1 DEF ShellOf, HostTypes
  <2> QED BY <2>2, <2>3
<1> QED BY <1>1 DEF HostInv

\* Calls of tools other than TodoWrite and Bash, and refusals.
LEMMA PlainEndKeepsHost ==
    ASSUME HostInv, NEW c \in LocalCalls, NEW how \in {"answered", "refused"},
           Finishes(c, how), localCall[c] = "running", Does[c].tool # "TodoWrite",
           Does[c].tool # "Bash" \/ Does[c].dangerous, UNCHANGED <<todos, shells>>
    PROVE  HostInv'
<1>1. HostTypes'
  BY FinishedCall DEF HostInv, HostTypes
<1>2. OwnLists'
  BY DEF HostInv, OwnLists
<1>3. ShellOf(c)'
  <2>1. ShellOf(c) /\ shells[c].shell = "none"
    BY DEF HostInv, ShellOf
  <2>2. localCall'[c] = how
    BY FinishedCall DEF HostInv, HostTypes
  <2> QED BY <2>1, <2>2 DEF ShellOf
<1> QED BY <1>1, <1>2, <1>3, FinishKeepsHost

\* A list is written to the session of the call's own run.
LEMMA TodoKeepsHost ==
    ASSUME HostInv, NEW c \in LocalCalls, TodoWrite(c)
    PROVE  HostInv'
<1> DEFINE r == MadeBy[c]
<1>0. /\ HostTypes /\ localCall[c] = "running" /\ Does[c].tool = "TodoWrite"
      /\ activeSession[c] = r /\ r \in LocalRuns /\ r # NoRun
  BY HostAssumption DEF TodoWrite, Asks, HostInv, AtHome
<1>1. /\ Finishes(c, "answered") /\ todos' = [todos EXCEPT ![r] = Listed(todos[r], c)]
      /\ UNCHANGED shells
  BY <1>0 DEF TodoWrite
<1>2. HostTypes'
  <2>1. DOMAIN todos = LocalRuns
    BY <1>0 DEF HostTypes
  <2>2. todos' = [q \in LocalRuns |-> todos'[q]]
    BY <1>1, <2>1
  <2> QED BY <1>0, <1>1, <2>2, FinishedCall DEF HostTypes
<1>3. OwnLists'
  <2> SUFFICES ASSUME NEW q \in LocalRuns, NEW id \in DOMAIN todos'[q]
               PROVE  todos'[q][id] \in LocalCalls /\ MadeBy[todos'[q][id]] = q
    BY DEF OwnLists
  <2>1. CASE q # r
    BY <1>0, <1>1, <2>1 DEF HostTypes, HostInv, OwnLists
  <2>2. CASE q = r
    <3>1. todos'[q] = Listed(todos[r], c)
      BY <1>0, <1>1, <2>2 DEF HostTypes
    <3>2. todos'[q][id] = c \/ (id \in DOMAIN todos[r] /\ todos'[q][id] = todos[r][id])
      BY <3>1 DEF Listed
    <3> QED BY <1>0, <2>2, <3>2 DEF HostInv, OwnLists
  <2> QED BY <2>1, <2>2
<1>4. ShellOf(c)'
  <2>1. ShellOf(c) /\ shells[c].shell = "none"
    BY <1>0 DEF HostInv, ShellOf
  <2>2. localCall'[c] = "answered"
    BY <1>0, <1>1, FinishedCall DEF HostTypes
  <2> QED BY <1>1, <2>1, <2>2 DEF ShellOf
<1> QED BY <1>0, <1>1, <1>2, <1>3, <1>4, FinishKeepsHost

\* The shell of a running call, or what it left, moves on by itself.
LEMMA ShellMoveKeepsHost ==
    ASSUME HostInv, NEW c \in LocalCalls, StartShell(c) \/ ProgramEnds(c) \/ ShellEnds(c)
    PROVE  HostInv'
<1> USE DEF HostInv, HostTypes
<1>0. UNCHANGED <<localCall, activeSession, todos>>
  BY DEF StartShell, ProgramEnds, ShellEnds
<1>1. HostTypes'
  BY <1>0 DEF StartShell, ProgramEnds, ShellEnds
<1>2. OwnLists'
  BY <1>0 DEF OwnLists
<1>3. ASSUME NEW d \in LocalCalls PROVE AtHome(d)' /\ ShellOf(d)'
  <2>1. AtHome(d) /\ ShellOf(d)
    OBVIOUS
  <2>2. AtHome(d)'
    BY <1>0, <2>1 DEF AtHome
  <2>3. CASE d # c
    <3>1. shells'[d] = shells[d]
      BY <2>3 DEF StartShell, ProgramEnds, ShellEnds
    <3> QED BY <1>0, <2>1, <2>2, <3>1 DEF ShellOf
  <2>4. CASE d = c
    <3>1. CASE StartShell(c)
      BY <1>0, <2>1, <2>2, <2>4, <3>1 DEF ShellOf, StartShell, Asks
    <3>2. CASE ProgramEnds(c)
      <4>1. shells'[c].shell = shells[c].shell /\ shells'[c].program = "over"
        BY <3>2 DEF ProgramEnds
      <4> QED BY <1>0, <2>1, <2>2, <2>4, <3>2, <4>1 DEF ShellOf, ProgramEnds
    <3>3. CASE ShellEnds(c)
      <4>1. shells'[c].program = shells[c].program /\ shells'[c].shell = "over"
        BY <3>3 DEF ShellEnds
      <4> QED BY <1>0, <2>1, <2>2, <2>4, <3>3, <4>1 DEF ShellOf, ShellEnds
    <3> QED BY <3>1, <3>2, <3>3
  <2> QED BY <2>3, <2>4
<1> QED BY <1>1, <1>2, <1>3

\* A Bash call answers when nothing of it is alive, or is killed in time.
LEMMA ShellEndKeepsHost ==
    ASSUME HostInv, NEW c \in LocalCalls, ShellAnswers(c) \/ ShellTimesOut(c)
    PROVE  HostInv'
<1>0. HostTypes /\ ShellOf(c) /\ localCall[c] = "running" /\ Does[c].tool = "Bash" /\ UNCHANGED todos
  BY DEF HostInv, ShellAnswers, ShellTimesOut, Asks
<1>1. OwnLists'
  BY <1>0 DEF HostInv, OwnLists
<1>2. CASE ShellAnswers(c)
  <2>1. Finishes(c, "answered") /\ UNCHANGED shells
    BY <1>2 DEF ShellAnswers
  <2>2. HostTypes'
    BY <1>0, <2>1, FinishedCall DEF HostTypes
  <2>3. ShellOf(c)'
    <3>1. localCall'[c] = "answered"
      BY <1>0, <2>1, FinishedCall DEF HostTypes
    <3> QED BY <1>0, <1>2, <2>1, <3>1 DEF ShellOf, ShellAnswers
  <2> QED BY <1>0, <1>1, <2>1, <2>2, <2>3, FinishKeepsHost
<1>3. CASE ShellTimesOut(c)
  <2>1. Finishes(c, "late") /\ shells[c].shell # "none" /\ shells' = [shells EXCEPT ![c].shell = "over"]
    BY <1>3 DEF ShellTimesOut, KillShell
  <2>2. HostTypes'
    BY <1>0, <2>1, FinishedCall DEF HostTypes
  <2>3. ShellOf(c)'
    <3>1. localCall'[c] = "late"
      BY <1>0, <2>1, FinishedCall DEF HostTypes
    <3>2. shells'[c].shell = "over" /\ shells'[c].program = shells[c].program
      BY <1>0, <2>1 DEF HostTypes
    <3> QED BY <1>0, <2>1, <3>1, <3>2 DEF ShellOf
  <2>4. \A d \in LocalCalls : d # c => shells'[d] = shells[d]
    BY <1>0, <2>1 DEF HostTypes
  <2> QED BY <1>0, <1>1, <2>1, <2>2, <2>3, <2>4, FinishKeepsHost
<1> QED BY <1>2, <1>3

\* Every step keeps the sessions, the lists and the shells.
LEMMA HostStep == HostInv /\ [HostNext]_hostVars => HostInv'
<1> SUFFICES ASSUME HostInv, [HostNext]_hostVars PROVE HostInv'
  OBVIOUS
<1>1. ASSUME NEW r \in LocalRuns, StartRound(r) \/ StopRound(r) PROVE HostInv'
  BY <1>1, StartRoundKeepsHost, StopRoundKeepsHost
<1>2. ASSUME NEW c \in LocalCalls,
             StartShell(c) \/ ProgramEnds(c) \/ ShellEnds(c) \/ ShellAnswers(c) \/ ShellTimesOut(c)
             \/ TodoWrite(c)
      PROVE  HostInv'
  BY <1>2, ShellMoveKeepsHost, ShellEndKeepsHost, TodoKeepsHost
<1>3. ASSUME NEW c \in LocalCalls,
             SubAgentEnds(c) \/ RefuseCommand(c) \/ RefusePath(c) \/ ReadPage(c)
             \/ WriteFile(c) \/ EditFile(c) \/ Search(c)
      PROVE  HostInv'
  <2>1. /\ localCall[c] = "running" /\ Does[c].tool # "TodoWrite"
        /\ Does[c].tool # "Bash" \/ Does[c].dangerous
        /\ UNCHANGED <<todos, shells>>
    BY <1>3 DEF SubAgentEnds, RefuseCommand, RefusePath, ReadPage, WriteFile, EditFile, Search, Asks
  <2>2. Finishes(c, "answered") \/ Finishes(c, "refused")
    BY <1>3 DEF SubAgentEnds, RefuseCommand, RefusePath, ReadPage, WriteFile, EditFile, Search
  <2> QED BY <2>1, <2>2, PlainEndKeepsHost
<1>4. CASE UNCHANGED hostVars
  BY <1>4 DEF hostVars, HostInv, HostTypes, OwnLists, AtHome, ShellOf
<1> QED BY <1>1, <1>2, <1>3, <1>4 DEF HostNext

\* Sessions, lists and shells are as they should be in every reachable state.
LEMMA SpecHostInv == HostSpec => []HostInv
BY InitHostInv, HostStep, PTL DEF HostSpec

\* A to-do list holds what its own run wrote, however turns and sub-agents
\* interleave, and no run is told that it has no session.
THEOREM SpecTodosStayHome == HostSpec => []TodosStayHome
<1>1. HostInv => TodosStayHome
  BY DEF HostInv, OwnLists, AtHome, TodosStayHome
<1> QED BY <1>1, SpecHostInv, PTL

\* What a Bash call started outlives it only behind a cancellation, or as a
\* program under a shell that was killed by the timeout.
THEOREM SpecStrayShellsExplained == HostSpec => []StrayShellsExplained
<1>1. HostInv => StrayShellsExplained
  <2> SUFFICES ASSUME HostInv, NEW c \in LocalCalls, localCall[c] # "running",
                      "running" \in {shells[c].shell, shells[c].program}
               PROVE  \/ localCall[c] = "cancelled"
                      \/ localCall[c] = "late" /\ shells[c].shell = "over"
                         /\ shells[c].program = "running"
    BY DEF StrayShellsExplained
  <2> QED BY DEF HostInv, HostTypes, ShellOf
<1> QED BY <1>1, SpecHostInv, PTL
-----------------------------------------------------------------------------
\* HostTools, paging.  Of a file that did not change, a run has seen every line
\* before the one its next page starts at, and all of them when it is told
\* that there are no more.
Lines == Range(FileAtFirst)
         \cup (UNION {Range(Does[c].lines) : c \in {d \in LocalCalls : Does[d].tool = "Write"}})
         \cup {Does[c].new : c \in {d \in LocalCalls : Does[d].tool = "Edit"}}

Page == [next : Nat, seen : SUBSET Lines, ended : BOOLEAN, moved : BOOLEAN]

PageFollowed(page) ==
    /\ page.seen \subseteq {hostFile[n] : n \in 1..Len(hostFile)}
    /\ \A n \in 1..Len(hostFile) : n <= StartAt(page.next) \/ page.ended => hostFile[n] \in page.seen

PageInv ==
    /\ hostFile \in Seq(Lines)
    /\ paging \in [LocalRuns -> Page]
    /\ \A r \in LocalRuns : paging[r].moved \/ PageFollowed(paging[r])

\* What is written is made of lines.
LEMMA WrittenLines ==
    /\ FileAtFirst \in Seq(Lines)
    /\ \A c \in LocalCalls : Does[c].tool = "Write" => Does[c].lines \in Seq(Lines)
<1>1. ASSUME NEW f, f \in Seq(Range(f)), Range(f) \subseteq Lines PROVE f \in Seq(Lines)
  BY <1>1
<1>2. Range(FileAtFirst) \subseteq Lines
  BY DEF Lines
<1>3. \A c \in LocalCalls : Does[c].tool = "Write" => Range(Does[c].lines) \subseteq Lines
  BY DEF Lines
<1> QED BY <1>1, <1>2, <1>3, HostAssumption

\* A run that has read nothing of a file.
LEMMA FirstPageFollowed ==
    ASSUME hostFile \in Seq(Lines), NEW n \in {0, 1}
    PROVE  FirstPage(n) \in Page /\ PageFollowed(FirstPage(n)) /\ ~FirstPage(n).moved
BY DEF FirstPage, Page, PageFollowed, StartAt

LEMMA InitPageInv == HostInit => PageInv
<1> SUFFICES ASSUME HostInit PROVE PageInv
  OBVIOUS
<1>1. hostFile \in Seq(Lines)
  BY WrittenLines DEF HostInit
<1>2. PICK n \in {0, 1} : paging = [r \in LocalRuns |-> FirstPage(n)]
  BY DEF HostInit
<1> QED BY <1>1, <1>2, FirstPageFollowed DEF PageInv

\* A page that is read: the lines up to its end have been seen, and the next
\* one starts there or before.
LEMMA ReadKeepsPages == ASSUME PageInv, NEW c \in LocalCalls, ReadPage(c) PROVE PageInv'
<1> DEFINE r == MadeBy[c]
           page == IF paging[r].ended THEN FirstPage(1) ELSE paging[r]
           start == StartAt(page.next)
           end == IF start + PageLimit < Len(hostFile) THEN start + PageLimit ELSE Len(hostFile)
           shown == (start + 1)..end
           new == [next |-> PrintedFrom(r, page.next) + Cardinality(shown),
                   seen |-> page.seen \cup {hostFile[n] : n \in shown},
                   ended |-> ~(start + PageLimit < Len(hostFile)),
                   moved |-> page.moved]
<1>1. r \in LocalRuns /\ paging' = [paging EXCEPT ![r] = new] /\ hostFile' = hostFile
  BY HostAssumption DEF ReadPage
<1>2. page \in Page /\ (page.moved \/ PageFollowed(page))
  BY <1>1, FirstPageFollowed DEF PageInv
<1> HIDE DEF page, r
<1>3. /\ start \in Nat /\ PageLimit \in Nat \ {0} /\ Len(hostFile) \in Nat /\ end \in Nat
      /\ end <= Len(hostFile)
  BY <1>2, HostAssumption DEF Page, StartAt, PageInv
<1>4. PrintedFrom(r, page.next) \in Nat /\ PrintedFrom(r, page.next) <= start + 1
  BY <1>2 DEF Page, StartAt, PrintedFrom
<1> HIDE DEF start
<1> HIDE DEF end
<1>5. Cardinality(shown) = IF start + 1 > end THEN 0 ELSE end - (start + 1) + 1
  <2>1. start + 1 \in Int /\ end \in Int
    BY <1>3
  <2> QED BY <2>1, FS_Interval
<1>6. \A n \in shown : n \in 1..Len(hostFile) /\ hostFile[n] \in Lines
  BY <1>3 DEF PageInv
<1> HIDE DEF shown
<1>7. PrintedFrom(r, page.next) + Cardinality(shown) \in Nat
  BY <1>3, <1>4, <1>5
<1>8. /\ new \in Page /\ new.moved = page.moved
      /\ new.next = PrintedFrom(r, page.next) + Cardinality(shown)
      /\ new.seen = page.seen \cup {hostFile[n] : n \in shown}
      /\ new.ended = ~(start + PageLimit < Len(hostFile))
  <2>1. page.seen \cup {hostFile[n] : n \in shown} \in SUBSET Lines
    BY <1>2, <1>6 DEF Page
  <2> QED BY <1>2, <1>7, <2>1 DEF Page
<1> HIDE DEF new
<1>9. ASSUME ~new.moved PROVE PageFollowed(new)
  <2>1. PageFollowed(page)
    BY <1>2, <1>8, <1>9
  <2>2. new.seen \subseteq {hostFile[n] : n \in 1..Len(hostFile)}
    BY <1>6, <1>8, <2>1 DEF PageFollowed
  <2>3. StartAt(new.next) <= start \/ StartAt(new.next) <= end
    BY <1>3, <1>4, <1>5, <1>8 DEF StartAt
  <2>4. new.ended => end = Len(hostFile)
    BY <1>3, <1>8 DEF end
  <2>5. ASSUME NEW n \in 1..Len(hostFile), n <= StartAt(new.next) \/ new.ended
        PROVE hostFile[n] \in new.seen
    <3>1. StartAt(new.next) \in Nat
      BY <1>7, <1>8 DEF StartAt
    <3>2. n <= start \/ n <= end
      BY <1>3, <2>3, <2>4, <2>5, <3>1
    <3>3. CASE n <= start
      BY <3>3, <1>8, <2>1 DEF PageFollowed, start
    <3>4. CASE n <= end /\ ~(n <= start)
      <4>1. n \in shown
        BY <3>4, <1>3 DEF shown
      <4> QED BY <4>1, <1>8
    <3> QED BY <3>2, <3>3, <3>4
  <2> QED BY <2>2, <2>5 DEF PageFollowed
<1> QED
  <2>1. paging' \in [LocalRuns -> Page]
    BY <1>1, <1>8 DEF PageInv
  <2>2. ASSUME NEW q \in LocalRuns, ~paging'[q].moved PROVE PageFollowed(paging[q])'
    <3>1. CASE q = r
      <4>1. paging'[q] = new
        BY <1>1, <3>1 DEF PageInv
      <4>2. PageFollowed(new)
        BY <1>9, <2>2, <4>1
      <4> QED BY <1>1, <4>1, <4>2 DEF PageFollowed
    <3>2. CASE q # r
      <4>1. paging'[q] = paging[q]
        BY <1>1, <3>2 DEF PageInv
      <4>2. PageFollowed(paging[q])
        BY <2>2, <4>1 DEF PageInv
      <4> QED BY <1>1, <4>1, <4>2 DEF PageFollowed
    <3> QED BY <3>1, <3>2
  <2> QED BY <1>1, <2>1, <2>2 DEF PageInv, PageFollowed

\* A write or an edit leaves lines, and every run that reads with a file that
\* changed under it.
LEMMA ChangeKeepsPages ==
    ASSUME PageInv, NEW c \in LocalCalls, WriteFile(c) \/ EditFile(c)
    PROVE  PageInv'
<1>1. CASE UNCHANGED <<hostFile, paging>>
  BY <1>1 DEF PageInv, PageFollowed
<1>2. CASE paging' = MovedForAll
  <2>1. hostFile' \in Seq(Lines)
    <3>1. CASE WriteFile(c)
      BY <3>1, WrittenLines DEF WriteFile, Asks
    <3>2. CASE EditFile(c)
      <4>1. \/ hostFile' = hostFile
            \/ \E first \in DOMAIN hostFile : hostFile' = [hostFile EXCEPT ![first] = Does[c].new]
        BY <3>2 DEF EditFile, Places
      <4>2. Does[c].new \in Lines
        BY <3>2 DEF EditFile, Asks, Lines
      <4>3. ASSUME NEW first \in DOMAIN hostFile
            PROVE [hostFile EXCEPT ![first] = Does[c].new] \in Seq(Lines)
        BY <4>2 DEF PageInv
      <4> QED BY <4>1, <4>3 DEF PageInv
    <3> QED BY <3>1, <3>2
  <2>2. \A q \in LocalRuns : paging'[q] \in Page /\ paging'[q].moved
    BY <1>2 DEF MovedForAll, PageInv, Page
  <2>3. paging' \in [LocalRuns -> Page]
    BY <1>2, <2>2 DEF MovedForAll
  <2> QED BY <2>1, <2>2, <2>3 DEF PageInv
<1> QED BY <1>1, <1>2 DEF WriteFile, EditFile

LEMMA PageStep == PageInv /\ [HostNext]_hostVars => PageInv'
<1> SUFFICES ASSUME PageInv, [HostNext]_hostVars PROVE PageInv'
  OBVIOUS
<1>1. CASE UNCHANGED <<hostFile, paging>>
  BY <1>1 DEF PageInv, PageFollowed
<1>2. CASE \E c \in LocalCalls : ReadPage(c) \/ WriteFile(c) \/ EditFile(c)
  BY <1>2, ReadKeepsPages, ChangeKeepsPages
<1>3. \/ UNCHANGED <<hostFile, paging>>
      \/ \E c \in LocalCalls : ReadPage(c) \/ WriteFile(c) \/ EditFile(c)
  BY DEF HostNext, hostVars, StartRound, StopRound, SubAgentEnds, TodoWrite, RefuseCommand,
     StartShell, ProgramEnds, ShellEnds, ShellAnswers, ShellTimesOut, RefusePath, Search
<1> QED BY <1>1, <1>2, <1>3

\* A run that reads on until no more lines are announced has seen the file,
\* for any file, any size of a page, on the host and in a sandbox.
THEOREM SpecPagesCover == HostSpec => []PagesCover
<1>1. PageInv => PagesCover
  <2> SUFFICES ASSUME PageInv, NEW r \in LocalRuns, paging[r].ended, ~paging[r].moved
               PROVE  paging[r].seen = Range(hostFile)
    BY DEF PagesCover
  <2>1. PageFollowed(paging[r]) /\ Range(hostFile) = {hostFile[n] : n \in 1..Len(hostFile)}
    BY DEF PageInv, Range
  <2> QED BY <2>1 DEF PageFollowed
<1> QED BY <1>1, InitPageInv, PageStep, PTL DEF HostSpec
-----------------------------------------------------------------------------
\* LookupCaches.  A load that is on its way with an answer older than one
\* that was given was on its way when that one was given; so was the load
\* behind an entry that is older than an answer given before.
LookTypes ==
    /\ lookPc \in [Lookups -> {"new", "loading", "fetched", "failed"} \cup Answered]
    /\ lookGot \in [Lookups -> Nat] /\ content \in [LookKeys -> Nat]
    /\ lookFrom \in [Lookups -> Lookups \cup {NoLookup}]
    /\ lookBefore \in [Lookups -> SUBSET Lookups] /\ lookBeside \in [Lookups -> SUBSET Lookups]

NotAhead(q) == lookPc[q] \in {"fetched"} \cup Answered => lookGot[q] <= content[KeyOf[q]]

EntryLoaded(k) ==
    /\ k \in LookKeys /\ cached[k].by \in Lookups
    /\ KeyOf[cached[k].by] = k /\ lookPc[cached[k].by] \in Answered
    /\ lookGot[cached[k].by] = cached[k].got

Seen(p) ==
    lookPc[p] \in Answered =>
        /\ \A f \in Lookups :
              lookPc[f] = "fetched" /\ KeyOf[f] = KeyOf[p] /\ lookGot[f] < lookGot[p]
                 => f \in lookBeside[p]
        /\ KeyOf[p] \in DOMAIN cached /\ cached[KeyOf[p]].got < lookGot[p]
              => cached[KeyOf[p]].by \in lookBeside[p]

Explained(q) ==
    /\ \A p \in lookBefore[q] : lookPc[p] \in Answered
    /\ lookPc[q] \in Answered =>
          \A p \in lookBefore[q] :
             KeyOf[p] = KeyOf[q] /\ lookGot[p] > lookGot[q] => lookFrom[q] \in lookBeside[p]

LookInv ==
    /\ LookTypes
    /\ \A k \in DOMAIN cached : EntryLoaded(k)
    /\ \A q \in Lookups : NotAhead(q) /\ Seen(q) /\ Explained(q)

LEMMA InitLookInv == LookupInit => LookInv
BY DEF LookupInit, LookInv, LookTypes, EntryLoaded, NotAhead, Seen, Explained, Answered

\* A lookup that finds a fresh entry, or sets out to load.
LEMMA LookUpKeeps ==
    ASSUME LookInv, NEW q \in Lookups, LookUp(q)
    PROVE  LookInv'
<1> DEFINE k == KeyOf[q]
<1> USE DEF Answered
<1>0. /\ LookTypes /\ \A x \in DOMAIN cached : EntryLoaded(x)
      /\ \A x \in Lookups : NotAhead(x) /\ Seen(x) /\ Explained(x)
  BY DEF LookInv
<1>1. /\ lookPc[q] = "new" /\ UNCHANGED content
      /\ lookPc' = [lookPc EXCEPT ![q] = IF FreshEntry(k) THEN "hit" ELSE "loading"]
      /\ lookBefore' = [lookBefore EXCEPT ![q] = {p \in Lookups : lookPc[p] \in Answered}]
      /\ DOMAIN cached' \subseteq DOMAIN cached /\ \A x \in DOMAIN cached' : cached'[x] = cached[x]
  BY DEF LookUp, Without
<1>2. /\ \A p \in Lookups : p # q =>
            /\ lookPc'[p] = lookPc[p] /\ lookGot'[p] = lookGot[p] /\ lookFrom'[p] = lookFrom[p]
            /\ lookBefore'[p] = lookBefore[p] /\ lookBeside'[p] = lookBeside[p]
  BY <1>0, <1>1 DEF LookUp, LookTypes
<1>3. CASE ~FreshEntry(k)
  <2>1. /\ lookPc'[q] = "loading"
        /\ UNCHANGED <<lookGot, lookFrom, lookBeside>>
    BY <1>0, <1>1, <1>3 DEF LookUp, LookTypes
  <2>2. LookTypes'
    BY <1>0, <1>1, <2>1 DEF LookTypes
  <2>3. \A x \in DOMAIN cached' : EntryLoaded(x)'
    BY <1>0, <1>1, <1>2, <2>1 DEF EntryLoaded
  <2>4. ASSUME NEW p \in Lookups PROVE NotAhead(p)' /\ Seen(p)' /\ Explained(p)'
    <3>1. NotAhead(p)' /\ Seen(p)'
      BY <1>0, <1>1, <1>2, <2>1 DEF NotAhead, Seen
    <3>2. Explained(p)'
      <4>1. \A x \in Lookups : lookPc[x] \in Answered => lookPc'[x] \in Answered
        BY <1>1, <1>2
      <4>2. CASE p = q
        BY <1>0, <1>1, <2>1, <4>1, <4>2 DEF Explained, LookTypes
      <4>3. CASE p # q
        BY <1>0, <1>2, <2>1, <4>1, <4>3 DEF Explained, LookTypes
      <4> QED BY <4>2, <4>3
    <3> QED BY <3>1, <3>2
  <2> QED BY <2>2, <2>3, <2>4 DEF LookInv
<1>4. CASE FreshEntry(k)
  <2>1. /\ k \in DOMAIN cached /\ EntryLoaded(k) /\ cached' = cached
        /\ lookPc'[q] = "hit" /\ lookGot'[q] = cached[k].got /\ lookFrom'[q] = cached[k].by
        /\ lookBeside'[q] = Fetched
    BY <1>0, <1>1, <1>4 DEF LookUp, LookTypes, FreshEntry
  <2>2. LookTypes'
    <3>1. cached[k].got \in Nat /\ cached[k].by \in Lookups /\ Fetched \in SUBSET Lookups
      BY <1>0, <2>1 DEF EntryLoaded, LookTypes, Fetched
    <3> QED BY <1>0, <1>1, <1>4, <3>1 DEF LookTypes, LookUp
  <2>3. \A x \in DOMAIN cached' : EntryLoaded(x)'
    BY <1>0, <1>1, <1>2, <2>1 DEF EntryLoaded
  <2>4. \A p \in Lookups : NotAhead(p)'
    BY <1>0, <1>1, <1>2, <2>1 DEF NotAhead, EntryLoaded
  <2>5. ASSUME NEW p \in Lookups PROVE Seen(p)'
    <3>1. \A f \in Lookups : lookPc'[f] = "fetched" => lookPc[f] = "fetched" /\ f # q
      BY <1>2, <2>1
    <3>2. CASE p = q
      BY <2>1, <1>2, <2>2, <3>1, <3>2 DEF Seen, Fetched, LookTypes
    <3>3. CASE p # q
      BY <1>0, <1>2, <2>1, <3>1, <3>3 DEF Seen
    <3> QED BY <3>2, <3>3
  <2>6. ASSUME NEW p \in Lookups PROVE Explained(p)'
    <3>1. \A x \in Lookups : lookPc[x] \in Answered => lookPc'[x] \in Answered /\ x # q
      BY <1>1, <1>2
    <3>2. CASE p = q
      <4>1. \A x \in lookBefore'[q] : x \in Lookups /\ lookPc[x] \in Answered
        BY <1>0, <1>1 DEF LookTypes
      <4>2. \A x \in lookBefore'[q] : KeyOf[x] = k /\ lookGot[x] > cached[k].got =>
               cached[k].by \in lookBeside[x]
        BY <1>0, <2>1, <4>1 DEF Seen
      <4> QED BY <1>2, <2>1, <3>1, <3>2, <4>1, <4>2 DEF Explained
    <3>3. CASE p # q
      BY <1>0, <1>2, <3>1, <3>3 DEF Explained, LookTypes
    <3> QED BY <3>2, <3>3
  <2> QED BY <2>2, <2>3, <2>4, <2>5, <2>6 DEF LookInv
<1> QED BY <1>3, <1>4

\* A load that asks its service gets what is newest.
LEMMA FetchKeeps ==
    ASSUME LookInv, NEW q \in Lookups, Fetch(q)
    PROVE  LookInv'
<1> USE DEF Answered
<1>0. /\ LookTypes /\ \A x \in DOMAIN cached : EntryLoaded(x)
      /\ \A x \in Lookups : NotAhead(x) /\ Seen(x) /\ Explained(x)
      /\ KeyOf[q] \in LookKeys
  BY LookupAssumption DEF LookInv
<1>1. /\ lookPc[q] = "loading" /\ lookPc' = [lookPc EXCEPT ![q] = "fetched"]
      /\ lookGot' = [lookGot EXCEPT ![q] = content[KeyOf[q]]]
      /\ UNCHANGED <<lookFrom, cached, content, lookBefore, lookBeside>>
  BY DEF Fetch
<1>2. /\ lookPc'[q] = "fetched" /\ lookGot'[q] = content[KeyOf[q]]
      /\ \A p \in Lookups : p # q => lookPc'[p] = lookPc[p] /\ lookGot'[p] = lookGot[p]
  BY <1>0, <1>1 DEF LookTypes
<1>3. LookTypes'
  BY <1>0, <1>1 DEF LookTypes
<1>4. \A x \in DOMAIN cached' : EntryLoaded(x)'
  BY <1>0, <1>1, <1>2 DEF EntryLoaded
<1>5. ASSUME NEW p \in Lookups PROVE NotAhead(p)' /\ Seen(p)' /\ Explained(p)'
  <2>1. NotAhead(p)'
    BY <1>0, <1>1, <1>2 DEF NotAhead, LookTypes
  <2>2. Seen(p)'
    <3>1. SUFFICES ASSUME lookPc'[p] \in Answered PROVE
            /\ \A f \in Lookups :
                 lookPc'[f] = "fetched" /\ KeyOf[f] = KeyOf[p] /\ lookGot'[f] < lookGot'[p]
                    => f \in lookBeside[p]
            /\ KeyOf[p] \in DOMAIN cached /\ cached[KeyOf[p]].got < lookGot[p]
                  => cached[KeyOf[p]].by \in lookBeside[p]
      BY <1>1, <1>2 DEF Seen
    <3>2. p # q /\ lookPc[p] \in Answered /\ lookGot'[p] = lookGot[p]
          /\ lookGot[p] <= content[KeyOf[p]] /\ KeyOf[p] \in LookKeys
      BY <1>0, <1>2, <3>1, LookupAssumption DEF NotAhead
    <3>3. ASSUME NEW f \in Lookups, lookPc'[f] = "fetched", KeyOf[f] = KeyOf[p],
                 lookGot'[f] < lookGot'[p]
          PROVE  f # q
      BY <1>0, <1>2, <3>2, <3>3 DEF LookTypes
    <3> QED BY <1>0, <1>2, <3>2, <3>3 DEF Seen
  <2>3. Explained(p)'
    BY <1>0, <1>1, <1>2 DEF Explained, LookTypes
  <2> QED BY <2>1, <2>2, <2>3
<1> QED BY <1>3, <1>4, <1>5 DEF LookInv

\* A load is stored, over whatever was there.
LEMMA StoreKeeps ==
    ASSUME LookInv, NEW q \in Lookups, StoreEntry(q)
    PROVE  LookInv'
<1> DEFINE k == KeyOf[q]
<1> USE DEF Answered
<1>0. /\ LookTypes /\ \A x \in DOMAIN cached : EntryLoaded(x)
      /\ \A x \in Lookups : NotAhead(x) /\ Seen(x) /\ Explained(x)
      /\ k \in LookKeys
  BY LookupAssumption DEF LookInv
<1>1. /\ lookPc[q] = "fetched" /\ lookPc' = [lookPc EXCEPT ![q] = "loaded"]
      /\ lookFrom' = [lookFrom EXCEPT ![q] = q]
      /\ lookBeside' = [lookBeside EXCEPT ![q] = Fetched \ {q}]
      /\ UNCHANGED <<lookGot, content, lookBefore>>
  BY DEF StoreEntry
<1>2. /\ lookPc'[q] = "loaded" /\ lookFrom'[q] = q /\ lookBeside'[q] = Fetched \ {q}
      /\ \A p \in Lookups : p # q => /\ lookPc'[p] = lookPc[p] /\ lookFrom'[p] = lookFrom[p]
                                     /\ lookBeside'[p] = lookBeside[p]
  BY <1>0, <1>1 DEF LookTypes
<1>3. /\ k \in DOMAIN cached' /\ cached'[k].got = lookGot[q] /\ cached'[k].by = q
      /\ \A x \in DOMAIN cached' : x # k => x \in DOMAIN cached /\ cached'[x] = cached[x]
  <2> PICK gone \in Room(k) :
        cached' = [x \in (DOMAIN cached \ gone) \cup {k} |-> IF x = k THEN Loaded(q) ELSE cached[x]]
    BY DEF StoreEntry
  <2> QED BY DEF Loaded
<1>4. LookTypes'
  BY <1>0, <1>1 DEF LookTypes, Fetched
<1>5. \A x \in DOMAIN cached' : EntryLoaded(x)'
  BY <1>0, <1>1, <1>2, <1>3 DEF EntryLoaded
<1>6. ASSUME NEW p \in Lookups PROVE NotAhead(p)' /\ Seen(p)' /\ Explained(p)'
  <2>1. NotAhead(p)'
    BY <1>0, <1>1, <1>2 DEF NotAhead
  <2>2. Seen(p)'
    <3>1. \A f \in Lookups : lookPc'[f] = "fetched" => lookPc[f] = "fetched" /\ f # q
      BY <1>2
    <3>2. CASE p = q
      BY <1>0, <1>1, <1>2, <1>3, <3>1, <3>2 DEF Seen, Fetched, LookTypes
    <3>3. CASE p # q
      <4>1. KeyOf[p] = k /\ lookPc[p] \in Answered /\ lookGot[q] < lookGot[p] => q \in lookBeside[p]
        BY <1>0, <1>1 DEF Seen
      <4> QED BY <1>0, <1>1, <1>2, <1>3, <3>1, <3>3, <4>1 DEF Seen
    <3> QED BY <3>2, <3>3
  <2>3. Explained(p)'
    <3>1. \A x \in Lookups : lookPc[x] \in Answered => lookPc'[x] \in Answered /\ x # q
      BY <1>1, <1>2
    <3>2. CASE p = q
      <4>1. \A x \in lookBefore[q] : x \in Lookups /\ lookPc[x] \in Answered
        BY <1>0 DEF Explained, LookTypes
      <4>2. \A x \in lookBefore[q] : KeyOf[x] = k /\ lookGot[x] > lookGot[q] => q \in lookBeside[x]
        BY <1>0, <1>1, <4>1 DEF Seen
      <4> QED BY <1>1, <1>2, <3>1, <3>2, <4>1, <4>2 DEF Explained
    <3>3. CASE p # q
      BY <1>0, <1>1, <1>2, <3>1, <3>3 DEF Explained, LookTypes
    <3> QED BY <3>2, <3>3
  <2> QED BY <2>1, <2>2, <2>3
<1> QED BY <1>4, <1>5, <1>6 DEF LookInv

\* A load that fails leaves nothing, what a service has only gets newer.
LEMMA OtherLookSteps ==
    ASSUME LookInv,
           \/ \E q \in Lookups : FailLoad(q)
           \/ \E k \in LookKeys : ContentChanges(k)
           \/ LookTick \/ UNCHANGED lookVars
    PROVE  LookInv'
<1> USE DEF Answered
<1>0. /\ LookTypes /\ \A x \in DOMAIN cached : EntryLoaded(x)
      /\ \A x \in Lookups : NotAhead(x) /\ Seen(x) /\ Explained(x)
      /\ KeyOf \in [Lookups -> LookKeys]
  BY LookupAssumption DEF LookInv
<1>1. ASSUME NEW q \in Lookups, FailLoad(q) PROVE LookInv'
  <2>1. /\ lookPc[q] \in {"loading", "fetched"} /\ lookPc' = [lookPc EXCEPT ![q] = "failed"]
        /\ UNCHANGED <<lookGot, lookFrom, cached, content, lookBefore, lookBeside>>
    BY <1>1 DEF FailLoad
  <2>2. \A p \in Lookups : lookPc'[p] = IF p = q THEN "failed" ELSE lookPc[p]
    BY <1>0, <2>1 DEF LookTypes
  <2>3. LookTypes' /\ \A x \in DOMAIN cached' : EntryLoaded(x)'
    BY <1>0, <2>1, <2>2 DEF LookTypes, EntryLoaded
  <2>4. ASSUME NEW p \in Lookups PROVE NotAhead(p)' /\ Seen(p)' /\ Explained(p)'
    BY <1>0, <2>1, <2>2 DEF NotAhead, Seen, Explained, LookTypes
  <2> QED BY <2>3, <2>4 DEF LookInv
<1>2. ASSUME NEW k \in LookKeys, ContentChanges(k) PROVE LookInv'
  <2>1. /\ content' = [content EXCEPT ![k] = content[k] + 1]
        /\ UNCHANGED <<lookPc, lookGot, lookFrom, cached, lookBefore, lookBeside>>
    BY <1>2 DEF ContentChanges
  <2>2. content' \in [LookKeys -> Nat] /\ \A x \in LookKeys : content[x] <= content'[x]
    BY <1>0, <2>1 DEF LookTypes
  <2>3. LookTypes' /\ \A x \in DOMAIN cached' : EntryLoaded(x)'
    BY <1>0, <2>1, <2>2 DEF LookTypes, EntryLoaded
  <2>4. ASSUME NEW p \in Lookups PROVE NotAhead(p)'
    <3>1. KeyOf[p] \in LookKeys /\ content[KeyOf[p]] \in Nat /\ content'[KeyOf[p]] \in Nat
          /\ content[KeyOf[p]] <= content'[KeyOf[p]] /\ lookGot[p] \in Nat /\ NotAhead(p)
      BY <1>0, <2>2 DEF LookTypes
    <3> QED BY <2>1, <3>1 DEF NotAhead
  <2>5. ASSUME NEW p \in Lookups PROVE Seen(p)' /\ Explained(p)'
    BY <1>0, <2>1 DEF Seen, Explained
  <2> QED BY <2>3, <2>4, <2>5 DEF LookInv
<1>3. ASSUME LookTick \/ UNCHANGED lookVars PROVE LookInv'
  <2>1. UNCHANGED <<lookPc, lookGot, lookFrom, cached, content, lookBefore, lookBeside>>
    BY <1>3 DEF LookTick, lookVars
  <2> QED BY <2>1 DEF LookInv, LookTypes, EntryLoaded, NotAhead, Seen, Explained
<1> QED BY <1>1, <1>2, <1>3

LEMMA SpecLookInv == LookupSpec => []LookInv
<1>1. LookInv /\ [LookupNext]_lookVars => LookInv'
  BY LookUpKeeps, FetchKeeps, StoreKeeps, OtherLookSteps DEF LookupNext
<1> QED BY <1>1, InitLookInv, PTL DEF LookupSpec

\* An answer is older than one given before only because its load was already
\* on its way when the other was given, for any number of lookups and keys,
\* any time to live and any order in which loads come back.
THEOREM SpecOlderAnswersExplained == LookupSpec => []OlderAnswersExplained
<1>1. LookInv => OlderAnswersExplained
  BY DEF LookInv, Explained, OlderAnswersExplained
<1> QED BY <1>1, SpecLookInv, PTL
-----------------------------------------------------------------------------
\* ToolSurface: the list of the process is what its first reader's settings
\* made it, and nobody adds to it.
OfProcess(tools) == {x \in tools : x.from = "process"}

OwnTool(t, x) ==
    /\ x.from \in {t, "process", "composio", "delegation"}
    /\ x.from = "process" /\ x.name = "Bash" => setup[t].target # "sandbox" \/ setup[t].box

Surface(t) ==
    /\ surface[t] \in {"loading", "ready"} => toolsCache # {}
    /\ surface[t] = "loading" => offered[t] = ForTarget(toolsCache, setup[t])
    /\ surface[t] = "ready" /\ setup[t].mode = "default" =>
          OfProcess(offered[t]) = ForTarget(toolsCache, setup[t])
    /\ \A x \in offered[t] \cup worker[t] : OwnTool(t, x)

ToolInv ==
    /\ setup \in [ToolTurns -> Setups]
    /\ DOMAIN surface = ToolTurns /\ DOMAIN offered = ToolTurns /\ DOMAIN worker = ToolTurns
    /\ toolsCache # {} => toolsCache = BuildTools(setup[cacheBuilder])
    /\ \A t \in ToolTurns : Surface(t)

\* Tools are marked with where they come from.
LEMMA NamedTools ==
    ASSUME NEW names, NEW origin
    PROVE  \A x \in Named(names, origin) : x.from = origin
BY DEF Named

\* What is built for the process is marked so, and is not nothing.
LEMMA BuiltTools ==
    ASSUME NEW s
    PROVE  BuildTools(s) # {} /\ \A x \in BuildTools(s) : x.from = "process"
<1> DEFINE names == {n \in BaseTools : (n = "WebSearch" => s.exa) /\ (n = "WebFetch" => s.firecrawl)}
                    \cup MemoryTools \cup AutomationTools
                    \cup (IF s.askUser THEN {"AskUser"} ELSE {})
                    \cup (IF s.propose THEN {"ProposeAction"} ELSE {})
<1>1. BuildTools(s) = Named(names, "process")
  BY DEF BuildTools
<1>2. "Read" \in names
  BY DEF BaseTools
<1> HIDE DEF names
<1>3. [name |-> "Read", from |-> "process"] \in Named(names, "process")
  BY <1>2 DEF Named
<1> QED BY <1>1, <1>3, NamedTools

\* A turn's share of them is its own: no shell on the host of a sandboxed turn.
LEMMA TargetTools ==
    ASSUME NEW t \in ToolTurns, NEW tools, \A x \in tools : x.from = "process"
    PROVE  /\ ForTarget(tools, setup[t]) \subseteq tools
           /\ \A x \in ForTarget(tools, setup[t]) : x.from = "process" /\ OwnTool(t, x)
BY DEF ForTarget, Omit, OwnTool

\* What a reader finds: the list that is there, or the one it builds.
LEMMA AvailableTools ==
    ASSUME ToolInv, NEW t \in ToolTurns
    PROVE  /\ Available(setup[t]) # {} /\ \A x \in Available(setup[t]) : x.from = "process"
           /\ toolsCache # {} => Available(setup[t]) = toolsCache
BY BuiltTools DEF Available, ToolInv

\* What Composio brings is marked as such.
LEMMA ComposioTools ==
    ASSUME NEW kits, NEW a, NEW b
    PROVE  \A x \in LoadComposio(kits, a, b) : x.from = "composio"
<1>1. \A x \in DynamicTools(kits \cap Toolkits, a, b) : x.from = "composio"
  BY NamedTools DEF DynamicTools
<1> QED BY <1>1 DEF LoadComposio

LEMMA IntegrationTools ==
    ASSUME NEW s, NEW a, NEW b
    PROVE  \A x \in Integrations(s, a, b) : x.from \in {"composio", "delegation"}
BY ComposioTools DEF Integrations, ComposioRun

LEMMA InitToolInv == ToolInit => ToolInv
BY DEF ToolInit, ToolInv, Surface

\* The list is read or built.
LEMMA StartSetupKeeps ==
    ASSUME ToolInv, NEW t \in ToolTurns, StartSetup(t)
    PROVE  ToolInv'
<1> DEFINE cache == Available(setup[t])
<1>0. /\ cache # {} /\ \A x \in cache : x.from = "process"
      /\ toolsCache # {} => cache = toolsCache
      /\ toolsCache = {} => cache = BuildTools(setup[t])
  BY AvailableTools DEF Available
<1>1. /\ surface' = [surface EXCEPT ![t] = "loading"] /\ toolsCache' = cache
      /\ cacheBuilder' = IF toolsCache = {} THEN t ELSE cacheBuilder
      /\ offered' = [offered EXCEPT ![t] = ForTarget(cache, setup[t])]
      /\ UNCHANGED <<setup, worker>>
  BY DEF StartSetup
<1>2. toolsCache' = BuildTools(setup'[cacheBuilder'])
  BY <1>0, <1>1 DEF ToolInv
<1>3. ASSUME NEW p \in ToolTurns PROVE Surface(p)'
  <2>1. Surface(p) /\ DOMAIN surface = ToolTurns /\ DOMAIN offered = ToolTurns
    BY DEF ToolInv
  <2>2. CASE p = t
    <3>1. surface'[p] = "loading" /\ offered'[p] = ForTarget(toolsCache', setup'[p])
      BY <1>1, <2>1, <2>2
    <3>2. \A x \in offered'[p] \cup worker'[p] : OwnTool(p, x)'
      <4>1. \A x \in offered'[p] : OwnTool(p, x)
        BY <1>0, <1>1, <2>2, <3>1, TargetTools
      <4>2. \A x \in worker'[p] : OwnTool(p, x)
        BY <1>1, <2>1 DEF Surface
      <4> QED BY <1>1, <4>1, <4>2 DEF OwnTool
    <3> QED BY <1>0, <1>1, <3>1, <3>2 DEF Surface
  <2>3. CASE p # t
    <3>1. /\ surface'[p] = surface[p] /\ offered'[p] = offered[p] /\ worker'[p] = worker[p]
          /\ setup' = setup
      BY <1>1, <2>1, <2>3
    <3>2. toolsCache # {} => toolsCache' = toolsCache
      BY <1>0, <1>1
    <3> QED BY <1>0, <1>1, <2>1, <3>1, <3>2 DEF Surface, OwnTool
  <2> QED BY <2>2, <2>3
<1> QED BY <1>1, <1>2, <1>3 DEF ToolInv

\* The surface of a turn is completed: nothing of the process is added, and
\* in the default mode nothing is taken away.
LEMMA FinishSetupKeeps ==
    ASSUME ToolInv, NEW t \in ToolTurns, FinishSetup(t)
    PROVE  ToolInv'
<1>0. Surface(t) /\ surface[t] = "loading" /\ DOMAIN surface = ToolTurns /\ DOMAIN offered = ToolTurns
  BY DEF ToolInv, FinishSetup
<1> PICK slugsFail \in LoadFailures, listFails \in LoadFailures :
        offered' = [offered EXCEPT ![t] =
            WithTask(Filtered(WithExtras(offered[t] \cup Integrations(setup[t], slugsFail, listFails), t),
                              setup[t].mode), setup[t])]
  BY DEF FinishSetup
<1> DEFINE brought == Integrations(setup[t], slugsFail, listFails)
           extended == WithExtras(offered[t] \cup brought, t)
           final == WithTask(Filtered(extended, setup[t].mode), setup[t])
<1>1. \A x \in brought : x.from \in {"composio", "delegation"}
  BY IntegrationTools
<1>2. /\ offered[t] \subseteq extended
      /\ \A x \in extended : x \in offered[t] \/ x.from \in {"composio", "delegation", t}
  BY <1>1, NamedTools DEF WithExtras
<1>3. /\ \A x \in final : x \in extended \/ x.from = "delegation"
      /\ setup[t].mode = "default" => extended \subseteq final
  BY DEF WithTask, Filtered, Keep, Restricted, TaskTool
<1>4. t \notin {"process", "composio", "delegation"}
  BY ToolSurfaceAssumption
<1>5. /\ surface' = [surface EXCEPT ![t] = "ready"] /\ toolsCache' = toolsCache
      /\ offered' = [offered EXCEPT ![t] = final] /\ UNCHANGED <<setup, worker, cacheBuilder>>
  BY DEF FinishSetup, CopiedList
<1>6. \A x \in offered[t] : x.from = "process" /\ OwnTool(t, x)
  <2>1. offered[t] = ForTarget(toolsCache, setup[t]) /\ \A x \in toolsCache : x.from = "process"
    BY <1>0, BuiltTools DEF Surface, ToolInv
  <2> QED BY <2>1, TargetTools
<1> HIDE DEF brought, extended, final
<1>7. \A x \in final : OwnTool(t, x)
  BY <1>2, <1>3, <1>4, <1>6 DEF OwnTool
<1>8. setup[t].mode = "default" => OfProcess(final) = offered[t]
  BY <1>2, <1>3, <1>4, <1>6 DEF OfProcess
<1>9. ASSUME NEW p \in ToolTurns PROVE Surface(p)'
  <2>1. Surface(p)
    BY DEF ToolInv
  <2>2. CASE p = t
    <3>1. surface'[p] = "ready" /\ offered'[p] = final /\ toolsCache # {} /\ worker' = worker
      BY <1>0, <1>5, <2>2 DEF Surface
    <3>2. \A x \in final \cup worker[p] : OwnTool(p, x)'
      BY <1>5, <1>7, <2>1, <2>2 DEF Surface, OwnTool
    <3>3. setup[t].mode = "default" => OfProcess(final) = ForTarget(toolsCache, setup[t])
      BY <1>0, <1>8 DEF Surface
    <3> QED BY <1>5, <2>2, <3>1, <3>2, <3>3 DEF Surface
  <2>3. CASE p # t
    <3>1. surface'[p] = surface[p] /\ offered'[p] = offered[p] /\ worker'[p] = worker[p]
      BY <1>0, <1>5, <2>3
    <3> QED BY <1>5, <2>1, <3>1 DEF Surface, OwnTool
  <2> QED BY <2>2, <2>3
<1> QED BY <1>5, <1>9 DEF ToolInv

\* A sub-agent is given a part of its turn's surface and Composio's actions.
LEMMA DelegateKeeps ==
    ASSUME ToolInv, NEW t \in ToolTurns, DelegateTask(t) \/ DelegateComposio(t)
    PROVE  ToolInv'
<1> DEFINE base == ForTarget(Available(setup[t]), setup[t])
<1>1. \A x \in base : OwnTool(t, x)
  BY AvailableTools, TargetTools
<1>2. PICK given : worker' = [worker EXCEPT ![t] = given] /\ \A x \in given : OwnTool(t, x)
  <2>1. CASE DelegateTask(t)
    <3>1. PICK names \in AgentTools : worker' = [worker EXCEPT ![t] = TaskSubagentTools(setup[t], names)]
      BY <2>1 DEF DelegateTask
    <3>2. TaskSubagentTools(setup[t], names) \subseteq base
      BY DEF TaskSubagentTools, Omit, Keep
    <3> QED BY <1>1, <3>1, <3>2
  <2>2. CASE DelegateComposio(t)
    <3>1. PICK kits \in (SUBSET Toolkits) \ {{}}, slugsFail \in LoadFailures,
               listFails \in LoadFailures, goal \in {"simple", "compose", "full"} :
            worker' = [worker EXCEPT ![t] = WorkerTools(base, LoadComposio(kits, slugsFail, listFails), goal)]
      BY <2>2 DEF DelegateComposio
    <3> DEFINE actions == LoadComposio(kits, slugsFail, listFails)
    <3>2. \A x \in actions : OwnTool(t, x)
      BY ComposioTools DEF OwnTool
    <3> HIDE DEF base, actions
    <3>3. WorkerTools(base, actions, goal) \subseteq base \cup actions
      BY DEF WorkerTools, Omit
    <3> QED BY <1>1, <3>1, <3>2, <3>3 DEF actions
  <2> QED BY <2>1, <2>2
<1>3. UNCHANGED <<setup, surface, toolsCache, offered, cacheBuilder>>
  BY DEF DelegateTask, DelegateComposio
<1>4. ASSUME NEW p \in ToolTurns PROVE Surface(p)'
  <2>1. Surface(p) /\ DOMAIN worker = ToolTurns
    BY DEF ToolInv
  <2>2. worker'[p] = IF p = t THEN given ELSE worker[p]
    BY <1>2, <2>1
  <2>3. \A x \in offered'[p] \cup worker'[p] : OwnTool(p, x)'
    BY <1>2, <1>3, <2>1, <2>2 DEF Surface, OwnTool
  <2> QED BY <1>3, <2>1, <2>3 DEF Surface
<1> QED BY <1>2, <1>3, <1>4 DEF ToolInv

\* What ends takes its surface along.
LEMMA EndKeeps ==
    ASSUME ToolInv, NEW t \in ToolTurns, WorkerEnds(t) \/ ToolTurnEnds(t)
    PROVE  ToolInv'
<1>1. UNCHANGED <<setup, toolsCache, cacheBuilder>>
  BY DEF WorkerEnds, ToolTurnEnds
<1>2. ASSUME NEW p \in ToolTurns
      PROVE  /\ offered'[p] \subseteq offered[p] /\ worker'[p] \subseteq worker[p]
             /\ surface'[p] = "over" \/ (surface'[p] = surface[p] /\ offered'[p] = offered[p])
  BY DEF ToolInv, WorkerEnds, ToolTurnEnds
<1>3. ASSUME NEW p \in ToolTurns PROVE Surface(p)'
  <2>1. Surface(p)
    BY DEF ToolInv
  <2>2. \A x \in offered'[p] \cup worker'[p] : OwnTool(p, x)'
    BY <1>1, <1>2, <2>1 DEF Surface, OwnTool
  <2> QED BY <1>1, <1>2, <2>1, <2>2 DEF Surface
<1>4. DOMAIN surface' = ToolTurns /\ DOMAIN offered' = ToolTurns /\ DOMAIN worker' = ToolTurns
  BY DEF ToolInv, WorkerEnds, ToolTurnEnds
<1> QED BY <1>1, <1>3, <1>4 DEF ToolInv

LEMMA SpecToolInv == ToolSpec => []ToolInv
<1>1. ToolInv /\ UNCHANGED toolVars => ToolInv'
  BY DEF ToolInv, toolVars, Surface, OwnTool
<1>2. ToolInv /\ [ToolNext]_toolVars => ToolInv'
  BY <1>1, StartSetupKeeps, FinishSetupKeeps, DelegateKeeps, EndKeeps DEF ToolNext
<1> QED BY <1>2, InitToolInv, PTL DEF ToolSpec

\* A turn lacks a tool its settings enable, or has one they do not, only when
\* a turn under other settings built the list of the process, for any
\* settings, integrations and order of turns.
THEOREM SpecStaleToolsExplained == ToolSpec => []StaleToolsExplained
<1>1. ToolInv => StaleToolsExplained
  <2> SUFFICES ASSUME ToolInv, NEW t \in ToolTurns, surface[t] = "ready", setup[t].mode = "default",
                      BuildTools(setup[cacheBuilder]) = BuildTools(setup[t])
               PROVE  {x \in offered[t] : x.from = "process"} = ForTarget(BuildTools(setup[t]), setup[t])
    BY DEF StaleToolsExplained
  <2> QED BY DEF ToolInv, Surface, OfProcess
<1> QED BY <1>1, SpecToolInv, PTL

\* No turn and no sub-agent is offered another turn's tools, or a shell on the
\* host when its turn is sandboxed.
THEOREM SpecOwnToolsOnly == ToolSpec => []OwnToolsOnly
<1>1. ToolInv => OwnToolsOnly
  BY DEF ToolInv, Surface, OwnTool, OwnToolsOnly
<1> QED BY <1>1, SpecToolInv, PTL
-----------------------------------------------------------------------------
\* ChatSessions: whose the messages of a session are.  A session object is of
\* the owner and the id of the request that made it, and so is what Redis
\* keeps under an id; a store finds an object under its own id only.
Owners == {ChatOwnerOf[r] : r \in ChatReqs}
SessionRecord == [owner : Owners, messages : Seq(ChatReqs), stamp : Nat]

Belong(owner, id, said) ==
    \A n \in 1..Len(said) : ChatOwnerOf[said[n]] = owner /\ IdOf(said[n]) = id

ObjectOk(o) ==
    /\ o \in ChatReqs /\ sessions[o] \in SessionRecord
    /\ sessions[o].owner = ChatOwnerOf[o]
    /\ Belong(ChatOwnerOf[o], IdOf(o), sessions[o].messages)

SavedOk(id) == redis[id] \in SessionRecord /\ Belong(redis[id].owner, id, redis[id].messages)

StoreOk(w) == \A id \in DOMAIN memStore[w] :
                  memStore[w][id] \in DOMAIN sessions /\ IdOf(memStore[w][id]) = id

HolderOk(r) ==
    chatPc[r] # "new" => /\ chatObj[r] \in DOMAIN sessions
                         /\ ChatOwnerOf[chatObj[r]] = ChatOwnerOf[r]
                         /\ IdOf(chatObj[r]) = IdOf(r)

ChatInv ==
    /\ chatNow \in Nat
    /\ DOMAIN chatPc = ChatReqs /\ DOMAIN chatObj = ChatReqs /\ DOMAIN memStore = ChatWorkers
    /\ \A o \in DOMAIN sessions : ObjectOk(o)
    /\ \A id \in DOMAIN redis : SavedOk(id)
    /\ \A w \in ChatWorkers : StoreOk(w)
    /\ \A r \in ChatReqs : HolderOk(r)

LEMMA InitChatInv == ChatInit => ChatInv
<1> SUFFICES ASSUME ChatInit PROVE ChatInv
  OBVIOUS
<1>1. DOMAIN sessions = {} /\ DOMAIN redis = {} /\ \A w \in ChatWorkers : DOMAIN memStore[w] = {}
  BY DEF ChatInit
<1> QED BY <1>1 DEF ChatInit, ChatInv, StoreOk, HolderOk

\* What makes a session, or what Redis keeps, as it should be in the next state.
LEMMA RecordsAs ==
    ASSUME NEW record \in SessionRecord
    PROVE  /\ \A o \in ChatReqs :
                 /\ sessions'[o] = record /\ record.owner = ChatOwnerOf[o]
                 /\ Belong(ChatOwnerOf[o], IdOf(o), record.messages)
                 => ObjectOk(o)'
           /\ \A id : /\ redis'[id] = record /\ Belong(record.owner, id, record.messages)
                      => SavedOk(id)'
<1>1. ASSUME NEW o \in ChatReqs, sessions'[o] = record, record.owner = ChatOwnerOf[o],
             Belong(ChatOwnerOf[o], IdOf(o), record.messages)
      PROVE  ObjectOk(o)'
  <2>1. IdOf(o)' = IdOf(o) /\ SessionRecord' = SessionRecord
    BY DEF IdOf, SessionRecord, Owners
  <2>2. Belong(ChatOwnerOf[o], IdOf(o), sessions'[o].messages)
    BY <1>1
  <2>3. Belong(ChatOwnerOf[o], IdOf(o), sessions[o].messages)'
    BY <2>1, <2>2 DEF Belong, IdOf
  <2> QED BY <1>1, <2>1, <2>3 DEF ObjectOk
<1>2. ASSUME NEW id, redis'[id] = record, Belong(record.owner, id, record.messages)
      PROVE  SavedOk(id)'
  <2>1. Belong(redis'[id].owner, id, redis'[id].messages)
    BY <1>2
  <2>2. Belong(redis[id].owner, id, redis[id].messages)'
    BY <2>1 DEF Belong, IdOf
  <2> QED BY <1>2, <2>2 DEF SavedOk, SessionRecord, Owners
<1> QED BY <1>1, <1>2

\* What is written to a session a request holds is the request's own.
LEMMA WordsKeep ==
    ASSUME ChatInv, NEW r \in ChatReqs, chatPc[r] # "new", NEW words \in Seq(ChatReqs),
           words = <<r>> \/ words = Append(sessions[chatObj[r]].messages, r),
           sessions' = [sessions EXCEPT ![chatObj[r]] =
                          [sessions[chatObj[r]] EXCEPT !.messages = words, !.stamp = chatNow]]
    PROVE  DOMAIN sessions' = DOMAIN sessions /\ \A o \in DOMAIN sessions : ObjectOk(o)'
<1> DEFINE mine == chatObj[r]
<1>1. /\ mine \in DOMAIN sessions /\ ObjectOk(mine) /\ chatNow \in Nat
      /\ ChatOwnerOf[mine] = ChatOwnerOf[r] /\ IdOf(mine) = IdOf(r)
  BY DEF ChatInv, HolderOk
<1>2. Belong(ChatOwnerOf[mine], IdOf(mine), words)
  <2>1. CASE words = <<r>>
    BY <1>1, <2>1 DEF Belong
  <2>2. CASE words = Append(sessions[mine].messages, r)
    <3> DEFINE s == sessions[mine].messages
    <3>1. s \in Seq(ChatReqs) /\ Belong(ChatOwnerOf[mine], IdOf(mine), s)
      BY <1>1 DEF ObjectOk, SessionRecord
    <3>2. /\ Len(words) = Len(s) + 1 /\ Len(s) \in Nat
          /\ \A n \in 1..Len(words) : words[n] = IF n = Len(s) + 1 THEN r ELSE s[n]
      BY <2>2, <3>1
    <3> HIDE DEF s
    <3> QED BY <1>1, <3>1, <3>2 DEF Belong
  <2> QED BY <2>1, <2>2
<1>3. DOMAIN sessions' = DOMAIN sessions
  OBVIOUS
<1>4. ASSUME NEW o \in DOMAIN sessions PROVE ObjectOk(o)'
  <2>1. ObjectOk(o)
    BY DEF ChatInv
  <2>2. CASE o # mine
    <3>1. sessions'[o] = sessions[o]
      BY <2>2
    <3> QED BY <2>1, <3>1, RecordsAs DEF ObjectOk
  <2>3. CASE o = mine
    <3>1. sessions'[o] = [sessions[mine] EXCEPT !.messages = words, !.stamp = chatNow]
      BY <1>1, <2>3
    <3>2. /\ sessions'[o] \in SessionRecord /\ sessions'[o].owner = sessions[mine].owner
          /\ sessions'[o].messages = words
      BY <1>1, <3>1 DEF ObjectOk, SessionRecord
    <3> QED BY <1>1, <1>2, <2>3, <3>2 DEF ObjectOk, Belong, IdOf
  <2> QED BY <2>2, <2>3
<1> QED BY <1>3, <1>4

\* The history of the client, and the messages of the turn.
LEMMA TalkKeepsChat ==
    ASSUME ChatInv, NEW r \in ChatReqs, HydrateSession(r) \/ AppendMessage(r)
    PROVE  ChatInv'
<1>0. /\ chatPc[r] # "new" /\ UNCHANGED <<chatObj, memStore, redis, chatNow>>
      /\ DOMAIN chatPc' = DOMAIN chatPc
      /\ \A q \in ChatReqs : chatPc'[q] # "new" => chatPc[q] # "new"
  BY DEF HydrateSession, AppendMessage, ChatInv
<1> DEFINE mine == chatObj[r]
<1>1. mine \in DOMAIN sessions /\ ObjectOk(mine)
  BY <1>0 DEF ChatInv, HolderOk
<1>2. DOMAIN sessions' = DOMAIN sessions /\ \A o \in DOMAIN sessions : ObjectOk(o)'
  <2>1. CASE sessions' = sessions
    BY <2>1 DEF ChatInv, ObjectOk, Belong, IdOf
  <2>2. ASSUME NEW words \in {<<r>>, Append(sessions[mine].messages, r)},
               sessions' = [sessions EXCEPT ![mine] =
                              [sessions[mine] EXCEPT !.messages = words, !.stamp = chatNow]]
        PROVE  DOMAIN sessions' = DOMAIN sessions /\ \A o \in DOMAIN sessions : ObjectOk(o)'
    <3>1. sessions[mine].messages \in Seq(ChatReqs)
      BY <1>1 DEF ObjectOk, SessionRecord
    <3>2. words \in Seq(ChatReqs)
      <4>1. <<r>> \in Seq(ChatReqs) /\ Append(sessions[mine].messages, r) \in Seq(ChatReqs)
        BY <3>1
      <4> QED BY <2>2, <4>1
    <3> QED BY <1>0, <2>2, <3>2, WordsKeep
  <2>3. \/ sessions' = sessions
        \/ \E words \in {<<r>>, Append(sessions[mine].messages, r)} :
             sessions' = [sessions EXCEPT ![mine] =
                            [sessions[mine] EXCEPT !.messages = words, !.stamp = chatNow]]
    <3>1. CASE HydrateSession(r)
      BY <1>1, <3>1 DEF HydrateSession
    <3>2. CASE AppendMessage(r)
      BY <1>1, <3>2 DEF AppendMessage
    <3> QED BY <3>1, <3>2
  <2> QED BY <2>1, <2>2, <2>3
<1>3. \A id \in DOMAIN redis' : SavedOk(id)'
  BY <1>0 DEF ChatInv, SavedOk, Belong, IdOf
<1>4. \A w \in ChatWorkers : StoreOk(w)'
  BY <1>0, <1>2 DEF ChatInv, StoreOk, IdOf
<1>5. \A q \in ChatReqs : HolderOk(q)'
  BY <1>0, <1>2 DEF ChatInv, HolderOk, IdOf
<1> QED BY <1>0, <1>2, <1>3, <1>4, <1>5 DEF ChatInv

\* A request that begins holds its session, and the others keep theirs.
LEMMA BeginHolds ==
    ASSUME ChatInv, NEW r \in ChatReqs, NEW w, NEW b, NEW object, Begin(r, w, b, object),
           DOMAIN sessions \subseteq DOMAIN sessions', object \in DOMAIN sessions',
           ChatOwnerOf[object] = ChatOwnerOf[r], IdOf(object) = IdOf(r)
    PROVE  /\ DOMAIN chatPc' = ChatReqs /\ DOMAIN chatObj' = ChatReqs /\ chatNow' \in Nat
           /\ \A q \in ChatReqs : HolderOk(q)'
<1>1. /\ chatPc' = [chatPc EXCEPT ![r] = "open"] /\ chatObj' = [chatObj EXCEPT ![r] = object]
      /\ chatNow' = chatNow
  BY DEF Begin
<1>2. ASSUME NEW q \in ChatReqs PROVE HolderOk(q)'
  <2>1. HolderOk(q) /\ DOMAIN chatPc = ChatReqs /\ DOMAIN chatObj = ChatReqs
    BY DEF ChatInv
  <2>2. CASE q = r
    BY <1>1, <2>1, <2>2 DEF HolderOk, IdOf
  <2>3. CASE q # r
    BY <1>1, <2>1, <2>3 DEF HolderOk, IdOf
  <2> QED BY <2>2, <2>3
<1> QED BY <1>1, <1>2 DEF ChatInv

\* A new session belongs to the request that makes it.
LEMMA BlankOk ==
    ASSUME NEW r \in ChatReqs, chatNow \in Nat, NEW id
    PROVE  /\ Blank(ChatOwnerOf[r]) \in SessionRecord /\ Blank(ChatOwnerOf[r]).owner = ChatOwnerOf[r]
           /\ Belong(ChatOwnerOf[r], id, Blank(ChatOwnerOf[r]).messages)
BY DEF Blank, SessionRecord, Owners, Belong

\* What a prune leaves was there before.
LEMMA PruneLeaves ==
    ASSUME NEW store, NEW rest \in Prune(store)
    PROVE  DOMAIN rest \subseteq DOMAIN store /\ \A id \in DOMAIN rest : rest[id] = store[id]
BY DEF Prune, Drop, Crowd

\* A session that is put into the store for a request.
LEMMA MemoryKeepsChatInv ==
    ASSUME ChatInv, NEW r \in ChatReqs, NEW w \in ChatWorkers, OpenInMemory(r, w)
    PROVE  ChatInv'
<1> DEFINE id == IdOf(r)
<1> PICK store \in Prune(memStore[w]) :
        LET keep == /\ id \in DOMAIN store
                    /\ SameOwner(sessions[store[id]], r)
                    /\ ~Stale(sessions[store[id]].stamp)
            object == IF keep THEN store[id] ELSE r
        IN /\ Begin(r, w, "memory", object)
           /\ memStore' = [memStore EXCEPT ![w] = Put(store, id, object)]
           /\ sessions' = IF keep THEN [sessions EXCEPT ![object].stamp = chatNow]
                          ELSE Put(sessions, r, Blank(ChatOwnerOf[r]))
           /\ UNCHANGED redis
  BY DEF OpenInMemory
<1>0. /\ chatNow \in Nat /\ DOMAIN memStore = ChatWorkers /\ StoreOk(w)
      /\ \A o \in DOMAIN sessions : ObjectOk(o)
  BY DEF ChatInv
<1> DEFINE keep == /\ id \in DOMAIN store
                   /\ SameOwner(sessions[store[id]], r)
                   /\ ~Stale(sessions[store[id]].stamp)
           object == IF keep THEN store[id] ELSE r
<1>1. /\ Begin(r, w, "memory", object) /\ memStore' = [memStore EXCEPT ![w] = Put(store, id, object)]
      /\ sessions' = IF keep THEN [sessions EXCEPT ![object].stamp = chatNow]
                     ELSE Put(sessions, r, Blank(ChatOwnerOf[r]))
      /\ UNCHANGED redis
  OBVIOUS
<1>2. keep => /\ object \in DOMAIN sessions /\ IdOf(object) = id
              /\ sessions[object].owner = ChatOwnerOf[r]
  BY <1>0, PruneLeaves DEF StoreOk, SameOwner
<1> HIDE DEF keep
<1>3. /\ DOMAIN sessions \subseteq DOMAIN sessions' /\ object \in DOMAIN sessions'
      /\ ChatOwnerOf[object] = ChatOwnerOf[r] /\ IdOf(object) = IdOf(r)
  <2>1. CASE keep
    BY <1>0, <1>1, <1>2, <2>1 DEF ObjectOk
  <2>2. CASE ~keep
    BY <1>1, <2>2 DEF Put
  <2> QED BY <2>1, <2>2
<1>4. ASSUME NEW o \in DOMAIN sessions' PROVE ObjectOk(o)'
  <2>1. CASE o \in DOMAIN sessions /\ sessions'[o] = sessions[o]
    <3>1. ObjectOk(o)
      BY <1>0, <2>1
    <3> QED BY <2>1, <3>1, RecordsAs DEF ObjectOk
  <2>2. CASE keep /\ o = object
    <3>1. ObjectOk(o) /\ sessions'[o] = [sessions[o] EXCEPT !.stamp = chatNow]
      BY <1>0, <1>1, <1>2, <2>2
    <3>2. /\ sessions'[o] \in SessionRecord /\ sessions'[o].owner = sessions[o].owner
          /\ sessions'[o].messages = sessions[o].messages
      BY <1>0, <3>1 DEF ObjectOk, SessionRecord
    <3> QED BY <3>1, <3>2, RecordsAs DEF ObjectOk
  <2>3. CASE ~keep /\ o = r
    <3>1. sessions'[o] = Blank(ChatOwnerOf[r])
      BY <1>1, <2>3 DEF Put
    <3> QED BY <1>0, <2>3, <3>1, BlankOk, RecordsAs
  <2>4. \/ o \in DOMAIN sessions /\ sessions'[o] = sessions[o]
        \/ keep /\ o = object
        \/ ~keep /\ o = r
    BY <1>1, <1>2 DEF Put
  <2> QED BY <2>1, <2>2, <2>3, <2>4
<1>5. ASSUME NEW v \in ChatWorkers PROVE StoreOk(v)'
  <2>1. StoreOk(v)
    BY DEF ChatInv
  <2>2. CASE v # w
    BY <1>0, <1>1, <1>3, <2>1, <2>2 DEF StoreOk, IdOf
  <2>3. CASE v = w
    <3>1. memStore'[w] = Put(store, id, object)
      BY <1>0, <1>1
    <3>2. ASSUME NEW k \in DOMAIN memStore'[w]
          PROVE  memStore'[w][k] \in DOMAIN sessions' /\ IdOf(memStore'[w][k]) = k
      <4>1. CASE k = id
        BY <1>3, <3>1, <4>1 DEF Put
      <4>2. CASE k # id
        <5>1. k \in DOMAIN store /\ memStore'[w][k] = store[k]
          BY <3>1, <3>2, <4>2 DEF Put
        <5> QED BY <1>0, <1>3, <5>1, PruneLeaves DEF StoreOk
      <4> QED BY <4>1, <4>2
    <3> QED BY <2>3, <3>2 DEF StoreOk, IdOf
  <2> QED BY <2>2, <2>3
<1>6. \A k \in DOMAIN redis' : SavedOk(k)'
  <2>1. redis' = redis
    BY <1>1
  <2>2. \A k \in DOMAIN redis : SavedOk(k)
    BY DEF ChatInv
  <2> SUFFICES ASSUME NEW k \in DOMAIN redis PROVE SavedOk(k)'
    BY <2>1
  <2>3. redis[k] \in SessionRecord /\ Belong(redis[k].owner, k, redis[k].messages)
    BY <2>2 DEF SavedOk
  <2> QED BY <2>1, <2>3, RecordsAs
<1>7. DOMAIN chatPc' = ChatReqs /\ DOMAIN chatObj' = ChatReqs /\ chatNow' \in Nat
      /\ \A q \in ChatReqs : HolderOk(q)'
  BY <1>1, <1>3, BeginHolds
<1>8. DOMAIN memStore' = ChatWorkers
  BY <1>0, <1>1
<1> QED BY <1>4, <1>5, <1>6, <1>7, <1>8 DEF ChatInv

\* A session that is read from Redis, or made and written there.
LEMMA RedisKeepsChatInv ==
    ASSUME ChatInv, NEW r \in ChatReqs, NEW w \in ChatWorkers, OpenInRedis(r, w)
    PROVE  ChatInv'
<1> DEFINE id == IdOf(r)
<1>0. chatNow \in Nat /\ (\A o \in DOMAIN sessions : ObjectOk(o)) /\ \A k \in DOMAIN redis : SavedOk(k)
  BY DEF ChatInv
<1> PICK readable \in RedisAnswers, deleted \in RedisAnswers, saved \in RedisAnswers :
        LET found == RedisHas(id, readable)
            keep == found /\ SameOwner(redis[id], r)
            record == IF keep THEN [redis[id] EXCEPT !.stamp = chatNow]
                      ELSE Blank(ChatOwnerOf[r])
            rest == IF found /\ ~keep THEN RedisDelete(redis, id, deleted) ELSE redis
        IN /\ Begin(r, w, "redis", r)
           /\ sessions' = Put(sessions, r, record)
           /\ redis' = RedisSet(rest, id, record, saved)
           /\ UNCHANGED memStore
  BY DEF OpenInRedis
<1> DEFINE keep == RedisHas(id, readable) /\ SameOwner(redis[id], r)
           record == IF keep THEN [redis[id] EXCEPT !.stamp = chatNow] ELSE Blank(ChatOwnerOf[r])
           rest == IF RedisHas(id, readable) /\ ~keep THEN RedisDelete(redis, id, deleted) ELSE redis
<1>1. /\ Begin(r, w, "redis", r) /\ sessions' = Put(sessions, r, record)
      /\ redis' = RedisSet(rest, id, record, saved) /\ UNCHANGED memStore
  OBVIOUS
<1>2. /\ record \in SessionRecord /\ record.owner = ChatOwnerOf[r]
      /\ Belong(ChatOwnerOf[r], id, record.messages)
  <2>1. CASE keep
    <3>1. SavedOk(id) /\ redis[id].owner = ChatOwnerOf[r]
      BY <1>0, <2>1 DEF RedisHas, SameOwner
    <3>2. /\ record \in SessionRecord /\ record.owner = redis[id].owner
          /\ record.messages = redis[id].messages
      BY <1>0, <2>1, <3>1 DEF SavedOk, SessionRecord
    <3> QED BY <3>1, <3>2 DEF SavedOk
  <2>2. CASE ~keep
    BY <1>0, <2>2, BlankOk
  <2> QED BY <2>1, <2>2
<1>3. DOMAIN rest \subseteq DOMAIN redis /\ \A k \in DOMAIN rest : rest[k] = redis[k]
  BY DEF RedisDelete, Drop
<1> HIDE DEF keep, record, rest
<1>4. ASSUME NEW o \in DOMAIN sessions' PROVE ObjectOk(o)'
  <2>1. CASE o = r
    <3>1. sessions'[o] = record
      BY <1>1, <2>1 DEF Put
    <3> QED BY <1>2, <2>1, <3>1, RecordsAs
  <2>2. CASE o # r
    <3>1. o \in DOMAIN sessions /\ sessions'[o] = sessions[o]
      BY <1>1, <2>2 DEF Put
    <3>2. ObjectOk(o)
      BY <1>0, <3>1
    <3>3. /\ o \in ChatReqs /\ sessions[o] \in SessionRecord
          /\ sessions[o].owner = ChatOwnerOf[o]
          /\ Belong(ChatOwnerOf[o], IdOf(o), sessions[o].messages)
      BY <3>2 DEF ObjectOk
    <3> QED BY <3>1, <3>3, RecordsAs
  <2> QED BY <2>1, <2>2
<1>5. ASSUME NEW k \in DOMAIN redis' PROVE SavedOk(k)'
  <2>1. \/ k = id /\ redis'[k] = record
        \/ k \in DOMAIN rest /\ redis'[k] = rest[k]
    BY <1>1 DEF RedisSet, Put
  <2>2. CASE k = id /\ redis'[k] = record
    BY <1>2, <2>2, RecordsAs
  <2>3. CASE k \in DOMAIN rest /\ redis'[k] = rest[k]
    <3>1. SavedOk(k) /\ redis'[k] = redis[k]
      BY <1>0, <1>3, <2>3
    <3> QED BY <3>1, RecordsAs DEF SavedOk
  <2> QED BY <2>1, <2>2, <2>3
<1>6. DOMAIN sessions \subseteq DOMAIN sessions' /\ r \in DOMAIN sessions'
  BY <1>1 DEF Put
<1>7. \A v \in ChatWorkers : StoreOk(v)'
  BY <1>1, <1>6 DEF ChatInv, StoreOk, IdOf
<1>8. DOMAIN chatPc' = ChatReqs /\ DOMAIN chatObj' = ChatReqs /\ chatNow' \in Nat
      /\ \A q \in ChatReqs : HolderOk(q)'
  BY <1>1, <1>6, BeginHolds
<1>9. DOMAIN memStore' = ChatWorkers
  BY <1>1 DEF ChatInv
<1> QED BY <1>4, <1>5, <1>7, <1>8, <1>9 DEF ChatInv

LEMMA SpecChatInv == ChatSpec => []ChatInv
<1>1. ChatInv /\ UNCHANGED chatVars => ChatInv'
  BY DEF ChatInv, chatVars, ObjectOk, SavedOk, StoreOk, HolderOk, Belong, IdOf
<1>2. ChatInv /\ ChatTick => ChatInv'
  BY DEF ChatInv, ChatTick, ObjectOk, SavedOk, StoreOk, HolderOk, Belong, IdOf
<1>3. ChatInv /\ [ChatNext]_chatVars => ChatInv'
  BY <1>1, <1>2, MemoryKeepsChatInv, RedisKeepsChatInv, TalkKeepsChat DEF ChatNext
<1> QED BY <1>3, InitChatInv, PTL DEF ChatSpec

\* No request ever finds a message of another owner or of another chat, for
\* any number of requests, owners and workers, on either store, with Redis
\* failing at any call and older turns still writing.
THEOREM SpecOwnMessagesOnly == ChatSpec => []OwnMessagesOnly
<1>1. ChatInv => OwnMessagesOnly
  <2> SUFFICES ASSUME ChatInv, NEW r \in ChatReqs, chatPc[r] # "new",
                      NEW n \in 1..Len(sessions[chatObj[r]].messages)
               PROVE  /\ ChatOwnerOf[sessions[chatObj[r]].messages[n]] = ChatOwnerOf[r]
                      /\ IdOf(sessions[chatObj[r]].messages[n]) = IdOf(r)
    BY DEF OwnMessagesOnly
  <2>1. HolderOk(r) /\ ObjectOk(chatObj[r])
    BY DEF ChatInv, HolderOk
  <2> QED BY <2>1 DEF HolderOk, ObjectOk, Belong
<1> QED BY <1>1, SpecChatInv, PTL
-----------------------------------------------------------------------------
\* ChatSessions, what a memory store keeps.  As long as no other owner used the
\* id and the worker saw no more chats than it keeps, the session of a request
\* that is not older than the time to live is under its id in the store, with
\* a stamp no older than the request.
Served(w) == {s \in ChatReqs : chatPc[s] # "new" /\ chatAt[s] = w}
IdsOf(w) == {IdOf(s) : s \in Served(w)}
Crowded(w) == Cardinality(IdsOf(w)) > SessionMax
Shared(q) == \E s \in Served(chatAt[q]) : IdOf(s) = IdOf(q) /\ ChatOwnerOf[s] # ChatOwnerOf[q]

StillThere(q) ==
    /\ IdOf(q) \in DOMAIN memStore[chatAt[q]]
    /\ memStore[chatAt[q]][IdOf(q)] = chatObj[q]
    /\ chatCame[q] <= sessions[chatObj[q]].stamp

ByMemory(q) == chatPc[q] # "new" /\ backend[chatAt[q]] = "memory"
KeptOrExcused(q) == Shared(q) \/ Crowded(chatAt[q]) \/ Stale(chatCame[q]) \/ StillThere(q)

FoundAgain(r) ==
    \A q \in earlier[r] : /\ q \in ChatReqs /\ chatPc[q] # "new"
                          /\ chatObj[q] = chatObj[r] \/ Shared(r) \/ Crowded(chatAt[r])

KeepInv ==
    /\ DOMAIN chatAt = ChatReqs /\ DOMAIN earlier = ChatReqs /\ DOMAIN backend = ChatWorkers
    /\ chatCame \in [ChatReqs -> Nat]
    /\ \A q \in ChatReqs : chatPc[q] # "new" =>
           chatAt[q] \in ChatWorkers /\ backend[chatAt[q]] # "unset" /\ chatCame[q] <= chatNow
    /\ \A w \in ChatWorkers : IsFiniteSet(IdsOf(w)) /\ DOMAIN memStore[w] \subseteq IdsOf(w)
    /\ \A q \in ChatReqs : ByMemory(q) => KeptOrExcused(q) /\ FoundAgain(q)

LEMMA InitKeepInv == ChatInit => KeepInv
<1> SUFFICES ASSUME ChatInit PROVE KeepInv
  OBVIOUS
<1>1. \A w \in ChatWorkers : IdsOf(w) = {} /\ DOMAIN memStore[w] = {}
  BY DEF ChatInit, IdsOf, Served
<1>2. \A q \in ChatReqs : chatPc[q] = "new"
  BY DEF ChatInit
<1>3. \A w \in ChatWorkers : IsFiniteSet(IdsOf(w))
  BY <1>1, FS_EmptySet
<1> QED BY <1>1, <1>2, <1>3 DEF ChatInit, KeepInv, ByMemory

\* A prune drops what is too old, or anything when there is too much.
LEMMA PruneExplains ==
    ASSUME NEW store, NEW rest \in Prune(store), IsFiniteSet(DOMAIN store), NEW k \in DOMAIN store
    PROVE  \/ k \in DOMAIN rest /\ rest[k] = store[k]
           \/ Stale(sessions[store[k]].stamp)
           \/ Cardinality(DOMAIN store) > SessionMax
<1> DEFINE fresh == Drop(store, Expired(store))
<1>1. PICK drop \in Crowd(fresh) : rest = Drop(fresh, drop)
  BY DEF Prune
<1>2. DOMAIN fresh = DOMAIN store \ Expired(store) /\ \A x \in DOMAIN fresh : fresh[x] = store[x]
  BY DEF Drop
<1>3. k \in Expired(store) => Stale(sessions[store[k]].stamp)
  BY DEF Expired
<1> HIDE DEF fresh
<1>4. CASE k \in DOMAIN fresh \ drop
  BY <1>1, <1>2, <1>4 DEF Drop
<1>5. CASE k \in drop
  <2>1. /\ drop \in SUBSET DOMAIN fresh
        /\ Cardinality(drop) = IF Cardinality(DOMAIN fresh) <= SessionMax THEN 0
                               ELSE Cardinality(DOMAIN fresh) - SessionMax
    BY DEF Crowd
  <2>2. /\ IsFiniteSet(DOMAIN fresh) /\ Cardinality(DOMAIN fresh) <= Cardinality(DOMAIN store)
        /\ Cardinality(DOMAIN fresh) \in Nat /\ Cardinality(DOMAIN store) \in Nat
    <3>1. DOMAIN fresh \in SUBSET DOMAIN store
      BY <1>2
    <3> QED BY <3>1, FS_Subset, FS_CardinalityType
  <2>3. IsFiniteSet(drop)
    BY <2>1, <2>2, FS_Subset
  <2>4. Cardinality(drop) # 0
    BY <1>5, <2>3, FS_EmptySet
  <2> QED BY <2>1, <2>2, <2>4, ChatAssumption
<1> QED BY <1>2, <1>3, <1>4, <1>5

\* A request that begins is served by its worker from then on, and changes
\* nothing of what the others hold.
LEMMA BeginServes ==
    ASSUME ChatInv, KeepInv, NEW r \in ChatReqs, NEW w \in ChatWorkers,
           NEW b \in Backends(w), NEW object, Begin(r, w, b, object)
    PROVE  /\ chatPc[r] = "new" /\ chatNow' = chatNow
           /\ \A q \in ChatReqs \ {r} : /\ chatPc'[q] = chatPc[q] /\ chatAt'[q] = chatAt[q]
                                        /\ chatObj'[q] = chatObj[q] /\ chatCame'[q] = chatCame[q]
                                        /\ earlier'[q] = earlier[q]
           /\ chatPc'[r] = "open" /\ chatAt'[r] = w /\ chatObj'[r] = object
           /\ chatCame'[r] = chatNow /\ earlier'[r] = Continued(r, w, b)
           /\ \A v \in ChatWorkers : backend'[v] = IF v = w THEN b ELSE backend[v]
           /\ b # "unset" /\ (backend[w] # "unset" => backend[w] = b)
           /\ DOMAIN chatAt' = ChatReqs /\ DOMAIN earlier' = ChatReqs /\ DOMAIN backend' = ChatWorkers
           /\ chatCame' \in [ChatReqs -> Nat]
<1>1. /\ DOMAIN chatPc = ChatReqs /\ DOMAIN chatObj = ChatReqs /\ chatNow \in Nat
      /\ DOMAIN chatAt = ChatReqs /\ DOMAIN earlier = ChatReqs /\ DOMAIN backend = ChatWorkers
      /\ chatCame \in [ChatReqs -> Nat]
  BY DEF ChatInv, KeepInv
<1>2. b # "unset" /\ (backend[w] # "unset" => backend[w] = b)
  BY DEF Backends
<1> QED BY <1>1, <1>2 DEF Begin

LEMMA ExcusesStay ==
    ASSUME ChatInv, KeepInv, NEW r \in ChatReqs, NEW w \in ChatWorkers,
           NEW b \in Backends(w), NEW object, Begin(r, w, b, object)
    PROVE  /\ \A v \in ChatWorkers : /\ IdsOf(v)' = IF v = w THEN IdsOf(v) \cup {IdOf(r)} ELSE IdsOf(v)
                                     /\ IsFiniteSet(IdsOf(v)')
                                     /\ Crowded(v) => Crowded(v)'
           /\ \A q \in ChatReqs \ {r} : chatPc[q] # "new" =>
                  /\ Shared(q) => Shared(q)'
                  /\ Crowded(chatAt[q]) => Crowded(chatAt[q])'
<1>1. ASSUME NEW v \in ChatWorkers
      PROVE  Served(v)' = IF v = w THEN Served(v) \cup {r} ELSE Served(v)
  BY BeginServes DEF Served
<1>2. ASSUME NEW v \in ChatWorkers
      PROVE  /\ IdsOf(v)' = IF v = w THEN IdsOf(v) \cup {IdOf(r)} ELSE IdsOf(v)
             /\ IsFiniteSet(IdsOf(v)')
             /\ Crowded(v) => Crowded(v)'
  <2>1. IdsOf(v)' = IF v = w THEN IdsOf(v) \cup {IdOf(r)} ELSE IdsOf(v)
    BY <1>1 DEF IdsOf, IdOf
  <2>2. IsFiniteSet(IdsOf(v))
    BY DEF KeepInv
  <2>3. IsFiniteSet(IdsOf(v)')
    BY <2>1, <2>2, FS_AddElement
  <2>4. Cardinality(IdsOf(v)) <= Cardinality(IdsOf(v)')
    <3>1. IdsOf(v) \in SUBSET IdsOf(v)'
      BY <2>1
    <3> QED BY <2>3, <3>1, FS_Subset
  <2>5. Cardinality(IdsOf(v)) \in Nat /\ Cardinality(IdsOf(v)') \in Nat
    BY <2>2, <2>3, FS_CardinalityType
  <2>6. Crowded(v) => Crowded(v)'
    <3>1. Crowded(v)' <=> Cardinality(IdsOf(v)') > SessionMax
      BY DEF Crowded
    <3> QED BY <2>4, <2>5, <3>1, ChatAssumption DEF Crowded
  <2> QED BY <2>1, <2>3, <2>6
<1>3. ASSUME NEW q \in ChatReqs \ {r}, chatPc[q] # "new", Shared(q) PROVE Shared(q)'
  <2>1. chatAt'[q] = chatAt[q] /\ chatAt[q] \in ChatWorkers
    BY <1>3, BeginServes DEF KeepInv
  <2>2. PICK s \in Served(chatAt[q]) : IdOf(s) = IdOf(q) /\ ChatOwnerOf[s] # ChatOwnerOf[q]
    BY <1>3 DEF Shared
  <2>3. s \in Served(chatAt[q])'
    BY <1>1, <2>1
  <2> QED BY <2>2, <2>3 DEF Shared, IdOf
<1>4. ASSUME NEW q \in ChatReqs \ {r}, chatPc[q] # "new", Crowded(chatAt[q])
      PROVE  Crowded(chatAt[q])'
  <2>1. PICK v \in ChatWorkers : v = chatAt[q] /\ v = chatAt'[q]
    BY <1>4, BeginServes DEF KeepInv
  <2>2. Crowded(v)'
    BY <1>2, <1>4, <2>1
  <2>3. Served(v)' = Served(chatAt[q])'
    BY <2>1 DEF Served
  <2> QED BY <2>2, <2>3 DEF Crowded, IdsOf, IdOf
<1> QED BY <1>2, <1>3, <1>4

\* What is left to show of a request that begins: what became of the store.
LEMMA BeginKeeps ==
    ASSUME ChatInv, KeepInv, NEW r \in ChatReqs, NEW w \in ChatWorkers,
           NEW b \in Backends(w), NEW object, Begin(r, w, b, object),
           \A v \in ChatWorkers : DOMAIN memStore'[v] \subseteq IdsOf(v)',
           \A q \in ChatReqs \ {r} : ByMemory(q) /\ ByMemory(q)' /\ StillThere(q) => KeptOrExcused(q)',
           b = "memory" => StillThere(r)'
    PROVE  KeepInv'
<1>1. ASSUME NEW q \in ChatReqs, chatPc'[q] # "new"
      PROVE  chatAt'[q] \in ChatWorkers /\ backend'[chatAt'[q]] # "unset" /\ chatCame'[q] <= chatNow'
  <2>1. chatNow \in Nat
    BY DEF ChatInv
  <2>2. CASE q = r
    BY <2>1, <2>2, BeginServes
  <2>3. CASE q # r
    BY <1>1, <2>3, BeginServes DEF KeepInv
  <2> QED BY <2>2, <2>3
<1>2. ASSUME NEW q \in ChatReqs, ByMemory(q)' PROVE KeptOrExcused(q)'
  <2>1. CASE q = r
    <3>1. b = "memory"
      BY <1>2, <2>1, BeginServes DEF ByMemory
    <3> QED BY <2>1, <3>1 DEF KeptOrExcused
  <2>2. CASE q # r
    <3>1. chatPc[q] # "new" /\ chatAt'[q] = chatAt[q] /\ chatCame'[q] = chatCame[q]
          /\ backend'[chatAt[q]] = "memory"
      BY <1>2, <2>2, BeginServes DEF ByMemory
    <3>2. chatAt[q] \in ChatWorkers /\ backend[chatAt[q]] # "unset"
      BY <3>1 DEF KeepInv
    <3>3. ByMemory(q)
      BY <3>1, <3>2, BeginServes DEF ByMemory
    <3>4. KeptOrExcused(q)
      BY <3>3 DEF KeepInv
    <3>5. CASE Shared(q)
      BY <2>2, <3>1, <3>5, ExcusesStay DEF KeptOrExcused
    <3>6. CASE Crowded(chatAt[q])
      BY <2>2, <3>1, <3>6, ExcusesStay DEF KeptOrExcused
    <3>7. CASE Stale(chatCame[q])
      BY <3>1, <3>7, BeginServes DEF Stale, KeptOrExcused
    <3>8. CASE StillThere(q)
      BY <1>2, <2>2, <3>3, <3>8
    <3> QED BY <3>4, <3>5, <3>6, <3>7, <3>8 DEF KeptOrExcused
  <2> QED BY <2>1, <2>2
<1>3. ASSUME NEW q \in ChatReqs \ {r}, ByMemory(q)' PROVE FoundAgain(q)'
  <2>1. /\ chatPc[q] # "new" /\ chatAt'[q] = chatAt[q] /\ chatObj'[q] = chatObj[q]
        /\ earlier'[q] = earlier[q] /\ backend'[chatAt[q]] = "memory"
    BY <1>3, BeginServes DEF ByMemory
  <2>2. chatAt[q] \in ChatWorkers /\ backend[chatAt[q]] # "unset"
    BY <2>1 DEF KeepInv
  <2>3. ByMemory(q)
    BY <2>1, <2>2, BeginServes DEF ByMemory
  <2>4. FoundAgain(q)
    BY <2>3 DEF KeepInv
  <2>5. ASSUME NEW p \in earlier[q]
        PROVE  /\ p \in ChatReqs /\ chatPc'[p] # "new"
               /\ chatObj'[p] = chatObj'[q] \/ Shared(q)' \/ Crowded(chatAt[q])'
    <3>1. p \in ChatReqs \ {r} /\ chatPc[p] # "new"
      BY <2>4, BeginServes DEF FoundAgain
    <3> QED BY <2>1, <2>4, <3>1, BeginServes, ExcusesStay DEF FoundAgain
  <2> QED BY <2>1, <2>5 DEF FoundAgain
<1>4. ASSUME ByMemory(r)' PROVE FoundAgain(r)'
  <2>1. /\ b = "memory" /\ earlier'[r] = Continued(r, w, b) /\ chatAt'[r] = w
        /\ backend'[w] = "memory"
    BY <1>4, BeginServes DEF ByMemory
  <2>2. ASSUME NEW p \in Continued(r, w, b)
        PROVE  /\ p \in ChatReqs /\ chatPc'[p] # "new"
               /\ chatObj'[p] = chatObj'[r] \/ Shared(r)' \/ Crowded(chatAt[r])'
    <3>1. /\ p \in ChatReqs \ {r} /\ chatPc[p] = "done" /\ IdOf(p) = IdOf(r)
          /\ ChatOwnerOf[p] = ChatOwnerOf[r] /\ ~Stale(chatCame[p]) /\ chatAt[p] = w
      BY <2>1 DEF Continued
    <3>2. /\ chatPc'[p] = "done" /\ chatAt'[p] = w /\ chatCame'[p] = chatCame[p] /\ chatNow' = chatNow
      BY <3>1, BeginServes
    <3>3. KeptOrExcused(p)'
      BY <1>2, <2>1, <3>1, <3>2 DEF ByMemory
    <3>4. CASE Shared(p)'
      BY <2>1, <3>1, <3>2, <3>4 DEF Shared, Served, IdOf
    <3>5. CASE Crowded(chatAt[p])'
      <4>1. Served(chatAt[p])' = Served(chatAt[r])'
        BY <2>1, <3>2 DEF Served
      <4>2. Crowded(chatAt[r])'
        BY <3>5, <4>1 DEF Crowded, IdsOf, IdOf
      <4> QED BY <3>1, <3>2, <4>2
    <3>6. CASE Stale(chatCame[p])'
      BY <3>1, <3>2, <3>6 DEF Stale
    <3>7. CASE StillThere(p)'
      BY <2>1, <3>1, <3>2, <3>7 DEF StillThere, IdOf
    <3> QED BY <3>1, <3>2, <3>3, <3>4, <3>5, <3>6, <3>7 DEF KeptOrExcused
  <2> QED BY <2>1, <2>2 DEF FoundAgain
<1>5. \A v \in ChatWorkers : IsFiniteSet(IdsOf(v)')
  BY ExcusesStay
<1> QED BY <1>1, <1>2, <1>3, <1>4, <1>5, BeginServes DEF KeepInv

LEMMA MemoryKeeps ==
    ASSUME ChatInv, KeepInv, NEW r \in ChatReqs, NEW w \in ChatWorkers, OpenInMemory(r, w)
    PROVE  KeepInv'
<1> DEFINE id == IdOf(r)
<1> PICK store \in Prune(memStore[w]) :
        LET keep == /\ id \in DOMAIN store
                    /\ SameOwner(sessions[store[id]], r)
                    /\ ~Stale(sessions[store[id]].stamp)
            object == IF keep THEN store[id] ELSE r
        IN /\ Begin(r, w, "memory", object)
           /\ memStore' = [memStore EXCEPT ![w] = Put(store, id, object)]
           /\ sessions' = IF keep THEN [sessions EXCEPT ![object].stamp = chatNow]
                          ELSE Put(sessions, r, Blank(ChatOwnerOf[r]))
           /\ UNCHANGED redis
  BY DEF OpenInMemory
<1> DEFINE keep == /\ id \in DOMAIN store
                   /\ SameOwner(sessions[store[id]], r)
                   /\ ~Stale(sessions[store[id]].stamp)
           object == IF keep THEN store[id] ELSE r
<1>1. /\ Begin(r, w, "memory", object) /\ memStore' = [memStore EXCEPT ![w] = Put(store, id, object)]
      /\ sessions' = IF keep THEN [sessions EXCEPT ![object].stamp = chatNow]
                     ELSE Put(sessions, r, Blank(ChatOwnerOf[r]))
      /\ "memory" \in Backends(w)
  BY DEF OpenInMemory
<1>2. /\ chatNow \in Nat /\ DOMAIN memStore = ChatWorkers /\ StoreOk(w)
      /\ (\A o \in DOMAIN sessions : ObjectOk(o)) /\ \A q \in ChatReqs : HolderOk(q)
      /\ IsFiniteSet(IdsOf(w)) /\ DOMAIN memStore[w] \subseteq IdsOf(w)
  BY DEF ChatInv, KeepInv
<1>3. keep <=> /\ id \in DOMAIN store
               /\ SameOwner(sessions[store[id]], r)
               /\ ~Stale(sessions[store[id]].stamp)
  OBVIOUS
<1>4. object = IF keep THEN store[id] ELSE r
  OBVIOUS
<1>5. /\ DOMAIN store \subseteq DOMAIN memStore[w]
      /\ \A k \in DOMAIN store : store[k] = memStore[w][k] /\ store[k] \in DOMAIN sessions
  BY <1>2, PruneLeaves DEF StoreOk
<1> HIDE DEF keep, object, id
<1>6. /\ DOMAIN Put(store, id, object) = DOMAIN store \cup {id}
      /\ \A k \in DOMAIN store \cup {id} :
            Put(store, id, object)[k] = IF k = id THEN object ELSE store[k]
  BY DEF Put
<1>7. \A o \in DOMAIN sessions : /\ sessions[o].stamp \in Nat
                                 /\ sessions'[o].stamp \in {sessions[o].stamp, chatNow}
  <2>1. ASSUME NEW o \in DOMAIN sessions
        PROVE  sessions[o].stamp \in Nat /\ sessions'[o].stamp \in {sessions[o].stamp, chatNow}
    <3>1. sessions[o] \in SessionRecord
      BY <1>2 DEF ObjectOk
    <3>2. sessions[o].stamp \in Nat
      BY <3>1 DEF SessionRecord
    <3>3. CASE keep
      <4>1. CASE o = object
        <5>1. sessions'[o] = [sessions[o] EXCEPT !.stamp = chatNow]
          BY <1>1, <3>3, <4>1
        <5> QED BY <3>1, <3>2, <5>1 DEF SessionRecord
      <4> QED BY <1>1, <3>2, <3>3, <4>1
    <3>4. CASE ~keep
      <4>1. sessions'[o] = IF o = r THEN Blank(ChatOwnerOf[r]) ELSE sessions[o]
        BY <1>1, <3>4 DEF Put
      <4> QED BY <3>2, <4>1 DEF Blank
    <3> QED BY <3>3, <3>4
  <2> QED BY <2>1
<1>8. sessions'[object].stamp = chatNow
  <2>1. CASE keep
    <3>1. object \in DOMAIN sessions
      BY <1>3, <1>4, <1>5, <2>1
    <3>2. sessions[object] \in SessionRecord /\ sessions'[object] = [sessions[object] EXCEPT !.stamp = chatNow]
      BY <1>1, <1>2, <2>1, <3>1 DEF ObjectOk
    <3> QED BY <3>2 DEF SessionRecord
  <2>2. CASE ~keep
    BY <1>1, <1>4, <2>2 DEF Put, Blank
  <2> QED BY <2>1, <2>2
<1>9. ASSUME NEW v \in ChatWorkers PROVE DOMAIN memStore'[v] \subseteq IdsOf(v)'
  <2>1. IdsOf(v)' = IF v = w THEN IdsOf(v) \cup {id} ELSE IdsOf(v)
    BY <1>1, ExcusesStay DEF id
  <2>2. memStore'[v] = IF v = w THEN Put(store, id, object) ELSE memStore[v]
    BY <1>1, <1>2
  <2>3. DOMAIN memStore[v] \subseteq IdsOf(v)
    BY DEF KeepInv
  <2> QED BY <1>5, <1>6, <2>1, <2>2, <2>3
<1>10. StillThere(r)'
  <2>1. chatAt'[r] = w /\ chatObj'[r] = object /\ chatCame'[r] = chatNow
    BY <1>1, BeginServes
  <2>2. memStore'[w] = Put(store, id, object)
    BY <1>1, <1>2
  <2>3. id \in DOMAIN memStore'[w] /\ memStore'[w][id] = object
    BY <1>6, <2>2
  <2>4. chatCame'[r] <= sessions'[chatObj'[r]].stamp
    BY <1>2, <1>8, <2>1
  <2>5. IdOf(r)' = id /\ memStore'[chatAt'[r]] = memStore'[w]
    BY <2>1 DEF IdOf, id
  <2> QED BY <2>1, <2>3, <2>4, <2>5 DEF StillThere
<1>11. ASSUME NEW q \in ChatReqs \ {r}, ByMemory(q), ByMemory(q)', StillThere(q)
       PROVE  KeptOrExcused(q)'
  <2> DEFINE k == IdOf(q)
             v == chatAt[q]
  <2>1. /\ v \in ChatWorkers /\ chatAt'[q] = v /\ chatObj'[q] = chatObj[q] /\ chatPc[q] # "new"
        /\ chatCame'[q] = chatCame[q] /\ chatCame[q] \in Nat /\ chatNow' = chatNow
        /\ chatCame[q] <= chatNow
    BY <1>1, <1>11, BeginServes DEF KeepInv, ByMemory
  <2>2. /\ k \in DOMAIN memStore[v] /\ memStore[v][k] = chatObj[q]
        /\ chatCame[q] <= sessions[chatObj[q]].stamp
    BY <1>11 DEF StillThere
  <2>3. /\ chatObj[q] \in DOMAIN sessions /\ ChatOwnerOf[chatObj[q]] = ChatOwnerOf[q]
        /\ sessions[chatObj[q]].owner = ChatOwnerOf[q]
    BY <1>2, <2>1 DEF HolderOk, ObjectOk
  <2>4. chatCame'[q] <= sessions'[chatObj[q]].stamp
    BY <1>2, <1>7, <2>1, <2>2, <2>3
  <2>5. Stale(sessions[chatObj[q]].stamp) => Stale(chatCame[q])'
    BY <1>2, <1>7, <2>1, <2>2, <2>3, ChatAssumption DEF Stale
  <2>6. k \in DOMAIN memStore'[v] /\ memStore'[v][k] = chatObj[q] => StillThere(q)'
    BY <2>1, <2>4 DEF StillThere, IdOf
  <2>7. CASE v # w
    BY <1>1, <1>2, <2>2, <2>6, <2>7 DEF KeptOrExcused
  <2>8. CASE v = w
    <3>1. memStore'[v] = Put(store, id, object)
      BY <1>1, <1>2, <2>8
    <3>2. \/ k \in DOMAIN store /\ store[k] = chatObj[q]
          \/ Stale(sessions[chatObj[q]].stamp)
          \/ Cardinality(DOMAIN memStore[w]) > SessionMax
      <4>1. IsFiniteSet(DOMAIN memStore[w])
        BY <1>2, FS_Subset
      <4> QED BY <2>2, <2>8, <4>1, PruneExplains
    <3>3. CASE k \in DOMAIN store /\ store[k] = chatObj[q] /\ k # id
      BY <1>6, <2>6, <3>1, <3>3 DEF KeptOrExcused
    <3>4. CASE k \in DOMAIN store /\ store[k] = chatObj[q] /\ k = id /\ keep
      BY <1>4, <1>6, <2>6, <3>1, <3>4 DEF KeptOrExcused
    <3>5. CASE k \in DOMAIN store /\ store[k] = chatObj[q] /\ k = id /\ ~keep
      <4>1. Stale(sessions[chatObj[q]].stamp) \/ ~SameOwner(sessions[chatObj[q]], r)
        BY <1>3, <3>5
      <4>2. CASE ~SameOwner(sessions[chatObj[q]], r)
        <5>1. ChatOwnerOf[r] # ChatOwnerOf[q] /\ IdOf(r) = IdOf(q)
          BY <2>3, <3>5, <4>2 DEF SameOwner, id
        <5>2. chatPc'[r] # "new" /\ chatAt'[r] = w
          BY <1>1, BeginServes
        <5>3. Shared(q)'
          BY <2>1, <2>8, <5>1, <5>2 DEF Shared, Served, IdOf
        <5> QED BY <5>3 DEF KeptOrExcused
      <4> QED BY <2>5, <4>1, <4>2 DEF KeptOrExcused
    <3>6. CASE Cardinality(DOMAIN memStore[w]) > SessionMax
      <4>1. /\ Cardinality(DOMAIN memStore[w]) <= Cardinality(IdsOf(w))
            /\ Cardinality(DOMAIN memStore[w]) \in Nat /\ Cardinality(IdsOf(w)) \in Nat
        <5>1. DOMAIN memStore[w] \in SUBSET IdsOf(w)
          BY <1>2
        <5> QED BY <1>2, <5>1, FS_Subset, FS_CardinalityType
      <4>2. Crowded(w)
        BY <3>6, <4>1, ChatAssumption DEF Crowded
      <4>3. Crowded(chatAt[q])
        BY <2>8, <4>2
      <4>4. Crowded(chatAt[q])'
        BY <1>1, <2>1, <4>3, ExcusesStay
      <4> QED BY <4>4 DEF KeptOrExcused
    <3> QED BY <2>5, <3>2, <3>3, <3>4, <3>5, <3>6 DEF KeptOrExcused
  <2> QED BY <2>7, <2>8
<1> QED BY <1>1, <1>9, <1>10, <1>11, BeginKeeps

\* A worker on Redis has no memory store to keep, and the object a request
\* makes there is no older than the request.
LEMMA RedisKeeps ==
    ASSUME ChatInv, KeepInv, NEW r \in ChatReqs, NEW w \in ChatWorkers, OpenInRedis(r, w)
    PROVE  KeepInv'
<1>1. PICK record \in SessionRecord :
        /\ Begin(r, w, "redis", r) /\ "redis" \in Backends(w)
        /\ record.stamp = chatNow
        /\ sessions' = Put(sessions, r, record) /\ memStore' = memStore
  <2>1. ASSUME NEW readable, RedisHas(IdOf(r), readable)
        PROVE  /\ [redis[IdOf(r)] EXCEPT !.stamp = chatNow] \in SessionRecord
               /\ [redis[IdOf(r)] EXCEPT !.stamp = chatNow].stamp = chatNow
    BY <2>1 DEF RedisHas, ChatInv, SavedOk, SessionRecord
  <2>2. Blank(ChatOwnerOf[r]) \in SessionRecord /\ Blank(ChatOwnerOf[r]).stamp = chatNow
    BY BlankOk DEF ChatInv, Blank
  <2> QED BY <2>1, <2>2 DEF OpenInRedis
<1>2. ASSUME NEW v \in ChatWorkers PROVE DOMAIN memStore'[v] \subseteq IdsOf(v)'
  BY <1>1, ExcusesStay DEF KeepInv
<1>3. ASSUME NEW q \in ChatReqs \ {r}, ByMemory(q), ByMemory(q)', StillThere(q)
      PROVE  KeptOrExcused(q)'
  <2>1. /\ chatAt'[q] = chatAt[q] /\ chatObj'[q] = chatObj[q] /\ chatCame'[q] = chatCame[q]
        /\ chatCame[q] <= chatNow
    BY <1>1, <1>3, BeginServes DEF KeepInv, ByMemory
  <2>2. chatObj[q] \in DOMAIN sessions
    BY <1>3 DEF ChatInv, HolderOk, ByMemory
  <2>3. sessions'[chatObj[q]] = IF chatObj[q] = r THEN record ELSE sessions[chatObj[q]]
    BY <1>1, <2>2 DEF Put
  <2>4. StillThere(q)'
    BY <1>1, <1>3, <2>1, <2>3 DEF StillThere, IdOf
  <2> QED BY <2>4 DEF KeptOrExcused
<1> QED BY <1>1, <1>2, <1>3, BeginKeeps

\* Turns that talk keep the stamps going, time makes requests old.
LEMMA TalkKeeps ==
    ASSUME ChatInv, KeepInv,
           ChatTick \/ (\E r \in ChatReqs : HydrateSession(r) \/ AppendMessage(r)) \/ UNCHANGED chatVars
    PROVE  KeepInv'
<1>1. /\ UNCHANGED <<chatAt, chatObj, backend, memStore, chatCame, earlier>>
      /\ \A q \in ChatReqs : chatPc'[q] = "new" <=> chatPc[q] = "new"
      /\ chatNow \in Nat /\ chatNow' \in Nat /\ chatNow <= chatNow'
  <2>1. chatNow \in Nat /\ DOMAIN chatPc = ChatReqs
    BY DEF ChatInv
  <2>2. CASE ChatTick \/ UNCHANGED chatVars
    BY <2>1, <2>2 DEF ChatTick, chatVars
  <2>3. CASE \E r \in ChatReqs : HydrateSession(r)
    BY <2>1, <2>3 DEF HydrateSession
  <2>4. CASE \E r \in ChatReqs : AppendMessage(r)
    BY <2>1, <2>4 DEF AppendMessage
  <2> QED BY <2>2, <2>3, <2>4
<1>2. ASSUME NEW o \in DOMAIN sessions
      PROVE  sessions[o].stamp \in Nat /\ sessions'[o].stamp \in {sessions[o].stamp, chatNow}
  <2>1. sessions[o] \in SessionRecord /\ sessions[o].stamp \in Nat
    BY DEF ChatInv, ObjectOk, SessionRecord
  <2>2. CASE sessions' = sessions
    BY <2>1, <2>2
  <2>3. CASE \E r \in ChatReqs : HydrateSession(r) /\ sessions' # sessions
    <3>1. PICK r \in ChatReqs : HydrateSession(r) /\ sessions' # sessions
      BY <2>3
    <3>2. /\ o # chatObj[r] => sessions'[o] = sessions[o]
          /\ o = chatObj[r] => sessions'[o] = [sessions[o] EXCEPT !.messages = <<r>>, !.stamp = chatNow]
      BY <3>1 DEF HydrateSession
    <3> QED BY <2>1, <3>2 DEF SessionRecord
  <2>4. CASE \E r \in ChatReqs : AppendMessage(r)
    <3>1. PICK r \in ChatReqs : AppendMessage(r)
      BY <2>4
    <3>2. /\ o # chatObj[r] => sessions'[o] = sessions[o]
          /\ o = chatObj[r] => sessions'[o] = [sessions[o] EXCEPT !.messages = Append(@, r), !.stamp = chatNow]
      BY <3>1 DEF AppendMessage
    <3> QED BY <2>1, <3>2 DEF SessionRecord
  <2> QED BY <2>2, <2>3, <2>4 DEF ChatTick, chatVars
<1>3. ASSUME NEW v PROVE IdsOf(v)' = IdsOf(v) /\ Served(v)' = Served(v)
  BY <1>1 DEF IdsOf, Served, IdOf
<1>4. ASSUME NEW q \in ChatReqs, ByMemory(q)' PROVE ByMemory(q)
  BY <1>1, <1>4 DEF ByMemory
<1>5. ASSUME NEW q \in ChatReqs
      PROVE  /\ Shared(q) => Shared(q)'
             /\ Crowded(chatAt[q]) => Crowded(chatAt[q])'
  BY <1>1 DEF Shared, Crowded, IdsOf, Served, IdOf
<1>6. ASSUME NEW q \in ChatReqs, ByMemory(q) PROVE KeptOrExcused(q)' /\ FoundAgain(q)'
  <2>1. KeptOrExcused(q) /\ FoundAgain(q) /\ chatCame[q] \in Nat /\ chatCame[q] <= chatNow
    BY <1>6 DEF KeepInv, ByMemory
  <2>2. Stale(chatCame[q]) => Stale(chatCame[q])'
    BY <1>1, <2>1, ChatAssumption DEF Stale
  <2>3. StillThere(q) => StillThere(q)'
    <3>1. chatObj[q] \in DOMAIN sessions
      BY <1>6 DEF ChatInv, HolderOk, ByMemory
    <3> QED BY <1>1, <1>2, <2>1, <3>1 DEF StillThere, IdOf
  <2>4. KeptOrExcused(q)'
    BY <1>5, <2>1, <2>2, <2>3 DEF KeptOrExcused
  <2>5. FoundAgain(q)'
    BY <1>1, <1>5, <2>1 DEF FoundAgain
  <2> QED BY <2>4, <2>5
<1>7. \A q \in ChatReqs : chatPc'[q] # "new" =>
          chatAt'[q] \in ChatWorkers /\ backend'[chatAt'[q]] # "unset" /\ chatCame'[q] <= chatNow'
  BY <1>1 DEF KeepInv
<1>8. \A v \in ChatWorkers : IsFiniteSet(IdsOf(v)') /\ DOMAIN memStore'[v] \subseteq IdsOf(v)'
  BY <1>1, <1>3 DEF KeepInv
<1> QED BY <1>1, <1>4, <1>6, <1>7, <1>8 DEF KeepInv

LEMMA KeepStep == ChatInv /\ KeepInv /\ [ChatNext]_chatVars => KeepInv'
BY MemoryKeeps, RedisKeeps, TalkKeeps DEF ChatNext

\* A memory store loses a chat in use only to another owner of its id or to
\* more chats than it keeps, for any number of requests, owners and workers.
THEOREM SpecMemoryKeepsChat == ChatSpec => []MemoryKeepsChat
<1>1. KeepInv => MemoryKeepsChat
  <2> SUFFICES ASSUME KeepInv, NEW r \in ChatReqs, ByMemory(r), NEW q \in earlier[r]
               PROVE  LET seen == {s \in ChatReqs : chatPc[s] # "new" /\ chatAt[s] = chatAt[r]}
                      IN  \/ chatObj[q] = chatObj[r]
                          \/ \E s \in seen : IdOf(s) = IdOf(r) /\ ChatOwnerOf[s] # ChatOwnerOf[r]
                          \/ Cardinality({IdOf(s) : s \in seen}) > SessionMax
    BY DEF MemoryKeepsChat, ByMemory
  <2>1. chatObj[q] = chatObj[r] \/ Shared(r) \/ Crowded(chatAt[r])
    BY DEF KeepInv, FoundAgain
  <2> QED BY <2>1 DEF Shared, Crowded, IdsOf, Served
<1> QED BY <1>1, SpecChatInv, InitKeepInv, KeepStep, PTL DEF ChatSpec
=============================================================================
