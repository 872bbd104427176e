-------------------------- MODULE AutomationsProofs --------------------------
(***************************************************************************)
(* Proofs about Automations, for any ids, processes, tool calls, schedules *)
(* and bounds.  Two arguments: everything a scheduler does happens under   *)
(* the leader lock, and where one process edits, the loop it keeps busy    *)
(* between the read and the write of a row keeps every edit.               *)
(***************************************************************************)
EXTENDS Automations, TLAPS

LEMMA Places == \A t \in Threads : Where(t) \in Procs
BY AutomationAssumption DEF Threads, Where

LEMMA InitTypeOK == Init => TypeOK
<1> SUFFICES ASSUME Init PROVE TypeOK
  OBVIOUS
<1>1. Blank("unborn") \in Rows /\ NoDraft \in [id : Ids \cup {NoId}, row : Rows, sets : {"all", "status", "cron"}]
  BY DEF Blank, Rows, Statuses, NoDraft
<1>2. NoJobs \in Registered
  BY DEF NoJobs, Registered
<1> QED BY <1>1, <1>2, AutomationAssumption DEF Init, TypeOK

\* The edits, and the first half of a write, keep the types.
LEMMA EditTypeOK ==
    ASSUME TypeOK, NEW c \in Callers, EditStep(c) PROVE TypeOK'
<1>0. c \in Threads /\ \A s : s \in Statuses => Blank(s) \in Rows
  BY DEF Threads, Blank, Rows
<1>1. edits' \in 0..MaxEdits
  BY AutomationAssumption DEF EditStep, Create, UpdateStatus, UpdateCron, Delete, Edit, TypeOK
<1> USE <1>0, <1>1 DEF TypeOK, Edit, Goto, procVars, syncVars
<1>2. CASE \E i \in Ids, status \in Accepted, cron \in Schedules : Create(c, i, status, cron)
  <2>1. PICK i \in Ids, status \in Accepted, cron \in Schedules : Create(c, i, status, cron)
    BY <1>2
  <2>2. Blank("torn") \in Rows /\ [status |-> status, cron |-> cron] \in Rows
    BY DEF Accepted, Statuses, Rows, Blank
  <2> QED BY <2>1, <2>2 DEF Create
<1>3. CASE \E i \in Ids, status \in Accepted : UpdateStatus(c, i, status)
  <2>1. PICK i \in Ids, status \in Accepted : UpdateStatus(c, i, status)
    BY <1>3
  <2>2. [file[i] EXCEPT !.status = status] \in Rows
    BY DEF Accepted, Statuses, Rows
  <2> QED BY <2>1, <2>2 DEF UpdateStatus
<1>4. CASE \E i \in Ids, cron \in Schedules : UpdateCron(c, i, cron)
  <2>1. PICK i \in Ids, cron \in Schedules : UpdateCron(c, i, cron)
    BY <1>4
  <2>2. [file[i] EXCEPT !.cron = cron] \in Rows
    BY DEF Rows
  <2> QED BY <2>1, <2>2 DEF UpdateCron
<1>5. CASE \E i \in Ids : Delete(c, i)
  <2>1. Blank("deleted") \in Rows
    BY DEF Blank, Rows, Statuses
  <2> QED BY <1>5, <2>1 DEF Delete
<1> QED BY <1>2, <1>3, <1>4, <1>5 DEF EditStep

LEMMA StoreTypeOK ==
    ASSUME TypeOK, NEW c \in Callers, StoreStep(c) PROVE TypeOK'
<1>0. c \in Threads /\ Blank("torn") \in Rows /\ draft[c].row \in Rows
      /\ NoDraft \in [id : Ids \cup {NoId}, row : Rows, sets : {"all", "status", "cron"}]
  BY DEF Threads, Blank, Rows, Statuses, NoDraft, TypeOK
<1> USE <1>0 DEF TypeOK, Goto, procVars, syncVars
<1>1. CASE Truncate(c)
  BY <1>1 DEF Truncate
<1>2. CASE Write(c)
  <2> DEFINE d == draft[c]
             new == CASE d.sets = "all" -> d.row
                      [] d.sets = "status" -> [intent[d.id] EXCEPT !.status = d.row.status]
                      [] d.sets = "cron" -> [intent[d.id] EXCEPT !.cron = d.row.cron]
  <2>1. d.id \in Ids => new \in Rows
    BY DEF Rows
  <2>2. intent' = [intent EXCEPT ![d.id] = new]
    BY <1>2 DEF Write
  <2>3. intent' \in [Ids -> Rows]
    BY <2>1, <2>2
  <2> HIDE DEF new
  <2> QED BY <1>2, <2>3 DEF Write
<1> QED BY <1>1, <1>2 DEF StoreStep

\* A thread that ends leaves the types alone.
LEMMA FinishTypes ==
    ASSUME TypeOK, NEW t \in Threads, Finish(t)
    PROVE  /\ phase' \in [Threads -> {"idle", "read", "write", "list", "add", "scan", "remove"}]
           /\ seen' \in [Threads -> Registered]
           /\ life' \in [Procs -> {"off", "starting", "up"}]
<1>1. NoJobs \in Registered
  BY DEF NoJobs, Registered
<1> QED BY <1>1 DEF Finish, Goto, TypeOK

LEMMA SyncTypeOK ==
    ASSUME TypeOK, NEW t \in Threads, SyncStep(t) PROVE TypeOK'
<1>0. Where(t) \in Procs
  BY Places
<1> USE <1>0 DEF TypeOK, storeVars, procVars, syncVars
<1>1. CASE SyncList(t)
  <2>1. [i \in Ids |-> Wanted(i)] \in Registered
    BY DEF Wanted, Registered, Rows
  <2> QED BY <1>1, <2>1, FinishTypes DEF SyncList, Goto
<1>2. CASE SyncAdd(t)
  <2>1. seen[t] \in Registered /\ jobs[Where(t)] \in Registered
    OBVIOUS
  <2>2. [i \in Ids |-> IF seen[t][i] \in Schedules \ Unparsable
                       THEN seen[t][i] ELSE jobs[Where(t)][i]] \in Registered
    BY <2>1 DEF Registered
  <2> QED BY <1>2, <2>2 DEF SyncAdd, Goto
<1>3. CASE SyncScan(t)
  BY <1>3 DEF SyncScan, Goto
<1>4. ASSUME NEW i \in Ids, SyncRemove(t, i) PROVE TypeOK'
  <2>1. CASE jobs[Where(t)][i] # NoJob
    <3>1. [jobs[Where(t)] EXCEPT ![i] = NoJob] \in Registered
      BY DEF Registered
    <3>2. jobs' = [jobs EXCEPT ![Where(t)] = [jobs[Where(t)] EXCEPT ![i] = NoJob]]
      BY <1>4, <2>1 DEF SyncRemove
    <3> QED BY <1>4, <2>1, <3>1, <3>2 DEF SyncRemove
  <2>2. CASE jobs[Where(t)][i] = NoJob
    BY <1>4, <2>2, FinishTypes DEF SyncRemove
  <2> QED BY <2>1, <2>2
<1>5. CASE SyncDone(t)
  BY <1>5, FinishTypes DEF SyncDone
<1> QED BY <1>1, <1>2, <1>3, <1>4, <1>5 DEF SyncStep

LEMMA LeaveTypeOK ==
    ASSUME TypeOK, NEW p \in Procs, Leave(p) PROVE TypeOK'
<1>1. NoJobs \in Registered /\ NoDraft \in [id : Ids \cup {NoId}, row : Rows, sets : {"all", "status", "cron"}]
  BY DEF NoJobs, Registered, NoDraft, Blank, Rows, Statuses
<1>2. stops' \in 0..MaxStops
  BY AutomationAssumption DEF Leave, TypeOK
<1> QED BY <1>1, <1>2 DEF Leave, TypeOK

LEMMA ProcTypeOK ==
    ASSUME TypeOK, NEW p \in Procs,
           \/ Resync(p) \/ Start(p) \/ Shutdown(p) \/ Crash(p)
           \/ \E i \in Ids : Tick(p, i) \/ TickEnds(p, i)
    PROVE  TypeOK'
<1>0. p \in Threads
  BY DEF Threads
<1> USE <1>0 DEF TypeOK, storeVars, procVars, syncVars, Goto
<1>1. CASE Resync(p)
  BY <1>1 DEF Resync
<1>2. CASE Start(p)
  BY <1>2 DEF Start
<1>3. CASE Shutdown(p) \/ Crash(p)
  BY <1>3, LeaveTypeOK DEF Shutdown, Crash
<1>4. CASE \E i \in Ids : Tick(p, i) \/ TickEnds(p, i)
  BY <1>4 DEF Tick, TickEnds
<1> QED BY <1>1, <1>2, <1>3, <1>4

\* Type correctness of the files, the processes, their jobs and threads.
THEOREM SpecAutomationTypeOK == Spec => []TypeOK
<1>1. ASSUME TypeOK, [Next]_vars PROVE TypeOK'
  <2>1. CASE UNCHANGED vars
    BY <1>1, <2>1 DEF vars, storeVars, procVars, syncVars, TypeOK
  <2> QED BY <1>1, <2>1, EditTypeOK, StoreTypeOK, SyncTypeOK, ProcTypeOK DEF Next
<1> QED BY <1>1, InitTypeOK, PTL DEF Spec
-----------------------------------------------------------------------------
\* Whatever a scheduler has or does, its process holds the leader lock.
LeaderInv ==
    /\ \A p \in Procs, i \in Ids : jobs[p][i] # NoJob => lock = p
    /\ \A p \in Procs, i \in Ids : i \in ticking[p] => lock = p
    /\ \A t \in Threads : phase[t] \in {"add", "scan", "remove"} => lock = Where(t)
    /\ \A p \in Procs : lock = p => life[p] # "off"

LEMMA InitLeaderInv == Init => LeaderInv
BY AutomationAssumption, Places DEF Init, LeaderInv, NoJobs

\* The steps that leave the scheduler, its runs and the lock alone.
LEMMA QuietLeaderInv ==
    ASSUME TypeOK, LeaderInv, NEW c \in Callers, EditStep(c) \/ StoreStep(c)
    PROVE  LeaderInv'
<1>1. UNCHANGED <<jobs, ticking, lock, life>>
  BY DEF EditStep, StoreStep, Create, UpdateStatus, UpdateCron, Delete, Truncate, Write, procVars
<1>2. \E place \in {"read", "write", "list"} : Goto(c, place)
  BY DEF EditStep, StoreStep, Create, UpdateStatus, UpdateCron, Delete, Truncate, Write
<1>3. \A t \in Threads : phase'[t] \in {"add", "scan", "remove"} => phase[t] \in {"add", "scan", "remove"}
  BY <1>2 DEF Goto, TypeOK
<1> QED BY <1>1, <1>3 DEF LeaderInv, Where

LEMMA SyncLeaderInv ==
    ASSUME TypeOK, LeaderInv, NEW t \in Threads, SyncStep(t)
    PROVE  LeaderInv'
<1>0. Where(t) \in Procs
  BY Places
<1>1. lock' = lock /\ ticking' = ticking
  BY DEF SyncStep, SyncList, SyncAdd, SyncScan, SyncRemove, SyncDone, procVars
<1>2. \A p \in Procs : life[p] # "off" => life'[p] # "off"
  BY DEF SyncStep, SyncList, SyncAdd, SyncScan, SyncRemove, SyncDone, Finish, procVars, TypeOK
<1>3. \A u \in Threads : phase'[u] \in {"add", "scan", "remove"} => lock = Where(u)
  <2>1. \E place \in {"idle", "add", "scan", "remove"} : phase' = [phase EXCEPT ![t] = place] \/ phase' = phase
    BY DEF SyncStep, SyncList, SyncAdd, SyncScan, SyncRemove, SyncDone, Finish, Goto
  <2>2. phase'[t] \in {"add", "scan", "remove"} => lock = Where(t)
    BY DEF SyncStep, SyncList, SyncAdd, SyncScan, SyncRemove, SyncDone, Finish, Goto, LeaderInv, TypeOK
  <2> QED BY <2>1, <2>2 DEF LeaderInv, TypeOK
<1>4. \A p \in Procs, i \in Ids : jobs'[p][i] # NoJob => lock = p
  <2>1. CASE SyncAdd(t)
    <3>1. lock = Where(t) /\ \A p \in Procs : p # Where(t) => jobs'[p] = jobs[p]
      BY <2>1 DEF SyncAdd, LeaderInv, TypeOK
    <3> QED BY <3>1 DEF LeaderInv
  <2>2. ASSUME NEW i \in Ids, SyncRemove(t, i) PROVE \A p \in Procs, j \in Ids : jobs'[p][j] # NoJob => lock = p
    <3>1. lock = Where(t) /\ \A p \in Procs : p # Where(t) => jobs'[p] = jobs[p]
      BY <2>2 DEF SyncRemove, LeaderInv, TypeOK
    <3> QED BY <3>1 DEF LeaderInv
  <2>3. CASE SyncList(t) \/ SyncScan(t) \/ SyncDone(t)
    BY <2>3 DEF SyncList, SyncScan, SyncDone, LeaderInv
  <2> QED BY <2>1, <2>2, <2>3 DEF SyncStep
<1> QED BY <1>1, <1>2, <1>3, <1>4 DEF LeaderInv, Where

LEMMA ProcLeaderInv ==
    ASSUME TypeOK, LeaderInv, NEW p \in Procs,
           \/ Resync(p) \/ Start(p) \/ Shutdown(p) \/ Crash(p)
           \/ \E i \in Ids : Tick(p, i) \/ TickEnds(p, i)
    PROVE  LeaderInv'
<1>0. p \in Threads /\ NoProc \notin Procs
  BY AutomationAssumption DEF Threads
<1>1. CASE Resync(p)
  <2>1. UNCHANGED <<jobs, ticking, lock, life>> /\ phase' = [phase EXCEPT ![p] = "list"]
    BY <1>1 DEF Resync, Goto, procVars
  <2> QED BY <1>0, <2>1 DEF LeaderInv, TypeOK, Where
<1>2. CASE Start(p)
  <2>1. UNCHANGED <<jobs, ticking>>
    BY <1>2 DEF Start
  <2>2. CASE LockFree(p)
    <3>1. lock = NoProc /\ lock' = p /\ life' = [life EXCEPT ![p] = "starting"]
          /\ phase' = [phase EXCEPT ![p] = "list"]
      BY <1>2, <2>2 DEF Start, Goto, LockFree
    <3> QED BY <1>0, <2>1, <3>1, Places DEF LeaderInv, TypeOK, Where
  <2>3. CASE ~LockFree(p)
    <3>1. UNCHANGED <<lock, phase>> /\ life' = [life EXCEPT ![p] = "up"]
      BY <1>2, <2>3 DEF Start
    <3> QED BY <2>1, <3>1 DEF LeaderInv, TypeOK, Where
  <2> QED BY <2>2, <2>3
<1>3. CASE Leave(p)
  <2>1. /\ \A q \in Procs : q # p => jobs'[q] = jobs[q] /\ ticking'[q] = ticking[q] /\ life'[q] = life[q]
        /\ jobs'[p] = NoJobs /\ ticking'[p] = {}
        /\ lock' = IF lock = p THEN NoProc ELSE lock
        /\ \A t \in Threads : phase'[t] = IF Where(t) = p THEN "idle" ELSE phase[t]
    BY <1>3 DEF Leave, TypeOK
  <2>2. \A i \in Ids : NoJobs[i] = NoJob
    BY DEF NoJobs
  <2>3. \A q \in Procs, i \in Ids : jobs'[q][i] # NoJob => lock' = q
    BY <1>0, <2>1, <2>2 DEF LeaderInv
  <2>4. \A q \in Procs, i \in Ids : i \in ticking'[q] => lock' = q
    BY <1>0, <2>1 DEF LeaderInv
  <2>5. \A t \in Threads : phase'[t] \in {"add", "scan", "remove"} => lock' = Where(t)
    BY <1>0, <2>1 DEF LeaderInv
  <2>6. \A q \in Procs : lock' = q => life'[q] # "off"
    BY <1>0, <2>1 DEF LeaderInv
  <2> QED BY <2>3, <2>4, <2>5, <2>6 DEF LeaderInv, Where
<1>4. ASSUME NEW i \in Ids, Tick(p, i) \/ TickEnds(p, i) PROVE LeaderInv'
  <2>1. UNCHANGED <<jobs, phase, lock, life>>
    BY <1>4 DEF Tick, TickEnds, procVars
  <2>2. \A q \in Procs, j \in Ids : j \in ticking'[q] => j \in ticking[q] \/ (q = p /\ jobs[p][i] # NoJob)
    BY <1>4 DEF Tick, TickEnds, TypeOK
  <2> QED BY <2>1, <2>2 DEF LeaderInv, Where
<1> QED BY <1>1, <1>2, <1>3, <1>4 DEF Shutdown, Crash

\* Everything a scheduler does happens under the leader lock.
THEOREM SpecLeaderInv == Spec => []LeaderInv
<1>1. ASSUME TypeOK, LeaderInv, [Next]_vars PROVE LeaderInv'
  <2>1. CASE UNCHANGED vars
    BY <1>1, <2>1 DEF vars, procVars, LeaderInv, Where
  <2> QED BY <1>1, <2>1, QuietLeaderInv, SyncLeaderInv, ProcLeaderInv DEF Next
<1> QED BY <1>1, InitLeaderInv, SpecAutomationTypeOK, PTL DEF Spec

\* No automation is run by the ticks of two processes at a time, for any
\* number of processes that start, stop and crash.
THEOREM SpecOneTickAtATime == Spec => []OneTickAtATime
<1>1. TypeOK /\ LeaderInv => OneTickAtATime
  BY DEF TypeOK, LeaderInv, OneTickAtATime
<1> QED BY <1>1, SpecAutomationTypeOK, SpecLeaderInv, PTL
-----------------------------------------------------------------------------
\* The edits are made in one process.
OneEditor == \A c, d \in Callers : At[c] = At[d]

\* At most one call is inside the store.  The row it is about to write is what
\* the edits so far add up to, with its own field set; and every file that can
\* be read is up to date.
EditInv ==
    /\ \A c, d \in Callers :
        phase[c] \in {"read", "write"} /\ phase[d] \in {"read", "write"} => c = d
    /\ \A c \in Callers : phase[c] \in {"read", "write"} =>
        LET d == draft[c]
        IN /\ d.id \in Ids
           /\ d.sets = "status" => d.row = [intent[d.id] EXCEPT !.status = d.row.status]
           /\ d.sets = "cron" => d.row = [intent[d.id] EXCEPT !.cron = d.row.cron]
    /\ StoreMatchesEdits

LEMMA InitEditInv == Init => EditInv
<1>1. \A c \in Callers : c \in Threads
  BY DEF Threads
<1> QED BY <1>1 DEF Init, EditInv, StoreMatchesEdits

\* Nobody is inside the store when an edit begins.
LEMMA EditAlone ==
    ASSUME OneEditor, NEW c \in Callers, Edit(c)
    PROVE  \A d \in Callers : phase[d] \notin {"read", "write"}
BY DEF OneEditor, Edit, LoopFree

LEMMA EditEditInv ==
    ASSUME OneEditor, TypeOK, EditInv, NEW c \in Callers, EditStep(c)
    PROVE  EditInv'
<1>0. c \in Threads /\ \A d \in Callers : d \in Threads /\ phase[d] \notin {"read", "write"}
  BY EditAlone DEF Threads, EditStep, Create, UpdateStatus, UpdateCron, Delete
<1>1. \A d \in Callers : d # c => phase'[d] = phase[d] /\ draft'[d] = draft[d]
  BY <1>0 DEF EditStep, Create, UpdateStatus, UpdateCron, Delete, Goto, TypeOK
<1>2. \A i \in Ids : file[i] \in Rows /\ intent[i] \in Rows
  BY DEF TypeOK
<1> USE <1>0, <1>1 DEF TypeOK, Goto
<1>3. ASSUME NEW i \in Ids, NEW status \in Accepted, NEW cron \in Schedules, Create(c, i, status, cron)
      PROVE  EditInv'
  <2>1. /\ draft'[c].id = i /\ draft'[c].sets = "all" /\ intent' = intent
        /\ file' = [file EXCEPT ![i] = Blank("torn")]
    BY <1>3 DEF Create
  <2>2. StoreMatchesEdits'
    BY <2>1 DEF EditInv, StoreMatchesEdits, Blank
  <2> QED BY <2>1, <2>2 DEF EditInv
<1>4. ASSUME NEW i \in Ids, NEW status \in Accepted, UpdateStatus(c, i, status)
      PROVE  EditInv'
  <2>1. /\ draft'[c].id = i /\ draft'[c].sets = "status" /\ intent' = intent /\ file' = file
        /\ draft'[c].row = [file[i] EXCEPT !.status = status] /\ file[i] = intent[i]
    BY <1>4 DEF UpdateStatus, EditInv, StoreMatchesEdits
  <2>2. StoreMatchesEdits'
    BY <2>1 DEF EditInv, StoreMatchesEdits
  <2>3. draft'[c].row = [intent[i] EXCEPT !.status = draft'[c].row.status]
    BY <1>2, <2>1 DEF Rows
  <2> QED BY <2>1, <2>2, <2>3 DEF EditInv
<1>5. ASSUME NEW i \in Ids, NEW cron \in Schedules, UpdateCron(c, i, cron)
      PROVE  EditInv'
  <2>1. /\ draft'[c].id = i /\ draft'[c].sets = "cron" /\ intent' = intent /\ file' = file
        /\ draft'[c].row = [file[i] EXCEPT !.cron = cron] /\ file[i] = intent[i]
    BY <1>5 DEF UpdateCron, EditInv, StoreMatchesEdits
  <2>2. StoreMatchesEdits'
    BY <2>1 DEF EditInv, StoreMatchesEdits
  <2>3. draft'[c].row = [intent[i] EXCEPT !.cron = draft'[c].row.cron]
    BY <1>2, <2>1 DEF Rows
  <2> QED BY <2>1, <2>2, <2>3 DEF EditInv
<1>6. ASSUME NEW i \in Ids, Delete(c, i) PROVE EditInv'
  <2>1. /\ file' = [file EXCEPT ![i] = Blank("deleted")]
        /\ intent' = [intent EXCEPT ![i] = Blank("deleted")]
        /\ phase'[c] = "list"
    BY <1>6 DEF Delete
  <2>2. StoreMatchesEdits'
    BY <2>1 DEF EditInv, StoreMatchesEdits
  <2> QED BY <2>1, <2>2 DEF EditInv
<1> QED BY <1>3, <1>4, <1>5, <1>6 DEF EditStep

LEMMA StoreEditInv ==
    ASSUME TypeOK, EditInv, NEW c \in Callers, StoreStep(c)
    PROVE  EditInv'
<1>0. c \in Threads /\ \A d \in Callers : d \in Threads
  BY DEF Threads
<1>1. phase[c] \in {"read", "write"} /\ draft[c].id \in Ids
      /\ \A d \in Callers : d # c => phase[d] \notin {"read", "write"} /\ phase'[d] = phase[d]
  BY <1>0 DEF StoreStep, Truncate, Write, Goto, EditInv, TypeOK
<1>2. CASE Truncate(c)
  <2>1. /\ file' = [file EXCEPT ![draft[c].id] = Blank("torn")]
        /\ UNCHANGED <<intent, draft>> /\ phase'[c] = "write"
    BY <1>0, <1>2 DEF Truncate, Goto, TypeOK
  <2>2. StoreMatchesEdits'
    BY <1>1, <2>1 DEF EditInv, StoreMatchesEdits, Blank, TypeOK
  <2> QED BY <1>1, <2>1, <2>2 DEF EditInv
<1>3. CASE Write(c)
  <2> DEFINE d == draft[c]
             new == CASE d.sets = "all" -> d.row
                      [] d.sets = "status" -> [intent[d.id] EXCEPT !.status = d.row.status]
                      [] d.sets = "cron" -> [intent[d.id] EXCEPT !.cron = d.row.cron]
  <2>1. d.sets \in {"all", "status", "cron"}
    BY DEF TypeOK
  <2>2. new = d.row
    BY <1>1, <2>1 DEF EditInv
  <2>3. /\ file' = [file EXCEPT ![d.id] = d.row] /\ intent' = [intent EXCEPT ![d.id] = new]
        /\ phase'[c] = "list"
    BY <1>0, <1>3 DEF Write, Goto, TypeOK
  <2> HIDE DEF new, d
  <2>4. StoreMatchesEdits'
    BY <2>2, <2>3 DEF EditInv, StoreMatchesEdits, TypeOK
  <2>5. \A b \in Callers : phase'[b] \notin {"read", "write"}
    BY <1>1, <2>3
  <2> QED BY <2>4, <2>5 DEF EditInv
<1> QED BY <1>2, <1>3 DEF StoreStep

\* No other step writes a file or puts a call into the store.
LEMMA OtherEditInv ==
    ASSUME TypeOK, EditInv, UNCHANGED <<file, intent>>,
           \A c \in Callers : phase'[c] \in {"read", "write"} =>
                                phase[c] \in {"read", "write"} /\ draft'[c] = draft[c]
    PROVE  EditInv'
BY DEF EditInv, StoreMatchesEdits

LEMMA SyncEditInv ==
    ASSUME TypeOK, EditInv, NEW t \in Threads, SyncStep(t) PROVE EditInv'
<1>1. UNCHANGED <<file, intent, draft>>
  BY DEF SyncStep, SyncList, SyncAdd, SyncScan, SyncRemove, SyncDone, storeVars
<1>2. phase' = phase \/ \E place \in {"idle", "add", "scan", "remove"} : phase' = [phase EXCEPT ![t] = place]
  BY DEF SyncStep, SyncList, SyncAdd, SyncScan, SyncRemove, SyncDone, Finish, Goto
<1>3. \A u \in Threads : phase'[u] \in {"read", "write"} => phase[u] \in {"read", "write"}
  BY <1>2 DEF TypeOK
<1> QED BY <1>1, <1>3, OtherEditInv DEF Threads

LEMMA ProcEditInv ==
    ASSUME TypeOK, EditInv, NEW p \in Procs,
           \/ Resync(p) \/ Start(p) \/ Shutdown(p) \/ Crash(p)
           \/ \E i \in Ids : Tick(p, i) \/ TickEnds(p, i)
    PROVE  EditInv'
<1>0. \A c \in Callers : c \in Threads /\ Where(c) = At[c]
  BY AutomationAssumption DEF Threads, Where
<1>1. CASE Resync(p) \/ Start(p) \/ \E i \in Ids : Tick(p, i) \/ TickEnds(p, i)
  <2>1. UNCHANGED <<file, intent, draft>>
    BY <1>1 DEF Resync, Start, Tick, TickEnds, storeVars
  <2>2. phase' = phase \/ phase' = [phase EXCEPT ![p] = "list"]
    BY <1>1 DEF Resync, Start, Tick, TickEnds, Goto
  <2>3. \A u \in Threads : phase'[u] \in {"read", "write"} => phase[u] \in {"read", "write"}
    BY <2>2 DEF TypeOK
  <2> QED BY <1>0, <2>1, <2>3, OtherEditInv
<1>2. CASE Leave(p)
  <2>1. UNCHANGED <<file, intent>>
    BY <1>2 DEF Leave
  <2>2. \A c \in Callers : phase'[c] \in {"read", "write"} =>
                            phase[c] \in {"read", "write"} /\ draft'[c] = draft[c]
    BY <1>0, <1>2 DEF Leave
  <2> QED BY <2>1, <2>2, OtherEditInv
<1> QED BY <1>1, <1>2 DEF Shutdown, Crash

LEMMA StepEditInv == OneEditor /\ TypeOK /\ EditInv /\ [Next]_vars => EditInv'
<1> SUFFICES ASSUME OneEditor, TypeOK, EditInv, [Next]_vars PROVE EditInv'
  OBVIOUS
<1>1. CASE UNCHANGED vars
  BY <1>1 DEF vars, storeVars, EditInv, StoreMatchesEdits
<1> QED BY <1>1, EditEditInv, StoreEditInv, SyncEditInv, ProcEditInv DEF Next

\* Where the edits come through one process no edit is lost and nothing that
\* was deleted comes back, whatever the other processes, the schedulers and
\* the crashes do.
THEOREM SpecStoreMatchesEdits == OneEditor /\ Spec => []StoreMatchesEdits
<1>1. OneEditor /\ Spec => []EditInv
  <2> SUFFICES ASSUME OneEditor PROVE Spec => []EditInv
    OBVIOUS
  <2>1. TypeOK /\ EditInv /\ [Next]_vars => EditInv'
    BY StepEditInv
  <2> QED BY <2>1, InitEditInv, SpecAutomationTypeOK, PTL DEF Spec
<1>2. EditInv => StoreMatchesEdits
  BY DEF EditInv
<1> QED BY <1>1, <1>2, PTL

\* A job that a stale synchronisation left behind runs nothing: what a tick
\* starts is active by the edits made so far.
THEOREM SpecPausedStaysQuiet == OneEditor /\ Spec => PausedStaysQuiet
<1>1. ASSUME TypeOK, StoreMatchesEdits, [Next]_vars
      PROVE  [\A p \in Procs, i \in Ids :
                i \in ticking'[p] \ ticking[p] => intent[i].status = "active"]_vars
  <2> SUFFICES ASSUME Next, NEW p \in Procs, NEW i \in Ids, i \in ticking'[p], i \notin ticking[p]
               PROVE  intent[i].status = "active"
    BY <1>1
  <2>1. \A c \in Callers : ~EditStep(c) /\ ~StoreStep(c)
    BY DEF EditStep, StoreStep, Create, UpdateStatus, UpdateCron, Delete, Truncate, Write
  <2>2. \A t \in Threads : ~SyncStep(t)
    BY DEF SyncStep, SyncList, SyncAdd, SyncScan, SyncRemove, SyncDone
  <2>3. PICK q \in Procs : \/ Resync(q) \/ Start(q) \/ Shutdown(q) \/ Crash(q)
                           \/ \E j \in Ids : Tick(q, j) \/ TickEnds(q, j)
    BY <2>1, <2>2 DEF Next
  <2>4. PICK j \in Ids : Tick(q, j)
    BY <1>1, <2>3 DEF Resync, Start, Shutdown, Crash, Leave, TickEnds, TypeOK
  <2>5. i = j /\ file[i].status = "active"
    BY <1>1, <2>4 DEF Tick, MayRun, TypeOK
  <2> QED BY <1>1, <2>5 DEF StoreMatchesEdits
<1> QED BY <1>1, SpecStoreMatchesEdits, SpecAutomationTypeOK, PTL DEF Spec, PausedStaysQuiet
=============================================================================
