----------------------------- MODULE Automations -----------------------------
(***************************************************************************)
(* Scheduled automations (koraku/automations): the files of local_store.py,*)
(* the agent tools that edit them, and the scheduler that turns them into  *)
(* APScheduler jobs, in several server processes on one workspace.         *)
(*                                                                         *)
(* The store is used synchronously on the event loop of a process, so a    *)
(* tool call in the middle of it keeps that loop busy; synchronisation runs*)
(* on worker threads, and the threads and the other processes see a file   *)
(* between its truncation and the end of write_text.  Only the process that*)
(* got the leader lock when it started has a scheduler.                    *)
(*                                                                         *)
(* A row is its status and its schedule (cron and time zone).  APScheduler *)
(* is modelled by how it is used: add_job with replace_existing, at most   *)
(* one instance of a job id, remove failing on a job that is gone, and a   *)
(* shutdown that drops the jobs and cancels their running instances.       *)
(***************************************************************************)
EXTENDS Naturals

CONSTANTS Ids,         \* automation ids, each used once (uuid4)
          Procs,       \* server processes
          NoProc,
          Callers,     \* concurrent calls of the automation tools
          At,          \* the process a call is made in
          Schedules,   \* cron expressions that pass validate_cron_expression
          Unparsable,  \* those CronTrigger.from_crontab rejects
          NoJob,
          NoId,
          MaxEdits,    \* bound: tool calls that edit
          MaxStops     \* bound: processes that stop or crash

ASSUME AutomationAssumption ==
    /\ NoProc \notin Procs /\ NoJob \notin Schedules /\ NoId \notin Ids
    /\ Callers \cap Procs = {}
    /\ At \in [Callers -> Procs]
    /\ Unparsable \subseteq Schedules
    /\ MaxEdits \in Nat /\ MaxStops \in Nat

VARIABLES file,    \* .koraku/automations/<id>.json
          intent,  \* the rows as the edits wanted them (history variable)
          draft,   \* the row a call is about to write, and the field it sets
          life,    \* each process
          lock,    \* the process that holds scheduler.leader.lock
          jobs,    \* the jobs of the scheduler of each process
          ticking, \* _scheduled_tick instances that run an automation
          phase,   \* each tool call, and the periodic resync of each process
          seen,    \* what a synchronisation listed
          doomed,  \* jobs it still has to remove
          edits, stops

storeVars == <<file, intent, draft, edits>>
procVars == <<life, lock, stops>>
syncVars == <<seen, doomed>>
vars == <<storeVars, procVars, jobs, ticking, phase, syncVars>>

Threads == Callers \cup Procs
Where(t) == IF t \in Procs THEN t ELSE At[t]

Statuses == {"unborn", "active", "paused", "torn", "deleted"}
Rows == [status : Statuses, cron : Schedules \cup {NoJob}]
Blank(status) == [status |-> status, cron |-> NoJob]
Registered == [Ids -> Schedules \cup {NoJob}]

TypeOK ==
    /\ file \in [Ids -> Rows]
    /\ intent \in [Ids -> Rows]
    /\ draft \in [Callers -> [id : Ids \cup {NoId}, row : Rows,
                             sets : {"all", "status", "cron"}]]
    /\ life \in [Procs -> {"off", "starting", "up"}]
    /\ lock \in Procs \cup {NoProc}
    /\ jobs \in [Procs -> Registered]
    /\ ticking \in [Procs -> SUBSET Ids]
    /\ phase \in [Threads -> {"idle", "read", "write", "list", "add", "scan", "remove"}]
    /\ seen \in [Threads -> Registered]
    /\ doomed \in [Threads -> SUBSET Ids]
    /\ edits \in 0..MaxEdits
    /\ stops \in 0..MaxStops

NoJobs == [i \in Ids |-> NoJob]
NoDraft == [id |-> NoId, row |-> Blank("unborn"), sets |-> "all"]

Init ==
    /\ file = [i \in Ids |-> Blank("unborn")]
    /\ intent = file
    /\ draft = [c \in Callers |-> NoDraft]
    /\ life = [p \in Procs |-> "off"]
    /\ lock = NoProc
    /\ jobs = [p \in Procs |-> NoJobs]
    /\ ticking = [p \in Procs |-> {}]
    /\ phase = [t \in Threads |-> "idle"]
    /\ seen = [t \in Threads |-> NoJobs]
    /\ doomed = [t \in Threads |-> {}]
    /\ edits = 0
    /\ stops = 0
-----------------------------------------------------------------------------
\* A call inside the store does not give up the loop of its process (in the
\* mutant the store is awaited); nor does start_automation_scheduler.
LoopYields(p) == life[p] = "up"
LoopFree(p) ==
    /\ life[p] = "up"
    /\ \A c \in Callers : At[c] = p => phase[c] \notin {"read", "write"}

Goto(t, place) == phase' = [phase EXCEPT ![t] = place]

Edit(c) ==
    /\ phase[c] = "idle"
    /\ LoopFree(At[c])
    /\ edits < MaxEdits
    /\ edits' = edits + 1

Exists(i) == file[i].status \in {"active", "paused", "torn"}

\* The statuses the tools accept.
Accepted == {"active", "paused"}

\* AutomationsCreate: a new id; write_text truncates the file first.
Create(c, i, status, cron) ==
    /\ Edit(c)
    /\ file[i].status = "unborn"
    /\ file' = [file EXCEPT ![i] = Blank("torn")]
    /\ draft' = [draft EXCEPT ![c] = [id |-> i, sets |-> "all",
                                      row |-> [status |-> status, cron |-> cron]]]
    /\ Goto(c, "write")
    /\ UNCHANGED <<intent, procVars, jobs, ticking, syncVars>>

\* AutomationsUpdate reads the row and sets the fields it was given, here one.
\* A file that is missing or does not parse ends the call with an error.
UpdateStatus(c, i, status) ==
    /\ Edit(c)
    /\ file[i].status \in {"active", "paused"}
    /\ draft' = [draft EXCEPT ![c] = [id |-> i, sets |-> "status",
                                      row |-> [file[i] EXCEPT !.status = status]]]
    /\ Goto(c, "read")
    /\ UNCHANGED <<file, intent, procVars, jobs, ticking, syncVars>>

UpdateCron(c, i, cron) ==
    /\ Edit(c)
    /\ file[i].status \in {"active", "paused"}
    /\ draft' = [draft EXCEPT ![c] = [id |-> i, sets |-> "cron",
                                      row |-> [file[i] EXCEPT !.cron = cron]]]
    /\ Goto(c, "read")
    /\ UNCHANGED <<file, intent, procVars, jobs, ticking, syncVars>>

Truncate(c) ==
    /\ phase[c] = "read"
    /\ file' = [file EXCEPT ![draft[c].id] = Blank("torn")]
    /\ Goto(c, "write")
    /\ UNCHANGED <<intent, draft, edits, procVars, jobs, ticking, syncVars>>

\* The whole row is written back, and the synchronisation is handed to a
\* worker thread.
Write(c) ==
    /\ phase[c] = "write"
    /\ LET d == draft[c]
       IN /\ file' = [file EXCEPT ![d.id] = d.row]
          /\ intent' = [intent EXCEPT ![d.id] =
                          CASE d.sets = "all" -> d.row
                            [] d.sets = "status" -> [@ EXCEPT !.status = d.row.status]
                            [] d.sets = "cron" -> [@ EXCEPT !.cron = d.row.cron]]
    /\ draft' = [draft EXCEPT ![c] = NoDraft]
    /\ Goto(c, "list")
    /\ UNCHANGED <<edits, procVars, jobs, ticking, syncVars>>

\* AutomationsDelete, also of a file that does not parse.
Delete(c, i) ==
    /\ Edit(c)
    /\ Exists(i)
    /\ file' = [file EXCEPT ![i] = Blank("deleted")]
    /\ intent' = [intent EXCEPT ![i] = Blank("deleted")]
    /\ Goto(c, "list")
    /\ UNCHANGED <<draft, procVars, jobs, ticking, syncVars>>
-----------------------------------------------------------------------------
\* What list_scheduled_active finds of an automation.
Wanted(i) == IF file[i].status = "active" THEN file[i].cron ELSE NoJob

\* A synchronisation is over, well or by an exception; the first one of a
\* process runs before it serves requests.
Finish(t) ==
    /\ Goto(t, "idle")
    /\ seen' = [seen EXCEPT ![t] = NoJobs]
    /\ life' = IF t \in Procs THEN [life EXCEPT ![t] = "up"] ELSE life

\* sync_scheduler_jobs returns at once where there is no scheduler; otherwise
\* list_scheduled_active reads the files.
SyncList(t) ==
    /\ phase[t] = "list"
    /\ IF lock = Where(t)
       THEN /\ seen' = [seen EXCEPT ![t] = [i \in Ids |-> Wanted(i)]]
            /\ Goto(t, "add")
            /\ UNCHANGED life
       ELSE Finish(t)
    /\ UNCHANGED <<storeVars, lock, stops, jobs, ticking, doomed>>

\* add_job with replace_existing, for the schedules that CronTrigger accepts.
SyncAdd(t) ==
    /\ phase[t] = "add"
    /\ jobs' = [jobs EXCEPT ![Where(t)] =
                  [i \in Ids |-> IF seen[t][i] \in Schedules \ Unparsable
                                 THEN seen[t][i] ELSE @[i]]]
    /\ Goto(t, "scan")
    /\ UNCHANGED <<storeVars, procVars, ticking, syncVars>>

\* get_jobs: the jobs that no listed row wanted.
SyncScan(t) ==
    /\ phase[t] = "scan"
    /\ doomed' = [doomed EXCEPT ![t] =
                    {i \in Ids : jobs[Where(t)][i] # NoJob /\ seen[t][i] = NoJob}]
    /\ Goto(t, "remove")
    /\ UNCHANGED <<storeVars, procVars, jobs, ticking, seen>>

\* job.remove(), one job after the other; JobLookupError when another thread
\* was faster leaves the rest as it is.
SyncRemove(t, i) ==
    /\ phase[t] = "remove" /\ i \in doomed[t]
    /\ IF jobs[Where(t)][i] # NoJob
       THEN /\ jobs' = [jobs EXCEPT ![Where(t)][i] = NoJob]
            /\ doomed' = [doomed EXCEPT ![t] = @ \ {i}]
            /\ UNCHANGED <<life, phase, seen>>
       ELSE /\ Finish(t)
            /\ doomed' = [doomed EXCEPT ![t] = {}]
            /\ UNCHANGED jobs
    /\ UNCHANGED <<storeVars, lock, stops, ticking>>

SyncDone(t) ==
    /\ phase[t] = "remove" /\ doomed[t] = {}
    /\ Finish(t)
    /\ UNCHANGED <<storeVars, lock, stops, jobs, ticking, doomed>>

\* The interval job of the scheduler; at most one instance (the mutant job was
\* not added).
NeverResync(p) == FALSE
Resync(p) ==
    /\ phase[p] = "idle" /\ lock = p /\ life[p] = "up"
    /\ Goto(p, "list")
    /\ UNCHANGED <<storeVars, procVars, jobs, ticking, syncVars>>
-----------------------------------------------------------------------------
\* flock with LOCK_NB (the mutant goes on without the lock).
LockIgnored(p) == TRUE
LockFree(p) == lock = NoProc

\* The lifespan of a server process: the scheduler starts with a first
\* synchronisation, or not at all.
Start(p) ==
    /\ life[p] = "off"
    /\ IF LockFree(p)
       THEN /\ lock' = p
            /\ life' = [life EXCEPT ![p] = "starting"]
            /\ Goto(p, "list")
       ELSE /\ life' = [life EXCEPT ![p] = "up"]
            /\ UNCHANGED <<lock, phase>>
    /\ UNCHANGED <<storeVars, stops, jobs, ticking, syncVars>>

\* The process is gone: its jobs, their runs and its threads with it, and the
\* kernel gives the lock back.
Leave(p) ==
    /\ stops < MaxStops
    /\ stops' = stops + 1
    /\ life' = [life EXCEPT ![p] = "off"]
    /\ lock' = IF lock = p THEN NoProc ELSE lock
    /\ jobs' = [jobs EXCEPT ![p] = NoJobs]
    /\ ticking' = [ticking EXCEPT ![p] = {}]
    /\ phase' = [t \in Threads |-> IF Where(t) = p THEN "idle" ELSE phase[t]]
    /\ seen' = [t \in Threads |-> IF Where(t) = p THEN NoJobs ELSE seen[t]]
    /\ doomed' = [t \in Threads |-> IF Where(t) = p THEN {} ELSE doomed[t]]
    /\ draft' = [c \in Callers |-> IF At[c] = p THEN NoDraft ELSE draft[c]]
    /\ UNCHANGED <<file, intent, edits>>

\* The lifespan ends, with no request in progress.
Shutdown(p) ==
    /\ life[p] = "up"
    /\ \A c \in Callers : At[c] = p => phase[c] = "idle"
    /\ Leave(p)

Crash(p) == life[p] # "off" /\ Leave(p)

\* A job fires.  The row is read again before anything is run (the mutant
\* trusts the job).
TrustJob(i) == TRUE
MayRun(i) == file[i].status = "active"

Tick(p, i) ==
    /\ LoopFree(p)
    /\ jobs[p][i] # NoJob
    /\ i \notin ticking[p]
    /\ MayRun(i)
    /\ ticking' = [ticking EXCEPT ![p] = @ \cup {i}]
    /\ UNCHANGED <<storeVars, procVars, jobs, phase, syncVars>>

TickEnds(p, i) ==
    /\ i \in ticking[p]
    /\ LoopFree(p)
    /\ ticking' = [ticking EXCEPT ![p] = @ \ {i}]
    /\ UNCHANGED <<storeVars, procVars, jobs, phase, syncVars>>
-----------------------------------------------------------------------------
EditStep(c) ==
    \E i \in Ids :
        \/ \E status \in Accepted, cron \in Schedules : Create(c, i, status, cron)
        \/ \E status \in Accepted : UpdateStatus(c, i, status)
        \/ \E cron \in Schedules : UpdateCron(c, i, cron)
        \/ Delete(c, i)

StoreStep(c) == Truncate(c) \/ Write(c)

SyncStep(t) ==
    \/ SyncList(t) \/ SyncAdd(t) \/ SyncScan(t)
    \/ \E i \in Ids : SyncRemove(t, i)
    \/ SyncDone(t)

Next ==
    \/ \E c \in Callers : EditStep(c) \/ StoreStep(c)
    \/ \E t \in Threads : SyncStep(t)
    \/ \E p \in Procs :
         \/ Resync(p) \/ Start(p) \/ Shutdown(p) \/ Crash(p)
         \/ \E i \in Ids : Tick(p, i) \/ TickEnds(p, i)

Spec == Init /\ [][Next]_vars

\* Threads run, and the interval job fires again and again.
Fairness ==
    /\ \A c \in Callers : WF_vars(StoreStep(c))
    /\ \A t \in Threads : WF_vars(SyncStep(t))
    /\ \A p \in Procs : WF_vars(Resync(p))

FairSpec == Spec /\ Fairness
-----------------------------------------------------------------------------
\* An update reads a row, changes a field and writes the whole row back, while
\* other calls edit the same automation.  As long as the edits come through
\* one process no edit is lost and no deleted automation comes back: a file
\* that is not being written (or was not left torn by a crash) is what the
\* edits add up to.
StoreMatchesEdits ==
    \A i \in Ids : file[i].status # "torn" => file[i] = intent[i]

\* A synchronisation that listed the files before an edit may register the job
\* of an automation that was paused or deleted since.  Such a job may fire,
\* and nothing is run.
PausedStaysQuiet ==
    [][\A p \in Procs, i \in Ids :
        i \in ticking'[p] \ ticking[p] => intent[i].status = "active"]_vars

\* An automation is not run by two ticks at a time: not by two processes, and
\* not when its job was removed and added again while it ran.
OneTickAtATime ==
    \A p, q \in Procs : p # q => ticking[p] \cap ticking[q] = {}

\* When the editing is over, the jobs of a process that stays the leader come
\* to agree with the files for good, whatever the synchronisations that were
\* under way did to them, and whichever process the edits were made in.  An
\* active row whose schedule is rejected keeps the job it had, if any.
JobsSettle ==
    LET Agree(p) == \A i \in Ids :
            IF Wanted(i) \in Unparsable THEN TRUE ELSE jobs[p][i] = Wanted(i)
    IN \A p \in Procs : <>[](lock = p) => <>[]Agree(p)
=============================================================================
