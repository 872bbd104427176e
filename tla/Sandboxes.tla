------------------------------ MODULE Sandboxes ------------------------------
(***************************************************************************)
(* File tools of turns whose execution target is a sandbox: the lazy       *)
(* provisioning of the user's VM (koraku/integrations/blaxel_lazy.py,      *)
(* blaxel_runtime.py), the tools that run in it                            *)
(* (koraku/tools/blaxel_dispatch.py), and the same tools on the host       *)
(* (koraku/tools/registry.py).                                             *)
(*                                                                         *)
(* A call is a tool call of some turn, or the warm-up task of a request.   *)
(* Parallel calls have a context each, so what one binds the others do not *)
(* see; a call that was awaited directly leaves its binding to the turn.   *)
(* A file is the set of calls whose change is in it.                       *)
(***************************************************************************)
EXTENDS Naturals, Sequences, FiniteSets

CONSTANTS FileCalls,    \* tool calls and warm-ups
          FilePlans,    \* sets of them that may be made in one behaviour
          CallKind,     \* the tool that is called, or "warm"
          BoxUsers,     \* users, by sandbox name
          BoxUserOf,    \* the user of each call
          HostCalls,    \* calls whose turn does not run in a sandbox, or for
                        \* which BLAXEL_SANDBOX_ENABLED is off
          MaxExpiries   \* bound: times a cached handle expires

BoxTools == {"read", "glob", "grep", "write", "edit", "shell"}

ASSUME SandboxAssumption ==
    /\ CallKind \in [FileCalls -> BoxTools \cup {"warm"}]
    /\ BoxUserOf \in [FileCalls -> BoxUsers]
    /\ FilePlans \subseteq SUBSET FileCalls
    /\ HostCalls \subseteq FileCalls /\ MaxExpiries \in Nat

VARIABLES boxPc,      \* where each call is
          boxLine,    \* holder of and waiters for the lock of a user
          boxCache,   \* users with a fresh entry in _sandbox_cache
          boxExpired, \* expiries so far
          turnBound,  \* users whose turn has a sandbox bound for later calls
          boxFile,    \* what is in the file the calls of a user change
          boxSeen,    \* what an edit read
          boxMade,    \* VMs requested since the entry last expired or failed
                      \* to be made (history variable)
          boxTogether \* calls that changed the file while an edit was between
                      \* its read and its write, or that were overwritten
                      \* (history variable)

boxVars == <<boxPc, boxLine, boxCache, boxExpired, turnBound, boxFile, boxSeen,
             boxMade, boxTogether>>

BoxOver == {"done", "error", "cancelled"}
Provisioning == {"creating", "mkdir"}

BoxTypeOK ==
    /\ boxPc \in [FileCalls -> {"new", "waiting", "bound", "read"} \cup Provisioning \cup BoxOver]
    /\ boxLine \in [BoxUsers -> Seq(FileCalls)]
    /\ boxCache \subseteq BoxUsers /\ turnBound \subseteq BoxUsers
    /\ boxFile \in [BoxUsers -> SUBSET FileCalls]
    /\ boxSeen \in [FileCalls -> SUBSET FileCalls]
    /\ boxMade \in [BoxUsers -> Nat] /\ boxExpired \in 0..MaxExpiries
    /\ boxTogether \subseteq FileCalls

BoxInit ==
    /\ \E plan \in FilePlans :
          boxPc = [c \in FileCalls |-> IF c \in plan THEN "new" ELSE "cancelled"]
    /\ boxLine = [u \in BoxUsers |-> <<>>]
    /\ boxCache \in SUBSET BoxUsers
    /\ boxExpired = 0
    /\ turnBound = {}
    /\ boxFile = [u \in BoxUsers |-> {}]
    /\ boxSeen = [c \in FileCalls |-> {}]
    /\ boxMade = [u \in BoxUsers |-> 0]
    /\ boxTogether = {}
-----------------------------------------------------------------------------
BoxGoto(c, place) == boxPc' = [boxPc EXCEPT ![c] = place]

\* The lock of the user is held by the head of the line, which any call in
\* it may leave.
BoxPlaces(c) == {i \in 1..Len(boxLine[BoxUserOf[c]]) : boxLine[BoxUserOf[c]][i] = c}
BoxLeave(c) ==
    boxLine' = [boxLine EXCEPT ![BoxUserOf[c]] =
        IF BoxPlaces(c) = {} THEN @
        ELSE LET i == CHOOSE j \in BoxPlaces(c) : TRUE
             IN SubSeq(@, 1, i - 1) \o SubSeq(@, i + 1, Len(@))]

\* A call that finds a sandbox bound goes ahead; a warm-up is started only
\* while the user's VM is cached.
StartBound(c) ==
    /\ boxPc[c] = "new" /\ c \notin HostCalls
    /\ BoxUserOf[c] \in turnBound
    /\ BoxGoto(c, IF CallKind[c] = "warm" THEN "done" ELSE "bound")
    /\ UNCHANGED <<boxLine, boxCache, boxExpired, turnBound, boxFile, boxSeen, boxMade, boxTogether>>

\* ensure_blaxel_for_file_tool up to the lock.
StartLazy(c) ==
    /\ boxPc[c] = "new" /\ c \notin HostCalls
    /\ CallKind[c] = "warm" => BoxUserOf[c] \in boxCache
    /\ boxLine' = [boxLine EXCEPT ![BoxUserOf[c]] = Append(@, c)]
    /\ BoxGoto(c, "waiting")
    /\ UNCHANGED <<boxCache, boxExpired, turnBound, boxFile, boxSeen, boxMade, boxTogether>>

\* Inside the lock, _ensure_user_blaxel_vm: a fresh handle is used as it is,
\* otherwise create_if_not_exists is awaited.
HasLock(c) == Head(boxLine[BoxUserOf[c]]) = c
Provision(c) ==
    /\ boxPc[c] = "waiting" /\ HasLock(c)
    /\ BoxGoto(c, IF BoxUserOf[c] \in boxCache THEN "mkdir" ELSE "creating")
    /\ boxMade' = IF BoxUserOf[c] \in boxCache THEN boxMade
                  ELSE [boxMade EXCEPT ![BoxUserOf[c]] = @ + 1]
    /\ UNCHANGED <<boxLine, boxCache, boxExpired, turnBound, boxFile, boxSeen, boxTogether>>

Created(c) ==
    /\ boxPc[c] = "creating"
    /\ boxCache' = boxCache \cup {BoxUserOf[c]}
    /\ BoxGoto(c, "mkdir")
    /\ UNCHANGED <<boxLine, boxExpired, turnBound, boxFile, boxSeen, boxMade, boxTogether>>

\* Creating failed: the call reports that the sandbox is unavailable, the
\* lock is free, nothing is cached.
NotCreated(c) ==
    /\ boxPc[c] = "creating"
    /\ BoxLeave(c)
    /\ BoxGoto(c, "error")
    /\ boxMade' = [boxMade EXCEPT ![BoxUserOf[c]] = @ - 1]
    /\ UNCHANGED <<boxCache, boxExpired, turnBound, boxFile, boxSeen, boxTogether>>

\* mkdir -p, whose failure is only logged, then the binding: seen by later
\* calls of the turn only when this call was not given a context of its own.
Bind(c) ==
    /\ boxPc[c] = "mkdir"
    /\ BoxLeave(c)
    /\ turnBound' \in {turnBound, turnBound \cup {BoxUserOf[c]}}
    /\ BoxGoto(c, IF CallKind[c] = "warm" THEN "done" ELSE "bound")
    /\ UNCHANGED <<boxCache, boxExpired, boxFile, boxSeen, boxMade, boxTogether>>

BoxUnchanged == UNCHANGED <<boxLine, boxCache, boxExpired, turnBound, boxMade>>

\* Calls of the same user that have read the file and not written it yet.
BetweenReadAndWrite(c) ==
    {d \in FileCalls \ {c} : BoxUserOf[d] = BoxUserOf[c] /\ boxPc[d] = "read"}

Change(c, content) ==
    /\ boxFile' = [boxFile EXCEPT ![BoxUserOf[c]] = content]
    /\ boxTogether' = boxTogether
         \cup (IF BetweenReadAndWrite(c) = {} THEN {} ELSE {c})
         \cup (IF CallKind[c] \in {"write", "shell"} THEN boxFile[BoxUserOf[c]] ELSE {})
NoChange == UNCHANGED <<boxFile, boxTogether>>

\* blaxel_read, blaxel_glob and blaxel_grep look at the files; an exception is
\* an error, for a glob only if it is not about a missing directory.
Looks(c, tool) ==
    /\ boxPc[c] = "bound" /\ CallKind[c] = tool
    /\ \E how \in {"done", "error"} : BoxGoto(c, how)
    /\ UNCHANGED boxSeen /\ NoChange /\ BoxUnchanged
BoxRead(c) == Looks(c, "read")
BoxGlob(c) == Looks(c, "glob")
BoxGrep(c) == Looks(c, "grep")

\* A request that fails on its way back had its effect all the same.
BoxWrite(c) ==
    /\ boxPc[c] = "bound" /\ CallKind[c] = "write"
    /\ \/ BoxGoto(c, "done") /\ Change(c, {c})
       \/ BoxGoto(c, "error") /\ (Change(c, {c}) \/ NoChange)
    /\ UNCHANGED boxSeen /\ BoxUnchanged

\* A command may replace the file, whatever its exit code.
BoxBash(c) ==
    /\ boxPc[c] = "bound" /\ CallKind[c] = "shell"
    /\ \E how \in {"done", "error"} : BoxGoto(c, how)
    /\ Change(c, {c}) \/ NoChange
    /\ UNCHANGED boxSeen /\ BoxUnchanged

\* blaxel_edit awaits the read, then the write of what it read with its
\* replacement.
EditRead(c) ==
    /\ boxPc[c] = "bound" /\ CallKind[c] = "edit"
    /\ \/ BoxGoto(c, "read") /\ boxSeen' = [boxSeen EXCEPT ![c] = boxFile[BoxUserOf[c]]]
       \/ BoxGoto(c, "error") /\ UNCHANGED boxSeen
    /\ NoChange /\ BoxUnchanged

\* Mutant: only the replacement is written.
FromScratch(c) == {c}
Replaced(c) == boxSeen[c] \cup {c}
EditWrite(c) ==
    /\ boxPc[c] = "read"
    /\ \/ BoxGoto(c, "done") /\ Change(c, Replaced(c))
       \/ BoxGoto(c, "error") /\ (Change(c, Replaced(c)) \/ NoChange)
    /\ UNCHANGED boxSeen /\ BoxUnchanged

\* The same tools on the host read and write without giving up the loop.
OnHost(c) ==
    /\ boxPc[c] = "new" /\ c \in HostCalls
    /\ BoxGoto(c, "done")
    /\ CASE CallKind[c] = "edit"  -> Change(c, boxFile[BoxUserOf[c]] \cup {c})
         [] CallKind[c] \in {"write", "shell"} -> Change(c, {c}) \/ NoChange
         [] OTHER -> NoChange
    /\ UNCHANGED boxSeen /\ BoxUnchanged

\* A tool deadline, or the end of the run for its warm-up: the task is
\* cancelled where it waits, which releases the lock.  A write or a command
\* on its way may arrive all the same.
CancelCall(c) ==
    /\ boxPc[c] \in {"waiting", "bound", "read"} \cup Provisioning
    /\ BoxGoto(c, "cancelled")
    /\ BoxLeave(c)
    /\ boxMade' = IF boxPc[c] = "creating"
                  THEN [boxMade EXCEPT ![BoxUserOf[c]] = @ - 1] ELSE boxMade
    /\ \/ NoChange
       \/ boxPc[c] = "read" /\ Change(c, Replaced(c))
       \/ boxPc[c] = "bound" /\ CallKind[c] \in {"write", "shell"} /\ Change(c, {c})
    /\ UNCHANGED <<boxCache, boxExpired, turnBound, boxSeen>>

\* The handle is older than blaxel_sandbox_cache_ttl_seconds.
HandleExpires(u) ==
    /\ u \in boxCache /\ boxExpired < MaxExpiries
    /\ boxCache' = boxCache \ {u}
    /\ boxExpired' = boxExpired + 1
    /\ boxMade' = [boxMade EXCEPT ![u] = 0]
    /\ UNCHANGED <<boxPc, boxLine, turnBound, boxFile, boxSeen, boxTogether>>

BoxNext ==
    \/ \E c \in FileCalls :
         \/ StartBound(c) \/ StartLazy(c) \/ Provision(c) \/ Created(c) \/ NotCreated(c)
         \/ Bind(c) \/ BoxRead(c) \/ BoxGlob(c) \/ BoxGrep(c) \/ BoxWrite(c)
         \/ BoxBash(c) \/ EditRead(c) \/ EditWrite(c) \/ OnHost(c) \/ CancelCall(c)
    \/ \E u \in BoxUsers : HandleExpires(u)

BoxSpec == BoxInit /\ [][BoxNext]_boxVars
-----------------------------------------------------------------------------
\* A user's VM is requested once until its handle expires, however many calls
\* and warm-ups of parallel turns want it and are cancelled at any moment; a
\* request that failed or was cancelled leaves nothing that stands in the way.
ProvisionedOnce ==
    \A u \in BoxUsers :
        /\ boxMade[u] <= 1
        /\ boxMade[u] = 1 => \/ u \in boxCache
                             \/ \E c \in FileCalls : BoxUserOf[c] = u /\ boxPc[c] = "creating"

\* An edit that was reported as made is in the file unless a write or a
\* command replaced the whole file after it, or it was written while another
\* edit was between its read and its write.
EditsLostOnlyTogether ==
    \A c \in FileCalls :
        boxPc[c] = "done" /\ CallKind[c] = "edit" =>
            c \in boxFile[BoxUserOf[c]] \/ c \in boxTogether
=============================================================================
