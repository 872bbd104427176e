------------------------- MODULE PendingInteractions -------------------------
(***************************************************************************)
(* koraku/agent/pending_interactions.py with its two callers, the tool     *)
(* approval of agent/tool_executor.py and the AskUser tool, and the clean- *)
(* up at the end of a run (agent/run.py).                                  *)
(*                                                                         *)
(* The functions of the module await nothing while they hold _lock, and    *)
(* all of them run on one event loop, so each is one step here.  What is   *)
(* not one step is the wait: between the moment an answer, the deadline or *)
(* a task cancellation reaches the waiting coroutine and the moment it     *)
(* runs again, the loop runs other callbacks.  Those moments are separate  *)
(* actions: Resolve, Expire and Stop on one side, the three ways in which  *)
(* the waiter resumes on the other.  When two of them reached the waiter   *)
(* the one that wins depends on the version of asyncio.wait_for, so either *)
(* may.                                                                    *)
(***************************************************************************)
EXTENDS Naturals

CONSTANTS Interactions, \* identifiers, each used once (uuid4)
          Runs,         \* run identifiers of the hosted chat route
          NoRun,        \* run_id=None, the SDK and the automations
          Bodies,       \* response bodies a client can send
          NoBody        \* no result has been set

ASSUME PendingAssumption ==
    /\ NoRun \notin Runs
    /\ NoBody \notin Bodies

VARIABLES pending,  \* the keys of _pending
          runOf,    \* entry.run_id, by interaction
          future,   \* the state of entry.future
          body,     \* its result
          waiter,   \* the coroutine in wait_for_response
          expired,  \* waits whose wait_for deadline has fired
          stopped,  \* waits whose task was cancelled
          acked,    \* how often resolve returned True, by interaction
          ended     \* runs that are over

vars == <<pending, runOf, future, body, waiter, expired, stopped, acked, ended>>

Over == {"replied", "timeout", "cancelled"}

TypeOK ==
    /\ pending \subseteq Interactions
    /\ runOf \in [Interactions -> Runs \cup {NoRun}]
    /\ future \in [Interactions -> {"open", "result", "failed"}]
    /\ body \in [Interactions -> Bodies \cup {NoBody}]
    /\ waiter \in [Interactions -> {"idle", "waiting"} \cup Over]
    /\ expired \subseteq Interactions
    /\ stopped \subseteq Interactions
    /\ acked \in [Interactions -> Nat]
    /\ ended \subseteq Runs

Init ==
    /\ pending = {}
    /\ runOf = [i \in Interactions |-> NoRun]
    /\ future = [i \in Interactions |-> "open"]
    /\ body = [i \in Interactions |-> NoBody]
    /\ waiter = [i \in Interactions |-> "idle"]
    /\ expired = {}
    /\ stopped = {}
    /\ acked = [i \in Interactions |-> 0]
    /\ ended = {}
-----------------------------------------------------------------------------
\* The pop of the finally clause of wait_for_response (the mutant forgets it).
LeaveEntry(i) == UNCHANGED pending
DropEntry(i) == pending' = pending \ {i}

\* set_exception on a future with no result.
FailIfOpen(f) == IF f = "open" THEN "failed" ELSE f

\* register, the event to the client and the first part of
\* wait_for_response: nothing between them gives up the loop.
Ask(i, r) ==
    /\ waiter[i] = "idle"
    /\ r \notin ended
    /\ pending' = pending \cup {i}
    /\ runOf' = [runOf EXCEPT ![i] = r]
    /\ waiter' = [waiter EXCEPT ![i] = "waiting"]
    /\ UNCHANGED <<future, body, expired, stopped, acked, ended>>

\* Mutants of resolve: the entry is looked up and stays; or True is not returned.
ResolveByLookup(i, b) ==
    /\ i \in pending
    /\ future' = [future EXCEPT ![i] = "result"]
    /\ body' = [body EXCEPT ![i] = b]
    /\ acked' = [acked EXCEPT ![i] = @ + 1]
    /\ UNCHANGED <<pending, runOf, waiter, expired, stopped, ended>>
ResolveUnacknowledged(i, b) ==
    /\ i \in pending /\ future[i] = "open"
    /\ pending' = pending \ {i}
    /\ future' = [future EXCEPT ![i] = "result"]
    /\ body' = [body EXCEPT ![i] = b]
    /\ UNCHANGED <<runOf, waiter, expired, stopped, acked, ended>>

\* resolve: the entry is taken out first; an entry that is gone, or whose
\* future is done, makes it return False, which changes nothing more.
Resolve(i, b) ==
    /\ i \in pending
    /\ pending' = pending \ {i}
    /\ IF future[i] = "open"
       THEN /\ future' = [future EXCEPT ![i] = "result"]
            /\ body' = [body EXCEPT ![i] = b]
            /\ acked' = [acked EXCEPT ![i] = @ + 1]
       ELSE UNCHANGED <<future, body, acked>>
    /\ UNCHANGED <<runOf, waiter, expired, stopped, ended>>

\* The deadline of asyncio.wait_for fires (the mutant awaits the bare future).
NeverExpire(i) == FALSE
Expire(i) ==
    /\ waiter[i] = "waiting"
    /\ i \notin expired
    /\ expired' = expired \cup {i}
    /\ UNCHANGED <<pending, runOf, future, body, waiter, stopped, acked, ended>>

\* The tool phase timed out or the whole run was cancelled: the task of the
\* waiting coroutine is cancelled.
Stop(i) ==
    /\ waiter[i] = "waiting"
    /\ i \notin stopped
    /\ stopped' = stopped \cup {i}
    /\ UNCHANGED <<pending, runOf, future, body, waiter, expired, acked, ended>>

\* The waiter resumes with the result; its finally clause removes the entry.
ReturnReply(i) ==
    /\ waiter[i] = "waiting"
    /\ future[i] = "result"
    /\ waiter' = [waiter EXCEPT ![i] = "replied"]
    /\ DropEntry(i)
    /\ UNCHANGED <<runOf, future, body, expired, stopped, acked, ended>>

\* The waiter resumes with TimeoutError: cancel() takes the entry out and
\* fails its future if nothing was set, then the finally clause runs.
RaiseTimeout(i) ==
    /\ waiter[i] = "waiting"
    /\ i \in expired
    /\ future' = [future EXCEPT ![i] = IF i \in pending THEN FailIfOpen(@) ELSE @]
    /\ waiter' = [waiter EXCEPT ![i] = "timeout"]
    /\ DropEntry(i)
    /\ UNCHANGED <<runOf, body, expired, stopped, acked, ended>>

\* CancelledError passes the except clause: only the finally clause runs.
RaiseCancelled(i) ==
    /\ waiter[i] = "waiting"
    /\ i \in stopped
    /\ waiter' = [waiter EXCEPT ![i] = "cancelled"]
    /\ DropEntry(i)
    /\ UNCHANGED <<runOf, future, body, expired, stopped, acked, ended>>

\* The finally clause of _run_agent_turn, which is reached when every tool of
\* the run has returned or has finished its cancellation: cancel_run.
EndRun(r) ==
    /\ r \notin ended
    /\ \A i \in Interactions : runOf[i] = r => waiter[i] # "waiting"
    /\ ended' = ended \cup {r}
    /\ LET mine == {i \in pending : runOf[i] = r}
       IN /\ pending' = pending \ mine
          /\ future' = [i \in Interactions |->
                          IF i \in mine THEN FailIfOpen(future[i]) ELSE future[i]]
    /\ UNCHANGED <<runOf, body, waiter, expired, stopped, acked>>

Next ==
    \/ \E i \in Interactions :
         \/ \E r \in Runs \cup {NoRun} : Ask(i, r)
         \/ \E b \in Bodies : Resolve(i, b)
         \/ Expire(i)
         \/ Stop(i)
         \/ ReturnReply(i)
         \/ RaiseTimeout(i)
         \/ RaiseCancelled(i)
    \/ \E r \in Runs : EndRun(r)

Spec == Init /\ [][Next]_vars

\* The loop runs every coroutine that can go on, and a deadline fires.
Fairness ==
    \A i \in Interactions :
        /\ WF_vars(Expire(i))
        /\ WF_vars(ReturnReply(i) \/ RaiseTimeout(i) \/ RaiseCancelled(i))

FairSpec == Spec /\ Fairness
-----------------------------------------------------------------------------
\* An entry of the table always has a coroutine that waits for it: however a
\* wait ends (answer, deadline, cancellation of its task), with or without a
\* run_id to clean up by, no entry is left behind.
NoOrphanEntry == \A i \in pending : waiter[i] = "waiting" /\ future[i] = "open"

\* A client that answers twice, from two tabs or on a retry, is told at most
\* once that its answer was taken, and the answer taken is the future's.
OneAcknowledgement ==
    \A i \in Interactions :
        /\ acked[i] <= 1
        /\ acked[i] = 1 <=> body[i] # NoBody

\* A coroutine that goes on with an answer goes on with the one the client
\* was told was taken; one that was told nothing had its deadline or its
\* cancellation reach it, even when an answer was acknowledged meanwhile.
OutcomeExplained ==
    \A i \in Interactions :
        /\ waiter[i] = "replied" => acked[i] = 1 /\ future[i] = "result"
        /\ waiter[i] = "timeout" => i \in expired
        /\ waiter[i] = "cancelled" => i \in stopped

\* Once the wait is over no answer is acknowledged any more: the tool was
\* denied or skipped, and the user is told so (404 in interaction_respond).
LateAnswerRefused ==
    [][\A i \in Interactions : waiter[i] \in Over => acked'[i] = acked[i]]_vars

\* The sweep at the end of a run is a safety net: the waits it would fail
\* have all cleaned up after themselves, so it changes no future.
SweepFindsNothing == [][ended' # ended => UNCHANGED <<pending, future>>]_vars

\* Every wait ends, whether or not the user ever answers.
EveryWaitEnds ==
    \A i \in Interactions : waiter[i] = "waiting" ~> waiter[i] \in Over
-----------------------------------------------------------------------------
\* The abstract cell of an interaction, and what its asker was given.
CellState(i) ==
    CASE waiter[i] = "idle" -> "idle"
      [] waiter[i] = "waiting" /\ future[i] = "result" -> "taken"
      [] waiter[i] = "waiting" /\ future[i] # "result" -> "open"
      [] waiter[i] \in Over -> "closed"

GivenBody(i) == IF waiter[i] = "replied" THEN body[i] ELSE NoBody

Cell == INSTANCE ReplyCell WITH
    cell <- [i \in Interactions |-> CellState(i)],
    answer <- body,
    given <- [i \in Interactions |-> GivenBody(i)]

\* The table implements one reply cell per interaction.
ImplementsCells == Cell!CellSpec
=============================================================================
