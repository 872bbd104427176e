------------------------------ MODULE ChatStream ------------------------------
(***************************************************************************)
(* One hosted chat request: _stream_agent_sse and                          *)
(* _yield_sse_events_from_queue of koraku/api/chat_routes.py.  Four things *)
(* run side by side: the generator that writes the response, the task of   *)
(* the agent that feeds it through a bounded queue, the watcher that looks *)
(* for a disconnect, and the client.                                       *)
(*                                                                         *)
(* Events are numbered in the order in which the agent emits them.  The    *)
(* framework closes the generator of a client that went away by cancelling *)
(* it where it waits (an assumption on Starlette).  The rows an event is   *)
(* mapped to, the pings and the preamble are left out.                     *)
(***************************************************************************)
EXTENDS Naturals, Sequences, FiniteSets

CONSTANTS Capacity,  \* max(16, settings.chat_sse_queue_max)
          MaxEvents  \* bound: events one run emits in the model

ASSUME StreamAssumption == Capacity \in Nat \ {0} /\ MaxEvents \in Nat

VARIABLES client,   \* reads the response, or is gone
          phase,    \* where the generator is
          agent,    \* the task of run_agent
          watcher,  \* the task of _disconnect_watcher
          cancel,   \* eff_cancel
          queue,    \* event numbers, and End for the sentinel None
          sent,     \* events emitted so far
          terminal, \* the number of the first terminal event, or 0
          dropped,  \* events that met a full queue
          got       \* events written to the client

vars == <<client, phase, agent, watcher, cancel, queue, sent, terminal, dropped, got>>
runVars == <<agent, sent, terminal, dropped>>

End == 0
Working == {"running", "blocked", "closing", "leaving"}
Reading == {"streaming", "last"}

TypeOK ==
    /\ client \in {"there", "gone"}
    /\ phase \in {"preamble", "finishing", "ended", "closed"} \cup Reading
    /\ agent \in {"none", "done"} \cup Working
    /\ watcher \in {"watching", "stopped"}
    /\ cancel \in BOOLEAN
    /\ queue \in Seq(Nat) /\ Len(queue) <= Capacity
    /\ sent \in Nat
    /\ terminal \in Nat
    /\ dropped \subseteq Nat
    /\ got \in Seq(Nat)

Init ==
    /\ client = "there"
    /\ phase = "preamble"
    /\ agent = "none"
    /\ watcher = "watching"
    /\ cancel = FALSE
    /\ queue = <<>>
    /\ sent = 0
    /\ terminal = 0
    /\ dropped = {}
    /\ got = <<>>
-----------------------------------------------------------------------------
\* The queue is created with maxsize.
Full == Len(queue) >= Capacity

\* emit: the event is queued; on QueueFull it is dropped and the run is
\* cancelled (the mutant only drops it).
DropQuietly ==
    /\ sent' = sent + 1
    /\ IF Full THEN dropped' = dropped \cup {sent + 1} /\ UNCHANGED queue
       ELSE queue' = Append(queue, sent + 1) /\ UNCHANGED dropped
    /\ UNCHANGED cancel
Emit ==
    /\ sent' = sent + 1
    /\ IF Full
       THEN dropped' = dropped \cup {sent + 1} /\ cancel' = TRUE /\ UNCHANGED queue
       ELSE queue' = Append(queue, sent + 1) /\ UNCHANGED <<dropped, cancel>>

\* The preamble was written and the history is loaded: the task starts.
Boot ==
    /\ phase = "preamble"
    /\ phase' = "streaming"
    /\ agent' = "running"
    /\ UNCHANGED <<client, watcher, cancel, queue, sent, terminal, dropped, got>>

Work ==
    /\ agent = "running" /\ sent < MaxEvents
    /\ Emit
    /\ UNCHANGED <<client, phase, agent, watcher, terminal, got>>

\* The run awaits something that has no deadline of its own and does not look
\* at the cancel event (the last reply, a fetch for the system prompt).
Block ==
    /\ agent = "running"
    /\ agent' = "blocked"
    /\ UNCHANGED <<client, phase, watcher, cancel, queue, sent, terminal, dropped, got>>

Unblock ==
    /\ agent = "blocked"
    /\ agent' = "running"
    /\ UNCHANGED <<client, phase, watcher, cancel, queue, sent, terminal, dropped, got>>

\* The terminal event of the turn; its finally clause follows.
Conclude ==
    /\ agent = "running"
    /\ Emit
    /\ terminal' = sent + 1
    /\ agent' = "closing"
    /\ UNCHANGED <<client, phase, watcher, got>>

\* agent.run raised: run_agent emits the error itself.
Raise ==
    /\ agent \in {"running", "blocked", "closing"}
    /\ Emit
    /\ terminal' = IF terminal = 0 THEN sent + 1 ELSE terminal
    /\ agent' = "leaving"
    /\ UNCHANGED <<client, phase, watcher, got>>

Leave ==
    /\ agent = "closing"
    /\ agent' = "leaving"
    /\ UNCHANGED <<client, phase, watcher, cancel, queue, sent, terminal, dropped, got>>

\* The end of the finally clause: the sentinel, unless it does not fit.
PutSentinel ==
    /\ agent = "leaving"
    /\ agent' = "done"
    /\ queue' = IF Full THEN queue ELSE Append(queue, End)
    /\ UNCHANGED <<client, phase, watcher, cancel, sent, terminal, dropped, got>>
-----------------------------------------------------------------------------
\* The generator takes one item: an event is written, the sentinel ends the
\* loop.
Take ==
    /\ phase \in Reading /\ queue # <<>>
    /\ queue' = Tail(queue)
    /\ IF Head(queue) = End
       THEN phase' = "finishing" /\ UNCHANGED got
       ELSE phase' = "streaming" /\ got' = Append(got, Head(queue))
    /\ UNCHANGED <<client, watcher, cancel, runVars>>

\* Nothing came for the keep-alive time.  While the task runs a ping is
\* written, which changes nothing here; afterwards the generator waits once
\* more.  (Mutants: any silence ends the stream; silence is always answered
\* with a ping.)
EndOnSilence ==
    /\ phase = "streaming" /\ queue = <<>>
    /\ phase' = "finishing"
    /\ UNCHANGED <<client, watcher, cancel, queue, runVars, got>>
PingForever == FALSE
IdleAfterRun ==
    /\ phase = "streaming" /\ queue = <<>> /\ agent = "done"
    /\ phase' = "last"
    /\ UNCHANGED <<client, watcher, cancel, queue, runVars, got>>

LastTimeout ==
    /\ phase = "last" /\ queue = <<>>
    /\ phase' = "finishing"
    /\ UNCHANGED <<client, watcher, cancel, queue, runVars, got>>

\* After the loop: a task that still ran would be cancelled and, after the
\* grace, cut off before its sentinel; then the watcher is stopped and the
\* stream ends.
Finish ==
    /\ phase = "finishing"
    /\ cancel' = (cancel \/ agent # "done")
    /\ agent' = "done"
    /\ watcher' = "stopped"
    /\ phase' = "ended"
    /\ UNCHANGED <<client, queue, sent, terminal, dropped, got>>
-----------------------------------------------------------------------------
Disconnect ==
    /\ client = "there" /\ phase \notin {"ended", "closed"}
    /\ client' = "gone"
    /\ UNCHANGED <<phase, watcher, cancel, queue, runVars, got>>

\* The framework cancels the generator: what follows its loop does not run
\* (the mutant cleans up the watcher on the way out).
CloseAndStopWatching ==
    /\ client = "gone" /\ phase \notin {"ended", "closed"}
    /\ phase' = "closed"
    /\ watcher' = "stopped"
    /\ UNCHANGED <<client, cancel, queue, runVars, got>>
CloseGenerator ==
    /\ client = "gone" /\ phase \notin {"ended", "closed"}
    /\ phase' = "closed"
    /\ UNCHANGED <<client, watcher, cancel, queue, runVars, got>>

\* The watcher polls is_disconnected; it outlives a closed generator.
Watch ==
    /\ watcher = "watching" /\ client = "gone"
    /\ cancel' = TRUE
    /\ watcher' = "stopped"
    /\ UNCHANGED <<client, phase, queue, runVars, got>>

AgentStep == Work \/ Block \/ Conclude \/ Raise \/ Leave \/ PutSentinel
StreamStep == Boot \/ Take \/ IdleAfterRun \/ LastTimeout \/ Finish \/ CloseGenerator
Next == AgentStep \/ Unblock \/ StreamStep \/ Disconnect \/ Watch

Spec == Init /\ [][Next]_vars

\* The loop runs whatever can go on; the run ends by its own deadlines as long
\* as what it awaits comes back.  The client reads or disconnects.
Fairness ==
    /\ WF_vars(StreamStep) /\ WF_vars(Watch)
    /\ SF_vars(Conclude) /\ WF_vars(Leave) /\ WF_vars(PutSentinel)

FairSpec == Spec /\ Fairness /\ WF_vars(Unblock)

\* The same when an external call may never come back.
StuckSpec == Spec /\ Fairness
-----------------------------------------------------------------------------
Items(s) == {s[n] : n \in DOMAIN s}
Rising(s) == \A m, n \in DOMAIN s : m < n /\ s[n] # End => s[m] < s[n]

\* Every event the agent emitted is written, waits, or was dropped, exactly
\* one of them and in order; and a drop always cancels the run, so that a gap
\* in what the client sees never goes with a turn that carries on regardless.
NothingLostSilently ==
    /\ Rising(got \o queue)
    /\ 1..sent \subseteq Items(got) \cup Items(queue) \cup dropped
    /\ dropped \cap (Items(got) \cup Items(queue)) = {}
    /\ dropped # {} => cancel

\* A stream that came to its end told the client everything, its terminal
\* event included, unless the queue overflowed.
StreamComplete ==
    phase = "ended" /\ dropped = {} => Len(got) = sent /\ terminal \in 1..sent

\* The loop of the generator ends only when the task is done: the code after
\* it that would cancel a running task has nothing to cancel.
DoneMeansOver == phase \in {"last", "finishing", "ended"} => agent = "done"

\* Every response ends, even when the sentinel did not fit into the queue.
StreamEnds == <>(phase \in {"ended", "closed"})

\* A run that nobody cancelled is watched to its end, also when the generator
\* is closed before it can tell anybody: a disconnect reaches every run.
RunStaysWatched == agent \in Working /\ ~cancel => watcher = "watching"

\* What the comment after the loop promises: on disconnect a run that is stuck
\* in an external call is cut off after a short grace.
DisconnectCutsOff == (client = "gone" /\ agent = "blocked") ~> agent # "blocked"
=============================================================================
