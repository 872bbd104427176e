----------------------------- MODULE SdkSession -----------------------------
(***************************************************************************)
(* One KorakuSession (koraku/sdk_session.py) used by any number of tasks:  *)
(* send, stream and close, and the task that Koraku.stream starts for a    *)
(* turn (koraku/sdk.py).  A message names the turn it becomes.  The        *)
(* critical sections of the session's lock contain no await, so each is    *)
(* part of one step; the refusals that raise change nothing and are left   *)
(* out, as are the events that pass through the queue.                     *)
(***************************************************************************)
EXTENDS FiniteSets, Naturals

CONSTANTS SdkMessages, NoMessage

ASSUME SdkAssumption == NoMessage \notin SdkMessages

VARIABLES sdkPending,   \* _pending_message
          sdkClosed,    \* _closed
          sdkCancel,    \* the turn whose event _turn_cancel holds
          sdkCancelled, \* turns whose event is set
          sdkTask,      \* the task of each turn
          sdkReader,    \* the consumer of each turn's events
          sdkMixed      \* turns during which another was read (history variable)

sdkVars == <<sdkPending, sdkClosed, sdkCancel, sdkCancelled, sdkTask, sdkReader, sdkMixed>>

SdkTypeOK ==
    /\ sdkPending \in SdkMessages \cup {NoMessage}
    /\ sdkClosed \in BOOLEAN
    /\ sdkCancel \in SdkMessages \cup {NoMessage}
    /\ sdkCancelled \subseteq SdkMessages
    /\ sdkTask \in [SdkMessages -> {"none", "running", "over"}]
    /\ sdkReader \in [SdkMessages -> {"none", "reading", "drained", "left"}]
    /\ sdkMixed \subseteq SdkMessages

SdkInit ==
    /\ sdkPending = NoMessage
    /\ sdkClosed = FALSE
    /\ sdkCancel = NoMessage
    /\ sdkCancelled = {}
    /\ sdkTask = [m \in SdkMessages |-> "none"]
    /\ sdkReader = [m \in SdkMessages |-> "none"]
    /\ sdkMixed = {}

Reading == {m \in SdkMessages : sdkReader[m] = "reading"}

\* send: one message at a time waits for its stream.
SdkSend(m) ==
    /\ ~sdkClosed
    /\ sdkPending = NoMessage
    /\ sdkTask[m] = "none"
    /\ sdkPending' = m
    /\ UNCHANGED <<sdkClosed, sdkCancel, sdkCancelled, sdkTask, sdkReader, sdkMixed>>

\* Koraku.stream: the turn runs as a task of its own that fills a queue.
StartedTask(m) == [sdkTask EXCEPT ![m] = "running"]

\* stream takes the pending message, installs its event and starts the turn.
SdkStream(m) ==
    /\ ~sdkClosed
    /\ sdkPending = m
    /\ sdkPending' = NoMessage
    /\ sdkCancel' = m
    /\ sdkTask' = StartedTask(m)
    /\ sdkReader' = [sdkReader EXCEPT ![m] = "reading"]
    /\ sdkMixed' = sdkMixed \cup IF Reading = {} THEN {} ELSE Reading \cup {m}
    /\ UNCHANGED <<sdkClosed, sdkCancelled>>

\* The task ends: agent.run returned or raised, its finally queued the None.
SdkTaskEnds(m) ==
    /\ sdkTask[m] = "running"
    /\ sdkTask' = [sdkTask EXCEPT ![m] = "over"]
    /\ UNCHANGED <<sdkPending, sdkClosed, sdkCancel, sdkCancelled, sdkReader, sdkMixed>>

\* The finally of stream: _turn_cancel is cleared, whosever it is.
ForgetTurn == NoMessage
SdkDrained(m) ==
    /\ sdkReader[m] = "reading"
    /\ sdkTask[m] = "over"
    /\ sdkReader' = [sdkReader EXCEPT ![m] = "drained"]
    /\ sdkCancel' = ForgetTurn
    /\ UNCHANGED <<sdkPending, sdkClosed, sdkCancelled, sdkTask, sdkMixed>>

\* The consumer stops early (break, exception, aclose): the same finally runs,
\* and nobody cancels or awaits the task of Koraku.stream.
SdkLeave(m) ==
    /\ sdkReader[m] = "reading"
    /\ sdkReader' = [sdkReader EXCEPT ![m] = "left"]
    /\ sdkCancel' = ForgetTurn
    /\ UNCHANGED <<sdkPending, sdkClosed, sdkCancelled, sdkTask, sdkMixed>>

\* close: the event in _turn_cancel is set.  The mutant only closes.
CancelNothing == {}
CancelInFlight == {sdkCancel} \ {NoMessage}
SdkClose ==
    /\ ~sdkClosed
    /\ sdkClosed' = TRUE
    /\ sdkCancelled' = sdkCancelled \cup CancelInFlight
    /\ UNCHANGED <<sdkPending, sdkCancel, sdkTask, sdkReader, sdkMixed>>

SdkNext ==
    \/ \E m \in SdkMessages : SdkSend(m) \/ SdkStream(m) \/ SdkTaskEnds(m)
                              \/ SdkDrained(m) \/ SdkLeave(m)
    \/ SdkClose

SdkSpec == SdkInit /\ [][SdkNext]_sdkVars
-----------------------------------------------------------------------------
\* After close a turn that still runs and was not cancelled is one whose
\* consumer left it, or one that was read together with another: a turn read
\* alone to its end is never missed by close.
OnlyStraysSurviveClose ==
    sdkClosed => \A m \in SdkMessages :
        sdkTask[m] = "running" /\ m \notin sdkCancelled =>
            sdkReader[m] = "left" \/ m \in sdkMixed
=============================================================================
