------------------------------ MODULE MCAgentRun ------------------------------
(* Two calls of Agent.run: on one session, or on a session each behind a    *)
(* semaphore with one permit.                                               *)
EXTENDS AgentRun

CONSTANTS a, b, s1

OneSession == [r \in Runs |-> s1]
OwnSession == [r \in Runs |-> r]
=============================================================================
