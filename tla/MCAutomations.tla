---------------------------- MODULE MCAutomations ----------------------------
(* Two calls edit the automations in one process; another process shares    *)
(* the workspace, and either may be the leader.                             *)
EXTENDS Automations

CONSTANTS p, q

InFirst == [c \in Callers |-> p]
=============================================================================
