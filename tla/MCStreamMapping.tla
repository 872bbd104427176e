-------------------------- MODULE MCStreamMapping --------------------------
(* A turn and two sub-agents of different names, which all number their     *)
(* tool calls alike.                                                        *)
EXTENDS StreamMapping

CONSTANTS researcher, writer

Names == [a \in Agents |-> CASE a = researcher -> "task:researcher:"
                             [] a = writer -> "task:writer:"
                             [] OTHER -> ""]
=============================================================================
