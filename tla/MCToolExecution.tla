--------------------------- MODULE MCToolExecution ---------------------------
(* A message with two sub-agents and one plain tool call.  Each sub-agent   *)
(* calls one tool: with a single call the exception of a hook escapes.      *)
EXTENDS ToolExecution

CONSTANTS taskA, taskB, readA, bashB, search

Tree == [c \in Calls |-> CASE c = readA -> taskA [] c = bashB -> taskB
                           [] OTHER -> Top]
=============================================================================
