------------------------ MODULE MCPendingInteractions ------------------------
(* Two questions of one hosted run, or of none, and two possible answers.  *)
EXTENDS PendingInteractions
=============================================================================
