----------------------------- MODULE MCChatStream -----------------------------
(* One request whose queue holds two items and whose run may emit four      *)
(* events before its terminal ones.                                         *)
EXTENDS ChatStream
=============================================================================
