------------------------------ MODULE ReplyCell ------------------------------
(***************************************************************************)
(* What the table of pending interactions promises to the code that asks   *)
(* the user something and to the code that carries the user's answer,      *)
(* without saying how: each question is a cell that is opened once, takes  *)
(* at most one answer while it is open, and is closed once, either with    *)
(* the answer it took or with none.  An answer that comes before the cell  *)
(* is opened, after it took another, or after it was closed, is refused    *)
(* (a refusal changes nothing, so it is a stuttering step).                *)
(***************************************************************************)
CONSTANTS Interactions, \* the identifiers handed out by register
          Bodies,       \* the answers a user can send
          NoBody        \* the result of a cell that closed without an answer

VARIABLES cell,    \* the life of each cell
          answer,  \* the answer a cell took
          given    \* what the asker was given when its cell closed

cellVars == <<cell, answer, given>>

CellInit ==
    /\ cell = [i \in Interactions |-> "idle"]
    /\ answer = [i \in Interactions |-> NoBody]
    /\ given = [i \in Interactions |-> NoBody]

Open(i) ==
    /\ cell[i] = "idle"
    /\ cell' = [cell EXCEPT ![i] = "open"]
    /\ UNCHANGED <<answer, given>>

Take(i, b) ==
    /\ cell[i] = "open"
    /\ cell' = [cell EXCEPT ![i] = "taken"]
    /\ answer' = [answer EXCEPT ![i] = b]
    /\ UNCHANGED given

\* The asker gets the answer that was taken.
CloseWithAnswer(i) ==
    /\ cell[i] = "taken"
    /\ cell' = [cell EXCEPT ![i] = "closed"]
    /\ given' = [given EXCEPT ![i] = answer[i]]
    /\ UNCHANGED answer

\* The asker gives up (deadline, cancellation); a taken answer is dropped.
CloseEmpty(i) ==
    /\ cell[i] \in {"open", "taken"}
    /\ cell' = [cell EXCEPT ![i] = "closed"]
    /\ UNCHANGED <<answer, given>>

CellNext ==
    \E i \in Interactions :
        \/ Open(i)
        \/ \E b \in Bodies : Take(i, b)
        \/ CloseWithAnswer(i)
        \/ CloseEmpty(i)

CellSpec == CellInit /\ [][CellNext]_cellVars
=============================================================================
