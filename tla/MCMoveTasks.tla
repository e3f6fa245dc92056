---------------------------- MODULE MCMoveTasks ----------------------------
(***************************************************************************)
(* Model-checking instance of MoveTasks.                                   *)
(***************************************************************************)
EXTENDS MoveTasks

CONSTANTS m1, m2, inbox, archive

Numbers == [m \in Messages |-> IF m = m1 THEN 1 ELSE 2]

\* The folder where the messages begin is visited last: what a move sends there
\* is met before its source, and what an undo sends back after it.
VisitOrder == [h \in Folders |-> IF h = inbox THEN 2 ELSE 1]

\* Without opaque ids no attempt times out and no mailbox is rebuilt: a bound on
\* the size of the run.
Everything  == [ids \in BOOLEAN |-> {"crash", "fault", "other"}
                                       \cup IF ids THEN {"timeout", "rebuild"} ELSE {}]
RebuildOnly == [ids \in BOOLEAN |-> {"rebuild"}]
=============================================================================
