--------------------------- MODULE MCSnoozeTasks ---------------------------
(***************************************************************************)
(* Model-checking instance of SnoozeTasks.                                 *)
(***************************************************************************)
EXTENDS SnoozeTasks
=============================================================================
