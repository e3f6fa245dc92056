---------------------------- MODULE MCSendTasks ----------------------------
(***************************************************************************)
(* Model-checking instance of SendTasks.                                   *)
(***************************************************************************)
EXTENDS SendTasks
=============================================================================
