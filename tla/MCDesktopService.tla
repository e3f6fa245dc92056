-------------------------- MODULE MCDesktopService --------------------------
(***************************************************************************)
(* Model-checking instance of DesktopService.                              *)
(***************************************************************************)
EXTENDS DesktopService
=============================================================================
