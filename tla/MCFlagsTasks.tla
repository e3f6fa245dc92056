---------------------------- MODULE MCFlagsTasks ---------------------------
(* Small instances of FlagsTasks.                                          *)
EXTENDS FlagsTasks, TLC

CONSTANTS m1, m2, seen, flagged, none, idle

Names == Permutations({m1, m2})
=============================================================================
