------------------------- MODULE MCAccountWriteSlots ------------------------
(* Instances of AccountWriteSlots: u1 is a request, r1 a task runner and k1 *)
(* an execution a runner starts without awaiting it.                        *)
EXTENDS AccountWriteSlots

Gates == [a \in Accounts |-> IF a = 1 THEN 3 ELSE 2]
=============================================================================
