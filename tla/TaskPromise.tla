---------------------------- MODULE TaskPromise ----------------------------
(***************************************************************************)
(* What the task layer promises to a caller whose transaction committed a  *)
(* task: the task is settled once, with one outcome, unless a user action  *)
(* withdraws it first; and the repairs a settlement owes to other tables   *)
(* are made before the settled row is forgotten.                           *)
(***************************************************************************)
CONSTANTS Tasks, Outcomes

VARIABLES
    phase,  \* none, open, an outcome, withdrawn or forgotten
    debt    \* settled tasks whose repairs have not been made

vars == <<phase, debt>>

Init ==
    /\ phase = [t \in Tasks |-> "none"]
    /\ debt = {}

Accept(t) ==
    /\ phase[t] = "none"
    /\ phase' = [phase EXCEPT ![t] = "open"]
    /\ UNCHANGED debt

Settle(t) ==
    /\ phase[t] = "open"
    /\ \E outcome \in Outcomes : phase' = [phase EXCEPT ![t] = outcome]
    /\ debt' = debt \cup {t}

Withdraw(t) ==
    /\ phase[t] = "open"
    /\ phase' = [phase EXCEPT ![t] = "withdrawn"]
    /\ UNCHANGED debt

Repay(S) ==
    /\ debt' = debt \ S
    /\ UNCHANGED phase

Forget(S) ==
    /\ \A t \in S : phase[t] \in Outcomes /\ t \notin debt
    /\ phase' = [t \in Tasks |-> IF t \in S THEN "forgotten" ELSE phase[t]]
    /\ UNCHANGED debt

Next ==
    \/ \E t \in Tasks : Accept(t) \/ Settle(t) \/ Withdraw(t)
    \/ \E S \in SUBSET Tasks : Repay(S) \/ Forget(S)

Spec == Init /\ [][Next]_vars

\* Every accepted task is settled or withdrawn: no task waits for ever.
EveryPromiseKept ==
    \A t \in Tasks : phase[t] = "open" ~> phase[t] \notin {"none", "open"}
=============================================================================
