----------------------- MODULE TaskScheduler_proofs ------------------------
(***************************************************************************)
(* TaskScheduler's safety properties, for every set of tasks and accounts, *)
(* every attempt limit and every number of restarts.                       *)
(*                                                                         *)
(* DrivenSerially, InOrder and the rest are not inductive: they need to  *)
(* know where each chain stands and what that says of its row.             *)
(***************************************************************************)
EXTENDS TaskScheduler, TLAPS

Busy == Driving \cup {"backoff", "hook"}

\* Where a chain stands determines the status of the row it is on.
ChainInv ==
    \A a \in Accounts :
        /\ pc[a] \in Busy => cur[a] \in Tasks /\ AccountOf[cur[a]] = a
        /\ pc[a] \in Driving => status[cur[a]] = "running"
        /\ pc[a] = "backoff" => /\ status[cur[a]] \in {"pending", "withdrawn"}
                                /\ attempts[cur[a]] > 0
        /\ pc[a] = "hook" => status[cur[a]] \in Terminal /\ cur[a] \in owed
        /\ proc \in {"down", "booting"} => pc[a] = "idle"

\* Attempts and the two time columns of a row.
RowInv ==
    \A t \in Tasks :
        /\ rank[t] < nextRank
        /\ status[t] = "absent" => attempts[t] = 0
        /\ status[t] = "running" => attempts[t] > 0
        /\ t \in backoff => attempts[t] > 0
        /\ t \in scheduled => t \in Deferred /\ attempts[t] = 0

\* The row a chain holds its place for has no earlier attempted live row.
HoldsPlace ==
    \A a \in Accounts : pc[a] \in Driving \cup {"backoff"} =>
        \A t \in Tasks : Before(t, cur[a]) /\ Live(t) => attempts[t] = 0

\* A row waiting to be claimed has an attempt left in the budget.
BudgetInv ==
    \A t \in Tasks :
        /\ attempts[t] <= MaxAttempts + restarts
        /\ status[t] = "pending" => attempts[t] < MaxAttempts + restarts
        /\ proc \in {"down", "booting"} /\ status[t] = "running" =>
               attempts[t] < MaxAttempts + restarts

\* Debts belong to settled rows, and none is left when resume prunes.
DebtInv ==
    \A t \in Tasks :
        /\ t \in owed => status[t] \in Terminal
        /\ proc = "booting" => t \notin owed

IInv ==
    /\ TypeOK
    /\ ChainInv
    /\ RowInv
    /\ DrivenSerially
    /\ InOrder
    /\ HoldsPlace
    /\ BudgetInv
    /\ DebtInv

USE SchedulerAssumption DEF SchedulerAssumption

\* An empty task table satisfies the inductive invariant.
LEMMA InitInv == Init => IInv
BY DEF Init, IInv, TypeOK, ChainInv, RowInv, DrivenSerially,
       InOrder, HoldsPlace, BudgetInv, DebtInv, Before, Live, Status, Terminal,
       Gone, Driving, Busy, ChainPc

\* The five ways an attempt is settled are one step as far as IInv can tell.
LEMMA SettlingSteps ==
  ASSUME NEW a \in Accounts,
         RefuseUnrunnable(a) \/ SlotTimesOut(a) \/ RunnerCompletes(a)
         \/ RunnerAborts(a) \/ GiveUp(a)
  PROVE  /\ InProcess /\ pc[a] \in Driving
         /\ \E outcome \in Terminal : SettleCur(a, outcome)
BY DEF RefuseUnrunnable, SlotTimesOut, RunnerCompletes, RunnerAborts, GiveUp,
       InProcess, Driving, Terminal

\* dueAccountIds returns accounts only.
LEMMA DueIsAccounts == DueAccounts \subseteq Accounts
BY DEF DueAccounts

\* Every step of the store, the scheduler and the hooks keeps the invariant.
LEMMA InvStep == IInv /\ [Next]_vars => IInv'
<1> SUFFICES ASSUME IInv, [Next]_vars PROVE IInv'
  OBVIOUS
<1> USE DEF IInv, TypeOK, ChainInv, RowInv, DrivenSerially,
            InOrder, HoldsPlace, BudgetInv, DebtInv, Before, Live, Status,
            Terminal, Gone, ChainPc, Driving, Busy, InProcess, Enqueued,
            timeVars, orderVars, procVars, chainVars
<1>1. CASE ProcessEnds
  BY <1>1 DEF ProcessEnds
<1>2. ASSUME NEW a \in Accounts, RunHook(a) PROVE IInv'
  BY <1>2 DEF RunHook
<1>3. ASSUME NEW t \in Tasks, Commit(t) PROVE IInv'
  BY <1>3 DEF Commit
<1>4. ASSUME NEW t \in Tasks, Withdraw(t) PROVE IInv'
  BY <1>4 DEF Withdraw
<1>5. ASSUME NEW a \in Accounts, BeginDrain(a) PROVE IInv'
  BY <1>5 DEF BeginDrain
<1>6. ASSUME NEW a \in Accounts, ClaimNext(a) PROVE IInv'
  <2>1. PICK t \in Tasks :
          /\ AccountOf[t] = a
          /\ Claimable(t)
          /\ \A u \in Tasks : AccountOf[u] = a /\ Claimable(u) => rank[t] <= rank[u]
          /\ status' = [status EXCEPT ![t] = "running"]
          /\ attempts' = [attempts EXCEPT ![t] = @ + 1]
          /\ cur' = [cur EXCEPT ![a] = t]
    BY <1>6 DEF ClaimNext, NextClaimable
  <2>2. /\ proc = "up" /\ pc[a] = "claim"
        /\ pc' = [pc EXCEPT ![a] = "attempt"]
        /\ UNCHANGED <<orderVars, timeVars, owed, procVars, queued, slot>>
    BY <1>6 DEF ClaimNext
  <2>3. ~Barred(t) /\ status[t] = "pending" /\ t \notin scheduled
    BY <2>1 DEF Claimable
  \* An earlier live row is a deferred one whose time has not come.
  <2>4. ASSUME NEW e \in Tasks, Before(e, t), Live(e)
        PROVE  e \in scheduled /\ attempts[e] = 0
    <3>1. status[e] = "pending"
      BY <2>1, <2>2, <2>4
    <3>2. ~Barred(e)
      BY <2>3, <2>4 DEF Barred
    <3>3. ~Claimable(e)
      BY <2>1, <2>4
    <3>4. e \in backoff => FALSE
      BY <2>3, <2>4, <3>1 DEF Barred
    <3> QED
      BY <3>1, <3>2, <3>3, <3>4 DEF Claimable
  <2>5. TypeOK' /\ DebtInv' /\ RowInv'
    BY <2>1, <2>2, <2>3
  <2>6. ChainInv'
    BY <2>1, <2>2, <2>3
  <2>7. DrivenSerially'
    BY <2>1, <2>2, <2>3
  <2>8. InOrder'
    BY <2>1, <2>2, <2>3, <2>4
  <2>9. HoldsPlace'
    BY <2>1, <2>2, <2>3, <2>4
  <2>10. BudgetInv'
    BY <2>1, <2>2, <2>3
  <2> QED
    BY <2>5, <2>6, <2>7, <2>8, <2>9, <2>10
<1>7. ASSUME NEW a \in Accounts, DrainEnds(a) PROVE IInv'
  BY <1>7 DEF DrainEnds
<1>8. ASSUME NEW a \in Accounts, NEW outcome \in Terminal, pc[a] \in Driving,
             InProcess, SettleCur(a, outcome)
      PROVE IInv'
  BY <1>8 DEF SettleCur
<1>9. ASSUME NEW a \in Accounts, AcquireSlot(a) PROVE IInv'
  BY <1>9 DEF AcquireSlot
<1>10. ASSUME NEW a \in Accounts, AttemptFails(a) PROVE IInv'
  BY <1>10 DEF AttemptFails
<1>11. ASSUME NEW a \in Accounts, ReleaseForRetry(a) PROVE IInv'
  BY <1>11 DEF ReleaseForRetry, OutOfAttempts
<1>12. ASSUME NEW a \in Accounts, Reclaim(a) PROVE IInv'
  BY <1>12 DEF Reclaim
<1>13. ASSUME NEW a \in Accounts, ReclaimFindsNothing(a) PROVE IInv'
  BY <1>13 DEF ReclaimFindsNothing
<1>14. ASSUME NEW a \in Accounts, Abandon(a) PROVE IInv'
  BY <1>14 DEF Abandon
<1>15. CASE Tick
  BY <1>15, DueIsAccounts DEF Tick
<1>16. ASSUME NEW t \in Tasks, BackoffExpires(t) \/ DueArrives(t) PROVE IInv'
  BY <1>16 DEF BackoffExpires, DueArrives
<1>17. ASSUME NEW a \in Accounts, OtherTakesSlot(a) \/ OtherReleasesSlot(a)
       PROVE IInv'
  BY <1>17 DEF OtherTakesSlot, OtherReleasesSlot
<1>18. CASE ReplayAtBoot
  BY <1>18 DEF ReplayAtBoot
<1>19. CASE Resume
  <2>1. DueAccounts' \subseteq Accounts
    BY DEF DueAccounts
  <2> QED
    BY <1>19, <2>1 DEF Resume
<1>20. CASE Stop
  BY <1>20 DEF Stop
<1>21. CASE UNCHANGED vars
  BY <1>21 DEF vars
<1>22. ASSUME NEW a \in Accounts, ChainStep(a) PROVE IInv'
  BY <1>22, <1>5, <1>6, <1>7, <1>8, <1>9, <1>10, <1>11, <1>12, <1>13, <1>14,
     SettlingSteps DEF ChainStep
<1> QED
  BY <1>1, <1>2, <1>3, <1>4, <1>15, <1>16, <1>17, <1>18, <1>19, <1>20, <1>21,
     <1>22 DEF Next

\* The inductive invariant holds in every state of every run.
THEOREM Invariance == SafetySpec => []IInv
<1>1. Init => IInv
  BY InitInv
<1>2. IInv /\ [Next]_vars => IInv'
  BY InvStep
<1> QED
  BY <1>1, <1>2, PTL DEF SafetySpec

-----------------------------------------------------------------------------
(* The properties of TaskScheduler.                                        *)

\* Every column and field keeps its type.
THEOREM TypeCorrect == SafetySpec => []TypeOK
<1>1. IInv => TypeOK
  BY DEF IInv
<1> QED
  BY <1>1, Invariance, PTL

\* Execution is serial per account (enqueueDrain chains the drains), and
\* while the process is up every running row has a chain at work on it.
THEOREM Serial == SafetySpec => []DrivenSerially
<1>1. IInv => DrivenSerially
  BY DEF IInv
<1> QED
  BY <1>1, Invariance, PTL

\* Once a task was attempted no earlier undeferred task is unsettled.
THEOREM Ordered == SafetySpec => []InOrder
<1>1. IInv => InOrder
  BY DEF IInv
<1> QED
  BY <1>1, Invariance, PTL

\* The attempts of a task exceed its limit by at most one per restart.
THEOREM WithinBudget == SafetySpec => []AttemptBudget
<1>1. IInv => AttemptBudget
  BY DEF IInv, BudgetInv, AttemptBudget
<1> QED
  BY <1>1, Invariance, PTL

\* Only a claim counts an attempt, and only on the row it takes.
LEMMA AttemptsChange ==
  ASSUME TypeOK, [Next]_vars
  PROVE  \/ UNCHANGED attempts
         \/ \E a \in Accounts : ClaimNext(a) \/ Reclaim(a)
BY DEF Next, vars, timeVars, orderVars, procVars, chainVars, ProcessEnds,
       RunHook, Commit, Withdraw, ChainStep, BeginDrain, DrainEnds,
       RefuseUnrunnable, AcquireSlot, SlotTimesOut, RunnerCompletes,
       RunnerAborts, AttemptFails, GiveUp, SettleCur, ReleaseForRetry,
       ReclaimFindsNothing, Abandon, Tick, BackoffExpires, DueArrives,
       OtherTakesSlot, OtherReleasesSlot, ReplayAtBoot, Resume, Stop

Overtakes ==
    \E t, u \in Tasks :
        /\ Before(t, u)
        /\ Live(t)
        /\ attempts[t] > 0
        /\ attempts'[u] # attempts[u]

\* No step claims a task while an earlier attempted one of its account is
\* unsettled (CLAIMABLE_SQL).
LEMMA NoOvertakeStep == IInv /\ [Next]_vars => ~Overtakes
<1> SUFFICES ASSUME IInv, [Next]_vars,
                    NEW t \in Tasks, NEW u \in Tasks,
                    Before(t, u), Live(t), attempts[t] > 0,
                    attempts'[u] # attempts[u]
             PROVE  FALSE
  BY DEF Overtakes
<1> USE DEF IInv, TypeOK
<1>1. PICK a \in Accounts : ClaimNext(a) \/ Reclaim(a)
  BY AttemptsChange
\* The claimed row is u, and the chain now holds its place.
<1>2. cur'[a] = u /\ pc'[a] = "attempt" /\ UNCHANGED rank
  BY <1>1 DEF ClaimNext, NextClaimable, Reclaim, orderVars, ChainInv, Busy
<1>3. t # u
  BY DEF Before
<1>4. attempts'[t] = attempts[t] /\ status'[t] = status[t]
  BY <1>1, <1>2, <1>3 DEF ClaimNext, NextClaimable, Reclaim
<1>5. HoldsPlace'
  BY InvStep
<1> QED
  BY <1>2, <1>4, <1>5 DEF HoldsPlace, Driving, Before, Live

\* An attempted unsettled task holds back every later task of its account.
THEOREM Overtaking == SafetySpec => NoOvertake
<1>1. IInv /\ [Next]_vars =>
        [\A t, u \in Tasks :
            /\ Before(t, u)
            /\ Live(t)
            /\ attempts[t] > 0
            => attempts'[u] = attempts[u]]_vars
  BY NoOvertakeStep DEF Overtakes
<1> QED
  BY <1>1, Invariance, PTL DEF SafetySpec, NoOvertake

-----------------------------------------------------------------------------
(* The scheduler implements TaskPromise.                                   *)

\* The refinement mapping of TaskScheduler's instance.
Phase ==
    [t \in Tasks |->
        CASE status[t] = "absent" -> "none"
          [] Live(t) -> "open"
          [] status[t] = "pruned" -> "forgotten"
          [] OTHER -> status[t]]

\* What the mapped phase of a task is for each group of statuses.
LEMMA PhaseIs ==
  ASSUME TypeOK, NEW t \in Tasks
  PROVE  /\ status[t] = "absent" => Phase[t] = "none"
         /\ status[t] \in {"pending", "running"} => Phase[t] = "open"
         /\ status[t] \in Terminal \cup {"withdrawn"} => Phase[t] = status[t]
         /\ status[t] = "pruned" => Phase[t] = "forgotten"
BY DEF Phase, TypeOK, Live, Terminal, Gone, Status

\* The same after a step.
LEMMA PhaseIsNext ==
  ASSUME TypeOK', NEW t \in Tasks
  PROVE  /\ status'[t] = "absent" => Phase'[t] = "none"
         /\ status'[t] \in {"pending", "running"} => Phase'[t] = "open"
         /\ status'[t] \in Terminal \cup {"withdrawn"} => Phase'[t] = status'[t]
         /\ status'[t] = "pruned" => Phase'[t] = "forgotten"
BY DEF Phase, TypeOK, Live, Terminal, Gone, Status

\* A step that leaves every status alone, or only moves rows between pending
\* and running, does not change the mapped phases.
LEMMA PhaseStutters ==
  ASSUME TypeOK, TypeOK',
         \A t \in Tasks : \/ status'[t] = status[t]
                          \/ {status[t], status'[t]} \subseteq {"pending", "running"}
  PROVE  Phase' = Phase
<1>1. ASSUME NEW t \in Tasks PROVE Phase'[t] = Phase[t]
  BY PhaseIs, PhaseIsNext DEF TypeOK, Status, Gone
<1> QED
  BY <1>1 DEF Phase

\* A step that writes one row's status changes one phase.
LEMMA PhaseChanges ==
  ASSUME TypeOK, TypeOK', NEW t \in Tasks,
         \A u \in Tasks : u # t => status'[u] = status[u]
  PROVE  Phase' = [Phase EXCEPT ![t] = Phase'[t]]
<1>1. ASSUME NEW u \in Tasks, u # t PROVE Phase'[u] = Phase[u]
  BY <1>1, PhaseIs, PhaseIsNext DEF TypeOK, Status, Gone
<1> DEFINE P == Phase
           Q == Phase'
<1>2. P = [u \in Tasks |-> P[u]] /\ Q = [u \in Tasks |-> Q[u]]
  BY DEF Phase
<1>3. \A u \in Tasks : u # t => Q[u] = P[u]
  BY <1>1
<1> HIDE DEF P, Q
<1>4. Q = [P EXCEPT ![t] = Q[t]]
  BY <1>2, <1>3
<1> QED
  BY <1>4 DEF P, Q

\* The scheduler starts where the promise starts.
LEMMA PromiseInit == Init => Promise!Init
BY DEF Init, Promise!Init, Live

\* Every step of the scheduler is a step of the promise or a stutter.
LEMMA PromiseStep == IInv /\ [Next]_vars => [Promise!Next]_(Promise!vars)
<1> SUFFICES ASSUME IInv, [Next]_vars
             PROVE  [Promise!Next]_<<Phase, owed>>
  BY DEF Promise!vars, Phase
<1> USE DEF IInv
<1>1. TypeOK'
  BY InvStep
<1>2. ASSUME NEW t \in Tasks, Commit(t) PROVE Promise!Accept(t)
  <2>1. status[t] = "absent" /\ status' = [status EXCEPT ![t] = "pending"]
    BY <1>2 DEF Commit
  <2>2. Phase[t] = "none" /\ Phase' = [Phase EXCEPT ![t] = "open"]
    BY <1>1, <2>1, PhaseIs, PhaseIsNext, PhaseChanges DEF TypeOK
  <2> QED
    BY <1>2, <2>2 DEF Promise!Accept, Commit, Phase
<1>3. ASSUME NEW t \in Tasks, Withdraw(t) PROVE Promise!Withdraw(t)
  <2>1. Phase[t] = "open" /\ Phase' = [Phase EXCEPT ![t] = "withdrawn"]
    BY <1>1, <1>3, PhaseIs, PhaseIsNext, PhaseChanges DEF Withdraw, TypeOK
  <2> QED
    BY <1>3, <2>1 DEF Promise!Withdraw, Withdraw, Phase
<1>4. ASSUME NEW a \in Accounts, NEW outcome \in Terminal, pc[a] \in Driving,
             SettleCur(a, outcome), NEW t \in Tasks, t = cur[a]
      PROVE  Promise!Settle(t)
  <2>1. status[t] = "running"
    BY <1>4 DEF ChainInv, Busy
  <2>2. Phase[t] = "open" /\ Phase' = [Phase EXCEPT ![t] = outcome]
    BY <1>1, <1>4, <2>1, PhaseIs, PhaseIsNext, PhaseChanges
       DEF SettleCur, TypeOK
  <2> QED
    BY <1>4, <2>2 DEF Promise!Settle, SettleCur, Phase
<1>5. ASSUME NEW a \in Accounts, RunHook(a) PROVE [Promise!Next]_<<Phase, owed>>
  <2>1. Phase' = Phase
    BY <1>1, <1>5, PhaseStutters DEF RunHook
  <2>2. CASE owed' = owed
    BY <2>1, <2>2
  <2>3. CASE owed' = owed \ {cur[a]}
    <3>1. cur[a] \in Tasks
      BY <1>5 DEF RunHook, ChainInv, Busy
    <3>2. Promise!Repay({cur[a]})
      BY <2>1, <2>3 DEF Promise!Repay, Phase
    <3> QED
      BY <3>1, <3>2 DEF Promise!Next
  <2> QED
    BY <1>5, <2>2, <2>3 DEF RunHook
<1>6. CASE ReplayAtBoot
  <2>1. Phase' = Phase
    BY <1>1, <1>6, PhaseStutters DEF ReplayAtBoot
  <2>2. owed' = owed \ Tasks
    BY <1>6 DEF ReplayAtBoot, DebtInv, TypeOK
  <2> QED
    BY <2>1, <2>2 DEF Promise!Next, Promise!Repay, Phase
<1>7. CASE Resume
  <2>1. PICK expired \in SUBSET {t \in Tasks : status[t] \in Terminal} :
          status' = [t \in Tasks |->
                        IF t \in expired THEN "pruned"
                        ELSE IF status[t] = "running" THEN "pending"
                        ELSE status[t]]
    BY <1>7 DEF Resume
  <2>2. ASSUME NEW t \in Tasks
        PROVE  Phase'[t] = IF t \in expired THEN "forgotten" ELSE Phase[t]
    BY <1>1, <2>1, PhaseIs, PhaseIsNext DEF TypeOK, Status, Gone, Terminal
  <2>3. \A t \in expired : Phase[t] \in Terminal /\ t \notin owed
    BY <1>7, PhaseIs DEF Resume, DebtInv
  <2>4. Promise!Forget(expired)
    BY <1>7, <2>2, <2>3 DEF Promise!Forget, Resume, Phase
  <2> QED
    BY <2>4 DEF Promise!Next
<1>8. CASE UNCHANGED vars
  BY <1>1, <1>8, PhaseStutters DEF vars
<1>9. CASE ProcessEnds \/ Tick \/ Stop
  BY <1>1, <1>9, PhaseStutters DEF ProcessEnds, Tick, Stop
<1>10. ASSUME NEW t \in Tasks, BackoffExpires(t) \/ DueArrives(t)
       PROVE  UNCHANGED <<Phase, owed>>
  BY <1>1, <1>10, PhaseStutters DEF BackoffExpires, DueArrives
<1>11. ASSUME NEW a \in Accounts, OtherTakesSlot(a) \/ OtherReleasesSlot(a)
       PROVE  UNCHANGED <<Phase, owed>>
  BY <1>1, <1>11, PhaseStutters DEF OtherTakesSlot, OtherReleasesSlot
<1>12. ASSUME NEW a \in Accounts,
              \/ BeginDrain(a) \/ ClaimNext(a) \/ DrainEnds(a) \/ AcquireSlot(a)
              \/ AttemptFails(a) \/ ReleaseForRetry(a) \/ Reclaim(a)
              \/ ReclaimFindsNothing(a) \/ Abandon(a)
       PROVE  UNCHANGED <<Phase, owed>>
  <2>1. CASE BeginDrain(a) \/ DrainEnds(a) \/ AcquireSlot(a) \/ AttemptFails(a)
             \/ ReclaimFindsNothing(a) \/ Abandon(a)
    BY <1>1, <2>1, PhaseStutters DEF BeginDrain, DrainEnds, AcquireSlot,
       AttemptFails, ReclaimFindsNothing, Abandon
  <2>2. CASE ClaimNext(a)
    BY <1>1, <2>2, PhaseStutters DEF ClaimNext, NextClaimable, Claimable, TypeOK
  <2>3. CASE ReleaseForRetry(a) \/ Reclaim(a)
    BY <1>1, <2>3, PhaseStutters DEF ReleaseForRetry, Reclaim, ChainInv, Driving, TypeOK
  <2> QED
    BY <1>12, <2>1, <2>2, <2>3
<1>13. ASSUME NEW a \in Accounts, ChainStep(a) PROVE [Promise!Next]_<<Phase, owed>>
  <2>1. CASE RefuseUnrunnable(a) \/ SlotTimesOut(a) \/ RunnerCompletes(a)
             \/ RunnerAborts(a) \/ GiveUp(a)
    <3>1. PICK outcome \in Terminal : pc[a] \in Driving /\ SettleCur(a, outcome)
      BY <2>1, SettlingSteps
    <3>2. PICK t \in Tasks : t = cur[a]
      BY <3>1 DEF ChainInv, Busy
    <3>3. Promise!Settle(t)
      BY <1>4, <3>1, <3>2
    <3> QED
      BY <3>3 DEF Promise!Next
  <2>2. CASE ~(RefuseUnrunnable(a) \/ SlotTimesOut(a) \/ RunnerCompletes(a)
               \/ RunnerAborts(a) \/ GiveUp(a))
    BY <1>12, <1>13, <2>2 DEF ChainStep
  <2> QED
    BY <2>1, <2>2
<1> QED
  BY <1>2, <1>3, <1>5, <1>6, <1>7, <1>8, <1>9, <1>10, <1>11, <1>13
     DEF Next, Promise!Next

\* Every behaviour of the scheduler is a behaviour of the promise.
THEOREM Implements == SafetySpec => PromiseSpec
<1>1. SafetySpec => Init /\ [][Next]_vars
  BY DEF SafetySpec
<1> QED
  BY <1>1, Invariance, PromiseInit, PromiseStep, PTL DEF PromiseSpec, Promise!Spec
=============================================================================
