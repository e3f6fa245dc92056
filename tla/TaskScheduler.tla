--------------------------- MODULE TaskScheduler ---------------------------
(***************************************************************************)
(* The durable task layer: the `tasks` table (tasks/store.ts) and the      *)
(* scheduler that drains it (tasks/scheduler.ts), one FIFO chain per       *)
(* account.  What a runner does to a mailbox is left out; an attempt has   *)
(* one of the outcomes attemptOnce distinguishes.                          *)
(*                                                                         *)
(* Time is abstract.  The two time columns of a row are read only through  *)
(* "is it still in the future", so each is a set of rows that time leaves: *)
(* backoff (next_attempt_at > now) and scheduled (due_at > now).  Rows are *)
(* ordered by (created_at, rowid), the order they were committed in while  *)
(* the wall clock does not step back: rank.                                *)
(*                                                                         *)
(* Database statements succeed while the process is up; the only failing   *)
(* ones are those of a chain still running after stop() closed the handle. *)
(*                                                                         *)
(* A definition whose name has a suffix (Claimable_NoBarrier) is a variant *)
(* with a defect: it shows which property would notice.                    *)
(***************************************************************************)
EXTENDS Naturals

CONSTANTS
    Tasks,          \* the task ids that may ever be committed
    Accounts,
    AccountOf,      \* tasks.account_id
    Deferred,       \* tasks accepted with a due_at in the future
    Cancellable,    \* tasks whose pending row a user action may delete
    Unrunnable,     \* tasks whose payload does not open or that have no runner
    MaxAttempts,    \* tasks.max_attempts
    MaxRestarts,    \* bound: how often the process may end
    NoTask

ASSUME SchedulerAssumption ==
    /\ AccountOf \in [Tasks -> Accounts]
    /\ MaxAttempts \in Nat \ {0}
    /\ MaxRestarts \in Nat
    /\ NoTask \notin Tasks

VARIABLES
    status, rank, attempts, backoff, scheduled,   \* columns of `tasks`
    nextRank,   \* the next rowid
    owed,       \* settled rows whose settlement hooks have not completed
    proc,       \* the process: down, booting, up, stopping
    queued,     \* `waiting`: accounts with a drain queued but not begun
    pc, cur,    \* where the account's active drain is, and on which row
    slot,       \* who holds the account's write slot
    restarts    \* history: how often the process has ended

orderVars == <<rank, nextRank>>
timeVars  == <<backoff, scheduled>>
procVars  == <<proc, restarts>>
chainVars == <<pc, cur>>
vars == <<status, orderVars, attempts, timeVars, owed, procVars, queued,
          chainVars, slot>>

Terminal == {"completed", "failed", "cancelled", "unknown_delivery"}
Gone     == {"withdrawn", "pruned"}
Status   == {"absent", "pending", "running"} \cup Gone \cup Terminal
Driving  == {"attempt", "run", "failed"}
ChainPc  == {"idle", "claim", "backoff", "hook"} \cup Driving

Live(t)   == status[t] \in {"pending", "running"}
InProcess == proc \in {"up", "stopping"}

\* t was committed before u on the same account.
Before(t, u) == AccountOf[t] = AccountOf[u] /\ rank[t] < rank[u]

\* Every variable has a value of its column's or field's type.
TypeOK ==
    /\ status \in [Tasks -> Status]
    /\ rank \in [Tasks -> Nat]
    /\ nextRank \in Nat
    /\ attempts \in [Tasks -> Nat]
    /\ backoff \subseteq Tasks
    /\ scheduled \subseteq Tasks
    /\ owed \subseteq Tasks
    /\ proc \in {"down", "booting", "up", "stopping"}
    /\ queued \subseteq Accounts
    /\ pc \in [Accounts -> ChainPc]
    /\ cur \in [Accounts -> Tasks \cup {NoTask}]
    /\ slot \in [Accounts -> {"free", "chain", "other"}]
    /\ restarts \in Nat

Init ==
    /\ status = [t \in Tasks |-> "absent"]
    /\ rank = [t \in Tasks |-> 0]
    /\ nextRank = 1
    /\ attempts = [t \in Tasks |-> 0]
    /\ backoff = {}
    /\ scheduled = {}
    /\ owed = {}
    /\ proc = "down"
    /\ queued = {}
    /\ pc = [a \in Accounts |-> "idle"]
    /\ cur = [a \in Accounts |-> NoTask]
    /\ slot = [a \in Accounts |-> "free"]
    /\ restarts = 0

-----------------------------------------------------------------------------
(* The claim predicate, CLAIMABLE_SQL, and the in-memory queue.            *)

\* An earlier row that was attempted and waits out its backoff.
Barred(t) ==
    \E e \in Tasks :
        /\ Before(e, t)
        /\ status[e] = "pending"
        /\ attempts[e] > 0
        /\ e \in backoff

Claimable_NoBarrier(t) == status[t] = "pending" /\ t \notin backoff \cup scheduled

Claimable(t) ==
    /\ status[t] = "pending"
    /\ t \notin backoff
    /\ t \notin scheduled
    /\ ~Barred(t)

NextClaimable_Unordered(a) == {t \in Tasks : AccountOf[t] = a /\ Claimable(t)}

\* ORDER BY created_at, rowid LIMIT 1, among the rows of one account.
NextClaimable(a) ==
    {t \in Tasks :
        /\ AccountOf[t] = a
        /\ Claimable(t)
        /\ \A u \in Tasks : AccountOf[u] = a /\ Claimable(u) => rank[t] <= rank[u]}

DueAccounts_SkipsRetries ==
    {AccountOf[t] : t \in {u \in Tasks : Claimable(u) /\ attempts[u] = 0}}

DueAccounts == {AccountOf[t] : t \in {u \in Tasks : Claimable(u)}}

\* enqueueDrain for the accounts in A: a drain already waiting covers them.
Enqueued(A) == queued \cup A

-----------------------------------------------------------------------------
(* Statements of a request handler.                                        *)

Commit_NoStart(t) ==
    /\ proc = "up"
    /\ status[t] = "absent"
    /\ status' = [status EXCEPT ![t] = "pending"]
    /\ rank' = [rank EXCEPT ![t] = nextRank]
    /\ nextRank' = nextRank + 1
    /\ scheduled' = scheduled \cup ({t} \cap Deferred)
    /\ UNCHANGED <<attempts, backoff, owed, procVars, queued, chainVars, slot>>

\* commitTask in the caller's transaction, then start() in the same turn.
Commit(t) ==
    /\ proc = "up"
    /\ status[t] = "absent"
    /\ status' = [status EXCEPT ![t] = "pending"]
    /\ rank' = [rank EXCEPT ![t] = nextRank]
    /\ nextRank' = nextRank + 1
    /\ scheduled' = scheduled \cup ({t} \cap Deferred)
    /\ queued' = Enqueued({AccountOf[t]})
    /\ UNCHANGED <<attempts, backoff, owed, procVars, chainVars, slot>>

\* Cancelling or re-snoozing deletes the task while its row is pending, which
\* it also is while a retry waits.
Withdraw(t) ==
    /\ proc = "up"
    /\ t \in Cancellable
    /\ status[t] = "pending"
    /\ status' = [status EXCEPT ![t] = "withdrawn"]
    /\ UNCHANGED <<orderVars, attempts, timeVars, owed, procVars, queued,
                   chainVars, slot>>

-----------------------------------------------------------------------------
(* One account's chain: drainAccount, driveTask, attemptOnce.              *)

BeginDrain_Unchained(a) ==
    /\ InProcess
    /\ a \in queued
    /\ queued' = queued \ {a}
    /\ pc' = [pc EXCEPT ![a] = "claim"]
    /\ UNCHANGED <<status, orderVars, attempts, timeVars, owed, procVars, cur, slot>>

\* The queued drain begins when the one before it has returned.
BeginDrain(a) ==
    /\ InProcess
    /\ a \in queued
    /\ pc[a] = "idle"
    /\ queued' = queued \ {a}
    /\ pc' = [pc EXCEPT ![a] = "claim"]
    /\ UNCHANGED <<status, orderVars, attempts, timeVars, owed, procVars, cur, slot>>

\* claimNextTask found a row: the conditional UPDATE makes it running.
ClaimNext(a) ==
    /\ proc = "up"
    /\ pc[a] = "claim"
    /\ \E t \in NextClaimable(a) :
          /\ status' = [status EXCEPT ![t] = "running"]
          /\ attempts' = [attempts EXCEPT ![t] = @ + 1]
          /\ cur' = [cur EXCEPT ![a] = t]
    /\ pc' = [pc EXCEPT ![a] = "attempt"]
    /\ UNCHANGED <<orderVars, timeVars, owed, procVars, queued, slot>>

\* Nothing claimable, or the scheduler was stopped: the drain returns.
DrainEnds(a) ==
    /\ InProcess
    /\ pc[a] = "claim"
    /\ proc = "stopping" \/ NextClaimable(a) = {}
    /\ pc' = [pc EXCEPT ![a] = "idle"]
    /\ UNCHANGED <<status, orderVars, attempts, timeVars, owed, procVars,
                   queued, cur, slot>>

\* settleTask and, in the same synchronous stretch, the settlement hooks.
SettleCur(a, outcome) ==
    /\ status' = [status EXCEPT ![cur[a]] = outcome]
    /\ owed' = owed \cup {cur[a]}
    /\ pc' = [pc EXCEPT ![a] = "hook"]
    /\ UNCHANGED <<orderVars, attempts, timeVars, procVars, queued, cur, slot>>

\* The payload does not open, or the kind has no runner.
RefuseUnrunnable(a) ==
    /\ InProcess
    /\ pc[a] = "attempt"
    /\ cur[a] \in Unrunnable
    /\ SettleCur(a, "failed")

\* acquireAccountWriteSlots resolved.
AcquireSlot(a) ==
    /\ InProcess
    /\ pc[a] = "attempt"
    /\ cur[a] \notin Unrunnable
    /\ slot[a] = "free"
    /\ slot' = [slot EXCEPT ![a] = "chain"]
    /\ pc' = [pc EXCEPT ![a] = "run"]
    /\ UNCHANGED <<status, orderVars, attempts, timeVars, owed, procVars, queued, cur>>

\* Another holder kept the slot past the wait: failed without a retry.
SlotTimesOut(a) ==
    /\ proc = "up"
    /\ pc[a] = "attempt"
    /\ cur[a] \notin Unrunnable
    /\ slot[a] = "other"
    /\ SettleCur(a, "failed")

RunnerCompletes_LegacyStatus(a) ==
    /\ InProcess
    /\ pc[a] = "run"
    /\ SettleCur(a, "done")

RunnerCompletes(a) ==
    /\ InProcess
    /\ pc[a] = "run"
    /\ SettleCur(a, "completed")

\* The runner threw TaskAbortError with the status it decided on.
RunnerAborts(a) ==
    /\ proc = "up"
    /\ pc[a] = "run"
    /\ \E outcome \in Terminal \ {"completed"} : SettleCur(a, outcome)

\* Any other error, the run timeout included; the slot is given back.
AttemptFails(a) ==
    /\ proc = "up"
    /\ pc[a] = "run"
    /\ pc' = [pc EXCEPT ![a] = "failed"]
    /\ slot' = [slot EXCEPT ![a] = "free"]
    /\ UNCHANGED <<status, orderVars, attempts, timeVars, owed, procVars, queued, cur>>

OutOfAttempts_OffByOne(t) == attempts[t] > MaxAttempts

OutOfAttempts(t) == attempts[t] >= MaxAttempts

GiveUp(a) ==
    /\ InProcess
    /\ pc[a] = "failed"
    /\ OutOfAttempts(cur[a])
    /\ SettleCur(a, "failed")

\* releaseTaskForRetry, then the chain waits out the backoff in place.
ReleaseForRetry(a) ==
    /\ InProcess
    /\ pc[a] = "failed"
    /\ ~OutOfAttempts(cur[a])
    /\ status' = [status EXCEPT ![cur[a]] = "pending"]
    /\ backoff' = backoff \cup {cur[a]}
    /\ pc' = [pc EXCEPT ![a] = "backoff"]
    /\ UNCHANGED <<orderVars, attempts, scheduled, owed, procVars, queued, cur, slot>>

\* The timer fired and claimTaskRow took the row back; it checks no time.
Reclaim(a) ==
    /\ proc = "up"
    /\ pc[a] = "backoff"
    /\ status[cur[a]] = "pending"
    /\ status' = [status EXCEPT ![cur[a]] = "running"]
    /\ attempts' = [attempts EXCEPT ![cur[a]] = @ + 1]
    /\ pc' = [pc EXCEPT ![a] = "attempt"]
    /\ UNCHANGED <<orderVars, timeVars, owed, procVars, queued, cur, slot>>

\* The row was withdrawn during its backoff: the chain moves on.
ReclaimFindsNothing(a) ==
    /\ proc = "up"
    /\ pc[a] = "backoff"
    /\ status[cur[a]] # "pending"
    /\ pc' = [pc EXCEPT ![a] = "claim"]
    /\ UNCHANGED <<status, orderVars, attempts, timeVars, owed, procVars,
                   queued, cur, slot>>

\* The hooks of the row just settled return, or one throws and is only
\* logged; attemptOnce then releases the slot if it holds it.
RunHook(a) ==
    /\ pc[a] = "hook"
    /\ owed' \in {owed, owed \ {cur[a]}}
    /\ slot' = [slot EXCEPT ![a] = IF @ = "chain" THEN "free" ELSE @]
    /\ pc' = [pc EXCEPT ![a] = "claim"]
    /\ UNCHANGED <<status, orderVars, attempts, timeVars, procVars, queued, cur>>

\* After stop() an attempt that throws, a backoff that ends or a release
\* that meets the closed database writes nothing: the row stays as it is.
Abandon(a) ==
    /\ proc = "stopping"
    /\ pc[a] \in Driving \cup {"backoff"}
    /\ slot' = [slot EXCEPT ![a] = IF @ = "chain" THEN "free" ELSE @]
    /\ pc' = [pc EXCEPT ![a] = "idle"]
    /\ UNCHANGED <<status, orderVars, attempts, timeVars, owed, procVars, queued, cur>>

ChainStep(a) ==
    \/ BeginDrain(a) \/ ClaimNext(a) \/ DrainEnds(a) \/ RefuseUnrunnable(a)
    \/ AcquireSlot(a) \/ SlotTimesOut(a)
    \/ RunnerCompletes(a) \/ RunnerAborts(a) \/ AttemptFails(a)
    \/ GiveUp(a) \/ ReleaseForRetry(a) \/ Reclaim(a) \/ ReclaimFindsNothing(a)
    \/ Abandon(a)

-----------------------------------------------------------------------------
(* The rest of the process: the due tick, time, and other slot holders.    *)

Tick ==
    /\ proc = "up"
    /\ queued' = Enqueued(DueAccounts)
    /\ UNCHANGED <<status, orderVars, attempts, timeVars, owed, procVars,
                   chainVars, slot>>

BackoffExpires(t) ==
    /\ t \in backoff
    /\ backoff' = backoff \ {t}
    /\ UNCHANGED <<status, orderVars, attempts, scheduled, owed, procVars,
                   queued, chainVars, slot>>

DueArrives(t) ==
    /\ t \in scheduled
    /\ scheduled' = scheduled \ {t}
    /\ UNCHANGED <<status, orderVars, attempts, backoff, owed, procVars,
                   queued, chainVars, slot>>

\* A sync pass or a move recovery takes the slot.  The slot is FIFO, so not
\* while the chain already waits for it.
OtherTakesSlot(a) ==
    /\ InProcess
    /\ slot[a] = "free"
    /\ pc[a] # "attempt"
    /\ slot' = [slot EXCEPT ![a] = "other"]
    /\ UNCHANGED <<status, orderVars, attempts, timeVars, owed, procVars,
                   queued, chainVars>>

OtherReleasesSlot(a) ==
    /\ slot[a] = "other"
    /\ slot' = [slot EXCEPT ![a] = "free"]
    /\ UNCHANGED <<status, orderVars, attempts, timeVars, owed, procVars,
                   queued, chainVars>>

-----------------------------------------------------------------------------
(* Process life.                                                           *)

ReplayAtBoot_Skipped ==
    /\ proc = "down"
    /\ proc' = "booting"
    /\ UNCHANGED <<status, orderVars, attempts, timeVars, owed, restarts, queued,
                   chainVars, slot>>

\* Before the scheduler exists, buildApp replays the settlement obligations
\* of every settled row.
ReplayAtBoot ==
    /\ proc = "down"
    /\ proc' = "booting"
    /\ owed' = {t \in owed : status[t] \notin Terminal}
    /\ UNCHANGED <<status, orderVars, attempts, timeVars, restarts, queued,
                   chainVars, slot>>

\* resume(): prune expired settled rows, flip the interrupted ones, enqueue
\* the accounts with due work.
Resume ==
    /\ proc = "booting"
    /\ proc' = "up"
    /\ \E expired \in SUBSET {t \in Tasks : status[t] \in Terminal} :
          status' = [t \in Tasks |->
                        IF t \in expired THEN "pruned"
                        ELSE IF status[t] = "running" THEN "pending"
                        ELSE status[t]]
    /\ UNCHANGED <<orderVars, attempts, timeVars, owed, restarts, chainVars, slot>>
    /\ queued' = Enqueued(DueAccounts')

\* stop(): no new dispatch, in-flight runners are aborted but not awaited.
Stop ==
    /\ proc = "up"
    /\ restarts < MaxRestarts
    /\ proc' = "stopping"
    /\ UNCHANGED <<status, orderVars, attempts, timeVars, owed, restarts,
                   queued, chainVars, slot>>

\* A crash, or the exit after stop(): what was in memory is gone.
ProcessEnds ==
    /\ proc # "down"
    /\ restarts < MaxRestarts
    /\ restarts' = restarts + 1
    /\ proc' = "down"
    /\ queued' = {}
    /\ pc' = [a \in Accounts |-> "idle"]
    /\ cur' = [a \in Accounts |-> NoTask]
    /\ slot' = [a \in Accounts |-> "free"]
    /\ UNCHANGED <<status, orderVars, attempts, timeVars, owed>>

\* A settlement and its hooks are one synchronous stretch: no other callback
\* of the process runs in between, but the process may die there.
NoHookPending == \A a \in Accounts : pc[a] # "hook"

Next ==
    \/ ProcessEnds
    \/ \E a \in Accounts : RunHook(a)
    \/ /\ NoHookPending
       /\ \/ \E t \in Tasks : Commit(t) \/ Withdraw(t)
          \/ \E a \in Accounts : ChainStep(a)
          \/ \E a \in Accounts : OtherTakesSlot(a) \/ OtherReleasesSlot(a)
          \/ \E t \in Tasks : BackoffExpires(t) \/ DueArrives(t)
          \/ Tick \/ ReplayAtBoot \/ Resume \/ Stop

\* Timers fire, promises continue, a runner ends within TASK_RUN_TIMEOUT, and
\* the process is started again.  The due tick is kept apart.
Fairness ==
    /\ \A a \in Accounts :
          /\ WF_vars(RunHook(a))
          /\ WF_vars(NoHookPending /\ ChainStep(a))
          /\ WF_vars(NoHookPending /\ OtherReleasesSlot(a))
    /\ \A t \in Tasks : WF_vars(NoHookPending /\ (BackoffExpires(t) \/ DueArrives(t)))
    /\ WF_vars(ReplayAtBoot)
    /\ WF_vars(Resume)
    /\ WF_vars(proc = "stopping" /\ ProcessEnds)

Ticking == WF_vars(NoHookPending /\ Tick)

SafetySpec == Init /\ [][Next]_vars
Spec == SafetySpec /\ Fairness

-----------------------------------------------------------------------------
(* Properties.                                                             *)

\* "Serial per account" (scheduler.ts, its header): no two tasks of one
\* account are ever running, across drains, ticks, stops and restarts; and
\* while dispatching, a running row has a chain at work on it, so that none is
\* left behind in a status only the next boot would repair.
DrivenSerially ==
    /\ \A t, u \in Tasks :
          /\ status[t] = "running"
          /\ status[u] = "running"
          /\ AccountOf[t] = AccountOf[u]
          => t = u
    /\ proc = "up" =>
          \A t \in Tasks : status[t] = "running" =>
              pc[AccountOf[t]] \in Driving /\ cur[AccountOf[t]] = t

\* Two writes of an account reach the provider in the order they were
\* committed: once a task has been attempted, no earlier undeferred task of
\* its account is still unsettled.  This is what the durable barrier of
\* CLAIMABLE_SQL and the in-place backoff are for, restarts included.
InOrder ==
    \A t, u \in Tasks :
        /\ Before(t, u)
        /\ t \notin Deferred
        /\ attempts[u] > 0
        => ~Live(t)

\* A restart may cost an attempt but never grants more than one: the claim
\* reads no limit, so a row interrupted in its last attempt gets another.
AttemptBudget ==
    \A t \in Tasks : attempts[t] <= MaxAttempts + restarts

\* A task that was attempted and is unsettled holds back every later task of
\* its account, a deferred task whose time came included.
NoOvertake ==
    [][\A t, u \in Tasks :
          /\ Before(t, u)
          /\ Live(t)
          /\ attempts[t] > 0
          => attempts'[u] = attempts[u]]_vars

\* The scheduler implements the promise made to the caller.
Promise ==
    INSTANCE TaskPromise WITH
        Outcomes <- Terminal,
        phase <- [t \in Tasks |->
                    CASE status[t] = "absent" -> "none"
                      [] Live(t) -> "open"
                      [] status[t] = "pruned" -> "forgotten"
                      [] OTHER -> status[t]],
        debt <- owed

\* Every step settles an open task once, withdraws it, makes repairs, forgets
\* a settled task without debts, or does not show.
PromiseSpec == Promise!Spec

\* With the due tick, every committed task is settled or withdrawn, whatever
\* the restarts and backoffs in between.
PromiseKept == Ticking => Promise!EveryPromiseKept

\* In one process life start() alone, without the due tick, gets every undeferred
\* task attempted: no wakeup is lost between a drain that finds nothing and a
\* commit.
StartsPromptly ==
    \A t \in Tasks :
        status[t] = "pending" /\ t \notin Deferred
        ~> attempts[t] > 0 \/ ~Live(t) \/ restarts > 0
=============================================================================
