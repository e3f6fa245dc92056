--------------------------- MODULE SnoozeTasks ---------------------------
(***************************************************************************)
(* Snoozed messages: the column messages.snoozed_until, the durable task   *)
(* that clears it at its instant (tasks/kinds/snooze.ts), and the sync     *)
(* pass that clears whatever is due (snooze.ts, called by runtime.ts).     *)
(* Both hand what they released to the same new-mail alert, after their    *)
(* transaction and from memory.                                            *)
(*                                                                         *)
(* The messages are of one account, so one task runs at a time; of the     *)
(* scheduler only the ends of an attempt are kept.  An acceptance is       *)
(* numbered by the task it commits.  The clock does not step back.         *)
(***************************************************************************)
EXTENDS Naturals, Sequences

CONSTANTS
    Messages,
    Unreadable,     \* messages whose stored payload does not decrypt
    MaxAttempts,    \* tasks.max_attempts
    MaxTime,        \* bound: the last instant
    MaxTasks,       \* bound: acceptances
    MaxMishaps      \* bound: crashes, failed attempts and slot timeouts

ASSUME SnoozeAssumption ==
    /\ Unreadable \subseteq Messages
    /\ MaxAttempts \in Nat \ {0}
    /\ MaxTime \in Nat \ {0}
    /\ MaxTasks \in Nat
    /\ MaxMishaps \in Nat

VARIABLES
    up,         \* the process runs
    now,        \* Date.now()
    snoozed,    \* messages.snoozed_until, Never for NULL
    task,       \* the rows of `tasks` of kind snooze, in commit order
    ran,        \* the running attempt's transaction has committed
    alerting,   \* released in this process, the alert not yet made
    owner,      \* history: the acceptance a snoozed message is hidden by
    fate,       \* history: how the snooze of an acceptance ended
    alerts,     \* history: how often an acceptance's release was alerted
    mishaps

dbVars   == <<snoozed, task>>
histVars == <<owner, fate, alerts>>
vars == <<up, now, dbVars, ran, alerting, histVars, mishaps>>

Ids      == 1..MaxTasks
Instants == 1..MaxTime
Never    == 0
NoTask   == 0
Terminal == {"completed", "failed"}

Row == [msg : Messages, until : Instants, attempts : Nat,
        status : {"pending", "running", "withdrawn"} \cup Terminal]

Accepted     == 1..Len(task)
Running      == {k \in Accepted : task[k].status = "running"}
Waiting(m)   == {k \in Accepted : task[k].msg = m /\ task[k].status = "pending"}
Due(m)       == snoozed[m] # Never /\ snoozed[m] <= now
Hidden(m)    == snoozed[m] > now

\* Every variable has a value of its column's or field's type.
TypeOK ==
    /\ up \in BOOLEAN
    /\ now \in 0..MaxTime
    /\ snoozed \in [Messages -> Instants \cup {Never}]
    /\ task \in Seq(Row) /\ Len(task) <= MaxTasks
    /\ ran \in BOOLEAN
    /\ alerting \subseteq Accepted
    /\ owner \in [Messages -> Ids \cup {NoTask}]
    /\ fate \in [Ids -> {"none", "hidden", "replaced", "cancelled", "released", "silent"}]
    /\ alerts \in [Ids -> Nat]
    /\ mishaps \in 0..MaxMishaps

Init ==
    /\ up = TRUE
    /\ now = 0
    /\ snoozed = [m \in Messages |-> Never]
    /\ task = <<>>
    /\ ran = FALSE
    /\ alerting = {}
    /\ owner = [m \in Messages |-> NoTask]
    /\ fate = [k \in Ids |-> "none"]
    /\ alerts = [k \in Ids |-> 0]
    /\ mishaps = 0

Mishap == mishaps < MaxMishaps /\ mishaps' = mishaps + 1

\* The snoozes of the messages in M end; the history keeps how.
Ends(M, how) ==
    /\ snoozed' = [m \in Messages |-> IF m \in M THEN Never ELSE snoozed[m]]
    /\ owner' = [m \in Messages |-> IF m \in M THEN NoTask ELSE owner[m]]
    /\ fate' = [k \in Ids |-> IF \E m \in M : owner[m] = k THEN how ELSE fate[k]]

-----------------------------------------------------------------------------
(* The requests, each one transaction.                                     *)

Superseded_OfAnyMessage(m) == {k \in Accepted : task[k].status = "pending"}

\* The DELETE: tasks that name the message and are still pending.
Superseded(m) == Waiting(m)

Withdrawn(m) ==
    [k \in Accepted |-> IF k \in Superseded(m)
                        THEN [task[k] EXCEPT !.status = "withdrawn"]
                        ELSE task[k]]

\* acceptSnoozeTask; the route refuses an instant that is not in the future.
Accept(m, u) ==
    LET k == Len(task) + 1 IN
    /\ up /\ k \in Ids /\ u > now
    /\ snoozed' = [snoozed EXCEPT ![m] = u]
    /\ task' = Append(Withdrawn(m), [msg |-> m, until |-> u, attempts |-> 0,
                                     status |-> "pending"])
    /\ owner' = [owner EXCEPT ![m] = k]
    /\ fate' = [j \in Ids |-> IF j = k THEN "hidden"
                              ELSE IF j = owner[m] THEN "replaced" ELSE fate[j]]
    /\ UNCHANGED <<up, now, ran, alerting, alerts, mishaps>>

\* cancelSnoozeTask.
Cancel(m) ==
    /\ up
    /\ Ends({m}, "cancelled")
    /\ task' = Withdrawn(m)
    /\ UNCHANGED <<up, now, ran, alerting, alerts, mishaps>>

-----------------------------------------------------------------------------
(* The account's chain.                                                    *)

SetTask(k, status) == task' = [task EXCEPT ![k].status = status]

\* The claim: an account drives one task at a time, none before its due_at.
Claim(k) ==
    /\ up
    /\ Running = {}
    /\ k \in Accepted /\ task[k].status = "pending" /\ task[k].until <= now
    /\ task' = [task EXCEPT ![k].status = "running", ![k].attempts = @ + 1]
    /\ UNCHANGED <<up, now, snoozed, ran, alerting, histVars, mishaps>>

\* The account's write slot did not come free in time.
SlotTimesOut(k) ==
    /\ up /\ k \in Running /\ ~ran
    /\ Mishap
    /\ SetTask(k, "failed")
    /\ UNCHANGED <<up, now, snoozed, ran, alerting, histVars>>

StillPromised_AnySnooze(k) == snoozed[task[k].msg] # Never

\* WHERE id = ? AND snoozed_until = ?: the column holds this task's instant.
StillPromised(k) == snoozed[task[k].msg] = task[k].until

\* The rows of M are released and their alerts are left to make.
Released(M) ==
    /\ Ends(M, "released")
    /\ alerting' = alerting \cup {owner[m] : m \in M}

\* The runner's transaction clears the column if it is still this task's.
Run(k) ==
    /\ up /\ k \in Running /\ ~ran
    /\ \/ ~StillPromised(k) /\ UNCHANGED <<snoozed, owner, fate, alerting>>
       \/ /\ StillPromised(k) /\ task[k].msg \notin Unreadable
          /\ Released({task[k].msg})
    /\ ran' = TRUE
    /\ UNCHANGED <<up, now, task, alerts, mishaps>>

Completes_LegacyStatus(k) ==
    /\ up /\ k \in Running /\ ran /\ k \notin alerting
    /\ SetTask(k, "done")
    /\ ran' = FALSE
    /\ UNCHANGED <<up, now, snoozed, alerting, histVars, mishaps>>

\* The runner awaited its alert and returned.
Completes(k) ==
    /\ up /\ k \in Running /\ ran /\ k \notin alerting
    /\ SetTask(k, "completed")
    /\ ran' = FALSE
    /\ UNCHANGED <<up, now, snoozed, alerting, histVars, mishaps>>

\* The attempt threw: its payload does not decrypt, or the run timed out.
AttemptFails(k) ==
    /\ up /\ k \in Running
    /\ \/ /\ ~ran /\ StillPromised(k) /\ task[k].msg \in Unreadable
          /\ UNCHANGED mishaps
       \/ Mishap
    /\ SetTask(k, IF task[k].attempts >= MaxAttempts THEN "failed" ELSE "pending")
    /\ ran' = FALSE
    /\ UNCHANGED <<up, now, snoozed, alerting, histVars>>

-----------------------------------------------------------------------------
(* The sync pass, the alert, the process and the clock.                    *)

PassFinds_Untasked(m) == Due(m) /\ \A k \in Accepted : task[k].msg # m

\* The pass takes every due row, whether a task stands behind it or not.
PassFinds(m) == Due(m)

\* releaseDueSnoozedMessages: the rows are cleared first and decrypted after,
\* so one that does not decrypt costs all of them their alert.
Pass ==
    LET M == {m \in Messages : PassFinds(m)} IN
    /\ up /\ M # {}
    /\ IF M \cap Unreadable = {}
       THEN Released(M)
       ELSE Ends(M, "silent") /\ UNCHANGED alerting
    /\ UNCHANGED <<up, now, task, ran, alerts, mishaps>>

\* onNewInboxMessages or onSnoozeReleased; an error there is swallowed.
Alert(k) ==
    /\ up /\ k \in alerting
    /\ alerting' = alerting \ {k}
    /\ alerts' = [alerts EXCEPT ![k] = @ + 1]
    /\ UNCHANGED <<up, now, dbVars, ran, owner, fate, mishaps>>

\* The process ends; an alert not yet made is lost.
Crash ==
    /\ up
    /\ Mishap
    /\ up' = FALSE
    /\ alerting' = {}
    /\ fate' = [k \in Ids |-> IF k \in alerting THEN "silent" ELSE fate[k]]
    /\ ran' = FALSE
    /\ UNCHANGED <<now, dbVars, owner, alerts>>

\* recoverRunningTasks: what was running is pending again.
Boot ==
    /\ ~up
    /\ up' = TRUE
    /\ task' = [k \in Accepted |-> IF k \in Running
                                   THEN [task[k] EXCEPT !.status = "pending"]
                                   ELSE task[k]]
    /\ UNCHANGED <<now, snoozed, ran, alerting, histVars, mishaps>>

Tick ==
    /\ now < MaxTime
    /\ now' = now + 1
    /\ UNCHANGED <<up, dbVars, ran, alerting, histVars, mishaps>>

Chain == \E k \in Accepted : Claim(k) \/ Run(k) \/ Completes(k) \/ AttemptFails(k)

Alerts == \E k \in alerting : Alert(k)

Next ==
    \/ \E m \in Messages, u \in Instants : Accept(m, u)
    \/ \E m \in Messages : Cancel(m)
    \/ \E k \in Accepted : SlotTimesOut(k)
    \/ Chain \/ Pass \/ Alerts \/ Crash \/ Boot \/ Tick

\* The chain and its timers, the poll, the awaited alerts and a process the
\* user starts again all go on, and so does time.
Fairness ==
    /\ WF_vars(Chain) /\ WF_vars(Pass) /\ WF_vars(Alerts)
    /\ WF_vars(Boot) /\ WF_vars(Tick)

SafetySpec == Init /\ [][Next]_vars
Spec == SafetySpec /\ Fairness

-----------------------------------------------------------------------------

\* A message that is out of the inbox has a pending task with exactly its
\* instant, however often it was snoozed, cancelled and snoozed again and
\* whatever failed: one acceptance never withdraws another's release.
HiddenIsPromised ==
    \A m \in Messages :
        Hidden(m) => \E k \in Waiting(m) : task[k].until = snoozed[m]

\* A snooze is alerted at most once although the runner and the sync pass
\* both release it, never before its instant, and never when the user moved
\* or cancelled it: an old runner that wakes up late ends no newer snooze.
AlertedOnceWhenDue ==
    /\ \A k \in Ids : fate[k] \in {"released", "silent"} => task[k].until <= now
    /\ \A k \in Ids :
          alerts[k] + (IF k \in alerting THEN 1 ELSE 0)
             <= (IF fate[k] = "released" THEN 1 ELSE 0)

\* Every snooze ends: with an alert, by the user's next word on the message,
\* or in silence because the process ended or a payload did not decrypt.
EverySnoozeEnds ==
    \A k \in Ids :
        fate[k] = "hidden"
           ~> fate[k] \in {"replaced", "cancelled", "silent"} \/ alerts[k] = 1
==========================================================================
