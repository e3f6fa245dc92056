----------------------------- MODULE SendTasks -----------------------------
(***************************************************************************)
(* Sending mail on one account: the submission ledger (outbox.ts), the     *)
(* durable `send` task and its runner (kinds/send.ts), the optimistic Sent *)
(* row (pending-sent.ts), the settlement of a send (wiring.ts), the boot   *)
(* recovery (app.ts) and the Sent folder that confirms a submission        *)
(* (outbox.ts, sync-sent-verify.ts).                                       *)
(*                                                                         *)
(* The chain of tasks is the one TaskScheduler describes, one attempt at a *)
(* time; which pending send goes next is left open here.  The SMTP         *)
(* conversation outlives the attempt that opened it: after a timeout, a    *)
(* shutdown or a crash the server may still take the mail.                 *)
(*                                                                         *)
(* A definition whose name has a suffix is a variant with a defect.        *)
(***************************************************************************)
EXTENDS Naturals

CONSTANTS
    Sends,          \* submissions, each with its idempotency key
    Parked,         \* those with a send_at
    MaxAttempts,    \* tasks.max_attempts
    MaxEnds,        \* bound: process ends
    MaxFaults,      \* bound: verdicts whose ledger write throws
    NoSend

ASSUME SendAssumption ==
    /\ Parked \subseteq Sends
    /\ NoSend \notin Sends
    /\ MaxAttempts \in Nat \ {0}
    /\ {MaxEnds, MaxFaults} \subseteq Nat

VARIABLES
    ledger,     \* outbound_submissions.status
    due,        \* parked submissions whose send_at has come
    task,       \* tasks.status
    tries,      \* tasks.attempt_count
    rows,       \* Sent rows in the cache: the placeholder, the provider's copy
    wire,       \* the last SMTP conversation, as the server sees it
    delivered,  \* history: how often the server took the mail
    stored,     \* submissions the provider's Sent folder holds
    phase,      \* down, replay, resume, up, stopping
    job, stage, \* the attempt under way and what it waits for
    ends, faults

ledgerVars == <<ledger, due>>
taskVars   == <<task, tries>>
remoteVars == <<wire, delivered, stored>>
jobVars    == <<job, stage>>
bounds     == <<ends, faults>>
vars == <<ledgerVars, taskVars, rows, remoteVars, phase, jobVars, bounds>>

Live     == {"pending", "running"}
Broken   == {"failed", "unknown_delivery"}
Statuses == {"none", "completed"} \cup Live \cup Broken

\* OUTBOUND_SUBMISSION_STATUSES, and what becomes of a row that is deleted.
Ledger == {"none", "pending", "submitting", "submitted", "confirmed", "failed",
           "unknown_delivery", "withdrawn", "pruned"}
Gone   == {"withdrawn", "pruned"}

\* Every variable has a value of its type, and no attempt exceeds the budget
\* but for those a restart gives.
TypeOK ==
    /\ ledger \in [Sends -> Ledger]
    /\ due \subseteq Parked
    /\ task \in [Sends -> Statuses]
    /\ tries \in [Sends -> 0..(MaxAttempts + MaxEnds)]
    /\ rows \in [Sends -> SUBSET {"placeholder", "copy"}]
    /\ wire \in [Sends -> {"idle", "open", "accepted", "refused"}]
    /\ delivered \in [Sends -> Nat]
    /\ stored \subseteq Sends
    /\ phase \in {"down", "replay", "resume", "up", "stopping"}
    /\ job \in Sends \cup {NoSend}
    /\ stage \in {"idle", "slot", "smtp", "draft", "hook"}
    /\ ends \in 0..MaxEnds
    /\ faults \in 0..MaxFaults

Init ==
    /\ ledger = [s \in Sends |-> "none"]
    /\ due = {}
    /\ task = [s \in Sends |-> "none"]
    /\ tries = [s \in Sends |-> 0]
    /\ rows = [s \in Sends |-> {}]
    /\ wire = [s \in Sends |-> "idle"]
    /\ delivered = [s \in Sends |-> 0]
    /\ stored = {}
    /\ phase = "up"
    /\ job = NoSend /\ stage = "idle"
    /\ ends = 0 /\ faults = 0

\* A settlement and its hook are one synchronous stretch.
Serving == phase = "up" /\ stage # "hook"
InProcess == phase \in {"up", "stopping"}

-----------------------------------------------------------------------------
(* What the user, the Agent and the clock do.                              *)

Placed(s) == IF s \in Parked THEN rows[s] ELSE rows[s] \cup {"placeholder"}

\* The send task, committed with its submission (or after it, by the Agent).
CommitSend(s) ==
    /\ task' = [task EXCEPT ![s] = "pending"]
    /\ tries' = [tries EXCEPT ![s] = 0]
    /\ rows' = [rows EXCEPT ![s] = Placed(s)]

\* acceptSendTask, for a key the ledger does not know.
Accept(s) ==
    /\ Serving
    /\ ledger[s] = "none"
    /\ ledger' = [ledger EXCEPT ![s] = "pending"]
    /\ CommitSend(s)
    /\ UNCHANGED <<due, remoteVars, phase, jobVars, bounds>>

\* The Agent persists a submission first: prepareSubmission.
Prepare(s) ==
    /\ Serving
    /\ s \notin Parked
    /\ ledger[s] = "none"
    /\ ledger' = [ledger EXCEPT ![s] = "pending"]
    /\ UNCHANGED <<due, taskVars, rows, remoteVars, phase, jobVars, bounds>>

\* acceptPreparedSendTask: nothing is committed while a task row stands, a
\* failed one included; nor does acceptSendTask for a key the ledger knows.
Submit(s) ==
    /\ Serving
    /\ ledger[s] \in {"pending", "failed"}
    /\ task[s] = "none"
    /\ CommitSend(s)
    /\ UNCHANGED <<ledgerVars, remoteVars, phase, jobVars, bounds>>

\* cancelScheduledSend: the ledger row and its task, or neither.
Cancel(s) ==
    /\ Serving
    /\ s \in Parked \ due
    /\ ledger[s] = "pending"
    /\ ledger' = [ledger EXCEPT ![s] = "withdrawn"]
    /\ task' = [task EXCEPT ![s] = IF @ = "pending" THEN "none" ELSE @]
    /\ UNCHANGED <<due, tries, rows, remoteVars, phase, jobVars, bounds>>

DueArrives(s) ==
    /\ s \in Parked \ due
    /\ due' = due \cup {s}
    /\ UNCHANGED <<ledger, taskVars, rows, remoteVars, phase, jobVars, bounds>>

-----------------------------------------------------------------------------
(* One attempt: createSendRunner under attemptOnce.                        *)

\* claimNextTask: a parked send is claimable at its instant.
Claim(s) ==
    /\ phase = "up"
    /\ job = NoSend
    /\ task[s] = "pending"
    /\ s \in Parked => s \in due
    /\ task' = [task EXCEPT ![s] = "running"]
    /\ tries' = [tries EXCEPT ![s] = @ + 1]
    /\ job' = s /\ stage' = "slot"
    /\ UNCHANGED <<ledgerVars, rows, remoteVars, phase, bounds>>

\* settleTask; the hooks of the settlement follow.
Settled(s, outcome) ==
    /\ task' = [task EXCEPT ![s] = outcome]
    /\ stage' = "hook"
    /\ UNCHANGED <<tries, job>>

\* Once stopped, the scheduler writes nothing for an attempt that throws.
Dropped ==
    /\ job' = NoSend /\ stage' = "idle"
    /\ UNCHANGED taskVars

\* The runner threw TaskAbortError.
Aborted(s, outcome) == IF phase = "up" THEN Settled(s, outcome) ELSE Dropped

\* The runner threw anything else: the retry ladder.
Retried_OffByOne(s) ==
    IF phase # "up" THEN Dropped
    ELSE IF tries[s] > MaxAttempts THEN Settled(s, "failed")
    ELSE /\ task' = [task EXCEPT ![s] = "pending"]
         /\ job' = NoSend /\ stage' = "idle"
         /\ UNCHANGED tries

Retried(s) ==
    IF phase # "up" THEN Dropped
    ELSE IF tries[s] >= MaxAttempts THEN Settled(s, "failed")
    ELSE /\ task' = [task EXCEPT ![s] = "pending"]
         /\ job' = NoSend /\ stage' = "idle"
         /\ UNCHANGED tries

\* The account's write slot was not free in time: the runner never ran.
SlotTimesOut(s) ==
    /\ phase = "up"
    /\ job = s /\ stage = "slot"
    /\ Settled(s, "failed")
    /\ UNCHANGED <<ledgerVars, rows, remoteVars, phase, bounds>>

\* The slot is taken and the runner reads the ledger.
Runs(s) ==
    /\ InProcess
    /\ job = s /\ stage = "slot"
    /\ UNCHANGED <<due, rows, delivered, stored, phase, bounds>>

JudgeGone(s) ==
    /\ Runs(s)
    /\ ledger[s] \in Gone
    /\ Aborted(s, "failed")
    /\ UNCHANGED <<ledger, wire>>

JudgeSent_TrustsClaims(s) ==
    /\ Runs(s)
    /\ ledger[s] \in {"submitting", "submitted", "confirmed"}
    /\ Settled(s, "completed")
    /\ UNCHANGED <<ledger, wire>>

JudgeSent(s) ==
    /\ Runs(s)
    /\ ledger[s] \in {"submitted", "confirmed"}
    /\ Settled(s, "completed")
    /\ UNCHANGED <<ledger, wire>>

\* Owned by another attempt, as far as this one can tell: the claim is younger
\* than SUBMITTING_CLAIM_STALE_MS.
JudgeBusy(s) ==
    /\ Runs(s)
    /\ ledger[s] = "submitting"
    /\ Retried(s)
    /\ UNCHANGED <<ledger, wire>>

\* The claim is older than that, which at a later attempt it may always be.
JudgeStale(s) ==
    /\ Runs(s)
    /\ ledger[s] = "submitting"
    /\ ledger' = [ledger EXCEPT ![s] = "unknown_delivery"]
    /\ Aborted(s, "unknown_delivery")
    /\ UNCHANGED wire

JudgeUnknown(s) ==
    /\ Runs(s)
    /\ ledger[s] = "unknown_delivery"
    /\ Aborted(s, "unknown_delivery")
    /\ UNCHANGED <<ledger, wire>>

Startable_Unknown(s) == ledger[s] \in {"pending", "failed", "unknown_delivery"}

\* startSubmission: only these two may be attempted.
Startable(s) == ledger[s] \in {"pending", "failed"}

\* An upload is definitively gone before the claim.
AttachmentGone(s) ==
    /\ Runs(s)
    /\ Startable(s)
    /\ ledger' = [ledger EXCEPT ![s] = "failed"]
    /\ Aborted(s, "failed")
    /\ UNCHANGED wire

\* Anything else that goes wrong before the claim.
PrepareFails(s) ==
    /\ Runs(s)
    /\ Startable(s)
    /\ Retried(s)
    /\ UNCHANGED <<ledger, wire>>

\* The claim, and the conversation it stands for.
StartSmtp(s) ==
    /\ Runs(s)
    /\ Startable(s)
    /\ ledger' = [ledger EXCEPT ![s] = "submitting"]
    /\ wire' = [wire EXCEPT ![s] = "open"]
    /\ stage' = "smtp"
    /\ UNCHANGED <<job, taskVars>>

-----------------------------------------------------------------------------
(* The verdict of the conversation.                                        *)

AtSmtp(s) ==
    /\ job = s /\ stage = "smtp"
    /\ UNCHANGED <<due, rows, remoteVars, phase, ends>>

Records(s, status) ==
    /\ ledger' = [ledger EXCEPT ![s] = status]
    /\ UNCHANGED faults

WriteThrows ==
    /\ faults < MaxFaults
    /\ faults' = faults + 1

\* The mail is out.  A record that cannot be written is downgraded, or left
\* for the next boot; what is left is to discard the draft.
SmtpAccepted(s) ==
    /\ phase = "up"
    /\ AtSmtp(s)
    /\ wire[s] = "accepted"
    /\ \/ Records(s, "submitted")
       \/ WriteThrows /\ ledger' = [ledger EXCEPT ![s] = "unknown_delivery"]
       \/ WriteThrows /\ UNCHANGED ledger
    /\ stage' = "draft"
    /\ UNCHANGED <<job, taskVars>>

\* A definitive refusal, before any transfer: the ladder may try again.
SmtpRefused(s) ==
    /\ phase = "up"
    /\ AtSmtp(s)
    /\ wire[s] = "refused"
    /\ Records(s, "failed") \/ (WriteThrows /\ UNCHANGED ledger)
    /\ Retried(s)

SmtpUncertain_AsFailed(s) ==
    /\ InProcess
    /\ AtSmtp(s)
    /\ Records(s, "failed")
    /\ Retried(s)

\* The deadline, the abort of a shutdown, a connection that went away: the
\* runner stops listening, whatever the server has done or will do.
SmtpUncertain(s) ==
    /\ InProcess
    /\ AtSmtp(s)
    /\ \/ Records(s, "unknown_delivery") /\ Aborted(s, "unknown_delivery")
       \/ WriteThrows /\ UNCHANGED ledger /\ Retried(s)

AtDraft(s) ==
    /\ job = s /\ stage = "draft"
    /\ UNCHANGED <<ledgerVars, rows, remoteVars, phase, bounds>>

DraftDone(s) ==
    /\ InProcess
    /\ AtDraft(s)
    /\ Settled(s, "completed")

\* Only this wait is not bounded by the runner itself.
RunTimesOut(s) ==
    /\ phase = "up"
    /\ AtDraft(s)
    /\ Retried(s)

\* A deleted submission has nulled the task's submission_id.
Retire(s) == IF ledger[s] \in Gone THEN rows[s] ELSE rows[s] \ {"placeholder"}

\* onTaskSettled: retirePendingSentRow for a send that did not complete.
Hook ==
    /\ InProcess
    /\ stage = "hook"
    /\ rows' = IF task[job] = "completed" THEN rows
               ELSE [rows EXCEPT ![job] = Retire(job)]
    /\ job' = NoSend /\ stage' = "idle"
    /\ UNCHANGED <<ledgerVars, taskVars, remoteVars, phase, bounds>>

-----------------------------------------------------------------------------
(* The server, and what sync learns from it.                               *)

ServerAccepts(s) ==
    /\ wire[s] = "open"
    /\ wire' = [wire EXCEPT ![s] = "accepted"]
    /\ delivered' = [delivered EXCEPT ![s] = @ + 1]
    /\ UNCHANGED <<ledgerVars, taskVars, rows, stored, phase, jobVars, bounds>>

ServerRefuses(s) ==
    /\ wire[s] = "open"
    /\ wire' = [wire EXCEPT ![s] = "refused"]
    /\ UNCHANGED <<ledgerVars, taskVars, rows, delivered, stored, phase, jobVars, bounds>>

ServerStores(s) ==
    /\ delivered[s] > 0
    /\ s \notin stored
    /\ stored' = stored \cup {s}
    /\ UNCHANGED <<ledgerVars, taskVars, rows, wire, delivered, phase, jobVars, bounds>>

SyncSent_NoClaim(s) ==
    /\ Serving
    /\ s \in stored
    /\ "copy" \notin rows[s]
    /\ rows' = [rows EXCEPT ![s] = @ \cup {"copy"}]
    /\ UNCHANGED <<ledgerVars, taskVars, remoteVars, phase, jobVars, bounds>>

\* A pass over Sent: the placeholder is claimed for the provider's copy.
SyncSent(s) ==
    /\ Serving
    /\ s \in stored
    /\ "copy" \notin rows[s]
    /\ rows' = [rows EXCEPT ![s] = {"copy"}]
    /\ UNCHANGED <<ledgerVars, taskVars, remoteVars, phase, jobVars, bounds>>

Confirmed(s) ==
    /\ Serving
    /\ ledger[s] \in {"submitted", "unknown_delivery"}
    /\ ledger' = [ledger EXCEPT ![s] = "confirmed"]
    /\ UNCHANGED <<due, taskVars, rows, remoteVars, phase, jobVars, bounds>>

Confirm_Submitted(s) == "copy" \in rows[s] /\ ledger[s] = "submitted" /\ Confirmed(s)

\* confirmSubmissionsInSent: a cached row that is not a placeholder.
Confirm(s) == "copy" \in rows[s] /\ Confirmed(s)

\* scheduleSentSubmissionVerification: the live folder, for a while.
Verify(s) == s \in stored /\ Confirmed(s)

-----------------------------------------------------------------------------
(* Shutdown, crash and boot.                                               *)

Stop ==
    /\ phase = "up"
    /\ ends < MaxEnds
    /\ phase' = "stopping"
    /\ UNCHANGED <<ledgerVars, taskVars, rows, remoteVars, jobVars, bounds>>

ProcessEnds ==
    /\ phase # "down"
    /\ ends < MaxEnds
    /\ ends' = ends + 1
    /\ phase' = "down"
    /\ job' = NoSend /\ stage' = "idle"
    /\ UNCHANGED <<ledgerVars, taskVars, rows, remoteVars, faults>>

\* The retention prune, then recoverInterruptedSubmissions.
BootRecover ==
    /\ phase = "down"
    /\ phase' = "replay"
    /\ \E expired \in SUBSET {s \in Sends : ledger[s] \notin {"none", "pending", "submitting"} \cup Gone} :
          ledger' = [s \in Sends |->
              IF s \in expired THEN "pruned"
              ELSE IF ledger[s] = "submitting" THEN "unknown_delivery"
              ELSE ledger[s]]
    /\ UNCHANGED <<due, taskVars, rows, remoteVars, jobVars, bounds>>

BootReplay_FailedOnly ==
    /\ phase = "replay"
    /\ phase' = "resume"
    /\ rows' = [s \in Sends |-> IF task[s] = "failed" THEN Retire(s) ELSE rows[s]]
    /\ UNCHANGED <<ledgerVars, taskVars, remoteVars, jobVars, bounds>>

\* replayTaskSettlementObligations.
BootReplay ==
    /\ phase = "replay"
    /\ phase' = "resume"
    /\ rows' = [s \in Sends |-> IF task[s] \in Broken THEN Retire(s) ELSE rows[s]]
    /\ UNCHANGED <<ledgerVars, taskVars, remoteVars, jobVars, bounds>>

BootResume_NoFlip ==
    /\ phase = "resume"
    /\ phase' = "up"
    /\ UNCHANGED <<ledgerVars, taskVars, rows, remoteVars, jobVars, bounds>>

\* resume: expired terminal rows go, interrupted ones are pending again.
BootResume ==
    /\ phase = "resume"
    /\ phase' = "up"
    /\ \E expired \in SUBSET {s \in Sends : task[s] \in Broken \cup {"completed"}} :
          task' = [s \in Sends |->
              IF s \in expired THEN "none"
              ELSE IF task[s] = "running" THEN "pending"
              ELSE task[s]]
    /\ UNCHANGED <<ledgerVars, tries, rows, remoteVars, jobVars, bounds>>

-----------------------------------------------------------------------------
User(s) == Accept(s) \/ Prepare(s) \/ Submit(s) \/ Cancel(s)

\* One step of an attempt at s, its claim excepted.
Attempt(s) ==
    \/ SlotTimesOut(s)
    \/ JudgeGone(s) \/ JudgeSent(s) \/ JudgeBusy(s) \/ JudgeStale(s) \/ JudgeUnknown(s)
    \/ AttachmentGone(s) \/ PrepareFails(s) \/ StartSmtp(s)
    \/ SmtpAccepted(s) \/ SmtpRefused(s) \/ SmtpUncertain(s)
    \/ DraftDone(s) \/ RunTimesOut(s)

Server(s) == ServerAccepts(s) \/ ServerRefuses(s) \/ ServerStores(s)

Sync(s) == SyncSent(s) \/ Confirm(s) \/ Verify(s)

Boot == BootRecover \/ BootReplay \/ BootResume

Next ==
    \/ \E s \in Sends :
          \/ User(s) \/ DueArrives(s)
          \/ Claim(s) \/ Attempt(s) \/ Server(s) \/ Sync(s)
    \/ Hook \/ Stop \/ ProcessEnds \/ Boot

\* Clocks advance, the scheduler drains, an attempt ends (each of its waits has
\* a deadline), periodic sync runs, a stopping process ends and a process that
\* is down is started again.  The server and the user promise nothing.
Fairness ==
    /\ \A s \in Sends : WF_vars(DueArrives(s))
    /\ \A s \in Sends : WF_vars(Claim(s))
    /\ \A s \in Sends : WF_vars(Attempt(s))
    /\ \A s \in Sends : WF_vars(SyncSent(s))
    /\ \A s \in Sends : WF_vars(Confirm(s))
    /\ WF_vars(Hook)
    /\ WF_vars(Boot)
    /\ WF_vars(phase = "stopping" /\ ProcessEnds)

SafetySpec == Init /\ [][Next]_vars
Spec == SafetySpec /\ Fairness

-----------------------------------------------------------------------------
(* Properties.                                                             *)

\* No mail is sent twice, whatever is retried, replayed, resubmitted or
\* recovered: outbox.ts startSubmission and the terminal unknown_delivery.
AtMostOnce == \A s \in Sends : delivered[s] <= 1

\* The ledger never says more than what happened: what it calls submitted or
\* confirmed the server took, and what it calls pending or failed, or let the
\* user withdraw, the server has not taken and will not take.  A row we wrote
\* ourselves is no evidence (pending-sent.ts): confirmed means that the
\* provider's Sent folder holds the mail.
LedgerTruth ==
    \A s \in Sends :
        /\ ledger[s] \in {"submitted", "confirmed"} => delivered[s] > 0
        /\ ledger[s] \in {"pending", "failed", "withdrawn"} =>
              delivered[s] = 0 /\ wire[s] \notin {"open", "accepted"}
        /\ ledger[s] = "confirmed" => s \in stored

\* A send task ends completed only for a mail the server took, also when the
\* attempt that ends it is not the one that sent it.
CompletedIsSent == \A s \in Sends : task[s] = "completed" => delivered[s] > 0

\* The Sent folder never shows one mail twice: the provider's copy takes the
\* place of the placeholder (claimPendingSentRow).
OneSentRow == \A s \in Sends : rows[s] # {"placeholder", "copy"}

\* A placeholder stands for a send that may still happen or has happened; for
\* one that ended otherwise its retraction is at hand, in the hook or at boot
\* -- unless the ledger row expired first.
PlaceholderIsOwned ==
    \A s \in Sends :
        "placeholder" \in rows[s] =>
            \/ task[s] \in Live
            \/ task[s] \in {"completed", "none"} /\ delivered[s] > 0
            \/ stage = "hook" /\ job = s
            \/ phase \in {"down", "replay"}
            \/ ledger[s] = "pruned"

\* Every send task reaches a verdict, across crashes, failed ledger writes and
\* claims nobody owns any more.
EverySendSettles == \A s \in Sends : task[s] \in Live ~> task[s] \notin Live

\* The provider's copy settles the ledger, also after an uncertain verdict.
CopyConfirms ==
    \A s \in Sends :
        s \in stored /\ ledger[s] \in {"submitted", "unknown_delivery"}
            ~> ledger[s] \in {"confirmed", "pruned"}
=============================================================================
