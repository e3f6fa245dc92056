-------------------------- MODULE SendTasks_proofs --------------------------
(***************************************************************************)
(* The invariants of SendTasks, for every set of sends, every budget of    *)
(* attempts and every number of process ends and failed ledger writes.     *)
(*                                                                         *)
(* What is checked on the small instance is not inductive by itself: that  *)
(* no mail is sent twice rests on what the ledger, the wire and the        *)
(* attempt under way say of each other (Conversation, Progress), that the  *)
(* Sent folder shows a mail once on where its rows came from (Evidence),   *)
(* and that a placeholder is owned on the phase of the process (Owned).    *)
(***************************************************************************)
EXTENDS SendTasks, TLAPS

Booting == {"down", "replay", "resume"}

\* An attempt belongs to a running process, and every wait to an attempt.
Quiet ==
    /\ phase \in Booting => job = NoSend /\ stage = "idle"
    /\ stage # "idle" => job \in Sends

\* A restart gives an interrupted send at most one attempt more.
Budget ==
    \A s \in Sends :
        /\ tries[s] <= MaxAttempts + ends
        /\ task[s] = "pending" \/ (task[s] = "running" /\ phase \in Booting)
              => tries[s] < MaxAttempts + ends

\* What the ledger and the wire say of what the server took.
Conversation ==
    \A s \in Sends :
        /\ ledger[s] \in {"none", "pending", "failed", "withdrawn"} =>
              delivered[s] = 0 /\ wire[s] \notin {"open", "accepted"}
        /\ wire[s] # "accepted" => delivered[s] = 0
        /\ wire[s] = "accepted" => delivered[s] = 1
        /\ ledger[s] \in {"submitted", "confirmed"} => delivered[s] = 1

\* Rows and confirmations come from the Sent folder.
Evidence ==
    \A s \in Sends :
        /\ s \in stored => delivered[s] > 0
        /\ "copy" \in rows[s] => s \in stored
        /\ ledger[s] = "confirmed" => s \in stored
        /\ rows[s] # {"placeholder", "copy"}

\* A conversation is under way only under a claim, and a task is past it only
\* when the mail is out.
Progress ==
    \A s \in Sends :
        /\ job = s /\ stage = "smtp" => ledger[s] = "submitting"
        /\ job = s /\ stage = "draft" => delivered[s] > 0
        /\ task[s] = "completed" => delivered[s] > 0

\* Who answers for a placeholder; a parked send has none.
Owned ==
    \A s \in Sends :
        /\ ledger[s] = "withdrawn" => s \in Parked
        /\ s \in Parked => "placeholder" \notin rows[s]
        /\ "placeholder" \in rows[s] =>
              \/ task[s] \in Live
              \/ task[s] \in {"completed", "none"} /\ delivered[s] > 0
              \/ task[s] \in Broken /\ stage = "hook" /\ job = s
              \/ task[s] \in Broken /\ phase \in {"down", "replay"}
              \/ ledger[s] = "pruned"

\* The inductive invariant.
IInv ==
    /\ TypeOK
    /\ Quiet
    /\ Budget
    /\ Conversation
    /\ Evidence
    /\ Progress
    /\ Owned

-----------------------------------------------------------------------------
(* One lemma per action.                                                   *)

\* A new submission has nothing on the wire and no copy in Sent.
LEMMA AcceptKeeps ==
    ASSUME IInv, NEW s \in Sends, Accept(s)
    PROVE  IInv'
<1>1. TypeOK'
  BY SendAssumption
     DEF IInv, Quiet, Budget, TypeOK, Ledger, Statuses, Live, Broken, Accept,
         CommitSend, Placed, Booting, remoteVars, jobVars, bounds
<1>2. Budget'
  BY SendAssumption
     DEF IInv, Budget, TypeOK, Accept, CommitSend, Booting, bounds
<1>3. Conversation'
  BY DEF IInv, Conversation, Evidence, TypeOK, Accept, CommitSend, remoteVars
<1>4. Evidence'
  BY DEF IInv, Evidence, Conversation, TypeOK, Accept, CommitSend, Placed,
         remoteVars
<1>5. Progress'
  BY DEF IInv, Progress, Conversation, Quiet, TypeOK, Accept, CommitSend,
         Booting, remoteVars, jobVars
<1>6. Owned'
  BY DEF IInv, Owned, Conversation, Progress, Quiet, Evidence, TypeOK, Live,
         Broken, Accept, Serving, CommitSend, Placed, Booting, remoteVars,
         jobVars
<1>7. Quiet'
  BY DEF IInv, Quiet, Accept, CommitSend, Booting, jobVars
<1>8. QED
  BY <1>1, <1>2, <1>3, <1>4, <1>5, <1>6, <1>7 DEF IInv

\* The same without a task.
LEMMA PrepareKeeps ==
    ASSUME IInv, NEW s \in Sends, Prepare(s)
    PROVE  IInv'
<1>1. TypeOK'
  BY SendAssumption
     DEF IInv, Quiet, TypeOK, Ledger, Statuses, Live, Broken, Prepare,
         Booting, taskVars, remoteVars, jobVars, bounds
<1>2. Conversation'
  BY DEF IInv, Conversation, Evidence, TypeOK, Prepare, remoteVars
<1>3. Evidence'
  BY DEF IInv, Evidence, Conversation, TypeOK, Prepare, remoteVars
<1>4. Progress'
  BY DEF IInv, Progress, Conversation, Quiet, TypeOK, Prepare, Booting,
         taskVars, remoteVars, jobVars
<1>5. Owned'
  BY DEF IInv, Owned, Conversation, Progress, Quiet, Evidence, TypeOK, Live,
         Broken, Prepare, Serving, Booting, taskVars, remoteVars, jobVars
<1>6. (Quiet /\ Budget)'
  BY DEF IInv, Quiet, Budget, Prepare, Booting, taskVars, jobVars, bounds
<1>7. QED
  BY <1>1, <1>2, <1>3, <1>4, <1>5, <1>6 DEF IInv

\* What is resubmitted was never handed over, or definitively refused.
LEMMA SubmitKeeps ==
    ASSUME IInv, NEW s \in Sends, Submit(s)
    PROVE  IInv'
<1>1. TypeOK'
  BY SendAssumption
     DEF IInv, Quiet, Budget, TypeOK, Ledger, Statuses, Live, Broken, Submit,
         CommitSend, Placed, Booting, ledgerVars, remoteVars, jobVars, bounds
<1>2. Budget'
  BY SendAssumption
     DEF IInv, Budget, TypeOK, Submit, CommitSend, Booting, bounds
<1>3. Evidence'
  BY DEF IInv, Evidence, Conversation, TypeOK, Submit, CommitSend, Placed,
         ledgerVars, remoteVars
<1>4. Progress'
  BY DEF IInv, Progress, Conversation, Quiet, TypeOK, Submit, CommitSend,
         Booting, ledgerVars, remoteVars, jobVars
<1>5. Owned'
  BY DEF IInv, Owned, Conversation, Progress, Quiet, Evidence, TypeOK, Live,
         Broken, Submit, Serving, CommitSend, Placed, Booting, ledgerVars,
         remoteVars, jobVars
<1>6. (Quiet /\ Conversation)'
  BY DEF IInv, Quiet, Conversation, Submit, CommitSend, Booting, ledgerVars,
         remoteVars, jobVars
<1>7. QED
  BY <1>1, <1>2, <1>3, <1>4, <1>5, <1>6 DEF IInv

\* A parked send that is withdrawn never had a placeholder.
LEMMA CancelKeeps ==
    ASSUME IInv, NEW s \in Sends, Cancel(s)
    PROVE  IInv'
<1>1. TypeOK'
  BY SendAssumption
     DEF IInv, Quiet, TypeOK, Ledger, Statuses, Live, Broken, Cancel,
         Booting, remoteVars, jobVars, bounds
<1>2. Budget'
  BY SendAssumption
     DEF IInv, Budget, TypeOK, Cancel, Booting, bounds
<1>3. Conversation'
  BY DEF IInv, Conversation, Evidence, TypeOK, Cancel, remoteVars
<1>4. Evidence'
  BY DEF IInv, Evidence, Conversation, TypeOK, Cancel, remoteVars
<1>5. Progress'
  BY DEF IInv, Progress, Conversation, Quiet, TypeOK, Cancel, Booting,
         remoteVars, jobVars
<1>6. Owned'
  BY DEF IInv, Owned, Conversation, Progress, Quiet, Evidence, TypeOK, Live,
         Broken, Cancel, Serving, Booting, remoteVars, jobVars
<1>7. Quiet'
  BY DEF IInv, Quiet, Cancel, Booting, jobVars
<1>8. QED
  BY <1>1, <1>2, <1>3, <1>4, <1>5, <1>6, <1>7 DEF IInv

\* Nothing depends on the instant but the claim.
LEMMA DueArrivesKeeps ==
    ASSUME IInv, NEW s \in Sends, DueArrives(s)
    PROVE  IInv'
<1>1. TypeOK'
  BY SendAssumption
     DEF IInv, Quiet, TypeOK, Ledger, Statuses, Live, Broken, DueArrives,
         Booting, taskVars, remoteVars, jobVars, bounds
<1>2. (Quiet /\ Budget /\ Conversation /\ Evidence /\ Progress /\ Owned)'
  BY DEF IInv, Quiet, Budget, Conversation, Evidence, Progress, Owned,
         DueArrives, Booting, taskVars, remoteVars, jobVars, bounds
<1>3. QED
  BY <1>1, <1>2 DEF IInv

\* A pending task has an attempt left.
LEMMA ClaimKeeps ==
    ASSUME IInv, NEW s \in Sends, Claim(s)
    PROVE  IInv'
<1>1. TypeOK'
  BY SendAssumption
     DEF IInv, Quiet, Budget, TypeOK, Ledger, Statuses, Live, Broken, Claim,
         Booting, ledgerVars, remoteVars, bounds
<1>2. Quiet'
  BY DEF IInv, Quiet, TypeOK, Claim, Booting
<1>3. Budget'
  BY SendAssumption
     DEF IInv, Budget, TypeOK, Claim, Booting, bounds
<1>4. Progress'
  BY DEF IInv, Progress, Conversation, Quiet, TypeOK, Claim, Booting,
         ledgerVars, remoteVars
<1>5. Owned'
  BY SendAssumption
     DEF IInv, Owned, Conversation, Progress, Quiet, Evidence, TypeOK,
         Ledger, Gone, Statuses, Live, Broken, Claim, Booting, ledgerVars,
         taskVars, remoteVars, jobVars, bounds
<1>6. (Conversation /\ Evidence)'
  BY DEF IInv, Conversation, Evidence, Claim, ledgerVars, remoteVars
<1>7. QED
  BY <1>1, <1>2, <1>3, <1>4, <1>5, <1>6 DEF IInv

\* The runner never ran; the hook is at hand.
LEMMA SlotTimesOutKeeps ==
    ASSUME IInv, NEW s \in Sends, SlotTimesOut(s)
    PROVE  IInv'
<1>1. TypeOK'
  BY SendAssumption
     DEF IInv, Quiet, TypeOK, Ledger, Statuses, Live, Broken, SlotTimesOut,
         Settled, Booting, ledgerVars, remoteVars, bounds
<1>2. Quiet'
  BY DEF IInv, Quiet, TypeOK, SlotTimesOut, Settled, Booting
<1>3. Budget'
  BY SendAssumption
     DEF IInv, Budget, TypeOK, SlotTimesOut, Settled, Booting, bounds
<1>4. Progress'
  BY DEF IInv, Progress, Conversation, Quiet, TypeOK, SlotTimesOut, Settled,
         Booting, ledgerVars, remoteVars
<1>5. Owned'
  BY DEF IInv, Owned, Conversation, Progress, Quiet, Evidence, TypeOK, Live,
         Broken, SlotTimesOut, Settled, Booting, ledgerVars, remoteVars
<1>6. (Conversation /\ Evidence)'
  BY DEF IInv, Conversation, Evidence, SlotTimesOut, ledgerVars, remoteVars
<1>7. QED
  BY <1>1, <1>2, <1>3, <1>4, <1>5, <1>6 DEF IInv

\* A submission that is gone was withdrawn or expired.
LEMMA JudgeGoneKeeps ==
    ASSUME IInv, NEW s \in Sends, JudgeGone(s)
    PROVE  IInv'
<1>1. TypeOK'
  BY SendAssumption
     DEF IInv, Quiet, TypeOK, Ledger, Gone, Statuses, Live, Broken,
         JudgeGone, Runs, InProcess, Aborted, Settled, Dropped, Booting,
         taskVars, bounds
<1>2. Quiet'
  BY DEF IInv, Quiet, TypeOK, Gone, JudgeGone, Runs, InProcess, Aborted,
         Settled, Dropped, Booting
<1>3. Budget'
  BY SendAssumption
     DEF IInv, Budget, TypeOK, Gone, JudgeGone, Runs, InProcess, Aborted,
         Settled, Dropped, Booting, taskVars, bounds
<1>4. Progress'
  BY DEF IInv, Progress, Conversation, Quiet, TypeOK, Gone, JudgeGone, Runs,
         InProcess, Aborted, Settled, Dropped, Booting, taskVars
<1>5. Owned'
  BY DEF IInv, Owned, Conversation, Progress, Quiet, Evidence, TypeOK, Gone,
         Live, Broken, JudgeGone, Runs, InProcess, Aborted, Settled, Dropped,
         Booting, taskVars
<1>6. (Conversation /\ Evidence)'
  BY DEF IInv, Conversation, Evidence, JudgeGone, Gone, Runs, InProcess
<1>7. QED
  BY <1>1, <1>2, <1>3, <1>4, <1>5, <1>6 DEF IInv

\* A task may complete on what the ledger says.
LEMMA JudgeSentKeeps ==
    ASSUME IInv, NEW s \in Sends, JudgeSent(s)
    PROVE  IInv'
<1>1. TypeOK'
  BY SendAssumption
     DEF IInv, Quiet, TypeOK, Ledger, Statuses, Live, Broken, JudgeSent,
         Runs, InProcess, Settled, Booting, bounds
<1>2. Quiet'
  BY DEF IInv, Quiet, TypeOK, JudgeSent, Runs, InProcess, Settled, Booting
<1>3. Budget'
  BY SendAssumption
     DEF IInv, Budget, TypeOK, JudgeSent, Runs, InProcess, Settled, Booting,
         bounds
<1>4. Progress'
  BY DEF IInv, Progress, Conversation, Quiet, TypeOK, JudgeSent, Runs,
         InProcess, Settled, Booting
<1>5. Owned'
  BY DEF IInv, Owned, Conversation, Progress, Quiet, Evidence, TypeOK, Live,
         Broken, JudgeSent, Runs, InProcess, Settled, Booting
<1>6. (Conversation /\ Evidence)'
  BY DEF IInv, Conversation, Evidence, JudgeSent, Runs, InProcess
<1>7. QED
  BY <1>1, <1>2, <1>3, <1>4, <1>5, <1>6 DEF IInv

\* Waiting for a claim changes the task only.
LEMMA JudgeBusyKeeps ==
    ASSUME IInv, NEW s \in Sends, JudgeBusy(s)
    PROVE  IInv'
<1>1. TypeOK'
  BY SendAssumption
     DEF IInv, Quiet, TypeOK, Ledger, Statuses, Live, Broken, JudgeBusy,
         Runs, InProcess, Retried, Settled, Dropped, Booting, taskVars,
         bounds
<1>2. Quiet'
  BY DEF IInv, Quiet, TypeOK, JudgeBusy, Runs, InProcess, Retried, Settled,
         Dropped, Booting
<1>3. Budget'
  BY SendAssumption
     DEF IInv, Budget, TypeOK, JudgeBusy, Runs, InProcess, Retried, Settled,
         Dropped, Booting, taskVars, bounds
<1>4. Progress'
  BY DEF IInv, Progress, Conversation, Quiet, TypeOK, JudgeBusy, Runs,
         InProcess, Retried, Settled, Dropped, Booting, taskVars
<1>5. Owned'
  BY DEF IInv, Owned, Conversation, Progress, Quiet, Evidence, TypeOK, Live,
         Broken, JudgeBusy, Runs, InProcess, Retried, Settled, Dropped,
         Booting, taskVars
<1>6. (Conversation /\ Evidence)'
  BY DEF IInv, Conversation, Evidence, JudgeBusy, Runs, InProcess
<1>7. QED
  BY <1>1, <1>2, <1>3, <1>4, <1>5, <1>6 DEF IInv

\* An uncertain verdict is true of any claim.
LEMMA JudgeStaleKeeps ==
    ASSUME IInv, NEW s \in Sends, JudgeStale(s)
    PROVE  IInv'
<1>1. TypeOK'
  BY SendAssumption
     DEF IInv, Quiet, TypeOK, Ledger, Statuses, Live, Broken, JudgeStale,
         Runs, InProcess, Aborted, Settled, Dropped, Booting, taskVars,
         bounds
<1>2. Quiet'
  BY DEF IInv, Quiet, TypeOK, JudgeStale, Runs, InProcess, Aborted, Settled,
         Dropped, Booting
<1>3. Budget'
  BY SendAssumption
     DEF IInv, Budget, TypeOK, JudgeStale, Runs, InProcess, Aborted, Settled,
         Dropped, Booting, taskVars, bounds
<1>4. Conversation'
  BY DEF IInv, Conversation, Evidence, TypeOK, JudgeStale, Runs, InProcess
<1>5. Evidence'
  BY DEF IInv, Evidence, Conversation, TypeOK, JudgeStale, Runs, InProcess
<1>6. Progress'
  BY DEF IInv, Progress, Conversation, Quiet, TypeOK, JudgeStale, Runs,
         InProcess, Aborted, Settled, Dropped, Booting, taskVars
<1>7. Owned'
  BY DEF IInv, Owned, Conversation, Progress, Quiet, Evidence, TypeOK, Live,
         Broken, JudgeStale, Runs, InProcess, Aborted, Settled, Dropped,
         Booting, taskVars
<1>8. QED
  BY <1>1, <1>2, <1>3, <1>4, <1>5, <1>6, <1>7 DEF IInv

\* The task ends as the ledger did.
LEMMA JudgeUnknownKeeps ==
    ASSUME IInv, NEW s \in Sends, JudgeUnknown(s)
    PROVE  IInv'
<1>1. TypeOK'
  BY SendAssumption
     DEF IInv, Quiet, TypeOK, Ledger, Statuses, Live, Broken, JudgeUnknown,
         Runs, InProcess, Aborted, Settled, Dropped, Booting, taskVars,
         bounds
<1>2. Quiet'
  BY DEF IInv, Quiet, TypeOK, JudgeUnknown, Runs, InProcess, Aborted, Settled,
         Dropped, Booting
<1>3. Budget'
  BY SendAssumption
     DEF IInv, Budget, TypeOK, JudgeUnknown, Runs, InProcess, Aborted,
         Settled, Dropped, Booting, taskVars, bounds
<1>4. Progress'
  BY DEF IInv, Progress, Conversation, Quiet, TypeOK, JudgeUnknown, Runs,
         InProcess, Aborted, Settled, Dropped, Booting, taskVars
<1>5. Owned'
  BY DEF IInv, Owned, Conversation, Progress, Quiet, Evidence, TypeOK, Live,
         Broken, JudgeUnknown, Runs, InProcess, Aborted, Settled, Dropped,
         Booting, taskVars
<1>6. (Conversation /\ Evidence)'
  BY DEF IInv, Conversation, Evidence, JudgeUnknown, Runs, InProcess
<1>7. QED
  BY <1>1, <1>2, <1>3, <1>4, <1>5, <1>6 DEF IInv

\* Before the claim the mail is not on the wire.
LEMMA AttachmentGoneKeeps ==
    ASSUME IInv, NEW s \in Sends, AttachmentGone(s)
    PROVE  IInv'
<1>1. TypeOK'
  BY SendAssumption
     DEF IInv, Quiet, TypeOK, Ledger, Statuses, Live, Broken, AttachmentGone,
         Startable, Runs, InProcess, Aborted, Settled, Dropped, Booting,
         taskVars, bounds
<1>2. Quiet'
  BY DEF IInv, Quiet, TypeOK, AttachmentGone, Startable, Runs, InProcess,
         Aborted, Settled, Dropped, Booting
<1>3. Budget'
  BY SendAssumption
     DEF IInv, Budget, TypeOK, AttachmentGone, Startable, Runs, InProcess,
         Aborted, Settled, Dropped, Booting, taskVars, bounds
<1>4. Conversation'
  BY DEF IInv, Conversation, Evidence, TypeOK, AttachmentGone, Startable,
         Runs, InProcess
<1>5. Evidence'
  BY DEF IInv, Evidence, Conversation, TypeOK, AttachmentGone, Startable,
         Runs, InProcess
<1>6. Progress'
  BY DEF IInv, Progress, Conversation, Quiet, TypeOK, AttachmentGone,
         Startable, Runs, InProcess, Aborted, Settled, Dropped, Booting,
         taskVars
<1>7. Owned'
  BY DEF IInv, Owned, Conversation, Progress, Quiet, Evidence, TypeOK, Live,
         Broken, AttachmentGone, Startable, Runs, InProcess, Aborted, Settled,
         Dropped, Booting, taskVars
<1>8. QED
  BY <1>1, <1>2, <1>3, <1>4, <1>5, <1>6, <1>7 DEF IInv

\* The same, and the task may try again.
LEMMA PrepareFailsKeeps ==
    ASSUME IInv, NEW s \in Sends, PrepareFails(s)
    PROVE  IInv'
<1>1. TypeOK'
  BY SendAssumption
     DEF IInv, Quiet, TypeOK, Ledger, Statuses, Live, Broken, PrepareFails,
         Startable, Runs, InProcess, Retried, Settled, Dropped, Booting,
         taskVars, bounds
<1>2. Quiet'
  BY DEF IInv, Quiet, TypeOK, PrepareFails, Startable, Runs, InProcess,
         Retried, Settled, Dropped, Booting
<1>3. Budget'
  BY SendAssumption
     DEF IInv, Budget, TypeOK, PrepareFails, Startable, Runs, InProcess,
         Retried, Settled, Dropped, Booting, taskVars, bounds
<1>4. Progress'
  BY DEF IInv, Progress, Conversation, Quiet, TypeOK, PrepareFails, Startable,
         Runs, InProcess, Retried, Settled, Dropped, Booting, taskVars
<1>5. Owned'
  BY DEF IInv, Owned, Conversation, Progress, Quiet, Evidence, TypeOK, Live,
         Broken, PrepareFails, Startable, Runs, InProcess, Retried, Settled,
         Dropped, Booting, taskVars
<1>6. (Conversation /\ Evidence)'
  BY DEF IInv, Conversation, Evidence, PrepareFails, Startable, Runs,
         InProcess
<1>7. QED
  BY <1>1, <1>2, <1>3, <1>4, <1>5, <1>6 DEF IInv

\* Only what was never handed over, or was refused, is claimed.
LEMMA StartSmtpKeeps ==
    ASSUME IInv, NEW s \in Sends, StartSmtp(s)
    PROVE  IInv'
<1>1. TypeOK'
  BY SendAssumption
     DEF IInv, Quiet, TypeOK, Ledger, Statuses, Live, Broken, StartSmtp,
         Startable, Runs, InProcess, Booting, taskVars, bounds
<1>2. Quiet'
  BY DEF IInv, Quiet, TypeOK, StartSmtp, Startable, Runs, InProcess, Booting
<1>3. Conversation'
  BY DEF IInv, Conversation, Evidence, TypeOK, StartSmtp, Startable, Runs,
         InProcess
<1>4. Evidence'
  BY DEF IInv, Evidence, Conversation, TypeOK, StartSmtp, Startable, Runs,
         InProcess
<1>5. Progress'
  BY DEF IInv, Progress, Conversation, Quiet, TypeOK, StartSmtp, Startable,
         Runs, InProcess, Booting, taskVars
<1>6. Owned'
  BY DEF IInv, Owned, Conversation, Progress, Quiet, Evidence, TypeOK, Live,
         Broken, StartSmtp, Startable, Runs, InProcess, Booting, taskVars
<1>7. Budget'
  BY DEF IInv, Budget, StartSmtp, Startable, Runs, InProcess, Booting,
         taskVars, bounds
<1>8. QED
  BY <1>1, <1>2, <1>3, <1>4, <1>5, <1>6, <1>7 DEF IInv

\* The server has taken the mail.
LEMMA SmtpAcceptedKeeps ==
    ASSUME IInv, NEW s \in Sends, SmtpAccepted(s)
    PROVE  IInv'
<1>1. TypeOK'
  BY SendAssumption
     DEF IInv, Quiet, TypeOK, Ledger, Statuses, Live, Broken, SmtpAccepted,
         AtSmtp, Records, WriteThrows, Booting, taskVars, remoteVars
<1>2. Quiet'
  BY DEF IInv, Quiet, TypeOK, SmtpAccepted, AtSmtp, Booting
<1>3. Conversation'
  BY DEF IInv, Conversation, Evidence, TypeOK, SmtpAccepted, AtSmtp, Records,
         remoteVars
<1>4. Evidence'
  BY DEF IInv, Evidence, Conversation, TypeOK, SmtpAccepted, AtSmtp, Records,
         remoteVars
<1>5. Progress'
  BY DEF IInv, Progress, Conversation, Quiet, TypeOK, SmtpAccepted, AtSmtp,
         Records, Booting, taskVars, remoteVars
<1>6. Owned'
  BY DEF IInv, Owned, Conversation, Progress, Quiet, Evidence, TypeOK, Live,
         Broken, SmtpAccepted, AtSmtp, Records, Booting, taskVars, remoteVars
<1>7. Budget'
  BY DEF IInv, Budget, SmtpAccepted, AtSmtp, Booting, taskVars
<1>8. QED
  BY <1>1, <1>2, <1>3, <1>4, <1>5, <1>6, <1>7 DEF IInv

\* The server has not taken the mail and will not.
LEMMA SmtpRefusedKeeps ==
    ASSUME IInv, NEW s \in Sends, SmtpRefused(s)
    PROVE  IInv'
<1>1. TypeOK'
  BY SendAssumption
     DEF IInv, Quiet, TypeOK, Ledger, Statuses, Live, Broken, SmtpRefused,
         AtSmtp, Records, WriteThrows, Retried, Settled, Dropped, Booting,
         taskVars, remoteVars
<1>2. Quiet'
  BY DEF IInv, Quiet, TypeOK, SmtpRefused, AtSmtp, Retried, Settled, Dropped,
         Booting
<1>3. Budget'
  BY SendAssumption
     DEF IInv, Budget, TypeOK, SmtpRefused, AtSmtp, Retried, Settled,
         Dropped, Booting, taskVars
<1>4. Conversation'
  BY DEF IInv, Conversation, Evidence, TypeOK, SmtpRefused, AtSmtp, Records,
         remoteVars
<1>5. Evidence'
  BY DEF IInv, Evidence, Conversation, TypeOK, SmtpRefused, AtSmtp, Records,
         remoteVars
<1>6. Progress'
  BY DEF IInv, Progress, Conversation, Quiet, TypeOK, SmtpRefused, AtSmtp,
         Records, Retried, Settled, Dropped, Booting, taskVars, remoteVars
<1>7. Owned'
  BY DEF IInv, Owned, Conversation, Progress, Quiet, Evidence, TypeOK, Live,
         Broken, SmtpRefused, AtSmtp, Records, Retried, Settled, Dropped,
         Booting, taskVars, remoteVars
<1>8. QED
  BY <1>1, <1>2, <1>3, <1>4, <1>5, <1>6, <1>7 DEF IInv

\* Nothing is claimed about the mail, and no retry will send it.
LEMMA SmtpUncertainKeeps ==
    ASSUME IInv, NEW s \in Sends, SmtpUncertain(s)
    PROVE  IInv'
<1>1. TypeOK'
  BY SendAssumption
     DEF IInv, Quiet, TypeOK, Ledger, Statuses, Live, Broken, SmtpUncertain,
         InProcess, AtSmtp, Records, WriteThrows, Aborted, Retried, Settled,
         Dropped, Booting, taskVars, remoteVars
<1>2. Quiet'
  BY DEF IInv, Quiet, TypeOK, SmtpUncertain, InProcess, AtSmtp, Aborted,
         Retried, Settled, Dropped, Booting
<1>3. Budget'
  BY SendAssumption
     DEF IInv, Budget, TypeOK, SmtpUncertain, InProcess, AtSmtp, Aborted,
         Retried, Settled, Dropped, Booting, taskVars
<1>4. Conversation'
  BY DEF IInv, Conversation, Evidence, TypeOK, SmtpUncertain, InProcess,
         AtSmtp, Records, remoteVars
<1>5. Evidence'
  BY DEF IInv, Evidence, Conversation, TypeOK, SmtpUncertain, InProcess,
         AtSmtp, Records, remoteVars
<1>6. Progress'
  BY DEF IInv, Progress, Conversation, Quiet, TypeOK, SmtpUncertain,
         InProcess, AtSmtp, Records, Aborted, Retried, Settled, Dropped,
         Booting, taskVars, remoteVars
<1>7. Owned'
  BY DEF IInv, Owned, Conversation, Progress, Quiet, Evidence, TypeOK, Live,
         Broken, SmtpUncertain, InProcess, AtSmtp, Records, Aborted, Retried,
         Settled, Dropped, Booting, taskVars, remoteVars
<1>8. QED
  BY <1>1, <1>2, <1>3, <1>4, <1>5, <1>6, <1>7 DEF IInv

\* The mail went out before this wait began.
LEMMA DraftDoneKeeps ==
    ASSUME IInv, NEW s \in Sends, DraftDone(s)
    PROVE  IInv'
<1>1. TypeOK'
  BY SendAssumption
     DEF IInv, Quiet, TypeOK, Ledger, Statuses, Live, Broken, DraftDone,
         InProcess, AtDraft, Settled, Booting, ledgerVars, remoteVars, bounds
<1>2. Quiet'
  BY DEF IInv, Quiet, TypeOK, DraftDone, InProcess, AtDraft, Settled, Booting
<1>3. Budget'
  BY SendAssumption
     DEF IInv, Budget, TypeOK, DraftDone, InProcess, AtDraft, Settled,
         Booting, bounds
<1>4. Progress'
  BY DEF IInv, Progress, Conversation, Quiet, TypeOK, DraftDone, InProcess,
         AtDraft, Settled, Booting, ledgerVars, remoteVars
<1>5. Owned'
  BY DEF IInv, Owned, Conversation, Progress, Quiet, Evidence, TypeOK, Live,
         Broken, DraftDone, InProcess, AtDraft, Settled, Booting, ledgerVars,
         remoteVars
<1>6. (Conversation /\ Evidence)'
  BY DEF IInv, Conversation, Evidence, DraftDone, InProcess, AtDraft,
         ledgerVars, remoteVars
<1>7. QED
  BY <1>1, <1>2, <1>3, <1>4, <1>5, <1>6 DEF IInv

\* The ladder tries again and finds what the ledger says.
LEMMA RunTimesOutKeeps ==
    ASSUME IInv, NEW s \in Sends, RunTimesOut(s)
    PROVE  IInv'
<1>1. TypeOK'
  BY SendAssumption
     DEF IInv, Quiet, TypeOK, Ledger, Statuses, Live, Broken, RunTimesOut,
         AtDraft, Retried, Settled, Dropped, Booting, ledgerVars, taskVars,
         remoteVars, bounds
<1>2. Quiet'
  BY DEF IInv, Quiet, TypeOK, RunTimesOut, AtDraft, Retried, Settled, Dropped,
         Booting
<1>3. Budget'
  BY SendAssumption
     DEF IInv, Budget, TypeOK, RunTimesOut, AtDraft, Retried, Settled,
         Dropped, Booting, taskVars, bounds
<1>4. Progress'
  BY DEF IInv, Progress, Conversation, Quiet, TypeOK, RunTimesOut, AtDraft,
         Retried, Settled, Dropped, Booting, ledgerVars, taskVars, remoteVars
<1>5. Owned'
  BY DEF IInv, Owned, Conversation, Progress, Quiet, Evidence, TypeOK, Live,
         Broken, RunTimesOut, AtDraft, Retried, Settled, Dropped, Booting,
         ledgerVars, taskVars, remoteVars
<1>6. (Conversation /\ Evidence)'
  BY DEF IInv, Conversation, Evidence, RunTimesOut, AtDraft, ledgerVars,
         remoteVars
<1>7. QED
  BY <1>1, <1>2, <1>3, <1>4, <1>5, <1>6 DEF IInv

\* An open conversation has an undelivered mail and a claim behind it.
LEMMA ServerAcceptsKeeps ==
    ASSUME IInv, NEW s \in Sends, ServerAccepts(s)
    PROVE  IInv'
<1>1. TypeOK'
  BY SendAssumption
     DEF IInv, Quiet, TypeOK, Ledger, Statuses, Live, Broken, ServerAccepts,
         Booting, ledgerVars, taskVars, jobVars, bounds
<1>2. Conversation'
  BY DEF IInv, Conversation, Evidence, TypeOK, ServerAccepts, ledgerVars
<1>3. Evidence'
  BY DEF IInv, Evidence, Conversation, TypeOK, ServerAccepts, ledgerVars
<1>4. Progress'
  BY DEF IInv, Progress, Conversation, Quiet, TypeOK, ServerAccepts, Booting,
         ledgerVars, taskVars, jobVars
<1>5. Owned'
  BY DEF IInv, Owned, Conversation, Progress, Quiet, Evidence, TypeOK, Live,
         Broken, ServerAccepts, Booting, ledgerVars, taskVars, jobVars
<1>6. (Quiet /\ Budget)'
  BY DEF IInv, Quiet, Budget, ServerAccepts, Booting, taskVars, jobVars,
         bounds
<1>7. QED
  BY <1>1, <1>2, <1>3, <1>4, <1>5, <1>6 DEF IInv

\* A refused mail is still undelivered.
LEMMA ServerRefusesKeeps ==
    ASSUME IInv, NEW s \in Sends, ServerRefuses(s)
    PROVE  IInv'
<1>1. TypeOK'
  BY SendAssumption
     DEF IInv, Quiet, TypeOK, Ledger, Statuses, Live, Broken, ServerRefuses,
         Booting, ledgerVars, taskVars, jobVars, bounds
<1>2. Conversation'
  BY DEF IInv, Conversation, Evidence, TypeOK, ServerRefuses, ledgerVars
<1>3. (Quiet /\ Budget /\ Evidence /\ Progress /\ Owned)'
  BY DEF IInv, Quiet, Budget, Evidence, Progress, Owned, ServerRefuses,
         Booting, ledgerVars, taskVars, jobVars, bounds
<1>4. QED
  BY <1>1, <1>2, <1>3 DEF IInv

\* The Sent folder gets what was delivered.
LEMMA ServerStoresKeeps ==
    ASSUME IInv, NEW s \in Sends, ServerStores(s)
    PROVE  IInv'
<1>1. TypeOK'
  BY SendAssumption
     DEF IInv, Quiet, TypeOK, Ledger, Statuses, Live, Broken, ServerStores,
         Booting, ledgerVars, taskVars, jobVars, bounds
<1>2. Evidence'
  BY DEF IInv, Evidence, Conversation, TypeOK, ServerStores, ledgerVars
<1>3. (Quiet /\ Budget /\ Conversation /\ Progress /\ Owned)'
  BY DEF IInv, Quiet, Budget, Conversation, Progress, Owned, ServerStores,
         Booting, ledgerVars, taskVars, jobVars, bounds
<1>4. QED
  BY <1>1, <1>2, <1>3 DEF IInv

\* The copy takes the placeholder's place.
LEMMA SyncSentKeeps ==
    ASSUME IInv, NEW s \in Sends, SyncSent(s)
    PROVE  IInv'
<1>1. TypeOK'
  BY SendAssumption
     DEF IInv, Quiet, TypeOK, Ledger, Statuses, Live, Broken, SyncSent,
         Booting, ledgerVars, taskVars, remoteVars, jobVars, bounds
<1>2. Evidence'
  BY DEF IInv, Evidence, Conversation, TypeOK, SyncSent, ledgerVars,
         remoteVars
<1>3. Owned'
  BY DEF IInv, Owned, Conversation, Progress, Quiet, Evidence, TypeOK, Live,
         Broken, SyncSent, Serving, Booting, ledgerVars, taskVars, remoteVars,
         jobVars
<1>4. (Quiet /\ Budget /\ Conversation /\ Progress)'
  BY DEF IInv, Quiet, Budget, Conversation, Progress, SyncSent, Booting,
         ledgerVars, taskVars, remoteVars, jobVars, bounds
<1>5. QED
  BY <1>1, <1>2, <1>3, <1>4 DEF IInv

\* A copy that is not a placeholder came from the Sent folder.
LEMMA ConfirmKeeps ==
    ASSUME IInv, NEW s \in Sends, Confirm(s)
    PROVE  IInv'
<1>1. TypeOK'
  BY SendAssumption
     DEF IInv, Quiet, TypeOK, Ledger, Statuses, Live, Broken, Confirm,
         Confirmed, Booting, taskVars, remoteVars, jobVars, bounds
<1>2. Conversation'
  BY DEF IInv, Conversation, Evidence, TypeOK, Confirm, Confirmed, remoteVars
<1>3. Evidence'
  BY DEF IInv, Evidence, Conversation, TypeOK, Confirm, Confirmed, remoteVars
<1>4. Progress'
  BY DEF IInv, Progress, Conversation, Quiet, TypeOK, Confirm, Confirmed,
         Booting, taskVars, remoteVars, jobVars
<1>5. Owned'
  BY DEF IInv, Owned, Conversation, Progress, Quiet, Evidence, TypeOK, Live,
         Broken, Confirm, Confirmed, Serving, Booting, taskVars, remoteVars,
         jobVars
<1>6. (Quiet /\ Budget)'
  BY DEF IInv, Quiet, Budget, Confirm, Confirmed, Booting, taskVars, jobVars,
         bounds
<1>7. QED
  BY <1>1, <1>2, <1>3, <1>4, <1>5, <1>6 DEF IInv

\* So did the answer of the live check.
LEMMA VerifyKeeps ==
    ASSUME IInv, NEW s \in Sends, Verify(s)
    PROVE  IInv'
<1>1. TypeOK'
  BY SendAssumption
     DEF IInv, Quiet, TypeOK, Ledger, Statuses, Live, Broken, Verify,
         Confirmed, Booting, taskVars, remoteVars, jobVars, bounds
<1>2. Conversation'
  BY DEF IInv, Conversation, Evidence, TypeOK, Verify, Confirmed, remoteVars
<1>3. Evidence'
  BY DEF IInv, Evidence, Conversation, TypeOK, Verify, Confirmed, remoteVars
<1>4. Progress'
  BY DEF IInv, Progress, Conversation, Quiet, TypeOK, Verify, Confirmed,
         Booting, taskVars, remoteVars, jobVars
<1>5. Owned'
  BY DEF IInv, Owned, Conversation, Progress, Quiet, Evidence, TypeOK, Live,
         Broken, Verify, Confirmed, Serving, Booting, taskVars, remoteVars,
         jobVars
<1>6. (Quiet /\ Budget)'
  BY DEF IInv, Quiet, Budget, Verify, Confirmed, Booting, taskVars, jobVars,
         bounds
<1>7. QED
  BY <1>1, <1>2, <1>3, <1>4, <1>5, <1>6 DEF IInv

\* The placeholder of a send that did not complete is retracted.
LEMMA HookKeeps ==
    ASSUME IInv, Hook
    PROVE  IInv'
<1>1. TypeOK'
  BY SendAssumption
     DEF IInv, Quiet, TypeOK, Ledger, Gone, Statuses, Live, Broken, Hook,
         InProcess, Retire, Booting, ledgerVars, taskVars, remoteVars, bounds
<1>2. Quiet'
  BY DEF IInv, Quiet, TypeOK, Gone, Hook, InProcess, Retire, Booting
<1>3. Evidence'
  BY DEF IInv, Evidence, Conversation, TypeOK, Gone, Hook, InProcess, Retire,
         ledgerVars, remoteVars
<1>4. Progress'
  BY DEF IInv, Progress, Conversation, Quiet, TypeOK, Gone, Hook, InProcess,
         Retire, Booting, ledgerVars, taskVars, remoteVars
<1>5. Owned'
  BY DEF IInv, Owned, Conversation, Progress, Quiet, Evidence, TypeOK, Gone,
         Live, Broken, Hook, InProcess, Retire, Booting, ledgerVars, taskVars,
         remoteVars
<1>6. (Budget /\ Conversation)'
  BY DEF IInv, Budget, Conversation, Hook, InProcess, Retire, Gone, Booting,
         ledgerVars, taskVars, remoteVars, bounds
<1>7. QED
  BY <1>1, <1>2, <1>3, <1>4, <1>5, <1>6 DEF IInv

\* A process that stops still owns its attempt.
LEMMA StopKeeps ==
    ASSUME IInv, Stop
    PROVE  IInv'
<1>1. TypeOK'
  BY SendAssumption
     DEF IInv, Quiet, TypeOK, Ledger, Statuses, Live, Broken, Stop, Booting,
         ledgerVars, taskVars, remoteVars, jobVars, bounds
<1>2. Quiet'
  BY DEF IInv, Quiet, TypeOK, Stop, Booting, jobVars
<1>3. Budget'
  BY SendAssumption
     DEF IInv, Budget, TypeOK, Stop, Booting, taskVars, bounds
<1>4. Owned'
  BY DEF IInv, Owned, Conversation, Progress, Quiet, Evidence, TypeOK, Live,
         Broken, Stop, Booting, ledgerVars, taskVars, remoteVars, jobVars
<1>5. (Conversation /\ Evidence /\ Progress)'
  BY DEF IInv, Conversation, Evidence, Progress, Stop, ledgerVars, taskVars,
         remoteVars, jobVars
<1>6. QED
  BY <1>1, <1>2, <1>3, <1>4, <1>5 DEF IInv

\* A crash forgets the attempt and leaves its claim and placeholder.
LEMMA ProcessEndsKeeps ==
    ASSUME IInv, ProcessEnds
    PROVE  IInv'
<1>1. TypeOK'
  BY SendAssumption
     DEF IInv, Quiet, Budget, TypeOK, Ledger, Statuses, Live, Broken,
         ProcessEnds, Booting, ledgerVars, taskVars, remoteVars
<1>2. Quiet'
  BY DEF IInv, Quiet, TypeOK, ProcessEnds, Booting
<1>3. Budget'
  BY SendAssumption
     DEF IInv, Budget, TypeOK, ProcessEnds, Booting, taskVars
<1>4. Progress'
  BY DEF IInv, Progress, Conversation, Quiet, TypeOK, ProcessEnds, Booting,
         ledgerVars, taskVars, remoteVars
<1>5. Owned'
  BY DEF IInv, Owned, Conversation, Progress, Quiet, Evidence, TypeOK, Live,
         Broken, ProcessEnds, Booting, ledgerVars, taskVars, remoteVars
<1>6. (Conversation /\ Evidence)'
  BY DEF IInv, Conversation, Evidence, ProcessEnds, ledgerVars, remoteVars
<1>7. QED
  BY <1>1, <1>2, <1>3, <1>4, <1>5, <1>6 DEF IInv

\* No process owns a claim any more, so every claim is uncertain.
LEMMA BootRecoverKeeps ==
    ASSUME IInv, BootRecover
    PROVE  IInv'
<1>1. TypeOK'
  BY SendAssumption
     DEF IInv, Quiet, TypeOK, Ledger, Gone, Statuses, Live, Broken,
         BootRecover, Booting, taskVars, remoteVars, jobVars, bounds
<1>2. Quiet'
  BY DEF IInv, Quiet, TypeOK, Gone, BootRecover, Booting, jobVars
<1>3. Budget'
  BY SendAssumption
     DEF IInv, Budget, TypeOK, Gone, BootRecover, Booting, taskVars, bounds
<1>4. Conversation'
  BY DEF IInv, Conversation, Evidence, TypeOK, Gone, BootRecover, remoteVars
<1>5. Evidence'
  BY DEF IInv, Evidence, Conversation, TypeOK, Gone, BootRecover, remoteVars
<1>6. Progress'
  BY DEF IInv, Progress, Conversation, Quiet, TypeOK, Gone, BootRecover,
         Booting, taskVars, remoteVars, jobVars
<1>7. Owned'
  BY DEF IInv, Owned, Conversation, Progress, Quiet, Evidence, TypeOK, Gone,
         Live, Broken, BootRecover, Booting, taskVars, remoteVars, jobVars
<1>8. QED
  BY <1>1, <1>2, <1>3, <1>4, <1>5, <1>6, <1>7 DEF IInv

\* Whatever hook did not run is made up for.
LEMMA BootReplayKeeps ==
    ASSUME IInv, BootReplay
    PROVE  IInv'
<1>1. TypeOK'
  BY SendAssumption
     DEF IInv, Quiet, TypeOK, Ledger, Gone, Statuses, Live, Broken,
         BootReplay, Retire, Booting, ledgerVars, taskVars, remoteVars,
         jobVars, bounds
<1>2. Quiet'
  BY DEF IInv, Quiet, TypeOK, Gone, BootReplay, Retire, Booting, jobVars
<1>3. Budget'
  BY SendAssumption
     DEF IInv, Budget, TypeOK, Gone, BootReplay, Retire, Booting, taskVars,
         bounds
<1>4. Evidence'
  BY DEF IInv, Evidence, Conversation, TypeOK, Gone, BootReplay, Retire,
         ledgerVars, remoteVars
<1>5. Owned'
  BY DEF IInv, Owned, Conversation, Progress, Quiet, Evidence, TypeOK, Gone,
         Live, Broken, BootReplay, Retire, Booting, ledgerVars, taskVars,
         remoteVars, jobVars
<1>6. (Conversation /\ Progress)'
  BY DEF IInv, Conversation, Progress, BootReplay, Retire, Gone, ledgerVars,
         taskVars, remoteVars, jobVars
<1>7. QED
  BY <1>1, <1>2, <1>3, <1>4, <1>5, <1>6 DEF IInv

\* After the replay a terminal task can be forgotten.
LEMMA BootResumeKeeps ==
    ASSUME IInv, BootResume
    PROVE  IInv'
<1>1. TypeOK'
  BY SendAssumption
     DEF IInv, Quiet, Budget, TypeOK, Ledger, Statuses, Live, Broken,
         BootResume, Booting, ledgerVars, remoteVars, jobVars, bounds
<1>2. Quiet'
  BY DEF IInv, Quiet, TypeOK, BootResume, Booting, jobVars
<1>3. Budget'
  BY SendAssumption
     DEF IInv, Budget, TypeOK, BootResume, Booting, bounds
<1>4. Progress'
  BY DEF IInv, Progress, Conversation, Quiet, TypeOK, BootResume, Booting,
         ledgerVars, remoteVars, jobVars
<1>5. Owned'
  BY DEF IInv, Owned, Conversation, Progress, Quiet, Evidence, TypeOK, Live,
         Broken, BootResume, Booting, ledgerVars, remoteVars, jobVars
<1>6. (Conversation /\ Evidence)'
  BY DEF IInv, Conversation, Evidence, BootResume, ledgerVars, remoteVars
<1>7. QED
  BY <1>1, <1>2, <1>3, <1>4, <1>5, <1>6 DEF IInv

-----------------------------------------------------------------------------
(* The invariant, and what follows from it.                                *)

\* At first nothing has been sent.
LEMMA Initially == Init => IInv
<1> SUFFICES ASSUME Init PROVE IInv
  OBVIOUS
<1>1. TypeOK
  BY SendAssumption DEF Init, TypeOK, Ledger, Gone, Statuses, Live, Broken
<1>2. Quiet /\ Conversation /\ Progress
  BY DEF Init, Quiet, Conversation, Progress, Booting
<1>3. Evidence /\ Owned
  <2>1. \A s \in Sends : ledger[s] = "none" /\ rows[s] = {} /\ s \notin stored
    BY DEF Init
  <2>2. QED
    BY <2>1 DEF Evidence, Owned
<1>4. Budget
  <2>1. \A s \in Sends : tries[s] = 0 /\ task[s] = "none"
    BY DEF Init
  <2>2. 0 <= MaxAttempts + ends
    BY SendAssumption DEF Init
  <2>3. QED
    BY <2>1, <2>2 DEF Budget
<1>5. QED
  BY <1>1, <1>2, <1>3, <1>4 DEF IInv

\* A step of the system, or none, keeps the invariant.
LEMMA StepKeeps == IInv /\ [Next]_vars => IInv'
<1> SUFFICES ASSUME IInv, [Next]_vars PROVE IInv'
  OBVIOUS
<1>1. ASSUME NEW s \in Sends, User(s) PROVE IInv'
  BY <1>1, AcceptKeeps, PrepareKeeps, SubmitKeeps, CancelKeeps DEF User
<1>2. ASSUME NEW s \in Sends, DueArrives(s) \/ Claim(s) PROVE IInv'
  BY <1>2, DueArrivesKeeps, ClaimKeeps
<1>3. ASSUME NEW s \in Sends, Attempt(s) PROVE IInv'
  BY <1>3, SlotTimesOutKeeps, JudgeGoneKeeps, JudgeSentKeeps, JudgeBusyKeeps,
     JudgeStaleKeeps, JudgeUnknownKeeps, AttachmentGoneKeeps,
     PrepareFailsKeeps, StartSmtpKeeps, SmtpAcceptedKeeps, SmtpRefusedKeeps,
     SmtpUncertainKeeps, DraftDoneKeeps, RunTimesOutKeeps
     DEF Attempt
<1>4. ASSUME NEW s \in Sends, Server(s) PROVE IInv'
  BY <1>4, ServerAcceptsKeeps, ServerRefusesKeeps, ServerStoresKeeps DEF Server
<1>5. ASSUME NEW s \in Sends, Sync(s) PROVE IInv'
  BY <1>5, SyncSentKeeps, ConfirmKeeps, VerifyKeeps DEF Sync
<1>6. CASE Hook \/ Stop \/ ProcessEnds
  BY <1>6, HookKeeps, StopKeeps, ProcessEndsKeeps
<1>7. CASE Boot
  BY <1>7, BootRecoverKeeps, BootReplayKeeps, BootResumeKeeps DEF Boot
<1>8. CASE UNCHANGED vars
  BY <1>8 DEF IInv, TypeOK, Quiet, Budget, Conversation, Evidence, Progress,
              Owned, vars, ledgerVars, taskVars, remoteVars, jobVars, bounds
<1>9. QED
  BY <1>1, <1>2, <1>3, <1>4, <1>5, <1>6, <1>7, <1>8 DEF Next

\* The invariant holds whatever fails or ends.
THEOREM Invariant == SafetySpec => []IInv
BY Initially, StepKeeps, PTL DEF SafetySpec

\* The ledger, the tasks, the rows and the attempt keep their types, and no task
\* gets more attempts than its budget and the restarts allow.
THEOREM TypeCorrect == SafetySpec => []TypeOK
<1>1. IInv => TypeOK
  BY DEF IInv
<1>2. QED
  BY <1>1, Invariant, PTL

\* No mail is delivered twice, for any number of sends, retries, restarts and
\* failed ledger writes.
THEOREM DeliveredOnce == SafetySpec => []AtMostOnce
<1>1. IInv => AtMostOnce
  <2> SUFFICES ASSUME IInv, NEW s \in Sends
          PROVE  delivered[s] <= 1
    BY DEF AtMostOnce
  <2>1. delivered[s] \in Nat
    BY DEF IInv, TypeOK
  <2>2. QED
    BY <2>1 DEF IInv, Conversation
<1>2. QED
  BY <1>1, Invariant, PTL

\* What the ledger says of a delivery is what happened: it never reports a mail
\* as sent that was not, nor one as failed that was or may still be.
THEOREM LedgerIsTrue == SafetySpec => []LedgerTruth
<1>1. IInv => LedgerTruth
  <2> SUFFICES ASSUME IInv, NEW s \in Sends
          PROVE  /\ ledger[s] \in {"submitted", "confirmed"} => delivered[s] > 0
                 /\ ledger[s] \in {"pending", "failed", "withdrawn"} =>
                       delivered[s] = 0 /\ wire[s] \notin {"open", "accepted"}
                 /\ ledger[s] = "confirmed" => s \in stored
    BY DEF LedgerTruth
  <2>1. delivered[s] \in Nat
    BY DEF IInv, TypeOK
  <2>2. ledger[s] = "confirmed" => s \in stored
    BY DEF IInv, Evidence
  <2>3. QED
    BY <2>1, <2>2 DEF IInv, Conversation
<1>2. QED
  BY <1>1, Invariant, PTL

\* A completed send task has sent its mail.
THEOREM CompletedMeansSent == SafetySpec => []CompletedIsSent
<1>1. IInv => CompletedIsSent
  BY DEF IInv, Progress, CompletedIsSent
<1>2. QED
  BY <1>1, Invariant, PTL

\* The Sent folder never shows a placeholder beside the provider's copy.
THEOREM OneRow == SafetySpec => []OneSentRow
<1>1. IInv => OneSentRow
  BY DEF IInv, Evidence, OneSentRow
<1>2. QED
  BY <1>1, Invariant, PTL

\* No placeholder is left behind by a send that ended otherwise, crashes
\* between the settlement and its hook included.
THEOREM PlaceholdersOwned == SafetySpec => []PlaceholderIsOwned
<1>1. IInv => PlaceholderIsOwned
  BY DEF IInv, Owned, Live, Broken, PlaceholderIsOwned
<1>2. QED
  BY <1>1, Invariant, PTL
=============================================================================
