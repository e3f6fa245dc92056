-------------------------- MODULE SnoozeTasks_proofs --------------------------
(***************************************************************************)
(* Proofs about SnoozeTasks: types, that a hidden message is promised its  *)
(* return, and that it is alerted once and not early, for all messages,    *)
(* instants, numbers of acceptances, attempts and mishaps.                 *)
(*                                                                         *)
(* What ties the histories to the rows is Owned: a message is snoozed by   *)
(* one acceptance, whose row still names its instant.  Rows are appended   *)
(* and change their status only (TaskStep), so that what is known of an    *)
(* acceptance stays known.                                                 *)
(***************************************************************************)
EXTENDS SnoozeTasks, SequenceTheorems, TLAPS

USE SnoozeAssumption DEF SnoozeAssumption

\* An attempt begins at its instant or later.
RunsWhenDue == \A k \in Running : task[k].until <= now

\* Only what was accepted has a fate, and an end other than by the user's
\* word is not early.
Fates ==
    \A k \in Ids :
        /\ fate[k] # "none" => k \in Accepted
        /\ fate[k] \in {"released", "silent"} => task[k].until <= now

\* A message is snoozed by one acceptance, and until its instant.
Owned ==
    \A m \in Messages :
        /\ snoozed[m] # Never <=> owner[m] # NoTask
        /\ owner[m] # NoTask =>
              /\ owner[m] \in Accepted
              /\ fate[owner[m]] = "hidden"
              /\ task[owner[m]].msg = m /\ task[owner[m]].until = snoozed[m]

\* What is released is alerted once, now or later, and nothing else is.
AlertsOwed ==
    \A k \in Ids :
        alerts[k] + (IF k \in alerting THEN 1 ELSE 0)
           <= (IF fate[k] = "released" THEN 1 ELSE 0)

IInv == TypeOK /\ RunsWhenDue /\ Fates /\ Owned /\ AlertsOwed

\* The rows after a step: none is lost, and none gets another message or
\* instant; and time does not go back.
TaskStep ==
    /\ task' \in Seq(Row) /\ Len(task') \in Len(task)..MaxTasks
    /\ \A k \in Accepted : /\ task'[k].msg = task[k].msg
                           /\ task'[k].until = task[k].until
    /\ now' \in now..MaxTime

-----------------------------------------------------------------------------
(* Rows.                                                                   *)

LEMMA InitInv == Init => IInv
<1>1. Init => TypeOK
  <2>1. SUFFICES ASSUME Init PROVE TypeOK
    OBVIOUS
  <2>2. task \in Seq(Row) /\ Len(task) = 0
    BY <2>1, EmptySeq DEF Init
  <2>3. up \in BOOLEAN /\ ran \in BOOLEAN
    BY <2>1 DEF Init
  <2>4. now \in 0..MaxTime /\ mishaps \in 0..MaxMishaps /\ Len(task) <= MaxTasks
    BY <2>1, <2>2 DEF Init
  <2>5. /\ snoozed \in [Messages -> Instants \cup {Never}]
        /\ owner \in [Messages -> Ids \cup {NoTask}]
        /\ alerting \subseteq Accepted
    BY <2>1 DEF Init
  <2>6. /\ fate \in [Ids -> {"none", "hidden", "replaced", "cancelled",
                            "released", "silent"}]
        /\ alerts \in [Ids -> Nat]
    BY <2>1 DEF Init
  <2>7. QED
    BY <2>2, <2>3, <2>4, <2>5, <2>6 DEF TypeOK
<1>2. Init => RunsWhenDue /\ Fates /\ Owned /\ AlertsOwed
  BY EmptySeq DEF Init, RunsWhenDue, Fates, Owned, AlertsOwed, Running,
     Accepted, Ids, Instants, Never, NoTask
<1>3. QED
  BY <1>1, <1>2 DEF IInv

\* The rows are numbered from 1, in the order of their acceptance.
LEMMA Rows ==
    ASSUME task \in Seq(Row)
    PROVE  /\ Len(task) \in Nat
           /\ DOMAIN task = Accepted
           /\ \A k \in Accepted : task[k] \in Row
BY LenProperties, ElementOfSeq DEF Accepted

LEMMA Ranges ==
    ASSUME TypeOK
    PROVE  now \in now..MaxTime /\ Len(task) \in Len(task)..MaxTasks
BY Rows DEF TypeOK

\* A row gets another status, and perhaps another number of attempts.
LEMMA StatusSet ==
    ASSUME task \in Seq(Row), NEW k \in Accepted, NEW r \in Row,
           r.msg = task[k].msg, r.until = task[k].until,
           task' = [task EXCEPT ![k] = r]
    PROVE  /\ task' \in Seq(Row) /\ Len(task') = Len(task)
           /\ task'[k] = r
           /\ \A j \in Accepted : j # k => task'[j] = task[j]
           /\ \A j \in Accepted : /\ task'[j].msg = task[j].msg
                                  /\ task'[j].until = task[j].until
BY ExceptSeq DEF Accepted

\* A function over the numbers of the rows is a sequence of as many.
LEMMA Rewritten ==
    ASSUME task \in Seq(Row), NEW t \in [Accepted -> Row]
    PROVE  t \in Seq(Row) /\ Len(t) = Len(task)
<1>1. Len(task) \in Nat
  BY LenProperties
<1>2. t \in Seq(Row)
  BY <1>1, SeqDef DEF Accepted
<1>3. DOMAIN t = 1..Len(t) /\ Len(t) \in Nat
  BY <1>2, LenProperties
<1>4. 1..Len(t) = 1..Len(task)
  BY <1>3 DEF Accepted
<1>5. QED
  BY <1>1, <1>2, <1>3, <1>4

\* A withdrawal takes the message's pending rows, and them only.
LEMMA WithdrawnRows ==
    ASSUME task \in Seq(Row), NEW m \in Messages
    PROVE  /\ Withdrawn(m) \in Seq(Row) /\ Len(Withdrawn(m)) = Len(task)
           /\ \A k \in Accepted :
                 /\ Withdrawn(m)[k].msg = task[k].msg
                 /\ Withdrawn(m)[k].until = task[k].until
                 /\ Withdrawn(m)[k].status = "running" => task[k].status = "running"
                 /\ task[k].msg # m => Withdrawn(m)[k] = task[k]
<1>1. Withdrawn(m) \in [Accepted -> Row]
  BY Rows DEF Withdrawn, Row
<1>2. Withdrawn(m) \in Seq(Row) /\ Len(Withdrawn(m)) = Len(task)
  BY <1>1, Rewritten
<1>3. ASSUME NEW k \in Accepted
      PROVE  /\ Withdrawn(m)[k].msg = task[k].msg
             /\ Withdrawn(m)[k].until = task[k].until
             /\ Withdrawn(m)[k].status = "running" => task[k].status = "running"
             /\ task[k].msg # m => Withdrawn(m)[k] = task[k]
  BY Rows DEF Withdrawn, Superseded, Waiting, Row
<1>4. QED
  BY <1>2, <1>3

\* An acceptance withdraws the message's pending rows and adds its own.
LEMMA AcceptRows ==
    ASSUME TypeOK, NEW m \in Messages, NEW u \in Instants, Accept(m, u)
    PROVE  /\ TaskStep
           /\ Len(task') = Len(task) + 1
           /\ task'[Len(task')] =
                 [msg |-> m, until |-> u, attempts |-> 0, status |-> "pending"]
           /\ \A k \in Accepted : task'[k] = Withdrawn(m)[k]
<1> DEFINE r == [msg |-> m, until |-> u, attempts |-> 0, status |-> "pending"]
           w == Withdrawn(m)
<1>1. r \in Row
  BY DEF Row
<1>2. w \in Seq(Row) /\ Len(w) = Len(task) /\ Len(task) \in Nat
  BY WithdrawnRows, Rows DEF TypeOK
<1>3. task' = Append(w, r)
  BY DEF Accept
<1>4. task' \in Seq(Row) /\ Len(task') = Len(task) + 1
  BY <1>1, <1>2, <1>3, AppendProperties
<1>5. task'[Len(task')] = r
  BY <1>1, <1>2, <1>3, <1>4, AppendProperties
<1>6. \A k \in Accepted : task'[k] = w[k]
  BY <1>1, <1>2, <1>3, AppendProperties DEF Accepted
<1>7. Len(task') \in Len(task)..MaxTasks
  BY <1>2, <1>4 DEF Accept, Ids
<1>8. TaskStep
  <2>1. \A k \in Accepted : task'[k].msg = task[k].msg /\ task'[k].until = task[k].until
    BY <1>6, WithdrawnRows DEF TypeOK
  <2>2. UNCHANGED now
    BY DEF Accept
  <2>3. QED
    BY <1>4, <1>7, <2>1, <2>2, Ranges DEF TaskStep
<1>9. QED
  BY <1>4, <1>5, <1>6, <1>8

\* The running row k, if any, gets the status st; a claim counts an attempt.
LEMMA SetRows ==
    ASSUME TypeOK, UNCHANGED now, NEW k \in Accepted,
           NEW r \in Row, r.msg = task[k].msg, r.until = task[k].until,
           task' = [task EXCEPT ![k] = r]
    PROVE  /\ TaskStep
           /\ Len(task') = Len(task)
           /\ task'[k] = r
           /\ \A j \in Accepted : j # k => task'[j] = task[j]
<1>1. task \in Seq(Row)
  BY DEF TypeOK
<1>2. /\ task' \in Seq(Row) /\ Len(task') = Len(task) /\ task'[k] = r
      /\ \A j \in Accepted : j # k => task'[j] = task[j]
      /\ \A j \in Accepted : /\ task'[j].msg = task[j].msg
                             /\ task'[j].until = task[j].until
  BY <1>1, StatusSet
<1>3. QED
  BY <1>2, Ranges DEF TaskStep

LEMMA SetTaskRows ==
    ASSUME TypeOK, UNCHANGED now, NEW k \in Accepted,
           NEW st \in {"pending", "completed", "failed"}, SetTask(k, st)
    PROVE  /\ TaskStep
           /\ Len(task') = Len(task)
           /\ task'[k].status = st
           /\ \A j \in Accepted : j # k => task'[j] = task[j]
<1> DEFINE r == [task[k] EXCEPT !.status = st]
<1>1. task[k] \in Row
  BY Rows DEF TypeOK
<1>2. r \in Row /\ r.msg = task[k].msg /\ r.until = task[k].until /\ r.status = st
  BY <1>1 DEF Row, Terminal
<1>3. task' = [task EXCEPT ![k] = r]
  BY DEF SetTask
<1>4. QED
  BY <1>2, <1>3, SetRows

LEMMA ClaimRows ==
    ASSUME TypeOK, NEW k \in Accepted, Claim(k)
    PROVE  /\ TaskStep
           /\ Len(task') = Len(task)
           /\ \A j \in Accepted : j # k => task'[j] = task[j]
<1> DEFINE r == [task[k] EXCEPT !.status = "running", !.attempts = @ + 1]
<1>1. task[k] \in Row
  BY Rows DEF TypeOK
<1>2. r \in Row /\ r.msg = task[k].msg /\ r.until = task[k].until
  <2>1. PICK ms \in Messages, un \in Instants, at \in Nat,
             st \in {"pending", "running", "withdrawn"} \cup Terminal :
           task[k] = [msg |-> ms, until |-> un, attempts |-> at, status |-> st]
    BY <1>1 DEF Row
  <2> DEFINE p == [task[k] EXCEPT !.status = "running"]
  <2>2. p = [msg |-> ms, until |-> un, attempts |-> at, status |-> "running"]
    BY <2>1
  <2>3. r = [p EXCEPT !.attempts = @ + 1]
    BY <2>1
  <2> HIDE DEF p
  <2>4. [p EXCEPT !.attempts = @ + 1] =
           [msg |-> ms, until |-> un, attempts |-> at + 1, status |-> "running"]
    BY <2>2
  <2>5. QED
    BY <2>1, <2>3, <2>4 DEF Row
<1>3. task' = [task EXCEPT ![k] = r] /\ UNCHANGED now
  BY DEF Claim
<1>4. QED
  BY <1>2, <1>3, SetRows

\* A boot makes the running rows pending.
LEMMA BootRows ==
    ASSUME TypeOK, Boot
    PROVE  /\ TaskStep
           /\ Len(task') = Len(task)
           /\ \A k \in Accepted :
                 /\ task'[k].status # "running"
                 /\ task[k].status = "pending" => task'[k] = task[k]
<1>1. /\ UNCHANGED now
      /\ task' = [k \in Accepted |-> IF k \in Running
                                     THEN [task[k] EXCEPT !.status = "pending"]
                                     ELSE task[k]]
  BY DEF Boot
<1>2. task' \in [Accepted -> Row]
  BY <1>1, Rows DEF TypeOK, Row
<1>3. task' \in Seq(Row) /\ Len(task') = Len(task) /\ Len(task) \in Nat
  BY <1>2, Rewritten, Rows DEF TypeOK
<1>4. \A k \in Accepted :
         /\ task'[k].msg = task[k].msg /\ task'[k].until = task[k].until
         /\ task'[k].status # "running"
         /\ task[k].status = "pending" => task'[k] = task[k]
  BY <1>1, Rows DEF TypeOK, Running, Row
<1>5. QED
  BY <1>1, <1>3, <1>4, Ranges DEF TaskStep

\* No step but these touches a row.
LEMMA SameRows ==
    ASSUME TypeOK, UNCHANGED task, now' \in now..MaxTime
    PROVE  TaskStep
BY Rows DEF TypeOK, TaskStep

\* Each step's effect on the rows.
LEMMA TasksKept == TypeOK /\ [Next]_vars => TaskStep
<1> SUFFICES ASSUME TypeOK, [Next]_vars PROVE TaskStep
  OBVIOUS
<1>1. ASSUME NEW m \in Messages, NEW u \in Instants, Accept(m, u) PROVE TaskStep
  BY <1>1, AcceptRows
<1>2. ASSUME NEW m \in Messages, Cancel(m) PROVE TaskStep
  <2>1. task' = Withdrawn(m) /\ now' = now /\ Len(task) \in Nat
    BY <1>2, Rows DEF Cancel, TypeOK
  <2>2. QED
    BY <2>1, WithdrawnRows DEF TypeOK, TaskStep
<1>3. ASSUME NEW k \in Accepted, SlotTimesOut(k) PROVE TaskStep
  BY <1>3, SetTaskRows DEF SlotTimesOut
<1>4. ASSUME NEW k \in Accepted, Claim(k) PROVE TaskStep
  BY <1>4, ClaimRows
<1>5. ASSUME NEW k \in Accepted, Run(k) PROVE TaskStep
  BY <1>5, SameRows DEF Run, TypeOK
<1>6. ASSUME NEW k \in Accepted, Completes(k) PROVE TaskStep
  BY <1>6, SetTaskRows DEF Completes
<1>7. ASSUME NEW k \in Accepted, AttemptFails(k) PROVE TaskStep
  BY <1>7, SetTaskRows DEF AttemptFails
<1>8. CASE Pass
  BY <1>8, SameRows DEF Pass, TypeOK
<1>9. ASSUME NEW k \in alerting, Alert(k) PROVE TaskStep
  BY <1>9, SameRows DEF Alert, TypeOK, dbVars
<1>10. CASE Crash
  BY <1>10, SameRows DEF Crash, TypeOK, dbVars
<1>11. CASE Boot
  BY <1>11, BootRows
<1>12. CASE Tick
  BY <1>12, SameRows DEF Tick, TypeOK, dbVars
<1>13. CASE UNCHANGED vars
  BY <1>13, SameRows DEF vars, TypeOK, dbVars
<1>14. QED
  BY <1>1, <1>2, <1>3, <1>4, <1>5, <1>6, <1>7, <1>8, <1>9, <1>10, <1>11, <1>12,
     <1>13 DEF Next, Chain, Alerts

-----------------------------------------------------------------------------
(* Attempts begin at their instant.                                        *)

\* A row that was running still is due; a row that was not is not started.
LEMMA NoneStarted ==
    ASSUME TypeOK, TaskStep, RunsWhenDue,
           \A k \in Accepted' : task'[k].status = "running"
                                   => k \in Accepted /\ task[k].status = "running"
    PROVE  RunsWhenDue'
<1>1. now \in Nat /\ now' \in Nat /\ now <= now'
  BY DEF TypeOK, TaskStep
<1>2. \A k \in Accepted : task[k].until \in Nat
  BY Rows DEF TypeOK, Row, Instants
<1>3. QED
  BY <1>1, <1>2 DEF TaskStep, RunsWhenDue, Running

LEMMA RunsWhenDueKept == TypeOK /\ RunsWhenDue /\ [Next]_vars => RunsWhenDue'
<1> SUFFICES ASSUME TypeOK, RunsWhenDue, [Next]_vars PROVE RunsWhenDue'
  OBVIOUS
<1>1. TaskStep /\ Len(task) \in Nat
  BY TasksKept, Rows DEF TypeOK
<1>2. ASSUME NEW m \in Messages, NEW u \in Instants, Accept(m, u)
      PROVE  RunsWhenDue'
  <2>1. /\ Len(task') = Len(task) + 1
        /\ task'[Len(task')] =
              [msg |-> m, until |-> u, attempts |-> 0, status |-> "pending"]
        /\ \A k \in Accepted : task'[k] = Withdrawn(m)[k]
    BY <1>2, AcceptRows
  <2>2. \A k \in Accepted' : k \in Accepted \/ k = Len(task')
    BY <1>1, <2>1 DEF Accepted
  <2>3. task'[Len(task')].status = "pending"
    BY <2>1
  <2>4. \A k \in Accepted : task'[k].status = "running" => task[k].status = "running"
    BY <2>1, WithdrawnRows DEF TypeOK
  <2>5. QED
    BY <1>1, <2>2, <2>3, <2>4, NoneStarted
<1>3. ASSUME NEW m \in Messages, Cancel(m) PROVE RunsWhenDue'
  <2>1. task' = Withdrawn(m) /\ Len(task') = Len(task)
    BY <1>3, WithdrawnRows DEF Cancel, TypeOK
  <2>2. QED
    BY <1>1, <2>1, WithdrawnRows, NoneStarted DEF TypeOK, Accepted
<1>4. ASSUME NEW k \in Accepted, SlotTimesOut(k) PROVE RunsWhenDue'
  <2>1. SetTask(k, "failed") /\ UNCHANGED now
    BY <1>4 DEF SlotTimesOut
  <2>2. QED
    BY <1>1, <2>1, SetTaskRows, NoneStarted DEF Accepted
<1>5. ASSUME NEW k \in Accepted, Claim(k) PROVE RunsWhenDue'
  <2>1. /\ Accepted' = Accepted /\ UNCHANGED now
        /\ \A j \in Accepted : j # k => task'[j] = task[j]
    BY <1>5, ClaimRows DEF Accepted, Claim
  <2>2. task[k].until <= now /\ task'[k].until = task[k].until
    BY <1>1, <1>5 DEF Claim, TaskStep
  <2>3. QED
    BY <2>1, <2>2 DEF RunsWhenDue, Running
<1>6. ASSUME NEW k \in Accepted, Completes(k) PROVE RunsWhenDue'
  <2>1. SetTask(k, "completed") /\ UNCHANGED now
    BY <1>6 DEF Completes
  <2>2. QED
    BY <1>1, <2>1, SetTaskRows, NoneStarted DEF Accepted
<1>7. ASSUME NEW k \in Accepted, AttemptFails(k) PROVE RunsWhenDue'
  <2>1. PICK st \in {"pending", "failed"} : SetTask(k, st) /\ UNCHANGED now
    BY <1>7 DEF AttemptFails
  <2>2. QED
    BY <1>1, <2>1, SetTaskRows, NoneStarted DEF Accepted
<1>8. CASE Boot
  BY <1>1, <1>8, BootRows, NoneStarted DEF Accepted
<1>9. CASE UNCHANGED task
  BY <1>1, <1>9, NoneStarted DEF Accepted
<1>10. QED
  BY <1>2, <1>3, <1>4, <1>5, <1>6, <1>7, <1>8, <1>9
     DEF Next, Chain, Alerts, Run, Pass, Alert, Crash, Tick, vars, dbVars

-----------------------------------------------------------------------------
(* The histories.                                                          *)

Histories == Fates /\ Owned /\ AlertsOwed

\* The types of what the histories and the column hold.
Held ==
    /\ snoozed \in [Messages -> Instants \cup {Never}]
    /\ owner \in [Messages -> Ids \cup {NoTask}]
    /\ fate \in [Ids -> {"none", "hidden", "replaced", "cancelled", "released", "silent"}]
    /\ alerts \in [Ids -> Nat]
    /\ alerting \subseteq Accepted

\* What a step leaves of an acceptance: its number, its message, its instant.
LEMMA StillKnown ==
    ASSUME TypeOK, TaskStep
    PROVE  /\ Accepted \subseteq Accepted' /\ Accepted' \subseteq Ids
           /\ \A k \in Accepted :
                 /\ task'[k].msg = task[k].msg /\ task'[k].until = task[k].until
                 /\ task[k].until \in Instants
                 /\ task[k].until <= now => task'[k].until <= now'
<1>1. Len(task) \in Nat /\ Len(task') \in Nat /\ Len(task) <= Len(task') /\ Len(task') <= MaxTasks
  BY Rows DEF TypeOK, TaskStep
<1>2. now \in Nat /\ now' \in Nat /\ now <= now'
  BY DEF TypeOK, TaskStep
<1>3. \A k \in Accepted : task[k].until \in Instants /\ task[k].until \in Nat
  BY Rows DEF TypeOK, Row, Instants
<1>4. QED
  BY <1>1, <1>2, <1>3 DEF TaskStep, Accepted, Ids

\* A step that touches neither the column nor the histories.
LEMMA NothingEnds ==
    ASSUME IInv, TaskStep, UNCHANGED <<snoozed, alerting, histVars>>
    PROVE  Held' /\ Histories'
<1>1. Held'
  BY StillKnown DEF IInv, TypeOK, Held, histVars
<1>2. Fates' /\ AlertsOwed'
  BY StillKnown DEF IInv, Fates, AlertsOwed, histVars
<1>3. Owned'
  BY StillKnown DEF IInv, Owned, histVars
<1>4. QED
  BY <1>1, <1>2, <1>3 DEF Histories

\* The snoozes of the messages in M end.
LEMMA EndsKeeps ==
    ASSUME IInv, TaskStep, NEW M \in SUBSET Messages,
           NEW how \in {"cancelled", "released", "silent"}, Ends(M, how),
           how # "cancelled" => \A m \in M : owner[m] # NoTask /\ snoozed[m] <= now
    PROVE  /\ snoozed' \in [Messages -> Instants \cup {Never}]
           /\ owner' \in [Messages -> Ids \cup {NoTask}]
           /\ fate' \in [Ids -> {"none", "hidden", "replaced", "cancelled",
                                 "released", "silent"}]
           /\ Fates' /\ Owned'
           /\ \A k \in Ids : fate'[k] = fate[k] \/ fate[k] = "hidden"
<1>1. /\ snoozed' \in [Messages -> Instants \cup {Never}]
      /\ owner' \in [Messages -> Ids \cup {NoTask}]
      /\ fate' \in [Ids -> {"none", "hidden", "replaced", "cancelled",
                            "released", "silent"}]
  BY DEF IInv, TypeOK, Ends
<1>2. \A k \in Ids : fate'[k] = IF \E m \in M : owner[m] = k THEN how ELSE fate[k]
  BY DEF Ends
<1>3. \A m \in M : owner[m] # NoTask =>
         /\ owner[m] \in Accepted /\ fate[owner[m]] = "hidden"
         /\ task[owner[m]].until = snoozed[m]
  BY DEF IInv, Owned
<1>4. \A k \in Ids : k # NoTask
  BY DEF Ids, NoTask
<1>5. Fates'
  <2>1. ASSUME NEW k \in Ids PROVE fate'[k] # "none" => k \in Accepted'
    BY <1>2, <1>3, <1>4, StillKnown DEF IInv, Fates
  <2>2. ASSUME NEW k \in Ids, fate'[k] \in {"released", "silent"}
        PROVE  task'[k].until <= now'
    <3>1. CASE \E m \in M : owner[m] = k
      <4>1. PICK m \in M : owner[m] = k
        BY <3>1
      <4>2. k \in Accepted /\ task[k].until = snoozed[m]
        BY <1>3, <1>4, <4>1
      <4>3. how # "cancelled"
        BY <1>2, <2>2, <3>1
      <4>4. QED
        BY <4>1, <4>2, <4>3, StillKnown DEF IInv
    <3>2. CASE ~ \E m \in M : owner[m] = k
      BY <1>2, <2>2, <3>2, StillKnown DEF IInv, Fates
    <3>3. QED
      BY <3>1, <3>2
  <2>3. QED
    BY <2>1, <2>2 DEF Fates
<1>6. Owned'
  <2>1. ASSUME NEW m \in Messages, owner'[m] # NoTask
        PROVE  /\ m \notin M /\ owner'[m] = owner[m] /\ snoozed'[m] = snoozed[m]
               /\ fate'[owner[m]] = fate[owner[m]]
    <3>1. m \notin M /\ owner'[m] = owner[m] /\ snoozed'[m] = snoozed[m]
      BY <2>1 DEF Ends
    <3>2. owner[m] \in Ids /\ owner[m] \in Accepted /\ task[owner[m]].msg = m
      BY <2>1, <3>1, StillKnown DEF IInv, Owned
    <3>3. \A n \in M : owner[n] # owner[m]
      BY <3>1, <3>2, <1>4 DEF IInv, Owned
    <3>4. QED
      BY <1>2, <3>1, <3>2, <3>3
  <2>2. ASSUME NEW m \in Messages PROVE snoozed'[m] # Never <=> owner'[m] # NoTask
    BY DEF IInv, Owned, Ends
  <2>3. QED
    BY <2>1, <2>2, StillKnown DEF IInv, Owned
<1>7. \A k \in Ids : fate'[k] = fate[k] \/ fate[k] = "hidden"
  BY <1>2, <1>3, <1>4
<1>8. QED
  BY <1>1, <1>5, <1>6, <1>7

\* A release leaves its alert to make; any other end leaves none.
LEMMA EndsOwesAlerts ==
    ASSUME IInv, TaskStep, NEW M \in SUBSET Messages,
           \A m \in M : owner[m] # NoTask /\ snoozed[m] <= now,
           Released(M), UNCHANGED alerts
    PROVE  Held' /\ Histories'
<1>1. Ends(M, "released") /\ alerting' = alerting \cup {owner[m] : m \in M}
  BY DEF Released
<1>2. Fates' /\ Owned'
  BY <1>1, EndsKeeps
<1>3. \A m \in M : owner[m] \in Accepted /\ fate[owner[m]] = "hidden"
  BY DEF IInv, Owned
<1>4. Held'
  BY <1>1, <1>3, EndsKeeps, StillKnown DEF IInv, TypeOK, Held
<1>5. ASSUME NEW k \in Ids
      PROVE  alerts'[k] + (IF k \in alerting' THEN 1 ELSE 0)
                <= (IF fate'[k] = "released" THEN 1 ELSE 0)
  <2>1. /\ alerts[k] \in Nat /\ alerts'[k] = alerts[k]
        /\ alerts[k] + (IF k \in alerting THEN 1 ELSE 0)
              <= (IF fate[k] = "released" THEN 1 ELSE 0)
    BY DEF IInv, TypeOK, AlertsOwed
  <2>2. fate'[k] = IF \E m \in M : owner[m] = k THEN "released" ELSE fate[k]
    BY <1>1 DEF Ends
  <2>3. CASE \E m \in M : owner[m] = k
    <3>1. fate[k] = "hidden" /\ fate'[k] = "released"
      BY <1>3, <2>2, <2>3
    <3>2. alerts[k] = 0
      BY <2>1, <3>1
    <3>3. QED
      BY <2>1, <3>1, <3>2
  <2>4. CASE ~ \E m \in M : owner[m] = k
    <3>1. fate'[k] = fate[k] /\ (k \in alerting' <=> k \in alerting)
      BY <1>1, <2>2, <2>4
    <3>2. QED
      BY <2>1, <3>1
  <2>5. QED
    BY <2>3, <2>4
<1>6. QED
  BY <1>2, <1>4, <1>5 DEF Histories, AlertsOwed

LEMMA EndsInSilence ==
    ASSUME IInv, TaskStep, NEW M \in SUBSET Messages,
           NEW how \in {"cancelled", "silent"}, Ends(M, how),
           how # "cancelled" => \A m \in M : owner[m] # NoTask /\ snoozed[m] <= now,
           UNCHANGED <<alerting, alerts>>
    PROVE  Held' /\ Histories'
<1>1. Fates' /\ Owned' /\ \A k \in Ids : fate'[k] = fate[k] \/ fate[k] = "hidden"
  BY EndsKeeps
<1>2. Held'
  BY EndsKeeps, StillKnown DEF IInv, TypeOK, Held
<1>3. AlertsOwed'
  <2>1. ASSUME NEW k \in Ids
        PROVE  alerts[k] + (IF k \in alerting THEN 1 ELSE 0)
                  <= (IF fate'[k] = "released" THEN 1 ELSE 0)
    <3>1. /\ alerts[k] \in Nat
          /\ alerts[k] + (IF k \in alerting THEN 1 ELSE 0)
                <= (IF fate[k] = "released" THEN 1 ELSE 0)
      BY DEF IInv, TypeOK, AlertsOwed
    <3>2. CASE fate'[k] = fate[k]
      BY <3>1, <3>2
    <3>3. CASE fate[k] = "hidden"
      BY <3>1, <3>3
    <3>4. QED
      BY <1>1, <3>2, <3>3
  <2>2. QED
    BY <2>1 DEF AlertsOwed
<1>4. QED
  BY <1>1, <1>2, <1>3 DEF Histories

\* A new acceptance hides the message and ends the one before it.
LEMMA AcceptHides ==
    ASSUME IInv, NEW m \in Messages, NEW u \in Instants, Accept(m, u)
    PROVE  Held' /\ Histories'
<1> DEFINE k == Len(task) + 1
<1>1. /\ TaskStep /\ Len(task') = k
      /\ task'[k] = [msg |-> m, until |-> u, attempts |-> 0, status |-> "pending"]
  BY AcceptRows DEF IInv
<1>2. task'[k].msg = m /\ task'[k].until = u
  BY <1>1
<1>3. Len(task) \in Nat /\ k \in Ids /\ k \notin Accepted /\ k \in Accepted'
      /\ Accepted \subseteq Accepted'
  BY <1>1, Rows, StillKnown DEF IInv, TypeOK, Accept, Accepted
<1>4. /\ snoozed' = [snoozed EXCEPT ![m] = u] /\ owner' = [owner EXCEPT ![m] = k]
      /\ fate' = [j \in Ids |-> IF j = k THEN "hidden"
                                ELSE IF j = owner[m] THEN "replaced" ELSE fate[j]]
      /\ UNCHANGED <<alerting, alerts, now>>
  BY DEF Accept
<1>5. fate[k] = "none" /\ k # NoTask /\ u # Never
  BY <1>3 DEF IInv, Fates, NoTask, Never, Instants
<1> HIDE DEF k
<1>6. Held'
  BY <1>3, <1>4 DEF IInv, TypeOK, Held
<1>7. Fates'
  <2>1. ASSUME NEW j \in Ids PROVE fate'[j] # "none" => j \in Accepted'
    BY <1>3, <1>4 DEF IInv, Fates, Owned, Ids, NoTask
  <2>2. ASSUME NEW j \in Ids, fate'[j] \in {"released", "silent"}
        PROVE  task'[j].until <= now'
    <3>1. fate'[j] = fate[j]
      BY <1>4, <2>2
    <3>2. j \in Accepted /\ task[j].until <= now
      BY <2>2, <3>1 DEF IInv, Fates
    <3>3. QED
      BY <1>1, <3>2, StillKnown DEF IInv
  <2>3. QED
    BY <2>1, <2>2 DEF Fates
<1>8. Owned'
  <2>1. ASSUME NEW n \in Messages, n # m, owner[n] # NoTask
        PROVE  fate'[owner[n]] = "hidden"
    <3>1. /\ owner[n] \in Accepted /\ fate[owner[n]] = "hidden"
          /\ task[owner[n]].msg = n
      BY <2>1 DEF IInv, Owned
    <3>2. owner[n] # k /\ owner[n] # owner[m] /\ owner[n] \in Ids
      BY <1>3, <2>1, <3>1 DEF IInv, Owned, TypeOK
    <3>3. QED
      BY <1>4, <3>1, <3>2
  <2>2. ASSUME NEW n \in Messages, n # m
        PROVE  owner'[n] = owner[n] /\ snoozed'[n] = snoozed[n]
    BY <1>4, <2>2 DEF IInv, TypeOK
  <2>3. owner'[m] = k /\ snoozed'[m] = u /\ fate'[k] = "hidden"
    BY <1>3, <1>4 DEF IInv, TypeOK
  <2>4. ASSUME NEW n \in Messages, n # m
        PROVE  /\ snoozed'[n] # Never <=> owner'[n] # NoTask
               /\ owner'[n] # NoTask =>
                     /\ owner'[n] \in Accepted' /\ fate'[owner'[n]] = "hidden"
                     /\ task'[owner'[n]].msg = n
                     /\ task'[owner'[n]].until = snoozed'[n]
    BY <1>1, <2>1, <2>2, <2>4, StillKnown DEF IInv, Owned
  <2>5. /\ snoozed'[m] # Never <=> owner'[m] # NoTask
        /\ owner'[m] \in Accepted' /\ fate'[owner'[m]] = "hidden"
        /\ task'[owner'[m]].msg = m /\ task'[owner'[m]].until = snoozed'[m]
    BY <1>2, <1>3, <1>5, <2>3
  <2>6. QED
    BY <2>4, <2>5 DEF Owned
<1>9. AlertsOwed'
  <2>1. ASSUME NEW j \in Ids
        PROVE  alerts[j] + (IF j \in alerting THEN 1 ELSE 0)
                  <= (IF fate'[j] = "released" THEN 1 ELSE 0)
    <3>1. /\ alerts[j] \in Nat
          /\ alerts[j] + (IF j \in alerting THEN 1 ELSE 0)
                <= (IF fate[j] = "released" THEN 1 ELSE 0)
      BY DEF IInv, TypeOK, AlertsOwed
    <3>2. CASE fate'[j] = fate[j]
      BY <3>1, <3>2
    <3>3. CASE j = k \/ j = owner[m]
      <4>1. fate[j] # "released"
        BY <1>5, <3>3 DEF IInv, Owned, Ids, NoTask
      <4>2. QED
        BY <3>1, <4>1
    <3>4. QED
      BY <1>4, <3>2, <3>3
  <2>2. QED
    BY <1>4, <2>1 DEF AlertsOwed
<1>10. QED
  BY <1>6, <1>7, <1>8, <1>9 DEF Histories

\* An alert that was to make is made.
LEMMA AlertMade ==
    ASSUME IInv, NEW k \in alerting, Alert(k)
    PROVE  Held' /\ Histories'
<1>1. /\ alerting' = alerting \ {k} /\ alerts' = [alerts EXCEPT ![k] = @ + 1]
      /\ UNCHANGED <<now, snoozed, task, owner, fate>>
  BY DEF Alert, dbVars
<1>2. Accepted' = Accepted
  BY <1>1 DEF Accepted
<1>3. k \in Ids
  BY Rows DEF IInv, TypeOK, Accepted, Ids
<1>4. alerts' \in [Ids -> Nat]
  BY <1>1, <1>3 DEF IInv, TypeOK
<1>5. Held'
  BY <1>1, <1>2, <1>4 DEF IInv, TypeOK, Held
<1>6. Fates' /\ Owned'
  BY <1>1, <1>2 DEF IInv, Fates, Owned
<1>7. AlertsOwed'
  <2>1. ASSUME NEW j \in Ids
        PROVE  alerts'[j] + (IF j \in alerting' THEN 1 ELSE 0)
                  <= (IF fate'[j] = "released" THEN 1 ELSE 0)
    <3>1. /\ alerts[j] \in Nat
          /\ alerts[j] + (IF j \in alerting THEN 1 ELSE 0)
                <= (IF fate[j] = "released" THEN 1 ELSE 0)
      BY DEF IInv, TypeOK, AlertsOwed
    <3>2. CASE j = k
      <4>1. alerts'[j] = alerts[j] + 1 /\ j \notin alerting' /\ j \in alerting
        BY <1>1, <1>3, <3>2 DEF IInv, TypeOK
      <4>2. QED
        BY <1>1, <3>1, <4>1
    <3>3. CASE j # k
      <4>1. alerts'[j] = alerts[j] /\ (j \in alerting' <=> j \in alerting)
        BY <1>1, <3>3 DEF IInv, TypeOK
      <4>2. QED
        BY <1>1, <3>1, <4>1
    <3>4. QED
      BY <3>2, <3>3
  <2>2. QED
    BY <2>1 DEF AlertsOwed
<1>8. QED
  BY <1>5, <1>6, <1>7 DEF Histories

\* The alerts a process had still to make end in silence with it.
LEMMA AlertsLost ==
    ASSUME IInv, Crash
    PROVE  Held' /\ Histories'
<1>1. /\ alerting' = {}
      /\ fate' = [k \in Ids |-> IF k \in alerting THEN "silent" ELSE fate[k]]
      /\ UNCHANGED <<now, snoozed, task, owner, alerts>>
  BY DEF Crash, dbVars
<1>2. Accepted' = Accepted
  BY <1>1 DEF Accepted
<1>3. \A k \in Ids : k \in alerting => fate[k] = "released" /\ alerts[k] = 0
  BY DEF IInv, AlertsOwed, TypeOK
<1>4. Held'
  BY <1>1, <1>2 DEF IInv, TypeOK, Held
<1>5. Fates'
  BY <1>1, <1>2, <1>3 DEF IInv, Fates
<1>6. Owned'
  <2>1. ASSUME NEW m \in Messages, owner[m] # NoTask
        PROVE  fate'[owner[m]] = fate[owner[m]]
    <3>1. owner[m] \in Ids /\ fate[owner[m]] = "hidden"
      BY <2>1 DEF IInv, TypeOK, Owned
    <3>2. QED
      BY <1>1, <1>3, <3>1
  <2>2. QED
    BY <1>1, <1>2, <2>1 DEF IInv, Owned
<1>7. AlertsOwed'
  <2>1. ASSUME NEW k \in Ids
        PROVE  alerts'[k] + (IF k \in alerting' THEN 1 ELSE 0)
                  <= (IF fate'[k] = "released" THEN 1 ELSE 0)
    <3>1. /\ alerts[k] \in Nat /\ alerts'[k] = alerts[k] /\ k \notin alerting'
          /\ alerts[k] + (IF k \in alerting THEN 1 ELSE 0)
                <= (IF fate[k] = "released" THEN 1 ELSE 0)
      BY <1>1 DEF IInv, TypeOK, AlertsOwed
    <3>2. CASE k \in alerting
      BY <1>3, <3>1, <3>2
    <3>3. CASE k \notin alerting
      BY <1>1, <3>1, <3>3
    <3>4. QED
      BY <3>2, <3>3
  <2>2. QED
    BY <2>1 DEF AlertsOwed
<1>8. QED
  BY <1>4, <1>5, <1>6, <1>7 DEF Histories

LEMMA HistoriesKept == IInv /\ [Next]_vars => Held' /\ Histories'
<1> SUFFICES ASSUME IInv, [Next]_vars PROVE Held' /\ Histories'
  OBVIOUS
<1>1. TaskStep
  BY TasksKept DEF IInv
<1>2. ASSUME NEW m \in Messages, NEW u \in Instants, Accept(m, u)
      PROVE  Held' /\ Histories'
  BY <1>2, AcceptHides
<1>3. ASSUME NEW m \in Messages, Cancel(m) PROVE Held' /\ Histories'
  <2>1. Ends({m}, "cancelled") /\ UNCHANGED <<alerting, alerts>>
    BY <1>3 DEF Cancel
  <2>2. {m} \in SUBSET Messages
    OBVIOUS
  <2>3. QED
    BY <1>1, <2>1, <2>2, EndsInSilence
<1>4. ASSUME NEW k \in Accepted, Run(k) PROVE Held' /\ Histories'
  <2>1. CASE UNCHANGED <<snoozed, owner, fate, alerting>>
    BY <1>1, <1>4, <2>1, NothingEnds DEF Run, histVars
  <2>2. CASE StillPromised(k) /\ Released({task[k].msg})
    <3>1. /\ task[k].msg \in Messages /\ task[k].until \in Instants
          /\ task[k].until <= now
      BY <1>4, Rows DEF IInv, TypeOK, Row, RunsWhenDue, Run
    <3>2. snoozed[task[k].msg] # Never /\ snoozed[task[k].msg] <= now
      BY <2>2, <3>1 DEF StillPromised, Never, Instants
    <3>3. owner[task[k].msg] # NoTask
      BY <3>1, <3>2 DEF IInv, Owned
    <3>4. {task[k].msg} \in SUBSET Messages /\ UNCHANGED alerts
      BY <1>4, <3>1 DEF Run
    <3>5. QED
      BY <1>1, <2>2, <3>2, <3>3, <3>4, EndsOwesAlerts
  <2>3. QED
    BY <1>4, <2>1, <2>2 DEF Run
<1>5. CASE Pass
  <2> DEFINE M == {m \in Messages : PassFinds(m)}
  <2>1. M \in SUBSET Messages /\ \A m \in M : owner[m] # NoTask /\ snoozed[m] <= now
    BY DEF IInv, Owned, PassFinds, Due
  <2>2. UNCHANGED alerts /\ (Released(M) \/ (Ends(M, "silent") /\ UNCHANGED alerting))
    BY <1>5 DEF Pass
  <2> HIDE DEF M
  <2>3. QED
    BY <1>1, <2>1, <2>2, EndsOwesAlerts, EndsInSilence
<1>6. ASSUME NEW k \in alerting, Alert(k) PROVE Held' /\ Histories'
  BY <1>6, AlertMade
<1>7. CASE Crash
  BY <1>7, AlertsLost
<1>8. CASE UNCHANGED <<snoozed, alerting, histVars>>
  BY <1>1, <1>8, NothingEnds
<1>9. QED
  BY <1>2, <1>3, <1>4, <1>5, <1>6, <1>7, <1>8
     DEF Next, Chain, Alerts, SlotTimesOut, Claim, Completes, AttemptFails, Boot,
         Tick, vars, dbVars

-----------------------------------------------------------------------------
(* Types, and the invariant.                                               *)

\* The switches of the process and of the running attempt, and the bound.
LEMMA SwitchesKept ==
    ASSUME TypeOK, [Next]_vars
    PROVE  up' \in BOOLEAN /\ ran' \in BOOLEAN /\ mishaps' \in 0..MaxMishaps
           /\ now' \in 0..MaxTime
<1>1. up' \in BOOLEAN /\ ran' \in BOOLEAN
  BY DEF TypeOK, Next, Accept, Cancel, SlotTimesOut, Chain, Claim, Run, Completes,
     AttemptFails, Pass, Alerts, Alert, Crash, Boot, Tick, vars, dbVars
<1>2. mishaps' = mishaps \/ Mishap
  BY DEF Next, Accept, Cancel, SlotTimesOut, Chain, Claim, Run, Completes,
     AttemptFails, Pass, Alerts, Alert, Crash, Boot, Tick, vars, dbVars
<1>3. mishaps' \in 0..MaxMishaps
  BY <1>2 DEF TypeOK, Mishap
<1>4. now' \in 0..MaxTime
  BY TasksKept DEF TypeOK, TaskStep
<1>5. QED
  BY <1>1, <1>3, <1>4

LEMMA StepKeeps == IInv /\ [Next]_vars => IInv'
<1> SUFFICES ASSUME IInv, [Next]_vars PROVE IInv'
  OBVIOUS
<1>1. Held' /\ Histories'
  BY HistoriesKept
<1>2. RunsWhenDue'
  BY RunsWhenDueKept DEF IInv
<1>3. task' \in Seq(Row) /\ Len(task') <= MaxTasks
  BY TasksKept, Rows DEF IInv, TypeOK, TaskStep
<1>4. TypeOK'
  BY <1>1, <1>3, SwitchesKept DEF IInv, TypeOK, Held
<1>5. QED
  BY <1>1, <1>2, <1>4 DEF IInv, Histories

-----------------------------------------------------------------------------
(* A hidden message's promise.                                             *)

\* A step that hides nothing and leaves the rows that promise something
\* keeps every promise.
LEMMA PromisesStand ==
    ASSUME IInv, HiddenIsPromised, TaskStep,
           \A m \in Messages : snoozed'[m] \in {snoozed[m], Never},
           \A k \in Accepted : task[k].status = "pending" /\ task[k].until > now
                                  => task'[k].status = "pending"
    PROVE  HiddenIsPromised'
<1>1. now \in Nat /\ now' \in Nat /\ now <= now'
  BY DEF IInv, TypeOK, TaskStep
<1>2. ASSUME NEW m \in Messages, Hidden(m)'
      PROVE  \E k \in Waiting(m)' : task'[k].until = snoozed'[m]
  <2>1. snoozed[m] \in Nat /\ snoozed'[m] > now'
    BY <1>2 DEF IInv, TypeOK, Hidden, Instants, Never
  <2>2. snoozed'[m] = snoozed[m] /\ snoozed[m] > now
    BY <1>1, <2>1 DEF Never
  <2>3. PICK k \in Waiting(m) : task[k].until = snoozed[m]
    BY <2>2 DEF HiddenIsPromised, Hidden
  <2>4. k \in Accepted /\ task[k].msg = m /\ task[k].status = "pending"
    BY <2>3 DEF Waiting
  <2>5. k \in Accepted' /\ task'[k].msg = m /\ task'[k].until = snoozed'[m]
    BY <2>2, <2>3, <2>4, StillKnown DEF IInv
  <2>6. task'[k].status = "pending"
    BY <2>2, <2>3, <2>4
  <2>7. QED
    BY <2>5, <2>6 DEF Waiting
<1>3. QED
  BY <1>2 DEF HiddenIsPromised

\* A withdrawal takes the promise of its own message, and of no other.
LEMMA OthersPromised ==
    ASSUME IInv, HiddenIsPromised, TaskStep, UNCHANGED now, NEW m \in Messages,
           \A k \in Accepted : task[k].msg # m => task'[k] = task[k],
           \A n \in Messages : n # m => snoozed'[n] = snoozed[n],
           Hidden(m)' => \E k \in Waiting(m)' : task'[k].until = snoozed'[m]
    PROVE  HiddenIsPromised'
<1>1. ASSUME NEW n \in Messages, n # m, Hidden(n)'
      PROVE  \E k \in Waiting(n)' : task'[k].until = snoozed'[n]
  <2>1. snoozed'[n] = snoozed[n] /\ Hidden(n)
    BY <1>1 DEF Hidden
  <2>2. PICK k \in Waiting(n) : task[k].until = snoozed[n]
    BY <2>1 DEF HiddenIsPromised
  <2>3. k \in Accepted' /\ task'[k] = task[k]
    BY <1>1, <2>2, StillKnown DEF IInv, Waiting
  <2>4. QED
    BY <2>1, <2>2, <2>3 DEF Waiting
<1>2. QED
  BY <1>1 DEF HiddenIsPromised

LEMMA PromiseKept == IInv /\ HiddenIsPromised /\ [Next]_vars => HiddenIsPromised'
<1> SUFFICES ASSUME IInv, HiddenIsPromised, [Next]_vars PROVE HiddenIsPromised'
  OBVIOUS
<1>1. TaskStep
  BY TasksKept DEF IInv
<1>2. ASSUME NEW m \in Messages, NEW u \in Instants, Accept(m, u)
      PROVE  HiddenIsPromised'
  <2> DEFINE k == Len(task')
  <2>1. /\ Len(task') = Len(task) + 1
        /\ task'[k] = [msg |-> m, until |-> u, attempts |-> 0, status |-> "pending"]
        /\ \A j \in Accepted : task'[j] = Withdrawn(m)[j]
    BY <1>2, AcceptRows DEF IInv
  <2>2. snoozed' = [snoozed EXCEPT ![m] = u] /\ UNCHANGED now
    BY <1>2 DEF Accept
  <2>3. snoozed'[m] = u /\ \A n \in Messages : n # m => snoozed'[n] = snoozed[n]
    BY <2>2 DEF IInv, TypeOK
  <2>4. \A j \in Accepted : task[j].msg # m => task'[j] = task[j]
    BY <2>1, WithdrawnRows DEF IInv, TypeOK
  <2>5. k \in Accepted'
    BY <2>1, Rows DEF IInv, TypeOK, Accepted
  <2>6. task'[k].msg = m /\ task'[k].until = u /\ task'[k].status = "pending"
    BY <2>1
  <2>7. k \in Waiting(m)' /\ task'[k].until = snoozed'[m]
    BY <2>3, <2>5, <2>6 DEF Waiting
  <2> HIDE DEF k
  <2>8. QED
    BY <1>1, <2>2, <2>3, <2>4, <2>7, OthersPromised
<1>3. ASSUME NEW m \in Messages, Cancel(m) PROVE HiddenIsPromised'
  <2>1. Ends({m}, "cancelled") /\ task' = Withdrawn(m) /\ UNCHANGED now
    BY <1>3 DEF Cancel
  <2>2. snoozed'[m] = Never /\ \A n \in Messages : n # m => snoozed'[n] = snoozed[n]
    BY <2>1 DEF Ends
  <2>3. ~Hidden(m)'
    BY <2>1, <2>2 DEF IInv, TypeOK, Hidden, Never
  <2>4. \A j \in Accepted : task[j].msg # m => task'[j] = task[j]
    BY <2>1, WithdrawnRows DEF IInv, TypeOK
  <2>5. QED
    BY <1>1, <2>1, <2>2, <2>3, <2>4, OthersPromised
<1>4. ASSUME NEW k \in Running, NEW st \in {"pending", "completed", "failed"},
             SetTask(k, st), UNCHANGED <<now, snoozed>>
      PROVE  HiddenIsPromised'
  <2>1. k \in Accepted /\ task[k].status = "running"
    BY DEF Running
  <2>2. \A j \in Accepted : j # k => task'[j] = task[j]
    BY <1>4, <2>1, SetTaskRows DEF IInv
  <2>3. QED
    BY <1>1, <1>4, <2>1, <2>2, PromisesStand
<1>5. ASSUME NEW k \in Accepted, Claim(k) PROVE HiddenIsPromised'
  <2>1. task[k].until <= now /\ UNCHANGED snoozed
    BY <1>5 DEF Claim
  <2>2. \A j \in Accepted : j # k => task'[j] = task[j]
    BY <1>5, ClaimRows DEF IInv
  <2>3. now \in Nat /\ task[k].until \in Nat
    BY Rows DEF IInv, TypeOK, Row, Instants
  <2>4. QED
    BY <1>1, <2>1, <2>2, <2>3, PromisesStand
<1>6. CASE Boot
  <2>1. \A k \in Accepted : task[k].status = "pending" => task'[k] = task[k]
    BY <1>6, BootRows DEF IInv
  <2>2. UNCHANGED snoozed
    BY <1>6 DEF Boot
  <2>3. QED
    BY <1>1, <2>1, <2>2, PromisesStand
<1>7. CASE UNCHANGED task /\ \A m \in Messages : snoozed'[m] \in {snoozed[m], Never}
  BY <1>1, <1>7, PromisesStand
<1>8. ASSUME NEW k \in Accepted, SlotTimesOut(k) \/ Completes(k) \/ AttemptFails(k)
      PROVE  HiddenIsPromised'
  BY <1>4, <1>8 DEF SlotTimesOut, Completes, AttemptFails
<1>9. ASSUME \/ \E k \in Accepted : Run(k)
             \/ Pass \/ Alerts \/ Crash \/ Tick \/ UNCHANGED vars
      PROVE  HiddenIsPromised'
  <2>1. UNCHANGED task
    BY <1>9 DEF Run, Pass, Alerts, Alert, Crash, Tick, vars, dbVars
  <2>2. UNCHANGED snoozed \/ \E M \in SUBSET Messages, how \in {"released", "silent"} : Ends(M, how)
    <3>1. ASSUME NEW k \in Accepted, Run(k)
          PROVE  UNCHANGED snoozed \/ Ends({task[k].msg}, "released")
      BY <3>1 DEF Run, Released
    <3>2. \A k \in Accepted : {task[k].msg} \in SUBSET Messages
      BY Rows DEF IInv, TypeOK, Row
    <3>3. ASSUME Pass
          PROVE  \E how \in {"released", "silent"} : Ends({m \in Messages : PassFinds(m)}, how)
      BY <3>3 DEF Pass, Released
    <3>4. {m \in Messages : PassFinds(m)} \in SUBSET Messages
      OBVIOUS
    <3>5. QED
      BY <1>9, <3>1, <3>2, <3>3, <3>4 DEF Alerts, Alert, Crash, Tick, vars, dbVars
  <2>3. \A m \in Messages : snoozed'[m] \in {snoozed[m], Never}
    BY <2>2 DEF Ends
  <2>4. QED
    BY <1>7, <2>1, <2>3
<1>10. QED
  BY <1>2, <1>3, <1>5, <1>6, <1>8, <1>9 DEF Next, Chain

-----------------------------------------------------------------------------
(* The theorems.                                                           *)

\* What the properties rest on holds in every state.
THEOREM Invariant == SafetySpec => []IInv
<1>1. QED
  BY InitInv, StepKeeps, PTL DEF SafetySpec

\* Every column and field always has a value of its type.
THEOREM TypeCorrect == SafetySpec => []TypeOK
<1>1. IInv => TypeOK
  BY DEF IInv
<1>2. QED
  BY <1>1, Invariant, PTL

\* No message stays out of the inbox for good: the task that brings it back
\* at its instant is pending, whatever was accepted, withdrawn or failed.
THEOREM HiddenComesBack == SafetySpec => []HiddenIsPromised
<1>1. Init => HiddenIsPromised
  BY DEF Init, HiddenIsPromised, Hidden, Never
<1>2. QED
  BY <1>1, PromiseKept, Invariant, PTL DEF SafetySpec

\* The runner and the sync pass between them alert once, and not early.
THEOREM OneAlert == SafetySpec => []AlertedOnceWhenDue
<1>1. IInv => AlertedOnceWhenDue
  BY DEF IInv, Fates, AlertsOwed, AlertedOnceWhenDue
<1>2. QED
  BY <1>1, Invariant, PTL
===============================================================================
