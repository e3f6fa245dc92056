-------------------------- MODULE FlagsTasks_proofs --------------------------
(***************************************************************************)
(* Proofs about FlagsTasks, for any messages, flags and tasks, whatever    *)
(* was inherited from an older build, and any number of crashes, rebuilds, *)
(* other clients and filter rules: types, whose the markers are, that the  *)
(* newest unsettled change is shown, and that an unmarked row shows what   *)
(* the server was last confirmed to hold.                                  *)
(*                                                                         *)
(* The last is not inductive.  Shown says what a row changed once shows at *)
(* every point of its task's life, up to the rollback that a crash may     *)
(* leave to the replay at the next boot.                                   *)
(***************************************************************************)
EXTENDS FlagsTasks, TLAPS

USE FlagsAssumption DEF FlagsAssumption

\* The rows of `tasks`: commits fill them from 1, and a running task is the
\* oldest there is.
Chain ==
    /\ \A t \in TaskIds : status[t] = "absent" <=> t > count
    /\ \A t \in TaskIds : t > count => \A m \in Messages : delta[t][m] = NoDelta
    /\ \A t \in TaskIds : status[t] = "running" => \A u \in Live : t <= u

\* What an attempt has confirmed is its task's; a restart gives the head of
\* the chain at most one attempt more.
Attempted ==
    /\ \A t \in TaskIds : status[t] = "running" => pushed \subseteq Named(t)
    /\ tries <= MaxAttempts + crashes
    /\ phase # "up" \/ (\A t \in TaskIds : status[t] # "running")
          => tries < MaxAttempts + crashes

\* Obligations run while the process is up or replays, then those of the row
\* the replay stands at, and give back only what a failed task owned.
Obliged ==
    /\ job # 0 => phase \in {"replay", "up"} /\ job \in Terminal
    /\ job # 0 /\ stage = "revert" => status[job] = "failed"
    /\ job # 0 /\ phase = "replay" => replayed = job

\* Whose the markers are, by the phase of the process.
Marked ==
    /\ \A t \in Live : Named(t) \cap cached \subseteq marked
    /\ Idle \/ phase = "resume" => marked \subseteq Protected \cup stranded
    /\ phase = "up" /\ job # 0 =>
          marked \subseteq Protected \cup stranded
                           \cup (IF stage = "revert" THEN Named(job) ELSE Opened(job))

\* A payload an attempt runs with has been opened, and what is stranded was
\* named by a task.
Spoilt ==
    /\ phase = "up" => \A t \in TaskIds : status[t] = "running" => t \notin unreadable
    /\ \A m \in stranded : \E t \in 1..count : m \in Named(t)

\* The write under way is a filter rule's.
FromFilter == filter # NoWrite => filter.message \in Filtered

\* The task is the only one that names the message.
Sole(m, t) == m \in Named(t) /\ \A u \in 1..count : m \in Named(u) => u = t

\* The rollback of a failed task is still to come.
Unreverted(t) ==
    \/ phase = "down"
    \/ phase = "replay" /\ replayed < t
    \/ job = t /\ stage = "revert"

\* What a row shows that a task alone has changed: a live one over the
\* confirmed baseline, a completed one, or a failed one with the baseline kept
\* until it is given back.
ShownBy(m, t) ==
    /\ t \in Live => /\ m \in marked /\ base[m] = known[m]
                     /\ flags[m] = Apply(delta[t][m], known[m])
    /\ status[t] = "completed" => rebuilt \/ flags[m] = known[m]
    /\ status[t] = "failed" =>
          /\ \/ m \in marked /\ base[m] = known[m]
             \/ m \notin marked /\ flags[m] = known[m]
          /\ ~Unreverted(t) => flags[m] = known[m]

Untouched(m) == \A t \in 1..count : m \notin Named(t)

Shown ==
    \A m \in cached \ (Inherited \cup Filtered \cup stranded) :
        /\ Untouched(m) => flags[m] = known[m]
        /\ \A t \in 1..count : Sole(m, t) => ShownBy(m, t)

\* All of it.
IInv ==
    /\ TypeOK /\ Chain /\ Attempted /\ Obliged /\ Spoilt /\ Marked /\ FromFilter
    /\ TargetShown /\ Shown

-----------------------------------------------------------------------------
(* Deltas.                                                                 *)

\* Applying a delta is typed and idempotent, and no delta changes nothing.
LEMMA ApplyFacts ==
    ASSUME NEW d \in Deltas, NEW f \in SUBSET Flags
    PROVE  /\ Apply(d, f) \in SUBSET Flags
           /\ Apply(d, Apply(d, f)) = Apply(d, f)
           /\ Apply(NoDelta, f) = f
BY DEF Apply, Deltas, NoDelta

LEMMA DeltaTypes == NoDelta \in Deltas /\ InheritedDelta \in Deltas
BY DEF NoDelta, InheritedDelta, Deltas

\* Two tasks of which the one waits for the other are not both running.
LEMMA NoneRuns ==
    ASSUME Chain, NEW t \in TaskIds, status[t] = "pending", \A u \in Live : t <= u
    PROVE  \A u \in TaskIds : status[u] # "running"
<1>1. SUFFICES ASSUME NEW u \in TaskIds, status[u] = "running" PROVE FALSE
  OBVIOUS
<1>2. t \in Live /\ u \in Live
  BY <1>1 DEF Live
<1>3. u <= t /\ t <= u
  BY <1>1, <1>2 DEF Chain
<1>4. QED
  BY <1>1, <1>3 DEF TaskIds

LEMMA OneRuns ==
    ASSUME Chain, NEW t \in TaskIds, NEW u \in TaskIds,
           status[t] = "running", status[u] = "running"
    PROVE  t = u
<1>1. t <= u /\ u <= t
  BY DEF Chain, Live
<1>2. QED
  BY <1>1 DEF TaskIds

-----------------------------------------------------------------------------
(* The initial states.                                                     *)

LEMMA InitTypes == Init => TypeOK
<1> SUFFICES ASSUME Init PROVE TypeOK
  OBVIOUS
<1>1. /\ cached \subseteq Messages /\ marked \subseteq Messages
      /\ flags \in [Messages -> SUBSET Flags]
      /\ base \in [Messages -> (SUBSET Flags) \cup {NoFlags}]
      /\ remote \in [Messages -> SUBSET Flags] /\ known \in [Messages -> SUBSET Flags]
  <2>1. cached \subseteq Messages /\ marked \subseteq Messages
    BY DEF Init
  <2>2. flags \in [Messages -> SUBSET Flags]
    BY DEF Init
  <2>3. base \in [Messages -> (SUBSET Flags) \cup {NoFlags}]
    BY DEF Init
  <2>4. remote \in [Messages -> SUBSET Flags] /\ known \in [Messages -> SUBSET Flags]
    BY DEF Init
  <2>5. QED
    BY <2>1, <2>2, <2>3, <2>4
<1>2. count \in 0..MaxTasks /\ tries \in 0..(MaxAttempts + MaxCrashes)
  BY DEF Init
<1>3. status \in [TaskIds -> {"absent", "pending", "running", "completed", "failed"}]
  BY DEF Init
<1>4. delta \in [TaskIds -> [Messages -> Deltas]]
  BY DeltaTypes DEF Init
<1>5. /\ rebuilt \in BOOLEAN /\ pushed \subseteq Messages
      /\ phase \in {"down", "replay", "sweep", "resume", "up"}
      /\ stage \in {"revert", "clear"}
      /\ filter \in Writes \cup {NoWrite}
      /\ unreadable \subseteq TaskIds /\ stranded \subseteq Messages
  BY DEF Init
<1>6. fetched \in [Messages -> (SUBSET Flags) \cup {NoFlags}]
  BY DEF Init
<1>7. /\ replayed \in 0..MaxTasks /\ job \in 0..MaxTasks
      /\ crashes \in 0..MaxCrashes /\ others \in 0..MaxOthers /\ filters \in 0..MaxFilters
  BY DEF Init
<1>8. QED
  BY <1>1, <1>2, <1>3, <1>4, <1>5, <1>7, <1>6 DEF TypeOK

LEMMA InitInv == Init => IInv
<1> SUFFICES ASSUME Init PROVE IInv
  OBVIOUS
<1>1. TypeOK
  BY InitTypes
<1>2. /\ \A t \in TaskIds : status[t] = IF t <= count THEN "pending" ELSE "absent"
      /\ \A t \in TaskIds, m \in Messages :
            delta[t][m] = IF t <= count /\ m \in Inherited THEN InheritedDelta ELSE NoDelta
  BY DEF Init
<1>3. count \in Nat /\ \A t \in TaskIds : t \in Nat
  BY <1>1 DEF TypeOK, TaskIds
<1>4. Chain
  BY <1>2, <1>3 DEF Chain
<1>5. \A t \in Live : Named(t) \subseteq Inherited
  BY <1>2 DEF Named, Live
<1>6. Attempted /\ Obliged /\ Spoilt /\ FromFilter
  BY <1>2, <1>1 DEF Init, Attempted, Obliged, Spoilt, FromFilter
<1>7. Marked
  BY <1>5 DEF Init, Marked, Idle
<1>8. TargetShown
  <2>1. ASSUME NEW t \in Live, NEW m \in Named(t)
        PROVE  Apply(delta[t][m], flags[m]) = flags[m]
    <3>1. m \in Inherited /\ m \in Messages /\ t \in TaskIds
      BY <1>5 DEF Named, Live
    <3>2. delta[t][m] = InheritedDelta /\ flags[m] = Flags
      BY <1>2, <2>1, <3>1 DEF Named, Init
    <3>3. QED
      BY <3>2 DEF Apply, InheritedDelta
  <2>2. QED
    BY <2>1 DEF TargetShown
<1>9. Shown
  <2>1. ASSUME NEW m \in cached \ (Inherited \cup Filtered \cup stranded)
        PROVE  flags[m] = known[m] /\ \A t \in 1..count : m \notin Named(t)
    <3>1. 1..count \subseteq TaskIds
      BY <1>1 DEF TypeOK, TaskIds
    <3>2. \A t \in 1..count : m \notin Named(t)
      BY <1>2, <3>1 DEF Named
    <3>3. flags[m] = known[m]
      BY DEF Init
    <3>4. QED
      BY <3>2, <3>3
  <2>2. QED
    BY <2>1 DEF Shown, Sole
<1>10. QED
  BY <1>1, <1>4, <1>6, <1>7, <1>8, <1>9 DEF IInv

-----------------------------------------------------------------------------
(* Types.                                                                  *)

LEMMA TypesKept ==
    ASSUME TypeOK, Chain, Attempted, [Next]_vars
    PROVE  TypeOK'
<1>1. ASSUME NEW S \in SUBSET cached, NEW on \in SUBSET Flags,
             NEW off \in SUBSET Flags, Accept(S, on, off)
      PROVE  TypeOK'
  <2> DEFINE d == [m \in Messages |->
                     IF m \in S THEN [add |-> on \ flags[m], remove |-> off \cap flags[m]]
                     ELSE NoDelta]
  <2> DEFINE c == {m \in S : d[m] # NoDelta}
  <2>1. d \in [Messages -> Deltas]
    BY DeltaTypes DEF Deltas
  <2>2. c \subseteq cached
    OBVIOUS
  <2>3. /\ count < MaxTasks /\ count' = count + 1
        /\ status' = [status EXCEPT ![count + 1] = "pending"]
        /\ delta' = [delta EXCEPT ![count + 1] = d]
        /\ flags' = [m \in Messages |-> Apply(d[m], flags[m])]
        /\ marked' = marked \cup c
        /\ base' = Baseline(c) /\ stranded' = stranded \ c
    BY <1>1 DEF Accept
  <2>4. /\ UNCHANGED <<cached, remote, rebuilt, runVars, bootVars, jobVars,
                       fetched, filter, known, bounds>>
    BY <1>1 DEF Accept
  <2> HIDE DEF d, c
  <2>5. count' \in 0..MaxTasks /\ count + 1 \in TaskIds
    BY <2>3 DEF TypeOK, TaskIds
  <2>6. flags' \in [Messages -> SUBSET Flags]
    BY <2>1, <2>3, ApplyFacts DEF TypeOK
  <2>7. base' \in [Messages -> (SUBSET Flags) \cup {NoFlags}]
    BY <2>3 DEF TypeOK, Baseline
  <2>8. delta' \in [TaskIds -> [Messages -> Deltas]]
    BY <2>1, <2>3 DEF TypeOK
  <2>9. status' \in [TaskIds -> {"absent", "pending", "running", "completed", "failed"}]
    BY <2>3 DEF TypeOK
  <2>10. /\ cached' \subseteq Messages /\ marked' \subseteq Messages
         /\ stranded' \subseteq Messages
    BY <2>2, <2>3, <2>4 DEF TypeOK
  <2>11. QED
    BY <2>4, <2>5, <2>6, <2>7, <2>8, <2>9, <2>10
       DEF TypeOK, runVars, bootVars, jobVars, history, bounds
<1>2. ASSUME NEW t \in TaskIds, Begin(t)
      PROVE  TypeOK'
  <2>1. \A u \in TaskIds : status[u] # "running"
    BY <1>2, NoneRuns DEF Begin
  <2>2. tries < MaxAttempts + crashes
    BY <2>1 DEF Attempted
  <2>3. tries' \in 0..(MaxAttempts + MaxCrashes)
    BY <1>2, <2>2 DEF TypeOK, Begin
  <2>4. /\ status' \in [TaskIds -> {"absent", "pending", "running", "completed", "failed"}]
        /\ pushed' = {}
    BY <1>2 DEF TypeOK, Begin
  <2>5. UNCHANGED <<rowVars, remote, rebuilt, count, delta, bootVars, jobVars,
                    fetched, filter, history, bounds>>
    BY <1>2 DEF Begin
  <2>6. QED
    BY <2>3, <2>4, <2>5 DEF TypeOK, rowVars, bootVars, jobVars, history, bounds
<1>3. ASSUME NEW t \in TaskIds, NEW m \in Messages, Store(t, m)
      PROVE  TypeOK'
  <2>1. delta[t][m] \in Deltas /\ remote[m] \in SUBSET Flags
    BY DEF TypeOK
  <2>2. remote' = [remote EXCEPT ![m] = Apply(delta[t][m], remote[m])]
    BY <1>3 DEF Store
  <2>3. Apply(delta[t][m], remote[m]) \in SUBSET Flags
    BY <2>1, ApplyFacts
  <2>4. remote' \in [Messages -> SUBSET Flags]
    BY <2>2, <2>3 DEF TypeOK
  <2>5. pushed' \subseteq Messages
    BY <1>3 DEF TypeOK, Store
  <2>6. UNCHANGED <<rowVars, rebuilt, taskVars, tries, bootVars, jobVars, fetched,
                    filter, history, bounds>>
    BY <1>3 DEF Store
  <2>7. QED
    BY <2>4, <2>5, <2>6 DEF TypeOK, rowVars, taskVars, bootVars, jobVars, history, bounds
<1>4. ASSUME NEW t \in TaskIds, Complete(t)
      PROVE  TypeOK'
  <2>1. /\ status' \in [TaskIds -> {"absent", "pending", "running", "completed", "failed"}]
        /\ stage' \in {"revert", "clear"} /\ pushed' = {}
    BY <1>4 DEF TypeOK, Complete, Settled
  <2>2. job' \in 0..MaxTasks /\ tries' \in 0..(MaxAttempts + MaxCrashes)
    BY <1>4 DEF TypeOK, Complete, Settled, TaskIds
  <2>3. \A m \in Messages : Apply(delta[t][m], known[m]) \in SUBSET Flags
    <3>1. \A m \in Messages : delta[t][m] \in Deltas /\ known[m] \in SUBSET Flags
      BY DEF TypeOK
    <3>2. QED
      BY <3>1, ApplyFacts
  <2>4. known' \in [Messages -> SUBSET Flags]
    BY <1>4, <2>3 DEF TypeOK, Complete
  <2>5. UNCHANGED <<rowVars, remote, rebuilt, count, delta, bootVars, fetched, filter,
                    stranded, bounds>>
    BY <1>4 DEF Complete
  <2>6. QED
    BY <2>1, <2>2, <2>4, <2>5 DEF TypeOK, rowVars, bootVars, history, bounds
<1>5. ASSUME NEW t \in TaskIds, Retry(t)
      PROVE  TypeOK'
  BY <1>5 DEF TypeOK, Retry, rowVars, taskVars, runVars,
     bootVars, jobVars, history, bounds
<1>6. ASSUME NEW t \in TaskIds, GiveUp(t)
      PROVE  TypeOK'
  <2>1. /\ status' \in [TaskIds -> {"absent", "pending", "running", "completed", "failed"}]
        /\ stage' \in {"revert", "clear"} /\ pushed' = {}
    BY <1>6 DEF TypeOK, GiveUp, Settled
  <2>2. job' \in 0..MaxTasks /\ tries' \in 0..(MaxAttempts + MaxCrashes)
    BY <1>6 DEF TypeOK, GiveUp, Settled, TaskIds
  <2>3. UNCHANGED <<rowVars, remote, rebuilt, count, delta, bootVars, fetched, filter,
                    history, bounds>>
    BY <1>6 DEF GiveUp
  <2>4. QED
    BY <2>1, <2>2, <2>3 DEF TypeOK, rowVars, bootVars, history, bounds
<1>7. CASE Revert
  <2> DEFINE R == Refused(job)
  <2>1. /\ flags' = [m \in Messages |-> IF m \in R THEN base[m] ELSE flags[m]]
        /\ base' = [m \in Messages |-> IF m \in R THEN NoFlags ELSE base[m]]
        /\ marked' = marked \ R /\ stage' = "clear"
        /\ stranded' = stranded \cup Stranded(job)
    BY <1>7 DEF Revert
  <2>2. \A m \in R : base[m] # NoFlags
    BY DEF Refused
  <2> HIDE DEF R
  <2>3. flags' \in [Messages -> SUBSET Flags]
    BY <2>1, <2>2 DEF TypeOK
  <2>4. base' \in [Messages -> (SUBSET Flags) \cup {NoFlags}]
    BY <2>1 DEF TypeOK
  <2>5. UNCHANGED <<cached, remote, rebuilt, taskVars, runVars, bootVars, job, fetched,
                    filter, known, bounds>>
    BY <1>7 DEF Revert
  <2>6. stranded' \subseteq Messages
    BY <2>1 DEF TypeOK, Stranded
  <2>7. QED
    BY <2>1, <2>3, <2>4, <2>5, <2>6 DEF TypeOK, taskVars, runVars, bootVars, history, bounds
<1>8. CASE Clear
  BY <1>8 DEF TypeOK, Clear, rowVars, taskVars, runVars,
     bootVars, jobVars, history, bounds
<1>9. CASE ReplayNext
  <2>1. PICK t \in Terminal : replayed' = t /\ job' = t
    BY <1>9 DEF ReplayNext
  <2>2. replayed' \in 0..MaxTasks /\ job' \in 0..MaxTasks
    BY <2>1 DEF Terminal, TaskIds
  <2>3. stage' \in {"revert", "clear"}
    BY <1>9 DEF ReplayNext
  <2>4. UNCHANGED <<rowVars, remote, rebuilt, taskVars, runVars, phase, unreadable,
                    fetched, filter, history, bounds>>
    BY <1>9 DEF ReplayNext
  <2>5. QED
    BY <2>2, <2>3, <2>4 DEF TypeOK, rowVars, taskVars, runVars, history, bounds
<1>10. CASE ReplayEnds
  BY <1>10 DEF TypeOK, ReplayEnds, rowVars, taskVars, runVars,
     bootVars, jobVars, history, bounds
<1>11. CASE Sweep
  BY <1>11 DEF TypeOK, Sweep, rowVars, taskVars, runVars,
     bootVars, jobVars, history, bounds
<1>12. CASE Resume
  BY <1>12 DEF TypeOK, Resume, rowVars, taskVars, runVars,
     bootVars, jobVars, history, bounds
<1>13. CASE Boot
  BY <1>13 DEF TypeOK, Boot, rowVars, taskVars, runVars,
     bootVars, jobVars, history, bounds
<1>14. CASE FilterStores
  <2>1. filter \in Writes
    BY <1>14 DEF TypeOK, FilterStores
  <2>2. /\ filter.message \in Messages /\ filter.add \in SUBSET Flags
        /\ filter.next \in SUBSET Flags
    BY <2>1 DEF Writes
  <2>3. filter' \in Writes
    BY <1>14, <2>1 DEF FilterStores, Writes
  <2>4. remote' \in [Messages -> SUBSET Flags]
    BY <1>14, <2>2 DEF TypeOK, FilterStores
  <2>5. UNCHANGED <<rowVars, rebuilt, taskVars, runVars, bootVars, jobVars, fetched,
                    history, bounds>>
    BY <1>14 DEF FilterStores
  <2>6. QED
    BY <2>3, <2>4, <2>5 DEF TypeOK, rowVars, taskVars, runVars, bootVars, jobVars, history, bounds
<1>15. CASE FilterWrites
  <2>1. filter \in Writes
    BY <1>15 DEF TypeOK, FilterWrites
  <2>2. /\ filter.message \in Messages /\ filter.add \in SUBSET Flags
        /\ filter.next \in SUBSET Flags
    BY <2>1 DEF Writes
  <2>3. flags' \in [Messages -> SUBSET Flags]
    BY <1>15, <2>2 DEF TypeOK, FilterWrites
  <2>4. known' \in [Messages -> SUBSET Flags]
    BY <1>15, <2>2 DEF TypeOK, FilterWrites
  <2>5. /\ filter' = NoWrite
        /\ UNCHANGED <<cached, marked, base, remote, rebuilt, taskVars, runVars,
                       bootVars, jobVars, fetched, stranded, bounds>>
    BY <1>15 DEF FilterWrites
  <2>6. QED
    BY <2>3, <2>4, <2>5 DEF TypeOK, taskVars, runVars, bootVars, jobVars, history, bounds
<1>16. CASE FilterFails
  BY <1>16 DEF TypeOK, FilterFails, rowVars, taskVars, runVars,
     bootVars, jobVars, history, bounds
<1>17. ASSUME NEW m \in Messages, Fetch(m)
      PROVE  TypeOK'
  BY <1>17 DEF TypeOK, Fetch, rowVars, taskVars, runVars,
     bootVars, jobVars, history, bounds
<1>18. ASSUME NEW m \in Messages, Refresh(m)
      PROVE  TypeOK'
  BY <1>18 DEF TypeOK, Refresh, rowVars, taskVars, runVars,
     bootVars, jobVars, history, bounds
<1>19. CASE Reset
  BY <1>19 DEF TypeOK, Reset, rowVars, taskVars, runVars,
     bootVars, jobVars, history, bounds
<1>20. ASSUME NEW m \in Messages, NEW on \in SUBSET Flags, FilterPlans(m, on)
      PROVE  TypeOK'
  <2>1. flags[m] \in SUBSET Flags
    BY DEF TypeOK
  <2>2. filter' \in Writes
    BY <1>20, <2>1 DEF FilterPlans, Writes
  <2>3. filters' \in 0..MaxFilters
    BY <1>20 DEF TypeOK, FilterPlans
  <2>4. UNCHANGED <<rowVars, remote, rebuilt, taskVars, runVars, bootVars, jobVars,
                    fetched, history, crashes, others>>
    BY <1>20 DEF FilterPlans
  <2>5. QED
    BY <2>2, <2>3, <2>4 DEF TypeOK, rowVars, taskVars, runVars, bootVars, jobVars, history
<1>21. ASSUME NEW m \in Messages, NEW f \in SUBSET Flags, OtherClient(m, f)
      PROVE  TypeOK'
  BY <1>21 DEF TypeOK, OtherClient, rowVars, taskVars, runVars,
     bootVars, jobVars, history, bounds
<1>22. CASE Rebuild
  BY <1>22 DEF TypeOK, Rebuild, rowVars, taskVars, runVars,
     bootVars, jobVars, history, bounds
<1>23. CASE Crash
  BY <1>23 DEF TypeOK, Crash, rowVars, taskVars, runVars,
     bootVars, jobVars, history, bounds
<1>24. ASSUME NEW t \in TaskIds, Spoil(t) PROVE TypeOK'
  BY <1>24 DEF TypeOK, Spoil, rowVars, taskVars, runVars,
     jobVars, history, bounds
<1>25. CASE UNCHANGED vars
  BY <1>25 DEF TypeOK, vars, rowVars, taskVars, runVars,
     bootVars, jobVars, history, bounds
<1>26. QED
  BY <1>1, <1>2, <1>3, <1>4, <1>5, <1>6, <1>7, <1>8, <1>9, <1>10, <1>11,
     <1>12, <1>13, <1>14, <1>15, <1>16, <1>17, <1>18, <1>19, <1>20, <1>21,
     <1>22, <1>23, <1>24, <1>25
     DEF Next, Attempt, Settle, Booting, Filter

-----------------------------------------------------------------------------
(* The rows of `tasks`.                                                    *)

LEMMA NextRow ==
    ASSUME TypeOK, NEW S, NEW on, NEW off, Accept(S, on, off)
    PROVE  \E n \in TaskIds : n = count + 1
BY DEF TypeOK, Accept, TaskIds

\* A commit adds the newest row ...
LEMMA AcceptRow ==
    ASSUME TypeOK, Chain, NEW S \in SUBSET cached, NEW on \in SUBSET Flags,
           NEW off \in SUBSET Flags, Accept(S, on, off),
           NEW n \in TaskIds, n = count + 1
    PROVE  /\ count' = n
           /\ Live' = Live \cup {n} /\ Terminal' = Terminal
           /\ \A t \in Live : t < n
           /\ status[n] = "absent" /\ status'[n] = "pending"
           /\ \A t \in TaskIds \ {n} : status'[t] = status[t]
<1>1. count' = n /\ status' = [status EXCEPT ![n] = "pending"]
  BY DEF Accept
<1>2. status'[n] = "pending" /\ \A t \in TaskIds \ {n} : status'[t] = status[t]
  BY <1>1 DEF TypeOK
<1>3. n > count /\ count \in Nat
  BY DEF TypeOK
<1>4. status[n] = "absent"
  BY <1>3 DEF Chain
<1>5. \A t \in Live : t < n
  BY <1>3 DEF Chain, Live, TaskIds
<1>6. Live' = Live \cup {n} /\ Terminal' = Terminal
  BY <1>2, <1>4 DEF Live, Terminal
<1>7. QED
  BY <1>1, <1>2, <1>4, <1>5, <1>6

\* ... whose delta is the change made to the cache.
LEMMA AcceptDelta ==
    ASSUME TypeOK, Chain, NEW S \in SUBSET cached, NEW on \in SUBSET Flags,
           NEW off \in SUBSET Flags, Accept(S, on, off),
           NEW n \in TaskIds, n = count + 1
    PROVE  /\ \A t \in TaskIds \ {n} : delta'[t] = delta[t] /\ Named(t)' = Named(t)
           /\ Named(n)' \subseteq S /\ Named(n) = {}
           /\ \A m \in Messages :
                 /\ delta'[n][m] \in Deltas
                 /\ flags'[m] = Apply(delta'[n][m], flags[m])
           /\ marked' = marked \cup Named(n)'
           /\ base' = Baseline(Named(n)')
           /\ stranded' = stranded \ Named(n)'
<1> DEFINE d == [m \in Messages |->
                   IF m \in S THEN [add |-> on \ flags[m], remove |-> off \cap flags[m]]
                   ELSE NoDelta]
<1>1. d \in [Messages -> Deltas]
  BY DeltaTypes DEF Deltas
<1>2. S \subseteq Messages
  BY DEF TypeOK
<1>3. /\ delta' = [delta EXCEPT ![n] = d]
      /\ flags' = [m \in Messages |-> Apply(d[m], flags[m])]
      /\ marked' = marked \cup {m \in S : d[m] # NoDelta}
      /\ base' = Baseline({m \in S : d[m] # NoDelta})
      /\ stranded' = stranded \ {m \in S : d[m] # NoDelta}
  BY DEF Accept
<1>4. {m \in S : d[m] # NoDelta} = {m \in Messages : d[m] # NoDelta}
  BY <1>2
<1> HIDE DEF d
<1>5. delta'[n] = d /\ \A t \in TaskIds \ {n} : delta'[t] = delta[t]
  BY <1>3 DEF TypeOK
<1>6. Named(n)' = {m \in S : d[m] # NoDelta}
  BY <1>4, <1>5 DEF Named
<1>7. Named(n) = {}
  BY DEF TypeOK, Chain, Named
<1>8. \A m \in Messages : delta'[n][m] \in Deltas /\ flags'[m] = Apply(delta'[n][m], flags[m])
  BY <1>1, <1>3, <1>5
<1>9. \A t \in TaskIds \ {n} : delta'[t] = delta[t] /\ Named(t)' = Named(t)
  BY <1>5 DEF Named
<1>10. QED
  BY <1>3, <1>6, <1>7, <1>8, <1>9

\* A settlement takes one row from the live ones to the terminal ones.
LEMMA SettledRow ==
    ASSUME TypeOK, NEW t \in Live, NEW s \in {"completed", "failed"},
           NEW first, Settled(t, s, first), UNCHANGED <<count, delta>>
    PROVE  /\ Live' = Live \ {t} /\ Terminal' = Terminal \cup {t}
           /\ status'[t] = s /\ \A u \in TaskIds : u # t => status'[u] = status[u]
           /\ \A u \in TaskIds : Named(u)' = Named(u)
           /\ job' = t /\ stage' = first /\ pushed' = {} /\ tries' = 0
<1>1. t \in TaskIds /\ status' = [status EXCEPT ![t] = s]
  BY DEF Settled, Live
<1>2. status'[t] = s /\ \A u \in TaskIds : u # t => status'[u] = status[u]
  BY <1>1 DEF TypeOK
<1>3. Live' = Live \ {t} /\ Terminal' = Terminal \cup {t}
  BY <1>1, <1>2 DEF Live, Terminal
<1>4. QED
  BY <1>2, <1>3 DEF Settled, Named

\* An attempt begins, or is to be made again: the row stays live.
LEMMA StirredRow ==
    ASSUME TypeOK, NEW t \in Live, NEW s \in {"pending", "running"},
           status' = [status EXCEPT ![t] = s], UNCHANGED <<count, delta>>
    PROVE  /\ Live' = Live /\ Terminal' = Terminal
           /\ status'[t] = s /\ \A u \in TaskIds : u # t => status'[u] = status[u]
           /\ \A u \in TaskIds : Named(u)' = Named(u)
<1>1. t \in TaskIds /\ status[t] \in {"pending", "running"}
  BY DEF Live
<1>2. status'[t] = s /\ \A u \in TaskIds : u # t => status'[u] = status[u]
  BY <1>1 DEF TypeOK
<1>3. Live' = Live /\ Terminal' = Terminal
  BY <1>1, <1>2 DEF Live, Terminal
<1>4. QED
  BY <1>2, <1>3 DEF Named

LEMMA ResumedRows ==
    ASSUME TypeOK, Resume
    PROVE  /\ Live' = Live /\ Terminal' = Terminal
           /\ \A u \in TaskIds : /\ status'[u] # "running" /\ Named(u)' = Named(u)
                                 /\ status'[u] = "absent" <=> status[u] = "absent"
                                 /\ u \notin Live => status'[u] = status[u]
<1>1. \A u \in TaskIds : status'[u] = IF status[u] = "running" THEN "pending" ELSE status[u]
  BY DEF Resume
<1>2. \A u \in TaskIds :
         status[u] \in {"absent", "pending", "running", "completed", "failed"}
  BY DEF TypeOK
<1>3. UNCHANGED delta
  BY DEF Resume
<1>4. QED
  BY <1>1, <1>2, <1>3 DEF Live, Terminal, Named

\* Who settles is the oldest.
LEMMA HeadSettles ==
    ASSUME TypeOK, Chain, NEW t \in TaskIds, Complete(t) \/ GiveUp(t)
    PROVE  /\ t \in Live /\ \A u \in Live : t <= u
           /\ Idle /\ UNCHANGED <<count, delta, phase, cached, flags, marked, base, rebuilt,
                                stranded>>
<1>1. CASE status[t] = "running"
  BY <1>1 DEF Chain, Live, Complete, GiveUp, rowVars, bootVars, history
<1>2. CASE status[t] = "pending" /\ \A u \in Live : t <= u
  BY <1>2 DEF Live, Complete, GiveUp, rowVars, bootVars, history
<1>3. QED
  BY <1>1, <1>2 DEF Complete, GiveUp

LEMMA ChainKept ==
    ASSUME TypeOK, Chain, [Next]_vars
    PROVE  Chain'
<1>1. ASSUME NEW S \in SUBSET cached, NEW on \in SUBSET Flags,
             NEW off \in SUBSET Flags, Accept(S, on, off)
      PROVE  Chain'
  <2>1. PICK n \in TaskIds : n = count + 1
    BY <1>1, NextRow
  <2>2. /\ count' = n /\ status'[n] = "pending"
        /\ \A t \in TaskIds \ {n} : status'[t] = status[t]
        /\ Live' = Live \cup {n} /\ \A t \in Live : t < n
    BY <1>1, <2>1, AcceptRow
  <2>3. \A t \in TaskIds \ {n} : delta'[t] = delta[t]
    BY <1>1, <2>1, AcceptDelta
  <2>4. count \in Nat /\ n = count + 1 /\ \A t \in TaskIds : t \in Nat
    BY <2>1 DEF TypeOK, TaskIds
  <2>5. ASSUME NEW t \in TaskIds
        PROVE  /\ status'[t] = "absent" <=> t > count'
               /\ t > count' => \A m \in Messages : delta'[t][m] = NoDelta
    <3>1. CASE t = n
      BY <2>2, <2>4, <3>1
    <3>2. CASE t # n
      BY <2>2, <2>3, <2>4, <3>2 DEF Chain
    <3>3. QED
      BY <3>1, <3>2
  <2>6. \A t \in TaskIds : status'[t] = "running" => \A u \in Live' : t <= u
    BY <2>2, <2>4 DEF Chain, Live
  <2>7. QED
    BY <2>5, <2>6 DEF Chain
<1>2. ASSUME NEW t \in TaskIds, Begin(t) PROVE Chain'
  <2>1. /\ t \in Live /\ status' = [status EXCEPT ![t] = "running"]
        /\ UNCHANGED <<count, delta>> /\ \A u \in Live : t <= u
    BY <1>2 DEF Begin, Live
  <2>2. QED
    BY <2>1, StirredRow DEF Chain, Live
<1>3. ASSUME NEW t \in TaskIds, Retry(t) PROVE Chain'
  <2>1. /\ t \in Live /\ status' = [status EXCEPT ![t] = "pending"]
        /\ UNCHANGED <<count, delta>>
    BY <1>3 DEF Retry, Live
  <2>2. QED
    BY <2>1, StirredRow DEF Chain, Live
<1>4. ASSUME NEW t \in TaskIds, Complete(t) \/ GiveUp(t) PROVE Chain'
  <2>1. PICK s \in {"completed", "failed"}, first \in {"clear", "revert"} :
           Settled(t, s, first)
    BY <1>4 DEF Complete, GiveUp
  <2>2. t \in Live /\ UNCHANGED <<count, delta>>
    BY <1>4, HeadSettles
  <2>3. QED
    BY <2>1, <2>2, SettledRow DEF Chain, Live
<1>5. CASE Resume
  BY <1>5, ResumedRows DEF Chain, Resume
<1>6. CASE UNCHANGED taskVars
  BY <1>6 DEF Chain, Live, taskVars
<1>7. QED
  BY <1>1, <1>2, <1>3, <1>4, <1>5, <1>6
     DEF Next, Attempt, Settle, Booting, Filter, Store, Revert, Clear, ReplayNext,
         ReplayEnds, Sweep, Boot, FilterStores, FilterWrites, FilterFails, Fetch,
         Refresh, Reset, FilterPlans, OtherClient, Rebuild, Spoil, Crash, vars

\* The rows stay as they are in every other step.
LEMMA SameRows ==
    ASSUME UNCHANGED taskVars
    PROVE  /\ Live' = Live /\ Terminal' = Terminal /\ Protected' = Protected
           /\ \A t \in TaskIds : Named(t)' = Named(t) /\ status'[t] = status[t]
BY DEF taskVars, Live, Terminal, Protected, Named

LEMMA AttemptedKept ==
    ASSUME TypeOK, Chain, Attempted, [Next]_vars
    PROVE  Attempted'
<1>1. MaxAttempts \in Nat \ {0} /\ crashes \in Nat /\ tries \in Nat
  BY DEF TypeOK
<1>2. ASSUME NEW S \in SUBSET cached, NEW on \in SUBSET Flags,
             NEW off \in SUBSET Flags, Accept(S, on, off)
      PROVE  Attempted'
  <2>1. PICK n \in TaskIds : n = count + 1
    BY <1>2, NextRow
  <2>2. /\ status'[n] = "pending" /\ status[n] = "absent"
        /\ \A t \in TaskIds \ {n} : status'[t] = status[t]
    BY <1>2, <2>1, AcceptRow
  <2>3. \A t \in TaskIds \ {n} : Named(t)' = Named(t)
    BY <1>2, <2>1, AcceptDelta
  <2>4. UNCHANGED <<tries, pushed, phase, crashes>>
    BY <1>2 DEF Accept, runVars, bootVars, bounds
  <2>5. QED
    BY <2>2, <2>3, <2>4 DEF Attempted
<1>3. ASSUME NEW t \in TaskIds, Begin(t) PROVE Attempted'
  <2>1. /\ t \in Live /\ status' = [status EXCEPT ![t] = "running"]
        /\ UNCHANGED <<count, delta>>
    BY <1>3 DEF Begin, Live
  <2>2. status'[t] = "running" /\ phase' = "up" /\ pushed' = {} /\ UNCHANGED crashes
    BY <1>3, <2>1, StirredRow DEF Begin, Idle, bootVars, bounds
  <2>3. \A u \in TaskIds : status[u] # "running"
    BY <1>3, NoneRuns DEF Begin
  <2>4. tries < MaxAttempts + crashes
    BY <2>3 DEF Attempted
  <2>5. tries' <= MaxAttempts + crashes'
    BY <1>1, <1>3, <2>2, <2>4 DEF Begin
  <2>6. QED
    BY <2>2, <2>5 DEF Attempted
<1>4. ASSUME NEW t \in TaskIds, NEW m \in Messages, Store(t, m) PROVE Attempted'
  <2>1. /\ UNCHANGED <<taskVars, tries, phase, crashes>> /\ status[t] = "running"
        /\ pushed' = pushed \cup {m} /\ m \in Named(t)
    BY <1>4 DEF Store, bootVars, bounds
  <2>2. \A u \in TaskIds : Named(u)' = Named(u) /\ status'[u] = status[u]
    BY <2>1, SameRows
  <2>3. \A u \in TaskIds : status[u] = "running" => u = t
    BY <2>1, OneRuns
  <2>4. QED
    BY <2>1, <2>2, <2>3 DEF Attempted
<1>5. ASSUME NEW t \in TaskIds, Complete(t) \/ GiveUp(t) PROVE Attempted'
  <2>1. tries' = 0 /\ pushed' = {} /\ UNCHANGED crashes
    BY <1>5 DEF Complete, GiveUp, Settled, bounds
  <2>2. QED
    BY <1>1, <2>1 DEF Attempted
<1>6. ASSUME NEW t \in TaskIds, Retry(t) PROVE Attempted'
  <2>1. /\ t \in Live /\ status' = [status EXCEPT ![t] = "pending"]
        /\ UNCHANGED <<count, delta, tries, pushed, crashes>> /\ tries < MaxAttempts
    BY <1>6 DEF Retry, Live, runVars, bounds
  <2>2. /\ status'[t] = "pending" /\ \A u \in TaskIds : u # t => status'[u] = status[u]
        /\ \A u \in TaskIds : Named(u)' = Named(u)
    BY <2>1, StirredRow
  <2>3. \A u \in TaskIds : status'[u] = "running" => pushed' \subseteq Named(u)'
    BY <2>1, <2>2 DEF Attempted
  <2>4. tries' < MaxAttempts + crashes'
    BY <1>1, <2>1
  <2>5. tries' <= MaxAttempts + crashes'
    BY <1>1, <2>1
  <2>6. QED
    BY <2>3, <2>4, <2>5 DEF Attempted
<1>7. CASE Resume
  <2>1. \A u \in TaskIds : status'[u] # "running"
    BY <1>7, ResumedRows
  <2>2. phase = "resume" /\ UNCHANGED <<tries, crashes>>
    BY <1>7 DEF Resume, runVars, bounds
  <2>3. QED
    BY <1>1, <2>1, <2>2 DEF Attempted
<1>8. CASE Crash
  <2>1. /\ crashes' = crashes + 1 /\ UNCHANGED tries /\ pushed' = {}
    BY <1>8 DEF Crash
  <2>2. tries <= MaxAttempts + crashes
    BY DEF Attempted
  <2>3. tries' < MaxAttempts + crashes'
    BY <1>1, <2>1, <2>2
  <2>4. tries' <= MaxAttempts + crashes'
    BY <1>1, <2>1, <2>2
  <2>5. QED
    BY <2>1, <2>3, <2>4 DEF Attempted
<1>9. CASE /\ UNCHANGED <<taskVars, tries, pushed, crashes>>
           /\ UNCHANGED phase \/ phase # "up"
  BY <1>9, SameRows DEF Attempted
<1>10. QED
  BY <1>2, <1>3, <1>4, <1>5, <1>6, <1>7, <1>8, <1>9
     DEF Next, Attempt, Settle, Booting, Filter, Revert, Clear, ReplayNext,
         ReplayEnds, Sweep, Boot, FilterStores, FilterWrites, FilterFails, Fetch,
         Refresh, Reset, FilterPlans, OtherClient, Rebuild, Spoil, vars, runVars,
         bootVars, bounds

-----------------------------------------------------------------------------
(* Settlement obligations, and the write of a filter rule.                 *)

LEMMA ObligedKept ==
    ASSUME TypeOK, Chain, Obliged, [Next]_vars
    PROVE  Obliged'
<1>1. ASSUME NEW S \in SUBSET cached, NEW on \in SUBSET Flags,
             NEW off \in SUBSET Flags, Accept(S, on, off)
      PROVE  Obliged'
  BY <1>1 DEF Obliged, Accept, Idle, jobVars
<1>2. ASSUME NEW t \in TaskIds, Begin(t) \/ Retry(t) PROVE Obliged'
  BY <1>2 DEF Obliged, Begin, Retry, Idle, jobVars
<1>3. ASSUME NEW t \in TaskIds, Complete(t) PROVE Obliged'
  <2>1. /\ t \in Live /\ Settled(t, "completed", "clear") /\ UNCHANGED <<count, delta>>
        /\ phase' = "up"
    BY <1>3, HeadSettles DEF Complete, Idle, bootVars
  <2>2. job' = t /\ stage' = "clear" /\ t \in Terminal'
    BY <2>1, SettledRow
  <2>3. QED
    BY <2>1, <2>2 DEF Obliged
<1>4. ASSUME NEW t \in TaskIds, GiveUp(t) PROVE Obliged'
  <2>1. /\ t \in Live /\ Settled(t, "failed", "revert") /\ UNCHANGED <<count, delta>>
        /\ phase' = "up"
    BY <1>4, HeadSettles DEF GiveUp, Idle, bootVars
  <2>2. job' = t /\ status'[t] = "failed" /\ t \in Terminal'
    BY <2>1, SettledRow
  <2>3. QED
    BY <2>1, <2>2 DEF Obliged
<1>5. CASE ReplayNext
  <2>1. PICK t \in Terminal : /\ job' = t /\ replayed' = t
                              /\ stage' = IF status[t] = "completed" THEN "clear" ELSE "revert"
    BY <1>5 DEF ReplayNext
  <2>2. UNCHANGED taskVars /\ phase' = "replay"
    BY <1>5 DEF ReplayNext
  <2>3. stage' = "revert" => status[t] = "failed"
    BY <2>1 DEF Terminal
  <2>4. QED
    BY <2>1, <2>2, <2>3, SameRows DEF Obliged, Terminal
<1>6. CASE Revert \/ Clear
  BY <1>6, SameRows DEF Obliged, Revert, Clear, bootVars, taskVars
<1>7. CASE ReplayEnds \/ Sweep \/ Boot \/ Resume
  BY <1>7 DEF Obliged, ReplayEnds, Sweep, Boot, Resume, jobVars
<1>8. CASE Crash
  BY <1>8 DEF Obliged, Crash
<1>9. CASE UNCHANGED <<taskVars, phase, replayed, jobVars>>
  BY <1>9, SameRows DEF Obliged, jobVars, taskVars
<1>10. QED
  BY <1>1, <1>2, <1>3, <1>4, <1>5, <1>6, <1>7, <1>8, <1>9
     DEF Next, Attempt, Settle, Booting, Filter, Store, FilterStores, FilterWrites,
         FilterFails, Fetch, Refresh, Reset, FilterPlans, OtherClient, Rebuild, Spoil,
         vars, bootVars

LEMMA SpoiltKept ==
    ASSUME TypeOK, Chain, Obliged, Spoilt, [Next]_vars
    PROVE  Spoilt'
<1>1. 1..count \subseteq TaskIds
  BY DEF TypeOK, TaskIds
<1>2. ASSUME NEW S \in SUBSET cached, NEW on \in SUBSET Flags,
             NEW off \in SUBSET Flags, Accept(S, on, off)
      PROVE  Spoilt'
  <2>1. PICK n \in TaskIds : n = count + 1
    BY <1>2, NextRow
  <2>2. /\ count' = n /\ status'[n] = "pending"
        /\ \A t \in TaskIds \ {n} : status'[t] = status[t]
    BY <1>2, <2>1, AcceptRow
  <2>3. \A t \in TaskIds \ {n} : Named(t)' = Named(t)
    BY <1>2, <2>1, AcceptDelta
  <2>4. stranded' \subseteq stranded /\ UNCHANGED <<phase, unreadable>>
    BY <1>2 DEF Accept, bootVars
  <2>5. 1..count \subseteq (1..count') /\ 1..count \subseteq TaskIds \ {n}
    BY <2>1, <2>2, <1>1 DEF TypeOK
  <2>6. \A m \in stranded' : \E t \in 1..count' : m \in Named(t)'
    BY <2>3, <2>4, <2>5 DEF Spoilt
  <2>7. QED
    BY <2>2, <2>4, <2>6 DEF Spoilt
<1>3. ASSUME NEW t \in TaskIds, Begin(t) \/ Retry(t) \/ Complete(t) \/ GiveUp(t)
      PROVE  Spoilt'
  <2>1. PICK s \in {"pending", "running", "completed", "failed"} :
           /\ status' = [status EXCEPT ![t] = s]
           /\ s = "running" => t \notin unreadable
    BY <1>3 DEF Begin, Retry, Complete, GiveUp, Settled
  <2>2. UNCHANGED <<count, delta, phase, unreadable, stranded>> /\ phase = "up"
    BY <1>3 DEF Begin, Retry, Complete, GiveUp, Idle, bootVars, history
  <2>3. \A u \in TaskIds : status'[u] = "running" => u \notin unreadable
    BY <2>1, <2>2 DEF TypeOK, Spoilt
  <2>4. \A u \in TaskIds : Named(u)' = Named(u)
    BY <2>2 DEF Named
  <2>5. QED
    BY <1>1, <2>2, <2>3, <2>4 DEF Spoilt
<1>4. CASE Revert
  <2>1. /\ UNCHANGED <<taskVars, phase, unreadable>> /\ job # 0
        /\ stranded' = stranded \cup Stranded(job)
    BY <1>4 DEF Revert, bootVars
  <2>2. job \in 1..count
    BY <2>1 DEF Obliged, TypeOK, Chain, Terminal, TaskIds
  <2>3. Stranded(job) \subseteq Named(job)
    BY DEF Stranded
  <2>4. UNCHANGED count /\ \A u \in TaskIds : Named(u)' = Named(u) /\ status'[u] = status[u]
    BY <2>1, SameRows DEF taskVars
  <2>5. QED
    BY <1>1, <2>1, <2>2, <2>3, <2>4 DEF Spoilt
<1>5. CASE Resume
  <2>1. \A u \in TaskIds : status'[u] # "running" /\ Named(u)' = Named(u)
    BY <1>5, ResumedRows
  <2>2. UNCHANGED <<count, stranded>>
    BY <1>5 DEF Resume, history
  <2>3. QED
    BY <1>1, <2>1, <2>2 DEF Spoilt
<1>6. CASE /\ UNCHANGED taskVars
           /\ UNCHANGED <<phase, unreadable>> \/ phase' # "up"
           /\ stranded' \subseteq stranded
  <2>1. UNCHANGED count /\ \A u \in TaskIds : Named(u)' = Named(u) /\ status'[u] = status[u]
    BY <1>6, SameRows DEF taskVars
  <2>2. QED
    BY <1>1, <1>6, <2>1 DEF Spoilt
<1>7. QED
  BY <1>2, <1>3, <1>4, <1>5, <1>6
     DEF Next, Attempt, Settle, Booting, Filter, Store, Clear, ReplayNext, ReplayEnds,
         Sweep, Boot, FilterStores, FilterWrites, FilterFails, Fetch, Refresh, Reset,
         FilterPlans, OtherClient, Rebuild, Spoil, Crash, vars, bootVars, history

LEMMA FromFilterKept ==
    ASSUME TypeOK, FromFilter, [Next]_vars
    PROVE  FromFilter'
<1>1. ASSUME NEW m \in Messages, NEW on \in SUBSET Flags, FilterPlans(m, on)
      PROVE  FromFilter'
  BY <1>1 DEF FromFilter, FilterPlans
<1>2. CASE FilterStores
  <2>1. filter \in Writes /\ filter' = [filter EXCEPT !.stored = TRUE]
    BY <1>2 DEF TypeOK, FilterStores
  <2>2. filter'.message = filter.message /\ filter # NoWrite
    BY <1>2, <2>1 DEF Writes, FilterStores
  <2>3. QED
    BY <2>2 DEF FromFilter
<1>3. CASE UNCHANGED filter \/ filter' = NoWrite
  BY <1>3 DEF FromFilter
<1>4. CASE Attempt \/ Settle \/ Booting
  BY <1>3, <1>4
     DEF Attempt, Settle, Booting, Begin, Store, Complete, Retry, GiveUp, Revert, Clear,
         ReplayNext, ReplayEnds, Sweep, Resume, Boot
<1>5. ASSUME NEW S \in SUBSET Messages, NEW on, NEW off, Accept(S, on, off)
      PROVE  FromFilter'
  BY <1>3, <1>5 DEF Accept
<1>6. CASE Crash \/ Rebuild \/ Reset \/ FilterWrites \/ FilterFails \/ UNCHANGED vars
  BY <1>3, <1>6 DEF Crash, Rebuild, Reset, FilterWrites, FilterFails, vars
<1>7. ASSUME NEW m \in Messages, Fetch(m) \/ Refresh(m)
      PROVE  FromFilter'
  BY <1>3, <1>7 DEF Fetch, Refresh
<1>8. ASSUME NEW m \in Messages, NEW f, OtherClient(m, f)
      PROVE  FromFilter'
  BY <1>3, <1>8 DEF OtherClient
<1>9. ASSUME NEW t \in TaskIds, Spoil(t)
      PROVE  FromFilter'
  BY <1>3, <1>9 DEF Spoil
<1>10. QED
  BY <1>1, <1>2, <1>4, <1>5, <1>6, <1>7, <1>8, <1>9 DEF Next, Filter

-----------------------------------------------------------------------------
(* Markers and targets.                                                    *)

\* What a live task names is protected, and a rollback spares it.
LEMMA LiveIsProtected ==
    ASSUME NEW t \in Live, NEW m \in Named(t)
    PROVE  m \in Protected /\ \A u : m \notin Refused(u)
BY DEF Protected, Refused, Named

\* An attempt that begins or is put back moves no protection.
LEMMA StirredProtection ==
    ASSUME TypeOK, NEW t \in TaskIds, Begin(t) \/ Retry(t)
    PROVE  /\ Live' = Live /\ Terminal' = Terminal /\ Protected' = Protected
           /\ \A u \in TaskIds : /\ Named(u)' = Named(u)
                                 /\ u \notin Live => status'[u] = status[u]
           /\ UNCHANGED <<cached, flags, marked, base, rebuilt, known, count, delta, phase,
                          replayed, job, stage, unreadable, stranded>>
<1>1. PICK s \in {"pending", "running"} : status' = [status EXCEPT ![t] = s]
  BY DEF Begin, Retry
<1>2. t \in Live /\ UNCHANGED <<count, delta>>
  BY DEF Begin, Retry, Live
<1>3. /\ Live' = Live /\ Terminal' = Terminal
      /\ \A u \in TaskIds : /\ Named(u)' = Named(u)
                            /\ u \notin Live => status'[u] = status[u]
  BY <1>1, <1>2, StirredRow
<1>4. Live \subseteq TaskIds
  BY DEF Live
<1>5. Protected' = Protected
  BY <1>3, <1>4 DEF Protected
<1>6. QED
  BY <1>2, <1>3, <1>5 DEF Begin, Retry, rowVars, bootVars, jobVars, history

LEMMA ResumedProtection ==
    ASSUME TypeOK, Resume
    PROVE  Protected' = Protected
<1>1. Live' = Live /\ \A u \in TaskIds : Named(u)' = Named(u)
  BY ResumedRows
<1>2. QED
  BY <1>1 DEF Protected, Live

LEMMA MarkedKept ==
    ASSUME TypeOK, Chain, Obliged, Spoilt, Marked, [Next]_vars
    PROVE  Marked'
<1>1. Live \subseteq TaskIds /\ (job # 0 => job \in TaskIds)
  BY DEF Live, TypeOK, TaskIds
<1>2. ASSUME NEW S \in SUBSET cached, NEW on \in SUBSET Flags,
             NEW off \in SUBSET Flags, Accept(S, on, off)
      PROVE  Marked'
  <2>1. PICK n \in TaskIds : n = count + 1
    BY <1>2, NextRow
  <2>2. Live' = Live \cup {n} /\ status[n] = "absent"
    BY <1>2, <2>1, AcceptRow
  <2>3. n \notin Live
    BY <2>2 DEF Live
  <2>4. marked' = marked \cup Named(n)'
    BY <1>2, <2>1, AcceptDelta
  <2>5. \A t \in TaskIds \ {n} : Named(t)' = Named(t)
    BY <1>2, <2>1, AcceptDelta
  <2>6. Idle /\ UNCHANGED <<cached, phase, job>>
    BY <1>2 DEF Accept, Idle, bootVars, jobVars
  <2>7. Protected' = Protected \cup Named(n)'
    <3>1. \A m \in Messages : (\E t \in Live' : m \in Named(t)')
                              <=> m \in Named(n)' \/ \E t \in Live : m \in Named(t)
      BY <1>1, <2>2, <2>3, <2>5
    <3>2. Named(n)' \subseteq Messages
      BY DEF Named
    <3>3. QED
      BY <3>1, <3>2 DEF Protected
  <2>8. \A t \in Live' : Named(t)' \cap cached' \subseteq marked'
    BY <1>1, <2>2, <2>3, <2>4, <2>5, <2>6 DEF Marked
  <2>9. marked' \subseteq Protected' \cup stranded'
    <3>1. stranded' = stranded \ Named(n)'
      BY <1>2, <2>1, AcceptDelta
    <3>2. stranded \subseteq stranded' \cup Named(n)'
      BY <3>1
    <3>3. QED
      BY <2>4, <2>6, <2>7, <3>2 DEF Marked
  <2>10. job' = 0
    BY <2>6 DEF Idle
  <2>11. QED
    BY <2>8, <2>9, <2>10 DEF Marked
<1>3. ASSUME NEW t \in TaskIds, Begin(t) \/ Retry(t) PROVE Marked'
  <2>1. Idle /\ Idle'
    BY <1>3, StirredProtection DEF Begin, Retry, Idle
  <2>2. QED
    BY <1>1, <1>3, <2>1, StirredProtection DEF Marked, Idle
<1>4. ASSUME NEW t \in TaskIds, Complete(t) \/ GiveUp(t) PROVE Marked'
  <2>1. PICK s \in {"completed", "failed"}, first \in {"clear", "revert"} :
           Settled(t, s, first)
    BY <1>4 DEF Complete, GiveUp
  <2>2. /\ t \in Live /\ Idle /\ UNCHANGED <<count, delta, phase, cached, marked>>
    BY <1>4, HeadSettles
  <2>3. /\ Live' = Live \ {t} /\ job' = t
        /\ \A u \in TaskIds : Named(u)' = Named(u)
    BY <2>1, <2>2, SettledRow
  <2>4. Protected \subseteq Protected' \cup Named(t)'
    BY <1>1, <2>3 DEF Protected
  <2>5. marked' \subseteq Protected' \cup stranded' \cup Named(t)'
    BY <1>4, <2>2, <2>4 DEF Marked, Complete, GiveUp, history
  <2>6. job' # 0 /\ phase' = "up"
    BY <2>2, <2>3 DEF Idle, TaskIds
  <2>7. \A u \in Live' : Named(u)' \cap cached' \subseteq marked'
    BY <1>1, <2>2, <2>3 DEF Marked
  <2>8. Named(job)' = Named(t)' /\ (stage' # "revert" => Opened(job)' = Named(t)')
    <3>1. Named(job)' = Named(t)'
      BY <2>3 DEF Named
    <3>2. CASE GiveUp(t)
      BY <3>1, <3>2 DEF GiveUp, Settled
    <3>3. CASE Complete(t)
      <4>1. t \notin unreadable /\ UNCHANGED unreadable
        BY <3>3 DEF Complete, Spoilt, Idle, bootVars
      <4>2. QED
        BY <2>3, <3>1, <4>1 DEF Opened
    <3>4. QED
      BY <1>4, <3>2, <3>3
  <2>9. QED
    BY <2>5, <2>6, <2>7, <2>8 DEF Marked, Idle
<1>5. CASE Revert
  <2>1. /\ UNCHANGED <<taskVars, cached, phase, unreadable, job>> /\ job # 0
        /\ marked' = marked \ Refused(job) /\ stage = "revert" /\ stage' = "clear"
        /\ stranded' = stranded \cup Stranded(job)
    BY <1>5 DEF Revert, bootVars
  <2>2. phase # "resume" /\ job \in TaskIds
    BY <2>1 DEF Obliged, Terminal
  <2>3. /\ Live' = Live /\ Protected' = Protected
        /\ \A u \in TaskIds : Named(u)' = Named(u)
    BY <2>1, SameRows
  <2>4. \A u \in Live' : Named(u)' \cap cached' \subseteq marked'
    BY <1>1, <2>1, <2>3, LiveIsProtected DEF Marked
  <2>5. phase' = "up" => marked' \subseteq Protected' \cup stranded' \cup Opened(job)'
    <3>1. HAVE phase' = "up"
    <3>2. marked \subseteq Protected \cup stranded \cup Named(job)
      BY <2>1, <3>1 DEF Marked
    <3>3. marked \cap Named(job) \subseteq Protected \cup Stranded(job) \cup Opened(job)
      BY DEF Stranded
    <3>4. Opened(job)' = Opened(job)
      BY <2>1, <2>2, <2>3 DEF Opened
    <3>5. QED
      BY <2>1, <2>3, <3>2, <3>3, <3>4
  <2>6. QED
    BY <2>1, <2>2, <2>4, <2>5 DEF Marked, Idle
<1>6. CASE Clear
  <2>1. /\ UNCHANGED <<taskVars, cached, phase, stranded>> /\ job # 0 /\ job' = 0
        /\ marked' = marked \ (Opened(job) \ Protected) /\ stage = "clear"
    BY <1>6 DEF Clear, bootVars, history
  <2>2. phase \in {"replay", "up"}
    BY <2>1 DEF Obliged
  <2>3. /\ Live' = Live /\ Protected' = Protected
        /\ \A u \in TaskIds : Named(u)' = Named(u)
    BY <2>1, SameRows
  <2>4. \A u \in Live' : Named(u)' \cap cached' \subseteq marked'
    BY <1>1, <2>1, <2>3, LiveIsProtected DEF Marked
  <2>5. phase' = "up" => marked' \subseteq Protected' \cup stranded'
    BY <2>1, <2>3 DEF Marked
  <2>6. QED
    BY <2>1, <2>2, <2>4, <2>5 DEF Marked, Idle
<1>7. CASE ReplayNext \/ ReplayEnds \/ Boot \/ Crash \/ \E t \in TaskIds : Spoil(t)
  <2>1. /\ UNCHANGED <<taskVars, cached, marked>> /\ phase' \notin {"up", "resume"}
    BY <1>7 DEF ReplayNext, ReplayEnds, Boot, Crash, Spoil, rowVars
  <2>2. Live' = Live /\ \A u \in TaskIds : Named(u)' = Named(u)
    BY <2>1, SameRows
  <2>3. \A u \in Live' : Named(u)' \cap cached' \subseteq marked'
    BY <1>1, <2>1, <2>2 DEF Marked
  <2>4. QED
    BY <2>1, <2>3 DEF Marked, Idle
<1>8. CASE Sweep
  <2>1. /\ UNCHANGED <<taskVars, cached>> /\ phase' = "resume"
        /\ marked' = marked \cap Protected
    BY <1>8 DEF Sweep
  <2>2. /\ Live' = Live /\ Protected' = Protected
        /\ \A u \in TaskIds : Named(u)' = Named(u)
    BY <2>1, SameRows
  <2>3. \A u \in Live' : Named(u)' \cap cached' \subseteq marked'
    BY <1>1, <2>1, <2>2, LiveIsProtected DEF Marked
  <2>4. QED
    BY <2>1, <2>2, <2>3 DEF Marked
<1>9. CASE Resume
  <2>1. UNCHANGED <<cached, marked, job, stranded>> /\ phase = "resume"
    BY <1>9 DEF Resume, rowVars, jobVars, history
  <2>2. job' = 0
    BY <2>1 DEF Obliged
  <2>3. /\ Live' = Live /\ Protected' = Protected
        /\ \A u \in TaskIds : Named(u)' = Named(u)
    BY <1>9, ResumedRows, ResumedProtection
  <2>4. QED
    BY <1>1, <2>1, <2>2, <2>3 DEF Marked
<1>10. CASE Reset
  BY <1>10 DEF Marked, Reset
<1>11. CASE /\ UNCHANGED <<taskVars, cached, marked, phase, unreadable, job, stage>>
            /\ marked \cap stranded \subseteq stranded'
  <2>1. /\ Live' = Live /\ Protected' = Protected
        /\ \A u \in TaskIds : Named(u)' = Named(u)
    BY <1>11, SameRows
  <2>2. job # 0 => Named(job)' = Named(job) /\ Opened(job)' = Opened(job)
    BY <1>1, <1>11, <2>1 DEF Opened
  <2>3. QED
    BY <1>1, <1>11, <2>1, <2>2 DEF Marked, Idle
<1>12. QED
  BY <1>2, <1>3, <1>4, <1>5, <1>6, <1>7, <1>8, <1>9, <1>10, <1>11
     DEF Next, Attempt, Settle, Booting, Filter, Store, FilterStores, FilterWrites,
         FilterFails, Fetch, Refresh, Overwrites, FilterPlans, OtherClient, Rebuild, vars,
         rowVars, bootVars, jobVars, history

LEMMA TargetKept ==
    ASSUME TypeOK, Chain, Marked, FromFilter, TargetShown, [Next]_vars
    PROVE  TargetShown'
<1>1. Live \subseteq TaskIds /\ \A t \in TaskIds : t \in Nat
  BY DEF Live, TaskIds
<1>2. ASSUME NEW S \in SUBSET cached, NEW on \in SUBSET Flags,
             NEW off \in SUBSET Flags, Accept(S, on, off)
      PROVE  TargetShown'
  <2>1. PICK n \in TaskIds : n = count + 1
    BY <1>2, NextRow
  <2>2. Live' = Live \cup {n} /\ \A t \in Live : t < n
    BY <1>2, <2>1, AcceptRow
  <2>3. \A t \in TaskIds \ {n} : delta'[t] = delta[t] /\ Named(t)' = Named(t)
    BY <1>2, <2>1, AcceptDelta
  <2>4. \A m \in Messages : /\ delta'[n][m] \in Deltas
                            /\ flags'[m] = Apply(delta'[n][m], flags[m])
    BY <1>2, <2>1, AcceptDelta
  <2>5. cached' = cached
    BY <1>2 DEF Accept
  <2>6. SUFFICES ASSUME NEW t \in Live', NEW m \in (Named(t)' \cap cached') \ Filtered,
                        \A u \in Live' : m \in Named(u)' => u <= t
                 PROVE  Apply(delta'[t][m], flags'[m]) = flags'[m]
    BY DEF TargetShown
  <2>7. m \in Messages /\ flags[m] \in SUBSET Flags
    BY DEF TypeOK, Named
  <2>8. CASE t = n
    BY <2>4, <2>7, <2>8, ApplyFacts
  <2>9. CASE t # n
    <3>1. t \in Live /\ t \in TaskIds \ {n} /\ t < n
      BY <1>1, <2>2, <2>9
    <3>2. m \notin Named(n)'
      BY <1>1, <2>2, <2>6, <3>1
    <3>3. flags'[m] = flags[m]
      BY <2>4, <2>7, <3>2, ApplyFacts DEF Named
    <3>4. \A u \in Live : m \in Named(u) => u <= t
      BY <1>1, <2>2, <2>3, <2>6
    <3>5. m \in (Named(t) \cap cached) \ Filtered
      BY <2>3, <2>5, <3>1
    <3>6. QED
      BY <2>3, <3>1, <3>3, <3>4, <3>5 DEF TargetShown
  <2>10. QED
    BY <2>8, <2>9
<1>3. ASSUME NEW t \in TaskIds, Begin(t) \/ Retry(t) PROVE TargetShown'
  BY <1>1, <1>3, StirredProtection DEF TargetShown
<1>4. ASSUME NEW t \in TaskIds, Complete(t) \/ GiveUp(t) PROVE TargetShown'
  <2>1. PICK s \in {"completed", "failed"}, first \in {"clear", "revert"} :
           Settled(t, s, first)
    BY <1>4 DEF Complete, GiveUp
  <2>2. /\ t \in Live /\ \A u \in Live : t <= u
        /\ UNCHANGED <<count, delta, cached, flags>>
    BY <1>4, HeadSettles
  <2>3. /\ Live' = Live \ {t} /\ \A u \in TaskIds : Named(u)' = Named(u)
    BY <2>1, <2>2, SettledRow
  <2>4. QED
    BY <1>1, <2>2, <2>3 DEF TargetShown
<1>5. CASE Revert
  <2>1. /\ UNCHANGED <<taskVars, cached>>
        /\ flags' = [m \in Messages |-> IF m \in Refused(job) THEN base[m] ELSE flags[m]]
    BY <1>5 DEF Revert
  <2>2. Live' = Live /\ \A u \in TaskIds : Named(u)' = Named(u)
    BY <2>1, SameRows
  <2>3. \A t \in Live : \A m \in Named(t) : flags'[m] = flags[m]
    BY <2>1, LiveIsProtected DEF Named
  <2>4. QED
    BY <1>1, <2>1, <2>2, <2>3 DEF TargetShown, taskVars
<1>6. ASSUME NEW m \in Messages, Refresh(m) PROVE TargetShown'
  <2>1. /\ UNCHANGED <<taskVars, cached>>
        /\ \A i \in Messages : i # m \/ m \notin cached \ marked => flags'[i] = flags[i]
    BY <1>6 DEF Refresh, Overwrites, TypeOK
  <2>2. Live' = Live /\ \A u \in TaskIds : Named(u)' = Named(u)
    BY <2>1, SameRows
  <2>3. \A t \in Live : \A i \in Named(t) \cap cached : flags'[i] = flags[i]
    BY <2>1 DEF Marked, Named
  <2>4. QED
    BY <1>1, <2>1, <2>2, <2>3 DEF TargetShown, taskVars
<1>7. CASE FilterWrites
  <2>1. /\ UNCHANGED <<taskVars, cached>> /\ filter.message \in Filtered
        /\ \A i \in Messages : i # filter.message => flags'[i] = flags[i]
    BY <1>7 DEF FilterWrites, FromFilter, TypeOK
  <2>2. Live' = Live /\ \A u \in TaskIds : Named(u)' = Named(u)
    BY <2>1, SameRows
  <2>3. \A t \in Live : \A i \in Named(t) \ Filtered : flags'[i] = flags[i]
    BY <2>1 DEF Named
  <2>4. QED
    BY <1>1, <2>1, <2>2, <2>3 DEF TargetShown, taskVars
<1>8. CASE Reset
  BY <1>8 DEF TargetShown, Reset
<1>9. CASE Resume
  <2>1. UNCHANGED <<cached, flags, delta>>
    BY <1>9 DEF Resume, rowVars
  <2>2. Live' = Live /\ \A u \in TaskIds : Named(u)' = Named(u)
    BY <1>9, ResumedRows
  <2>3. QED
    BY <1>1, <2>1, <2>2 DEF TargetShown
<1>10. CASE UNCHANGED <<taskVars, cached, flags>>
  <2>1. Live' = Live /\ \A u \in TaskIds : Named(u)' = Named(u)
    BY <1>10, SameRows
  <2>2. QED
    BY <1>1, <1>10, <2>1 DEF TargetShown, taskVars
<1>11. QED
  BY <1>2, <1>3, <1>4, <1>5, <1>6, <1>7, <1>8, <1>9, <1>10
     DEF Next, Attempt, Settle, Booting, Filter, Store, Clear, ReplayNext, ReplayEnds,
         Sweep, Boot, FilterStores, FilterFails, Fetch, FilterPlans, OtherClient,
         Rebuild, Spoil, Crash, vars, rowVars

-----------------------------------------------------------------------------
(* What the rows show.                                                     *)

\* A task names messages only once it is committed.
LEMMA Committed ==
    ASSUME TypeOK, Chain
    PROVE  /\ Live \subseteq 1..count /\ Terminal \subseteq 1..count
           /\ 1..count \subseteq TaskIds
BY DEF TypeOK, Chain, Live, Terminal, TaskIds

\* The tasks and the cache decide whom a message belongs to, so a step that
\* commits no task is right when it keeps what each row shows.
LEMMA ShownStep ==
    ASSUME TypeOK, Chain, Shown,
           \A u \in TaskIds : Named(u)' = Named(u), UNCHANGED count,
           cached' \subseteq cached, stranded \subseteq stranded',
           \A m \in cached' \ (Inherited \cup Filtered \cup stranded') :
              Untouched(m) /\ flags[m] = known[m] => flags'[m] = known'[m],
           \A m \in cached' \ (Inherited \cup Filtered \cup stranded') : \A t \in 1..count :
              Sole(m, t) /\ ShownBy(m, t) => ShownBy(m, t)'
    PROVE  Shown'
<1>1. 1..count \subseteq TaskIds
  BY Committed
<1>2. \A m \in Messages : /\ Untouched(m)' => Untouched(m)
                          /\ \A t \in 1..count : Sole(m, t)' => Sole(m, t)
  BY <1>1 DEF Untouched, Sole
<1>3. cached' \subseteq Messages
  BY DEF TypeOK
<1>4. ASSUME NEW m \in cached' \ (Inherited \cup Filtered \cup stranded')
      PROVE  /\ Untouched(m)' => flags'[m] = known'[m]
             /\ \A t \in 1..count : Sole(m, t)' => ShownBy(m, t)'
  BY <1>2, <1>3, <1>4 DEF Shown
<1>5. QED
  BY <1>4 DEF Shown

\* A task whose columns are the same shows in a row that is the same, as long
\* as a rollback to come is still to come.
LEMMA ShownByKept ==
    ASSUME NEW m \in Messages, NEW t \in TaskIds, ShownBy(m, t),
           t \in Live' => t \in Live, delta'[t] = delta[t],
           t \notin Live => status'[t] = status[t],
           t \in Live => t \in Live',
           m \in marked' <=> m \in marked,
           base'[m] = base[m], flags'[m] = flags[m], known'[m] = known[m],
           rebuilt => rebuilt',
           status[t] = "failed" /\ Unreverted(t) => Unreverted(t)'
    PROVE  ShownBy(m, t)'
<1>1. t \in Live => status'[t] \notin {"completed", "failed"}
  BY DEF Live
<1>2. CASE t \in Live
  BY <1>1, <1>2 DEF ShownBy
<1>3. CASE t \notin Live
  BY <1>3 DEF ShownBy
<1>4. QED
  BY <1>2, <1>3

\* While the loop is free nothing is left to roll back.
LEMMA IdleReverted ==
    ASSUME Idle, NEW t \in TaskIds
    PROVE  ~Unreverted(t)
BY DEF Idle, Unreverted, TaskIds

LEMMA AcceptShows ==
    ASSUME TypeOK, Chain, Spoilt, Marked, Shown, NEW S \in SUBSET cached,
           NEW on \in SUBSET Flags, NEW off \in SUBSET Flags, Accept(S, on, off)
    PROVE  Shown'
<1>1. PICK n \in TaskIds : n = count + 1
  BY NextRow
<1>2. /\ count' = n /\ Live' = Live \cup {n} /\ status'[n] = "pending"
      /\ \A t \in TaskIds \ {n} : status'[t] = status[t]
  BY <1>1, AcceptRow
<1>3. \A t \in TaskIds \ {n} : delta'[t] = delta[t] /\ Named(t)' = Named(t)
  BY <1>1, AcceptDelta
<1>4. /\ marked' = marked \cup Named(n)' /\ base' = Baseline(Named(n)')
      /\ \A m \in Messages : flags'[m] = Apply(delta'[n][m], flags[m])
  BY <1>1, AcceptDelta
<1>5. /\ UNCHANGED <<cached, rebuilt, known, phase, replayed, job, stage>>
      /\ Idle
  BY DEF Accept, bootVars, jobVars
<1>6. /\ 1..count' = (1..count) \cup {n} /\ 1..count \subseteq TaskIds \ {n}
      /\ Live \subseteq 1..count
  <2>1. n = count + 1 /\ count' = n /\ count \in Nat
    BY <1>1, <1>2 DEF TypeOK
  <2>2. Live \subseteq 1..count /\ 1..count \subseteq TaskIds
    BY Committed
  <2>3. QED
    BY <2>1, <2>2
<1>7. ASSUME NEW m \in Messages, m \notin Named(n)'
      PROVE  flags'[m] = flags[m] /\ base'[m] = base[m] /\ (m \in marked' <=> m \in marked)
  <2>1. delta'[n][m] = NoDelta
    BY <1>7 DEF Named
  <2>2. flags'[m] = flags[m]
    BY <1>4, <2>1, ApplyFacts DEF TypeOK
  <2>3. QED
    BY <1>4, <1>7, <2>2 DEF Baseline
<1>8. SUFFICES ASSUME NEW m \in cached \ (Inherited \cup Filtered \cup stranded')
               PROVE  /\ Untouched(m)' => flags'[m] = known'[m]
                      /\ \A t \in 1..count' : Sole(m, t)' => ShownBy(m, t)'
  BY <1>5 DEF Shown
<1>9. m \in Messages /\ m \in cached /\ (m \in stranded => m \in Named(n)' /\ ~Untouched(m))
  <2>1. stranded' = stranded \ Named(n)'
    BY <1>1, AcceptDelta
  <2>2. QED
    BY <2>1 DEF TypeOK, Spoilt, Untouched
<1>10. Untouched(m)' => flags'[m] = known'[m]
  <2>1. HAVE Untouched(m)'
  <2>2. Untouched(m) /\ m \notin Named(n)'
    BY <1>3, <1>6, <2>1 DEF Untouched
  <2>3. QED
    BY <1>5, <1>7, <1>9, <2>2 DEF Shown
<1>11. ASSUME NEW t \in 1..count', Sole(m, t)' PROVE ShownBy(m, t)'
  <2>1. CASE t = n
    <3>1. Untouched(m) /\ m \in Named(n)'
      BY <1>3, <1>6, <1>11, <2>1 DEF Untouched, Sole
    <3>2. flags[m] = known[m]
      BY <1>9, <3>1 DEF Shown
    <3>3. m \notin Protected
      BY <1>6, <3>1 DEF Protected, Untouched
    <3>4. m \notin marked
      BY <1>5, <1>9, <3>1, <3>3 DEF Marked
    <3>5. m \in marked' /\ base'[m] = flags[m]
      BY <1>4, <1>9, <3>1, <3>4 DEF Baseline
    <3>6. QED
      BY <1>2, <1>4, <1>5, <1>9, <2>1, <3>2, <3>5 DEF ShownBy
  <2>2. CASE t # n
    <3>1. t \in 1..count /\ t \in TaskIds /\ m \notin Named(n)'
      BY <1>6, <1>11, <2>2 DEF Sole
    <3>2. Sole(m, t)
      BY <1>3, <1>6, <1>11, <3>1 DEF Sole
    <3>3. ShownBy(m, t)
      BY <1>9, <3>1, <3>2 DEF Shown
    <3>4. flags'[m] = flags[m] /\ base'[m] = base[m] /\ (m \in marked' <=> m \in marked)
      BY <1>7, <1>9, <3>1
    <3>5. Unreverted(t) => Unreverted(t)'
      BY <1>5 DEF Unreverted
    <3>6. /\ t \in Live' <=> t \in Live
          /\ delta'[t] = delta[t] /\ status'[t] = status[t]
      BY <1>2, <1>3, <2>2, <3>1
    <3>7. QED
      BY <1>5, <1>9, <3>1, <3>3, <3>4, <3>5, <3>6, ShownByKept
  <2>3. QED
    BY <2>1, <2>2
<1>12. QED
  BY <1>10, <1>11

\* A completed task leaves what the server confirmed, or dropped in a rebuilt
\* mailbox.
LEMMA CompleteShows ==
    ASSUME TypeOK, Chain, Attempted, Shown, NEW s \in TaskIds, Complete(s)
    PROVE  Shown'
<1>1. /\ Settled(s, "completed", "clear") /\ status[s] = "running"
      /\ \A m \in Named(s) \cap cached : m \in pushed \/ rebuilt
      /\ \A m \in Messages : known'[m] = IF m \in pushed THEN Apply(delta[s][m], known[m])
                                         ELSE known[m]
  BY DEF Complete
<1>2. /\ s \in Live /\ Idle
      /\ UNCHANGED <<count, delta, phase, cached, flags, marked, base, rebuilt, stranded>>
  BY HeadSettles
<1>3. /\ Live' = Live \ {s} /\ Terminal' = Terminal \cup {s}
      /\ status'[s] = "completed" /\ \A u \in TaskIds : u # s => status'[u] = status[u]
      /\ \A u \in TaskIds : Named(u)' = Named(u)
  BY <1>1, <1>2, SettledRow
<1>4. pushed \subseteq Named(s) /\ s \in 1..count /\ 1..count \subseteq TaskIds
  BY <1>1, <1>2, Committed DEF Attempted
<1>5. cached \subseteq Messages
  BY DEF TypeOK
<1>6. ASSUME NEW m \in cached' \ (Inherited \cup Filtered \cup stranded'), Untouched(m), flags[m] = known[m]
      PROVE  flags'[m] = known'[m]
  <2>1. m \notin pushed
    BY <1>4, <1>6 DEF Untouched
  <2>2. QED
    BY <1>1, <1>2, <1>5, <1>6, <2>1
<1>7. ASSUME NEW m \in cached' \ (Inherited \cup Filtered \cup stranded'), NEW t \in 1..count,
             Sole(m, t), ShownBy(m, t)
      PROVE  ShownBy(m, t)'
  <2>1. CASE t = s
    <3>1. m \in Named(s) \cap cached /\ m \in Messages
      BY <1>2, <1>5, <1>7, <2>1 DEF Sole
    <3>2. flags[m] = Apply(delta[s][m], known[m])
      BY <1>2, <1>7, <2>1 DEF ShownBy
    <3>3. rebuilt' \/ flags'[m] = known'[m]
      BY <1>1, <1>2, <3>1, <3>2
    <3>4. t \notin Live' /\ status'[t] = "completed"
      BY <1>3, <2>1
    <3>5. QED
      BY <3>3, <3>4 DEF ShownBy
  <2>2. CASE t # s
    <3>1. m \notin pushed /\ m \in Messages /\ t \in TaskIds
      BY <1>2, <1>4, <1>5, <1>7, <2>2 DEF Sole
    <3>2. known'[m] = known[m] /\ ~Unreverted(t)
      BY <1>1, <1>2, <3>1, IdleReverted
    <3>3. /\ t \in Live' <=> t \in Live
          /\ status'[t] = status[t] /\ delta'[t] = delta[t]
      BY <1>2, <1>3, <2>2, <3>1
    <3>4. QED
      BY <1>2, <1>7, <3>1, <3>2, <3>3, ShownByKept
  <2>3. QED
    BY <2>1, <2>2
<1>8. QED
  BY <1>2, <1>3, <1>6, <1>7, ShownStep

\* A failed one leaves its rollback.
LEMMA GiveUpShows ==
    ASSUME TypeOK, Chain, Shown, NEW s \in TaskIds, GiveUp(s)
    PROVE  Shown'
<1>1. Settled(s, "failed", "revert") /\ UNCHANGED known
  BY DEF GiveUp, history
<1>2. /\ s \in Live /\ Idle
      /\ UNCHANGED <<count, delta, phase, cached, flags, marked, base, rebuilt, stranded>>
  BY HeadSettles
<1>3. /\ Live' = Live \ {s} /\ job' = s /\ stage' = "revert"
      /\ status'[s] = "failed" /\ \A u \in TaskIds : u # s => status'[u] = status[u]
      /\ \A u \in TaskIds : Named(u)' = Named(u)
  BY <1>1, <1>2, SettledRow
<1>4. 1..count \subseteq TaskIds /\ cached \subseteq Messages
  BY Committed DEF TypeOK
<1>5. ASSUME NEW m \in cached' \ (Inherited \cup Filtered \cup stranded'), NEW t \in 1..count,
             Sole(m, t), ShownBy(m, t)
      PROVE  ShownBy(m, t)'
  <2>1. t \in TaskIds /\ m \in Messages
    BY <1>2, <1>4
  <2>2. CASE t = s
    <3>1. m \in marked /\ base[m] = known[m]
      BY <1>2, <1>5, <2>2 DEF ShownBy
    <3>2. Unreverted(t)'
      BY <1>3, <2>2 DEF Unreverted
    <3>3. t \notin Live' /\ status'[t] = "failed"
      BY <1>3, <2>2
    <3>4. QED
      BY <1>1, <1>2, <3>1, <3>2, <3>3 DEF ShownBy
  <2>3. CASE t # s
    <3>1. ~Unreverted(t)
      BY <1>2, <2>1, IdleReverted
    <3>2. /\ t \in Live' <=> t \in Live
          /\ status'[t] = status[t] /\ delta'[t] = delta[t]
      BY <1>2, <1>3, <2>1, <2>3
    <3>3. QED
      BY <1>1, <1>2, <1>5, <2>1, <3>1, <3>2, ShownByKept
  <2>4. QED
    BY <2>2, <2>3
<1>6. QED
  BY <1>1, <1>2, <1>3, <1>5, ShownStep

\* The rollback gives back the baseline of a row that only it changed.
LEMMA RevertShows ==
    ASSUME TypeOK, Chain, Obliged, Shown, Revert
    PROVE  Shown'
<1> DEFINE R == Refused(job)
<1>1. /\ UNCHANGED <<taskVars, cached, rebuilt, known, phase, replayed, job>>
      /\ job # 0 /\ stage = "revert" /\ stage' = "clear"
      /\ \A m \in Messages : /\ flags'[m] = IF m \in R THEN base[m] ELSE flags[m]
                             /\ base'[m] = IF m \in R THEN NoFlags ELSE base[m]
      /\ marked' = marked \ R /\ stranded' = stranded \cup Stranded(job)
  BY DEF Revert, bootVars
<1>2. job \in Terminal /\ status[job] = "failed" /\ phase # "down"
  BY <1>1 DEF Obliged
<1>3. job \in 1..count /\ Live \subseteq 1..count /\ 1..count \subseteq TaskIds
  BY <1>2, Committed
<1>4. job \notin Live /\ cached \subseteq Messages
  BY <1>2 DEF Live, TypeOK
<1>5. /\ Live' = Live
      /\ \A u \in TaskIds : Named(u)' = Named(u) /\ status'[u] = status[u]
  BY <1>1, SameRows
<1>6. R \subseteq Named(job)
  BY DEF Refused, Opened
<1> HIDE DEF R
<1>7. ASSUME NEW m \in cached' \ (Inherited \cup Filtered \cup stranded'), Untouched(m), flags[m] = known[m]
      PROVE  flags'[m] = known'[m]
  <2>1. m \notin R
    BY <1>3, <1>6, <1>7 DEF Untouched
  <2>2. QED
    BY <1>1, <1>4, <1>7, <2>1
<1>8. ASSUME NEW m \in cached' \ (Inherited \cup Filtered \cup stranded'), NEW t \in 1..count,
             Sole(m, t), ShownBy(m, t)
      PROVE  ShownBy(m, t)'
  <2>1. t \in TaskIds /\ m \in Messages /\ m \in cached
    BY <1>1, <1>3, <1>4
  <2>2. CASE t = job
    <3>1. m \in Named(job) \ Protected
      BY <1>3, <1>4, <1>8, <2>2 DEF Sole, Protected
    <3>2. known[m] # NoFlags
      BY <2>1 DEF TypeOK
    <3>3. \/ m \in marked /\ base[m] = known[m]
          \/ m \notin marked /\ flags[m] = known[m]
      BY <1>2, <1>8, <2>2 DEF ShownBy
    <3>4. flags'[m] = known'[m] /\ m \notin marked'
      <4>1. CASE m \in marked /\ base[m] = known[m]
        <5>1. m \in Opened(job)
          BY <1>1, <1>8, <3>1, <4>1 DEF Stranded
        <5>2. m \in R
          BY <2>1, <3>1, <3>2, <4>1, <5>1 DEF Refused, R
        <5>3. QED
          BY <1>1, <2>1, <4>1, <5>2
      <4>2. CASE m \notin marked /\ flags[m] = known[m]
        <5>1. m \notin R
          BY <4>2 DEF Refused, R
        <5>2. QED
          BY <1>1, <2>1, <4>2, <5>1
      <4>3. QED
        BY <3>3, <4>1, <4>2
    <3>5. t \notin Live' /\ status'[t] = "failed"
      BY <1>2, <1>4, <1>5, <2>1, <2>2
    <3>6. QED
      BY <3>4, <3>5 DEF ShownBy
  <2>3. CASE t # job
    <3>1. m \notin R
      BY <1>3, <1>6, <1>8, <2>3 DEF Sole
    <3>2. Unreverted(t) => Unreverted(t)'
      BY <1>1, <2>3 DEF Unreverted
    <3>3. QED
      BY <1>1, <1>5, <1>8, <2>1, <3>1, <3>2, ShownByKept DEF taskVars
  <2>4. QED
    BY <2>2, <2>3
<1>9. QED
  BY <1>1, <1>5, <1>7, <1>8, ShownStep DEF taskVars

\* A marker is cleared once the row shows what was confirmed.
LEMMA ClearShows ==
    ASSUME TypeOK, Chain, Obliged, Shown, Clear
    PROVE  Shown'
<1>1. /\ UNCHANGED <<taskVars, cached, flags, base, rebuilt, known, phase, replayed, stage,
                     stranded>>
      /\ job # 0 /\ stage = "clear" /\ job' = 0
      /\ marked' = marked \ (Opened(job) \ Protected)
  BY DEF Clear, bootVars, history
<1>2. job \in Terminal /\ phase \in {"replay", "up"} /\ (phase = "replay" => replayed = job)
  BY <1>1 DEF Obliged
<1>3. job \in 1..count /\ 1..count \subseteq TaskIds /\ Live \subseteq 1..count
  BY <1>2, Committed
<1>4. /\ Live' = Live /\ cached \subseteq Messages
      /\ \A u \in TaskIds : Named(u)' = Named(u) /\ status'[u] = status[u]
  BY <1>1, SameRows DEF TypeOK
<1>5. ASSUME NEW m \in cached' \ (Inherited \cup Filtered \cup stranded'), NEW t \in 1..count,
             Sole(m, t), ShownBy(m, t)
      PROVE  ShownBy(m, t)'
  <2>1. t \in TaskIds /\ m \in Messages
    BY <1>1, <1>3, <1>4
  <2>2. CASE t = job
    <3>1. t \notin Live
      BY <1>2, <2>2 DEF Live, Terminal
    <3>2. ~Unreverted(t)
      BY <1>1, <1>2, <1>3, <2>2 DEF Unreverted
    <3>3. QED
      BY <1>1, <1>4, <1>5, <2>1, <3>1, <3>2 DEF ShownBy
  <2>3. CASE t # job
    <3>1. m \notin Opened(job)
      BY <1>3, <1>5, <2>3 DEF Sole, Opened
    <3>2. Unreverted(t) => Unreverted(t)'
      BY <1>1, <2>3 DEF Unreverted
    <3>3. QED
      BY <1>1, <1>4, <1>5, <2>1, <3>1, <3>2, ShownByKept DEF taskVars
  <2>4. QED
    BY <2>2, <2>3
<1>6. QED
  BY <1>1, <1>4, <1>5, ShownStep DEF taskVars

\* The process goes down, boots and replays: a rollback is to come until the
\* replay has handled its row.
LEMMA BootingShows ==
    ASSUME TypeOK, Chain, Obliged, Shown, ReplayNext \/ ReplayEnds \/ Boot \/ Crash
    PROVE  Shown'
<1>1. UNCHANGED <<taskVars, rowVars, rebuilt, known, stranded>>
  BY DEF ReplayNext, ReplayEnds, Boot, Crash, history
<1>2. /\ Live' = Live /\ 1..count \subseteq TaskIds /\ cached \subseteq Messages
      /\ \A u \in TaskIds : Named(u)' = Named(u) /\ status'[u] = status[u]
  BY <1>1, SameRows, Committed DEF TypeOK
<1>3. ASSUME NEW t \in TaskIds, status[t] = "failed", Unreverted(t)
      PROVE  Unreverted(t)'
  <2>1. t \in Terminal /\ t \in Nat /\ t > 0 /\ Terminal \subseteq Nat /\ replayed \in Nat
    <3>1. t \in Nat /\ t > 0 /\ Terminal \subseteq Nat
      BY DEF Terminal, TaskIds
    <3>2. t \in Terminal
      BY <1>3 DEF Terminal
    <3>3. replayed \in Nat
      BY DEF TypeOK
    <3>4. QED
      BY <3>1, <3>2, <3>3
  <2>2. CASE ReplayNext
    <3>1. phase = "replay" /\ job = 0
      BY <2>2 DEF ReplayNext
    <3>2. replayed < t
      BY <1>3, <2>1, <3>1 DEF Unreverted
    <3>3. PICK n \in Terminal :
             /\ replayed < n /\ \A u \in Terminal : replayed < u => n <= u
             /\ replayed' = n /\ job' = n
             /\ stage' = IF status[n] = "completed" THEN "clear" ELSE "revert"
      BY <2>2 DEF ReplayNext
    <3>4. n <= t /\ n \in Nat /\ phase' = "replay"
      BY <2>1, <2>2, <3>2, <3>3 DEF ReplayNext
    <3>5. CASE n = t
      BY <1>3, <3>3, <3>5 DEF Unreverted
    <3>6. CASE n < t
      BY <3>3, <3>4, <3>6 DEF Unreverted
    <3>7. QED
      BY <2>1, <3>4, <3>5, <3>6
  <2>3. CASE ReplayEnds
    <3>1. phase = "replay" /\ job = 0 /\ t <= replayed
      BY <2>1, <2>3 DEF ReplayEnds
    <3>2. QED
      BY <1>3, <2>1, <3>1 DEF Unreverted
  <2>4. CASE Boot
    BY <2>1, <2>4 DEF Unreverted, Boot
  <2>5. CASE Crash
    BY <2>5 DEF Unreverted, Crash
  <2>6. QED
    BY <2>2, <2>3, <2>4, <2>5
<1>4. ASSUME NEW m \in cached' \ (Inherited \cup Filtered \cup stranded'), NEW t \in 1..count,
             Sole(m, t), ShownBy(m, t)
      PROVE  ShownBy(m, t)'
  <2>1. t \in TaskIds /\ m \in Messages
    BY <1>1, <1>2 DEF rowVars
  <2>2. QED
    BY <1>1, <1>2, <1>3, <1>4, <2>1, ShownByKept DEF taskVars, rowVars
<1>5. QED
  BY <1>1, <1>2, <1>4, ShownStep DEF taskVars, rowVars

\* The sweep runs when every rollback has.
LEMMA SweepShows ==
    ASSUME TypeOK, Chain, Obliged, Shown, Sweep
    PROVE  Shown'
<1>1. /\ UNCHANGED <<taskVars, cached, flags, base, rebuilt, known, stranded>>
      /\ phase = "sweep" /\ marked' = marked \cap Protected
  BY DEF Sweep, history
<1>2. /\ Live' = Live /\ 1..count \subseteq TaskIds /\ cached \subseteq Messages
      /\ \A u \in TaskIds : Named(u)' = Named(u) /\ status'[u] = status[u]
  BY <1>1, SameRows, Committed DEF TypeOK
<1>3. \A t \in TaskIds : ~Unreverted(t)
  BY <1>1 DEF Unreverted, Obliged, TaskIds
<1>4. ASSUME NEW m \in cached' \ (Inherited \cup Filtered \cup stranded'), NEW t \in 1..count,
             Sole(m, t), ShownBy(m, t)
      PROVE  ShownBy(m, t)'
  <2>1. t \in TaskIds /\ m \in Messages
    BY <1>1, <1>2
  <2>2. CASE t \in Live
    <3>1. m \in marked'
      BY <1>1, <1>4, <2>2, LiveIsProtected DEF ShownBy, Sole
    <3>2. QED
      BY <1>1, <1>2, <1>4, <2>1, <2>2, <3>1 DEF ShownBy, Live, taskVars
  <2>3. CASE t \notin Live
    BY <1>1, <1>2, <1>3, <1>4, <2>1, <2>3 DEF ShownBy
  <2>4. QED
    BY <2>2, <2>3
<1>5. QED
  BY <1>1, <1>2, <1>4, ShownStep DEF taskVars

LEMMA ResumeShows ==
    ASSUME TypeOK, Chain, Obliged, Shown, Resume
    PROVE  Shown'
<1>1. /\ UNCHANGED <<count, delta, rowVars, rebuilt, known, stranded>> /\ phase = "resume"
  BY DEF Resume, history
<1>2. /\ Live' = Live /\ 1..count \subseteq TaskIds /\ cached \subseteq Messages
      /\ \A u \in TaskIds : /\ Named(u)' = Named(u)
                            /\ u \notin Live => status'[u] = status[u]
  BY ResumedRows, Committed DEF TypeOK
<1>3. \A t \in TaskIds : ~Unreverted(t)
  BY <1>1 DEF Unreverted, Obliged, TaskIds
<1>4. ASSUME NEW m \in cached' \ (Inherited \cup Filtered \cup stranded'), NEW t \in 1..count,
             Sole(m, t), ShownBy(m, t)
      PROVE  ShownBy(m, t)'
  <2>1. t \in TaskIds /\ m \in Messages
    BY <1>1, <1>2 DEF rowVars
  <2>2. QED
    BY <1>1, <1>2, <1>3, <1>4, <2>1, ShownByKept DEF rowVars
<1>5. QED
  BY <1>1, <1>2, <1>4, ShownStep DEF rowVars

LEMMA StirShows ==
    ASSUME TypeOK, Chain, Shown, NEW s \in TaskIds, Begin(s) \/ Retry(s)
    PROVE  Shown'
<1>1. /\ Live' = Live /\ 1..count \subseteq TaskIds /\ cached \subseteq Messages
      /\ \A u \in TaskIds : /\ Named(u)' = Named(u)
                            /\ u \notin Live => status'[u] = status[u]
      /\ UNCHANGED <<cached, flags, marked, base, rebuilt, known, count, delta, stranded>>
  BY StirredProtection, Committed DEF TypeOK
<1>2. \A t \in TaskIds : ~Unreverted(t)
  BY IdleReverted DEF Begin, Retry
<1>3. ASSUME NEW m \in cached' \ (Inherited \cup Filtered \cup stranded'), NEW t \in 1..count,
             Sole(m, t), ShownBy(m, t)
      PROVE  ShownBy(m, t)'
  <2>1. t \in TaskIds /\ m \in Messages
    BY <1>1
  <2>2. QED
    BY <1>1, <1>2, <1>3, <2>1, ShownByKept
<1>4. QED
  BY <1>1, <1>3, ShownStep

\* Sync writes only rows no live task has changed, and what it writes is what
\* the server was confirmed to hold.
LEMMA RefreshShows ==
    ASSUME TypeOK, Chain, Marked, Shown, NEW i \in Messages, Refresh(i)
    PROVE  Shown'
<1>1. /\ UNCHANGED <<taskVars, cached, marked, base, rebuilt, phase, replayed, job, stage>>
      /\ Idle
  BY DEF Refresh, bootVars, jobVars
<1>2. /\ Live' = Live /\ 1..count \subseteq TaskIds /\ cached \subseteq Messages
      /\ \A u \in TaskIds : Named(u)' = Named(u) /\ status'[u] = status[u]
  BY <1>1, SameRows, Committed DEF TypeOK
<1>3. \A m \in Messages :
         \/ flags'[m] = flags[m] /\ known'[m] = known[m] /\ (m \in stranded => m \in stranded')
         \/ flags'[m] = known'[m] /\ m \notin marked
  BY DEF Refresh, Overwrites, TypeOK, history
<1>4. \A m \in Messages : /\ Untouched(m)' => Untouched(m)
                          /\ \A t \in 1..count : Sole(m, t)' => Sole(m, t)
  BY <1>1, <1>2 DEF Untouched, Sole, taskVars
<1>5. SUFFICES ASSUME NEW m \in cached \ (Inherited \cup Filtered \cup stranded')
               PROVE  /\ Untouched(m)' => flags'[m] = known'[m]
                      /\ \A t \in 1..count : Sole(m, t)' => ShownBy(m, t)'
  BY <1>1 DEF Shown, taskVars
<1>6. CASE flags'[m] = known'[m] /\ m \notin marked
  <2>1. ASSUME NEW t \in 1..count, Sole(m, t)' PROVE ShownBy(m, t)'
    <3>1. t \in TaskIds /\ m \in Named(t) \cap cached
      BY <1>2, <1>4, <2>1 DEF Sole
    <3>2. t \notin Live'
      BY <1>2, <1>6, <3>1 DEF Marked
    <3>3. QED
      BY <1>1, <1>6, <3>2 DEF ShownBy
  <2>2. QED
    BY <1>6, <2>1
<1>7. CASE flags'[m] = flags[m] /\ known'[m] = known[m] /\ m \notin stranded
  <2>1. Untouched(m)' => flags'[m] = known'[m]
    BY <1>2, <1>4, <1>7 DEF Shown
  <2>2. ASSUME NEW t \in 1..count, Sole(m, t)' PROVE ShownBy(m, t)'
    <3>1. t \in TaskIds /\ m \in Messages /\ ~Unreverted(t)
      BY <1>1, <1>2, IdleReverted
    <3>2. ShownBy(m, t)
      BY <1>2, <1>4, <1>7, <2>2 DEF Shown
    <3>3. QED
      BY <1>1, <1>2, <1>7, <3>1, <3>2, ShownByKept DEF taskVars
  <2>3. QED
    BY <2>1, <2>2
<1>8. QED
  BY <1>2, <1>3, <1>5, <1>6, <1>7

\* The rest leaves the rows alone, or what a filter rule writes to.
LEMMA RestShows ==
    ASSUME TypeOK, Chain, Shown, FromFilter,
           UNCHANGED <<taskVars, cached, marked, base, phase, replayed, jobVars, stranded>>,
           rebuilt => rebuilt', FilterWrites \/ UNCHANGED <<flags, known>>
    PROVE  Shown'
<1>1. /\ Live' = Live /\ 1..count \subseteq TaskIds /\ cached \subseteq Messages
      /\ \A u \in TaskIds : Named(u)' = Named(u) /\ status'[u] = status[u]
  BY SameRows, Committed DEF TypeOK
<1>2. \A m \in Messages \ Filtered : flags'[m] = flags[m] /\ known'[m] = known[m]
  BY DEF FilterWrites, FromFilter, TypeOK
<1>3. ASSUME NEW m \in cached' \ (Inherited \cup Filtered \cup stranded'), NEW t \in 1..count,
             Sole(m, t), ShownBy(m, t)
      PROVE  ShownBy(m, t)'
  <2>1. t \in TaskIds /\ m \in Messages \ Filtered
    BY <1>1
  <2>2. Unreverted(t) => Unreverted(t)'
    BY DEF Unreverted, jobVars
  <2>3. QED
    BY <1>1, <1>2, <1>3, <2>1, <2>2, ShownByKept DEF taskVars
<1>4. QED
  BY <1>1, <1>2, <1>3, ShownStep DEF taskVars

LEMMA ShownKept ==
    ASSUME IInv, [Next]_vars
    PROVE  Shown'
<1> USE DEF IInv
<1>1. ASSUME NEW S \in SUBSET cached, NEW on \in SUBSET Flags,
             NEW off \in SUBSET Flags, Accept(S, on, off)
      PROVE  Shown'
  BY <1>1, AcceptShows
<1>2. ASSUME NEW t \in TaskIds, Begin(t) \/ Retry(t) PROVE Shown'
  BY <1>2, StirShows
<1>3. ASSUME NEW t \in TaskIds, Complete(t) PROVE Shown'
  BY <1>3, CompleteShows
<1>4. ASSUME NEW t \in TaskIds, GiveUp(t) PROVE Shown'
  BY <1>4, GiveUpShows
<1>5. CASE Revert
  BY <1>5, RevertShows
<1>6. CASE Clear
  BY <1>6, ClearShows
<1>7. CASE ReplayNext \/ ReplayEnds \/ Boot \/ Crash
  BY <1>7, BootingShows
<1>8. CASE Sweep
  BY <1>8, SweepShows
<1>9. CASE Resume
  BY <1>9, ResumeShows
<1>10. ASSUME NEW m \in Messages, Refresh(m) PROVE Shown'
  BY <1>10, RefreshShows
<1>11. CASE Reset
  BY <1>11 DEF Shown, Reset
<1>12. CASE /\ UNCHANGED <<taskVars, cached, marked, base, phase, replayed, jobVars,
                           stranded>>
            /\ rebuilt => rebuilt'
            /\ FilterWrites \/ UNCHANGED <<flags, known>>
  BY <1>12, RestShows
<1>13. QED
  BY <1>1, <1>2, <1>3, <1>4, <1>5, <1>6, <1>7, <1>8, <1>9, <1>10, <1>11, <1>12
     DEF Next, Attempt, Settle, Booting, Filter, Store, FilterStores, FilterWrites,
         FilterFails, Fetch, FilterPlans, OtherClient, Rebuild, Spoil, vars, rowVars, bootVars,
         history

-----------------------------------------------------------------------------
(* The theorems.                                                           *)

\* The invariant holds in every behaviour.
THEOREM Invariant == SafetySpec => []IInv
<1>1. Init => IInv
  BY InitInv
<1>2. IInv /\ [Next]_vars => IInv'
  <2> SUFFICES ASSUME IInv, [Next]_vars PROVE IInv'
    OBVIOUS
  <2>1. TypeOK' /\ Chain' /\ Attempted'
    BY TypesKept, ChainKept, AttemptedKept DEF IInv
  <2>2. Obliged' /\ Spoilt' /\ Marked' /\ FromFilter'
    BY ObligedKept, SpoiltKept, MarkedKept, FromFilterKept DEF IInv
  <2>3. TargetShown' /\ Shown'
    BY TargetKept, ShownKept DEF IInv
  <2>4. QED
    BY <2>1, <2>2, <2>3 DEF IInv
<1>3. QED
  BY <1>1, <1>2, PTL DEF SafetySpec

\* Every variable of the flags pipeline keeps its type; tries stays within one
\* attempt more than max_attempts for each end of the process.
THEOREM TypeCorrect == SafetySpec => []TypeOK
<1>1. IInv => TypeOK
  BY DEF IInv
<1>2. QED
  BY <1>1, Invariant, PTL

\* Whatever is refused, crashes or is replayed, every cached message of an
\* unsettled push is marked, and while the event loop is free nothing else is
\* (clearConfirmedFlagsMarkers, clearOrphanedFlagsMarkers) but what a refused
\* push left whose payload the hook could not be given.
THEOREM MarkersOwed == SafetySpec => []MarkedIffOwed
<1>1. IInv => MarkedIffOwed
  BY DEF IInv, Marked, MarkedIffOwed
<1>2. QED
  BY <1>1, Invariant, PTL

\* No pass of sync, settlement or rollback of another task takes the newest
\* unsettled change of a message out of its row.
THEOREM NewestShown == SafetySpec => []TargetShown
<1>1. IInv => TargetShown
  BY DEF IInv
<1>2. QED
  BY <1>1, Invariant, PTL

\* Once a message changed by one task is unmarked its row shows what the
\* server was last confirmed to hold, through crashes anywhere between the
\* refusal, its rollback and the replay at boot; but for a target refused with
\* a payload that cannot be opened, until sync reads the message anew.
THEOREM UnmarkedConfirmed == SafetySpec => []UnmarkedIsConfirmed
<1>1. IInv => UnmarkedIsConfirmed
  <2> SUFFICES ASSUME IInv, Idle, ~rebuilt,
                      NEW m \in (cached \ marked) \ (Inherited \cup Filtered \cup stranded),
                      \A t, u \in 1..count : m \in Named(t) \cap Named(u) => t = u
               PROVE  flags[m] = known[m]
    BY DEF UnmarkedIsConfirmed
  <2>1. Shown /\ TypeOK /\ Chain
    BY DEF IInv
  <2>2. CASE Untouched(m)
    BY <2>1, <2>2 DEF Shown
  <2>3. CASE ~Untouched(m)
    <3>1. PICK t \in 1..count : m \in Named(t)
      BY <2>3 DEF Untouched
    <3>2. Sole(m, t)
      BY <3>1 DEF Sole
    <3>3. ShownBy(m, t) /\ t \in TaskIds
      BY <2>1, <3>1, <3>2, Committed DEF Shown
    <3>4. status[t] \in {"pending", "running", "completed", "failed"}
      <4>1. t <= count /\ status[t] \in {"absent", "pending", "running", "completed", "failed"}
        BY <2>1, <3>1, <3>3 DEF TypeOK
      <4>2. ~(t > count)
        BY <2>1, <4>1 DEF TypeOK
      <4>3. QED
        BY <2>1, <3>3, <4>1, <4>2 DEF Chain
    <3>5. QED
      BY <3>3, <3>4 DEF ShownBy, Live
  <2>4. QED
    BY <2>2, <2>3
<1>2. QED
  BY <1>1, Invariant, PTL
==============================================================================
