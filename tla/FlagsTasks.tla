----------------------------- MODULE FlagsTasks ----------------------------
(***************************************************************************)
(* A local-first flag change from acceptance to settlement, on one account *)
(* and one mailbox: the target is written to the cache at once under a     *)
(* marker (kinds/flags.ts), a durable task pushes the delta                *)
(* (flags-outbox.ts), the settlement gives back or confirms it             *)
(* (settlement.ts, wiring.ts), and sync may overwrite only what is not     *)
(* marked (sync.ts).  Beside it, the remote-first write of a filter rule   *)
(* (sync-flags.ts) and other clients of the mailbox.                       *)
(*                                                                         *)
(* The chain of tasks is the one TaskScheduler describes: in order, one at *)
(* a time, attempts numbered.  JavaScript runs one handler at a time, so   *)
(* nothing but the server and a crash comes between settling a task and    *)
(* its hook: every other action waits for job = 0.                         *)
(*                                                                         *)
(* A definition whose name has a suffix is a variant with a defect.        *)
(***************************************************************************)
EXTENDS Naturals, FiniteSets

CONSTANTS
    Messages,
    Flags,          \* the flags a patch can set or clear
    Orphans,        \* messages an older build left marked with no push behind
    Inherited,      \* messages an older build left with a push and no baseline
    Filtered,       \* messages a filter rule writes to
    Window,         \* messages that stay among the newest a pass reads
    CanRebuild,     \* whether the provider may rebuild the mailbox
    MaxTasks,       \* bound: tasks accepted
    MaxAttempts,    \* tasks.max_attempts
    MaxCrashes,     \* bound: process ends
    MaxOthers,      \* bound: changes by other clients
    MaxFilters,     \* bound: filter-rule writes
    MaxSpoilt,      \* bound: payloads that can no longer be opened
    NoFlags, NoWrite

ASSUME FlagsAssumption ==
    /\ Orphans \subseteq Messages
    /\ Inherited \subseteq Messages \ Orphans
    /\ Inherited # {} => MaxTasks # 0
    /\ Filtered \subseteq Messages
    /\ Window \subseteq Messages
    /\ CanRebuild \in BOOLEAN
    /\ MaxTasks \in Nat
    /\ MaxAttempts \in Nat \ {0}
    /\ {MaxCrashes, MaxOthers, MaxFilters, MaxSpoilt} \subseteq Nat
    /\ \A f \in SUBSET Flags : f # NoFlags

VARIABLES
    cached,     \* messages whose row exists
    flags,      \* messages.flags_json
    marked,     \* rows with pending_flags_push = 1
    base,       \* messages.pending_flags_base_json
    remote,     \* the flags the server holds
    rebuilt,    \* the server's UIDVALIDITY is newer than the accepted ones
    count,      \* tasks accepted so far, numbered in commit order
    status, delta,    \* columns of `tasks`; delta is the frozen payload
    unreadable, \* tasks whose sealed payload cannot be opened
    tries,      \* attempts of the task at the head
    pushed,     \* messages the attempt under way has had confirmed
    phase,      \* down, replay, sweep, resume, up
    replayed,   \* last row the boot replay handled
    job, stage, \* task whose settlement obligations run, and the next one
    fetched,    \* flags a sync pass has fetched and not written yet
    filter,     \* the filter-rule write under way
    known,      \* history: what the server was last confirmed to hold
    stranded,   \* history: messages whose refused target could not be given
                \* back, until they are changed or read anew
    crashes, others, filters

rowVars  == <<cached, flags, marked, base>>
taskVars == <<count, status, delta>>
runVars  == <<tries, pushed>>
bootVars == <<phase, replayed, unreadable>>
jobVars  == <<job, stage>>
history  == <<known, stranded>>
bounds   == <<crashes, others, filters>>
vars == <<rowVars, remote, rebuilt, taskVars, runVars, bootVars, jobVars,
          fetched, filter, history, bounds>>

TaskIds == 1..MaxTasks
Deltas  == [add : SUBSET Flags, remove : SUBSET Flags]
NoDelta == [add |-> {}, remove |-> {}]
Writes  == [message : Messages, add : SUBSET Flags, next : SUBSET Flags,
            stored : BOOLEAN]

\* Every variable has a value of its type.
TypeOK ==
    /\ cached \subseteq Messages
    /\ flags \in [Messages -> SUBSET Flags]
    /\ marked \subseteq Messages
    /\ base \in [Messages -> (SUBSET Flags) \cup {NoFlags}]
    /\ remote \in [Messages -> SUBSET Flags]
    /\ rebuilt \in BOOLEAN
    /\ count \in 0..MaxTasks
    /\ status \in [TaskIds -> {"absent", "pending", "running", "completed", "failed"}]
    /\ delta \in [TaskIds -> [Messages -> Deltas]]
    /\ unreadable \subseteq TaskIds
    /\ tries \in 0..(MaxAttempts + MaxCrashes)
    /\ pushed \subseteq Messages
    /\ phase \in {"down", "replay", "sweep", "resume", "up"}
    /\ replayed \in 0..MaxTasks
    /\ job \in 0..MaxTasks
    /\ stage \in {"revert", "clear"}
    /\ fetched \in [Messages -> (SUBSET Flags) \cup {NoFlags}]
    /\ filter \in Writes \cup {NoWrite}
    /\ known \in [Messages -> SUBSET Flags]
    /\ stranded \subseteq Messages
    /\ crashes \in 0..MaxCrashes /\ others \in 0..MaxOthers /\ filters \in 0..MaxFilters

InheritedDelta == [add |-> Flags, remove |-> {}]

\* A cache in step with the server, but for what an older build left: markers
\* whose push was lost, and a migrated push.
Init ==
    /\ cached = Messages
    /\ flags = [m \in Messages |-> IF m \in Inherited THEN Flags ELSE {}]
    /\ marked = Orphans \cup Inherited
    /\ base = [m \in Messages |-> NoFlags]
    /\ remote = [m \in Messages |-> {}]
    /\ rebuilt = FALSE
    /\ count = IF Inherited = {} THEN 0 ELSE 1
    /\ status = [t \in TaskIds |-> IF t <= count THEN "pending" ELSE "absent"]
    /\ delta = [t \in TaskIds |-> [m \in Messages |->
                    IF t <= count /\ m \in Inherited THEN InheritedDelta ELSE NoDelta]]
    /\ unreadable = {}
    /\ tries = 0 /\ pushed = {}
    /\ phase = "replay" /\ replayed = 0
    /\ job = 0 /\ stage = "clear"
    /\ fetched = [m \in Messages |-> NoFlags]
    /\ filter = NoWrite
    /\ known = [m \in Messages |-> {}] /\ stranded = {}
    /\ crashes = 0 /\ others = 0 /\ filters = 0

-----------------------------------------------------------------------------
Apply(d, f) == (f \cup d.add) \ d.remove

Named(t) == {m \in Messages : delta[t][m] # NoDelta}

Live == {t \in TaskIds : status[t] \in {"pending", "running"}}

Terminal == {t \in TaskIds : status[t] \in {"completed", "failed"}}

Protected_RunningOnly ==
    {m \in Messages : \E t \in Live : status[t] = "running" /\ m \in Named(t)}

\* flagsProtectedMessageIds: the messages a live push names.
Protected == {m \in Messages : \E t \in Live : m \in Named(t)}

\* The event loop is free.
Idle == phase = "up" /\ job = 0

\* The baseline moves only when a row becomes pending.
Baseline(changed) ==
    [m \in Messages |-> IF m \in changed \ marked THEN flags[m] ELSE base[m]]

\* acceptFlagsTask: a patch over a selection; what it changes is written,
\* marked and owed to the server in one transaction.
Accept(S, on, off) ==
    LET d == [m \in Messages |->
                 IF m \in S THEN [add |-> on \ flags[m], remove |-> off \cap flags[m]]
                 ELSE NoDelta]
        changed == {m \in S : d[m] # NoDelta}
    IN  /\ Idle
        /\ count < MaxTasks
        /\ changed # {}
        /\ count' = count + 1
        /\ status' = [status EXCEPT ![count + 1] = "pending"]
        /\ delta' = [delta EXCEPT ![count + 1] = d]
        /\ flags' = [m \in Messages |-> Apply(d[m], flags[m])]
        /\ marked' = marked \cup changed
        /\ base' = Baseline(changed)
        /\ stranded' = stranded \ changed
        /\ UNCHANGED <<cached, remote, rebuilt, runVars, bootVars, jobVars,
                       fetched, filter, known, bounds>>

-----------------------------------------------------------------------------
(* The runner.                                                             *)

\* The head of the chain takes the write slot and starts an attempt.
Begin(t) ==
    /\ Idle
    /\ filter = NoWrite
    /\ status[t] = "pending"
    /\ t \notin unreadable
    /\ \A u \in Live : t <= u
    /\ status' = [status EXCEPT ![t] = "running"]
    /\ tries' = tries + 1
    /\ pushed' = {}
    /\ UNCHANGED <<rowVars, remote, rebuilt, count, delta, bootVars, jobVars,
                   fetched, filter, history, bounds>>

\* One STORE group lands: the generation check let the message pass.  Flags to
\* set and to clear go in two commands; here a message's go together.
Store(t, m) ==
    /\ Idle
    /\ status[t] = "running"
    /\ m \in (Named(t) \cap cached) \ pushed
    /\ ~rebuilt
    /\ remote' = [remote EXCEPT ![m] = Apply(delta[t][m], @)]
    /\ pushed' = pushed \cup {m}
    /\ UNCHANGED <<rowVars, rebuilt, taskVars, tries, bootVars, jobVars, fetched,
                   filter, history, bounds>>

Settled(t, s, first) ==
    /\ status' = [status EXCEPT ![t] = s]
    /\ job' = t
    /\ stage' = first
    /\ tries' = 0
    /\ pushed' = {}

\* pushFlagsRemote returns: each entry is confirmed, or dropped because its
\* row is gone or its UID generation is.
Complete(t) ==
    /\ Idle
    /\ status[t] = "running"
    /\ \A m \in Named(t) \cap cached : m \in pushed \/ rebuilt
    /\ Settled(t, "completed", "clear")
    /\ known' = [m \in Messages |->
                    IF m \in pushed THEN Apply(delta[t][m], known[m]) ELSE known[m]]
    /\ UNCHANGED <<rowVars, remote, rebuilt, count, delta, bootVars, fetched,
                   filter, stranded, bounds>>

Retry_OffByOne(t) ==
    /\ Idle
    /\ status[t] = "running"
    /\ tries <= MaxAttempts
    /\ status' = [status EXCEPT ![t] = "pending"]
    /\ UNCHANGED <<rowVars, remote, rebuilt, count, delta, runVars, bootVars,
                   jobVars, fetched, filter, history, bounds>>

\* A refused or unconfirmed STORE, a lost connection, a timeout: what was
\* stored so far stays stored.
Retry(t) ==
    /\ Idle
    /\ status[t] = "running"
    /\ tries < MaxAttempts
    /\ status' = [status EXCEPT ![t] = "pending"]
    /\ UNCHANGED <<rowVars, remote, rebuilt, count, delta, runVars, bootVars,
                   jobVars, fetched, filter, history, bounds>>

\* The attempts are used up, or the write slot is not given, or the payload
\* cannot be opened and never will.
GiveUp(t) ==
    /\ Idle
    /\ \/ status[t] = "running" /\ tries >= MaxAttempts
       \/ /\ status[t] = "pending"
          /\ t \in unreadable \/ filter # NoWrite
          /\ \A u \in Live : t <= u
    /\ Settled(t, "failed", "revert")
    /\ UNCHANGED <<rowVars, remote, rebuilt, count, delta, bootVars, fetched,
                   filter, history, bounds>>

-----------------------------------------------------------------------------
(* Settlement, by the hook and by the replay at boot.                      *)

\* What the obligations know of: the hooks get no payload that cannot be opened.
Opened(t) == IF t \in unreadable THEN {} ELSE Named(t)

\* revertRefusedFlagsTargets gives these back.
Refused(t) ==
    {m \in (Opened(t) \ Protected) \cap marked \cap cached : base[m] # NoFlags}

\* It should give these back too, and cannot.
Stranded(t) == ((Named(t) \ Opened(t)) \ Protected) \cap marked

Revert ==
    /\ job # 0
    /\ stage = "revert"
    /\ flags' = [m \in Messages |-> IF m \in Refused(job) THEN base[m] ELSE flags[m]]
    /\ base' = [m \in Messages |-> IF m \in Refused(job) THEN NoFlags ELSE base[m]]
    /\ marked' = marked \ Refused(job)
    /\ stage' = "clear"
    /\ stranded' = stranded \cup Stranded(job)
    /\ UNCHANGED <<cached, remote, rebuilt, taskVars, runVars, bootVars, job,
                   fetched, filter, known, bounds>>

Clear_CompletedOnly ==
    /\ job # 0
    /\ stage = "clear"
    /\ marked' = IF status[job] = "completed"
                 THEN marked \ (Opened(job) \ Protected) ELSE marked
    /\ job' = 0
    /\ UNCHANGED <<cached, flags, base, remote, rebuilt, taskVars, runVars,
                   bootVars, stage, fetched, filter, history, bounds>>

\* clearConfirmedFlagsMarkers, whatever the task came to.
Clear ==
    /\ job # 0
    /\ stage = "clear"
    /\ marked' = marked \ (Opened(job) \ Protected)
    /\ job' = 0
    /\ UNCHANGED <<cached, flags, base, remote, rebuilt, taskVars, runVars,
                   bootVars, stage, fetched, filter, history, bounds>>

ReplayNext_CompletedOnly ==
    /\ phase = "replay"
    /\ job = 0
    /\ \E t \in Terminal :
          /\ replayed < t
          /\ \A u \in Terminal : replayed < u => t <= u
          /\ replayed' = t
          /\ job' = t
          /\ stage' = "clear"
    /\ UNCHANGED <<rowVars, remote, rebuilt, taskVars, runVars, phase, unreadable,
                   fetched, filter, history, bounds>>

\* replayTaskSettlementObligations takes the terminal rows in commit order.
ReplayNext ==
    /\ phase = "replay"
    /\ job = 0
    /\ \E t \in Terminal :
          /\ replayed < t
          /\ \A u \in Terminal : replayed < u => t <= u
          /\ replayed' = t
          /\ job' = t
          /\ stage' = IF status[t] = "completed" THEN "clear" ELSE "revert"
    /\ UNCHANGED <<rowVars, remote, rebuilt, taskVars, runVars, phase, unreadable,
                   fetched, filter, history, bounds>>

ReplayEnds ==
    /\ phase = "replay"
    /\ job = 0
    /\ \A t \in Terminal : t <= replayed
    /\ phase' = "sweep"
    /\ UNCHANGED <<rowVars, remote, rebuilt, taskVars, runVars, replayed, unreadable,
                   jobVars, fetched, filter, history, bounds>>

\* clearOrphanedFlagsMarkers.
Sweep ==
    /\ phase = "sweep"
    /\ marked' = marked \cap Protected
    /\ phase' = "resume"
    /\ UNCHANGED <<cached, flags, base, remote, rebuilt, taskVars, runVars, replayed,
                   unreadable, jobVars, fetched, filter, history, bounds>>

\* A row the last process left running is pending again.
Resume ==
    /\ phase = "resume"
    /\ phase' = "up"
    /\ status' = [t \in TaskIds |->
                     IF status[t] = "running" THEN "pending" ELSE status[t]]
    /\ UNCHANGED <<rowVars, remote, rebuilt, count, delta, runVars, replayed,
                   unreadable, jobVars, fetched, filter, history, bounds>>

-----------------------------------------------------------------------------
(* Sync, the filter rules, the provider, the process.                      *)

Fetch(m) ==
    /\ Idle
    /\ m \in cached
    /\ ~rebuilt
    /\ fetched[m] = NoFlags
    /\ fetched' = [fetched EXCEPT ![m] = remote[m]]
    /\ UNCHANGED <<rowVars, remote, rebuilt, taskVars, runVars, bootVars, jobVars,
                   filter, history, bounds>>

Overwrites_Always(m) == m \in cached

\* NO_FLAGS_INTENT_SQL guards every write of provider flags.
Overwrites(m) == m \in cached \ marked

\* What was fetched is written, however old it is by now.
Refresh(m) ==
    /\ Idle
    /\ fetched[m] # NoFlags
    /\ IF Overwrites(m)
       THEN /\ flags' = [flags EXCEPT ![m] = fetched[m]]
            /\ known' = [known EXCEPT ![m] = fetched[m]]
            /\ stranded' = stranded \ {m}
       ELSE UNCHANGED <<flags, history>>
    /\ fetched' = [fetched EXCEPT ![m] = NoFlags]
    /\ UNCHANGED <<cached, marked, base, remote, rebuilt, taskVars, runVars,
                   bootVars, jobVars, filter, bounds>>

\* A pass opens a rebuilt mailbox: the folder's rows go.
Reset ==
    /\ Idle
    /\ rebuilt
    /\ cached # {}
    /\ cached' = {}
    /\ marked' = {}
    /\ fetched' = [m \in Messages |-> NoFlags]
    /\ UNCHANGED <<flags, base, remote, rebuilt, taskVars, runVars, bootVars,
                   jobVars, filter, history, bounds>>

\* updateMessageFlags: the patch is computed from the row under the slot...
FilterPlans(m, on) ==
    /\ Idle
    /\ filter = NoWrite
    /\ \A t \in Live : status[t] = "pending"
    /\ filters < MaxFilters
    /\ m \in Filtered \cap cached
    /\ ~ on \subseteq flags[m]
    /\ filter' = [message |-> m, add |-> on \ flags[m],
                  next |-> flags[m] \cup on, stored |-> FALSE]
    /\ filters' = filters + 1
    /\ UNCHANGED <<rowVars, remote, rebuilt, taskVars, runVars, bootVars, jobVars,
                   fetched, history, crashes, others>>

FilterStores ==
    /\ Idle
    /\ filter # NoWrite
    /\ ~filter.stored
    /\ remote' = IF rebuilt THEN remote
                 ELSE [remote EXCEPT ![filter.message] = @ \cup filter.add]
    /\ filter' = [filter EXCEPT !.stored = TRUE]
    /\ UNCHANGED <<rowVars, rebuilt, taskVars, runVars, bootVars, jobVars, fetched,
                   history, bounds>>

\* ... and what was computed then is written when the STORE is confirmed.
FilterWrites ==
    /\ Idle
    /\ filter # NoWrite
    /\ filter.stored
    /\ flags' = IF filter.message \in cached
                THEN [flags EXCEPT ![filter.message] = filter.next] ELSE flags
    /\ known' = [known EXCEPT ![filter.message] = @ \cup filter.add]
    /\ filter' = NoWrite
    /\ UNCHANGED <<cached, marked, base, remote, rebuilt, taskVars, runVars, bootVars,
                   jobVars, fetched, stranded, bounds>>

FilterFails ==
    /\ Idle
    /\ filter # NoWrite
    /\ filter' = NoWrite
    /\ UNCHANGED <<rowVars, remote, rebuilt, taskVars, runVars, bootVars, jobVars,
                   fetched, history, bounds>>

OtherClient(m, f) ==
    /\ others < MaxOthers
    /\ ~rebuilt
    /\ f # remote[m]
    /\ remote' = [remote EXCEPT ![m] = f]
    /\ others' = others + 1
    /\ UNCHANGED <<rowVars, rebuilt, taskVars, runVars, bootVars, jobVars, fetched,
                   filter, history, crashes, filters>>

Rebuild ==
    /\ CanRebuild
    /\ ~rebuilt
    /\ rebuilt' = TRUE
    /\ UNCHANGED <<rowVars, remote, taskVars, runVars, bootVars, jobVars, fetched,
                   filter, history, bounds>>

\* While the process is down a sealed payload is damaged, or its key replaced.
Spoil(t) ==
    /\ phase = "down"
    /\ t \in (1..count) \ unreadable
    /\ Cardinality(unreadable) < MaxSpoilt
    /\ unreadable' = unreadable \cup {t}
    /\ UNCHANGED <<rowVars, remote, rebuilt, taskVars, runVars, phase, replayed,
                   jobVars, fetched, filter, history, bounds>>

\* The process ends, also between a settlement and its hook.
Crash ==
    /\ phase # "down"
    /\ crashes < MaxCrashes
    /\ crashes' = crashes + 1
    /\ phase' = "down"
    /\ job' = 0
    /\ pushed' = {}
    /\ fetched' = [m \in Messages |-> NoFlags]
    /\ filter' = NoWrite
    /\ UNCHANGED <<rowVars, remote, rebuilt, taskVars, tries, replayed, unreadable,
                   stage, history, others, filters>>

Boot ==
    /\ phase = "down"
    /\ phase' = "replay"
    /\ replayed' = 0
    /\ UNCHANGED <<rowVars, remote, rebuilt, taskVars, runVars, unreadable, jobVars,
                   fetched, filter, history, bounds>>

Attempt ==
    \E t \in TaskIds :
        \/ Begin(t)
        \/ Complete(t)
        \/ Retry(t)
        \/ GiveUp(t)
        \/ \E m \in Messages : Store(t, m)
Settle  == Revert \/ Clear
Booting == ReplayNext \/ ReplayEnds \/ Sweep \/ Resume \/ Boot
Filter  == FilterStores \/ FilterWrites \/ FilterFails

Next ==
    \/ \E S \in SUBSET Messages, on, off \in SUBSET Flags :
          on \cap off = {} /\ S \subseteq cached /\ Accept(S, on, off)
    \/ Attempt
    \/ Settle
    \/ Booting
    \/ Filter
    \/ \E m \in Messages : Fetch(m) \/ Refresh(m)
    \/ Reset
    \/ \E m \in Messages, on \in SUBSET Flags : FilterPlans(m, on)
    \/ \E m \in Messages, f \in SUBSET Flags : OtherClient(m, f)
    \/ Rebuild
    \/ \E t \in TaskIds : Spoil(t)
    \/ Crash

SafetySpec == Init /\ [][Next]_vars

\* The process boots, its chain and its settlements advance, provider calls
\* end, and sync passes keep coming: each reads the newest messages of the
\* folder only, so a message outside the Window may never be read again.
\* Nobody has to change anything.
Spec ==
    /\ SafetySpec
    /\ WF_vars(Attempt)
    /\ WF_vars(Settle)
    /\ WF_vars(Booting)
    /\ WF_vars(Filter)
    /\ WF_vars(Reset)
    /\ \A m \in Messages : WF_vars(Refresh(m))
    /\ \A m \in Window : WF_vars(Fetch(m))

-----------------------------------------------------------------------------
(* Properties.                                                             *)

\* A marker nobody will clear makes sync skip the message's flags for good
\* (clearOrphanedFlagsMarkers), and a push that is owed without one lets sync
\* take the server's stale flags for the truth: through crashes and other
\* settlements, the messages of unsettled pushes are marked, and while the
\* event loop is free no others are.  The exception is a refused push whose
\* payload cannot be opened: its hook names no message (wiring.ts), and what
\* it left stays marked until the next boot sweeps it or it is changed again.
MarkedIffOwed ==
    /\ \A t \in Live : Named(t) \cap cached \subseteq marked
    /\ Idle => marked \subseteq Protected \cup stranded

\* "An unconfirmed local write outranks the remote until its task settles"
\* (flagsJsonFromRemoteSql): the row shows the newest live push's target.  A
\* filter rule may write what it computed before the push was accepted.
TargetShown ==
    \A t \in Live : \A m \in (Named(t) \cap cached) \ Filtered :
        (\A u \in Live : m \in Named(u) => u <= t)
        => Apply(delta[t][m], flags[m]) = flags[m]

\* A row without a marker is read as the server's state: it shows what the
\* server was last confirmed to hold, also when a crash came between a refusal
\* and its rollback.  This is about messages changed once by this build: for
\* those changed again the boot replay of an older row may clear the marker a
\* later rollback still needs, and a rollback restores the value from before
\* the first of the overlapping changes.  In a mailbox rebuilt under the cache
\* a dropped entry keeps its target until the rows go.  And a refusal whose
\* payload cannot be opened is never rolled back: once the next boot sweeps
\* its marker the refused target reads as confirmed, until sync reads the
\* message anew.
UnmarkedIsConfirmed ==
    Idle /\ ~rebuilt =>
        \A m \in (cached \ marked) \ (Inherited \cup Filtered \cup stranded) :
            (\A t, u \in 1..count : m \in Named(t) \cap Named(u) => t = u)
            => flags[m] = known[m]

\* Once nobody changes anything more, the cache ends up showing what the
\* server holds, whatever was refused, lost or overtaken on the way.  Two kinds
\* of rows are excepted: those no longer among the newest a pass reads, and, for
\* as long as the process lives, those a refused push with an unopenable
\* payload left marked, which every pass skips.
Converges ==
    <>[](\A m \in (cached \cap Window) \ (stranded \cap marked) : flags[m] = remote[m])
=============================================================================
