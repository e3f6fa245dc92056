# A verification project for Nami Mail

Nami Mail is a desktop mail client: a local server (`src/apps/server`) keeps a
cache of the mailboxes in SQLite and talks to the providers, a desktop shell
(`src/apps/desktop`) hosts it, a web client (`src/apps/web`) shows it. Everything
a user does to a mailbox is *local-first*: the target is written to the cache at
once, a durable **task** is committed in the same transaction, and a scheduler
converges the provider later, through retries, restarts and refusals.

This directory holds TLA+ modules of that machinery, TLC configurations that
check them on small instances, and proofs that TLAPS checks for every instance.

## Inventory

| Component | State | Operations | What is hard | What makes it correct |
|---|---|---|---|---|
| Task store and scheduler (`tasks/store.ts`, `scheduler.ts`) | rows of `tasks`; per-account chains, `waiting`, running attempts | commit, claim, attempt, settle, release, re-claim, withdraw, tick, resume, prune, stop | drains queued from three places, backoff against restarts, a crash between any two statements | serial and in commit order per account, nothing lost, settled once, repairs before forgetting |
| Settlement obligations (`tasks/settlement.ts`, `wiring.ts`) | none of their own: markers, baselines, placeholders, move goals in `messages` | hook at settlement, replay at boot, marker sweep | the hook may not run, or run again | each obligation is met once and repeating it changes nothing |
| Write slots (`sync-locks.ts`) | a promise chain per account, the set a context believes it holds | acquire (nested, several accounts), time out, release | timeouts in the middle of the line, nesting, contexts inherited by un-awaited work | exclusive, first come first served, never lost, no deadlock |
| Flags (`tasks/kinds/flags.ts`, `flags-outbox.ts`) | `flags_json`, `pending_flags_push`, `pending_flags_base_json`, the sealed delta | accept, push, retry, give up, roll back | overlapping pushes, dropped entries, a lost answer | the target is shown while it is owed, given back when refused, confirmed otherwise |
| Remote-first writes (`sync-flags.ts`, `sync-filter-rules.ts`) | the cached row, the slot | read, STORE, write | the row changes while the provider answers | the user's newer target survives |
| Synchronisation (`sync.ts`) | the cached rows, UIDVALIDITY of each folder | fetch, refresh, reset, delete, reconcile moves | what was fetched is old when it is written | converges to the server, never over an owed target |
| Send (`tasks/kinds/send.ts`, `outbox.ts`, `pending-sent.ts`) | the submission ledger, the placeholder in Sent | accept, start, submit, confirm, recover | SMTP cannot be asked whether it delivered | at most one delivery, and never a false "failed" |
| Snooze (`tasks/kinds/snooze.ts`, `snooze.ts`) | `snoozed_until`, a deferred task, the alerts still to be made | accept, re-snooze, cancel, release by the task, release by a sync pass | an old runner against a new snooze, two releasers, alerts from memory | released at its instant, one alert, never lost for ever |
| Move (`tasks/kinds/move.ts`, `sync-moves.ts`) | goal and state columns of a message, task items, the set of moving accounts | accept, claim, send, answer, give back | a command whose answer is lost, an abandoned attempt that goes on, a rebuilt mailbox | only the message that was accepted moves; every goal is decided; a number names its message |
| Undo (`tasks/kinds/undo.ts`) | an undo task and what it froze | accept once, reverse entry by entry | the move is not decided yet, a newer move of the same row | restores what was moved, leaves newer decisions alone |
| Migration (`tasks/migrate.ts`) | three legacy stores | one transaction at open | partial legacy state | nothing owed is dropped |
| Agent (`agent/`) | runs, confirmations, an event log with leases | propose, confirm, apply, expire, index | expiry against a late confirmation | a confirmed effect is applied at most once |
| Desktop service (`main.mts`, `service-restart-policy.mts`, `server-bridge.mts`) | the child process, its handle, the restart budget, the flags of leaving, the window | start, crash, restart, drain for an update, install, quit, host shutdown | callbacks that read flags other callbacks set; a service that hangs, a window that stays | one process at a time, a bounded number of restarts, no failure unanswered, the service ends when it must and the app with it unless it was left a window |
| Desktop broker (`src/apps/desktop/src/agent`) | host lease, broker state, update drain gate | acquire, renew, recover, drain | two hosts, a crash of either | one host; no update while work is admitted |
| Everything else | see `PROJECT.json` | request/response | - | - |

Interaction: a request handler commits a row and calls `start()`; the scheduler
queues a drain; an attempt takes the account's write slot and calls the kind's
runner; the settlement calls the hooks, which repair columns of `messages`; sync
reads those columns to know what it may overwrite; a runner may kick a sync pass,
which may write flags through the same slots. A move waits for the pass under way
and no pass starts while an account is moving. The pass also decides the moves
whose answer was lost and releases due snoozes. The desktop process owns the
service process all of this runs in. At boot `buildApp` prunes the outbox
and recovers interrupted submissions, replays the obligations of settled rows,
sweeps orphaned markers, and resumes the scheduler, in that order.

## The modules

### TaskScheduler, TaskPromise

`TaskScheduler` is the `tasks` table and the scheduler. `status`, `rank`,
`attempts`, `backoff`, `scheduled` stand for the columns (`rank` is the order by
`created_at, rowid`; the two time columns are reduced to "still in the future");
`queued` is the set `waiting`; `pc` and `cur` are where an account's active drain
stands in `drainAccount`, `driveTask` and `attemptOnce`; `slot` is the write slot
as a runner sees it; `owed` is what the hooks have not done; `proc` is the
process. There is one action per statement group between two awaits. A
settlement and its hooks are one synchronous stretch (`NoHookPending`): no other
callback can come between them, but the process can end there.

`TaskPromise` is what a caller is told: a committed task is settled once, with
one outcome, or withdrawn; the repairs it owes are made before it is forgotten.
`PromiseSpec` says the scheduler implements it, under the mapping from row
statuses to phases.

### AccountWriteSlots

The promise chains of `sync-locks.ts`. A gate is numbered per account; the tail a
caller found resolves when every earlier gate is open. `held` is the
`AsyncLocalStorage` set as a context sees it, `frame` what each nested call
acquired itself, `gate` its own gate. `Kick` starts an execution in a runner's
context, with the runner's set, and the set is not cleared when the runner
leaves. A wait may time out at any moment, or never.

### FlagsTasks

One mailbox of one account. Rows (`flags`, `marked`, `base`), the server
(`remote`), the tasks with their sealed deltas in commit order, the attempt under
way (`tries`, `pushed`), the settlement under way (`job`, `stage`: first
`revertRefusedFlagsTargets`, then `clearConfirmedFlagsMarkers`), the boot
sequence (`phase`, `replayed`), what a sync pass has fetched and not written, and
the filter rule's write between its read and its write. The scheduler's part is
what the theorems about `TaskScheduler` give: tasks of an account run one at a
time, in commit order. A STORE of a message's additions and removals is one step.
`known` is history: what the server was last confirmed to hold.

`unreadable` are the tasks whose sealed payload cannot be opened; that comes about
while the process is down (`Spoil`: a damaged row, another key). Such a task is
given up at once, and its hook and its replay name no message (`Opened`), so that
the refused target is neither given back nor unmarked. The messages this happens to
are `stranded` (history) until they are changed again or sync reads them anew.
`Window` is the set of messages that stay among the newest a pass reads
(`messageLimit`); any message may be read, but only those have to be.

### SendTasks

The sends of one account. For each submission: `ledger` is
`outbound_submissions.status`, `task` and `tries` are the columns of its task
row, `rows` is what the cached Sent folder shows of it (our placeholder, the
provider's copy), `due` says whether its `send_at` has come. The provider is
`wire` (the last SMTP conversation), `delivered` (how often it took the mail,
history) and `stored` (what its Sent folder holds). `phase` is the process and
where its boot stands, `job` and `stage` the attempt and the wait it is in.

| Actions | Code |
|---|---|
| `Accept`, `Prepare`, `Submit`, `Cancel` | `acceptSendTask`; the Agent's `prepareSubmission` and `acceptPreparedSendTask`; `cancelScheduledSend` |
| `Claim`, `SlotTimesOut` | `claimNextTask`, `attemptOnce` up to the runner |
| `JudgeGone` .. `StartSmtp` | the runner's reading of the ledger, and `startSubmission` |
| `SmtpAccepted`, `SmtpRefused`, `SmtpUncertain` | the three ways `sendMail` ends, with a ledger write that may throw |
| `DraftDone`, `RunTimesOut` | the draft is discarded, or that wait meets the scheduler's run timeout |
| `Hook`, `BootReplay` | `onTaskSettled` and its replay, for the placeholder |
| `ServerAccepts`, `ServerRefuses`, `ServerStores` | the provider (external) |
| `SyncSent`, `Confirm`, `Verify` | a pass over Sent, the confirmation from the cache and from the live folder |
| `Stop`, `ProcessEnds`, `BootRecover`, `BootResume` | shutdown, crash, the retention prune and recovery, `resume` |

The conversation outlives the attempt that opened it: after a deadline, an abort
or a crash `ServerAccepts` can still happen. A conversation that the runner
classifies as refused before acceptance (`isKnownPreAcceptanceFailure`) is one in
which the server did not take the mail; this is what the code relies on, and an
assumption here. Which pending send goes next, and whether a claim found on the
ledger is stale, are left open; both only add behaviours. A parked send has no
placeholder. `delivered` is history.

### MoveTasks

The moves of one account, and their undo. The provider is `at` and `uids` (where
each message is, and its number there), `epoch` (UIDVALIDITY) and `lookup` (whether
it has the opaque ids by which a pass recognises a moved message). The cache is
`row` (mailbox, number, goal, state and opaque id of the row the user sees of a
message), `copies` (further rows a pass has added for the same message) and
`known` (`folders.uid_validity`). `uidnext` is the next number the provider gives
out. `outlived` is history: the rows whose number may not be their message's,
because a reset kept them or their message changed while a call was in the engine,
and which no pass has found since. `task`, `items`, `latched`, `undone` are the
task rows, their `task_items`, the `failed` latch and the one-undo claim. `call`
holds two calls of the move engine: that of the attempt, and one abandoned at the
scheduler's timeout, which goes on when its connection opens; a call carries the
rows as it read them, what the task's items froze for each (`due`), and, as history,
which of its rows had outlived their folder then (`blind`). `pass` is the sync
pass: the folders it has yet to visit, the one it has open and what it listed
there. `hook` is the settlement of a failed task.

| Actions | Code |
|---|---|
| `AcceptMove`, `AcceptUndo` | `acceptMoveTask`, `commitUndoTask`: the goal is written and the generation frozen |
| `Begin`, `NextChunk`, `NextEntry`, `Complete`, `AttemptFails`, `AttemptTimesOut` | the move and undo runners and the end of their attempts |
| `Enter`, `Claim`, `WaitTimesOut`, `NotSent` | the engine up to the command: connection, marking the account, waiting for the pass, the durable claim |
| `Command`, `CommandRefused`, `AnswerLost`, `Answer` | generation check, MOVE, and what comes back |
| `Hook`, `Crash`, `Boot` | permanent-failure obligations, and their replay |
| `StartPass`, `OpenFolder`, `CloseFolder`, `FolderFails`, `EndPass` | a pass, folder by folder in the order of `folderPriority`: claims decided and a rebuilt folder emptied, rows added and pruned; at its end the deferred reconciliations are replayed |
| `Reconcile`, `Defer`, `Refresh` | a listed message: the row that waits for it arrives, or the end of the pass is awaited, or the row with its number takes its id |
| `OtherMoves`, `Rebuild` | another client, and a provider that rebuilds a mailbox (external) |

The rows of a chunk are in one folder, and a provider's numbers are not given out
twice in one generation. The cache's row ids, which the code derives from account,
folder and number, are the messages themselves: a row is followed wherever it goes.
A rebuild does not happen between a command and its answer. An abandoned undo stops
after the call it is in.

Three simplifications of the engine. `NextEntry` checks that the undo still has a
destination for every entry, where the code leaves the check out for one without a
target. `SameGeneration` compares the folder as well as its UIDVALIDITY, for an undo
too; a row that was carried to another folder is excepted by `Carried`. When a
group's command cannot be sent, the attempts at its single messages that follow are
part of `NotSent`.

### SnoozeTasks

`snoozed` is the column, `task` the rows of kind snooze in commit order, `ran`
says that the running attempt's transaction has committed, `alerting` what was
released in this process and not alerted yet. `Accept` withdraws the older tasks
of the message, `Cancel` withdraws and clears, `Run` is the runner's transaction
(it releases only if the column still holds its own instant), `Pass` clears
whatever is due and hands it to the alert, or nothing when one of the messages does
not decrypt. An acceptance is numbered by its task; `owner`, `fate` and `alerts` are history.

### DesktopService

The main process of the desktop, as far as it keeps the service process: `child`
and `forks` (the process, numbered), `handle` and `closeAsked` (the bridge),
`attempt`, `timer`, `policy`, `givenUp` (the restart coordinator), `gate`,
`update`, `quitting`, `shutdown`, `expected` (the flags by which the callbacks
tell each other what is under way). `mainWindow` is whether there is a window: a
headless host has none until a pairing brings it up (`OpenWindow`), and while nobody
has set `isQuitting` an open one prevents its close, so that `app.quit()` comes to
nothing (`HoldsTheApp`). Quitting and an install set the flag and destroy the window;
a shutdown asked for by the host does neither. The handshake of a start ends with
its answer or with its process, and with nothing else: there is no deadline. An
install is requested of an idle updater. One turn of the event loop is one action: an
exit, the coordinator's look at it and the rejections it causes come together.
The two clocks of the restart policy are read only as "ten minutes since the
first failure" and "five minutes since the recovery". `spent` and `ignored` are
history: restarts since the budget was last fresh, and failures passed over.

## The runs

| Run | Instance | What it shows |
|---|---|---|
| `scheduler_order` | 3 tasks, 1 account, 2 attempts, 1 restart | serial and driven execution, order, attempt limit, no overtaking, refinement of `TaskPromise` |
| `scheduler_live` | 2 tasks, 2 attempts, 2 restarts | with the due tick every task is settled or withdrawn; without it no wakeup is lost |
| `slots` | a request, a runner and an execution it starts; 2 accounts, depth 2 | exclusion, first come first served, no lost gate, nobody waits for ever |
| `flags_settle` | 2 messages, 1 flag, 3 tasks, 2 attempts, 1 crash, 1 payload lost in it, another client | marked exactly while owed, the target shown, an unmarked row confirmed; what a refusal could not give back excepted |
| `flags_converge` | 2 messages, one of them outside the window of a pass, 2 tasks, rebuild, rule, crash, payload lost in it, other client | what the passes read converges, but for what a refusal left marked |
| `send` | 2 sends, one of them parked, 2 attempts, 1 process end, 1 failed ledger write | at most one delivery, a truthful ledger and task, one row in Sent with an owner; every send settles and its copy confirms it |
| `move` | 2 messages, one of them moved, 2 folders, 2 tasks, 2 attempts, a provider with opaque ids or without, a pass in single messages, any 2 of crash, fault, other client and, with opaque ids, timeout and rebuild | no orphaned goal, a number names its message, only what was accepted moves, every move is decided that a pass can decide |
| `snooze` | 2 messages, one unreadable, 3 snoozes, 2 attempts, 2 instants, 1 mishap | who is hidden has a pending release, one alert and not too early, every snooze ends |
| `service` | restart budget 3, 5 processes, 2 installs, 2 runs of the clocks, with a window or headless | one process at a time, bounded restarts, failures answered as long as starts answer; the service ends when it must, and the app unless a host shutdown left it a window |

Bounds. Order and exclusion are about pairs of tasks, with a third as the one in
between; one account suffices because chains share nothing (the theorems hold for
any number). Two attempts are the smallest budget with a retry in it, and one
restart puts a crash between any two steps; the liveness run has two so that the
recovery itself is interrupted. In `slots` three callers on two accounts are the
smallest line with a waiter between two others and the smallest cycle of
acquisitions. Two messages and three pushes let two pushes overlap while a third is
settled. In `flags_converge` the second message is one that no pass has to read, and
with two tasks the migrated push is followed by one more. Two sends are one of each
kind, and the only thing they share is the chain. In `move` the second message is
there to be mistaken for the first: it takes its number in a rebuilt mailbox. Two
tasks are a move and its undo, or two moves, and every pair of mishaps occurs, at
any two steps; without opaque ids no attempt times out and no mailbox is rebuilt,
which only keeps the run short. With one message moved no two rows meet under one
number, so the branch of `Reconcile` and of `EndPass` in which the row does not fit
is beyond the run; the proofs cover it. In `snooze` three acceptances let a message
be snoozed, snoozed again and snoozed once more while an old runner holds its claim.
In `service` five processes are the first one, a budget of three restarts, and one
more after the budget was renewed. `MaxRestarts` of the scheduler, `MaxGates`,
`MaxDepth`, `MaxTasks`, `MaxCrashes`, `MaxOthers`, `MaxFilters`, `MaxSpoilt`,
`MaxEnds`, `MaxFaults`, `MaxMishaps`, `MaxTime`, `MaxForks`, `MaxUpdates` and
`MaxPauses` are bounds of the model, not of the program; `MaxRestarts` of
`DesktopService` and `MaxAttempts` are the program's. The proofs take all of them as
parameters.

Deadlock is checked in the scheduler's, the snooze and the `flags_settle` runs.
The others really may stop: `MaxGates` ends the slot runs, after a reset
`flags_converge` has no modelled rows, the send and move runs end with everything
settled, or blocked for good, and the bounds used up, and an app that has exited takes no step.

Three runs end in a violation; each is a place where a comment of the repository
says more than the code does. `PROJECT.json` quotes them:

* `slots_inherited`: an execution that a runner starts and does not await inherits
  the runner's held slots for good, so its writes are not serialised.
* `move_rebuilt`: a row under a goal that nothing has claimed outlives the reset of
  its rebuilt mailbox with its old number and its cached body. The next pass binds
  it to the message that has that number now. The engine refuses the first move,
  but when the user moves the row again, the other message moves.
* `service_giveup`: after a failed restart attempt, stopping its process marks the
  exit as expected before the coordinator looks; it takes the failure for a
  shutdown and neither restarts nor gives up. `FailureIsAnswered`, which passes,
  is the same property with those failures excepted (`ignored`).

Some properties keep cases apart that the model reaches and that break them, and
say so where they are stated:

* `TargetShown` is of messages no rule filters, `UnmarkedIsConfirmed` of messages
  that were changed once and were not left marked by an older build, in a mailbox
  not rebuilt; `flags_converge` shows that sync repairs the others in the end.
* `stranded` is excepted from `MarkedIffOwed`, `UnmarkedIsConfirmed` and, as long as
  the row is marked, from `Converges`; rows outside `Window` from `Converges`.
* `EveryMoveSettles` excepts a claim on a message another client took away (`Lost`)
  and, at a provider without opaque ids, a row whose move was confirmed without its
  new number or whose answer was lost with the message gone (`Blind`).
* `FailureIsAnswered` is under the hypothesis that starts answer (`StartsAnswer`),
  and `LeavingEnds` lets an app go on whose host was shut down under its window.

Seen while modelling, and true of the models, but without a run of their own:

* The boot replay is no no-op for rows already repaired. For an older completed
  push it clears the marker a later failed push needs for its rollback
  (`wiring.ts:295`), and for an old failed move it can give back the goal of a
  newer task with the same destination.
* A filter rule's write is computed before the STORE and stored after it, over the
  target of a push accepted meanwhile (`sync-flags.ts:77`).
* With overlapping pushes the rollback baseline can be older than the last value
  the server was known to hold. A push whose entries were dropped settles as
  completed; the dropped rows keep their target until sync gives it back.
* A send that failed is not attempted again when the user asks again under the same
  key: both ways in find the old row and commit nothing (`kinds/send.ts:269`).
* A run timeout while the draft is being discarded, in the last attempt, settles a
  delivered send as failed and takes its Sent row away (`kinds/send.ts:846`).
* A send task that fails before its claim leaves its ledger row `pending`, which
  the outbox retention keeps for good. A placeholder whose ledger row was pruned
  before its task settled is not retracted; `PlaceholderIsOwned` says so.
* A move abandoned while it dials is not stopped: closing an attempt's connections
  does not reach one that is still being opened, and nothing checks the signal
  afterwards (`sync-moves.ts:728`). An undo abandoned there reads its row only when
  the connection opens. With five tasks, a timeout and a rebuild the row has been
  moved away, bound to another message as in `move_rebuilt`, and moved back by then:
  the check of the frozen generation passes, and the other message moves. That is
  the exception `Carried` of `MovesWhatWasAccepted`.
* An undo accepted while the move is only confirmed freezes the generation of the
  source folder, where the row still is in the cache, and is refused later.
* A claim on a message that another client took away never settles; that is the
  exception `Lost` of `EveryMoveSettles`. At a provider without opaque ids a pass
  reconciles nothing (`sync.ts:576`): a move whose answer did not name the new
  number stays blocked, as `sync-moves.ts:436` says, and one whose answer was lost
  does when the message has gone. That is `Blind`.
* A flags task whose payload cannot be opened fails without a rollback
  (`scheduler.ts:305`, `wiring.ts:307`). Its rows stay marked, and skipped by sync,
  for the rest of the process; then the sweep of the next boot unmarks them, and the
  refused target reads as confirmed until a pass reads the row.
* A row that is no longer among the newest `messageLimit` of its folder is not read
  by a pass (`sync.ts:835`); a target given back wrongly stays there.
* The snooze pass clears all due rows before it decrypts them for the alert, so one
  payload that does not decrypt silences every alert of that pass.
* A crash of the service during an update drain is passed over, and nothing
  restarts the service if the drain is then given up. A second install after a
  timed-out close gets `close()` back at once, while the process may still be
  closing (`server-bridge.mts:305`); the installer then runs after it was killed.
* `host.shutdown` "asks the host to stop" (`docs/EXTERNAL-MAIL-INTERFACE.en.md:79`).
  With a window open the service is stopped, but `isQuitting` is not set
  (`main.mts:343`): `before-quit` lets the quit through because the service is gone
  (`main.mts:2112`), the window's close handler prevents it (`main.mts:644`), and the
  app stays without a service, the next attempts to quit from its window included.
* A restarted service that hangs in its handshake is neither restarted nor given up
  (`server-bridge.mts:283`, `main.mts:1477`), and the coordinator passes over exits
  while that attempt is in flight.

## Fairness

`TaskScheduler`: timers fire and promise continuations run (weak fairness of each
chain's step and of time), a runner ends within `TASK_RUN_TIMEOUT_MS`, another
holder of the slot lets go (each waits on provider commands with timeouts), the
process is started again and boots. `stop()` is followed by the exit. The due tick
is an interval of the process. No fairness forces a commit, a withdrawal, a
crash, or an attempt to succeed. Weak fairness is enough because a chain is the
only one to move its own step.

`AccountWriteSlots`: continuations run, and the body of an outermost call ends.
That last one is strong fairness because nested calls disable and enable it, and
a body makes finitely many. No wait is assumed to time out, so no-deadlock is
shown without the timeout's help.

`SendTasks`: clocks advance, the scheduler drains, each wait of an attempt has a
deadline, sync passes over Sent keep coming, a stopping process ends and one that
is down is started again. The server and the user promise nothing: a conversation
may stay open for ever, and `EverySendSettles` holds because the runner stops
listening.

`FlagsTasks`: attempts end, settlements and boot go on, provider calls end, and
sync passes keep coming (IDLE and the poll interval). A pass has to read only the
messages of `Window`, and to write whatever it has read.

`MoveTasks`: the chain's work goes on (every wait of an attempt has a deadline,
the hook runs, the process boots), and passes keep coming and end. Which of a
step's outcomes happens is not fair: a command may be refused or its answer lost
each time the bound allows it.

`SnoozeTasks`: the chain, the poll that runs the pass, the awaited alerts, the
boot and the clock go on.

`DesktopService`: timers fire, the key of a restart loads or does not, a start is
rejected when its process is gone, and the waits of the install and of the teardown
have deadlines. The service itself need not answer anything, a start included, and
a boot or a restart may hang there; nobody has to quit.

## The proofs

`TaskScheduler_proofs`: `IInv` is inductive. To the properties it adds that a
chain's program counter and its current row agree with the row's status
(`DrivenSerially` speaks of running rows only while the process is up), that ranks
are unique and below `nextRank`, that a row in `backoff` was attempted, and that
whoever was attempted holds its place (`HoldsPlace`): it is driven, or in backoff,
or the oldest there is, so that no claim can pass it. From it follow the type
invariant, `DrivenSerially`, `InOrder`, `AttemptBudget`, the action property
`NoOvertake`, and the refinement `PromiseSpec`, step by step for every action of
`Next`. The assumption is `SchedulerAssumption`: accounts of tasks, a positive
attempt limit.

`AccountWriteSlots_proofs`: `SlotInv` says which gates exist and who owns each
(every closed gate belongs to one call that waits at it or acquired it); it holds
with inherited contexts and gives `NoLostGate`. `HeldInv` and `WaitInv` say, of the
executions with a context of their own, that they hold only what is their own and
closed, and that what they wait for lies before their gate. From them follow
`Exclusive` and `FirstComeFirstServed`, for any number of callers and accounts and
any nesting depth, whatever the executions that runners start do beside them.
That the theorems cannot include those executions is what `slots_inherited` shows.

`SendTasks_proofs`: `AtMostOnce` is not inductive, because nothing in it says why
a second conversation cannot begin. `IInv` adds `Conversation` (a ledger row that
may be started belongs to a mail the server has not taken, and to no open
conversation), `Progress` (an attempt is in a conversation only under the claim
`submitting`, and past it only when the mail is out), `Evidence` (a copy and a
confirmation come from the provider's Sent folder), `Owned` (who answers for a
placeholder, by the phase of the process), `Budget` (a restart gives an
interrupted send one attempt more) and `Quiet` (no attempt without a process).
There is one lemma per action. From it follow the type invariant, `AtMostOnce`,
`LedgerTruth`, `CompletedIsSent`, `OneSentRow` and `PlaceholderIsOwned`, for every
set of sends, attempt budget and number of failures (`SendAssumption`).

`SnoozeTasks_proofs`: `HiddenIsPromised` is kept by every step once `IInv` says what
the column and the rows hold: rows are appended and only their status changes
(`TaskStep`), a withdrawal takes rows of its own message, and a claim and every end
touch rows that are due. `AlertedOnceWhenDue` needs `Owned`: a snoozed message is
hidden by one acceptance, whose row still names the column's instant, so that a
release by either side ends that acceptance and the other side finds nothing. That
is where the equality in the runner's UPDATE is used. `SnoozeAssumption` only gives
the bounds their types.

`DesktopService_proofs`: `OneService` is about a step, and `Restarting` says why it
holds: a restart is scheduled or about to fork only after the exit, never both at
once, and not while the app boots. `BoundedRestarts` compares a history with a
budget the policy resets; `Budget` bounds the restarts since the last reset by the
attempts the policy counts, or by nothing when a reset is due. `DesktopAssumption`
asks for a positive restart budget and at least one start.

`FlagsTasks_proofs`: four properties from one invariant, `IInv`. `Chain` keeps the
tasks in commit order with one at the head. `Marked` says what the marker of a row
means in each phase of the process: while it is up a row is marked iff a task that
owes its push is live or in the middle of its settlement; before the sweep of a boot
it may be an orphan's. `Obliged` ties the row the boot replay is at to the
obligations left, and `Attempted` bounds the tries. The hard part is `TargetShown`
and `UnmarkedIsConfirmed`: `Shown` says, for a row that one task changed, what it
shows at each point of that task's life (`ShownBy`), a rollback that only the replay
will make included, and `FromFilter` which rows a filter rule may write. The theorems
hold for any number of messages, tasks, attempts and crashes, with or without filter
rules, orphans, rebuilds and payloads that cannot be opened: the exceptions are in the
properties themselves. For those payloads `Spoilt` says that an attempt only runs with
one that was opened, and that what is stranded is a message some task names.

`MoveTasks_proofs`: `NoOrphanGoal` speaks of a task that is live or about to give
back, which every action of the attempt could falsify. `IInv == Typed /\ Order /\
Obliged`. `Obliged` says that the row of a goal nothing has claimed is among the
unlatched items of a move task (`Promised`) that will still look at it (`Standing`):
pending, or running with the row not yet handled, in the engine, or to be retried
(`InHand`), or failed with its obligations still to run. `Order` is what that rests
on: nothing of a process outlives it (`Down`), one call at a time is in the engine
and what it has claimed stays claimed with no pass beside it (`Exclusive`), an item
goes when its row goes (`Backed`), the running task is the oldest (`Chain`), a task
has one destination (`OneDestination`), and a goal is elsewhere (`Elsewhere`).

`MoveNumbers_proofs`: that a number names its message is proved from what can not
change. In a folder and a generation, a number that was given to a message is that
message's or nobody's, and never becomes another's (`Stands`), because the provider
gives a number out once. So whatever a row, a copy, a pass or a call has read is as good when it is
used as when it was read, and `Facts` says of each what that is (`RowsStand`,
`CopiesStand`, `Listed`, `CallsStand`). Two things break it in the code, and
`outlived` has them as exceptions: a row a reset keeps, and an answer for a row that
was bound to another message since the call read it (`Mistaken`). The second takes
an abandoned call that is still dialling and more tasks than the run has; only
the attempt to prove the property without it showed it. The same facts
give two theorems about what commands do. `MovesWhatWasRead`: whatever a MOVE moves
is the message a row of its call stood for when the call read it, unless that row had
outlived its folder. `MovesWhatWasAccepted`: it is the message the row stood for when
the task was accepted, as long as the row is where it was then. The first would also
hold of a check against the generation the call read; the second is why the code
freezes it at acceptance: the number a row had then stands for its message in that
generation (`Accepted`), whatever the cache has learnt since.

Only model-checked: the liveness properties (liveness under fairness is beyond the
prover). The three properties that are violated have no proof, of course.

No module of the project uses recursion, so nothing is lost to the prover there.

## Not modelled, and the plan

Not modelled: network and file I/O, encryption, the HTTP surface, search, the
web client's presentation. Database statements succeed while the process is up.
The wall clock does not step back (commit order is claim order).

Of moves: direct moves by filter rules and the Agent, the choice and creation of
destinations, Gmail's All Mail and its labels, mirrors of the trash, the probing
of a destination for its next number, progress counters and the notices to the
Agent. Of synchronisation: fetch windows other than as a set of messages that stay in
them, caps, the deletion probe's cursor, bodies. Of the desktop: the broker behind the
drain, downloading and verifying an update, the tray, and of windows all but whether
there is one.

Next, in this order:

1. more about the moves: what two rows that meet under one number can do, and rows of
   several messages in one run;
2. an abstract `Delivery` that `SendTasks` implements; removed accounts, damaged
   rows and the links to outbound attachments;
3. the migration as a mapping checked over bounded legacy states;
4. `AgentConfirmations`, `HostLease`, and the broker's side of the update drain.

The runs are kept few: a module gets one run for its safety and its liveness
together where that finishes in minutes.
