-------------------------- MODULE DesktopService --------------------------
(***************************************************************************)
(* The local mail service as the desktop's main process keeps it: the      *)
(* forked utility process, the bridge handle to it (server-bridge.mts),    *)
(* the restart policy after a crash (service-restart-policy.mts), the      *)
(* drain before an update, the teardown at exit and the window that may    *)
(* hold the app back (main.mts).                                           *)
(*                                                                         *)
(* What the code does within one turn of the event loop, the promise       *)
(* reactions included, is one action: a process exit and the rejections it *)
(* causes are one step.  Processes are numbered; `forks` is the last, and  *)
(* child is its state.  The clocks of the policy are read only through     *)
(* "ten minutes since the first failure" and "five minutes since the       *)
(* recovery": TimePasses.  One install request runs at a time; draining    *)
(* the Agent broker is a wait with two outcomes.                           *)
(***************************************************************************)
EXTENDS Naturals

CONSTANTS
    MaxRestarts,    \* maxServiceRestartAttempts
    MaxForks,       \* bound: processes forked in one life of the app
    MaxUpdates,     \* bound: install requests
    MaxPauses       \* bound: how often the policy's clocks run out

ASSUME DesktopAssumption ==
    /\ MaxRestarts \in Nat \ {0}
    /\ MaxForks \in Nat \ {0}
    /\ MaxUpdates \in Nat
    /\ MaxPauses \in Nat

VARIABLES
    app,        \* the main process
    gate,       \* desktopAgentBrokerRecoveryGate
    quitting,   \* isQuitting
    shutdown,   \* shutdownPromise is set
    mainWindow, \* there is one: not while the host runs headless
    expected,   \* serverProcessExpectedExit
    child, forks,
    handle,     \* localServer, by the number of its process; NoHandle
    closeAsked, \* the `closed` flag of a handle: those close() was called on
    attempt,    \* where the restart attempt in flight is
    timer,      \* a restart is scheduled
    policy,     \* ServiceRestartState
    givenUp,
    update,     \* where prepareAndBeginUpdateInstall is
    updates,
    pauses,
    spent,      \* history: restarts since the budget was last fresh
    ignored     \* history: a failure of the current outage was passed over

exitVars    == <<app, gate, quitting, shutdown, mainWindow>>
processVars == <<child, forks, expected>>
handleVars  == <<handle, closeAsked>>
policyVars  == <<timer, policy, givenUp, spent>>
updateVars  == <<update, updates>>
vars == <<exitVars, processVars, handleVars, attempt, policyVars, updateVars,
          pauses, ignored>>

NoHandle == 0
Alive    == {"starting", "serving", "closing", "closed"}
Policy   == [attempts : Nat, window : {"none", "open", "slid"},
             recovery : {"none", "recent", "stable"}]

\* Every variable has a value of its field's type.
TypeOK ==
    /\ app \in {"booting", "running", "leaving", "exited", "installing", "relaunched"}
    /\ gate \in {"accepting", "draining", "closed"}
    /\ {quitting, shutdown, mainWindow, expected} \subseteq BOOLEAN
    /\ child \in Alive \cup {"exited"}
    /\ forks \in 1..MaxForks
    /\ handle \in 0..MaxForks
    /\ closeAsked \subseteq 1..MaxForks
    /\ attempt \in {"idle", "key", "handshake"}
    /\ timer \in BOOLEAN /\ givenUp \in BOOLEAN /\ ignored \in BOOLEAN
    /\ policy \in Policy
    /\ update \in {"idle", "drain", "close", "prepared"}
    /\ updates \in 0..MaxUpdates /\ pauses \in 0..MaxPauses
    /\ spent \in Nat

InitialPolicy == [attempts |-> 0, window |-> "none", recovery |-> "none"]

\* boot() has created the window, unless the host is headless, loaded the key
\* and forked the first process.
Init ==
    /\ app = "booting"
    /\ gate = "accepting"
    /\ quitting = FALSE /\ shutdown = FALSE /\ expected = FALSE
    /\ mainWindow \in BOOLEAN
    /\ child = "starting" /\ forks = 1
    /\ handle = NoHandle /\ closeAsked = {}
    /\ attempt = "idle"
    /\ timer = FALSE /\ policy = InitialPolicy /\ givenUp = FALSE
    /\ update = "idle" /\ updates = 0
    /\ pauses = 0 /\ spent = 0 /\ ignored = FALSE

Up == app \in {"booting", "running", "leaving"}

\* isServiceLifecycleShuttingDown.
ShuttingDown == quitting \/ shutdown \/ expected \/ gate = "draining"

-----------------------------------------------------------------------------
(* The restart policy.                                                     *)

ResetIfDue(p) ==
    IF p.recovery = "stable" \/ p.window = "slid"
    THEN [p EXCEPT !.attempts = 0, !.window = "none"]
    ELSE p

RecordAttempt_KeepsRecovery(p) ==
    [p EXCEPT !.attempts = @ + 1, !.window = IF @ = "none" THEN "open" ELSE @]

\* A failure voids the recovery: only a new one can be stable again.
RecordAttempt(p) ==
    [attempts |-> p.attempts + 1,
     window |-> IF p.window = "none" THEN "open" ELSE p.window,
     recovery |-> "none"]

HandleFailure_SilentEnd ==
    LET p == ResetIfDue(policy) IN
    /\ IF p.attempts >= MaxRestarts
       THEN policy' = p /\ UNCHANGED <<timer, spent>>
       ELSE /\ policy' = RecordAttempt(p)
            /\ timer' = TRUE
            /\ spent' = spent + 1
    /\ UNCHANGED <<givenUp, ignored>>

\* handleFailure: evaluate, then give up or record and schedule.
HandleFailure ==
    LET p == ResetIfDue(policy) IN
    /\ IF p.attempts >= MaxRestarts
       THEN policy' = p /\ givenUp' = TRUE /\ UNCHANGED <<timer, spent>>
       ELSE /\ policy' = RecordAttempt(p)
            /\ timer' = TRUE
            /\ spent' = spent + 1
            /\ UNCHANGED givenUp
    /\ UNCHANGED ignored

\* A failure the coordinator does not decide about.
PassOver == ignored' = TRUE /\ UNCHANGED policyVars

\* The catch of runAttempt, after startService rejected.
AttemptFailed(expectedNow) ==
    /\ attempt' = "idle"
    /\ IF quitting \/ shutdown \/ expectedNow \/ gate = "draining"
       THEN PassOver
       ELSE HandleFailure

\* onServiceProcessExit.
OnExit ==
    IF givenUp \/ ShuttingDown \/ handle = NoHandle \/ attempt # "idle"
    THEN PassOver
    ELSE HandleFailure

-----------------------------------------------------------------------------
(* The service process.                                                    *)

Stop_Untyped ==
    /\ expected' = TRUE
    /\ child' = "stopped"
    /\ UNCHANGED forks

\* stopLocalServerProcess: the exit it causes is an expected one.
Stop ==
    /\ expected' = TRUE
    /\ child' = "exited"
    /\ UNCHANGED forks

BootSucceeds ==
    /\ app = "booting" /\ child = "starting"
    /\ app' = "running"
    /\ child' = "serving"
    /\ handle' = forks
    /\ UNCHANGED <<gate, quitting, shutdown, mainWindow, expected, forks,
                   closeAsked, attempt, policyVars, updateVars, pauses,
                   ignored>>

\* The first start failed: the catch of boot() ends the app.
BootFails ==
    /\ app = "booting"
    /\ app' = "exited"
    /\ gate' = "closed"
    /\ Stop
    /\ UNCHANGED <<quitting, shutdown, mainWindow, handleVars, attempt,
                   policyVars, updateVars, pauses, ignored>>

TimerFires ==
    /\ Up /\ timer
    /\ timer' = FALSE
    /\ IF ShuttingDown
       THEN ignored' = TRUE /\ UNCHANGED attempt
       ELSE attempt' = "key" /\ UNCHANGED ignored
    /\ UNCHANGED <<exitVars, processVars, handleVars, policy, givenUp, spent,
                   updateVars, pauses>>

\* The key is loaded and forkServerProcess ran.  Nothing is asked in between.
Fork ==
    /\ Up /\ attempt = "key" /\ forks < MaxForks
    /\ attempt' = "handshake"
    /\ forks' = forks + 1
    /\ child' = "starting"
    /\ expected' = FALSE
    /\ UNCHANGED <<exitVars, handleVars, policyVars, updateVars, pauses,
                   ignored>>

KeyFails ==
    /\ Up /\ attempt = "key"
    /\ AttemptFailed(expected)
    /\ UNCHANGED <<exitVars, processVars, handleVars, updateVars, pauses>>

\* The handshake answered, which it need never do: the start has no deadline,
\* only its answer or the exit of its process ends it.  The handle is installed
\* whatever began meanwhile.
HandshakeSucceeds ==
    /\ Up /\ attempt = "handshake" /\ child = "starting"
    /\ attempt' = "idle"
    /\ child' = "serving"
    /\ handle' = forks
    /\ policy' = [policy EXCEPT !.recovery = "recent"]
    /\ ignored' = FALSE
    /\ UNCHANGED <<exitVars, forks, expected, closeAsked, timer, givenUp,
                   spent, updateVars, pauses>>

HandshakeFails_LeavesProcess ==
    /\ Up /\ attempt = "handshake"
    /\ AttemptFailed(expected)
    /\ UNCHANGED <<exitVars, processVars, handleVars, updateVars, pauses>>

\* The start was refused or its process died: startLocalServiceInUtilityProcess
\* stops the process, and the coordinator's catch runs after that.
HandshakeFails ==
    /\ Up /\ attempt = "handshake"
    /\ Stop
    /\ AttemptFailed(expected')
    /\ UNCHANGED <<exitVars, handleVars, updateVars, pauses>>

\* Any other exit.  A close() still asked of it is rejected in the same turn,
\* after the coordinator has looked.
Crash ==
    /\ app \in {"running", "leaving"}
    /\ child \in Alive \ {"starting"}
    /\ child' = "exited"
    /\ OnExit
    /\ IF update = "close"
       THEN update' = "idle" /\ gate' = "accepting"
       ELSE UNCHANGED <<update, gate>>
    /\ UNCHANGED <<app, quitting, shutdown, mainWindow, expected, forks,
                   handleVars, attempt, updates, pauses>>

\* Ten minutes since the window opened, or five since the recovery.
TimePasses ==
    /\ pauses < MaxPauses
    /\ pauses' = pauses + 1
    /\ \/ policy.window = "open" /\ policy' = [policy EXCEPT !.window = "slid"]
       \/ policy.recovery = "recent" /\ policy' = [policy EXCEPT !.recovery = "stable"]
    /\ spent' = 0
    /\ UNCHANGED <<exitVars, processVars, handleVars, attempt, timer, givenUp,
                   updateVars, ignored>>

-----------------------------------------------------------------------------
(* Installing an update.                                                   *)

RequestInstall ==
    /\ app = "running" /\ update = "idle" /\ updates < MaxUpdates
    /\ ~quitting /\ handle # NoHandle
    /\ gate' = "draining"
    /\ update' = "drain"
    /\ updates' = updates + 1
    /\ UNCHANGED <<app, quitting, shutdown, mainWindow, processVars,
                   handleVars, attempt, policyVars, pauses, ignored>>

\* The attempt is over and the app goes on: the gate opens again.
AbortInstall == update' = "idle" /\ gate' = "accepting"

\* The broker could not be verified and drained.
DrainRefused ==
    /\ Up /\ update = "drain"
    /\ AbortInstall
    /\ UNCHANGED <<app, quitting, shutdown, mainWindow, processVars,
                   handleVars, attempt, policyVars, updates, pauses, ignored>>

Prepared ==
    /\ handle' = NoHandle
    /\ Stop
    /\ quitting' = TRUE
    /\ gate' = "closed"
    /\ update' = "prepared"

\* What close() of the current handle does to the process it belongs to.
AskClose ==
    /\ closeAsked' = closeAsked \cup {handle}
    /\ child' = IF handle = forks /\ child = "serving" THEN "closing" ELSE child

\* Only now is the handle read, and a teardown may have taken it.  A second
\* close() returns at once, one to a process that is gone is rejected.
Drained ==
    /\ Up /\ update = "drain"
    /\ \/ /\ handle = NoHandle
          /\ AbortInstall
          /\ UNCHANGED <<processVars, handleVars, quitting>>
       \/ /\ handle # NoHandle /\ handle \in closeAsked
          /\ Prepared
          /\ UNCHANGED closeAsked
       \/ /\ handle # NoHandle /\ handle \notin closeAsked
          /\ AskClose
          /\ IF child' = "closing" /\ child = "serving"
             THEN update' = "close" /\ UNCHANGED gate
             ELSE AbortInstall
          /\ UNCHANGED <<handle, quitting, forks, expected>>
    /\ UNCHANGED <<app, shutdown, mainWindow, attempt, policyVars, updates,
                   pauses, ignored>>

\* The service answers close().  Its process stays until it is stopped.
ServerCloses ==
    /\ Up /\ child = "closing"
    /\ IF update = "close"
       THEN Prepared
       ELSE /\ child' = "closed"
            /\ UNCHANGED <<handle, forks, expected, quitting, gate, update>>
    /\ UNCHANGED <<app, shutdown, mainWindow, closeAsked, attempt, policyVars,
                   updates, pauses, ignored>>

CloseTimesOut ==
    /\ Up /\ update = "close"
    /\ AbortInstall
    /\ UNCHANGED <<app, quitting, shutdown, mainWindow, processVars,
                   handleVars, attempt, policyVars, updates, pauses, ignored>>

\* The installer runs and the app quits, or it does not and the app relaunches:
\* the window is destroyed either way.
HandOver ==
    /\ Up /\ update = "prepared"
    /\ gate' = "closed"
    /\ app' \in {"installing", "relaunched"}
    /\ mainWindow' = FALSE
    /\ UNCHANGED <<quitting, shutdown, processVars, handleVars, attempt,
                   policyVars, updateVars, pauses, ignored>>

-----------------------------------------------------------------------------
(* The window, and leaving.                                                *)

\* createMainWindow: a pairing or a second launch brings it up on demand.
OpenWindow ==
    /\ app \in {"running", "leaving"}
    /\ ~mainWindow /\ handle # NoHandle
    /\ mainWindow' = TRUE
    /\ UNCHANGED <<app, gate, quitting, shutdown, processVars, handleVars,
                   attempt, policyVars, updateVars, pauses, ignored>>

\* requestMainWindowClose prevents the close while nobody set isQuitting.
HoldsTheApp == mainWindow /\ ~quitting

\* closeLocalServerForExit: once, whoever asks.
BeginTeardown ==
    /\ shutdown' = TRUE
    /\ app' = "leaving"
    /\ IF shutdown THEN UNCHANGED <<child, closeAsked>> ELSE AskClose

\* before-quit: without a service, or when the teardown is under way, the app
\* goes if its window lets it; else shutdownLocalServerAndQuit destroys the
\* window and waits for the teardown, which may be over already.
Quit ==
    /\ Up
    /\ gate' = "closed"
    /\ \/ /\ handle = NoHandle \/ quitting
          /\ app' = IF HoldsTheApp THEN app ELSE "exited"
          /\ UNCHANGED <<quitting, shutdown, mainWindow, child, closeAsked>>
       \/ /\ handle # NoHandle /\ ~quitting
          /\ quitting' = TRUE
          /\ mainWindow' = FALSE
          /\ IF shutdown /\ app = "running"
             THEN app' = "exited" /\ UNCHANGED <<shutdown, child, closeAsked>>
             ELSE BeginTeardown
    /\ UNCHANGED <<forks, expected, handle, attempt, policyVars, updateVars,
                   pauses, ignored>>

\* A paired client asked the host to shut down.  isQuitting stays as it is, and
\* the window stays open.
HostShutdown ==
    /\ app = "running" /\ ~shutdown /\ handle # NoHandle
    /\ BeginTeardown
    /\ UNCHANGED <<gate, quitting, mainWindow, forks, expected, handle,
                   attempt, policyVars, updateVars, pauses, ignored>>

\* The process is killed, which rejects a close() still asked of it, and the app
\* asked to quit.
TornDown ==
    /\ handle' = NoHandle
    /\ Stop
    /\ app' = IF HoldsTheApp THEN "running" ELSE "exited"
    /\ IF update = "close"
       THEN AbortInstall
       ELSE gate' = "closed" /\ UNCHANGED update
    /\ UNCHANGED <<quitting, shutdown, mainWindow, closeAsked, attempt,
                   policyVars, updates, pauses, ignored>>

TeardownEnds_AwaitsServer == app = "leaving" /\ child # "closing" /\ TornDown

\* The server closed, or failed to, or the two seconds are over.
TeardownEnds == app = "leaving" /\ TornDown

Boot    == BootSucceeds \/ BootFails
Restart == TimerFires \/ Fork \/ KeyFails \/ HandshakeSucceeds \/ HandshakeFails
Install == DrainRefused \/ Drained \/ CloseTimesOut \/ HandOver

Next ==
    \/ Boot \/ Restart \/ Install \/ TeardownEnds \/ ServerCloses \/ OpenWindow
    \/ Crash \/ TimePasses \/ RequestInstall \/ Quit \/ HostShutdown

\* Timers fire, the key loads or does not, a start is rejected when its process
\* is gone, and the drain, the close before an install and the teardown have
\* deadlines.  The service need not answer, be it a start or a close, and nobody
\* has to quit.
Fairness ==
    /\ WF_vars(TimerFires \/ Fork \/ KeyFails)
    /\ WF_vars(child = "exited" /\ HandshakeFails)
    /\ WF_vars(Install)
    /\ WF_vars(TeardownEnds)

SafetySpec == Init /\ [][Next]_vars
Spec == SafetySpec /\ Fairness

-----------------------------------------------------------------------------

\* A service is forked only when the one before it is gone: two processes never
\* work on the same database.
OneService == [][forks' # forks => child = "exited"]_vars

\* A service that crashes again and again is restarted at most MaxRestarts
\* times until ten minutes have passed or it ran five minutes: no failure
\* gives the budget back by itself.
BoundedRestarts == spent <= MaxRestarts

\* No start keeps its caller waiting for ever: the code does not see to it.
StartsAnswer == []<>(attempt # "handshake")

\* Every end of the service in a running app is answered with a restart that
\* serves, with giving up or with the end of the service or the app on request,
\* unless the coordinator passed over it because it took it for an exit somebody
\* wanted, or a restarted process neither answers nor exits: a start has no
\* deadline.
FailureIsAnswered ==
    StartsAnswer =>
    (app = "running" /\ child = "exited")
       ~> (child = "serving" \/ givenUp \/ app # "running" \/ quitting \/ shutdown
           \/ ignored)

\* An app that was told to leave does, though the service hangs: quitting and an
\* install end it within their budgets.  A shutdown by the host ends the service
\* within its budget, and the app unless a window is open: that keeps an app
\* running that has no service any more (onHostShutdown does not set isQuitting).
LeavingEnds ==
    /\ (app = "leaving" /\ quitting) \/ update = "prepared" ~> ~Up
    /\ app = "leaving" ~> \/ ~Up
                          \/ app = "running" /\ mainWindow /\ handle = NoHandle

\* What service-restart-policy.mts says: "a crash-on-boot loop always burns the
\* full budget and reaches give-up"; nothing is passed over in a running app.
CrashLoopGivesUp ==
    StartsAnswer =>
    (app = "running" /\ child = "exited")
       ~> (child = "serving" \/ givenUp \/ app # "running" \/ quitting \/ shutdown)
===========================================================================
