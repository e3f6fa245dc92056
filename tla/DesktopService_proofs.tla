------------------------ MODULE DesktopService_proofs ------------------------
(***************************************************************************)
(* Proofs about DesktopService: types, one service process at a time, and  *)
(* a bounded number of restarts, for every restart budget and every number *)
(* of forks, install requests and runs of the clocks.                      *)
(*                                                                         *)
(* OneService is about a step; what makes it true is Restarting, which     *)
(* says when a restart can be on its way.  BoundedRestarts compares a      *)
(* history with a budget the code keeps; Budget ties the two together.     *)
(***************************************************************************)
EXTENDS DesktopService, TLAPS

USE DesktopAssumption DEF DesktopAssumption

\* A restart is scheduled, or about to fork, only after the process is gone,
\* never both at once, and not before the first start has been decided.
Restarting ==
    /\ timer \/ attempt = "key" => child = "exited"
    /\ timer => attempt = "idle"
    /\ app = "booting" => ~timer /\ attempt = "idle"

\* A reset of the budget is due.
ResetDue == policy.recovery = "stable" \/ policy.window = "slid"

\* The restarts since the budget was last fresh are among those it counts,
\* unless it is about to be reset, and then there were none.
Budget ==
    /\ policy.attempts <= MaxRestarts
    /\ spent <= (IF ResetDue THEN 0 ELSE policy.attempts)

\* The conjuncts of TypeOK that are about flags, and the others.
Switches ==
    /\ quitting \in BOOLEAN /\ shutdown \in BOOLEAN
    /\ mainWindow \in BOOLEAN /\ expected \in BOOLEAN
    /\ timer \in BOOLEAN /\ givenUp \in BOOLEAN /\ ignored \in BOOLEAN

Fields ==
    /\ app \in {"booting", "running", "leaving", "exited", "installing", "relaunched"}
    /\ gate \in {"accepting", "draining", "closed"}
    /\ child \in Alive \cup {"exited"}
    /\ forks \in 1..MaxForks /\ handle \in 0..MaxForks
    /\ closeAsked \subseteq 1..MaxForks
    /\ attempt \in {"idle", "key", "handshake"}
    /\ policy \in Policy
    /\ update \in {"idle", "drain", "close", "prepared"}
    /\ updates \in 0..MaxUpdates /\ pauses \in 0..MaxPauses
    /\ spent \in Nat

IInv == Switches /\ Fields /\ Restarting /\ Budget

-----------------------------------------------------------------------------

LEMMA InitInv == Init => IInv
<1>1. Init => Switches
  BY DEF Init, Switches
<1>2. Init => Fields
  BY DEF Init, Fields, Policy, InitialPolicy, Alive, NoHandle
<1>3. Init => Restarting
  BY DEF Init, Restarting
<1>4. Init => Budget
  BY DEF Init, Budget, ResetDue, InitialPolicy
<1>5. QED
  BY <1>1, <1>2, <1>3, <1>4 DEF IInv

\* The policy's answer to a failure keeps its types and its budget.
LEMMA FailureHandled ==
    ASSUME IInv, HandleFailure
    PROVE  /\ timer' \in BOOLEAN /\ givenUp' \in BOOLEAN /\ ignored' \in BOOLEAN
           /\ policy' \in Policy /\ spent' \in Nat
           /\ Budget'
<1>1. timer' \in BOOLEAN /\ givenUp' \in BOOLEAN /\ ignored' \in BOOLEAN
  BY DEF IInv, Switches, HandleFailure
<1> DEFINE p == ResetIfDue(policy)
<1>2. /\ p \in Policy /\ p.attempts <= MaxRestarts /\ p.window # "slid"
      /\ IF ResetDue THEN p.attempts = 0 /\ spent = 0 ELSE p = policy
  <2>1. CASE ResetDue
    <3>1. p = [attempts |-> 0, window |-> "none", recovery |-> policy.recovery]
      BY <2>1 DEF IInv, Fields, ResetDue, ResetIfDue, Policy
    <3>2. policy.recovery \in {"none", "recent", "stable"} /\ spent = 0
      BY <2>1 DEF IInv, Fields, Budget, Policy
    <3>3. QED
      BY <2>1, <3>1, <3>2 DEF Policy
  <2>2. CASE ~ResetDue
    BY <2>2 DEF IInv, Fields, Budget, ResetDue, ResetIfDue, Policy
  <2>3. QED
    BY <2>1, <2>2
<1>3. CASE p.attempts >= MaxRestarts
  <2>1. policy' = policy /\ spent' = spent
    BY <1>2, <1>3 DEF HandleFailure, Policy
  <2>2. QED
    BY <1>1, <2>1 DEF IInv, Fields, Budget, ResetDue
<1>4. CASE ~(p.attempts >= MaxRestarts)
  <2>1. policy' = RecordAttempt(p) /\ spent' = spent + 1
    BY <1>4 DEF HandleFailure
  <2>2. policy' \in Policy /\ spent' \in Nat
    BY <1>2, <2>1 DEF IInv, Fields, RecordAttempt, Policy
  <2>3. policy'.attempts = p.attempts + 1 /\ spent <= p.attempts
    BY <1>2, <2>1 DEF IInv, Fields, Budget, ResetDue, RecordAttempt, Policy
  <2>4. ~ResetDue'
    BY <1>2, <2>1 DEF ResetDue, RecordAttempt, Policy
  <2>5. Budget'
    BY <1>2, <1>4, <2>1, <2>3, <2>4 DEF IInv, Fields, Budget, Policy
  <2>6. QED
    BY <1>1, <2>2, <2>5
<1>5. QED
  BY <1>3, <1>4

\* Only a handle there is, is closed.
LEMMA CloseAsked ==
    ASSUME IInv, handle # NoHandle, AskClose
    PROVE  closeAsked' \subseteq 1..MaxForks /\ child' \in Alive \cup {"exited"}
<1>1. handle \in 1..MaxForks
  BY DEF IInv, Fields, NoHandle
<1>2. closeAsked' \subseteq 1..MaxForks
  <2>1. closeAsked \subseteq 1..MaxForks /\ closeAsked' = closeAsked \cup {handle}
    BY DEF IInv, Fields, AskClose
  <2>2. QED
    BY <1>1, <2>1
<1>3. child' \in Alive \cup {"exited"}
  BY DEF IInv, Fields, AskClose, Alive
<1>4. QED
  BY <1>2, <1>3

\* Every action keeps the flags.
LEMMA SwitchesKept ==
    ASSUME IInv, [Next]_vars
    PROVE  Switches'
<1>1. CASE BootSucceeds
  BY <1>1 DEF IInv, Switches, BootSucceeds, policyVars, updateVars
<1>2. CASE BootFails
  BY <1>2 DEF IInv, Switches, BootFails, Stop, handleVars, policyVars,
     updateVars
<1>3. CASE TimerFires
  BY <1>3 DEF IInv, Switches, TimerFires, exitVars, processVars, handleVars,
     updateVars
<1>4. CASE Fork
  BY <1>4 DEF IInv, Switches, Fork, exitVars, handleVars, policyVars,
     updateVars
<1>5. CASE KeyFails
  BY <1>5, FailureHandled DEF IInv, Switches, KeyFails, AttemptFailed,
     PassOver, exitVars, processVars, handleVars, policyVars, updateVars
<1>6. CASE HandshakeSucceeds
  BY <1>6 DEF IInv, Switches, HandshakeSucceeds, exitVars, updateVars
<1>7. CASE HandshakeFails
  BY <1>7, FailureHandled DEF IInv, Switches, HandshakeFails, AttemptFailed,
     PassOver, Stop, exitVars, handleVars, policyVars, updateVars
<1>8. CASE DrainRefused
  BY <1>8 DEF IInv, Switches, DrainRefused, AbortInstall, processVars,
     handleVars, policyVars
<1>9. CASE Drained
  BY <1>9 DEF IInv, Switches, Drained, Prepared, AskClose, AbortInstall, Stop,
     processVars, handleVars, policyVars
<1>10. CASE CloseTimesOut
  BY <1>10 DEF IInv, Switches, CloseTimesOut, AbortInstall, processVars,
     handleVars, policyVars
<1>11. CASE HandOver
  BY <1>11 DEF IInv, Switches, HandOver, processVars, handleVars, policyVars,
     updateVars
<1>12. CASE TeardownEnds
  BY <1>12 DEF IInv, Switches, TeardownEnds, TornDown, AbortInstall, Stop,
     policyVars, updateVars
<1>13. CASE ServerCloses
  BY <1>13 DEF IInv, Switches, ServerCloses, Prepared, Stop, policyVars
<1>14. CASE Crash
  BY <1>14, FailureHandled DEF IInv, Switches, Crash, OnExit, PassOver,
     handleVars, policyVars
<1>15. CASE TimePasses
  BY <1>15 DEF IInv, Switches, TimePasses, exitVars, processVars, handleVars,
     updateVars
<1>16. CASE RequestInstall
  BY <1>16 DEF IInv, Switches, RequestInstall, processVars, handleVars,
     policyVars
<1>17. CASE Quit
  BY <1>17 DEF IInv, Switches, Quit, BeginTeardown, AskClose, policyVars,
     updateVars
<1>18. CASE HostShutdown
  BY <1>18 DEF IInv, Switches, HostShutdown, BeginTeardown, AskClose,
     policyVars, updateVars
<1>19. CASE UNCHANGED vars
  BY <1>19 DEF IInv, Switches, vars, exitVars, processVars, handleVars,
     policyVars, updateVars
<1>20. CASE OpenWindow
  BY <1>20 DEF IInv, Switches, OpenWindow, processVars, handleVars, policyVars,
     updateVars
<1>21. QED
  BY <1>1, <1>2, <1>3, <1>4, <1>5, <1>6, <1>7, <1>8, <1>9, <1>10, <1>11,
     <1>12, <1>13, <1>14, <1>15, <1>16, <1>17, <1>18, <1>19, <1>20
     DEF Next, Boot, Restart, Install

\* Every action keeps the other variables' types.
LEMMA FieldsKept ==
    ASSUME IInv, [Next]_vars
    PROVE  Fields'
<1>1. CASE BootSucceeds
  BY <1>1 DEF IInv, Fields, Alive, NoHandle, BootSucceeds, policyVars,
     updateVars
<1>2. CASE BootFails
  BY <1>2 DEF IInv, Fields, Alive, NoHandle, BootFails, Stop, handleVars,
     policyVars, updateVars
<1>3. CASE TimerFires
  BY <1>3 DEF IInv, Fields, Alive, NoHandle, TimerFires, exitVars, processVars,
     handleVars, updateVars
<1>4. CASE Fork
  BY <1>4 DEF IInv, Fields, Alive, NoHandle, Fork, exitVars, handleVars,
     policyVars, updateVars
<1>5. CASE KeyFails
  BY <1>5, FailureHandled DEF IInv, Fields, Alive, NoHandle, KeyFails,
     AttemptFailed, PassOver, exitVars, processVars, handleVars, policyVars,
     updateVars
<1>6. CASE HandshakeSucceeds
  BY <1>6 DEF IInv, Fields, Alive, NoHandle, HandshakeSucceeds, exitVars,
     updateVars, Policy
<1>7. CASE HandshakeFails
  BY <1>7, FailureHandled DEF IInv, Fields, Alive, NoHandle, HandshakeFails,
     AttemptFailed, PassOver, Stop, exitVars, handleVars, policyVars,
     updateVars
<1>8. CASE DrainRefused
  BY <1>8 DEF IInv, Fields, Alive, NoHandle, DrainRefused, AbortInstall,
     processVars, handleVars, policyVars
<1>9. CASE Drained
  <2>1. CASE handle = NoHandle
    BY <1>9, <2>1
       DEF IInv, Fields, Alive, Drained, AbortInstall, processVars, handleVars,
       policyVars
  <2>2. CASE handle # NoHandle /\ handle \in closeAsked
    <3>1. Prepared /\ UNCHANGED <<closeAsked, app, attempt, policyVars, updates, pauses>>
      BY <1>9, <2>2 DEF Drained
    <3>2. QED
      BY <3>1 DEF IInv, Fields, NoHandle, Prepared, Stop, policyVars
  <2>3. CASE handle # NoHandle /\ handle \notin closeAsked
    <3>1. closeAsked' \subseteq 1..MaxForks /\ child' \in Alive \cup {"exited"}
      BY <1>9, <2>3, CloseAsked DEF Drained
    <3>2. QED
      BY <1>9, <2>3, <3>1 DEF IInv, Fields, Drained, AbortInstall, policyVars
  <2>4. QED
    BY <2>1, <2>2, <2>3
<1>10. CASE CloseTimesOut
  BY <1>10 DEF IInv, Fields, Alive, NoHandle, CloseTimesOut, AbortInstall,
     processVars, handleVars, policyVars
<1>11. CASE HandOver
  BY <1>11 DEF IInv, Fields, Alive, NoHandle, HandOver, processVars,
     handleVars, policyVars, updateVars
<1>12. CASE TeardownEnds
  BY <1>12 DEF IInv, Fields, Alive, NoHandle, TeardownEnds, TornDown,
     AbortInstall, Stop, policyVars, updateVars
<1>13. CASE ServerCloses
  BY <1>13 DEF IInv, Fields, Alive, NoHandle, ServerCloses, Prepared, Stop,
     policyVars
<1>14. CASE Crash
  BY <1>14, FailureHandled DEF IInv, Fields, Alive, NoHandle, Crash, OnExit,
     PassOver, handleVars, policyVars
<1>15. CASE TimePasses
  BY <1>15 DEF IInv, Fields, Alive, NoHandle, TimePasses, exitVars,
     processVars, handleVars, updateVars, Policy
<1>16. CASE RequestInstall
  BY <1>16 DEF IInv, Fields, Alive, NoHandle, RequestInstall, processVars,
     handleVars, policyVars
<1>17. CASE Quit
  <2>1. CASE handle = NoHandle \/ quitting
    BY <1>17, <2>1 DEF IInv, Fields, Quit, policyVars, updateVars
  <2>2. CASE handle # NoHandle /\ ~quitting
    <3>1. closeAsked' \subseteq 1..MaxForks /\ child' \in Alive \cup {"exited"}
      BY <1>17, <2>2, CloseAsked DEF IInv, Fields, Quit, BeginTeardown
    <3>2. QED
      BY <1>17, <2>2, <3>1
         DEF IInv, Fields, Quit, BeginTeardown, policyVars, updateVars
  <2>3. QED
    BY <2>1, <2>2
<1>18. CASE HostShutdown
  <2>1. closeAsked' \subseteq 1..MaxForks /\ child' \in Alive \cup {"exited"}
    BY <1>18, CloseAsked DEF IInv, Fields, HostShutdown, BeginTeardown
  <2>2. QED
    BY <1>18, <2>1
       DEF IInv, Fields, HostShutdown, BeginTeardown, policyVars, updateVars
<1>19. CASE UNCHANGED vars
  BY <1>19 DEF IInv, Fields, Alive, NoHandle, vars, exitVars, processVars,
     handleVars, policyVars, updateVars
<1>20. CASE OpenWindow
  BY <1>20 DEF IInv, Fields, Alive, NoHandle, OpenWindow, processVars,
     handleVars, policyVars, updateVars
<1>21. QED
  BY <1>1, <1>2, <1>3, <1>4, <1>5, <1>6, <1>7, <1>8, <1>9, <1>10, <1>11,
     <1>12, <1>13, <1>14, <1>15, <1>16, <1>17, <1>18, <1>19, <1>20
     DEF Next, Boot, Restart, Install

\* A restart comes only after an end: the process that serves, starts or closes
\* has none on its way.
LEMMA RestartingKept ==
    ASSUME IInv, [Next]_vars
    PROVE  Restarting'
<1>1. CASE BootSucceeds
  BY <1>1 DEF IInv, Restarting, Alive, BootSucceeds, policyVars, updateVars
<1>2. CASE BootFails
  BY <1>2 DEF IInv, Restarting, Alive, BootFails, Stop, handleVars, policyVars,
     updateVars, Up
<1>3. CASE TimerFires
  BY <1>3 DEF IInv, Restarting, Alive, TimerFires, exitVars, processVars,
     handleVars, updateVars, Up
<1>4. CASE Fork
  BY <1>4 DEF IInv, Restarting, Alive, Fork, exitVars, handleVars, policyVars,
     updateVars, Up
<1>5. CASE KeyFails
  BY <1>5, FailureHandled DEF IInv, Restarting, Alive, KeyFails, AttemptFailed,
     PassOver, exitVars, processVars, handleVars, policyVars, updateVars, Up,
     HandleFailure
<1>6. CASE HandshakeSucceeds
  BY <1>6 DEF IInv, Restarting, Alive, HandshakeSucceeds, exitVars, updateVars,
     Up
<1>7. CASE HandshakeFails
  BY <1>7, FailureHandled DEF IInv, Restarting, Alive, HandshakeFails,
     AttemptFailed, PassOver, Stop, exitVars, handleVars, policyVars,
     updateVars, Up, HandleFailure
<1>8. CASE DrainRefused
  BY <1>8 DEF IInv, Restarting, Alive, DrainRefused, AbortInstall, processVars,
     handleVars, policyVars
<1>9. CASE Drained
  BY <1>9 DEF IInv, Restarting, Alive, Drained, Prepared, AskClose,
     AbortInstall, Stop, processVars, handleVars, policyVars
<1>10. CASE CloseTimesOut
  BY <1>10 DEF IInv, Restarting, Alive, CloseTimesOut, AbortInstall,
     processVars, handleVars, policyVars
<1>11. CASE HandOver
  BY <1>11 DEF IInv, Restarting, Alive, HandOver, processVars, handleVars,
     policyVars, updateVars
<1>12. CASE TeardownEnds
  BY <1>12 DEF IInv, Restarting, Alive, TeardownEnds, TornDown, AbortInstall,
     Stop, policyVars, updateVars
<1>13. CASE ServerCloses
  BY <1>13 DEF IInv, Restarting, Alive, ServerCloses, Prepared, Stop,
     policyVars
<1>14. CASE Crash
  BY <1>14, FailureHandled DEF IInv, Restarting, Alive, Crash, OnExit,
     PassOver, handleVars, policyVars, HandleFailure
<1>15. CASE TimePasses
  BY <1>15 DEF IInv, Restarting, Alive, TimePasses, exitVars, processVars,
     handleVars, updateVars
<1>16. CASE RequestInstall
  BY <1>16 DEF IInv, Restarting, Alive, RequestInstall, processVars,
     handleVars, policyVars
<1>17. CASE Quit
  BY <1>17 DEF IInv, Restarting, Alive, Quit, BeginTeardown, AskClose,
     policyVars, updateVars
<1>18. CASE HostShutdown
  BY <1>18 DEF IInv, Restarting, Alive, HostShutdown, BeginTeardown, AskClose,
     policyVars, updateVars
<1>19. CASE UNCHANGED vars
  BY <1>19 DEF IInv, Restarting, Alive, vars, exitVars, processVars,
     handleVars, policyVars, updateVars
<1>20. CASE OpenWindow
  BY <1>20 DEF IInv, Restarting, Alive, OpenWindow, processVars, handleVars,
     policyVars, updateVars
<1>21. QED
  BY <1>1, <1>2, <1>3, <1>4, <1>5, <1>6, <1>7, <1>8, <1>9, <1>10, <1>11,
     <1>12, <1>13, <1>14, <1>15, <1>16, <1>17, <1>18, <1>19, <1>20
     DEF Next, Boot, Restart, Install

\* The budget is counted down by failures and renewed by the clocks alone.
LEMMA BudgetKept ==
    ASSUME IInv, [Next]_vars
    PROVE  Budget'
<1>1. CASE BootSucceeds
  BY <1>1 DEF IInv, Budget, ResetDue, BootSucceeds, policyVars, updateVars
<1>2. CASE BootFails
  BY <1>2 DEF IInv, Budget, ResetDue, BootFails, Stop, handleVars, policyVars,
     updateVars
<1>3. CASE TimerFires
  BY <1>3 DEF IInv, Budget, ResetDue, TimerFires, exitVars, processVars,
     handleVars, updateVars
<1>4. CASE Fork
  BY <1>4 DEF IInv, Budget, ResetDue, Fork, exitVars, handleVars, policyVars,
     updateVars
<1>5. CASE KeyFails
  BY <1>5, FailureHandled DEF IInv, Budget, ResetDue, KeyFails, AttemptFailed,
     PassOver, exitVars, processVars, handleVars, policyVars, updateVars
<1>6. CASE HandshakeSucceeds
  BY <1>6 DEF IInv, Budget, ResetDue, HandshakeSucceeds, exitVars, updateVars,
     Fields, Policy
<1>7. CASE HandshakeFails
  BY <1>7, FailureHandled DEF IInv, Budget, ResetDue, HandshakeFails,
     AttemptFailed, PassOver, Stop, exitVars, handleVars, policyVars,
     updateVars
<1>8. CASE DrainRefused
  BY <1>8 DEF IInv, Budget, ResetDue, DrainRefused, AbortInstall, processVars,
     handleVars, policyVars
<1>9. CASE Drained
  BY <1>9 DEF IInv, Budget, ResetDue, Drained, Prepared, AskClose,
     AbortInstall, Stop, processVars, handleVars, policyVars
<1>10. CASE CloseTimesOut
  BY <1>10 DEF IInv, Budget, ResetDue, CloseTimesOut, AbortInstall,
     processVars, handleVars, policyVars
<1>11. CASE HandOver
  BY <1>11 DEF IInv, Budget, ResetDue, HandOver, processVars, handleVars,
     policyVars, updateVars
<1>12. CASE TeardownEnds
  BY <1>12 DEF IInv, Budget, ResetDue, TeardownEnds, TornDown, AbortInstall,
     Stop, policyVars, updateVars
<1>13. CASE ServerCloses
  BY <1>13 DEF IInv, Budget, ResetDue, ServerCloses, Prepared, Stop, policyVars
<1>14. CASE Crash
  BY <1>14, FailureHandled DEF IInv, Budget, ResetDue, Crash, OnExit, PassOver,
     handleVars, policyVars
<1>15. CASE TimePasses
  BY <1>15 DEF IInv, Budget, ResetDue, TimePasses, exitVars, processVars,
     handleVars, updateVars, Fields, Policy
<1>16. CASE RequestInstall
  BY <1>16 DEF IInv, Budget, ResetDue, RequestInstall, processVars, handleVars,
     policyVars
<1>17. CASE Quit
  BY <1>17 DEF IInv, Budget, ResetDue, Quit, BeginTeardown, AskClose,
     policyVars, updateVars
<1>18. CASE HostShutdown
  BY <1>18 DEF IInv, Budget, ResetDue, HostShutdown, BeginTeardown, AskClose,
     policyVars, updateVars
<1>19. CASE UNCHANGED vars
  BY <1>19 DEF IInv, Budget, ResetDue, vars, exitVars, processVars, handleVars,
     policyVars, updateVars
<1>20. CASE OpenWindow
  BY <1>20 DEF IInv, Budget, ResetDue, OpenWindow, processVars, handleVars,
     policyVars, updateVars
<1>21. QED
  BY <1>1, <1>2, <1>3, <1>4, <1>5, <1>6, <1>7, <1>8, <1>9, <1>10, <1>11,
     <1>12, <1>13, <1>14, <1>15, <1>16, <1>17, <1>18, <1>19, <1>20
     DEF Next, Boot, Restart, Install

-----------------------------------------------------------------------------
(* The theorems.                                                           *)

\* What the properties rest on holds in every state.
THEOREM Invariant == SafetySpec => []IInv
<1>1. IInv /\ [Next]_vars => IInv'
  BY SwitchesKept, FieldsKept, RestartingKept, BudgetKept DEF IInv
<1>2. QED
  BY <1>1, InitInv, PTL DEF SafetySpec

\* Every variable always has a value of its field's type.
THEOREM TypeCorrect == SafetySpec => []TypeOK
<1>1. IInv => TypeOK
  BY DEF IInv, Switches, Fields, TypeOK
<1>2. QED
  BY <1>1, Invariant, PTL

\* No service is forked while the one before it lives: only a restart forks,
\* and one is on its way only after an end.
THEOREM OneAtATime == SafetySpec => OneService
<1>1. IInv /\ [Next]_vars => [forks' # forks => child = "exited"]_vars
  <2>1. SUFFICES ASSUME IInv, Next, forks' # forks
                 PROVE  child = "exited"
    BY DEF vars, processVars
  <2>2. CASE Fork
    BY <2>1, <2>2 DEF IInv, Restarting, Fork
  <2>3. CASE Boot \/ TimerFires \/ KeyFails \/ HandshakeSucceeds \/ HandshakeFails
    BY <2>1, <2>3 DEF Boot, BootSucceeds, BootFails, TimerFires, KeyFails,
       HandshakeSucceeds, HandshakeFails, Stop, processVars
  <2>4. CASE Install \/ TeardownEnds \/ ServerCloses
    BY <2>1, <2>4 DEF Install, DrainRefused, Drained, CloseTimesOut, HandOver,
       TeardownEnds, TornDown, ServerCloses, Prepared, Stop, processVars
  <2>5. CASE Crash \/ TimePasses \/ RequestInstall \/ OpenWindow \/ Quit
             \/ HostShutdown
    BY <2>1, <2>5 DEF Crash, TimePasses, RequestInstall, OpenWindow, Quit,
       HostShutdown, processVars
  <2>6. QED
    BY <2>1, <2>2, <2>3, <2>4, <2>5 DEF Next, Restart
<1>2. QED
  BY <1>1, Invariant, PTL DEF SafetySpec, OneService

\* A service that crashes again and again is not restarted for ever.
THEOREM RestartsAreBounded == SafetySpec => []BoundedRestarts
<1>1. IInv => BoundedRestarts
  BY DEF IInv, Fields, Budget, BoundedRestarts, Policy
<1>2. QED
  BY <1>1, Invariant, PTL
===========================================================================
