---------------------- MODULE AccountWriteSlots_proofs ---------------------
(***************************************************************************)
(* The write slot's guarantees for any callers, accounts and nesting.      *)
(* That no gate is lost holds for all; mutual exclusion and order hold for *)
(* the executions that did not start in a runner's context (Ordinary).     *)
(***************************************************************************)
EXTENDS AccountWriteSlots, TLAPS

\* Gates are numbered, and an open gate is one caller's.
GateInv ==
    \A a \in Accounts :
        /\ open[a] \subseteq 1..last[a]
        /\ \A p \in Callers : gate[p][a] <= last[a]
        /\ \A p, q \in Callers :
              p # q /\ gate[p][a] \in open[a] => gate[p][a] # gate[q][a]

\* Only an outermost call acquires; a nested one skips what it finds held.
CallerInv(p) ==
    /\ pc[p] = "idle" <=> depth[p] = 0
    /\ pc[p] = "wait" => depth[p] = 1
    /\ depth[p] = 1 /\ pc[p] \in {"acquire", "wait"} => todo[p] = scope[p]
    /\ depth[p] > 1 => scope[p] \cup todo[p] \subseteq held[p]
    /\ pc[p] = "inside" => scope[p] \subseteq held[p]
    /\ \A d \in Depths : d > 1 \/ d > depth[p] => frame[p][d] = {}
    /\ frame[p][1] \subseteq held[p]

CallInv == \A p \in Callers : CallerInv(p)

\* The owner of an open gate: its waiter, or the outermost call that got it.
Owns(p, a) ==
    \/ pc[p] = "wait" /\ a \in NextUp(p)
    \/ a \in frame[p][1]

OwnInv ==
    \A a \in Accounts : \A g \in open[a] :
        \E p \in Callers : gate[p][a] = g /\ Owns(p, a)

SlotInv == TypeOK /\ GateInv /\ CallInv /\ OwnInv

\* What an execution with its own context holds is held, and first in line.
HeldInv ==
    \A p \in Callers : p \notin Kicked =>
        \A a \in held[p] : gate[p][a] \in open[a] /\ Resolved(p, a)

\* A caller that waits has its gate closed behind it.
WaitInv ==
    \A p \in Callers : \A a \in NextUp(p) :
        pc[p] = "wait" => gate[p][a] \in open[a]

USE SlotAssumption DEF SlotAssumption

\* At most one call is at the head of a chain: the chain's map holds one tail
\* per account, so every gate has one predecessor.
LEMMA OneNextUp ==
  ASSUME TypeOK, NEW p \in Callers, NEW a \in NextUp(p)
  PROVE  /\ a \in Accounts /\ a \in todo[p] /\ a \notin held[p]
         /\ NextUp(p) = {a}
<1> DEFINE T == todo[p] \ held[p]
<1>1. T \subseteq Nat /\ todo[p] \subseteq Accounts
  BY DEF TypeOK
<1>2. a \in T /\ \A b \in T : a <= b
  BY DEF NextUp
<1>3. \A b \in NextUp(p) : b \in T /\ b <= a
  BY <1>2 DEF NextUp
<1> HIDE DEF T
<1>4. ASSUME NEW b \in NextUp(p) PROVE b = a
  <2>1. a \in Nat /\ b \in Nat
    BY <1>1, <1>2, <1>3
  <2>2. a <= b /\ b <= a
    BY <1>2, <1>3
  <2> QED
    BY <2>1, <2>2
<1> QED
  BY <1>1, <1>2, <1>4 DEF T

\* Before any call nothing is hung, held or waited for.
LEMMA InitInv == Init => SlotInv /\ HeldInv /\ WaitInv
BY DEF Init, SlotInv, TypeOK, GateInv, CallInv, CallerInv, OwnInv, HeldInv, WaitInv,
       NextUp, Depths

\* A context that starts a call (acquireAccountWriteSlots, before its first
\* gate) keeps the invariant.
LEMMA CallStep ==
  ASSUME SlotInv, NEW p \in Callers, NEW S \in SUBSET Accounts, Call(p, S)
  PROVE  SlotInv'
<1> USE DEF SlotInv
<1>1. /\ depth' = [depth EXCEPT ![p] = @ + 1]
      /\ todo' = [todo EXCEPT ![p] = S]
      /\ pc' = [pc EXCEPT ![p] = "acquire"]
      /\ UNCHANGED <<last, open, gate, held, frame>>
      /\ pc[p] \in {"idle", "inside"}
      /\ \/ pc[p] = "idle" /\ scope' = [scope EXCEPT ![p] = S]
         \/ pc[p] = "inside" /\ depth[p] < MaxDepth /\ S \subseteq held[p]
            /\ UNCHANGED scope
  BY DEF Call
<1>2. depth[p] \in 0..MaxDepth /\ depth[p] + 1 \in 1..MaxDepth
  <2>1. depth[p] \in 0..MaxDepth
    BY DEF TypeOK
  <2>2. pc[p] = "idle" => depth[p] = 0
    BY DEF CallInv, CallerInv
  <2> QED
    BY <1>1, <2>1, <2>2
<1>3. TypeOK'
  <2>1. depth' \in [Callers -> 0..MaxDepth]
    BY <1>1, <1>2 DEF TypeOK
  <2>2. scope' \in [Callers -> SUBSET Accounts]
    BY <1>1 DEF TypeOK
  <2> QED
    BY <1>1, <2>1, <2>2 DEF TypeOK
<1>4. GateInv'
  BY <1>1 DEF GateInv
<1>5. ASSUME NEW q \in Callers PROVE CallerInv(q)'
  <2>1. CASE q # p
    BY <1>1, <2>1 DEF CallInv, CallerInv, TypeOK
  <2>2. CASE q = p
    <3>1. /\ pc'[p] = "acquire" /\ todo'[p] = S /\ depth'[p] = depth[p] + 1
          /\ held'[p] = held[p] /\ frame'[p] = frame[p]
      BY <1>1 DEF TypeOK
    <3>2. CASE pc[p] = "idle"
      BY <1>1, <1>2, <2>2, <3>1, <3>2 DEF CallInv, CallerInv, TypeOK, Depths
    <3>3. CASE pc[p] = "inside"
      <4>1. CallerInv(p) /\ depth[p] # 0 /\ scope'[p] = scope[p] /\ S \subseteq held[p]
        BY <1>1, <3>3 DEF CallInv, CallerInv
      <4>2. scope[p] \subseteq held[p] /\ depth[p] \in 1..MaxDepth
            /\ depth'[p] \in Nat /\ depth'[p] > 1
        BY <1>2, <3>1, <3>3, <4>1 DEF CallerInv
      <4>3. \A d \in Depths : d > depth'[p] => d > depth[p]
        BY <3>1, <4>2 DEF Depths
      <4>4. \A d \in Depths : d > 1 \/ d > depth'[p] => frame'[p][d] = {}
        BY <3>1, <4>1, <4>3 DEF CallerInv
      <4>5. scope'[p] \cup todo'[p] \subseteq held'[p] /\ frame'[p][1] \subseteq held'[p]
        BY <3>1, <4>1, <4>2 DEF CallerInv
      <4>6. depth'[p] # 0 /\ depth'[p] # 1
        BY <4>2
      <4> QED
        BY <2>2, <3>1, <4>4, <4>5, <4>6 DEF CallerInv
    <3> QED
      BY <1>1, <3>2, <3>3
  <2> QED
    BY <2>1, <2>2
<1>6. ASSUME NEW q \in Callers, NEW b \in Accounts, Owns(q, b) PROVE Owns(q, b)'
  <2>1. CASE q = p
    BY <1>1, <1>6, <2>1 DEF Owns
  <2>2. CASE q # p
    BY <1>1, <1>6, <2>2 DEF Owns, NextUp, TypeOK
  <2> QED
    BY <2>1, <2>2
<1>7. OwnInv'
  BY <1>1, <1>6 DEF OwnInv
<1> QED
  BY <1>3, <1>4, <1>5, <1>7 DEF CallInv

\* Hanging a gate behind the tail of an account's chain keeps the invariant.
LEMMA HangGateStep ==
  ASSUME SlotInv, NEW p \in Callers, HangGate(p)
  PROVE  SlotInv' /\ (WaitInv => WaitInv') /\ (HeldInv => HeldInv')
<1> USE DEF SlotInv
<1>1. PICK a \in NextUp(p) :
        /\ last' = [last EXCEPT ![a] = @ + 1]
        /\ open' = [open EXCEPT ![a] = @ \cup {last[a] + 1}]
        /\ gate' = [gate EXCEPT ![p][a] = last[a] + 1]
  BY DEF HangGate
<1>2. /\ pc[p] = "acquire" /\ pc' = [pc EXCEPT ![p] = "wait"]
      /\ UNCHANGED <<held, depth, todo, frame, scope>>
  BY DEF HangGate
<1>3. a \in Accounts /\ a \notin held[p] /\ NextUp(p) = {a}
  BY OneNextUp
<1>4. TypeOK'
  BY <1>1, <1>2, <1>3 DEF TypeOK
<1>5. \A q \in Callers, b \in Accounts :
        gate'[q][b] = IF q = p /\ b = a THEN last[a] + 1 ELSE gate[q][b]
  BY <1>1, <1>3 DEF TypeOK
<1>6. \A b \in Accounts :
        /\ last'[b] = IF b = a THEN last[a] + 1 ELSE last[b]
        /\ open'[b] = IF b = a THEN open[a] \cup {last[a] + 1} ELSE open[b]
        /\ last[b] \in Nat /\ open[b] \subseteq 1..last[b]
  BY <1>1, <1>3 DEF TypeOK, GateInv
<1>7. GateInv'
  <2>1. ASSUME NEW b \in Accounts
        PROVE  /\ open'[b] \subseteq 1..last'[b]
               /\ \A q \in Callers : gate'[q][b] <= last'[b]
    <3>1. /\ last[b] \in Nat /\ open[b] \subseteq 1..last[b]
          /\ \A q \in Callers : gate[q][b] \in Nat /\ gate[q][b] <= last[b]
      BY DEF GateInv, TypeOK
    <3>2. CASE b = a
      <4>1. last'[b] = last[b] + 1 /\ open'[b] = open[b] \cup {last[b] + 1}
        BY <1>6, <3>2
      <4>2. \A q \in Callers : gate'[q][b] \in {gate[q][b], last[b] + 1}
        BY <1>5, <3>2
      <4>3. open'[b] \subseteq 1..last'[b]
        BY <3>1, <4>1
      <4>4. ASSUME NEW q \in Callers PROVE gate'[q][b] <= last'[b]
        <5>1. gate'[q][b] = gate[q][b] \/ gate'[q][b] = last[b] + 1
          BY <4>2
        <5> QED
          BY <3>1, <4>1, <5>1
      <4> QED
        BY <4>3, <4>4
    <3>3. CASE b # a
      BY <1>5, <1>6, <3>1, <3>3
    <3> QED
      BY <3>2, <3>3
  <2>2. ASSUME NEW b \in Accounts, NEW q \in Callers, NEW r \in Callers, q # r,
               gate'[q][b] \in open'[b], gate'[q][b] = gate'[r][b]
        PROVE  FALSE
    <3>1. /\ last[b] \in Nat /\ open[b] \subseteq 1..last[b]
          /\ gate[q][b] \in Nat /\ gate[q][b] <= last[b]
          /\ gate[r][b] \in Nat /\ gate[r][b] <= last[b]
          /\ (gate[q][b] \in open[b] => gate[q][b] # gate[r][b])
      BY <2>2 DEF GateInv, TypeOK
    <3>2. CASE b # a
      BY <1>5, <1>6, <2>2, <3>1, <3>2
    <3>3. CASE b = a /\ q # p /\ r # p
      BY <1>5, <1>6, <2>2, <3>1, <3>3
    <3>4. CASE b = a /\ (q = p \/ r = p)
      BY <1>5, <1>6, <2>2, <3>1, <3>4
    <3> QED
      BY <3>2, <3>3, <3>4
  <2> QED
    BY <2>1, <2>2 DEF GateInv
<1>8. ASSUME NEW q \in Callers PROVE CallerInv(q)'
  <2>1. pc[p] = "acquire" /\ depth[p] # 0 /\ ~(todo[p] \subseteq held[p])
    BY <1>2, OneNextUp DEF CallInv, CallerInv
  <2>2. depth[p] = 1
    <3>1. CallerInv(p) /\ depth[p] \in Nat
      BY SlotAssumption DEF CallInv, TypeOK
    <3>2. ~(depth[p] > 1)
      BY <2>1, <3>1 DEF CallerInv
    <3> QED
      BY <2>1, <3>1, <3>2
  <2> QED
    BY <1>2, <2>1, <2>2 DEF CallInv, CallerInv, TypeOK
<1>9. NextUp(p)' = NextUp(p) /\ \A q \in Callers : NextUp(q)' = NextUp(q)
  BY <1>2 DEF NextUp
<1>10. OwnInv'
  <2> SUFFICES ASSUME NEW b \in Accounts, NEW g \in open'[b]
               PROVE  \E q \in Callers : gate'[q][b] = g /\ Owns(q, b)'
    BY DEF OwnInv
  <2>1. CASE g \in open[b]
    <3>1. PICK q \in Callers : gate[q][b] = g /\ Owns(q, b)
      BY <2>1 DEF OwnInv
    <3>2. ~(q = p /\ b = a)
      BY <1>2, <1>3, <3>1, SlotAssumption DEF Owns, CallInv, CallerInv, Depths, TypeOK
    <3>3. Owns(q, b)'
      BY <1>2, <1>9, <3>1 DEF Owns, TypeOK
    <3> QED
      BY <1>5, <3>1, <3>2, <3>3
  <2>2. CASE g \notin open[b]
    <3>1. b = a /\ g = last[a] + 1
      BY <1>6, <2>2
    <3>2. Owns(p, a)'
      BY <1>2, <1>9 DEF Owns, TypeOK
    <3> QED
      BY <1>3, <1>5, <3>1, <3>2
  <2> QED
    BY <2>1, <2>2
<1>11. ASSUME WaitInv PROVE WaitInv'
  <2> SUFFICES ASSUME NEW q \in Callers, NEW b \in NextUp(q), pc'[q] = "wait"
               PROVE  gate'[q][b] \in open'[b]
    BY <1>9 DEF WaitInv
  <2>1. b \in Accounts
    BY OneNextUp
  <2>2. CASE q = p
    BY <1>3, <1>5, <1>6, <2>1, <2>2
  <2>3. CASE q # p
    BY <1>2, <1>5, <1>6, <1>11, <2>1, <2>3 DEF WaitInv, TypeOK
  <2> QED
    BY <2>2, <2>3
<1>12. ASSUME HeldInv PROVE HeldInv'
  <2> SUFFICES ASSUME NEW q \in Callers, q \notin Kicked, NEW b \in held[q]
               PROVE  gate'[q][b] \in open'[b] /\ Resolved(q, b)'
    BY <1>2 DEF HeldInv
  <2>1. b \in Accounts /\ gate[q][b] \in open[b] /\ Resolved(q, b)
    BY <1>12 DEF HeldInv, TypeOK
  <2>2. gate'[q][b] = gate[q][b]
    BY <1>3, <1>5, <2>1
  <2>3. \A g \in open'[b] : g \in open[b] \/ g = last[b] + 1
    BY <1>6, <2>1
  <2>4. gate[q][b] \in Nat /\ last[b] \in Nat /\ gate[q][b] <= last[b]
    BY <1>6, <2>1 DEF TypeOK, GateInv
  <2> QED
    BY <1>6, <2>1, <2>2, <2>3, <2>4 DEF Resolved
<1> QED
  BY <1>4, <1>7, <1>8, <1>10, <1>11, <1>12 DEF CallInv

\* Starting a call leaves the order of the chains alone.
LEMMA CallOrder ==
  ASSUME NEW p \in Callers, NEW S \in SUBSET Accounts, Call(p, S)
  PROVE  (HeldInv => HeldInv') /\ (TypeOK /\ WaitInv => WaitInv')
<1>1. UNCHANGED <<open, gate, held>> /\ todo' = [todo EXCEPT ![p] = S]
  BY DEF Call
<1>2. HeldInv => HeldInv'
  BY <1>1 DEF HeldInv, Resolved
<1>3. ASSUME TypeOK, WaitInv, NEW q \in Callers, NEW b \in NextUp(q)', pc'[q] = "wait"
      PROVE  gate'[q][b] \in open'[b]
  <2>1. q # p
    BY <1>3 DEF Call, TypeOK
  <2>2. todo'[q] = todo[q] /\ pc'[q] = pc[q]
    BY <1>3, <2>1 DEF Call, TypeOK
  <2>3. b \in NextUp(q)
    BY <1>1, <1>3, <2>2 DEF NextUp
  <2> QED
    BY <1>1, <1>3, <2>2, <2>3 DEF WaitInv
<1> QED
  BY <1>2, <1>3 DEF WaitInv

\* A call whose predecessor resolved takes its place (waitUntil) and keeps the
\* invariant.
LEMMA LetInStep ==
  ASSUME SlotInv, NEW p \in Callers, LetIn(p)
  PROVE  SlotInv' /\ (WaitInv => WaitInv') /\ (HeldInv /\ WaitInv => HeldInv')
<1> USE DEF SlotInv
<1>1. PICK a \in NextUp(p) :
        /\ Resolved(p, a)
        /\ held' = [held EXCEPT ![p] = @ \cup {a}]
        /\ frame' = [frame EXCEPT ![p][depth[p]] = @ \cup {a}]
  BY DEF LetIn
<1>2. /\ pc[p] = "wait" /\ pc' = [pc EXCEPT ![p] = "acquire"]
      /\ UNCHANGED <<last, open, gate, depth, todo, scope>>
  BY DEF LetIn
<1>3. a \in Accounts /\ a \notin held[p] /\ NextUp(p) = {a}
  BY OneNextUp
<1>4. CallerInv(p) /\ depth[p] = 1 /\ 1 \in Depths
  BY <1>2, SlotAssumption DEF CallInv, CallerInv, Depths
<1>5. TypeOK'
  <2>1. held' \in [Callers -> SUBSET Accounts]
    BY <1>1, <1>3 DEF TypeOK
  <2>2. frame' \in [Callers -> [Depths -> SUBSET Accounts]]
    BY <1>1, <1>3, <1>4 DEF TypeOK
  <2> QED
    BY <1>2, <2>1, <2>2 DEF TypeOK
<1>6. /\ held'[p] = held[p] \cup {a} /\ pc'[p] = "acquire"
      /\ frame'[p][1] = frame[p][1] \cup {a}
      /\ \A d \in Depths : d # 1 => frame'[p][d] = frame[p][d]
      /\ \A q \in Callers : q # p =>
            pc'[q] = pc[q] /\ held'[q] = held[q] /\ frame'[q] = frame[q]
  BY <1>1, <1>2, <1>3, <1>4 DEF TypeOK
<1>7. GateInv'
  BY <1>2 DEF GateInv
<1>8. ASSUME NEW q \in Callers PROVE CallerInv(q)'
  <2>1. CASE q # p
    BY <1>2, <1>6, <2>1 DEF CallInv, CallerInv
  <2>2. CASE q = p
    <3>1. \A d \in Depths : d > 1 => d # 1
      BY DEF Depths
    <3>2. \A d \in Depths : d > 1 \/ d > depth'[p] => frame'[p][d] = {}
      BY <1>2, <1>4, <1>6, <3>1 DEF CallerInv
    <3>3. ~(depth[p] > 1)
      BY <1>4
    <3> QED
      BY <1>2, <1>4, <1>6, <2>2, <3>2, <3>3 DEF CallerInv
  <2> QED
    BY <2>1, <2>2
<1>9. ASSUME NEW q \in Callers, NEW b \in Accounts, Owns(q, b) PROVE Owns(q, b)'
  <2>1. CASE q # p
    BY <1>2, <1>6, <1>9, <2>1 DEF Owns, NextUp
  <2>2. CASE q = p
    BY <1>3, <1>6, <1>9, <2>2 DEF Owns
  <2> QED
    BY <2>1, <2>2
<1>10. OwnInv'
  BY <1>2, <1>9 DEF OwnInv
<1>11. ASSUME WaitInv PROVE WaitInv'
  <2> SUFFICES ASSUME NEW q \in Callers, NEW b \in NextUp(q)', pc'[q] = "wait"
               PROVE  gate'[q][b] \in open'[b]
    BY DEF WaitInv
  <2>1. q # p
    BY <1>6
  <2>2. b \in NextUp(q)
    BY <1>2, <1>6, <2>1 DEF NextUp
  <2> QED
    BY <1>2, <1>6, <1>11, <2>1, <2>2 DEF WaitInv
<1>12. ASSUME HeldInv, WaitInv PROVE HeldInv'
  <2> SUFFICES ASSUME NEW q \in Callers, q \notin Kicked, NEW b \in held'[q]
               PROVE  gate[q][b] \in open[b] /\ Resolved(q, b)
    BY <1>2 DEF HeldInv, Resolved
  <2>1. CASE q = p /\ b = a
    BY <1>1, <1>2, <1>12, <2>1 DEF WaitInv
  <2>2. CASE b \in held[q]
    BY <1>12, <2>2 DEF HeldInv
  <2> QED
    BY <1>6, <2>1, <2>2
<1> QED
  BY <1>5, <1>7, <1>8, <1>10, <1>11, <1>12 DEF CallInv

\* A call that holds all its slots enters its body (withAccountWriteLocks)
\* and keeps the invariant.
LEMMA BeginStep ==
  ASSUME SlotInv, NEW p \in Callers, Begin(p)
  PROVE  SlotInv' /\ (WaitInv => WaitInv') /\ (HeldInv => HeldInv')
<1> USE DEF SlotInv
<1>1. /\ pc[p] = "acquire" /\ todo[p] \subseteq held[p]
      /\ pc' = [pc EXCEPT ![p] = "inside"]
      /\ UNCHANGED <<last, open, gate, held, depth, todo, frame, scope>>
  BY DEF Begin
<1>2. TypeOK' /\ GateInv'
  BY <1>1 DEF TypeOK, GateInv
<1>3. /\ pc'[p] = "inside"
      /\ \A q \in Callers : q # p => pc'[q] = pc[q]
      /\ \A q \in Callers : NextUp(q)' = NextUp(q)
  BY <1>1 DEF TypeOK, NextUp
<1>4. scope[p] \subseteq held[p] /\ depth[p] # 0
  <2>1. CallerInv(p) /\ depth[p] \in Nat
    BY SlotAssumption DEF CallInv, TypeOK
  <2>2. depth[p] # 0
    BY <1>1, <2>1 DEF CallerInv
  <2>3. CASE depth[p] = 1
    BY <1>1, <2>1, <2>3 DEF CallerInv
  <2>4. CASE depth[p] > 1
    BY <2>1, <2>4 DEF CallerInv
  <2> QED
    BY <2>1, <2>2, <2>3, <2>4
<1>5. CallInv'
  BY <1>1, <1>3, <1>4 DEF CallInv, CallerInv
<1>6. OwnInv'
  <2>1. ASSUME NEW q \in Callers, NEW b \in Accounts, Owns(q, b) PROVE Owns(q, b)'
    <3>1. CASE q = p
      BY <1>1, <2>1, <3>1 DEF Owns
    <3>2. CASE q # p
      BY <1>1, <1>3, <2>1, <3>2 DEF Owns
    <3> QED
      BY <3>1, <3>2
  <2> QED
    BY <1>1, <2>1 DEF OwnInv
<1>7. (WaitInv => WaitInv') /\ (HeldInv => HeldInv')
  BY <1>1, <1>3 DEF WaitInv, HeldInv, Resolved
<1> QED
  BY <1>2, <1>5, <1>6, <1>7

\* A call that ends, by returning or by timing out, opens its gates and gives
\* back what it held, and keeps the invariant.
LEMMA EndCallStep ==
  ASSUME SlotInv, NEW p \in Callers, NEW A \in SUBSET Accounts,
         EndCall(p, A), pc[p] \in {"wait", "inside"},
         A = frame[p][depth[p]] \cup (IF pc[p] = "wait" THEN NextUp(p) ELSE {})
  PROVE  SlotInv' /\ (WaitInv => WaitInv') /\ (HeldInv => HeldInv')
<1> USE DEF SlotInv
<1>1. /\ open' = [a \in Accounts |->
                     IF a \in A THEN open[a] \ {gate[p][a]} ELSE open[a]]
      /\ UNCHANGED <<last, gate, todo, scope>>
  BY DEF EndCall
<1>2. CallerInv(p) /\ depth[p] \in 1..MaxDepth /\ 1 \in Depths
  BY SlotAssumption DEF CallInv, CallerInv, TypeOK, Depths
<1>3. /\ held'[p] = held[p] \ frame[p][depth[p]]
      /\ frame'[p][depth[p]] = {}
      /\ \A d \in Depths : d # depth[p] => frame'[p][d] = frame[p][d]
      /\ depth'[p] = depth[p] - 1
      /\ pc'[p] = IF depth[p] = 1 THEN "idle" ELSE "inside"
      /\ \A q \in Callers : q # p =>
            /\ pc'[q] = pc[q] /\ depth'[q] = depth[q]
            /\ held'[q] = held[q] /\ frame'[q] = frame[q]
  BY <1>2 DEF EndCall, TypeOK, Depths
<1>4. TypeOK'
  <2>1. depth' \in [Callers -> 0..MaxDepth]
    BY <1>2 DEF EndCall, TypeOK
  <2>2. frame' \in [Callers -> [Depths -> SUBSET Accounts]]
    BY <1>2 DEF EndCall, TypeOK, Depths
  <2>3. open' \in [Accounts -> SUBSET Nat]
    BY <1>1 DEF TypeOK
  <2> QED
    BY <1>1, <2>1, <2>2, <2>3 DEF EndCall, TypeOK
<1>5. \A a \in Accounts : open'[a] \subseteq open[a]
  BY <1>1
<1>6. GateInv'
  BY <1>1, <1>5 DEF GateInv
<1>7. ASSUME NEW q \in Callers, q # p, NEW a \in Accounts, gate[q][a] \in open[a]
      PROVE  gate'[q][a] \in open'[a]
  BY <1>1, <1>7 DEF GateInv
<1>8. \A q \in Callers : q # p => NextUp(q)' = NextUp(q)
  BY <1>1, <1>3 DEF NextUp
<1>9. pc'[p] # "wait" /\ pc'[p] # "acquire"
  BY <1>3
<1>10. CallInv'
  <2>1. ASSUME NEW q \in Callers, q # p PROVE CallerInv(q)'
    BY <1>1, <1>3, <2>1 DEF CallInv, CallerInv
  <2>2. CASE depth[p] = 1
    <3>1. pc'[p] = "idle" /\ depth'[p] = 0 /\ frame'[p][1] = {}
      BY <1>3, <2>2
    <3>2. \A d \in Depths : d = 1 \/ d > 1
      BY DEF Depths
    <3>3. \A d \in Depths : frame'[p][d] = {}
      BY <1>2, <1>3, <2>2, <3>1, <3>2 DEF CallerInv
    <3>4. CallerInv(p)'
      BY <3>1, <3>3 DEF CallerInv
    <3> QED
      BY <2>1, <3>4 DEF CallInv
  <2>3. CASE depth[p] # 1
    <3>1. /\ depth[p] > 1 /\ depth[p] \in Depths /\ pc'[p] = "inside"
          /\ depth'[p] # 0
      BY <1>2, <1>3, <2>3 DEF Depths
    <3>2. pc[p] = "inside"
      BY <1>2, <2>3 DEF CallerInv
    <3>3. /\ frame[p][depth[p]] = {} /\ held'[p] = held[p]
          /\ frame'[p][1] = frame[p][1]
      BY <1>2, <1>3, <3>1 DEF CallerInv
    <3>4. \A d \in Depths : d > 1 \/ d > depth'[p] => frame'[p][d] = {}
      <4>1. \A d \in Depths : d > depth'[p] => d = depth[p] \/ d > depth[p]
        BY <1>2, <1>3 DEF Depths
      <4> QED
        BY <1>2, <1>3, <4>1 DEF CallerInv
    <3>5. CallerInv(p)'
      BY <1>1, <1>2, <1>9, <3>1, <3>2, <3>3, <3>4 DEF CallerInv
    <3> QED
      BY <2>1, <3>5 DEF CallInv
  <2> QED
    BY <2>2, <2>3
<1>11. ASSUME NEW b \in Accounts, Owns(p, b), gate[p][b] \in open'[b]
       PROVE  Owns(p, b)'
  <2>1. b \notin A
    BY <1>1, <1>5, <1>11
  <2>2. b \in frame[p][1] /\ depth[p] # 1
    BY <1>11, <2>1 DEF Owns
  <2> QED
    BY <1>2, <1>3, <2>2 DEF Owns
<1>12. OwnInv'
  <2> SUFFICES ASSUME NEW b \in Accounts, NEW g \in open'[b]
               PROVE  \E q \in Callers : gate[q][b] = g /\ Owns(q, b)'
    BY <1>1 DEF OwnInv
  <2>1. PICK q \in Callers : gate[q][b] = g /\ Owns(q, b)
    BY <1>5 DEF OwnInv
  <2>2. CASE q = p
    BY <1>11, <2>1, <2>2
  <2>3. CASE q # p
    BY <1>3, <1>8, <2>1, <2>3 DEF Owns
  <2> QED
    BY <2>1, <2>2, <2>3
<1>13. ASSUME WaitInv PROVE WaitInv'
  <2> SUFFICES ASSUME NEW q \in Callers, NEW b \in NextUp(q)', pc'[q] = "wait"
               PROVE  gate'[q][b] \in open'[b]
    BY DEF WaitInv
  <2>1. q # p /\ b \in NextUp(q) /\ pc[q] = "wait"
    BY <1>3, <1>8, <1>9
  <2>2. b \in Accounts
    BY <2>1, OneNextUp
  <2> QED
    BY <1>7, <1>13, <2>1, <2>2 DEF WaitInv
<1>14. ASSUME HeldInv PROVE HeldInv'
  <2> SUFFICES ASSUME NEW q \in Callers, q \notin Kicked, NEW b \in held'[q]
               PROVE  (gate[q][b] \in open'[b]) /\ Resolved(q, b)'
    BY <1>1 DEF HeldInv
  <2>1. b \in held[q] /\ b \in Accounts
    BY <1>3, <1>4 DEF TypeOK
  <2>2. gate[q][b] \in open[b] /\ Resolved(q, b)
    BY <1>14, <2>1 DEF HeldInv
  <2>3. Resolved(q, b)'
    BY <1>1, <1>5, <2>1, <2>2 DEF Resolved
  <2>4. CASE q # p
    BY <1>1, <1>7, <2>1, <2>2, <2>3, <2>4
  <2>5. CASE q = p
    <3>1. b \notin A
      <4>1. b \notin frame[p][depth[p]]
        BY <1>3, <2>5
      <4>2. b \notin NextUp(p)
        BY <2>1, <2>5, OneNextUp
      <4> QED
        BY <4>1, <4>2
    <3> QED
      BY <1>1, <2>1, <2>2, <2>3, <2>5, <3>1
  <2> QED
    BY <2>4, <2>5
<1> QED
  BY <1>4, <1>6, <1>10, <1>12, <1>13, <1>14

\* A runner that starts an execution of its own (kickAccountSync) keeps the
\* invariant.
LEMMA KickStep ==
  ASSUME SlotInv, NEW p \in Callers, NEW c \in Callers, Kick(p, c)
  PROVE  SlotInv' /\ (WaitInv => WaitInv') /\ (HeldInv => HeldInv')
<1> USE DEF SlotInv
<1>1. /\ pc[c] = "idle" /\ held' = [held EXCEPT ![c] = held[p]]
      /\ UNCHANGED <<last, open, gate, pc, depth, todo, frame, scope>>
  BY DEF Kick
<1>2. TypeOK' /\ GateInv'
  BY <1>1 DEF TypeOK, GateInv
<1>3. \A q \in Callers : q # c => held'[q] = held[q] /\ NextUp(q)' = NextUp(q)
  BY <1>1 DEF TypeOK, NextUp
<1>4. ASSUME NEW q \in Callers PROVE CallerInv(q)'
  <2>1. CASE q # c
    BY <1>1, <1>3, <2>1 DEF CallInv, CallerInv
  <2>2. CASE q = c
    <3>1. CallerInv(c) /\ depth[c] = 0 /\ 1 \in Depths
      BY <1>1, SlotAssumption DEF CallInv, CallerInv, Depths
    <3>2. frame[c][1] = {} /\ ~(depth[c] > 1)
      BY <3>1 DEF CallerInv
    <3> QED
      BY <1>1, <2>2, <3>1, <3>2 DEF CallerInv
  <2> QED
    BY <2>1, <2>2
<1>5. ASSUME NEW q \in Callers, NEW b \in Accounts, Owns(q, b) PROVE Owns(q, b)'
  <2>1. CASE q # c
    BY <1>1, <1>3, <1>5, <2>1 DEF Owns
  <2>2. CASE q = c
    BY <1>1, <1>5, <2>2 DEF Owns
  <2> QED
    BY <2>1, <2>2
<1>6. OwnInv'
  BY <1>1, <1>5 DEF OwnInv
<1>7. WaitInv => WaitInv'
  BY <1>1, <1>3 DEF WaitInv
<1>8. HeldInv => HeldInv'
  <2>1. c \in Kicked
    BY DEF Kick
  <2> QED
    BY <1>1, <1>3, <2>1 DEF HeldInv, Resolved
<1> QED
  BY <1>2, <1>4, <1>6, <1>7, <1>8 DEF CallInv

\* Every step keeps the structural invariant and the two about holding and
\* waiting.
LEMMA NextStep ==
  ASSUME SlotInv, [Next]_vars
  PROVE  /\ SlotInv'
         /\ HeldInv /\ WaitInv => HeldInv' /\ WaitInv'
<1>1. CASE UNCHANGED vars
  BY <1>1 DEF vars, SlotInv, TypeOK, GateInv, CallInv, CallerInv, OwnInv, Owns,
              NextUp, HeldInv, WaitInv, Resolved
<1>2. ASSUME NEW p \in Callers, HangGate(p)
      PROVE  SlotInv' /\ (HeldInv /\ WaitInv => HeldInv' /\ WaitInv')
  BY <1>2, HangGateStep
<1>3. ASSUME NEW p \in Callers, LetIn(p)
      PROVE  SlotInv' /\ (HeldInv /\ WaitInv => HeldInv' /\ WaitInv')
  BY <1>3, LetInStep
<1>4. ASSUME NEW p \in Callers, Begin(p)
      PROVE  SlotInv' /\ (HeldInv /\ WaitInv => HeldInv' /\ WaitInv')
  BY <1>4, BeginStep
<1>5. ASSUME NEW p \in Callers
      PROVE  /\ frame[p][depth[p]] \subseteq Accounts \/ depth[p] \notin Depths
             /\ NextUp(p) \subseteq Accounts
             /\ pc[p] \in {"wait", "inside"} => depth[p] \in Depths
  <2>1. TypeOK /\ CallerInv(p)
    BY DEF SlotInv, CallInv
  <2>2. NextUp(p) \subseteq Accounts
    BY <2>1, OneNextUp
  <2> QED
    BY <2>1, <2>2 DEF TypeOK, CallerInv, Depths
<1>6. ASSUME NEW p \in Callers, Leave(p)
      PROVE  SlotInv' /\ (HeldInv /\ WaitInv => HeldInv' /\ WaitInv')
  <2> DEFINE A == frame[p][depth[p]]
  <2>1. EndCall(p, A) /\ pc[p] = "inside" /\ A \in SUBSET Accounts
    BY <1>5, <1>6 DEF Leave
  <2> QED
    BY <2>1, EndCallStep
<1>7. ASSUME NEW p \in Callers, GiveUp(p)
      PROVE  SlotInv' /\ (HeldInv /\ WaitInv => HeldInv' /\ WaitInv')
  <2> DEFINE A == NextUp(p) \cup frame[p][depth[p]]
  <2>1. EndCall(p, A) /\ pc[p] = "wait" /\ A \in SUBSET Accounts
    BY <1>5, <1>7 DEF GiveUp
  <2>2. A = frame[p][depth[p]] \cup (IF pc[p] = "wait" THEN NextUp(p) ELSE {})
    BY <2>1
  <2> HIDE DEF A
  <2> QED
    BY <2>1, <2>2, EndCallStep
<1>8. ASSUME NEW p \in Callers, NEW S \in SUBSET Accounts, Call(p, S)
      PROVE  SlotInv' /\ (HeldInv /\ WaitInv => HeldInv' /\ WaitInv')
  BY <1>8, CallStep, CallOrder DEF SlotInv
<1>9. ASSUME NEW p \in Callers, NEW c \in Callers, Kick(p, c)
      PROVE  SlotInv' /\ (HeldInv /\ WaitInv => HeldInv' /\ WaitInv')
  BY <1>9, KickStep
<1> QED
  BY <1>1, <1>2, <1>3, <1>4, <1>6, <1>7, <1>8, <1>9 DEF Next, Step

\* The structural invariant of the chains of sync-locks.ts (which gates exist,
\* who owns them, what a context keeps) holds in every state.
THEOREM SlotInvariance == SafetySpec => []SlotInv
<1>1. Init => SlotInv
  BY InitInv
<1>2. SlotInv /\ [Next]_vars => SlotInv'
  BY NextStep
<1> QED
  BY <1>1, <1>2, PTL DEF SafetySpec

\* Every variable always has a value of its type.
THEOREM SlotTypes == SafetySpec => []TypeOK
BY SlotInvariance, PTL DEF SlotInv

\* No failed, timed-out or finished call leaves an account locked
\* (acquireAccountWriteSlots, withAccountWriteLocks).
THEOREM GatesAccountedFor == SafetySpec => []NoLostGate
<1>1. ASSUME SlotInv, NEW p \in Callers, NEW a \in frame[p][1]
      PROVE  1 \in 1..depth[p]
  <2>1. CallerInv(p) /\ depth[p] \in Nat /\ 1 \in Depths
    BY <1>1, SlotAssumption DEF SlotInv, CallInv, TypeOK, Depths
  <2>2. ~(1 > depth[p])
    BY <1>1, <2>1 DEF CallerInv
  <2> QED
    BY <2>1, <2>2
<1>2. SlotInv => NoLostGate
  BY <1>1 DEF SlotInv, OwnInv, Owns, NoLostGate
<1> QED
  BY <1>2, SlotInvariance, PTL

\* What an ordinary context holds is its own and first in line.
LEMMA OrderInvariance == SafetySpec => [](SlotInv /\ HeldInv /\ WaitInv)
<1>1. Init => SlotInv /\ HeldInv /\ WaitInv
  BY InitInv
<1>2. SlotInv /\ HeldInv /\ WaitInv /\ [Next]_vars
      => (SlotInv /\ HeldInv /\ WaitInv)'
  BY NextStep
<1> QED
  BY <1>1, <1>2, PTL DEF SafetySpec

\* The bodies of two calls for one account never run at the same time
\* (withAccountWriteLocks) and what a context believes it holds, it holds
\* (heldWriteSlots), for all executions that did not start in a runner's
\* context, whatever those that did are doing.
THEOREM MutualExclusion == SafetySpec => []Exclusive
<1>1. ASSUME SlotInv, HeldInv, NEW p \in Ordinary, NEW q \in Ordinary, p # q,
             NEW a \in held[p] \cap held[q]
      PROVE  FALSE
  <2>1. /\ p \in Callers /\ q \in Callers
        /\ a \in Accounts /\ gate[p][a] \in Nat /\ gate[q][a] \in Nat
    BY <1>1 DEF SlotInv, TypeOK, Ordinary
  <2>2. gate[p][a] \in open[a] /\ gate[p][a] # gate[q][a]
    BY <1>1, <2>1 DEF SlotInv, GateInv, HeldInv, Ordinary
  <2>3. gate[q][a] >= gate[p][a] /\ gate[p][a] >= gate[q][a]
    BY <1>1, <2>1 DEF HeldInv, Resolved, Ordinary
  <2> QED
    BY <2>1, <2>2, <2>3
<1>2. ASSUME SlotInv, HeldInv PROVE Exclusive
  <2>1. \A p \in Ordinary : p \in Callers /\ CallerInv(p)
    BY <1>2 DEF SlotInv, CallInv, Ordinary
  <2>2. \A p \in Ordinary : pc[p] = "inside" => scope[p] \subseteq held[p]
    BY <2>1 DEF CallerInv
  <2> QED
    BY <1>1, <1>2, <2>1, <2>2 DEF Exclusive, HeldInv, Ordinary
<1> QED
  BY <1>2, OrderInvariance, PTL

\* Slots are given in the order the gates were hung (waitUntil on the tail):
\* an ordinary holder hung its gate before everyone who still waits.
THEOREM Fifo == SafetySpec => []FirstComeFirstServed
<1>1. ASSUME SlotInv, HeldInv, WaitInv, NEW p \in Ordinary, NEW q \in Callers,
             NEW a \in Accounts, pc[q] = "wait", a \in NextUp(q), a \in held[p]
      PROVE  gate[p][a] < gate[q][a]
  <2>1. p \in Callers /\ gate[p][a] \in Nat /\ gate[q][a] \in Nat /\ p # q
    BY <1>1, OneNextUp DEF SlotInv, TypeOK, Ordinary
  <2>2. gate[q][a] \in open[a] /\ gate[p][a] # gate[q][a]
    BY <1>1, <2>1 DEF SlotInv, GateInv, WaitInv
  <2>3. gate[q][a] >= gate[p][a]
    BY <1>1, <2>1, <2>2 DEF HeldInv, Resolved, Ordinary
  <2> QED
    BY <2>1, <2>2, <2>3
<1>2. SlotInv /\ HeldInv /\ WaitInv => FirstComeFirstServed
  BY <1>1 DEF FirstComeFirstServed
<1> QED
  BY <1>2, OrderInvariance, PTL
============================================================================
