------------------------- MODULE MoveNumbers_proofs -------------------------
(***************************************************************************)
(* Numbers and messages in MoveTasks: the proof of NumberNamesMessage, and *)
(* that a command moves what the rows it was built from stood for, when    *)
(* they were read and when they were accepted.                             *)
(*                                                                         *)
(* The argument is that a number once known to be a message's, in a folder *)
(* and a generation, can never become another's there (Stands): the        *)
(* provider gives a number out once per generation.  So what a row, a copy,*)
(* a pass or a call of the engine has read stays true however late it is   *)
(* used, and Facts says of each of them what it has read.  First come what *)
(* a step keeps of what stands (Keeps), then what it keeps of Facts when it*)
(* leaves rows and calls as they are (FactsStay, ServerFacts), then the    *)
(* actions that change them.                                               *)
(***************************************************************************)
EXTENDS MoveTasks_proofs

USE MoveAssumption, NoneAssumption DEF MoveAssumption, NoneAssumption

\* In generation e of folder h the number u is that of message x, or of no message.
\* What stands once stands for ever: a number is not given out twice in a generation.
Stands(h, e, u, x) ==
    /\ e <= epoch[h] /\ u < uidnext
    /\ e = epoch[h] => \A y \in Messages : at[y] = h /\ uids[y] = u => y = x

\* The provider gives a number to one message.
Numbered ==
    /\ \A x \in Messages : uids[x] # 0 /\ uids[x] < uidnext
    /\ \A x, y \in Messages : uids[x] = uids[y] => x = y

\* The cache is never ahead of the provider, nor an item of the cache; and what a row
\* stood for when an item was accepted, its number then still stands for.
Accepted(i) ==
    /\ i.epoch[2] <= known[i.epoch[1]]
    /\ i.named # None => Stands(i.epoch[1], i.epoch[2], i.uid, i.named)
Generations ==
    /\ \A h \in Folders : known[h] <= epoch[h]
    /\ \A t \in TaskIds, m \in Messages : items[t][m] # None => Accepted(items[t][m])

RowsStand ==
    \A m \in Messages \ outlived : row[m] # None =>
        Stands(row[m].mailbox, known[row[m].mailbox], row[m].uid, row[m].id)
CopiesStand == \A d \in copies : Stands(d[2], known[d[2]], d[3], d[1])

\* What a pass has listed; the folders of what it defers are behind it.
Listed ==
    /\ pass.open \notin pass.left
    /\ \A p \in pass.todo : Stands(pass.open, known[pass.open], p[2], p[1])
    /\ \A a \in pass.seen :
          a[2] \notin pass.left /\ Stands(a[2], known[a[2]], a[3], a[1])

\* The rows of a call as it read them, and the numbers its command was answered.
Read(k) ==
    /\ k.known <= epoch[k.from]
    /\ \A m \in DOMAIN k.rows :
          /\ k.rows[m].mailbox = k.from
          /\ m \notin k.blind => Stands(k.from, k.known, k.rows[m].uid, k.rows[m].id)
          /\ k.due[m] \in Items
          /\ k.due[m].epoch[1] = k.from => k.due[m].epoch[2] <= k.known
          /\ k.due[m].named # None => Stands(k.due[m].epoch[1], k.due[m].epoch[2],
                                             k.due[m].uid, k.due[m].named)
Answered(k) ==
    \A m \in k.claimed \ k.blind : Stands(k.dest, epoch[k.dest], k.hit[m], k.rows[m].id)
CallsStand == \A c \in Calls : call[c] # NoCall =>
    Read(call[c]) /\ (call[c].stage = "done" => Answered(call[c]))

Facts == Numbered /\ Generations /\ RowsStand /\ CopiesStand /\ Listed /\ CallsStand

\* What a step keeps of what stands.
Keeps == \A h \in Folders, e \in Nat, u \in Nat, x \in Messages :
    Stands(h, e, u, x) => Stands(h, e, u, x)'

----------------------------------------------------------------------------
LEMMA ServerTyped ==
    ASSUME IInv
    PROVE  /\ at \in [Messages -> Folders \cup {None}] /\ uids \in [Messages -> Nat]
           /\ uidnext \in Nat /\ epoch \in [Folders -> Nat] /\ known \in [Folders -> Nat]
           /\ row \in [Messages -> Rows \cup {None}] /\ copies \in SUBSET Places
           /\ items \in [TaskIds -> [Messages -> Items \cup {None}]]
           /\ pass \in Passes /\ DOMAIN call = Calls
  BY DEF IInv, Typed, TypeOK, Handling, Places

LEMMA KeepsAsIs ==
    ASSUME UNCHANGED server
    PROVE  Keeps
  BY DEF Keeps, Stands, server

LEMMA OtherMovesKeeps ==
    ASSUME IInv, Facts, NEW m \in Messages, OtherMoves(m)
    PROVE  Keeps /\ Numbered' /\ epoch' = epoch
<1>1. /\ uids' = [uids EXCEPT ![m] = uidnext] /\ uidnext' = uidnext + 1 /\ epoch' = epoch
      /\ \A x \in Messages \ {m} : at'[x] = at[x]
  BY ServerTyped DEF OtherMoves
<1>2. Numbered'
  BY <1>1, ServerTyped DEF Facts, Numbered
<1>3. Keeps
  BY <1>1, ServerTyped DEF Keeps, Stands
<1> QED
  BY <1>1, <1>2, <1>3

LEMMA RebuildKeeps ==
    ASSUME IInv, Facts, NEW f \in Folders, Rebuild(f)
    PROVE  /\ Keeps /\ Numbered' /\ \A h \in Folders : epoch[h] <= epoch'[h]
           /\ \A c \in Calls : call[c].stage # "done"
<1>1. PICK p \in [In(f) -> In(f)] :
         /\ IsInjective(p)
         /\ uids' = [m \in Messages |-> IF m \in In(f) THEN uids[p[m]] ELSE uids[m]]
  BY DEF Rebuild
<1>2. /\ epoch' = [epoch EXCEPT ![f] = @ + 1] /\ at' = at /\ uidnext' = uidnext
      /\ \A c \in Calls : call[c].stage # "done"
  BY DEF Rebuild
<1>3. In(f) \subseteq Messages /\ \A m \in Messages : m \in In(f) <=> at[m] = f
  BY DEF In
<1>4. \A x, y \in In(f) : p[x] = p[y] => x = y
  BY <1>1 DEF IsInjective
<1>5. Numbered'
  BY <1>1, <1>2, <1>3, <1>4, ServerTyped DEF Facts, Numbered
<1>6. \A h \in Folders : epoch'[h] \in Nat /\ epoch[h] <= epoch'[h]
                         /\ (h # f => epoch'[h] = epoch[h]) /\ (h = f => epoch'[h] = epoch[h] + 1)
  BY <1>2, ServerTyped
<1>7. Keeps
  <2>1. ASSUME NEW h \in Folders, NEW e \in Nat, NEW u \in Nat, NEW x \in Messages,
               Stands(h, e, u, x)
        PROVE  Stands(h, e, u, x)'
    <3>1. CASE h = f
      BY <1>2, <1>6, <2>1, <3>1, ServerTyped DEF Stands
    <3>2. CASE h # f
      BY <1>1, <1>2, <1>3, <1>6, <2>1, <3>2 DEF Stands
    <3> QED
      BY <3>1, <3>2
  <2> QED
    BY <2>1 DEF Keeps
<1> QED
  BY <1>2, <1>5, <1>6, <1>7

----------------------------------------------------------------------------
\* What stays as it was, up to what has gone.

\* Rows that name what they named, and items that are what they were.
Alike(q, r) == \A m \in Messages : r[m] # None =>
    /\ q[m] # None /\ r[m].mailbox = q[m].mailbox
    /\ r[m].uid = q[m].uid /\ r[m].id = q[m].id
Fewer(i, j) == \A t \in TaskIds, m \in Messages : j[t][m] # None => j[t][m] = i[t][m]

LEMMA RowsStay ==
    ASSUME IInv, Facts, Keeps, known' = known, Alike(row, row'), outlived \subseteq outlived'
    PROVE  RowsStand'
<1>1. ASSUME NEW m \in Messages \ outlived', row'[m] # None
      PROVE  Stands(row[m].mailbox, known[row[m].mailbox], row[m].uid, row[m].id)'
  <2>1. PICK h, e, u, x :
           h = row[m].mailbox /\ e = known[h] /\ u = row[m].uid /\ x = row[m].id
    OBVIOUS
  <2>2. row[m] # None /\ m \notin outlived
    BY <1>1 DEF Alike
  <2>3. row[m] \in Rows
    BY <2>2, ServerTyped
  <2>4. h \in Folders /\ e \in Nat /\ u \in Nat /\ x \in Messages
    BY <2>1, <2>3, ServerTyped DEF Rows
  <2>5. Stands(h, e, u, x)
    BY <2>1, <2>2 DEF Facts, RowsStand
  <2>6. Stands(h, e, u, x)'
    BY <2>4, <2>5 DEF Keeps
  <2>7. row'[m].mailbox = h /\ known'[h] = e /\ row'[m].uid = u /\ row'[m].id = x
    BY <1>1, <2>1 DEF Alike
  <2> QED
    BY <2>6, <2>7 DEF Stands
<1> QED
  BY <1>1 DEF RowsStand

LEMMA CopiesStay ==
    ASSUME IInv, Facts, Keeps, known' = known, copies' \subseteq copies
    PROVE  CopiesStand'
<1>1. ASSUME NEW d \in copies'
      PROVE  Stands(d[2], known[d[2]], d[3], d[1])'
  <2>1. PICK e : e = known[d[2]]
    OBVIOUS
  <2>2. d[1] \in Messages /\ d[2] \in Folders /\ d[3] \in Nat /\ e \in Nat
    BY <2>1, ServerTyped DEF Places
  <2>3. Stands(d[2], e, d[3], d[1])
    BY <2>1 DEF Facts, CopiesStand
  <2>4. Stands(d[2], e, d[3], d[1])'
    BY <2>2, <2>3 DEF Keeps
  <2> QED
    BY <2>1, <2>4 DEF Stands
<1> QED
  BY <1>1 DEF CopiesStand

LEMMA ListedStays ==
    ASSUME IInv, Facts, Keeps, known' = known, pass'.open = pass.open,
           pass'.left \subseteq pass.left, pass'.todo \subseteq pass.todo,
           pass'.seen \subseteq pass.seen
    PROVE  Listed'
<1> USE DEF Facts, Listed
<1>1. ASSUME NEW p \in pass'.todo
      PROVE  Stands(pass.open, known[pass.open], p[2], p[1])'
  <2>1. PICK f, e : f = pass.open /\ e = known[f]
    OBVIOUS
  <2>2. p[1] \in Messages /\ f \in Folders /\ p[2] \in Nat /\ e \in Nat
    BY <2>1, ServerTyped DEF Passes
  <2>3. Stands(f, e, p[2], p[1])
    BY <2>1
  <2>4. Stands(f, e, p[2], p[1])'
    BY <2>2, <2>3 DEF Keeps
  <2> QED
    BY <2>1, <2>4 DEF Stands
<1>2. ASSUME NEW a \in pass'.seen
      PROVE  a[2] \notin pass'.left /\ Stands(a[2], known[a[2]], a[3], a[1])'
  <2>1. PICK e : e = known[a[2]]
    OBVIOUS
  <2>2. a[1] \in Messages /\ a[2] \in Folders /\ a[3] \in Nat /\ e \in Nat
    BY <2>1, ServerTyped DEF Passes, Places
  <2>3. Stands(a[2], e, a[3], a[1])
    BY <2>1
  <2>4. Stands(a[2], e, a[3], a[1])'
    BY <2>2, <2>3 DEF Keeps
  <2> QED
    BY <2>1, <2>4 DEF Stands
<1> QED
  BY <1>1, <1>2

LEMMA GenerationsStay ==
    ASSUME IInv, Facts, Keeps,
           \A h \in Folders : known[h] <= known'[h] /\ known'[h] <= epoch'[h]
                              /\ known'[h] \in Nat,
           \A t \in TaskIds, m \in Messages : items'[t][m] # None =>
              items'[t][m] = items[t][m] \/ Accepted(items[t][m])'
    PROVE  Generations'
<1>1. ASSUME NEW i \in Items, Accepted(i)
      PROVE  Accepted(i)'
  <2>1. /\ i.epoch[1] \in Folders /\ i.epoch[2] \in Nat /\ i.uid \in Nat
        /\ i.named \in Messages \cup {None}
    BY DEF Items
  <2> QED
    BY <1>1, <2>1, ServerTyped DEF Accepted, Keeps
<1>2. ASSUME NEW t \in TaskIds, NEW m \in Messages, items'[t][m] # None
      PROVE  Accepted(items[t][m])'
  <2>1. CASE items'[t][m] = items[t][m]
    <3>1. PICK i : i = items[t][m]
      OBVIOUS
    <3>2. i \in Items /\ Accepted(i)
      BY <1>2, <2>1, <3>1, ServerTyped DEF Facts, Generations
    <3> QED
      BY <1>1, <2>1, <3>1, <3>2 DEF Accepted
  <2> QED
    BY <1>2, <2>1
<1> QED
  BY <1>2 DEF Generations

\* A call that goes on, whose command is not carried out by the step.
GoesOn(k, l) ==
    /\ l # NoCall => /\ k # NoCall /\ l.from = k.from /\ l.known = k.known /\ l.due = k.due
                     /\ l.rows = k.rows /\ l.blind = k.blind /\ l.dest = k.dest
    /\ l # NoCall /\ l.stage = "done" =>
          k.stage = "done" /\ l.claimed = k.claimed /\ l.hit = k.hit

LEMMA CallKept ==
    ASSUME IInv, NEW c \in Calls, call[c] # NoCall
    PROVE  /\ call[c].task \in TaskIds /\ call[c].from \in Folders /\ call[c].known \in Nat
           /\ call[c].dest \in Folders /\ call[c].claimed \subseteq DOMAIN call[c].rows
           /\ DOMAIN call[c].rows \subseteq Messages
           /\ \A m \in DOMAIN call[c].rows : /\ call[c].rows[m] \in Rows
                                             /\ call[c].hit[m] \in Nat
<1>1. CallOK(c) /\ call[c].rows \in RowSets
  BY CallType DEF CallOK, Entries
<1>2. DOMAIN call[c].rows \subseteq Messages /\ call[c].rows \in [DOMAIN call[c].rows -> Rows]
  BY <1>1, RowSetsType
<1>3. call[c].hit \in [DOMAIN call[c].rows -> Nat]
  BY CallType DEF Ids
<1> QED
  BY <1>1, <1>2, <1>3 DEF CallOK, Entries, Ids

LEMMA ReadStays ==
    ASSUME IInv, Facts, Keeps, NEW c \in Calls, call[c] # NoCall, NEW k, k = call[c],
           \A h \in Folders : epoch[h] <= epoch'[h] /\ epoch'[h] \in Nat
    PROVE  Read(k)'
<1>1. Read(k)
  BY DEF Facts, CallsStand
<1>2. k.from \in Folders /\ k.known \in Nat /\ \A m \in DOMAIN k.rows : k.rows[m] \in Rows
  BY CallKept
<1>3. k.known <= epoch'[k.from]
  BY <1>1, <1>2, ServerTyped DEF Read
<1>4. ASSUME NEW m \in DOMAIN k.rows
      PROVE  /\ k.rows[m].mailbox = k.from
             /\ m \notin k.blind => Stands(k.from, k.known, k.rows[m].uid, k.rows[m].id)'
             /\ k.due[m].named # None => Stands(k.due[m].epoch[1], k.due[m].epoch[2],
                                                k.due[m].uid, k.due[m].named)'
  <2>1. k.rows[m].uid \in Nat /\ k.rows[m].id \in Messages
    BY <1>2 DEF Rows
  <2>2. /\ k.due[m].epoch[1] \in Folders /\ k.due[m].epoch[2] \in Nat
        /\ k.due[m].uid \in Nat /\ k.due[m].named \in Messages \cup {None}
    BY <1>1 DEF Read, Items
  <2> QED
    BY <1>1, <1>2, <2>1, <2>2 DEF Read, Keeps
<1> QED
  BY <1>1, <1>3, <1>4 DEF Read

LEMMA AnsweredStays ==
    ASSUME IInv, Facts, Keeps, NEW c \in Calls, call[c].stage = "done", NEW k, k = call[c],
           epoch' = epoch
    PROVE  Answered(k)'
<1>1. call[c] # NoCall
  BY Calling
<1>2. SUFFICES ASSUME NEW m \in k.claimed \ k.blind
               PROVE  Stands(k.dest, epoch[k.dest], k.hit[m], k.rows[m].id)'
  BY DEF Answered
<1>3. PICK e : e = epoch[k.dest]
  OBVIOUS
<1>4. k.dest \in Folders /\ e \in Nat /\ k.rows[m].id \in Messages /\ k.hit[m] \in Nat
  BY <1>1, <1>2, <1>3, CallKept, ServerTyped DEF Rows
<1>5. Stands(k.dest, e, k.hit[m], k.rows[m].id)
  BY <1>1, <1>2, <1>3 DEF Facts, CallsStand, Answered
<1>6. Stands(k.dest, e, k.hit[m], k.rows[m].id)'
  BY <1>4, <1>5 DEF Keeps
<1> QED
  BY <1>3, <1>6 DEF Stands

LEMMA CallsStay ==
    ASSUME IInv, Facts, Keeps,
           \A c \in Calls : \E d \in Calls : GoesOn(call[d], call'[c]),
           \A h \in Folders : epoch[h] <= epoch'[h] /\ epoch'[h] \in Nat,
           epoch' = epoch \/ \A c \in Calls : call[c].stage # "done"
    PROVE  CallsStand'
<1>1. ASSUME NEW c \in Calls, call'[c] # NoCall
      PROVE  Read(call[c])' /\ (call'[c].stage = "done" => Answered(call[c])')
  <2>1. PICK d \in Calls : GoesOn(call[d], call'[c])
    OBVIOUS
  <2>2. PICK k : k = call[d]
    OBVIOUS
  <2>3. PICK l : l = call'[c]
    OBVIOUS
  <2>4. /\ k # NoCall /\ l.from = k.from /\ l.known = k.known /\ l.due = k.due
        /\ l.rows = k.rows /\ l.blind = k.blind /\ l.dest = k.dest
        /\ l.stage = "done" => k.stage = "done" /\ l.claimed = k.claimed /\ l.hit = k.hit
    BY <1>1, <2>1, <2>2, <2>3 DEF GoesOn
  <2>5. Read(l)'
    <3>1. Read(k)'
      BY <2>2, <2>4, ReadStays
    <3> QED
      BY <2>4, <3>1 DEF Read
  <2>6. l.stage = "done" => Answered(l)'
    <3>1. l.stage = "done" => Answered(k)'
      BY <2>2, <2>4, AnsweredStays
    <3> QED
      BY <2>4, <3>1 DEF Answered
  <2> QED
    BY <2>3, <2>5, <2>6 DEF Read, Answered
<1> QED
  BY <1>1 DEF CallsStand, Read, Answered

\* A step that gives no number, shows no row, reads none and meets no message.
LEMMA FactsStay ==
    ASSUME IInv, Facts, Keeps, Numbered',
           \A h \in Folders : epoch[h] <= epoch'[h] /\ epoch'[h] \in Nat,
           epoch' = epoch \/ \A c \in Calls : call[c].stage # "done",
           known' = known, Alike(row, row'), outlived \subseteq outlived', copies' \subseteq copies,
           Fewer(items, items'), pass' \in {pass, NoPass},
           \A c \in Calls : \E d \in Calls : GoesOn(call[d], call'[c])
    PROVE  Facts'
<1>1. Generations'
  BY GenerationsStay, ServerTyped DEF Facts, Generations, Fewer
<1>2. Listed'
  <2>1. CASE pass' = pass
    BY <2>1, ListedStays
  <2>2. CASE pass' = NoPass
    BY <2>2 DEF Listed, NoPass
  <2> QED
    BY <2>1, <2>2
<1>3. CallsStand'
  BY CallsStay
<1> QED
  BY <1>1, <1>2, <1>3, RowsStay, CopiesStay DEF Facts

LEMMA CacheStays ==
    ASSUME IInv, Facts, UNCHANGED <<server, copies, known, outlived>>, Alike(row, row'),
           Fewer(items, items'), pass' \in {pass, NoPass},
           \A c \in Calls : \E d \in Calls : GoesOn(call[d], call'[c])
    PROVE  Facts'
<1>1. Keeps
  BY KeepsAsIs
<1>2. Numbered' /\ epoch' = epoch /\ copies' \subseteq copies
  BY DEF Facts, Numbered, server
<1> QED
  BY <1>1, <1>2, FactsStay, ServerTyped

\* What does not change at all.
LEMMA SameNames ==
    /\ row' = row => Alike(row, row')
    /\ items' = items => Fewer(items, items')
    /\ call' = call => \A c \in Calls : \E d \in Calls : GoesOn(call[d], call'[c])
  BY DEF Alike, Fewer, GoesOn

LEMMA ServerFacts ==
    ASSUME IInv, Facts,
           \/ \E m \in Messages : OtherMoves(m)
           \/ \E f \in Folders : Rebuild(f)
    PROVE  Facts'
<1>1. CASE \E m \in Messages : OtherMoves(m)
  <2>1. PICK m \in Messages : OtherMoves(m)
    BY <1>1
  <2>2. UNCHANGED <<cache, ledger, call, pass>>
    BY <2>1 DEF OtherMoves
  <2> QED
    BY <2>1, <2>2, OtherMovesKeeps, SameNames, FactsStay, ServerTyped DEF cache, ledger
<1>2. CASE \E f \in Folders : Rebuild(f)
  <2>1. PICK f \in Folders : Rebuild(f)
    BY <1>2
  <2>2. /\ UNCHANGED <<cache, ledger, call, pass>>
        /\ epoch' = [epoch EXCEPT ![f] = @ + 1]
    BY <2>1 DEF Rebuild
  <2>3. \A h \in Folders : epoch'[h] \in Nat
    BY <2>2, ServerTyped
  <2> QED
    BY <2>1, <2>2, <2>3, RebuildKeeps, SameNames, FactsStay DEF cache, ledger
<1> QED
  BY <1>1, <1>2

----------------------------------------------------------------------------
\* The attempt, the engine and the obligations: what a call is about is fixed when
\* it reads its rows, and only an answer gives a row another number.

LEMMA NoGoalNames ==
    ASSUME NEW x \in Rows
    PROVE  NoGoal(x) # None /\ NoGoal(x).mailbox = x.mailbox /\ NoGoal(x).uid = x.uid
           /\ NoGoal(x).id = x.id
  BY NoGoalType

LEMMA EndsNames ==
    ASSUME IInv, NEW c \in Calls, call[c] # NoCall, NEW r, NEW its, NEW S, NEW waits,
           r \in [Messages -> Cells], its \in [TaskIds -> [Messages -> Items \cup {None}]],
           Ends(c, r, its, S, waits)
    PROVE  /\ Alike(r, row') /\ Fewer(its, items')
           /\ \A e \in Calls : \E d \in Calls : GoesOn(call[d], call'[e])
<1>1. PICK t : t = call[c].task
  OBVIOUS
<1>2. \A m \in Messages : r[m] # None => r[m] \in Rows
  BY DEF Cells
<1>3. call' = [call EXCEPT ![c] = NoCall] /\ DOMAIN call = Calls
  BY ServerTyped DEF Ends
<1>4. \A e \in Calls : \E d \in Calls : GoesOn(call[d], call'[e])
  BY <1>3 DEF GoesOn
<1>5. CASE Kind(t) = "move"
  <2>1. items' = its
    BY <1>1, <1>5 DEF Ends
  <2>2. \/ row' = r
        \/ row' = [m \in Messages |->
                     IF m \in S \ latched[t] /\ r[m] # None
                        /\ r[m].state = "free" /\ r[m].goal = call[c].dest
                     THEN NoGoal(r[m]) ELSE r[m]]
    BY <1>1, <1>5 DEF Ends
  <2>3. Alike(r, row')
    BY <1>2, <2>2, NoGoalNames DEF Alike
  <2> QED
    BY <1>4, <2>1, <2>3 DEF Fewer
<1>6. CASE Kind(t) # "move"
  <2>1. row' = r
    BY <1>1, <1>6 DEF Ends
  <2>2. PICK m \in Ids(c) : items' = its \/ SettleUndo(its, t, m, S # {} /\ ~Home(r, m, call[c].dest))
    BY <1>1, <1>6 DEF Ends
  <2>3. items' = its \/ items' = [its EXCEPT ![t][m] = its[t][m]]
        \/ items' = [its EXCEPT ![t][m] = None]
    BY <2>2 DEF SettleUndo
  <2>4. t \in TaskIds /\ m \in Messages
    BY <1>1, CallType
  <2>5. Fewer(its, items')
    BY <2>3, <2>4 DEF Fewer
  <2> QED
    BY <1>4, <2>1, <2>5 DEF Alike
<1> QED
  BY <1>5, <1>6

\* A call that ends without an answer.
LEMMA EndsFacts ==
    ASSUME IInv, Facts, NEW c \in Calls, call[c] # NoCall, NEW r, NEW S, NEW waits,
           r \in [Messages -> Cells], Alike(row, r), UNCHANGED beside,
           Ends(c, r, items, S, waits)
    PROVE  Facts'
<1>1. /\ Alike(r, row') /\ Fewer(items, items')
      /\ \A e \in Calls : \E d \in Calls : GoesOn(call[d], call'[e])
  BY EndsNames, ServerTyped
<1>2. Alike(row, row')
  BY <1>1 DEF Alike
<1>3. UNCHANGED <<server, copies, known, outlived>> /\ pass' = pass
  BY DEF beside
<1> QED
  BY <1>1, <1>2, <1>3, CacheStays

\* Rows that lose their goal, or that are what they were.
LEMMA FreedNames ==
    ASSUME IInv, NEW r, r = [m \in Messages |-> r[m]],
           \A m \in Messages : r[m] = row[m] \/ (row[m] # None /\ r[m] = NoGoal(row[m]))
    PROVE  r \in [Messages -> Cells] /\ Alike(row, r)
<1>1. \A m \in Messages : row[m] \in Cells /\ (row[m] # None => row[m] \in Rows)
  BY TypedRows DEF Cells
<1>2. \A m \in Messages : r[m] \in Cells
  BY <1>1, NoGoalType
<1>3. Alike(row, r)
  BY <1>1, NoGoalNames DEF Alike
<1> QED
  BY <1>2, <1>3

LEMMA WaitTimesOutFacts ==
    ASSUME IInv, Facts, NEW c \in Calls, WaitTimesOut(c)
    PROVE  Facts'
<1>1. call[c].stage # "none" /\ Ends(c, row, items, {}, TRUE) /\ UNCHANGED beside
  BY DEF WaitTimesOut
<1>2. Alike(row, row)
  BY DEF Alike
<1> QED
  BY <1>1, <1>2, Calling, TypedRows, EndsFacts

LEMMA ClaimsNames ==
    ASSUME IInv, NEW c \in Calls
    PROVE  Claims(c) \in [Messages -> Cells] /\ Alike(row, Claims(c))
<1>1. \A m \in Messages : \/ Claims(c)[m] = row[m]
                          \/ row[m] # None /\ Claims(c)[m] = NoGoal(row[m])
  BY DEF Claims, Present
<1>2. Claims(c) = [m \in Messages |-> Claims(c)[m]]
  BY DEF Claims
<1> QED
  BY <1>1, <1>2, FreedNames

LEMMA CheckedNames ==
    ASSUME IInv, NEW c \in Calls, call[c].stage = "claimed"
    PROVE  Checked(c) \in [Messages -> Cells] /\ Alike(row, Checked(c))
<1>1. \A m \in call[c].claimed : row[m] # None
  BY DEF IInv, Order, Exclusive, Present
<1>2. \A m \in Messages : \/ Checked(c)[m] = row[m]
                          \/ row[m] # None /\ Checked(c)[m] = NoGoal(row[m])
  BY <1>1 DEF Checked
<1>3. Checked(c) = [m \in Messages |-> Checked(c)[m]]
  BY DEF Checked
<1> QED
  BY <1>2, <1>3, FreedNames

LEMMA NotSentFacts ==
    ASSUME IInv, Facts, NEW c \in Calls, NotSent(c)
    PROVE  Facts'
<1>1. call[c] # NoCall /\ UNCHANGED beside
  <2>1. call[c].stage # "none" /\ UNCHANGED beside
    BY DEF NotSent
  <2> QED
    BY <2>1, Calling
<1> DEFINE r == [m \in Messages |-> IF m \in Ids(c) /\ Claimable(c, m)
                                       THEN NoGoal(row[m]) ELSE row[m]]
<1>2. Ends(c, r, items, Ids(c), FALSE) \/ Ends(c, Claims(c), items, Ids(c), FALSE)
  BY DEF NotSent
<1>3. \A m \in Messages : r[m] = row[m] \/ (row[m] # None /\ r[m] = NoGoal(row[m]))
  BY DEF Claimable, Present
<1>4. r = [m \in Messages |-> r[m]]
  OBVIOUS
<1> HIDE DEF r
<1>5. r \in [Messages -> Cells] /\ Alike(row, r)
  BY <1>3, <1>4, FreedNames
<1> QED
  BY <1>1, <1>2, <1>5, ClaimsNames, EndsFacts

LEMMA CommandRefusedFacts ==
    ASSUME IInv, Facts, NEW c \in Calls, CommandRefused(c)
    PROVE  Facts'
<1>1. /\ UNCHANGED beside /\ call[c].stage # "none"
      /\ Ends(c, Claims(c), items, Ids(c), FALSE)
  BY DEF CommandRefused
<1> QED
  BY <1>1, Calling, ClaimsNames, EndsFacts

LEMMA AnswerLostFacts ==
    ASSUME IInv, Facts, NEW c \in Calls, AnswerLost(c)
    PROVE  Facts'
<1>1. UNCHANGED beside /\ call[c].stage # "none"
  BY DEF AnswerLost
<1>2. CASE Ends(c, row, items, Ids(c) \ call[c].claimed, Kind(call[c].task) = "undo")
  <2>1. Alike(row, row)
    BY DEF Alike
  <2> QED
    BY <1>1, <1>2, <2>1, Calling, TypedRows, EndsFacts
<1>3. CASE /\ call[c].stage = "claimed"
           /\ Ends(c, Checked(c), items, Ids(c) \ Sent(c), Kind(call[c].task) = "undo")
  BY <1>1, <1>3, Calling, CheckedNames, EndsFacts
<1> QED
  BY <1>2, <1>3 DEF AnswerLost

\* A call reads the rows, which stand.
LEMMA NewCallRead ==
    ASSUME IInv, Facts, NEW t \in TaskIds, NEW S \in SUBSET Messages, S # {}, NEW f,
           \A m \in S : Present(m) /\ items[t][m] # None, \A m, n \in S : row[m].mailbox = row[n].mailbox
    PROVE  Read(NewCall(t, S, f))
<1>1. PICK r : r = CHOOSE x \in {row[m] : m \in S} : TRUE
  OBVIOUS
<1>2. r \in {row[m] : m \in S}
  BY <1>1
<1>3. \A m \in S : row[m].mailbox = r.mailbox /\ row[m] # None /\ row[m] \in Rows
  BY <1>2, ServerTyped DEF Present
<1>4. PICK k : k = NewCall(t, S, f)
  OBVIOUS
<1>5. /\ k.due = [m \in S |-> items[t][m]] /\ k.rows = [m \in S |-> row[m]] /\ k.from = r.mailbox
      /\ k.known = known[r.mailbox] /\ k.blind = S \cap outlived
  BY <1>1, <1>4 DEF NewCall
<1>6. DOMAIN k.rows = S /\ \A m \in S : k.rows[m] = row[m]
  BY <1>5
<1>7. r.mailbox \in Folders
  BY <1>2, <1>3 DEF Rows
<1>8. k.known <= epoch[k.from]
  BY <1>5, <1>7 DEF Facts, Generations
<1>9. \A m \in S : /\ k.rows[m].mailbox = k.from
                   /\ m \notin k.blind => Stands(k.from, k.known, k.rows[m].uid, k.rows[m].id)
  BY <1>3, <1>5, <1>6 DEF Facts, RowsStand
<1>10. \A m \in S :
          /\ k.due[m] \in Items
          /\ k.due[m].epoch[1] = k.from => k.due[m].epoch[2] <= k.known
          /\ k.due[m].named # None => Stands(k.due[m].epoch[1], k.due[m].epoch[2],
                                             k.due[m].uid, k.due[m].named)
  BY <1>5, ServerTyped DEF Facts, Generations, Accepted
<1> QED
  BY <1>4, <1>6, <1>8, <1>9, <1>10 DEF Read

LEMMA ReadingFacts ==
    ASSUME IInv, Facts, NEW c \in Calls, NEW k, Read(k), k.stage # "done", call'[c] = k,
           \A d \in Calls \ {c} : call'[d] = call[d],
           UNCHANGED <<server, cache, items, pass>>
    PROVE  Facts'
<1>1. UNCHANGED <<at, uids, uidnext, epoch, row, copies, known, outlived, items, pass>>
  BY DEF server, cache
<1>2. Keeps
  BY KeepsAsIs
<1>3. Numbered' /\ Generations' /\ RowsStand' /\ CopiesStand' /\ Listed'
  <2>1. Numbered' /\ Generations'
    BY <1>1 DEF Facts, Numbered, Generations, Accepted, Stands
  <2> QED
    BY <1>1, <1>2, <2>1, SameNames, RowsStay, CopiesStay, ListedStays
<1>4. CallsStand'
  <2>1. ASSUME NEW d \in Calls, call'[d] # NoCall, d # c
        PROVE  Read(call[d])' /\ (call'[d].stage = "done" => Answered(call[d])')
    <3>1. Read(call[d]) /\ (call[d].stage = "done" => Answered(call[d]))
      BY <2>1 DEF Facts, CallsStand
    <3>2. PICK q : q = call[d] /\ q = call'[d]
      BY <2>1
    <3>3. \A h, e, u, x : Stands(h, e, u, x) => Stands(h, e, u, x)'
      BY <1>1 DEF Stands
    <3>4. Read(q) => Read(q)'
      BY <1>1, <3>3 DEF Read
    <3>5. Answered(q) => Answered(q)'
      BY <1>1, <3>3 DEF Answered
    <3>6. Read(q)' /\ (q.stage = "done" => Answered(q)')
      BY <3>1, <3>2, <3>4, <3>5
    <3>7. Read(call[d])' /\ (call[d].stage = "done" => Answered(call[d])')
      BY <2>1, <3>2, <3>6 DEF Read, Answered
    <3> QED
      BY <2>1, <3>7
  <2>2. Read(k)'
    BY <1>1 DEF Read, Stands
  <2> QED
    BY <2>1, <2>2 DEF CallsStand, Read, Answered
<1> QED
  BY <1>3, <1>4 DEF Facts

LEMMA EnterFacts ==
    ASSUME IInv, Facts, NEW c \in Calls, Enter(c)
    PROVE  Facts'
<1>1. /\ UNCHANGED beside /\ call[c].stage = "dial" /\ call[c] # NoCall
  BY Calling DEF Enter
<1>2. CASE Ends(c, row, items, Ids(c), FALSE) \/ Ends(c, row, items, {}, TRUE)
  <2>1. Alike(row, row)
    BY DEF Alike
  <2> QED
    BY <1>1, <1>2, <2>1, TypedRows, EndsFacts
<1> DEFINE k == call[c]
           n == IF Kind(k.task) = "move" THEN k ELSE NewCall(k.task, Ids(c), k.dest)
           e == [n EXCEPT !.stage = "wait", !.open = k.open]
<1>3. CASE /\ ~AtHome(c) /\ call' = [call EXCEPT ![c] = e]
           /\ UNCHANGED <<row, items, latched, wait>>
  <2>1. n \in Entries /\ Read(n)
    <3>1. CASE Kind(k.task) = "move"
      BY <1>1, <3>1, CallType DEF Facts, CallsStand
    <3>2. CASE Kind(k.task) # "move"
      <4>1. Kind(k.task) = "undo" /\ k.task \in TaskIds /\ k.dest \in Folders
        BY <1>1, <3>2, CallType, TaskTyped DEF Kind, Tasks
      <4>2. PICK m \in Messages : Ids(c) = {m}
        BY <1>1, <4>1, CallType DEF CallOK
      <4>3. Present(m) /\ items[k.task][m] # None
        <5>1. items[k.task][m] # None
          BY <1>3, <4>1, <4>2 DEF AtHome
        <5> QED
          BY <4>1, <5>1 DEF IInv, Order, Backed
      <4>4. PICK t \in TaskIds, S \in SUBSET Messages, f \in Folders :
                /\ t = k.task /\ S = Ids(c) /\ f = k.dest
                /\ S # {} /\ (\A x \in S : Present(x) /\ items[t][x] # None)
                /\ \A x, y \in S : row[x].mailbox = row[y].mailbox
        <5>1. Ids(c) \in SUBSET Messages /\ Ids(c) # {}
          BY <4>2
        <5>2. \A x \in Ids(c) : Present(x) /\ items[k.task][x] # None
          BY <4>2, <4>3
        <5>3. \A x, y \in Ids(c) : row[x].mailbox = row[y].mailbox
          BY <4>2
        <5> QED
          BY <4>1, <5>1, <5>2, <5>3
      <4>5. n = NewCall(t, S, f)
        BY <3>2, <4>4 DEF NewCall
      <4>6. NewCall(t, S, f) \in Entries
        <5>1. Dialled(NewCall(t, S, f), t, S, f)
          BY <4>4, NewCallType
        <5> QED
          BY <5>1 DEF Dialled
      <4> QED
        BY <4>4, <4>5, <4>6, NewCallRead
    <3> QED
      BY <3>1, <3>2
  <2> HIDE DEF n, k
  <2>2. /\ e.stage = "wait" /\ e.due = n.due /\ e.rows = n.rows /\ e.from = n.from
        /\ e.known = n.known /\ e.blind = n.blind
    BY <2>1 DEF Entries
  <2>3. call'[c] = e /\ \A d \in Calls \ {c} : call'[d] = call[d]
    BY <1>3, ServerTyped
  <2> HIDE DEF e
  <2>4. Read(e)
    BY <2>1, <2>2 DEF Read
  <2>5. UNCHANGED <<server, cache, items, pass>>
    BY <1>1, <1>3 DEF beside, cache
  <2> QED
    BY <2>2, <2>3, <2>4, <2>5, ReadingFacts
<1> QED
  BY <1>1, <1>2, <1>3 DEF Enter

LEMMA ClaimFacts ==
    ASSUME IInv, Facts, NEW c \in Calls, Claim(c)
    PROVE  Facts'
<1> DEFINE k == call[c]
           S == {m \in Ids(c) : Claimable(c, m)}
<1>1. UNCHANGED beside /\ call[c].stage = "wait" /\ call[c] # NoCall
  BY Calling DEF Claim
<1>2. CASE Ends(c, row, items, Ids(c), Kind(call[c].task) = "undo")
  <2>1. Alike(row, row)
    BY DEF Alike
  <2> QED
    BY <1>1, <1>2, <2>1, TypedRows, EndsFacts
<1>3. CASE /\ row' = [m \in Messages |-> IF m \in S
                                THEN [row[m] EXCEPT !.goal = k.dest, !.state = "intent"]
                                ELSE row[m]]
           /\ call' = [call EXCEPT ![c].stage = "claimed", ![c].claimed = S]
           /\ items' = items
  <2>1. \A m \in S : row[m] # None
    BY DEF Claimable, Present
  <2> HIDE DEF S, k
  <2>2. \A m \in Messages : row[m] # None => row[m] \in Rows
    BY ServerTyped
  <2>3. \A r \in Rows : LET q == [r EXCEPT !.goal = k.dest, !.state = "intent"]
                        IN q.mailbox = r.mailbox /\ q.uid = r.uid /\ q.id = r.id
    BY DEF Rows
  <2>4. Alike(row, row')
    BY <1>3, <2>1, <2>2, <2>3 DEF Alike
  <2>5. /\ call[c] \in Entries
        /\ call'[c] = [call[c] EXCEPT !.stage = "claimed", !.claimed = S]
        /\ \A d \in Calls \ {c} : call'[d] = call[d]
    BY <1>1, <1>3, CallType
  <2>6. GoesOn(call[c], call'[c])
    BY <1>1, <2>5 DEF GoesOn, Entries
  <2>7. \A e \in Calls : \E d \in Calls : GoesOn(call[d], call'[e])
    BY <2>5, <2>6 DEF GoesOn
  <2>8. Fewer(items, items')
    BY <1>3, SameNames
  <2> QED
    BY <1>1, <2>4, <2>7, <2>8, CacheStays DEF beside
<1> QED
  BY <1>1, <1>2, <1>3 DEF Claim

\* The tasks' own steps.
LEMMA ScheduleFacts ==
    ASSUME IInv, Facts, NEW t \in TaskIds,
           Begin(t) \/ Complete(t) \/ AttemptFails(t) \/ AttemptTimesOut(t)
    PROVE  Facts'
<1>1. UNCHANGED <<server, cache, items, pass>>
  BY DEF Begin, Complete, AttemptFails, AttemptTimesOut, ledger
<1>2. CASE Begin(t) \/ Complete(t) \/ AttemptFails(t)
  <2>1. call' = call
    BY <1>2 DEF Begin, Complete, AttemptFails
  <2> QED
    BY <1>1, <2>1, SameNames, CacheStays DEF cache
<1>3. CASE AttemptTimesOut(t)
  <2>1. /\ call["live"] # NoCall
        /\ call' = [live |-> NoCall,
                    old |-> [call["live"] EXCEPT !.open = call["live"].stage = "dial"]]
    BY <1>3 DEF AttemptTimesOut
  <2>2. call["live"] \in Entries /\ "live" \in Calls
    BY <2>1, CallType DEF Calls
  <2>3. /\ call'["live"] = NoCall
        /\ call'["old"] = [call["live"] EXCEPT !.open = call["live"].stage = "dial"]
    BY <2>1
  <2>4. GoesOn(call["live"], call'["old"]) /\ GoesOn(call["live"], call'["live"])
    BY <2>1, <2>2, <2>3 DEF GoesOn, Entries
  <2>5. \A e \in Calls : \E d \in Calls : GoesOn(call[d], call'[e])
    BY <2>2, <2>4 DEF Calls
  <2> QED
    BY <1>1, <2>5, SameNames, CacheStays DEF cache
<1> QED
  BY <1>2, <1>3

LEMMA NextChunkFacts ==
    ASSUME IInv, Facts, NEW t \in TaskIds, NEW S \in SUBSET Messages, NextChunk(t, S)
    PROVE  Facts'
<1>1. UNCHANGED <<server, cache, items, pass>>
  BY DEF NextChunk, ledger
<1>2. CASE call' = call
  BY <1>1, <1>2, SameNames, CacheStays DEF cache
<1> DEFINE f == (CHOOSE i \in {items[t][m] : m \in S} : TRUE).to
<1>3. CASE /\ S # {} /\ \A m, n \in S : items[t][m] # None /\ row[m].mailbox = row[n].mailbox
           /\ call' = [call EXCEPT !["live"] = NewCall(t, S, f)]
  <2>1. \A m \in S : Present(m)
    BY <1>3 DEF IInv, Order, Backed
  <2>2. PICK k : k = NewCall(t, S, f)
    OBVIOUS
  <2>3. Read(k) /\ k.stage = "dial"
    <3>1. PICK g : g = f
      OBVIOUS
    <3> HIDE DEF f
    <3>2. k = NewCall(t, S, g)
      BY <2>2, <3>1
    <3> QED
      BY <1>3, <2>1, <3>2, NewCallRead DEF NewCall
  <2>4. "live" \in Calls /\ call'["live"] = k /\ \A d \in Calls \ {"live"} : call'[d] = call[d]
    BY <1>3, <2>2, ServerTyped DEF Calls
  <2> QED
    BY <1>1, <2>3, <2>4, ReadingFacts
<1> QED
  BY <1>2, <1>3 DEF NextChunk

LEMMA NextEntryFacts ==
    ASSUME IInv, Facts, NEW t \in TaskIds, NEW m \in Messages, NextEntry(t, m)
    PROVE  Facts'
<1>1. UNCHANGED <<server, cache, pass>>
  BY DEF NextEntry
<1>2. CASE call' = call
  <2>1. items' = items \/ items' = [items EXCEPT ![t][m] = IF FALSE THEN @ ELSE None]
    BY <1>1, <1>2 DEF NextEntry, SettleUndo
  <2>2. Fewer(items, items')
    BY <2>1, ServerTyped DEF Fewer
  <2> QED
    BY <1>1, <1>2, <2>2, SameNames, CacheStays DEF cache
<1>3. CASE /\ items[t][m] # None /\ items' = items
           /\ call' = [call EXCEPT !["live"] = NewCall(t, {m}, items[t][m].to)]
  <2>1. Present(m)
    BY <1>3 DEF IInv, Order, Backed
  <2>2. PICK f, S, k : f = items[t][m].to /\ S = {m} /\ k = NewCall(t, S, f)
    OBVIOUS
  <2>3. Read(k) /\ k.stage = "dial"
    <3>1. /\ S \in SUBSET Messages /\ S # {} /\ \A x \in S : Present(x) /\ items[t][x] # None
          /\ \A x, y \in S : row[x].mailbox = row[y].mailbox
      BY <1>3, <2>1, <2>2
    <3>2. Read(NewCall(t, S, f))
      BY <3>1, NewCallRead
    <3> QED
      BY <2>2, <3>2 DEF NewCall
  <2>4. "live" \in Calls /\ call'["live"] = k /\ \A d \in Calls \ {"live"} : call'[d] = call[d]
    BY <1>3, <2>2, ServerTyped DEF Calls
  <2> QED
    BY <1>1, <1>3, <2>3, <2>4, ReadingFacts
<1> QED
  BY <1>2, <1>3 DEF NextEntry

LEMMA HookFacts ==
    ASSUME IInv, Facts, Hook
    PROVE  Facts'
<1>1. row' = GivenBack(hook) /\ UNCHANGED <<server, copies, known, outlived, items, call, pass>>
  BY DEF Hook
<1>2. Alike(row, row')
  <2>1. CASE row' = row
    BY <2>1, SameNames
  <2>2. CASE row' = Reverted(hook, Owed(hook))
    <3>1. PICK r : r = row'
      OBVIOUS
    <3>2. r = [m \in Messages |-> r[m]]
      BY <2>2, <3>1 DEF Reverted
    <3>3. \A m \in Messages : r[m] = row[m] \/ (row[m] # None /\ r[m] = NoGoal(row[m]))
      BY <2>2, <3>1 DEF Reverted, HasGoal, Present
    <3> QED
      BY <3>1, <3>2, <3>3, FreedNames
  <2> QED
    BY <1>1, <2>1, <2>2 DEF GivenBack
<1> QED
  BY <1>1, <1>2, SameNames, CacheStays

LEMMA BootFacts ==
    ASSUME IInv, Facts, Boot
    PROVE  Facts'
<1>1. UNCHANGED <<server, copies, known, outlived, items, call, pass>>
  BY DEF Boot
<1>2. PICK r : r = row'
  OBVIOUS
<1>3. r = [m \in Messages |-> r[m]]
  BY <1>2 DEF Boot
<1>4. \A m \in Messages : r[m] = row[m] \/ (row[m] # None /\ r[m] = NoGoal(row[m]))
  <2>1. \A t \in TaskIds, m \in Messages : m \in Owed(t) => row[m] # None
    BY DEF Owed, IInv, Order, Backed, Present
  <2> QED
    BY <1>2, <2>1 DEF Boot
<1> QED
  BY <1>1, <1>2, <1>3, <1>4, FreedNames, SameNames, CacheStays

LEMMA CrashFacts ==
    ASSUME IInv, Facts, Crash
    PROVE  Facts'
<1>1. /\ UNCHANGED <<server, cache, ledger>> /\ pass' = NoPass
      /\ call' = [c \in Calls |-> NoCall]
  BY DEF Crash
<1>2. \A c \in Calls : \E d \in Calls : GoesOn(call[d], call'[c])
  BY <1>1 DEF GoesOn
<1> QED
  BY <1>1, <1>2, SameNames, CacheStays DEF cache, ledger

----------------------------------------------------------------------------
\* Acceptance: the new items have the generation the cache has now.
LEMMA AcceptFacts ==
    ASSUME IInv, Facts, NEW kind, NEW parent, NEW its, Accept(kind, parent, its),
           its \in [Messages -> Items \cup {None}],
           \A m \in Messages : its[m] # None => Accepted(its[m]),
           Alike(row, row'), UNCHANGED <<server, copies, known, outlived, call, pass>>
    PROVE  Facts'
<1>1. count + 1 \in TaskIds /\ items' = [items EXCEPT ![count + 1] = its]
  <2>1. count \in 0..MaxTasks
    BY DEF IInv, Typed, TypeOK
  <2>2. count < MaxTasks /\ items' = [items EXCEPT ![count + 1] = its]
    BY DEF Accept
  <2> QED
    BY <2>1, <2>2 DEF TaskIds
<1>2. PICK n \in TaskIds : n = count + 1
  BY <1>1
<1>3. \A t \in TaskIds : items'[t] = IF t = n THEN its ELSE items[t]
  BY <1>1, <1>2, ServerTyped
<1>4. Keeps /\ Numbered' /\ epoch' = epoch
  BY KeepsAsIs DEF Facts, Numbered, server
<1>5. Generations'
  <2>1. ASSUME NEW t \in TaskIds, NEW m \in Messages, items'[t][m] # None
        PROVE  items'[t][m] = items[t][m] \/ Accepted(items[t][m])'
    <3>1. CASE t = n
      <4>1. PICK i : i = its[m]
        OBVIOUS
      <4>2. items'[t][m] = i /\ Accepted(i)
        BY <1>3, <2>1, <3>1, <4>1
      <4> QED
        BY <1>4, <4>2 DEF Accepted, Stands, server
    <3>2. CASE t # n
      BY <1>3, <3>2
    <3> QED
      BY <3>1, <3>2
  <2> QED
    BY <1>4, <2>1, ServerTyped, GenerationsStay DEF Facts, Generations
<1>6. CallsStand'
  BY <1>4, SameNames, CallsStay, ServerTyped
<1>7. RowsStand' /\ CopiesStand' /\ Listed'
  BY <1>4, RowsStay, CopiesStay, ListedStays
<1> QED
  BY <1>4, <1>5, <1>6, <1>7 DEF Facts

LEMMA FrozenAccepted ==
    ASSUME IInv, Facts, NEW m \in Messages, Present(m), NEW f
    PROVE  Accepted(Frozen(m, f))
<1>1. PICK i, r : i = Frozen(m, f) /\ r = row[m]
  OBVIOUS
<1>2. /\ i.epoch[1] = r.mailbox /\ i.epoch[2] = known[r.mailbox] /\ i.uid = r.uid
      /\ i.named = IF m \in outlived THEN None ELSE r.id
  BY <1>1 DEF Frozen
<1>3. r \in Rows /\ r.mailbox \in Folders
  BY <1>1, ServerTyped DEF Present, Rows
<1>4. known[r.mailbox] \in Nat
  BY <1>3, ServerTyped
<1>5. m \notin outlived => Stands(r.mailbox, known[r.mailbox], r.uid, r.id)
  BY <1>1 DEF Facts, RowsStand, Present
<1> QED
  BY <1>1, <1>2, <1>4, <1>5 DEF Accepted

LEMMA AcceptMoveFacts ==
    ASSUME IInv, Facts, NEW S \in SUBSET Messages, NEW f \in Folders, AcceptMove(S, f)
    PROVE  Facts'
<1> DEFINE its == [m \in Messages |-> IF m \in S THEN Frozen(m, f) ELSE None]
<1>1. /\ \A m \in S : Present(m) /\ row[m].mailbox # f /\ row[m].goal = None
      /\ Accept("move", 0, its)
      /\ row' = [m \in Messages |-> IF m \in S THEN [row[m] EXCEPT !.goal = f] ELSE row[m]]
      /\ UNCHANGED <<server, copies, known, outlived, call, pass>>
  BY DEF AcceptMove
<1>2. \A m \in Messages : row[m] # None => row[m] \in Rows
  BY ServerTyped
<1>3. \A m \in S : Frozen(m, f) \in Items
  BY <1>1, <1>2, FrozenType DEF Present
<1>4. its \in [Messages -> Items \cup {None}]
  BY <1>3
<1>5. \A m \in Messages : its[m] # None => Accepted(its[m])
  BY <1>1, FrozenAccepted
<1> HIDE DEF its
<1>6. \A r \in Rows : LET q == [r EXCEPT !.goal = f]
                      IN q.mailbox = r.mailbox /\ q.uid = r.uid /\ q.id = r.id
  BY DEF Rows
<1>7. Alike(row, row')
  BY <1>1, <1>2, <1>6 DEF Alike, Present
<1> QED
  BY <1>1, <1>4, <1>5, <1>7, AcceptFacts

LEMMA AcceptUndoFacts ==
    ASSUME IInv, Facts, NEW p \in TaskIds, AcceptUndo(p)
    PROVE  Facts'
<1> DEFINE its == [m \in Messages |->
            IF items[p][m] = None THEN None ELSE Frozen(m, items[p][m].from)]
<1>1. /\ Accept("undo", p, its) /\ UNCHANGED <<server, cache, call, pass>>
  BY DEF AcceptUndo
<1>2. \A m \in Messages : items[p][m] # None => Frozen(m, items[p][m].from) \in Items
  <2>1. ASSUME NEW m \in Messages, items[p][m] # None
        PROVE  Frozen(m, items[p][m].from) \in Items
    <3>1. items[p][m].from \in Folders /\ Present(m)
      BY <2>1, ServerTyped DEF Items, IInv, Order, Backed
    <3> QED
      BY <3>1, FrozenType
  <2> QED
    BY <2>1
<1>3. its \in [Messages -> Items \cup {None}]
  BY <1>2
<1>4. \A m \in Messages : its[m] # None => Accepted(its[m])
  BY FrozenAccepted DEF IInv, Order, Backed
<1> HIDE DEF its
<1> QED
  BY <1>1, <1>3, <1>4, SameNames, AcceptFacts DEF cache

----------------------------------------------------------------------------
\* The command.  The generation it is checked against is the one the rows were read
\* under, so that a number selects the message of its row, or none; and the numbers
\* it is answered are new.

LEMMA SentStands ==
    ASSUME IInv, Facts, NEW c \in Calls, call[c] # NoCall, NEW m \in Sent(c), m \notin call[c].blind
    PROVE  Target(c, m) \subseteq {call[c].rows[m].id}
<1>1. PICK k : k = call[c]
  OBVIOUS
<1>2. /\ k.from \in Folders /\ k.known \in Nat /\ k.claimed \subseteq DOMAIN k.rows
      /\ Read(k) /\ m \in k.claimed /\ m \in DOMAIN k.rows
  BY <1>1, CallKept DEF Facts, CallsStand, Sent
<1>3. k.known = epoch[k.from]
  <2>1. SameGeneration(c, m)
    BY DEF Sent
  <2>2. CASE k.due[m].epoch = <<k.from, epoch[k.from]>>
    <3>1. k.due[m].epoch[1] = k.from /\ k.due[m].epoch[2] = epoch[k.from]
      BY <2>2
    <3>2. epoch[k.from] <= k.known /\ k.known <= epoch[k.from]
      BY <1>2, <3>1 DEF Read
    <3>3. epoch[k.from] \in Nat
      BY <1>2, ServerTyped
    <3> QED
      BY <1>2, <3>2, <3>3
  <2> QED
    BY <1>1, <2>1, <2>2 DEF SameGeneration
<1>4. Stands(k.from, k.known, k.rows[m].uid, k.rows[m].id)
  BY <1>1, <1>2 DEF Read
<1> QED
  BY <1>1, <1>3, <1>4 DEF Target, Named, Stands

\* The generation an item froze is the one it is sent under, so that its number
\* selects what the row stood for then, if the row has not been carried elsewhere.
LEMMA SentAccepted ==
    ASSUME IInv, Facts, NEW c \in Calls, call[c] # NoCall, NEW m \in Sent(c),
           ~Carried(c, m), call[c].due[m].named # None
    PROVE  Target(c, m) \subseteq {call[c].due[m].named}
<1>1. PICK k, i : k = call[c] /\ i = k.due[m]
  OBVIOUS
<1>2. m \in DOMAIN k.rows /\ Read(k)
  BY <1>1, CallKept DEF Facts, CallsStand, Sent
<1>3. i.from = k.from /\ i.uid = k.rows[m].uid
  BY <1>1 DEF Carried
<1>4. i.epoch = <<k.from, epoch[k.from]>>
  BY <1>1, <1>3 DEF Sent, SameGeneration
<1>5. Stands(k.from, epoch[k.from], k.rows[m].uid, i.named)
  BY <1>1, <1>2, <1>3, <1>4 DEF Read
<1> QED
  BY <1>1, <1>5 DEF Target, Named, Stands

\* The provider moves X to f, where n numbers them.
Renumbered(X, n, f) ==
    /\ X \in SUBSET Messages /\ n \in [X -> uidnext..(uidnext + Cardinality(X) - 1)]
    /\ IsInjective(n) /\ uidnext' = uidnext + Cardinality(X) /\ epoch' = epoch
    /\ at' = [x \in Messages |-> IF x \in X THEN f ELSE at[x]]
    /\ uids' = [x \in Messages |-> IF x \in X THEN n[x] ELSE uids[x]]

LEMMA CommandNumbers ==
    ASSUME IInv, Facts, NEW X, NEW n, NEW f, Renumbered(X, n, f)
    PROVE  Keeps /\ Numbered'
<1> USE DEF Renumbered
<1>1. Cardinality(X) \in Nat
  BY FS_Subset, FS_CardinalityType
<1>2. \A x \in X : n[x] \in Nat /\ uidnext <= n[x] /\ n[x] < uidnext'
  BY <1>1, ServerTyped
<1>3. \A x, y \in X : n[x] = n[y] => x = y
  BY DEF IsInjective
<1>4. /\ \A x \in X : uids'[x] = n[x]
      /\ \A x \in Messages \ X : uids'[x] = uids[x] /\ at'[x] = at[x]
  OBVIOUS
<1>5. /\ \A x \in Messages : uids[x] # 0 /\ uids[x] < uidnext /\ uids[x] \in Nat
      /\ \A x, y \in Messages : uids[x] = uids[y] => x = y
      /\ uidnext \in Nat /\ uidnext' \in Nat /\ uidnext <= uidnext'
  BY <1>1, ServerTyped DEF Facts, Numbered
<1>6. Numbered'
  <2>1. \A x \in Messages : uids'[x] # 0 /\ uids'[x] < uidnext'
    BY <1>2, <1>4, <1>5
  <2>2. \A x, y \in Messages : uids'[x] = uids'[y] => x = y
    BY <1>2, <1>3, <1>4, <1>5
  <2> QED
    BY <2>1, <2>2 DEF Numbered
<1>7. Keeps
  <2>1. ASSUME NEW h \in Folders, NEW e \in Nat, NEW u \in Nat, NEW x \in Messages,
               Stands(h, e, u, x)
        PROVE  Stands(h, e, u, x)'
    <3>1. e <= epoch'[h] /\ u < uidnext
      BY <2>1 DEF Stands
    <3>2. ASSUME e = epoch'[h], NEW y \in Messages, at'[y] = h, uids'[y] = u
          PROVE  y = x
      <4>1. y \notin X
        BY <1>2, <1>4, <1>5, <3>1, <3>2
      <4> QED
        BY <1>4, <2>1, <3>2, <4>1 DEF Stands
    <3>3. u < uidnext'
      BY <1>5, <3>1
    <3> QED
      BY <3>1, <3>2, <3>3 DEF Stands
  <2> QED
    BY <2>1 DEF Keeps
<1> QED
  BY <1>6, <1>7

LEMMA CommandFacts ==
    ASSUME IInv, Facts, NEW c \in Calls, Command(c)
    PROVE  Facts'
<1> DEFINE X == UNION {Target(c, m) : m \in Sent(c)}
           h(n) == [m \in Ids(c) |-> IF m \in Sent(c) /\ Target(c, m) # {}
                                     THEN n[CHOOSE x \in Target(c, m) : TRUE] ELSE 0]
<1>1. /\ call[c].stage = "claimed" /\ row' = Checked(c) /\ call[c] # NoCall
      /\ UNCHANGED <<epoch, copies, known, outlived, items, pass>>
  BY Calling DEF Command, ledger
<1>2. /\ call[c] \in Entries /\ DOMAIN call = Calls /\ Ids(c) \in SUBSET Messages
      /\ call[c].claimed \in SUBSET Ids(c)
  BY <1>1, CallType
<1>3. X \in SUBSET Messages /\ \A m \in Sent(c) : Target(c, m) \subseteq X
  BY DEF Target, Named
<1>4. PICK n \in [X -> uidnext..(uidnext + Cardinality(X) - 1)] :
          /\ IsInjective(n) /\ uidnext' = uidnext + Cardinality(X)
          /\ at' = [x \in Messages |-> IF x \in X THEN call[c].dest ELSE at[x]]
          /\ uids' = [x \in Messages |-> IF x \in X THEN n[x] ELSE uids[x]]
          /\ call' = [call EXCEPT ![c].stage = "done", ![c].claimed = Sent(c), ![c].hit = h(n)]
  BY DEF Command
<1> HIDE DEF X
<1>5. Keeps /\ Numbered'
  <2>1. PICK f : f = call[c].dest
    OBVIOUS
  <2>2. Renumbered(X, n, f)
    BY <1>1, <1>3, <1>4, <2>1 DEF Renumbered
  <2> QED
    BY <2>2, CommandNumbers
<1>6. PICK g : g = h(n)
  OBVIOUS
<1>7. \A m \in Sent(c) : g[m] = 0 \/ \E x \in Target(c, m) : x \in X /\ g[m] = n[x]
  <2>1. ASSUME NEW m \in Sent(c), Target(c, m) # {}
        PROVE  \E x \in Target(c, m) : x \in X /\ g[m] = n[x]
    <3>1. m \in Ids(c)
      BY <1>2 DEF Sent
    <3>2. PICK x : x = CHOOSE y \in Target(c, m) : TRUE
      OBVIOUS
    <3>3. x \in Target(c, m)
      BY <2>1, <3>2
    <3> QED
      BY <1>3, <1>6, <2>1, <3>1, <3>2, <3>3
  <2>2. \A m \in Sent(c) : Target(c, m) = {} => g[m] = 0
    BY <1>2, <1>6 DEF Sent
  <2> QED
    BY <2>1, <2>2
<1> HIDE DEF h
<1>8. /\ call'[c] = [call[c] EXCEPT !.stage = "done", !.claimed = Sent(c), !.hit = g]
      /\ \A d \in Calls \ {c} : call'[d] = call[d]
  BY <1>2, <1>4, <1>6
<1>9. /\ call'[c].from = call[c].from /\ call'[c].known = call[c].known
      /\ call'[c].due = call[c].due /\ call'[c].rows = call[c].rows
      /\ call'[c].blind = call[c].blind /\ call'[c].dest = call[c].dest
      /\ call'[c].claimed = Sent(c) /\ call'[c].hit = g
  BY <1>2, <1>8 DEF Entries
<1>10. PICK k, l : k = call[c] /\ l = call'[c]
  OBVIOUS
<1>11. Read(l)'
  <2>1. Read(k)'
    BY <1>1, <1>5, <1>10, ReadStays, ServerTyped
  <2> QED
    BY <1>9, <1>10, <2>1 DEF Read
<1>12. Answered(l)'
  <2>1. SUFFICES ASSUME NEW m \in Sent(c), m \notin k.blind
                 PROVE  Stands(k.dest, epoch[k.dest], g[m], k.rows[m].id)'
    BY <1>9, <1>10 DEF Answered
  <2>2. /\ m \in Ids(c) /\ k.dest \in Folders /\ k.rows[m].id \in Messages
        /\ k.rows[m] \in Rows
    BY <1>1, <1>2, <1>10, <2>1, CallKept DEF Sent, Ids, Rows
  <2>3. /\ \A x \in Messages : uids'[x] # 0 /\ uids'[x] < uidnext'
        /\ \A x, y \in Messages : uids'[x] = uids'[y] => x = y
    BY <1>5 DEF Numbered
  <2>4. CASE g[m] = 0
    <3>1. 0 < uidnext'
      <4>1. m \in Messages /\ uids[m] \in Nat /\ uids[m] < uidnext
        BY <1>2, <2>2, ServerTyped DEF Facts, Numbered
      <4>2. Cardinality(X) \in Nat
        BY <1>3, FS_Subset, FS_CardinalityType
      <4> QED
        BY <1>4, <4>1, <4>2, ServerTyped
    <3>2. epoch'[k.dest] <= epoch'[k.dest]
      BY <1>1, <2>2, ServerTyped
    <3> QED
      BY <2>3, <2>4, <3>1, <3>2 DEF Stands
  <2>5. CASE \E x \in Target(c, m) : x \in X /\ g[m] = n[x]
    <3>1. PICK x \in Target(c, m) : x \in X /\ g[m] = n[x]
      BY <2>5
    <3>2. x = k.rows[m].id
      BY <1>1, <1>10, <2>1, <3>1, SentStands
    <3>3. g[m] = uids'[x] /\ x \in Messages
      BY <1>3, <1>4, <3>1
    <3>4. g[m] < uidnext' /\ \A y \in Messages : uids'[y] = g[m] => y = k.rows[m].id
      BY <2>3, <3>2, <3>3
    <3>5. epoch'[k.dest] <= epoch'[k.dest]
      BY <1>1, <2>2, ServerTyped
    <3> QED
      BY <3>4, <3>5 DEF Stands
  <2> QED
    BY <1>7, <2>1, <2>4, <2>5
<1>13. CallsStand'
  <2>1. ASSUME NEW d \in Calls, d # c, call'[d] # NoCall
        PROVE  Read(call[d])' /\ call'[d].stage # "done"
    <3>1. PICK e : e = call[d]
      OBVIOUS
    <3>2. call'[d] = e /\ e.stage # "done"
      BY <1>1, <1>8, <2>1, <3>1 DEF IInv, Order, Exclusive, Engaged
    <3>3. Read(e)'
      BY <1>1, <1>5, <2>1, <3>1, <3>2, ReadStays, ServerTyped
    <3> QED
      BY <3>2, <3>3 DEF Read
  <2> QED
    BY <1>10, <1>11, <1>12, <2>1 DEF CallsStand, Read, Answered
<1>14. Generations' /\ Listed' /\ CopiesStand' /\ RowsStand'
  <2>1. Alike(row, row')
    BY <1>1, CheckedNames
  <2>2. \A f \in Folders : known[f] <= epoch[f] /\ known[f] \in Nat
    BY ServerTyped DEF Facts, Generations
  <2>3. Generations'
    BY <1>1, <1>5, <2>2, GenerationsStay
  <2> QED
    BY <1>1, <1>5, <2>1, <2>3, RowsStay, CopiesStay, ListedStays
<1> QED
  BY <1>5, <1>13, <1>14 DEF Facts

----------------------------------------------------------------------------
\* Rows that change their number, or are shown for the first time: what they are
\* given stands.

LEMMA RowsBecome ==
    ASSUME UNCHANGED server, NEW q, q = row', NEW kn, kn = known',
           \A m \in Messages \ outlived' : q[m] # None =>
              Stands(q[m].mailbox, kn[q[m].mailbox], q[m].uid, q[m].id)
    PROVE  RowsStand'
  BY DEF RowsStand, Stands, server

LEMMA ShownStands ==
    ASSUME NEW r, NEW c \in SUBSET Places, NEW kn,
           \A d \in c : Stands(d[2], kn[d[2]], d[3], d[1]),
           NEW m \in Messages,
           r[m] # None => Stands(r[m].mailbox, kn[r[m].mailbox], r[m].uid, r[m].id),
           NEW x, x = Shown(r, c)[m], x # None
    PROVE  Stands(x.mailbox, kn[x.mailbox], x.uid, x.id)
<1>1. CASE m \in Gone(r) /\ Other(c, m) # {}
  <2>1. PICK d : d = Twin(c, m)
    OBVIOUS
  <2>2. d \in c /\ d[1] = m /\ x = Fresh(m, d[2], d[3])
    BY <1>1, <2>1, TwinType DEF Shown
  <2>3. x.mailbox = d[2] /\ x.uid = d[3] /\ x.id = m
    BY <2>2 DEF Fresh
  <2> QED
    BY <2>2, <2>3
<1>2. CASE ~(m \in Gone(r) /\ Other(c, m) # {})
  BY <1>2 DEF Shown
<1> QED
  BY <1>1, <1>2

\* What an answer gives a row stands, if the row is the one that was read.
LEMMA ArrivedStands ==
    ASSUME IInv, Facts, NEW c \in Calls, call[c].stage = "done", NEW plus, NEW m \in call[c].claimed,
           m \notin outlived, (plus /\ call[c].hit[m] # 0) => ~Mistaken(c, m),
           NEW x, x = Arrived(c, m, plus)
    PROVE  Stands(x.mailbox, known[x.mailbox], x.uid, x.id)
<1>1. PICK k : k = call[c]
  OBVIOUS
<1>2. /\ k # NoCall /\ Answered(k) /\ k.dest \in Folders /\ m \in Messages
      /\ k.hit[m] \in Nat
  BY <1>1, Calling, CallKept DEF Facts, CallsStand
<1>3. row[m] # None /\ row[m] \in Rows
  <2>1. row[m] # None
    BY DEF IInv, Order, Exclusive, Present
  <2> QED
    BY <1>2, <2>1, ServerTyped
<1>4. CASE plus /\ k.hit[m] # 0
  <2>1. m \notin k.blind /\ row[m].id = k.rows[m].id
    BY <1>1, <1>4 DEF Mistaken
  <2>2. x.mailbox = k.dest /\ x.uid = k.hit[m] /\ x.id = row[m].id
    <3>1. x = [NoGoal(row[m]) EXCEPT !.mailbox = k.dest, !.uid = k.hit[m]]
      BY <1>1, <1>4 DEF Arrived
    <3>2. NoGoal(row[m]) \in Rows /\ NoGoal(row[m]).id = row[m].id
      BY <1>3, NoGoalType DEF Cells
    <3> QED
      BY <3>1, <3>2 DEF Rows
  <2>3. Stands(k.dest, epoch[k.dest], k.hit[m], k.rows[m].id)
    BY <1>1, <1>2, <2>1 DEF Answered
  <2>4. known[k.dest] <= epoch[k.dest]
    BY <1>2 DEF Facts, Generations
  <2> QED
    BY <2>1, <2>2, <2>3, <2>4 DEF Stands
<1>5. CASE ~(plus /\ k.hit[m] # 0)
  <2>1. x.mailbox = row[m].mailbox /\ x.uid = 0
    BY <1>1, <1>3, <1>5 DEF Arrived, Rows
  <2>2. row[m].mailbox \in Folders
    BY <1>3 DEF Rows
  <2>3. known[x.mailbox] <= epoch[x.mailbox]
    BY <2>1, <2>2 DEF Facts, Generations
  <2>4. 0 < uidnext /\ \A y \in Messages : uids[y] # 0
    BY <1>2, ServerTyped DEF Facts, Numbered
  <2> QED
    BY <2>1, <2>3, <2>4 DEF Stands
<1> QED
  BY <1>4, <1>5

LEMMA AnswerFacts ==
    ASSUME IInv, Facts, NEW c \in Calls, Answer(c)
    PROVE  Facts'
<1>1. /\ call[c].stage = "done" /\ call[c] # NoCall /\ UNCHANGED <<server, known, pass>>
  BY Calling DEF Answer
<1> DEFINE S == call[c].claimed
           bound(plus) == {m \in S : plus /\ call[c].hit[m] # 0}
           r(plus) == [m \in Messages |->
                    IF m \in S THEN Arrived(c, m, plus)
                    ELSE IF Present(m) /\ Duplicate(c, bound(plus), row[m].id, row[m].mailbox,
                                                    row[m].uid) THEN None ELSE row[m]]
           d(plus) == {e \in copies : ~Duplicate(c, bound(plus), e[1], e[2], e[3])}
<1>2. PICK plus \in UidPlus :
        /\ copies' = Rest(r(plus), d(plus))
        /\ outlived' = (outlived \cup {m \in bound(plus) : Mistaken(c, m)}) \ Gone(r(plus))
        /\ Ends(c, Shown(r(plus), d(plus)), Forget(items, Gone(r(plus))), Ids(c) \ S, FALSE)
  BY DEF Answer
<1>3. PICK q, e : q = r(plus) /\ e = d(plus)
  OBVIOUS
<1>4. e \in SUBSET Places /\ e \subseteq copies
  BY <1>3, ServerTyped
<1>5. q \in [Messages -> Cells]
  BY <1>1, <1>3, ArrivedType, TypedRows DEF Cells
<1>6. ASSUME NEW m \in Messages \ outlived', q[m] # None
      PROVE  Stands(q[m].mailbox, known[q[m].mailbox], q[m].uid, q[m].id)
  <2>1. m \notin outlived /\ (m \in bound(plus) => ~Mistaken(c, m))
    BY <1>2, <1>3, <1>6 DEF Gone
  <2>2. CASE m \in S
    <3>1. PICK x : x = Arrived(c, m, plus)
      OBVIOUS
    <3>2. q[m] = x
      BY <1>3, <2>2, <3>1
    <3> QED
      BY <1>1, <2>1, <2>2, <3>1, <3>2, ArrivedStands
  <2>3. CASE m \notin S
    BY <1>3, <1>6, <2>1, <2>3 DEF Facts, RowsStand
  <2> QED
    BY <2>2, <2>3
<1> HIDE DEF r, d
<1>7. PICK s, its : s = Shown(q, e) /\ its = Forget(items, Gone(q))
  OBVIOUS
<1>8. /\ Ends(c, s, its, Ids(c) \ S, FALSE) /\ copies' = Rest(q, e)
  BY <1>2, <1>3, <1>7
<1>9. /\ s \in [Messages -> Cells] /\ Rest(q, e) \subseteq e
      /\ its \in [TaskIds -> [Messages -> Items \cup {None}]] /\ Fewer(items, its)
  BY <1>4, <1>5, <1>7, ShownType, ServerTyped DEF Forget, Fewer
<1>10. /\ Alike(s, row') /\ Fewer(its, items')
       /\ \A x \in Calls : \E y \in Calls : GoesOn(call[y], call'[x])
  BY <1>1, <1>8, <1>9, EndsNames
<1>11. Keeps /\ Numbered' /\ epoch' = epoch
  BY <1>1, KeepsAsIs DEF Facts, Numbered, server
<1>12. RowsStand'
  <2>1. PICK p, kn : p = row' /\ kn = known'
    OBVIOUS
  <2>2. ASSUME NEW m \in Messages \ outlived', p[m] # None
        PROVE  Stands(p[m].mailbox, kn[p[m].mailbox], p[m].uid, p[m].id)
    <3>1. PICK x : x = s[m]
      OBVIOUS
    <3>2. x # None /\ p[m].mailbox = x.mailbox /\ p[m].uid = x.uid /\ p[m].id = x.id
      BY <1>10, <2>1, <2>2, <3>1 DEF Alike
    <3>3. \A y \in e : Stands(y[2], kn[y[2]], y[3], y[1])
      BY <1>1, <1>4, <2>1 DEF Facts, CopiesStand
    <3>4. q[m] # None => Stands(q[m].mailbox, kn[q[m].mailbox], q[m].uid, q[m].id)
      BY <1>1, <1>6, <2>1, <2>2
    <3>5. Stands(x.mailbox, kn[x.mailbox], x.uid, x.id)
      BY <1>4, <1>7, <3>1, <3>2, <3>3, <3>4, ShownStands
    <3> QED
      BY <3>2, <3>5
  <2> QED
    BY <1>1, <2>1, <2>2, RowsBecome
<1>13. Generations' /\ Listed' /\ CopiesStand' /\ CallsStand'
  <2>1. Fewer(items, items') /\ copies' \subseteq copies
    BY <1>4, <1>8, <1>9, <1>10 DEF Fewer
  <2>2. Generations'
    BY <1>1, <1>11, <2>1, ServerTyped, GenerationsStay DEF Facts, Generations, Fewer
  <2>3. CallsStand'
    BY <1>10, <1>11, CallsStay, ServerTyped
  <2> QED
    BY <1>1, <1>11, <2>1, <2>2, <2>3, CopiesStay, ListedStays
<1> QED
  BY <1>11, <1>12, <1>13 DEF Facts

----------------------------------------------------------------------------
\* The pass: a folder it opens is read in the provider's generation, and a row moves
\* to a number that was listed, or seen, with its message.

LEMMA ListedBecomes ==
    ASSUME UNCHANGED server, NEW q, q = pass', NEW kn, kn = known',
           q.open \notin q.left,
           \A p \in q.todo : Stands(q.open, kn[q.open], p[2], p[1]),
           \A a \in q.seen : a[2] \notin q.left /\ Stands(a[2], kn[a[2]], a[3], a[1])
    PROVE  Listed'
  BY DEF Listed, Stands, server

\* The pass is between two folders, and has met nothing more.
LEMMA ListedCloses ==
    ASSUME IInv, Facts, UNCHANGED <<server, known>>, pass'.open = None, pass'.todo = {},
           pass'.left \subseteq pass.left, pass'.seen \subseteq pass.seen
    PROVE  Listed'
<1>1. PICK q, kn : q = pass' /\ kn = known'
  OBVIOUS
<1>2. pass.left \subseteq Folders
  BY ServerTyped DEF Passes
<1>3. \A a \in q.seen : a[2] \notin q.left /\ Stands(a[2], kn[a[2]], a[3], a[1])
  BY <1>1 DEF Facts, Listed
<1> QED
  BY <1>1, <1>2, <1>3, ListedBecomes

LEMMA PassFacts ==
    ASSUME IInv, Facts, UNCHANGED <<server, call>>, NEW r \in [Messages -> Cells],
           NEW c \in SUBSET Places, NEW kn, kn = known', Becomes(r, c),
           \A d \in c : Stands(d[2], kn[d[2]], d[3], d[1]),
           \A m \in Messages \ outlived' : r[m] # None =>
              Stands(r[m].mailbox, kn[r[m].mailbox], r[m].uid, r[m].id),
           \A h \in Folders : known[h] <= kn[h] /\ kn[h] <= epoch[h] /\ kn[h] \in Nat,
           Listed'
    PROVE  Facts'
<1>1. /\ Keeps /\ Numbered' /\ epoch' = epoch
      /\ \A h \in Folders : epoch[h] <= epoch'[h] /\ epoch'[h] \in Nat
  BY KeepsAsIs, ServerTyped DEF Facts, Numbered, server
<1>2. RowsStand'
  <2>1. PICK q : q = row'
    OBVIOUS
  <2>2. ASSUME NEW m \in Messages \ outlived', q[m] # None
        PROVE  Stands(q[m].mailbox, kn[q[m].mailbox], q[m].uid, q[m].id)
    <3>1. q[m] = Shown(r, c)[m]
      BY <2>1 DEF Becomes
    <3> QED
      BY <2>2, <3>1, ShownStands
  <2> QED
    BY <2>1, <2>2, RowsBecome
<1>3. CopiesStand'
  <2>1. copies' \subseteq c
    BY ShownType DEF Becomes
  <2> QED
    BY <2>1 DEF CopiesStand, Stands, server
<1>4. Generations'
  <2>1. Fewer(items, items')
    BY DEF Becomes, Forget, Fewer
  <2> QED
    BY <1>1, <2>1, GenerationsStay DEF Fewer
<1>5. CallsStand'
  BY <1>1, SameNames, CallsStay
<1> QED
  BY <1>1, <1>2, <1>3, <1>4, <1>5 DEF Facts

\* A step of a pass that only handles what was listed.
LEMMA ListFacts ==
    ASSUME IInv, Facts, UNCHANGED <<server, cache, items, call>>, Listed'
    PROVE  Facts'
<1>1. /\ Keeps /\ Numbered' /\ epoch' = epoch /\ UNCHANGED <<row, copies, known, outlived>>
  BY KeepsAsIs DEF Facts, Numbered, server, cache
<1>2. Generations'
  BY <1>1, GenerationsStay, ServerTyped DEF Facts, Generations
<1> QED
  BY <1>1, <1>2, SameNames, RowsStay, CopiesStay, CallsStay, ServerTyped DEF Facts

LEMMA StartPassFacts ==
    ASSUME IInv, Facts, StartPass
    PROVE  Facts'
<1>1. /\ UNCHANGED <<server, cache, ledger, call>>
      /\ pass' = [NoPass EXCEPT !.on = TRUE, !.left = Folders]
  BY DEF StartPass
<1>2. Listed'
  BY <1>1 DEF Listed, NoPass
<1> QED
  BY <1>1, <1>2, ListFacts DEF ledger

LEMMA FolderFailsFacts ==
    ASSUME IInv, Facts, NEW f \in Folders, FolderFails(f)
    PROVE  Facts'
<1>1. UNCHANGED <<server, cache, ledger, call>> /\ pass' = [Closed EXCEPT !.left = @ \ {f}]
  BY DEF FolderFails
<1>2. /\ pass'.open = None /\ pass'.todo = {} /\ pass'.left = pass.left \ {f}
      /\ pass'.seen = pass.seen
  BY <1>1, ServerTyped DEF Closed, Passes
<1> QED
  BY <1>1, <1>2, ListedCloses, ListFacts DEF ledger, cache

LEMMA MetStands ==
    ASSUME IInv, Facts, NEW p, Met(p)
    PROVE  /\ Stands(pass.open, known[pass.open], p[2], p[1])
           /\ p[1] \in Messages /\ p[2] \in Nat /\ pass.open \in Folders
           /\ pass.open \notin pass.left
  BY MetType DEF Met, Facts, Listed

LEMMA DeferFacts ==
    ASSUME IInv, Facts, NEW p, NEW m \in Messages, Defer(p, m)
    PROVE  Facts'
<1>1. /\ Met(p) /\ UNCHANGED <<server, cache, ledger, call>>
      /\ pass' = [Handled(p) EXCEPT !.seen = @ \cup {<<p[1], pass.open, p[2]>>}]
  BY DEF Defer
<1>2. PICK q, kn : q = pass' /\ kn = known'
  OBVIOUS
<1>3. /\ q.open = pass.open /\ q.todo = pass.todo \ {p} /\ q.left = pass.left
      /\ q.seen = pass.seen \cup {<<p[1], pass.open, p[2]>>} /\ kn = known
  BY <1>1, <1>2, ServerTyped DEF Handled, Passes, cache
<1>4. \A a \in q.seen : a[2] \notin q.left /\ Stands(a[2], kn[a[2]], a[3], a[1])
  BY <1>1, <1>3, MetStands DEF Facts, Listed
<1>5. Listed'
  BY <1>1, <1>2, <1>3, <1>4, ListedBecomes DEF Facts, Listed
<1> QED
  BY <1>1, <1>5, ListFacts DEF ledger

LEMMA ReconcileFacts ==
    ASSUME IInv, Facts, NEW p, NEW m \in Messages, Reconcile(p, m)
    PROVE  Facts'
<1> DEFINE f == pass.open
           r == Lands(m, p, f)
           c == {d \in copies : ~(d[2] = f /\ d[1] = p[1])}
<1>1. Met(p) /\ Awaits(p, m) /\ UNCHANGED <<server, call, known>>
  BY DEF Reconcile, UnchangedInPass
<1>2. /\ p[1] \in Messages /\ p[2] \in Nat /\ f \in Folders
      /\ Stands(f, known[f], p[2], p[1])
  BY <1>1, MetStands
<1>3. row[m] \in Rows /\ row[m].id = p[1]
  <2>1. m \in Pending(f, p[1])
    BY <1>1 DEF Awaits
  <2> QED
    BY <2>1, ServerTyped DEF Pending, Present
<1>4. CASE Fits(m, p, f)
  <2>1. /\ Becomes(r, c) /\ pass' = Handled(p)
        /\ outlived' = outlived \ (Gone(r) \cup {m})
    BY <1>4 DEF Reconcile
  <2>2. /\ Landed(m, f, p[2]) \in Cells /\ Landed(m, f, p[2]).mailbox = f
        /\ Landed(m, f, p[2]).uid = p[2] /\ Landed(m, f, p[2]).id = p[1]
    BY <1>2, <1>3, LandedType
  <2>3. r \in [Messages -> Cells] /\ c \in SUBSET Places /\ c \subseteq copies
    BY <2>2, TypedRows DEF Lands, Cells
  <2>4. r[m] = Landed(m, f, p[2])
        /\ \A n \in Messages : n # m => r[n] = None \/ r[n] = row[n]
    BY DEF Lands
  <2> HIDE DEF r, c, f
  <2>5. PICK kn : kn = known'
    OBVIOUS
  <2>6. kn = known
    BY <1>1, <2>5
  <2>7. \A n \in Messages \ outlived' : r[n] # None =>
           Stands(r[n].mailbox, kn[r[n].mailbox], r[n].uid, r[n].id)
    <3>1. ASSUME NEW n \in Messages \ outlived', r[n] # None
          PROVE  Stands(r[n].mailbox, kn[r[n].mailbox], r[n].uid, r[n].id)
      <4>1. CASE n = m
        BY <1>2, <2>2, <2>4, <2>6, <4>1
      <4>2. CASE n # m
        <5>1. n \notin outlived /\ r[n] = row[n]
          BY <2>1, <2>4, <3>1, <4>2 DEF Gone
        <5> QED
          BY <2>6, <3>1, <5>1 DEF Facts, RowsStand
      <4> QED
        BY <4>1, <4>2
    <3> QED
      BY <3>1
  <2>8. \A d \in c : Stands(d[2], kn[d[2]], d[3], d[1])
    BY <2>3, <2>6 DEF Facts, CopiesStand
  <2>9. Listed'
    <3>1. /\ pass'.open = pass.open /\ pass'.left = pass.left /\ pass'.todo \subseteq pass.todo
          /\ pass'.seen = pass.seen
      BY <2>1, ServerTyped DEF Handled, Passes
    <3> QED
      BY <1>1, <3>1, KeepsAsIs, ListedStays
  <2>10. \A h \in Folders : known[h] <= kn[h] /\ kn[h] <= epoch[h] /\ kn[h] \in Nat
    BY <2>6, ServerTyped DEF Facts, Generations
  <2> QED
    BY <1>1, <2>1, <2>3, <2>5, <2>7, <2>8, <2>9, <2>10, PassFacts
<1>5. CASE ~Fits(m, p, f)
  <2>1. UNCHANGED <<row, copies, items, outlived>> /\ pass' = Closed
    BY <1>5 DEF Reconcile
  <2>2. /\ pass'.open = None /\ pass'.todo = {} /\ pass'.left = pass.left
        /\ pass'.seen = pass.seen
    BY <2>1, ServerTyped DEF Closed, Passes
  <2> QED
    BY <1>1, <2>1, <2>2, ListedCloses, ListFacts DEF cache
<1> QED
  BY <1>4, <1>5

LEMMA RefreshFacts ==
    ASSUME IInv, Facts, NEW p, Refresh(p)
    PROVE  Facts'
<1> DEFINE f == pass.open
<1>1. /\ Met(p) /\ UNCHANGED <<server, call, known, copies, items>> /\ row' = Refreshed(p)
      /\ outlived' = IF lookup THEN outlived \ Here(f, p[2]) ELSE outlived
      /\ pass' = [Handled(p) EXCEPT !.fresh = IF InCache(f, p[2]) THEN @ ELSE @ \cup {p[2]}]
  BY DEF Refresh, UnchangedInPass
<1>2. /\ p[1] \in Messages /\ p[2] \in Nat /\ f \in Folders
      /\ Stands(f, known[f], p[2], p[1])
  BY <1>1, MetStands
<1>3. /\ Keeps /\ Numbered' /\ epoch' = epoch /\ known' = known
  BY <1>1, KeepsAsIs DEF Facts, Numbered, server
<1>4. RowsStand'
  <2>1. PICK q, kn : q = row' /\ kn = known'
    OBVIOUS
  <2>2. ASSUME NEW m \in Messages \ outlived', q[m] # None
        PROVE  Stands(q[m].mailbox, kn[q[m].mailbox], q[m].uid, q[m].id)
    <3>1. CASE lookup /\ m \in Here(f, p[2])
      <4>1. row[m] \in Rows /\ row[m].mailbox = f /\ row[m].uid = p[2]
        BY <3>1, ServerTyped DEF Here, Present
      <4>2. q[m] = [row[m] EXCEPT !.id = p[1]]
        BY <1>1, <2>1, <3>1 DEF Refreshed
      <4>3. q[m].mailbox = f /\ q[m].uid = p[2] /\ q[m].id = p[1]
        BY <4>1, <4>2 DEF Rows
      <4> QED
        BY <1>2, <1>3, <2>1, <4>3
    <3>2. CASE ~(lookup /\ m \in Here(f, p[2]))
      <4>1. q[m] = row[m] /\ m \notin outlived
        BY <1>1, <2>1, <2>2, <3>2 DEF Refreshed
      <4> QED
        BY <1>3, <2>1, <2>2, <4>1 DEF Facts, RowsStand
    <3> QED
      BY <3>1, <3>2
  <2> QED
    BY <1>1, <2>1, <2>2, RowsBecome
<1>5. Listed'
  <2>1. /\ pass'.open = pass.open /\ pass'.left = pass.left /\ pass'.todo \subseteq pass.todo
        /\ pass'.seen = pass.seen
    BY <1>1, ServerTyped DEF Handled, Passes
  <2> QED
    BY <1>3, <2>1, ListedStays
<1>6. Generations' /\ CopiesStand' /\ CallsStand'
  <2>1. Generations'
    BY <1>1, <1>3, GenerationsStay, ServerTyped DEF Facts, Generations
  <2> QED
    BY <1>1, <1>3, <2>1, SameNames, CopiesStay, CallsStay, ServerTyped
<1> QED
  BY <1>3, <1>4, <1>5, <1>6 DEF Facts

LEMMA CloseFolderFacts ==
    ASSUME IInv, Facts, CloseFolder
    PROVE  Facts'
<1> DEFINE f == pass.open
           r == [m \in Messages |->
                    IF Present(m) /\ row[m].mailbox = f /\ row[m].goal = None
                        /\ Vanished(row[m].uid) THEN None ELSE row[m]]
           c == {d \in copies : ~(d[2] = f /\ Vanished(d[3]))}
                \cup {<<x, f, uids[x]>> : x \in {y \in In(f) : uids[y] \in pass.fresh}}
<1>1. /\ UNCHANGED <<server, call, known>> /\ Becomes(r, c) /\ f # None /\ Same(f)
      /\ outlived' = outlived \ Gone(r) /\ pass' = Closed
  BY DEF CloseFolder, UnchangedInPass
<1>2. f \in Folders
  BY <1>1, ServerTyped DEF Passes
<1>3. r \in [Messages -> Cells] /\ c \in SUBSET Places
  BY <1>2, ServerTyped, TypedRows DEF Cells, In, Places
<1>4. \A d \in c : Stands(d[2], known[d[2]], d[3], d[1])
  <2>1. ASSUME NEW x \in Messages, at[x] = f
        PROVE  Stands(f, known[f], uids[x], x)
    BY <1>1, <1>2, <2>1, ServerTyped DEF Facts, Numbered, Same, Stands
  <2>2. ASSUME NEW d \in c
        PROVE  Stands(d[2], known[d[2]], d[3], d[1])
    <3>1. CASE d \in copies
      BY <3>1 DEF Facts, CopiesStand
    <3>2. CASE \E x \in Messages : at[x] = f /\ d = <<x, f, uids[x]>>
      BY <2>1, <3>2
    <3> QED
      BY <3>1, <3>2 DEF In
  <2> QED
    BY <2>2
<1>5. \A m \in Messages \ outlived' : r[m] # None =>
         Stands(r[m].mailbox, known[r[m].mailbox], r[m].uid, r[m].id)
  BY <1>1 DEF Facts, RowsStand, Gone
<1> HIDE DEF r, c, f
<1>6. Listed'
  <2>1. /\ pass'.open = None /\ pass'.todo = {} /\ pass'.left = pass.left
        /\ pass'.seen = pass.seen
    BY <1>1, ServerTyped DEF Closed, Passes
  <2> QED
    BY <1>1, <2>1, ListedCloses
<1>7. PICK kn : kn = known'
  OBVIOUS
<1>8. kn = known /\ \A h \in Folders : known[h] <= kn[h] /\ kn[h] <= epoch[h] /\ kn[h] \in Nat
  BY <1>1, <1>7, ServerTyped DEF Facts, Generations
<1> QED
  BY <1>1, <1>3, <1>4, <1>5, <1>6, <1>7, <1>8, PassFacts

LEMMA ReplayedStands ==
    ASSUME IInv, Facts, NEW done \in SUBSET Again, NEW n \in Messages,
           NEW x, x = Replayed(done)[n], x # None,
           n \notin outlived \/ \E a \in done : n = a[2]
    PROVE  Stands(x.mailbox, known[x.mailbox], x.uid, x.id)
<1>1. CASE \E a \in done : n = a[2]
  <2>1. PICK a : a = (CHOOSE b \in done : n = b[2])
    OBVIOUS
  <2>2. a \in Again /\ n = a[2]
    BY <1>1, <2>1
  <2>3. /\ a[1] \in pass.seen /\ a[2] \in Pending(a[1][2], a[1][1])
    BY <2>2 DEF Again
  <2>4. /\ a[1][2] \in Folders /\ a[1][3] \in Nat
        /\ Stands(a[1][2], known[a[1][2]], a[1][3], a[1][1])
    BY <2>3, ServerTyped DEF Facts, Listed, Passes, Places
  <2>5. row[n] \in Rows /\ row[n].id = a[1][1]
    BY <2>2, <2>3, ServerTyped DEF Pending, Present
  <2>6. x = Landed(n, a[1][2], a[1][3])
    BY <1>1, <2>1 DEF Replayed
  <2>7. x.mailbox = a[1][2] /\ x.uid = a[1][3] /\ x.id = a[1][1]
    BY <2>4, <2>5, <2>6, LandedType
  <2> QED
    BY <2>4, <2>7
<1>2. CASE ~\E a \in done : n = a[2]
  <2>1. x = row[n]
    BY <1>2 DEF Replayed
  <2> QED
    BY <1>2, <2>1 DEF Facts, RowsStand
<1> QED
  BY <1>1, <1>2

LEMMA EndPassFacts ==
    ASSUME IInv, Facts, EndPass
    PROVE  Facts'
<1>1. PICK done \in SUBSET Again :
          /\ Becomes(Replayed(done),
                     {d \in copies : ~\E a \in done : d[1] = a[1][1] /\ d[2] = a[1][2]})
          /\ outlived' = outlived \ (Gone(Replayed(done)) \cup {a[2] : a \in done})
  BY DEF EndPass
<1>2. UNCHANGED <<server, call, known>> /\ pass' = NoPass
  BY DEF EndPass, UnchangedInPass
<1>3. PICK r, c : /\ r = Replayed(done)
                  /\ c = {d \in copies : ~\E a \in done : d[1] = a[1][1] /\ d[2] = a[1][2]}
  OBVIOUS
<1>4. r \in [Messages -> Cells] /\ c \in SUBSET Places /\ c \subseteq copies /\ Becomes(r, c)
  BY <1>1, <1>3, ReplayedType, ServerTyped
<1>5. PICK kn : kn = known'
  OBVIOUS
<1>6. kn = known /\ \A h \in Folders : known[h] <= kn[h] /\ kn[h] <= epoch[h] /\ kn[h] \in Nat
  BY <1>2, <1>5, ServerTyped DEF Facts, Generations
<1>7. \A d \in c : Stands(d[2], kn[d[2]], d[3], d[1])
  BY <1>4, <1>6 DEF Facts, CopiesStand
<1>8. ASSUME NEW m \in Messages \ outlived', r[m] # None
      PROVE  Stands(r[m].mailbox, kn[r[m].mailbox], r[m].uid, r[m].id)
  <2>1. m \notin outlived \/ \E a \in done : m = a[2]
    BY <1>1, <1>3, <1>8 DEF Gone
  <2> QED
    BY <1>3, <1>6, <1>8, <2>1, ReplayedStands
<1>9. Listed'
  BY <1>2 DEF Listed, NoPass
<1> QED
  BY <1>2, <1>4, <1>5, <1>6, <1>7, <1>8, <1>9, PassFacts

LEMMA OpenFolderFacts ==
    ASSUME IInv, Facts, NEW f \in Folders, OpenFolder(f)
    PROVE  Facts'
<1> DEFINE r == [m \in Messages |-> IF m \in Reset(f) THEN None
                                    ELSE IF m \in Stayed(f) THEN NoGoal(row[m]) ELSE row[m]]
           c == {d \in copies : d[2] = f => Same(f)}
<1>1. /\ UNCHANGED <<server, call>> /\ Becomes(r, c) /\ f \in pass.left
      /\ outlived' = (outlived \cup Kept(f)) \ Gone(r)
      /\ known' = [known EXCEPT ![f] = epoch[f]]
      /\ pass' = [pass EXCEPT !.left = @ \ {f}, !.open = f,
                              !.todo = {<<x, uids[x]>> : x \in In(f)},
                              !.prune = Same(f) /\ ~Touched(f),
                              !.absent = @ \cup Absent(f)]
  BY DEF OpenFolder, UnchangedInPass, Upcoming
<1>2. PICK kn : kn = known'
  OBVIOUS
<1>3. /\ kn[f] = epoch[f] /\ \A h \in Folders \ {f} : kn[h] = known[h]
      /\ \A h \in Folders : known[h] <= kn[h] /\ kn[h] <= epoch[h] /\ kn[h] \in Nat
  BY <1>1, <1>2, ServerTyped DEF Facts, Generations
<1>4. \A m \in Stayed(f) : row[m] # None /\ row[m] \in Rows
  BY ServerTyped DEF Stayed, Intents, Present
<1>5. r \in [Messages -> Cells] /\ c \in SUBSET Places
  BY <1>4, TypedRows, NoGoalType DEF Cells
<1>6. ASSUME NEW d \in c
      PROVE  Stands(d[2], kn[d[2]], d[3], d[1])
  <2>1. d[2] \in Folders /\ Stands(d[2], known[d[2]], d[3], d[1])
    BY ServerTyped DEF Facts, CopiesStand, Places
  <2>2. kn[d[2]] = known[d[2]]
    BY <1>3, <2>1 DEF Same
  <2> QED
    BY <2>1, <2>2
<1>7. ASSUME NEW m \in Messages \ outlived', r[m] # None
      PROVE  Stands(r[m].mailbox, kn[r[m].mailbox], r[m].uid, r[m].id)
  <2>1. m \notin outlived /\ m \notin Kept(f) /\ m \notin Reset(f)
    BY <1>1, <1>7 DEF Gone
  <2>2. /\ row[m] # None /\ r[m].mailbox = row[m].mailbox /\ r[m].uid = row[m].uid
        /\ r[m].id = row[m].id
    BY <1>4, <1>7, <2>1, NoGoalNames
  <2>3. row[m].mailbox \in Folders
    BY <2>2, ServerTyped DEF Rows
  <2>4. kn[row[m].mailbox] = known[row[m].mailbox]
    BY <1>3, <2>1, <2>2, <2>3 DEF Kept, Present, Same
  <2>5. Stands(row[m].mailbox, known[row[m].mailbox], row[m].uid, row[m].id)
    BY <2>1, <2>2 DEF Facts, RowsStand
  <2> QED
    BY <2>2, <2>4, <2>5
<1> HIDE DEF r, c
<1>8. Listed'
  <2>1. PICK q : q = pass'
    OBVIOUS
  <2>2. /\ q.open = f /\ q.left = pass.left \ {f} /\ q.seen = pass.seen
        /\ q.todo = {<<x, uids[x]>> : x \in In(f)}
    BY <1>1, <2>1, ServerTyped DEF Passes
  <2>3. \A p \in q.todo : Stands(f, kn[f], p[2], p[1])
    <3>1. ASSUME NEW x \in Messages
          PROVE  Stands(f, kn[f], uids[x], x)
      BY <1>3, ServerTyped DEF Facts, Numbered, Stands
    <3> QED
      BY <2>2, <3>1 DEF In
  <2>4. \A a \in q.seen : a[2] \notin q.left /\ Stands(a[2], kn[a[2]], a[3], a[1])
    <3>1. ASSUME NEW a \in pass.seen
          PROVE  a[2] \notin pass.left \ {f} /\ Stands(a[2], kn[a[2]], a[3], a[1])
      <4>1. /\ a[2] \in Folders /\ a[2] \notin pass.left
            /\ Stands(a[2], known[a[2]], a[3], a[1])
        BY ServerTyped DEF Facts, Listed, Passes, Places
      <4>2. kn[a[2]] = known[a[2]]
        BY <1>1, <1>3, <4>1
      <4> QED
        BY <4>1, <4>2
    <3> QED
      BY <2>2, <3>1
  <2>5. UNCHANGED server /\ q.open \notin q.left
    BY <1>1, <2>2
  <2>6. \A p \in q.todo : Stands(q.open, kn[q.open], p[2], p[1])
    BY <2>2, <2>3
  <2> QED
    BY <1>2, <2>1, <2>4, <2>5, <2>6, ListedBecomes
<1> QED
  BY <1>1, <1>2, <1>3, <1>5, <1>6, <1>7, <1>8, PassFacts

----------------------------------------------------------------------------
LEMMA InitFacts == Init => Facts
<1> SUFFICES ASSUME Init
             PROVE  Facts
  OBVIOUS
<1>1. /\ uids = FirstUid /\ uidnext = Cardinality(Messages) + 1
      /\ known = epoch /\ \A h \in Folders : epoch[h] = 0
      /\ copies = {} /\ pass = NoPass /\ \A c \in Calls : call[c] = NoCall
      /\ \A t \in TaskIds, m \in Messages : items[t][m] = None
      /\ \A m \in Messages : row[m] = [mailbox |-> Start, uid |-> uids[m], goal |-> None,
                                       state |-> "free", id |-> m]
  BY DEF Init
<1>2. Cardinality(Messages) \in Nat
  BY FS_CardinalityType
<1>3. Numbered
  <2>1. \A x \in Messages : uids[x] \in 1..Cardinality(Messages)
    BY <1>1
  <2>2. \A x, y \in Messages : uids[x] = uids[y] => x = y
    BY <1>1 DEF IsInjective
  <2>3. \A x \in Messages : uids[x] # 0 /\ uids[x] < uidnext
    BY <1>1, <1>2, <2>1
  <2> QED
    BY <2>2, <2>3 DEF Numbered
<1>4. Generations
  BY <1>1 DEF Generations
<1>5. RowsStand
  <2>1. ASSUME NEW m \in Messages
        PROVE  Stands(Start, known[Start], uids[m], m)
    BY <1>1, <1>3 DEF Stands, Numbered
  <2>2. ASSUME NEW m \in Messages
        PROVE  row[m].mailbox = Start /\ row[m].uid = uids[m] /\ row[m].id = m
    <3>1. PICK r : r = row[m]
      OBVIOUS
    <3>2. r = [mailbox |-> Start, uid |-> uids[m], goal |-> None, state |-> "free", id |-> m]
      BY <1>1, <3>1
    <3> QED
      BY <3>1, <3>2
  <2> QED
    BY <2>1, <2>2 DEF RowsStand
<1>6. CopiesStand /\ Listed /\ CallsStand
  BY <1>1 DEF CopiesStand, Listed, NoPass, CallsStand
<1> QED
  BY <1>3, <1>4, <1>5, <1>6 DEF Facts

LEMMA EngineFacts ==
    ASSUME IInv, Facts, NEW c \in Calls, Engine(c)
    PROVE  Facts'
  BY EnterFacts, ClaimFacts, WaitTimesOutFacts, NotSentFacts, CommandFacts,
     CommandRefusedFacts, AnswerLostFacts, AnswerFacts DEF Engine

LEMMA AttemptFacts ==
    ASSUME IInv, Facts, Attempt
    PROVE  Facts'
<1>1. CASE \E t \in TaskIds : Begin(t) \/ Complete(t) \/ AttemptFails(t)
  BY <1>1, ScheduleFacts
<1>2. CASE \E t \in TaskIds : \E S \in SUBSET Chosen : NextChunk(t, S)
  BY <1>2, NextChunkFacts
<1>3. CASE \E t \in TaskIds : \E m \in Chosen : NextEntry(t, m)
  BY <1>3, NextEntryFacts
<1>4. CASE Engine("live")
  BY <1>4, EngineFacts DEF Calls
<1> QED
  BY <1>1, <1>2, <1>3, <1>4 DEF Attempt

LEMMA PassActionFacts ==
    ASSUME IInv, Facts, Pass
    PROVE  Facts'
<1>1. CASE StartPass \/ CloseFolder \/ EndPass
  BY <1>1, StartPassFacts, CloseFolderFacts, EndPassFacts
<1>2. CASE \E f \in Folders : OpenFolder(f) \/ FolderFails(f)
  BY <1>2, OpenFolderFacts, FolderFailsFacts
<1>3. CASE \E p \in pass.todo : Refresh(p) \/ \E m \in Messages : Defer(p, m) \/ Reconcile(p, m)
  BY <1>3, RefreshFacts, DeferFacts, ReconcileFacts
<1> QED
  BY <1>1, <1>2, <1>3 DEF Pass

LEMMA NextFacts == IInv /\ Facts /\ [Next]_vars => Facts'
<1> SUFFICES ASSUME IInv, Facts, [Next]_vars
             PROVE  Facts'
  OBVIOUS
<1>1. CASE UNCHANGED vars
  <2>1. UNCHANGED <<server, cache, items, call, pass>>
    BY <1>1 DEF vars, ledger
  <2> QED
    BY <2>1, SameNames, CacheStays DEF cache
<1>2. CASE \/ \E m \in Chosen : OtherMoves(m)
           \/ \E f \in Folders : Rebuild(f)
  BY <1>2, ServerFacts
<1>3. CASE \E S \in SUBSET Chosen, f \in Folders : AcceptMove(S, f)
  BY <1>3, AcceptMoveFacts
<1>4. CASE \E t \in TaskIds : AcceptUndo(t) \/ AttemptTimesOut(t)
  BY <1>4, AcceptUndoFacts, ScheduleFacts
<1>5. CASE Work
  <2>1. CASE Attempt
    BY <2>1, AttemptFacts
  <2>2. CASE Engine("old")
    BY <2>2, EngineFacts DEF Calls
  <2>3. CASE Hook \/ Boot
    BY <2>3, HookFacts, BootFacts
  <2> QED
    BY <1>5, <2>1, <2>2, <2>3 DEF Work
<1>6. CASE Pass
  BY <1>6, PassActionFacts
<1>7. CASE Crash
  BY <1>7, CrashFacts
<1> QED
  BY <1>1, <1>2, <1>3, <1>4, <1>5, <1>6, <1>7 DEF Next

\* Through moves whose answer is lost, undos, rebuilt mailboxes and passes that
\* interleave with them, in the generation the cache knows the number of a row names
\* the message of the row's opaque id, or none (NumberNamesMessage in MoveTasks says
\* for which rows): the UID discipline of sync-moves.ts and sync.ts.
THEOREM NumbersNameMessages == SafetySpec => []NumberNamesMessage
<1>1. Facts => NumberNamesMessage
  BY DEF Facts, RowsStand, Stands, NumberNamesMessage, Named, Present
<1> QED
  BY <1>1, InitFacts, NextFacts, Invariant, PTL DEF SafetySpec

----------------------------------------------------------------------------
\* Only a command moves messages beside a call.
LEMMA OnlyCommandsMove ==
    ASSUME [Next]_vars
    PROVE  at' = at \/ call' = call \/ \E c \in Calls : Command(c)
<1>1. CASE UNCHANGED vars
  BY <1>1 DEF vars
<1>2. CASE \/ \E m \in Chosen : OtherMoves(m)
           \/ \E f \in Folders : Rebuild(f)
           \/ \E S \in SUBSET Chosen, f \in Folders : AcceptMove(S, f)
           \/ \E t \in TaskIds : AcceptUndo(t)
  BY <1>2 DEF OtherMoves, Rebuild, AcceptMove, AcceptUndo
<1>3. CASE \/ \E t \in TaskIds : Begin(t) \/ Complete(t) \/ AttemptFails(t) \/ AttemptTimesOut(t)
           \/ Hook \/ Boot \/ Crash
  BY <1>3 DEF Begin, Complete, AttemptFails, AttemptTimesOut, Hook, Boot, Crash, server
<1>4. CASE \/ \E t \in TaskIds, S \in SUBSET Chosen : NextChunk(t, S)
           \/ \E t \in TaskIds, m \in Chosen : NextEntry(t, m)
  BY <1>4 DEF NextChunk, NextEntry, server
<1>5. ASSUME NEW c \in Calls, Engine(c)
      PROVE  at' = at \/ Command(c)
  BY <1>5 DEF Engine, Enter, Claim, WaitTimesOut, NotSent, CommandRefused, AnswerLost, Answer,
     beside, server
<1>6. CASE Pass
  <2>1. CASE StartPass \/ CloseFolder \/ EndPass
    BY <2>1 DEF StartPass, CloseFolder, EndPass, UnchangedInPass, server
  <2>2. CASE \E f \in Folders : OpenFolder(f) \/ FolderFails(f)
    BY <2>2 DEF OpenFolder, FolderFails, UnchangedInPass, server
  <2>3. CASE \E p \in pass.todo : Refresh(p) \/ \E m \in Messages : Defer(p, m) \/ Reconcile(p, m)
    BY <2>3 DEF Refresh, Defer, Reconcile, UnchangedInPass, server
  <2> QED
    BY <1>6, <2>1, <2>2, <2>3 DEF Pass
<1> QED
  BY <1>1, <1>2, <1>3, <1>4, <1>5, <1>6 DEF Next, Work, Attempt, Calls

\* What a MOVE moves is what a row of its call has the number of, and that row was sent.
LEMMA CommandsMove ==
    ASSUME IInv, [Next]_vars, NEW c \in Calls,
           call[c].stage = "claimed", call'[c].stage = "done",
           NEW x \in Messages, at'[x] # at[x]
    PROVE  /\ call[c] # NoCall
           /\ \E m \in Sent(c) : m \in Ids(c) /\ x \in Target(c, m)
<1>1. PICK d \in Calls : Command(d)
  BY OnlyCommandsMove
<1>2. d = c
  <2>1. call[d].stage = "claimed"
    BY <1>1 DEF Command
  <2> QED
    BY <2>1 DEF IInv, Order, Exclusive, Engaged
<1>3. PICK m \in Sent(c) : x \in Target(c, m)
  BY <1>1, <1>2 DEF Command
<1>4. call[c] # NoCall
  BY Calling
<1> QED
  BY <1>3, <1>4, CallType DEF Sent

\* What a MOVE moves, at the server, is what a row it was built from stood for when
\* the call read it: the check against the folder's generation (sync-moves.ts and
\* partitionRefusedByGeneration) leaves no other message under the row's number.  The
\* exception is a row that had outlived its folder.
MovesWhatWasRead ==
    [][\A c \in Calls : call[c].stage = "claimed" /\ call'[c].stage = "done" =>
        \A x \in Messages : at'[x] # at[x] =>
            \E m \in Ids(c) : /\ uids[x] = call[c].rows[m].uid
                              /\ m \in call[c].blind \/ x = call[c].rows[m].id]_vars

\* The command moves what the rows it was read from stand for, and nothing else
\* (moveMessagesInOneCommand, moveMessageOnce).
THEOREM CommandsMoveWhatWasRead == SafetySpec => MovesWhatWasRead
<1>1. ASSUME IInv, Facts, [Next]_vars, NEW c \in Calls,
             call[c].stage = "claimed", call'[c].stage = "done",
             NEW x \in Messages, at'[x] # at[x]
      PROVE  \E m \in Ids(c) : /\ uids[x] = call[c].rows[m].uid
                               /\ m \in call[c].blind \/ x = call[c].rows[m].id
  BY <1>1, CommandsMove, SentStands DEF Target, Named
<1>2. IInv /\ Facts /\ [Next]_vars =>
        [\A c \in Calls : call[c].stage = "claimed" /\ call'[c].stage = "done" =>
            \A x \in Messages : at'[x] # at[x] =>
                \E m \in Ids(c) : /\ uids[x] = call[c].rows[m].uid
                                  /\ m \in call[c].blind \/ x = call[c].rows[m].id]_vars
  BY <1>1
<1> QED
  BY <1>2, InitFacts, NextFacts, Invariant, PTL DEF SafetySpec, MovesWhatWasRead

\* The command moves what was accepted (MovesWhatWasAccepted in MoveTasks says for
\* which rows): the generation frozen at acceptance, of a move or an undo, is the one
\* the mailbox must still have (moveAcceptanceEvidence, undoItemSpecs).
THEOREM CommandsMoveWhatWasAccepted == SafetySpec => MovesWhatWasAccepted
<1>1. ASSUME IInv, Facts, [Next]_vars, NEW c \in Calls,
             call[c].stage = "claimed", call'[c].stage = "done",
             NEW x \in Messages, at'[x] # at[x]
      PROVE  \E m \in Ids(c) : /\ uids[x] = call[c].rows[m].uid
                               /\ call[c].due[m].named \in {x, None} \/ Carried(c, m)
  BY <1>1, CommandsMove, SentAccepted DEF Target, Named
<1>2. IInv /\ Facts /\ [Next]_vars =>
        [\A c \in Calls : call[c].stage = "claimed" /\ call'[c].stage = "done" =>
            \A x \in Messages : at'[x] # at[x] =>
                \E m \in Ids(c) :
                    /\ uids[x] = call[c].rows[m].uid
                    /\ call[c].due[m].named \in {x, None} \/ Carried(c, m)]_vars
  BY <1>1
<1> QED
  BY <1>2, InitFacts, NextFacts, Invariant, PTL DEF SafetySpec, MovesWhatWasAccepted
=============================================================================
