-------------------------- MODULE MoveTasks_proofs --------------------------
(***************************************************************************)
(* Proofs about MoveTasks: its types, and that no goal is orphaned.        *)
(*                                                                         *)
(* NoOrphanGoal alone is not inductive: it does not say that the task a    *)
(* goal belongs to will still look at the row.  IInv adds                  *)
(*   - Obliged: for every goal that nothing has claimed, a move task has   *)
(*     the row among its items, unlatched, and is yet to take it up: it    *)
(*     waits, or its attempt has the row in hand, or it failed and the     *)
(*     obligations are still to run;                                       *)
(*   - Order: one call at a time is in the engine, what it claimed stays   *)
(*     claimed and no pass runs beside it; the running task is the oldest; *)
(*     nothing of a process outlives it;                                   *)
(*   - Typed: what the engine's calls and a pass carry, and the bounds.    *)
(* One lemma per action, and NextInvariant puts them together.             *)
(***************************************************************************)
EXTENDS MoveTasks, FiniteSetTheorems, TLAPS

USE MoveAssumption, NoneAssumption DEF MoveAssumption, NoneAssumption

Cells   == {r \in Rows : r.goal = None => r.state = "free"} \cup {None}
RowSets == UNION {[S -> Rows] : S \in SUBSET Messages}
Hits    == UNION {[S -> Nat] : S \in SUBSET Messages}
Dues    == UNION {[S -> Items] : S \in SUBSET Messages}
Entries == [stage : Engaged \cup {"dial"}, task : TaskIds, rows : RowSets, from : Folders,
            known : Nat, due : Dues, dest : Folders, claimed : SUBSET Messages,
            open : BOOLEAN, hit : Hits, blind : SUBSET Messages]
Places  == Messages \X Folders \X Nat
Passes  == {q \in [on : BOOLEAN, left : SUBSET Folders, open : Folders \cup {None},
                   todo : SUBSET (Messages \X Nat), fresh : SUBSET Nat, prune : BOOLEAN,
                   absent : SUBSET Messages, seen : SUBSET Places] :
               q.todo # {} => q.open \in Folders}

\* A call of the engine is about an accepted task, and what it sends goes where the
\* task's items say.
CallOK(c) ==
    /\ call[c] \in Entries
    /\ call[c].claimed \subseteq Ids(c) /\ DOMAIN call[c].hit = Ids(c)
    /\ task[call[c].task].status # "absent"
    /\ Kind(call[c].task) = "undo" => \E m \in Messages : Ids(c) = {m}
    /\ Kind(call[c].task) = "move" =>
          \A m \in Ids(c) : items[call[c].task][m] # None
                               => items[call[c].task][m].to = call[c].dest
Handling == pass \in Passes /\ \A c \in Calls : call[c] = NoCall \/ CallOK(c)

\* A restart gives the head of the chain at most one attempt more.
Busy == up /\ \E t \in TaskIds : task[t].status = "running"
Bounded ==
    /\ mishaps \in 0..MaxMishaps
    /\ \A f \in Folders : epoch[f] <= mishaps
    /\ tries <= MaxAttempts + mishaps
    /\ Busy \/ tries < MaxAttempts + mishaps

\* Calls, passes and pending obligations belong to a process.
Down == ~up => hook = 0 /\ ~pass.on /\ \A c \in Calls : call[c] = NoCall

\* One call at a time is in the engine, and what it has claimed is claimed until
\* it ends: no pass runs beside it.
Exclusive == \A c \in Calls :
    /\ call[c].stage \in Engaged => \A d \in Calls : call[d].stage \in Engaged => d = c
    /\ call[c].stage \in {"claimed", "done"} =>
          /\ ~pass.on
          /\ \A m \in call[c].claimed :
                Present(m) /\ row[m].state = "intent" /\ row[m].goal = call[c].dest

\* The row of an item goes with the item.
Backed == \A t \in TaskIds, m \in Messages : items[t][m] # None => Present(m)

\* Commits fill the tasks from 1, a running task is the oldest there is, and the
\* obligations are those of a task that failed.
Chain ==
    /\ \A t \in TaskIds : t > count => task[t].status = "absent" /\ latched[t] = {}
    /\ \A t \in TaskIds : task[t].status = "running" =>
          \A s \in TaskIds : task[s].status \in Live => t <= s
    /\ hook # 0 => hook \in TaskIds /\ task[hook].status = "failed"

OneDestination == \A t \in TaskIds : Kind(t) = "move" =>
    \A m, n \in Messages : items[t][m] # None /\ items[t][n] # None
                              => items[t][m].to = items[t][n].to

\* A goal nothing has claimed is to go elsewhere.
FreeGoal(m) == Present(m) /\ row[m].goal # None /\ row[m].state = "free"
Elsewhere   == \A m \in Messages : FreeGoal(m) => row[m].goal # row[m].mailbox

\* It is the business of a move task that has not latched it, and that will still
\* look at it: the attempt has it in hand, or another attempt, or the obligations.
Promised(t, m) ==
    /\ Kind(t) = "move" /\ m \notin latched[t]
    /\ items[t][m] # None /\ items[t][m].to = row[m].goal
InHand(t, m) ==
    \/ ~up \/ wait \/ m \in left
    \/ call["live"] # NoCall /\ call["live"].task = t /\ m \in Ids("live")
Standing(t, m) ==
    \/ task[t].status = "pending"
    \/ task[t].status = "running" /\ InHand(t, m)
    \/ task[t].status = "failed" /\ (hook = t \/ ~up)
Obliged == \A m \in Messages : FreeGoal(m) => \E t \in TaskIds : Promised(t, m) /\ Standing(t, m)

Typed == TypeOK /\ Handling /\ Bounded
Order == Down /\ Exclusive /\ Backed /\ Chain /\ OneDestination /\ Elsewhere
IInv  == Typed /\ Order /\ Obliged

----------------------------------------------------------------------------
LEMMA RowsType == row \in [Messages -> Cells] <=>
    /\ row \in [Messages -> Rows \cup {None}]
    /\ \A m \in Messages : row[m] # None /\ row[m].goal = None => row[m].state = "free"
  BY DEF Cells

LEMMA NoGoalType ==
    ASSUME NEW r \in Rows
    PROVE  /\ NoGoal(r) \in Cells /\ NoGoal(r) # None
           /\ NoGoal(r).goal = None /\ NoGoal(r).state = "free"
           /\ NoGoal(r).mailbox = r.mailbox /\ NoGoal(r).uid = r.uid /\ NoGoal(r).id = r.id
  BY DEF NoGoal, Rows, Cells

LEMMA FreshType ==
    ASSUME NEW x \in Messages, NEW f \in Folders, NEW u \in Nat
    PROVE  /\ Fresh(x, f, u) \in Cells /\ Fresh(x, f, u) # None
           /\ Fresh(x, f, u).goal = None /\ Fresh(x, f, u).mailbox = f
           /\ Fresh(x, f, u).uid = u /\ Fresh(x, f, u).id = x
  BY DEF Fresh, Rows, Cells

LEMMA SomeRows ==
    ASSUME NEW S \in SUBSET Messages, NEW r \in [S -> Rows]
    PROVE  r \in RowSets
  BY DEF RowSets

LEMMA RowSetsType ==
    ASSUME NEW r \in RowSets
    PROVE  DOMAIN r \in SUBSET Messages /\ r \in [DOMAIN r -> Rows]
  BY DEF RowSets

LEMMA HitsType ==
    ASSUME NEW S \in SUBSET Messages, NEW h \in [S -> Nat]
    PROVE  h \in Hits
  BY DEF Hits

LEMMA InitInvariant == Init => IInv
<1> SUFFICES ASSUME Init PROVE IInv
  OBVIOUS
<1>1. row \in [Messages -> Rows \cup {None}]
  BY DEF Init, Rows
<1>2. TypeOK
  <2>1. uids \in [Messages -> Nat] /\ uidnext \in Nat
    BY FS_CardinalityType DEF Init
  <2>2. at \in [Messages -> Folders \cup {None}] /\ items \in [TaskIds -> [Messages -> Items \cup {None}]]
    BY DEF Init
  <2>3. epoch \in [Folders -> 0..MaxMishaps] /\ known \in [Folders -> 0..MaxMishaps]
    BY DEF Init
  <2>4. task \in [TaskIds -> [kind : {"move", "undo"}, parent : 0..MaxTasks,
                               status : {"absent"} \cup Live \cup Ended]]
    BY DEF Init
  <2>5. /\ copies \subseteq Messages \X Folders \X Nat /\ outlived \subseteq Messages
        /\ latched \in [TaskIds -> SUBSET Messages] /\ undone \subseteq TaskIds
        /\ left \subseteq Messages /\ wait \in BOOLEAN /\ up \in BOOLEAN
        /\ DOMAIN call = Calls
    BY DEF Init
  <2>6. /\ count \in 0..MaxTasks /\ tries \in 0..(MaxAttempts + MaxMishaps)
        /\ hook \in 0..MaxTasks
    BY DEF Init
  <2>7. \A m \in Messages : row[m] # None /\ row[m].goal = None => row[m].state = "free"
    BY DEF Init
  <2>8. lookup \in BOOLEAN
    BY DEF Init
  <2> QED
    BY <1>1, <2>1, <2>2, <2>3, <2>4, <2>5, <2>6, <2>7, <2>8 DEF TypeOK
<1>3. Handling
  BY DEF Init, Handling, Passes, NoPass, Calls, NoCall
<1>4. Bounded
  BY DEF Init, Bounded
<1>5. Down /\ Exclusive
  BY DEF Init, Down, Exclusive, NoCall, Engaged, NoPass
<1>6. Backed /\ Chain /\ OneDestination
  BY DEF Init, Backed, Chain, OneDestination, Live, Present, Kind
<1>7. Elsewhere /\ Obliged
  BY DEF Init, Elsewhere, Obliged, FreeGoal
<1> QED
  BY <1>2, <1>3, <1>4, <1>5, <1>6, <1>7 DEF IInv, Typed, Order
----------------------------------------------------------------------------
\* Steps of the provider, and those of a pass that only look.

LEMMA Quiet ==
    ASSUME IInv,
           UNCHANGED <<lookup, cache, ledger, attempt, call, hook, up>>,
           at' \in [Messages -> Folders \cup {None}],
           uids' \in [Messages -> Nat], uidnext' \in Nat,
           epoch' \in [Folders -> Nat], \A f \in Folders : epoch'[f] <= mishaps',
           mishaps' \in mishaps..MaxMishaps,
           pass' \in Passes,
           pass'.on => up /\ (pass.on \/ ~Moving)
    PROVE  IInv'
<1> USE DEF IInv, Typed, Order, cache, ledger, attempt
<1>1. epoch' \in [Folders -> 0..MaxMishaps]
  BY DEF TypeOK
<1>2. TypeOK'
  BY <1>1 DEF TypeOK
<1>3. Handling'
  BY DEF Handling, CallOK, Ids, Kind
<1>4. Bounded'
  BY DEF Bounded, Busy, TypeOK
<1>5. Down' /\ Backed' /\ Chain' /\ OneDestination' /\ Elsewhere'
  BY DEF Down, Backed, Chain, OneDestination, Elsewhere, FreeGoal, Present, Kind
<1>6. Exclusive'
  <2>1. \A c \in Calls : call[c].stage \in {"claimed", "done"} => ~pass'.on
    BY DEF Exclusive, Moving, Engaged
  <2> QED
    BY <2>1 DEF Exclusive, Present
<1>7. Obliged'
  BY DEF Obliged, FreeGoal, Promised, Standing, InHand, Present, Kind, Ids
<1> QED
  BY <1>2, <1>3, <1>4, <1>5, <1>6, <1>7

\* Nothing is claimed while a pass runs.
LEMMA PassExcludes ==
    ASSUME IInv, pass.on, NEW c \in Calls
    PROVE  call[c].stage \notin {"claimed", "done"}
  BY DEF IInv, Order, Exclusive

LEMMA MishapStep ==
    ASSUME IInv, NEW k, Mishap(k)
    PROVE  mishaps' = mishaps + 1 /\ mishaps' \in 0..MaxMishaps
  BY DEF IInv, Typed, Bounded, Mishap

LEMMA OtherMovesStep ==
    ASSUME IInv, NEW m \in Messages, OtherMoves(m)
    PROVE  IInv'
<1>1. mishaps' = mishaps + 1 /\ mishaps' \in 0..MaxMishaps /\ mishaps \in Nat
  BY MishapStep DEF OtherMoves, IInv, Typed, Bounded
<1>2. at' \in [Messages -> Folders \cup {None}]
  BY DEF OtherMoves, IInv, Typed, TypeOK
<1>3. uids' \in [Messages -> Nat] /\ uidnext' \in Nat
  BY DEF OtherMoves, IInv, Typed, TypeOK
<1>4. epoch' \in [Folders -> Nat] /\ \A f \in Folders : epoch'[f] <= mishaps'
  BY <1>1 DEF OtherMoves, IInv, Typed, TypeOK, Bounded
<1>5. pass' \in Passes /\ (pass'.on => up /\ pass.on)
  BY DEF OtherMoves, IInv, Typed, Handling, Order, Down
<1> QED
  BY <1>1, <1>2, <1>3, <1>4, <1>5, Quiet DEF OtherMoves

LEMMA RebuildStep ==
    ASSUME IInv, NEW f \in Folders, Rebuild(f)
    PROVE  IInv'
<1>1. mishaps' = mishaps + 1 /\ mishaps' \in 0..MaxMishaps /\ mishaps \in Nat
  BY MishapStep DEF Rebuild, IInv, Typed, Bounded
<1>2. uids' \in [Messages -> Nat]
  <2>1. PICK p \in [In(f) -> In(f)] :
            uids' = [m \in Messages |-> IF m \in In(f) THEN uids[p[m]] ELSE uids[m]]
    BY DEF Rebuild
  <2> QED
    BY <2>1 DEF In, IInv, Typed, TypeOK
<1>3. epoch' \in [Folders -> Nat] /\ \A g \in Folders : epoch'[g] <= mishaps'
  BY <1>1 DEF Rebuild, IInv, Typed, TypeOK, Bounded
<1>4. pass' \in Passes /\ (pass'.on => up /\ pass.on)
  BY DEF Rebuild, IInv, Typed, Handling, Order, Down
<1>5. at' \in [Messages -> Folders \cup {None}] /\ uidnext' \in Nat
  BY DEF Rebuild, IInv, Typed, TypeOK
<1> QED
  BY <1>1, <1>2, <1>3, <1>4, <1>5, Quiet DEF Rebuild

LEMMA ServerStays ==
    ASSUME IInv, UNCHANGED server, mishaps' \in mishaps..MaxMishaps
    PROVE  /\ at' \in [Messages -> Folders \cup {None}]
           /\ uids' \in [Messages -> Nat] /\ uidnext' \in Nat
           /\ epoch' \in [Folders -> Nat] /\ \A f \in Folders : epoch'[f] <= mishaps'
           /\ lookup' = lookup
  BY DEF IInv, Typed, TypeOK, Bounded, server

LEMMA StartPassStep ==
    ASSUME IInv, StartPass
    PROVE  IInv'
<1>1. mishaps' \in mishaps..MaxMishaps
  BY DEF StartPass, IInv, Typed, Bounded
<1>2. pass' \in Passes /\ up /\ ~Moving
  BY DEF StartPass, Passes, NoPass, Running
<1> QED
  BY <1>1, <1>2, ServerStays, Quiet DEF StartPass

LEMMA MetType ==
    ASSUME IInv, NEW p, Met(p)
    PROVE  /\ p \in Messages \X Nat /\ p[1] \in Messages /\ p[2] \in Nat
           /\ Handled(p) \in Passes /\ Handled(p).on /\ pass \in Passes
           /\ Handled(p).open = pass.open /\ pass.open \in Folders /\ up /\ hook = 0 /\ pass.on
  BY DEF IInv, Typed, Handling, Passes, Met, Handled, PassOn, Running

LEMMA DeferStep ==
    ASSUME IInv, NEW p, NEW m \in Messages, Defer(p, m)
    PROVE  IInv'
<1>1. mishaps' \in mishaps..MaxMishaps
  BY DEF Defer, IInv, Typed, Bounded
<1>2. Handled(p) \in Passes /\ <<p[1], pass.open, p[2]>> \in Places /\ up /\ pass.on
  BY MetType DEF Defer, Places
<1>3. pass' \in Passes
  BY <1>2 DEF Defer, Passes
<1> QED
  BY <1>1, <1>2, <1>3, ServerStays, Quiet DEF Defer

LEMMA FolderFailsStep ==
    ASSUME IInv, NEW f \in Folders, FolderFails(f)
    PROVE  IInv'
<1>1. mishaps' \in mishaps..MaxMishaps
  <2>1. CASE UNCHANGED mishaps
    BY <2>1 DEF IInv, Typed, Bounded
  <2>2. CASE Mishap("fault")
    BY <2>2, MishapStep DEF IInv, Typed, Bounded
  <2> QED
    BY <2>1, <2>2 DEF FolderFails
<1>2. pass' \in Passes /\ up /\ pass.on
  BY DEF FolderFails, Closed, PassOn, Running, IInv, Typed, Handling, Passes
<1> QED
  BY <1>1, <1>2, ServerStays, Quiet DEF FolderFails
----------------------------------------------------------------------------
\* Steps of a pass that change the cache.

LEMMA TwinType ==
    ASSUME NEW c \in SUBSET Places, NEW m \in Messages, Other(c, m) # {}
    PROVE  /\ Twin(c, m) \in c /\ Twin(c, m)[1] = m
           /\ Twin(c, m)[2] \in Folders /\ Twin(c, m)[3] \in Nat
<1>1. Twin(c, m) \in Other(c, m)
  BY DEF Twin
<1> QED
  BY <1>1 DEF Other, Places

\* A row that is shown is one that was there, or a copy of one that is gone.
LEMMA ShownType ==
    ASSUME NEW r \in [Messages -> Cells], NEW c \in SUBSET Places
    PROVE  /\ Shown(r, c) \in [Messages -> Cells]
           /\ \A m \in Messages \ Gone(r) : Shown(r, c)[m] = r[m]
           /\ \A m \in Gone(r) : Shown(r, c)[m] # None => Shown(r, c)[m].goal = None
           /\ Rest(r, c) \subseteq c
<1>1. ASSUME NEW m \in Messages, m \in Gone(r), Other(c, m) # {}
      PROVE  /\ Fresh(m, Twin(c, m)[2], Twin(c, m)[3]) \in Cells
             /\ Fresh(m, Twin(c, m)[2], Twin(c, m)[3]).goal = None
  <2>1. Twin(c, m)[2] \in Folders /\ Twin(c, m)[3] \in Nat
    BY <1>1, TwinType
  <2> QED
    BY <2>1, FreshType
<1>2. \A m \in Messages : Shown(r, c)[m] \in Cells
  BY <1>1 DEF Shown
<1> QED
  BY <1>1, <1>2 DEF Shown, Rest, Gone

\* Rows a step leaves as they are, where they have a goal nothing has claimed.
Undisturbed(r) == \A m \in Messages : r[m] # None /\ r[m].goal # None /\ r[m].state = "free" =>
    FreeGoal(m) /\ r[m].goal = row[m].goal /\ r[m].mailbox = row[m].mailbox

LEMMA PassStep ==
    ASSUME IInv, PassOn, UnchangedInPass, mishaps' = mishaps,
           NEW r \in [Messages -> Cells], NEW c \in SUBSET Places,
           Becomes(r, c), Undisturbed(r),
           known' \in [Folders -> 0..MaxMishaps], outlived' \subseteq Messages,
           pass' \in Passes
    PROVE  IInv'
<1> USE DEF IInv, Typed, Order, UnchangedInPass, attempt, server
<1>1. /\ row' \in [Messages -> Cells] /\ copies' \subseteq Places
      /\ \A m \in Messages \ Gone(r) : row'[m] = r[m] /\ r[m] # None
      /\ \A m \in Gone(r) : row'[m] # None => row'[m].goal = None
  BY ShownType DEF Becomes, Gone
<1>2. \A t \in TaskIds, m \in Messages : items'[t][m] = IF m \in Gone(r) THEN None ELSE items[t][m]
  BY DEF Becomes, Forget
<1>3. \A m \in Messages : FreeGoal(m)' =>
          /\ FreeGoal(m) /\ row'[m].goal = row[m].goal /\ row'[m].mailbox = row[m].mailbox
          /\ \A t \in TaskIds : items'[t][m] = items[t][m]
  BY <1>1, <1>2 DEF FreeGoal, Present, Undisturbed
<1>4. TypeOK'
  <2>1. row' \in [Messages -> Rows \cup {None}]
        /\ \A m \in Messages : row'[m] # None /\ row'[m].goal = None => row'[m].state = "free"
    BY <1>1 DEF Cells
  <2>2. items' \in [TaskIds -> [Messages -> Items \cup {None}]]
    BY DEF TypeOK, Becomes, Forget
  <2> QED
    BY <1>1, <2>1, <2>2 DEF TypeOK, Places
<1>5. Handling'
  BY <1>2 DEF Handling, CallOK, Ids, Kind, Entries, RowSets
<1>6. Bounded'
  BY DEF Bounded, Busy
<1>7. Down' /\ Chain'
  BY DEF PassOn, Running, Down, Chain
<1>8. Exclusive'
  <2>1. \A d \in Calls : call[d].stage \notin {"claimed", "done"}
    BY PassExcludes DEF PassOn
  <2> QED
    BY <2>1 DEF Exclusive
<1>9. Backed'
  BY <1>1, <1>2 DEF Backed, Present
<1>10. OneDestination' /\ Elsewhere'
  <2>1. OneDestination'
    BY <1>2 DEF OneDestination, Kind
  <2>2. Elsewhere'
    BY <1>3 DEF Elsewhere
  <2> QED
    BY <2>1, <2>2
<1>11. Obliged'
  BY <1>3 DEF Obliged, Promised, Standing, InHand, Kind, Ids
<1> QED
  BY <1>4, <1>5, <1>6, <1>7, <1>8, <1>9, <1>10, <1>11

LEMMA TypedRows ==
    ASSUME IInv
    PROVE  /\ row \in [Messages -> Cells] /\ copies \in SUBSET Places
           /\ known \in [Folders -> 0..MaxMishaps] /\ outlived \subseteq Messages
           /\ pass \in Passes
  BY RowsType DEF IInv, Typed, TypeOK, Handling, Places

LEMMA OpenFolderStep ==
    ASSUME IInv, NEW f \in Folders, OpenFolder(f)
    PROVE  IInv'
<1> DEFINE r == [m \in Messages |-> IF m \in Reset(f) THEN None
                                    ELSE IF m \in Stayed(f) THEN NoGoal(row[m]) ELSE row[m]]
           c == {d \in copies : d[2] = f => Same(f)}
<1>1. \A m \in Stayed(f) : row[m] # None /\ row[m] \in Rows
  BY TypedRows DEF Stayed, Intents, Present, Cells
<1>2. \A m \in Messages : r[m] \in Cells
  BY <1>1, TypedRows, NoGoalType DEF Cells
<1>3. r \in [Messages -> Cells] /\ c \in SUBSET Places
  BY <1>2, TypedRows
<1>4. Undisturbed(r)
  BY <1>1, NoGoalType DEF Undisturbed, FreeGoal, Present
<1>5. Becomes(r, c) /\ PassOn /\ UnchangedInPass /\ mishaps' = mishaps
  BY DEF OpenFolder
<1>6. known' \in [Folders -> 0..MaxMishaps]
  BY DEF OpenFolder, IInv, Typed, TypeOK
<1>7. outlived' \subseteq Messages
  BY TypedRows DEF OpenFolder, Kept
<1>8. pass' \in Passes
  <2>1. {<<x, uids[x]>> : x \in In(f)} \subseteq Messages \X Nat
    BY DEF In, IInv, Typed, TypeOK
  <2>2. Absent(f) \subseteq Messages /\ Same(f) \in BOOLEAN /\ Touched(f) \in BOOLEAN
    BY DEF Absent, Intents, Same, Touched
  <2> QED
    BY <2>1, <2>2, TypedRows DEF OpenFolder, Passes
<1> HIDE DEF r, c
<1> QED
  BY <1>3, <1>4, <1>5, <1>6, <1>7, <1>8, PassStep

LEMMA LandedType ==
    ASSUME NEW m \in Messages, row[m] \in Rows, NEW f \in Folders, NEW u \in Nat
    PROVE  /\ Landed(m, f, u) \in Cells /\ Landed(m, f, u) # None
           /\ Landed(m, f, u).goal = None /\ Landed(m, f, u).state = "free"
           /\ Landed(m, f, u).mailbox = f /\ Landed(m, f, u).uid = u
           /\ Landed(m, f, u).id = row[m].id
  BY DEF Landed, NoGoal, Rows, Cells

LEMMA ReconcileStep ==
    ASSUME IInv, NEW p, NEW m \in Messages, Reconcile(p, m)
    PROVE  IInv'
<1> DEFINE f == pass.open
           r == Lands(m, p, f)
           c == {d \in copies : ~(d[2] = f /\ d[1] = p[1])}
<1>1. Met(p) /\ row[m] \in Rows
  BY TypedRows DEF Reconcile, Awaits, Pending, Present, Cells
<1>2. /\ p[1] \in Messages /\ p[2] \in Nat /\ f \in Folders
      /\ Handled(p) \in Passes /\ up /\ pass.on
  BY <1>1, MetType
<1>3. Landed(m, f, p[2]) \in Cells /\ Landed(m, f, p[2]).goal = None
  BY <1>1, <1>2, LandedType
<1>4. CASE Fits(m, p, f)
  <2>1. r \in [Messages -> Cells] /\ c \in SUBSET Places
    BY <1>3, TypedRows DEF Lands, Cells
  <2>2. Undisturbed(r)
    BY <1>3 DEF Undisturbed, FreeGoal, Present, Lands
  <2>3. Becomes(r, c) /\ PassOn /\ UnchangedInPass /\ mishaps' = mishaps
    BY <1>4 DEF Reconcile, Met
  <2>4. known' \in [Folders -> 0..MaxMishaps] /\ outlived' \subseteq Messages /\ pass' \in Passes
    BY <1>2, <1>4, TypedRows DEF Reconcile
  <2> HIDE DEF r, c
  <2> QED
    BY <2>1, <2>2, <2>3, <2>4, PassStep
<1>5. CASE ~Fits(m, p, f)
  <2>1. mishaps' \in mishaps..MaxMishaps
    BY DEF Reconcile, IInv, Typed, Bounded
  <2>2. pass' \in Passes
    <3>1. pass' = Closed
      BY <1>5 DEF Reconcile
    <3> QED
      BY <3>1, TypedRows DEF Closed, Passes
  <2>3. UNCHANGED <<server, cache, ledger, attempt, call, hook, up>>
    BY <1>5 DEF Reconcile, UnchangedInPass, cache, ledger, server, attempt
  <2> QED
    BY <1>2, <2>1, <2>2, <2>3, ServerStays, Quiet
<1> QED
  BY <1>4, <1>5

LEMMA RefreshStep ==
    ASSUME IInv, NEW p, Refresh(p)
    PROVE  IInv'
<1>1. /\ p[1] \in Messages /\ p[2] \in Nat /\ pass.open \in Folders
      /\ Handled(p) \in Passes /\ up /\ pass.on /\ hook = 0
  BY MetType DEF Refresh
<1>2. ASSUME NEW m \in Messages, NEW r \in Rows, r.goal = None => r.state = "free"
      PROVE  /\ [r EXCEPT !.id = p[1]] \in Cells /\ [r EXCEPT !.id = p[1]] # None
             /\ [r EXCEPT !.id = p[1]].goal = r.goal /\ [r EXCEPT !.id = p[1]].state = r.state
             /\ [r EXCEPT !.id = p[1]].mailbox = r.mailbox
  BY <1>1, <1>2 DEF Cells, Rows
<1>3. ASSUME NEW m \in Messages
      PROVE  /\ row'[m] \in Cells /\ (row'[m] = None <=> row[m] = None)
             /\ row[m] # None => /\ row'[m].goal = row[m].goal /\ row'[m].state = row[m].state
                                 /\ row'[m].mailbox = row[m].mailbox
  <2>1. CASE lookup /\ m \in Here(pass.open, p[2])
    <3>1. row[m] \in Rows /\ (row[m].goal = None => row[m].state = "free")
      BY <2>1, TypedRows DEF Here, Present, Cells
    <3>2. row'[m] = [row[m] EXCEPT !.id = p[1]]
      BY <2>1 DEF Refresh, Refreshed
    <3> QED
      BY <1>2, <3>1, <3>2
  <2>2. CASE ~(lookup /\ m \in Here(pass.open, p[2]))
    <3>1. row'[m] = row[m]
      BY <2>2 DEF Refresh, Refreshed
    <3> QED
      BY <3>1, TypedRows
  <2> QED
    BY <2>1, <2>2
<1>4. row' \in [Messages -> Cells]
  BY <1>3, TypedRows DEF Refresh, Refreshed
<1>5. pass' \in Passes
  BY <1>1 DEF Refresh, Passes
<1> USE DEF IInv, Typed, Order, UnchangedInPass, attempt, server
<1>6. UNCHANGED <<server, count, task, latched, undone, attempt, call, hook, up, copies, known, items,
                 mishaps>>
  BY DEF Refresh
<1>7. TypeOK'
  <2>1. row' \in [Messages -> Rows \cup {None}]
        /\ \A m \in Messages : row'[m] # None /\ row'[m].goal = None => row'[m].state = "free"
    BY <1>4 DEF Cells
  <2>2. outlived' \subseteq Messages
    BY DEF Refresh, TypeOK
  <2> QED
    BY <1>6, <2>1, <2>2 DEF TypeOK
<1>8. Handling' /\ Bounded' /\ Down' /\ Chain' /\ OneDestination'
  BY <1>1, <1>5, <1>6
  DEF Handling, CallOK, Ids, Kind, Entries, RowSets, Bounded, Busy, Down, Chain, OneDestination
<1>9. Exclusive'
  BY <1>1, <1>6, PassExcludes DEF Exclusive
<1>10. Backed' /\ Elsewhere'
  BY <1>3, <1>6 DEF Backed, Elsewhere, FreeGoal, Present
<1>11. Obliged'
  BY <1>3, <1>6 DEF Obliged, Promised, Standing, InHand, Kind, Ids, FreeGoal, Present
<1> QED
  BY <1>7, <1>8, <1>9, <1>10, <1>11

LEMMA CloseFolderStep ==
    ASSUME IInv, CloseFolder
    PROVE  IInv'
<1> DEFINE f == pass.open
           r == [m \in Messages |->
                    IF Present(m) /\ row[m].mailbox = f /\ row[m].goal = None
                        /\ Vanished(row[m].uid) THEN None ELSE row[m]]
           c == {d \in copies : ~(d[2] = f /\ Vanished(d[3]))}
                     \cup {<<x, f, uids[x]>> : x \in {y \in In(f) : uids[y] \in pass.fresh}}
<1>1. f \in Folders
  BY TypedRows DEF CloseFolder, Passes
<1>2. r \in [Messages -> Cells]
  BY TypedRows DEF Cells
<1>3. c \in SUBSET Places
  BY <1>1, TypedRows DEF In, Places, IInv, Typed, TypeOK
<1>4. Undisturbed(r)
  BY DEF Undisturbed, FreeGoal, Present
<1>5. Becomes(r, c) /\ PassOn /\ UnchangedInPass /\ mishaps' = mishaps
  BY DEF CloseFolder
<1>6. known' \in [Folders -> 0..MaxMishaps] /\ outlived' \subseteq Messages
  BY TypedRows DEF CloseFolder
<1>7. pass' \in Passes
  BY TypedRows DEF CloseFolder, Closed, Passes
<1> HIDE DEF r, c
<1> QED
  BY <1>2, <1>3, <1>4, <1>5, <1>6, <1>7, PassStep

LEMMA ReplayedType ==
    ASSUME IInv, NEW done \in SUBSET Again
    PROVE  Replayed(done) \in [Messages -> Cells] /\ Undisturbed(Replayed(done))
<1>1. ASSUME NEW n \in Messages, \E a \in done : n = a[2]
      PROVE  Replayed(done)[n] \in Cells /\ Replayed(done)[n].goal = None
  <2>1. PICK a : a = (CHOOSE x \in done : n = x[2])
    OBVIOUS
  <2>2. a \in done /\ n = a[2]
    BY <1>1, <2>1
  <2>3. a[1] \in Places /\ Present(n)
    BY <2>2, TypedRows DEF Again, Pending, Passes, Places
  <2>4. a[1][2] \in Folders /\ a[1][3] \in Nat /\ row[n] \in Rows
    BY <2>3, TypedRows DEF Places, Present, Cells
  <2>5. Replayed(done)[n] = Landed(n, a[1][2], a[1][3])
    BY <1>1, <2>1 DEF Replayed
  <2> QED
    BY <2>4, <2>5, LandedType
<1>2. ASSUME NEW n \in Messages, ~\E a \in done : n = a[2]
      PROVE  Replayed(done)[n] \in {None, row[n]}
  BY <1>2 DEF Replayed
<1>3. \A n \in Messages : Replayed(done)[n] \in Cells
  BY <1>1, <1>2, TypedRows DEF Cells
<1>4. Replayed(done) \in [Messages -> Cells]
  BY <1>3 DEF Replayed
<1>5. Undisturbed(Replayed(done))
  BY <1>1, <1>2 DEF Undisturbed, FreeGoal, Present
<1> QED
  BY <1>4, <1>5

LEMMA EndPassStep ==
    ASSUME IInv, EndPass
    PROVE  IInv'
<1>1. PICK done \in SUBSET Again :
          /\ Becomes(Replayed(done),
                     {d \in copies : ~\E a \in done : d[1] = a[1][1] /\ d[2] = a[1][2]})
          /\ outlived' = outlived \ (Gone(Replayed(done)) \cup {a[2] : a \in done})
  BY DEF EndPass
<1>2. {d \in copies : ~\E a \in done : d[1] = a[1][1] /\ d[2] = a[1][2]} \in SUBSET Places
  BY TypedRows
<1>3. pass' \in Passes
  BY DEF EndPass, NoPass, Passes
<1>4. PassOn /\ UnchangedInPass /\ mishaps' = mishaps
      /\ known' \in [Folders -> 0..MaxMishaps] /\ outlived' \subseteq Messages
  BY <1>1, TypedRows DEF EndPass
<1> QED
  BY <1>1, <1>2, <1>3, <1>4, ReplayedType, PassStep
----------------------------------------------------------------------------
\* Acceptance.

Tasks == [kind : {"move", "undo"}, parent : 0..MaxTasks,
          status : {"absent"} \cup Live \cup Ended]

\* The step wrote n, the next number, as a pending task with these moves.
Appended(n, kind, its) ==
    /\ n = count + 1 /\ count' = n /\ task[n].status = "absent" /\ latched[n] = {}
    /\ task' \in [TaskIds -> Tasks] /\ items' \in [TaskIds -> [Messages -> Items \cup {None}]]
    /\ task'[n].status = "pending" /\ task'[n].kind = kind /\ items'[n] = its
    /\ \A t \in TaskIds \ {n} : task'[t] = task[t] /\ items'[t] = items[t]

LEMMA AcceptType ==
    ASSUME IInv, NEW kind, NEW parent, NEW its, Accept(kind, parent, its),
           kind \in {"move", "undo"}, parent \in 0..MaxTasks,
           its \in [Messages -> Items \cup {None}]
    PROVE  \E n \in TaskIds : Appended(n, kind, its)
<1>1. PICK n \in TaskIds : n = count + 1
  BY DEF Accept, TaskIds, IInv, Typed, TypeOK
<1>2. task[n].status = "absent" /\ latched[n] = {}
  BY <1>1 DEF IInv, Order, Chain, Typed, TypeOK
<1>3. /\ task' = [task EXCEPT ![n] = [kind |-> kind, parent |-> parent, status |-> "pending"]]
      /\ items' = [items EXCEPT ![n] = its] /\ count' = n
  BY <1>1 DEF Accept
<1>4. task \in [TaskIds -> Tasks] /\ items \in [TaskIds -> [Messages -> Items \cup {None}]]
  BY DEF IInv, Typed, TypeOK, Tasks
<1>5. [kind |-> kind, parent |-> parent, status |-> "pending"] \in Tasks
  BY DEF Tasks, Live
<1>6. task' \in [TaskIds -> Tasks] /\ items' \in [TaskIds -> [Messages -> Items \cup {None}]]
  BY <1>3, <1>4, <1>5
<1> QED
  BY <1>1, <1>2, <1>3, <1>4, <1>6 DEF Appended

LEMMA FrozenType ==
    ASSUME IInv, NEW m \in Messages, Present(m), NEW f \in Folders
    PROVE  Frozen(m, f) \in Items /\ Frozen(m, f).to = f
<1>1. row[m] \in Rows /\ known[row[m].mailbox] \in Nat
  BY TypedRows DEF Present, Cells, Rows
<1> QED
  BY <1>1 DEF Frozen, Items, Rows

\* The new task disturbs nothing of the others.
LEMMA AcceptFrame ==
    ASSUME IInv, NEW n \in TaskIds, n = count + 1, count' = n, task[n].status = "absent",
           latched[n] = {},
           task' \in [TaskIds -> Tasks], items' \in [TaskIds -> [Messages -> Items \cup {None}]],
           task'[n].status = "pending",
           \A t \in TaskIds \ {n} : task'[t] = task[t] /\ items'[t] = items[t],
           UNCHANGED <<server, copies, known, outlived, latched, attempt, call, pass,
                       hook, up, mishaps>>,
           row' \in [Messages -> Cells], undone' \subseteq TaskIds
    PROVE  TypeOK' /\ Handling' /\ Bounded' /\ Down' /\ Chain'
<1> USE DEF IInv, Typed, Order, server, attempt
<1>1. TypeOK'
  <2>1. row' \in [Messages -> Rows \cup {None}]
        /\ \A m \in Messages : row'[m] # None /\ row'[m].goal = None => row'[m].state = "free"
    BY DEF Cells
  <2>2. count' \in 0..MaxTasks
    BY DEF TaskIds
  <2> QED
    BY <2>1, <2>2 DEF TypeOK, Tasks
<1>2. Handling'
  <2>1. ASSUME NEW c \in Calls, call[c] # NoCall
        PROVE  CallOK(c)'
    <3>1. CallOK(c)
      BY <2>1 DEF Handling
    <3>2. call[c].task \in TaskIds \ {n}
      BY <3>1 DEF CallOK, Entries
    <3>3. call' = call /\ task'[call[c].task] = task[call[c].task]
          /\ items'[call[c].task] = items[call[c].task]
      BY <3>2
    <3> QED
      BY <3>1, <3>3 DEF CallOK, Ids, Kind, Entries, RowSets
  <2> QED
    BY <2>1 DEF Handling
<1>3. Bounded'
  BY DEF Bounded, Busy
<1>4. Down'
  BY DEF Down
<1>5. Chain'
  <2>1. ASSUME NEW t \in TaskIds, t > count'
        PROVE  task'[t].status = "absent" /\ latched'[t] = {}
    BY <2>1 DEF Chain, TypeOK, TaskIds
  <2>2. ASSUME NEW t \in TaskIds, task'[t].status = "running", NEW s \in TaskIds,
               task'[s].status \in Live
        PROVE  t <= s
    <3>1. t # n /\ task[t].status = "running" /\ t <= count
      BY <2>2 DEF Chain, TypeOK, TaskIds
    <3> QED
      BY <2>2, <3>1 DEF Chain, TypeOK, TaskIds
  <2>3. hook' # 0 => hook' \in TaskIds /\ task'[hook'].status = "failed"
    BY DEF Chain
  <2> QED
    BY <2>1, <2>2, <2>3 DEF Chain
<1> QED
  BY <1>1, <1>2, <1>3, <1>4, <1>5

LEMMA AcceptMoveStep ==
    ASSUME IInv, NEW S \in SUBSET Messages, NEW f \in Folders, AcceptMove(S, f)
    PROVE  IInv'
<1> DEFINE its == [m \in Messages |-> IF m \in S THEN Frozen(m, f) ELSE None]
<1>1. \A m \in S : /\ Present(m) /\ row[m] \in Rows /\ row[m].goal = None /\ row[m].mailbox # f
                   /\ row[m].state = "free" /\ Frozen(m, f) \in Items /\ Frozen(m, f).to = f
  BY FrozenType, TypedRows DEF AcceptMove, Present, Cells
<1>2. its \in [Messages -> Items \cup {None}]
  BY <1>1
<1>3. PICK n \in TaskIds :
              /\ n = count + 1 /\ count' = n /\ task[n].status = "absent" /\ latched[n] = {}
              /\ task' \in [TaskIds -> Tasks] /\ items' \in [TaskIds -> [Messages -> Items \cup {None}]]
              /\ task'[n].status = "pending" /\ task'[n].kind = "move" /\ items'[n] = its
              /\ \A t \in TaskIds \ {n} : task'[t] = task[t] /\ items'[t] = items[t]
  <2>1. Accept("move", 0, its) /\ 0 \in 0..MaxTasks
    BY DEF AcceptMove
  <2> HIDE DEF its
  <2>2. PICK n \in TaskIds : Appended(n, "move", its)
    BY <1>2, <2>1, AcceptType
  <2> QED
    BY <2>2 DEF Appended
<1>4. \A m \in Messages : row'[m] = IF m \in S THEN [row[m] EXCEPT !.goal = f] ELSE row[m]
  BY DEF AcceptMove
<1>5. \A m \in S : /\ row'[m] \in Cells /\ row'[m] # None /\ row'[m].goal = f
                   /\ row'[m].mailbox = row[m].mailbox /\ row'[m].state = "free"
  <2>1. ASSUME NEW r \in Rows, r.state = "free"
        PROVE  /\ [r EXCEPT !.goal = f] \in Cells /\ [r EXCEPT !.goal = f] # None
               /\ [r EXCEPT !.goal = f].goal = f /\ [r EXCEPT !.goal = f].state = "free"
               /\ [r EXCEPT !.goal = f].mailbox = r.mailbox
    <3>1. [r EXCEPT !.goal = f] \in Rows
      BY DEF Rows
    <3>2. /\ [r EXCEPT !.goal = f].goal = f /\ [r EXCEPT !.goal = f].state = "free"
          /\ [r EXCEPT !.goal = f].mailbox = r.mailbox
      BY <2>1 DEF Rows
    <3>3. [r EXCEPT !.goal = f].goal # None
      BY <3>2
    <3>4. \A q \in Rows : q # None /\ (q.goal # None => q \in Cells)
      BY NoneAssumption DEF Cells
    <3> QED
      BY <3>1, <3>2, <3>3, <3>4
  <2>2. ASSUME NEW m \in S
        PROVE  /\ row'[m] \in Cells /\ row'[m] # None /\ row'[m].goal = f
               /\ row'[m].mailbox = row[m].mailbox /\ row'[m].state = "free"
    <3>1. PICK r \in Rows : r = row[m] /\ r.state = "free" /\ row'[m] = [r EXCEPT !.goal = f]
      BY <1>1, <1>4, <2>2
    <3>2. PICK q : /\ q = [r EXCEPT !.goal = f] /\ q \in Cells /\ q # None /\ q.goal = f
                   /\ q.state = "free" /\ q.mailbox = r.mailbox
      BY <2>1, <3>1
    <3> QED
      BY <3>1, <3>2
  <2> QED
    BY <2>2
<1>6. row' \in [Messages -> Cells]
  BY <1>4, <1>5, TypedRows DEF AcceptMove
<1> USE DEF IInv, Typed, Order, attempt
<1>7. UNCHANGED <<server, copies, known, outlived, latched, attempt, call, pass, hook, up, mishaps>>
  BY DEF AcceptMove
<1>8. undone' \subseteq TaskIds
  BY DEF AcceptMove, TypeOK
<1>9. TypeOK' /\ Handling' /\ Bounded' /\ Down' /\ Chain'
  <2> HIDE DEF IInv
  <2> QED
    BY <1>3, <1>6, <1>7, <1>8, AcceptFrame
<1>10. Exclusive'
  <2>1. \A c \in Calls : call[c].stage \in {"claimed", "done"} => call[c].claimed \subseteq Messages
    BY DEF Handling, CallOK, Entries, NoCall
  <2>2. ASSUME NEW c \in Calls, call[c].stage \in {"claimed", "done"}, NEW m \in call[c].claimed
        PROVE  row'[m] = row[m]
    <3>1. m \in Messages
      BY <2>1, <2>2
    <3>2. row[m].state = "intent"
      BY <2>2 DEF Exclusive
    <3> QED
      BY <1>1, <1>4, <3>1, <3>2
  <2> QED
    BY <1>7, <2>2 DEF Exclusive, Present
<1>11. Backed'
  <2>1. \A m \in Messages : row[m] # None => row'[m] # None
    BY <1>4, <1>5
  <2>2. \A m \in Messages : its[m] # None => row'[m] # None
    BY <1>5
  <2> QED
    BY <1>3, <2>1, <2>2 DEF Backed, Present
<1>12. OneDestination' /\ Elsewhere'
  <2>1. OneDestination'
    BY <1>1, <1>3 DEF OneDestination, Kind
  <2>2. Elsewhere'
    BY <1>1, <1>4, <1>5 DEF Elsewhere, FreeGoal, Present
  <2> QED
    BY <2>1, <2>2
<1>13. Obliged'
  <2>1. ASSUME NEW m \in Messages, m \in S
        PROVE  Promised(n, m)' /\ Standing(n, m)'
    BY <1>1, <1>3, <1>5, <1>7, <2>1 DEF Promised, Standing, Kind
  <2>2. ASSUME NEW m \in Messages, m \notin S, FreeGoal(m)'
        PROVE  \E t \in TaskIds : Promised(t, m)' /\ Standing(t, m)'
    <3>1. FreeGoal(m) /\ row'[m] = row[m]
      BY <1>4, <2>2 DEF FreeGoal, Present
    <3>2. PICK t \in TaskIds : Promised(t, m) /\ Standing(t, m)
      BY <3>1 DEF Obliged
    <3>3. t # n
      BY <1>3, <3>2 DEF Standing
    <3> QED
      BY <1>3, <1>7, <3>1, <3>2, <3>3 DEF Promised, Standing, InHand, Kind, Ids
  <2> QED
    BY <2>1, <2>2 DEF Obliged
<1> QED
  BY <1>9, <1>10, <1>11, <1>12, <1>13

LEMMA AcceptUndoStep ==
    ASSUME IInv, NEW p \in TaskIds, AcceptUndo(p)
    PROVE  IInv'
<1> DEFINE its == [m \in Messages |->
            IF items[p][m] = None THEN None ELSE Frozen(m, items[p][m].from)]
<1>1. ASSUME NEW m \in Messages, items[p][m] # None
      PROVE  Present(m) /\ Frozen(m, items[p][m].from) \in Items
  <2>1. Present(m) /\ items[p][m].from \in Folders
    BY <1>1 DEF IInv, Order, Backed, Typed, TypeOK, Items
  <2> QED
    BY <2>1, FrozenType
<1>2. its \in [Messages -> Items \cup {None}] /\ p \in 0..MaxTasks
  BY <1>1 DEF TaskIds
<1>3. Accept("undo", p, its)
  BY DEF AcceptUndo
<1> HIDE DEF its
<1>4. its \in [Messages -> Items \cup {None}]
  BY <1>2
<1>5. p \in 0..MaxTasks
  BY <1>2
<1>6. "undo" \in {"move", "undo"}
  OBVIOUS
<1>7. PICK n \in TaskIds : Appended(n, "undo", its)
  BY <1>3, <1>4, <1>5, <1>6, AcceptType
<1>8. /\ n = count + 1 /\ count' = n /\ task[n].status = "absent" /\ latched[n] = {}
      /\ task' \in [TaskIds -> Tasks] /\ items' \in [TaskIds -> [Messages -> Items \cup {None}]]
      /\ task'[n].status = "pending" /\ task'[n].kind = "undo" /\ items'[n] = its
      /\ \A t \in TaskIds \ {n} : task'[t] = task[t] /\ items'[t] = items[t]
  BY <1>7 DEF Appended
<1> USE DEF its
<1>9. row' \in [Messages -> Cells] /\ row' = row
  BY TypedRows DEF AcceptUndo, cache
<1>10. UNCHANGED <<server, copies, known, outlived, latched, attempt, call, pass, hook, up, mishaps>>
  BY DEF AcceptUndo, cache
<1> USE DEF IInv, Typed, Order, attempt
<1>11. undone' \subseteq TaskIds
  BY DEF AcceptUndo, TypeOK
<1>12. TypeOK' /\ Handling' /\ Bounded' /\ Down' /\ Chain'
  <2> HIDE DEF IInv
  <2> QED
    BY <1>8, <1>9, <1>10, <1>11, AcceptFrame
<1>13. Exclusive' /\ Elsewhere'
  BY <1>9, <1>10 DEF Exclusive, Elsewhere, FreeGoal, Present
<1>14. Backed'
  BY <1>1, <1>8, <1>9 DEF Backed, Present
<1>15. OneDestination'
  BY <1>8 DEF OneDestination, Kind
<1>16. Obliged'
  <2>1. ASSUME NEW m \in Messages, FreeGoal(m)'
        PROVE  \E t \in TaskIds : Promised(t, m)' /\ Standing(t, m)'
    <3>1. FreeGoal(m)
      BY <1>9, <2>1 DEF FreeGoal, Present
    <3>2. PICK t \in TaskIds : Promised(t, m) /\ Standing(t, m)
      BY <3>1 DEF Obliged
    <3>3. t # n
      BY <1>8, <3>2 DEF Standing
    <3> QED
      BY <1>8, <1>9, <1>10, <3>2, <3>3 DEF Promised, Standing, InHand, Kind, Ids
  <2> QED
    BY <2>1 DEF Obliged
<1> QED
  BY <1>12, <1>13, <1>14, <1>15, <1>16
----------------------------------------------------------------------------
\* The scheduler's steps: the status of a task, and its attempt.

LEMMA StatusType ==
    ASSUME task \in [TaskIds -> Tasks], NEW t \in TaskIds, NEW s \in Live \cup Ended,
           task' = [task EXCEPT ![t].status = s]
    PROVE  /\ task' \in [TaskIds -> Tasks]
           /\ task'[t].status = s /\ task'[t].kind = task[t].kind
           /\ \A u \in TaskIds \ {t} : task'[u] = task[u]
<1>1. ASSUME NEW k \in Tasks
      PROVE  /\ [k EXCEPT !.status = s] \in Tasks
             /\ [k EXCEPT !.status = s].status = s /\ [k EXCEPT !.status = s].kind = k.kind
  BY DEF Tasks
<1> QED
  BY <1>1

LEMMA TaskTyped ==
    ASSUME IInv
    PROVE  task \in [TaskIds -> Tasks] /\ hook \in 0..MaxTasks /\ MaxAttempts \in Nat \ {0}
           /\ tries \in Nat /\ mishaps \in Nat /\ count \in Nat
  BY DEF IInv, Typed, TypeOK, Bounded, Tasks

LEMMA ScheduleFrame ==
    ASSUME IInv, NEW t \in TaskIds, task[t].status # "absent",
           NEW s \in Live \cup Ended, task' = [task EXCEPT ![t].status = s],
           s = "running" => Head(t),
           task[t].status \in Live,
           UNCHANGED <<server, cache, count, items, latched, undone, pass, up>>,
           mishaps' \in mishaps..MaxMishaps,
           left' \subseteq Messages, wait' \in BOOLEAN, hook' # 0 => hook' = t /\ s = "failed",
           tries' \in Nat, tries' <= MaxAttempts + mishaps',
           (up /\ s = "running") \/ tries' < MaxAttempts + mishaps',
           DOMAIN call' = Calls
    PROVE  TypeOK' /\ Bounded' /\ Backed' /\ Chain' /\ OneDestination' /\ Elsewhere'
<1> USE DEF IInv, Typed, Order, server, cache
<1>1. /\ task' \in [TaskIds -> Tasks]
      /\ task'[t].status = s /\ task'[t].kind = task[t].kind
      /\ \A u \in TaskIds \ {t} : task'[u] = task[u]
  BY StatusType, TaskTyped
<1>2. mishaps \in Nat /\ mishaps' \in 0..MaxMishaps
  BY DEF Bounded
<1>3. TypeOK'
  <2>1. hook' \in 0..MaxTasks
    BY DEF TaskIds
  <2> QED
    BY <1>1, <1>2, <2>1 DEF TypeOK, Tasks
<1>4. Bounded'
  BY <1>1, <1>2 DEF Bounded, Busy, TypeOK
<1>5. Backed' /\ Elsewhere'
  BY DEF Backed, Elsewhere, FreeGoal, Present
<1>6. OneDestination'
  BY <1>1 DEF OneDestination, Kind
<1>7. Chain'
  <2>1. \A u \in TaskIds : u > count => u # t
    BY DEF Chain
  <2>2. \A u \in TaskIds : task'[u].status \in Live => task[u].status \in Live
    BY <1>1
  <2>3. ASSUME NEW u \in TaskIds, task'[u].status = "running", NEW v \in TaskIds,
               task'[v].status \in Live
        PROVE  u <= v
    <3>1. CASE u = t
      BY <1>1, <2>2, <2>3, <3>1 DEF Head
    <3>2. CASE u # t
      BY <1>1, <2>2, <2>3, <3>2 DEF Chain
    <3> QED
      BY <3>1, <3>2
  <2> QED
    BY <1>1, <2>1, <2>3 DEF Chain
<1> QED
  BY <1>3, <1>4, <1>5, <1>6, <1>7

LEMMA SameCalls ==
    ASSUME IInv, up, NEW t \in TaskIds, NEW s \in Live \cup Ended,
           task' = [task EXCEPT ![t].status = s],
           UNCHANGED <<row, items, pass, up, call>>
    PROVE  Handling' /\ Down' /\ Exclusive'
<1> USE DEF IInv, Typed, Order
<1>1. /\ task'[t].status = s /\ task'[t].kind = task[t].kind
      /\ \A u \in TaskIds \ {t} : task'[u] = task[u]
  BY StatusType, TaskTyped
<1>2. \A u \in TaskIds : /\ task'[u].kind = task[u].kind
                         /\ task[u].status # "absent" => task'[u].status # "absent"
  BY <1>1 DEF Live, Ended
<1>3. Handling'
  <2>1. ASSUME NEW c \in Calls, call[c] # NoCall
        PROVE  CallOK(c)'
    <3>1. CallOK(c) /\ call[c].task \in TaskIds
      BY <2>1 DEF Handling, CallOK, Entries
    <3> QED
      BY <1>2, <3>1 DEF CallOK, Ids, Kind, Entries, RowSets
  <2> QED
    BY <2>1 DEF Handling
<1>4. Down' /\ Exclusive'
  BY DEF Down, Exclusive, Present
<1> QED
  BY <1>3, <1>4

LEMMA OwedType ==
    ASSUME NEW t
    PROVE  /\ Owed(t) \subseteq Messages
           /\ \A m \in Messages : FreeGoal(m) /\ Promised(t, m) => m \in Owed(t)
  BY DEF Owed, FreeGoal, Promised, HasGoal, Kind

LEMMA BeginStep ==
    ASSUME IInv, NEW t \in TaskIds, Begin(t)
    PROVE  IInv'
<1>1. /\ task' = [task EXCEPT ![t].status = "running"] /\ task[t].status = "pending"
      /\ UNCHANGED <<server, cache, count, items, latched, undone, call, pass, hook, up,
                   mishaps>>
      /\ up /\ Head(t) /\ tries' = tries + 1 /\ left' = Owed(t) /\ wait' = FALSE
  BY DEF Begin, Running
<1>2. /\ task'[t].status = "running"
      /\ \A u \in TaskIds : task'[u].kind = task[u].kind
      /\ \A u \in TaskIds \ {t} : task'[u] = task[u]
  BY <1>1, StatusType, TaskTyped DEF Live
<1>3. \A s \in TaskIds : task[s].status # "running"
  BY <1>1 DEF IInv, Order, Chain, Head, Live, TaskIds
<1>4. tries < MaxAttempts + mishaps /\ tries \in Nat /\ mishaps \in 0..MaxMishaps
  BY <1>3, TaskTyped DEF IInv, Typed, Bounded, Busy
<1>5. TypeOK' /\ Bounded' /\ Backed' /\ Chain' /\ OneDestination' /\ Elsewhere'
  <2>1. tries' \in Nat /\ tries' <= MaxAttempts + mishaps' /\ mishaps' \in mishaps..MaxMishaps
    BY <1>1, <1>4
  <2>2. left' \subseteq Messages /\ wait' \in BOOLEAN /\ hook' \in 0..MaxTasks
        /\ DOMAIN call' = Calls
    BY <1>1, OwedType, TaskTyped DEF IInv, Typed, TypeOK
  <2>3. hook' = 0
    BY <1>1 DEF Begin, Running
  <2> QED
    BY <1>1, <2>1, <2>2, <2>3, ScheduleFrame DEF Live
<1>6. Handling' /\ Down' /\ Exclusive'
  BY <1>1, SameCalls DEF Live, cache
<1>7. Obliged'
  <2>1. ASSUME NEW m \in Messages, FreeGoal(m)'
        PROVE  \E u \in TaskIds : Promised(u, m)' /\ Standing(u, m)'
    <3>1. FreeGoal(m)
      BY <1>1, <2>1 DEF FreeGoal, Present, cache
    <3>2. PICK u \in TaskIds : Promised(u, m) /\ Standing(u, m)
      BY <3>1 DEF IInv, Obliged
    <3>3. Promised(u, m)'
      BY <1>1, <1>2, <3>2 DEF Promised, Kind, cache
    <3>4. CASE u = t
      <4>1. m \in left'
        BY <1>1, <3>1, <3>2, <3>4, OwedType
      <4> QED
        BY <1>2, <3>3, <3>4, <4>1 DEF Standing, InHand
    <3>5. CASE u # t
      BY <1>1, <1>2, <1>3, <3>2, <3>3, <3>5 DEF Standing
    <3> QED
      BY <3>4, <3>5
  <2> QED
    BY <2>1 DEF Obliged
<1> QED
  BY <1>5, <1>6, <1>7 DEF IInv, Typed, Order

\* Who is running: the job, and nobody else.
LEMMA OneJob ==
    ASSUME IInv, NEW t \in TaskIds, Job(t)
    PROVE  /\ task[t].status = "running" /\ up /\ hook = 0 /\ Head(t)
           /\ \A u \in TaskIds \ {t} : task[u].status # "running"
  BY DEF IInv, Order, Chain, Job, Head, Live, Running, TaskIds

LEMMA CompleteStep ==
    ASSUME IInv, NEW t \in TaskIds, Complete(t)
    PROVE  IInv'
<1>1. /\ task' = [task EXCEPT ![t].status = "completed"] /\ tries' = 0
      /\ UNCHANGED <<server, cache, count, items, latched, undone, left, wait, call, pass,
                   hook, up, mishaps>>
      /\ left = {} /\ ~wait /\ Job(t) /\ call["live"] = NoCall
  BY DEF Complete, Free
<1>2. /\ task'[t].status = "completed"
      /\ \A u \in TaskIds : task'[u].kind = task[u].kind
      /\ \A u \in TaskIds \ {t} : task'[u] = task[u]
  BY <1>1, StatusType, TaskTyped DEF Ended
<1>3. TypeOK' /\ Bounded' /\ Backed' /\ Chain' /\ OneDestination' /\ Elsewhere'
  <2>1. /\ tries' \in Nat /\ tries' <= MaxAttempts + mishaps' /\ mishaps' \in mishaps..MaxMishaps
        /\ tries' < MaxAttempts + mishaps'
    BY <1>1, TaskTyped DEF IInv, Typed, Bounded
  <2>2. left' \subseteq Messages /\ wait' \in BOOLEAN /\ hook' \in 0..MaxTasks
        /\ DOMAIN call' = Calls
    BY <1>1, TaskTyped DEF IInv, Typed, TypeOK
  <2>3. hook' = 0
    BY <1>1, OneJob
  <2> QED
    BY <1>1, <2>1, <2>2, <2>3, OneJob, ScheduleFrame DEF Live, Ended
<1>4. Handling' /\ Down' /\ Exclusive'
  BY <1>1, OneJob, SameCalls DEF Ended, cache
<1>5. Obliged'
  <2>1. ASSUME NEW m \in Messages, FreeGoal(m)'
        PROVE  \E u \in TaskIds : Promised(u, m)' /\ Standing(u, m)'
    <3>1. FreeGoal(m)
      BY <1>1, <2>1 DEF FreeGoal, Present, cache
    <3>2. PICK u \in TaskIds : Promised(u, m) /\ Standing(u, m)
      BY <3>1 DEF IInv, Obliged
    <3>3. u # t /\ task[u].status # "running"
      BY <1>1, <3>2, OneJob DEF Standing, InHand
    <3>4. Promised(u, m)' /\ Standing(u, m)'
      BY <1>1, <1>2, <3>2, <3>3 DEF Promised, Standing, Kind, cache
    <3> QED
      BY <3>4
  <2> QED
    BY <2>1 DEF Obliged
<1> QED
  BY <1>3, <1>4, <1>5 DEF IInv, Typed, Order

\* What an attempt gives up or leaves to the next one.
LEMMA GivesUpFrame ==
    ASSUME IInv, NEW t \in TaskIds, Job(t), GivesUpOrRetries(t),
           UNCHANGED <<server, cache, count, items, latched, undone, pass, up>>,
           mishaps' \in mishaps..MaxMishaps, DOMAIN call' = Calls
    PROVE  /\ TypeOK' /\ Bounded' /\ Backed' /\ Chain' /\ OneDestination' /\ Elsewhere'
           /\ Obliged'
           /\ \E s \in Live \cup Ended : task' = [task EXCEPT ![t].status = s]
<1> DEFINE s == IF tries < MaxAttempts THEN "pending" ELSE "failed"
<1>1. /\ task' = [task EXCEPT ![t].status = s] /\ s \in Live \cup Ended /\ s # "running"
      /\ left' = {} /\ wait' = FALSE
  BY DEF GivesUpOrRetries, Live, Ended
<1>2. s = "failed" => hook' = t
  BY DEF GivesUpOrRetries
<1>3. hook' # 0 => hook' = t /\ s = "failed"
  BY OneJob DEF GivesUpOrRetries
<1>4. tries' \in Nat /\ tries' < MaxAttempts + mishaps' /\ tries' <= MaxAttempts + mishaps'
  BY TaskTyped DEF GivesUpOrRetries
<1>5. s \in {"pending", "failed"}
  OBVIOUS
<1> HIDE DEF s
<1>6. /\ task'[t].status = s
      /\ \A u \in TaskIds : task'[u].kind = task[u].kind
      /\ \A u \in TaskIds \ {t} : task'[u] = task[u]
  BY <1>1, StatusType, TaskTyped
<1>7. TypeOK' /\ Bounded' /\ Backed' /\ Chain' /\ OneDestination' /\ Elsewhere'
  <2>1. task[t].status \in Live /\ task[t].status # "absent"
    BY OneJob DEF Live
  <2> QED
    BY <1>1, <1>3, <1>4, <2>1, ScheduleFrame
<1>8. Obliged'
  <2>1. ASSUME NEW m \in Messages, FreeGoal(m)'
        PROVE  \E u \in TaskIds : Promised(u, m)' /\ Standing(u, m)'
    <3>1. FreeGoal(m)
      BY <2>1 DEF FreeGoal, Present, cache
    <3>2. PICK u \in TaskIds : Promised(u, m) /\ Standing(u, m)
      BY <3>1 DEF IInv, Obliged
    <3>3. Promised(u, m)'
      BY <1>6, <3>2 DEF Promised, Kind, cache
    <3>4. CASE u = t
      BY <1>2, <1>5, <1>6, <3>3, <3>4 DEF Standing
    <3>5. CASE u # t
      <4>1. task[u].status = "pending"
        BY <3>2, <3>5, OneJob DEF Standing, TaskIds
      <4> QED
        BY <1>6, <3>3, <3>5, <4>1 DEF Standing
    <3> QED
      BY <3>4, <3>5
  <2> QED
    BY <2>1 DEF Obliged
<1> QED
  BY <1>1, <1>7, <1>8

LEMMA AttemptFailsStep ==
    ASSUME IInv, NEW t \in TaskIds, AttemptFails(t)
    PROVE  IInv'
<1>1. /\ Job(t) /\ GivesUpOrRetries(t) /\ mishaps' \in mishaps..MaxMishaps
      /\ UNCHANGED <<server, cache, count, items, latched, undone, call, pass, up>>
      /\ DOMAIN call' = Calls
  BY DEF AttemptFails, Free, IInv, Typed, Bounded, TypeOK
<1>2. /\ TypeOK' /\ Bounded' /\ Backed' /\ Chain' /\ OneDestination' /\ Elsewhere'
      /\ Obliged'
      /\ \E s \in Live \cup Ended : task' = [task EXCEPT ![t].status = s]
  BY <1>1, GivesUpFrame
<1>3. Handling' /\ Down' /\ Exclusive'
  BY <1>1, <1>2, OneJob, SameCalls DEF cache
<1> QED
  BY <1>2, <1>3 DEF IInv, Typed, Order

\* A call that is abandoned is the same call.
LEMMA AbandonedType ==
    ASSUME NEW k \in Entries, NEW b \in BOOLEAN, NEW o, o = [k EXCEPT !.open = b]
    PROVE  /\ o \in Entries /\ o.stage = k.stage /\ o.task = k.task /\ o.rows = k.rows
           /\ o.dest = k.dest /\ o.claimed = k.claimed /\ o.hit = k.hit /\ o.from = k.from
           /\ o.known = k.known /\ o.blind = k.blind
  BY DEF Entries

LEMMA AttemptTimesOutStep ==
    ASSUME IInv, NEW t \in TaskIds, AttemptTimesOut(t)
    PROVE  IInv'
<1> DEFINE o == [call["live"] EXCEPT !.open = call["live"].stage = "dial"]
<1>1. /\ Job(t) /\ GivesUpOrRetries(t)
      /\ UNCHANGED <<server, cache, count, items, latched, undone, pass, up>>
      /\ call["live"] # NoCall /\ call["old"] = NoCall
      /\ call' = [live |-> NoCall, old |-> o]
  BY DEF AttemptTimesOut
<1>2. mishaps' \in mishaps..MaxMishaps
  BY MishapStep DEF AttemptTimesOut, IInv, Typed, Bounded
<1>3. DOMAIN call' = Calls /\ call'["live"] = NoCall /\ call'["old"] = o
  BY <1>1 DEF Calls
<1>4. /\ TypeOK' /\ Bounded' /\ Backed' /\ Chain' /\ OneDestination' /\ Elsewhere'
      /\ Obliged'
      /\ \E s \in Live \cup Ended : task' = [task EXCEPT ![t].status = s]
  BY <1>1, <1>2, <1>3, GivesUpFrame
<1>5. \A u \in TaskIds : /\ task'[u].kind = task[u].kind
                         /\ task[u].status # "absent" => task'[u].status # "absent"
  <2>1. PICK s \in Live \cup Ended : task' = [task EXCEPT ![t].status = s]
    BY <1>4
  <2> QED
    BY <2>1, StatusType, TaskTyped DEF Live, Ended
<1>6. CallOK("live") /\ call["live"] \in Entries /\ call["live"].task \in TaskIds
  BY <1>1 DEF IInv, Typed, Handling, CallOK, Calls, Entries
<1>7. /\ o \in Entries /\ o.stage = call["live"].stage /\ o.task = call["live"].task
      /\ o.rows = call["live"].rows /\ o.dest = call["live"].dest
      /\ o.claimed = call["live"].claimed /\ o.hit = call["live"].hit
  <2> DEFINE b == call["live"].stage = "dial"
  <2>1. b \in BOOLEAN /\ o = [call["live"] EXCEPT !.open = b]
    OBVIOUS
  <2> HIDE DEF b, o
  <2> QED
    BY <1>6, <2>1, AbandonedType
<1> HIDE DEF o
<1>8. Handling'
  <2>1. CallOK("old")'
    BY <1>1, <1>3, <1>5, <1>6, <1>7 DEF CallOK, Ids, Kind, Entries, RowSets
  <2> QED
    BY <1>1, <1>3, <2>1 DEF IInv, Typed, Handling, Calls
<1>9. Down'
  BY <1>1, OneJob DEF Down
<1>10. Exclusive'
  <2>1. call'["live"].stage \notin Engaged
    BY <1>3 DEF NoCall, Engaged
  <2>2. call'["old"].stage \in {"claimed", "done"} =>
          /\ ~pass'.on
          /\ \A m \in call'["old"].claimed :
                row'[m] # None /\ row'[m].state = "intent" /\ row'[m].goal = call'["old"].dest
    BY <1>1, <1>3, <1>7 DEF IInv, Order, Exclusive, Calls, cache, Present
  <2> QED
    BY <2>1, <2>2 DEF Exclusive, Calls, Engaged, Present
<1> QED
  BY <1>4, <1>8, <1>9, <1>10 DEF IInv, Typed, Order

Withdrawn(S) == [m \in Messages |-> IF m \in S THEN NoGoal(row[m]) ELSE row[m]]

LEMMA RevertedType ==
    ASSUME IInv, NEW S \in SUBSET Messages, \A m \in S : FreeGoal(m)
    PROVE  /\ Withdrawn(S) \in [Messages -> Cells] /\ Undisturbed(Withdrawn(S))
           /\ \A m \in Messages : Withdrawn(S)[m] = None <=> row[m] = None
           /\ \A m \in Messages \ S : Withdrawn(S)[m] = row[m]
           /\ \A m \in S : Withdrawn(S)[m].goal = None
<1>1. \A m \in S : row[m] \in Rows /\ row[m] # None
  BY TypedRows DEF FreeGoal, Present, Cells
<1>2. \A m \in S : /\ NoGoal(row[m]) \in Cells /\ NoGoal(row[m]) # None
                   /\ NoGoal(row[m]).goal = None
  BY <1>1, NoGoalType
<1> QED
  BY <1>1, <1>2, TypedRows DEF Undisturbed, FreeGoal, Present, Withdrawn

\* The obligations give back goals nothing has claimed.
LEMMA ObligationsFrame ==
    ASSUME IInv, NEW S \in SUBSET Messages, \A m \in S : FreeGoal(m),
           row' = Withdrawn(S),
           UNCHANGED <<server, copies, known, outlived, count, items, undone, attempt, call,
                       pass, mishaps>>,
           task' \in [TaskIds -> Tasks],
           \A t \in TaskIds : /\ task'[t].kind = task[t].kind
                              /\ task[t].status = "absent" <=> task'[t].status = "absent"
                              /\ task'[t].status = "running" => task[t].status = "running"
                              /\ task'[t].status \in Live => task[t].status \in Live,
           latched' \in [TaskIds -> SUBSET Messages],
           \A t \in TaskIds : task[t].status = "absent" => latched'[t] = latched[t],
           hook' = 0, up' = TRUE,
           Busy => \E t \in TaskIds : task'[t].status = "running"
    PROVE  Typed' /\ Order'
<1> USE DEF IInv, Typed, Order, server, attempt
<1>1. /\ row' \in [Messages -> Cells]
      /\ \A m \in Messages : row'[m] = None <=> row[m] = None
      /\ \A m \in Messages : row'[m] # row[m] => FreeGoal(m) /\ row'[m].goal = None
  BY RevertedType
<1>2. TypeOK'
  <2>1. row' \in [Messages -> Rows \cup {None}]
        /\ \A m \in Messages : row'[m] # None /\ row'[m].goal = None => row'[m].state = "free"
    BY <1>1 DEF Cells
  <2> QED
    BY <2>1 DEF TypeOK, Tasks
<1>3. Handling'
  <2>1. ASSUME NEW c \in Calls, call[c] # NoCall
        PROVE  CallOK(c)'
    <3>1. CallOK(c) /\ call[c].task \in TaskIds
      BY <2>1 DEF Handling, CallOK, Entries
    <3> QED
      BY <3>1 DEF CallOK, Ids, Kind, Entries, RowSets
  <2> QED
    BY <2>1 DEF Handling
<1>4. Bounded' /\ Down'
  BY DEF Bounded, Busy, Down
<1>5. Chain'
  <2>1. \A t \in TaskIds : t > count => task[t].status = "absent" /\ latched[t] = {}
    BY DEF Chain
  <2>2. \A t \in TaskIds : t > count' => task'[t].status = "absent" /\ latched'[t] = {}
    BY <2>1
  <2>3. \A t \in TaskIds : task'[t].status = "running" =>
          \A s \in TaskIds : task'[s].status \in Live => t <= s
    BY DEF Chain
  <2> QED
    BY <2>2, <2>3 DEF Chain
<1>6. Exclusive'
  <2>1. \A c \in Calls : call[c].stage \in {"claimed", "done"} => call[c].claimed \subseteq Messages
    BY DEF Handling, CallOK, Entries, NoCall
  <2>2. ASSUME NEW c \in Calls, call[c].stage \in {"claimed", "done"}, NEW m \in call[c].claimed
        PROVE  row'[m] = row[m]
    <3>1. m \in Messages
      BY <2>1, <2>2
    <3>2. row[m].state = "intent"
      BY <2>2 DEF Exclusive
    <3> QED
      BY <1>1, <3>1, <3>2 DEF FreeGoal
  <2>3. call' = call /\ pass' = pass
    OBVIOUS
  <2> QED
    BY <2>2, <2>3 DEF Exclusive, Present
<1>7. Backed'
  BY <1>1 DEF Backed, Present
<1>8. OneDestination'
  BY DEF OneDestination, Kind
<1>9. Elsewhere'
  BY <1>1 DEF Elsewhere, FreeGoal, Present
<1> QED
  BY <1>2, <1>3, <1>4, <1>5, <1>6, <1>7, <1>8, <1>9

LEMMA LatchedType ==
    ASSUME IInv, NEW t \in TaskIds, NEW S \in SUBSET Messages
    PROVE  Latched(t, S) \in SUBSET Messages
  BY DEF Latched, IInv, Typed, TypeOK

LEMMA HookStep ==
    ASSUME IInv, Hook
    PROVE  IInv'
<1> DEFINE S == {m \in Owed(hook) : Kind(hook) = "move"}
<1>1. up /\ hook \in TaskIds
  BY TaskTyped DEF Hook, TaskIds
<1>2. S \in SUBSET Messages /\ \A m \in S : FreeGoal(m)
  <2>1. \A m \in S : /\ m \in Messages /\ items[hook][m] # None
                     /\ HasGoal(m, items[hook][m].to)
    BY DEF Owed, Kind
  <2>2. \A m \in S : items[hook][m].to \in Folders
    BY <1>1, <2>1 DEF IInv, Typed, TypeOK, Items
  <2> QED
    BY <2>1, <2>2 DEF HasGoal, FreeGoal
<1>3. row' = Withdrawn(S)
  <2>1. CASE Kind(hook) = "move"
    <3>1. \A m \in Messages : m \in S <=>
            /\ m \in Owed(hook) \ latched[hook] /\ items[hook][m] # None
            /\ HasGoal(m, items[hook][m].to)
      BY <2>1 DEF Owed, Kind
    <3>2. row' = Reverted(hook, Owed(hook))
      BY <2>1 DEF Hook, GivenBack, Kind
    <3> HIDE DEF S
    <3> QED
      BY <3>1, <3>2 DEF Reverted, Withdrawn
  <2>2. CASE Kind(hook) # "move"
    <3>1. row' = row
      BY <2>2 DEF Hook, GivenBack, Kind
    <3>2. S = {}
      BY <2>2
    <3> QED
      BY <3>1, <3>2, TypedRows DEF Withdrawn
  <2> QED
    BY <2>1, <2>2
<1>4. /\ UNCHANGED <<server, copies, known, outlived, count, items, undone, attempt, call,
                       pass, mishaps, task, up>>
      /\ latched' = [latched EXCEPT ![hook] = Latched(hook, Owed(hook))] /\ hook' = 0
  BY DEF Hook
<1>5. latched \in [TaskIds -> SUBSET Messages] /\ latched' \in [TaskIds -> SUBSET Messages]
  <2>1. Latched(hook, Owed(hook)) \in SUBSET Messages
    BY <1>1, OwedType, LatchedType
  <2> QED
    BY <1>4, <2>1 DEF IInv, Typed, TypeOK
<1>6. \A t \in TaskIds : task[t].status = "absent" => latched'[t] = latched[t]
  <2>1. task[hook].status # "absent"
    BY <1>1 DEF IInv, Order, Chain, TaskIds
  <2> QED
    BY <1>4, <1>5, <2>1
<1>7. Typed' /\ Order'
  <2> HIDE DEF S
  <2> QED
    BY <1>1, <1>2, <1>3, <1>4, <1>5, <1>6, TaskTyped, ObligationsFrame DEF Busy
<1>8. Obliged'
  <2>1. ASSUME NEW m \in Messages, FreeGoal(m)'
        PROVE  \E u \in TaskIds : Promised(u, m)' /\ Standing(u, m)'
    <3>1. FreeGoal(m) /\ row'[m] = row[m] /\ m \notin S
      <4> HIDE DEF S
      <4> QED
        BY <1>2, <1>3, <2>1, RevertedType DEF FreeGoal, Present
    <3>2. PICK u \in TaskIds : Promised(u, m) /\ Standing(u, m)
      BY <3>1 DEF IInv, Obliged
    <3>3. u # hook
      BY <3>1, <3>2, OwedType DEF Promised
    <3> QED
      BY <1>1, <1>4, <1>5, <3>1, <3>2, <3>3 DEF Promised, Standing, InHand, Kind, Ids, attempt
  <2> QED
    BY <2>1 DEF Obliged
<1> QED
  BY <1>7, <1>8 DEF IInv

LEMMA CrashStep ==
    ASSUME IInv, Crash
    PROVE  IInv'
<1> USE DEF IInv, Typed, Order, server, cache, ledger
<1>1. /\ up' = FALSE /\ call' = [c \in Calls |-> NoCall] /\ pass' = NoPass
      /\ left' = {} /\ wait' = FALSE /\ hook' = 0
      /\ UNCHANGED <<server, cache, ledger, tries>>
  BY DEF Crash
<1>2. mishaps' = mishaps + 1 /\ mishaps' \in 0..MaxMishaps /\ mishaps \in Nat
  BY MishapStep DEF Crash, Bounded
<1>3. TypeOK'
  <2>1. DOMAIN call' = Calls /\ hook' \in 0..MaxTasks /\ up' \in BOOLEAN /\ wait' \in BOOLEAN
        /\ left' \subseteq Messages
    <3>1. DOMAIN call' = Calls
      BY <1>1
    <3>2. hook' \in 0..MaxTasks
      BY <1>1
    <3>3. up' \in BOOLEAN /\ wait' \in BOOLEAN /\ left' \subseteq Messages
      BY <1>1
    <3> QED
      BY <3>1, <3>2, <3>3
  <2> HIDE DEF IInv, Typed, Order
  <2>2. TypeOK
    BY DEF IInv, Typed
  <2> QED
    BY <1>1, <2>1, <2>2 DEF TypeOK
<1>4. Handling'
  BY <1>1 DEF Handling, Passes, NoPass
<1>5. Bounded'
  BY <1>1, <1>2 DEF Bounded, Busy, TypeOK
<1>6. Down' /\ Backed' /\ OneDestination' /\ Elsewhere'
  BY <1>1 DEF Down, Backed, OneDestination, Elsewhere, FreeGoal, Present, Kind, NoPass
<1>7. Exclusive'
  BY <1>1 DEF Exclusive, NoCall, Engaged
<1>8. Chain'
  BY <1>1 DEF Chain
<1>9. Obliged'
  BY <1>1 DEF Obliged, FreeGoal, Promised, Standing, InHand, Present, Kind
<1> QED
  BY <1>3, <1>4, <1>5, <1>6, <1>7, <1>8, <1>9

LEMMA BootStep ==
    ASSUME IInv, Boot
    PROVE  IInv'
<1> DEFINE Failed == {t \in TaskIds : task[t].status = "failed"}
           S == {m \in Messages : \E t \in Failed : Kind(t) = "move" /\ m \in Owed(t)}
<1>1. /\ ~up /\ up' = TRUE
      /\ UNCHANGED <<server, copies, known, outlived, count, items, undone, attempt, call,
                     pass, hook, mishaps>>
      /\ hook = 0
  BY DEF Boot, IInv, Order, Down
<1>2. S \in SUBSET Messages /\ \A m \in S : FreeGoal(m)
  <2>1. ASSUME NEW m \in S PROVE FreeGoal(m)
    <3>1. PICK t \in TaskIds : /\ items[t][m] # None /\ HasGoal(m, items[t][m].to)
      BY DEF Owed, Kind
    <3>2. items[t][m].to \in Folders
      BY <3>1 DEF IInv, Typed, TypeOK, Items
    <3> QED
      BY <3>1, <3>2 DEF HasGoal, FreeGoal
  <2> QED
    BY <2>1
<1>3. row' = Withdrawn(S)
  <2>1. \A m \in Messages : m \in S <=> \E t \in Failed : Kind(t) = "move" /\ m \in Owed(t)
    OBVIOUS
  <2>2. row' = [m \in Messages |->
                        IF \E t \in Failed : Kind(t) = "move" /\ m \in Owed(t)
                            THEN NoGoal(row[m]) ELSE row[m]]
    BY DEF Boot
  <2> HIDE DEF Failed, S
  <2> QED
    BY <2>1, <2>2 DEF Withdrawn
<1>4. /\ latched' = [t \in TaskIds |-> IF t \in Failed THEN Latched(t, Owed(t)) ELSE latched[t]]
      /\ task' = [t \in TaskIds |-> IF task[t].status = "running"
                      THEN [task[t] EXCEPT !.status = "pending"] ELSE task[t]]
  BY DEF Boot
<1>5. \A t \in TaskIds : Latched(t, Owed(t)) \in SUBSET Messages
  BY OwedType, LatchedType
<1>6. latched' \in [TaskIds -> SUBSET Messages]
  BY <1>4, <1>5 DEF IInv, Typed, TypeOK
<1>7. ASSUME NEW t \in TaskIds
      PROVE  /\ task'[t] \in Tasks /\ task'[t].kind = task[t].kind
             /\ task'[t].status = IF task[t].status = "running" THEN "pending" ELSE task[t].status
  BY <1>4, TaskTyped DEF Tasks, Live
<1>8. task' \in [TaskIds -> Tasks]
  BY <1>4, <1>7
<1>9. Typed' /\ Order'
  <2>1. \A t \in TaskIds : task[t].status = "absent" => latched'[t] = latched[t]
    BY <1>4
  <2>2. \A t \in TaskIds : /\ task'[t].kind = task[t].kind
                           /\ task[t].status = "absent" <=> task'[t].status = "absent"
                           /\ task'[t].status = "running" => task[t].status = "running"
                           /\ task'[t].status \in Live => task[t].status \in Live
    BY <1>7 DEF Live
  <2>3. ~Busy
    BY <1>1 DEF Busy
  <2> HIDE DEF S, Failed
  <2> QED
    BY <1>1, <1>2, <1>3, <1>6, <1>8, <2>1, <2>2, <2>3, ObligationsFrame
<1>10. Obliged'
  <2>1. ASSUME NEW m \in Messages, FreeGoal(m)'
        PROVE  \E u \in TaskIds : Promised(u, m)' /\ Standing(u, m)'
    <3>1. FreeGoal(m) /\ row'[m] = row[m] /\ m \notin S
      <4> HIDE DEF S
      <4> QED
        BY <1>2, <1>3, <2>1, RevertedType DEF FreeGoal, Present
    <3>2. PICK u \in TaskIds : Promised(u, m) /\ Standing(u, m)
      BY <3>1 DEF IInv, Obliged
    <3>3. task[u].status # "failed"
      BY <3>1, <3>2, OwedType DEF Promised
    <3>4. Promised(u, m)'
      BY <1>1, <1>4, <1>7, <3>1, <3>2, <3>3 DEF Promised, Kind
    <3>5. task'[u].status = "pending"
      BY <1>7, <3>2, <3>3 DEF Standing
    <3> QED
      BY <3>4, <3>5 DEF Standing
  <2> QED
    BY <2>1 DEF Obliged
<1> QED
  BY <1>9, <1>10 DEF IInv
----------------------------------------------------------------------------
\* The steps of the attempt and of the engine: rows, items and calls.

LEMMA More ==
    ASSUME NEW t \in Nat, NEW a \in Nat, NEW x \in Nat, NEW y \in Nat, x <= y
    PROVE  /\ t <= a + x => t <= a + y
           /\ t < a + x => t < a + y
  OBVIOUS

LEMMA WorkFrame ==
    ASSUME IInv, up,
           UNCHANGED <<epoch, lookup, known, count, task, undone, tries, pass, hook, up>>,
           at' \in [Messages -> Folders \cup {None}], uids' \in [Messages -> Nat],
           uidnext' \in Nat,
           mishaps' \in mishaps..MaxMishaps,
           row' \in [Messages -> Cells], copies' \in SUBSET Places, outlived' \subseteq Messages,
           left' \subseteq Messages, wait' \in BOOLEAN,
           items' \in [TaskIds -> [Messages -> Items \cup {None}]],
           \A t \in TaskIds, m \in Messages : items'[t][m] # None => items'[t][m] = items[t][m],
           \A t \in TaskIds, m \in Messages : items'[t][m] # None => row'[m] # None,
           latched' \in [TaskIds -> SUBSET Messages],
           \A t \in TaskIds : task[t].status = "absent" => latched'[t] = latched[t],
           Undisturbed(row'), DOMAIN call' = Calls
    PROVE  TypeOK' /\ Bounded' /\ Backed' /\ Chain' /\ OneDestination' /\ Elsewhere'
<1> USE DEF IInv, Typed, Order
<1>1. TypeOK'
  <2>1. row' \in [Messages -> Rows \cup {None}]
        /\ \A m \in Messages : row'[m] # None /\ row'[m].goal = None => row'[m].state = "free"
    BY DEF Cells
  <2> QED
    BY <2>1 DEF TypeOK, Places
<1>2. Bounded'
  <2>1. mishaps' \in 0..MaxMishaps /\ mishaps <= mishaps' /\ mishaps \in Nat /\ mishaps' \in Nat
    BY DEF Bounded
  <2>2. Busy' <=> Busy
    BY DEF Busy
  <2>3. \A f \in Folders : epoch[f] \in Nat
    BY DEF TypeOK
  <2>4. tries' = tries /\ tries \in Nat /\ epoch' = epoch
    BY TaskTyped
  <2> HIDE DEF IInv, Typed, Order
  <2>5. Bounded
    BY DEF IInv, Typed
  <2>6. \A f \in Folders : epoch[f] <= mishaps'
    BY <2>1, <2>3, <2>5 DEF Bounded
  <2>7. tries <= MaxAttempts + mishaps' /\ (Busy \/ tries < MaxAttempts + mishaps')
    <3>1. MaxAttempts \in Nat
      OBVIOUS
    <3>2. tries <= MaxAttempts + mishaps /\ (~Busy => tries < MaxAttempts + mishaps)
      BY <2>5 DEF Bounded
    <3>3. tries <= MaxAttempts + mishaps'
      BY <2>1, <2>4, <3>1, <3>2, More
    <3>4. CASE Busy
      BY <3>3, <3>4
    <3>5. CASE ~Busy
      BY <2>1, <2>4, <3>1, <3>2, <3>3, <3>5, More
    <3> QED
      BY <3>4, <3>5
  <2> QED
    BY <2>1, <2>2, <2>4, <2>6, <2>7 DEF Bounded
<1>3. Backed' /\ OneDestination'
  BY DEF Backed, Present, OneDestination, Kind
<1>4. Chain'
  <2>1. \A t \in TaskIds : t > count => task[t].status = "absent" /\ latched'[t] = {}
    BY DEF Chain
  <2> QED
    BY <2>1 DEF Chain
<1>5. Elsewhere'
  BY DEF Elsewhere, Undisturbed, FreeGoal, Present
<1> QED
  BY <1>1, <1>2, <1>3, <1>4, <1>5

\* One call changes, and the others are as they were.
LEMMA CallFrame ==
    ASSUME IInv, up, NEW c \in Calls, NEW k, DOMAIN call' = Calls, call'[c] = k,
           \A d \in Calls \ {c} : call'[d] = call[d],
           UNCHANGED <<task, pass, hook, up>>,
           \A t \in TaskIds, m \in Messages : items'[t][m] # None => items'[t][m] = items[t][m],
           k = NoCall \/ CallOK(c)',
           \A d \in Calls \ {c} : call[d].stage \in {"claimed", "done"} =>
              \A m \in call[d].claimed : row'[m] = row[m],
           k.stage \in Engaged => \A d \in Calls \ {c} : call[d].stage \notin Engaged,
           k.stage \in {"claimed", "done"} =>
              /\ ~pass.on
              /\ \A m \in k.claimed :
                    row'[m] # None /\ row'[m].state = "intent" /\ row'[m].goal = k.dest
    PROVE  Handling' /\ Down' /\ Exclusive'
<1> USE DEF IInv, Typed, Order
<1>1. /\ DOMAIN call' = Calls /\ call'[c] = k
      /\ \A d \in Calls \ {c} : call'[d] = call[d]
  OBVIOUS
<1>2. Handling'
  <2>1. ASSUME NEW d \in Calls \ {c}, call[d] # NoCall
        PROVE  CallOK(d)'
    <3>1. /\ CallOK(d) /\ call[d].task \in TaskIds
          /\ DOMAIN call[d].rows \subseteq Messages
      BY <2>1, RowSetsType DEF Handling, CallOK, Entries
    <3> QED
      BY <1>1, <3>1 DEF CallOK, Ids, Kind, Entries, RowSets
  <2> QED
    BY <1>1, <2>1 DEF Handling
<1>3. Exclusive'
  <2>1. ASSUME NEW d \in Calls, call'[d].stage \in Engaged, NEW e \in Calls,
               call'[e].stage \in Engaged
        PROVE  e = d
    BY <1>1, <2>1 DEF Exclusive
  <2>2. ASSUME NEW d \in Calls, call'[d].stage \in {"claimed", "done"}
        PROVE  /\ ~pass.on
               /\ \A m \in call'[d].claimed :
                     row'[m] # None /\ row'[m].state = "intent" /\ row'[m].goal = call'[d].dest
    BY <1>1, <2>2 DEF Exclusive, Present
  <2> QED
    BY <2>1, <2>2 DEF Exclusive, Present
<1> QED
  BY <1>1, <1>2, <1>3 DEF Down

\* What keeps a promise: its item, no latch, and somebody who has it in hand.
LEMMA PromiseFrame ==
    ASSUME IInv, UNCHANGED <<task, hook, up>>, Undisturbed(row'),
           \A t \in TaskIds, m \in Messages : FreeGoal(m)' /\ Promised(t, m) =>
              /\ items'[t][m] = items[t][m] /\ m \notin latched'[t]
              /\ task[t].status = "running" /\ InHand(t, m) => InHand(t, m)'
    PROVE  Obliged'
<1>1. ASSUME NEW m \in Messages, FreeGoal(m)'
      PROVE  \E t \in TaskIds : Promised(t, m)' /\ Standing(t, m)'
  <2>1. FreeGoal(m) /\ row'[m].goal = row[m].goal
    BY <1>1 DEF Undisturbed, FreeGoal, Present
  <2>2. PICK t \in TaskIds : Promised(t, m) /\ Standing(t, m)
    BY <2>1 DEF IInv, Obliged
  <2>3. Promised(t, m)'
    BY <1>1, <2>1, <2>2 DEF Promised, Kind
  <2>4. Standing(t, m)'
    BY <1>1, <2>2 DEF Standing
  <2> QED
    BY <2>3, <2>4
<1> QED
  BY <1>1 DEF Obliged

\* A call that has not begun, for rows S to folder f.
Dialled(k, t, S, f) ==
    /\ k \in Entries /\ k # NoCall /\ k.stage = "dial" /\ k.task = t /\ k.dest = f
    /\ DOMAIN k.rows = S /\ DOMAIN k.hit = S /\ k.claimed = {}

LEMMA NewCallType ==
    ASSUME IInv, NEW t \in TaskIds, NEW S \in SUBSET Messages, S # {},
           \A m \in S : Present(m) /\ items[t][m] # None, NEW f \in Folders
    PROVE  Dialled(NewCall(t, S, f), t, S, f)
<1> DEFINE r == CHOOSE r \in {row[m] : m \in S} : TRUE
           g == r.mailbox
           rows == [m \in S |-> row[m]]
           due == [m \in S |-> items[t][m]]
           hit == [m \in S |-> 0]
           k == [stage |-> "dial", task |-> t, rows |-> rows, from |-> g,
                 known |-> known[g], due |-> due, dest |-> f, claimed |-> {},
                 open |-> TRUE, hit |-> hit, blind |-> S \cap outlived]
<1>1. \A m \in S : row[m] \in Rows
  BY TypedRows DEF Present, Cells
<1>2. r \in {row[m] : m \in S}
  OBVIOUS
<1>3. g \in Folders /\ known[g] \in Nat
  BY <1>1, <1>2, TypedRows DEF Rows
<1>4. rows \in RowSets /\ hit \in Hits
  BY <1>1, SomeRows, HitsType
<1>5. due \in Dues
  BY DEF Dues, IInv, Typed, TypeOK
<1>6. NewCall(t, S, f) = k
  BY DEF NewCall
<1>7. DOMAIN rows = S /\ DOMAIN hit = S
  OBVIOUS
<1> HIDE DEF g, r, rows, hit, due
<1> QED
  BY <1>3, <1>4, <1>5, <1>6, <1>7 DEF Dialled, Entries, NoCall

LEMMA NextChunkStep ==
    ASSUME IInv, NEW t \in TaskIds, NEW S \in SUBSET Messages, NextChunk(t, S)
    PROVE  IInv'
<1>1. /\ Job(t) /\ call["live"] = NoCall /\ Kind(t) = "move" /\ ~wait /\ S # {}
      /\ S \subseteq left /\ left' = left \ S
      /\ UNCHANGED <<server, cache, ledger, tries, wait, pass, hook, up, mishaps>>
  BY DEF NextChunk, Free
<1>2. up /\ task[t].status = "running" /\ \A u \in TaskIds \ {t} : task[u].status # "running"
  BY <1>1, OneJob
<1> DEFINE i == CHOOSE i \in {items[t][m] : m \in S} : TRUE
           f == i.to
<1>3. \E n \in S : f = items[t][n].to
  <2>1. i \in {items[t][m] : m \in S}
    BY <1>1
  <2> HIDE DEF i
  <2> QED
    BY <2>1
<1>4. CASE call' = call /\ \A m \in S : ~(FreeGoal(m) /\ Promised(t, m))
  <2>1. /\ DOMAIN call' = Calls /\ call'["live"] = NoCall /\ "live" \in Calls
        /\ NoCall.stage = "none"
    BY <1>1, <1>4 DEF Calls, NoCall, IInv, Typed, TypeOK
  <2>2. \A d \in Calls : call'[d] = call[d]
    BY <1>4
  <2>3. Handling' /\ Down' /\ Exclusive'
    BY <1>1, <1>2, <2>1, <2>2, CallFrame DEF ledger, cache, Engaged
  <2>4. Undisturbed(row')
    BY <1>1 DEF Undisturbed, FreeGoal, Present, cache
  <2>5. TypeOK' /\ Bounded' /\ Backed' /\ Chain' /\ OneDestination' /\ Elsewhere'
    BY <1>1, <1>2, <2>1, <2>3, <2>4, TypedRows, WorkFrame
    DEF ledger, cache, server, IInv, Typed, TypeOK, Order, Backed, Present, Bounded
  <2>6. ASSUME NEW u \in TaskIds, NEW m \in Messages, FreeGoal(m)', Promised(u, m)
        PROVE  /\ items'[u][m] = items[u][m] /\ m \notin latched'[u]
               /\ task[u].status = "running" /\ InHand(u, m) => InHand(u, m)'
    <3>1. FreeGoal(m) /\ items' = items /\ latched' = latched /\ up' = up /\ wait' = wait
      BY <1>1, <2>6 DEF FreeGoal, Present, cache, ledger
    <3>2. task[u].status = "running" => m \notin S
      BY <1>2, <1>4, <2>6, <3>1
    <3> QED
      BY <1>1, <2>6, <3>1, <3>2 DEF InHand, Promised
  <2>7. Obliged'
    BY <1>1, <2>4, <2>6, PromiseFrame DEF ledger
  <2> QED
    BY <2>3, <2>5, <2>7 DEF IInv, Typed, Order
<1>5. CASE /\ call' = [call EXCEPT !["live"] = NewCall(t, S, f)]
           /\ \A m \in S : items[t][m] # None
  <2>1. \A m \in S : Present(m) /\ items[t][m].to = f /\ f \in Folders
    <3>1. \A m \in S : Present(m) /\ items[t][m] \in Items
      BY <1>5 DEF IInv, Order, Backed, Typed, TypeOK
    <3>2. PICK n \in S : f = items[t][n].to
      BY <1>3
    <3> HIDE DEF f
    <3> QED
      BY <1>1, <1>5, <3>1, <3>2 DEF IInv, Order, OneDestination, Items
  <2> HIDE DEF f
  <2> DEFINE k == NewCall(t, S, f)
  <2>2. /\ k \in Entries /\ k # NoCall /\ k.stage = "dial" /\ k.task = t /\ k.dest = f
        /\ DOMAIN k.rows = S /\ DOMAIN k.hit = S /\ k.claimed = {}
    <3>1. f \in Folders
      BY <1>1, <2>1
    <3>2. S \in SUBSET Messages /\ \A m \in S : Present(m) /\ items[t][m] # None
      BY <1>5, <2>1
    <3>3. S # {}
      BY <1>1
    <3> HIDE DEF k
    <3>4. Dialled(NewCall(t, S, f), t, S, f)
      BY <3>1, <3>2, <3>3, NewCallType
    <3> QED
      BY <3>4 DEF Dialled, k
  <2> HIDE DEF k
  <2>3. /\ DOMAIN call' = Calls /\ call'["live"] = k /\ "live" \in Calls
        /\ \A d \in Calls \ {"live"} : call'[d] = call[d]
    BY <1>5 DEF k, Calls, IInv, Typed, TypeOK
  <2>4. CallOK("live")'
    BY <1>1, <1>2, <2>1, <2>2, <2>3 DEF CallOK, Ids, Kind, ledger, Entries, RowSets, Hits
  <2>5. Handling' /\ Down' /\ Exclusive'
    BY <1>1, <1>2, <2>2, <2>3, <2>4, CallFrame DEF ledger, cache, Engaged
  <2>6. Undisturbed(row')
    BY <1>1 DEF Undisturbed, FreeGoal, Present, cache
  <2>7. TypeOK' /\ Bounded' /\ Backed' /\ Chain' /\ OneDestination' /\ Elsewhere'
    BY <1>1, <1>2, <2>3, <2>5, <2>6, TypedRows, WorkFrame
    DEF ledger, cache, server, IInv, Typed, TypeOK, Order, Backed, Present, Bounded
  <2>8. Obliged'
    BY <1>1, <1>2, <2>2, <2>3, <2>6, PromiseFrame
    DEF ledger, cache, Promised, InHand, Ids
  <2> QED
    BY <2>5, <2>7, <2>8 DEF IInv, Typed, Order
<1>6. QED
  <2>1. CASE \E m \in S : S = {m} /\ items[t][m] = None /\ UNCHANGED call
    BY <1>4, <2>1 DEF Promised
  <2>2. CASE /\ \A m, n \in S : items[t][m] # None /\ row[m].mailbox = row[n].mailbox
             /\ call' = IF \E m \in S : row[m].mailbox = f THEN call
                            ELSE [call EXCEPT !["live"] = NewCall(t, S, f)]
    <3>1. CASE \E m \in S : row[m].mailbox = f
      <4>1. \A m \in S : row[m].mailbox = f
        BY <2>2, <3>1
      <4>2. \A m \in S : items[t][m].to = f
        <5>1. PICK n \in S : f = items[t][n].to
          BY <1>3
        <5> HIDE DEF f
        <5> QED
          BY <1>1, <2>2, <5>1 DEF IInv, Order, OneDestination
      <4>3. \A m \in S : ~(FreeGoal(m) /\ Promised(t, m))
        BY <4>1, <4>2 DEF Promised, IInv, Order, Elsewhere
      <4>4. call' = call
        BY <2>2, <3>1
      <4> QED
        BY <1>4, <4>3, <4>4
    <3>2. CASE ~\E m \in S : row[m].mailbox = f
      BY <1>5, <2>2, <3>2
    <3> QED
      BY <3>1, <3>2
  <2> QED
    BY <2>1, <2>2 DEF NextChunk

LEMMA NextEntryStep ==
    ASSUME IInv, NEW t \in TaskIds, NEW m \in Messages, NextEntry(t, m)
    PROVE  IInv'
<1>1. /\ Job(t) /\ call["live"] = NoCall /\ Kind(t) = "undo" /\ m \in left
      /\ left' = left \ {m}
      /\ UNCHANGED <<server, cache, count, task, undone, tries, pass, hook, up, mishaps>>
  BY DEF NextEntry, Free
<1>2. up /\ task[t].status = "running" /\ \A u \in TaskIds \ {t} : task[u].status # "running"
  BY <1>1, OneJob
<1>3. /\ epoch' = epoch /\ known' = known /\ count' = count /\ task' = task
      /\ undone' = undone /\ tries' = tries /\ pass' = pass /\ hook' = hook /\ up' = up
      /\ row' = row /\ copies' = copies /\ outlived' = outlived /\ mishaps' = mishaps
      /\ at' = at /\ uids' = uids /\ uidnext' = uidnext /\ lookup' = lookup
  BY <1>1 DEF server, cache
<1>4. /\ items \in [TaskIds -> [Messages -> Items \cup {None}]]
      /\ latched \in [TaskIds -> SUBSET Messages] /\ DOMAIN call = Calls
      /\ left' \subseteq Messages /\ wait \in BOOLEAN /\ "live" \in Calls
  BY <1>1 DEF IInv, Typed, TypeOK, Calls
<1>5. Undisturbed(row')
  BY <1>3 DEF Undisturbed, FreeGoal, Present
<1>6. /\ items' \in [TaskIds -> [Messages -> Items \cup {None}]]
      /\ latched' \in [TaskIds -> SUBSET Messages]
      /\ \A u \in TaskIds, n \in Messages :
            items'[u][n] # items[u][n] => u = t /\ items'[u][n] = None
      /\ \A u \in TaskIds \ {t} : latched'[u] = latched[u]
      /\ wait' \in BOOLEAN /\ (wait => wait')
  <2>1. CASE UNCHANGED <<items, latched>> /\ (wait' = wait \/ wait' = TRUE)
    BY <1>4, <2>1
  <2>2. CASE SettleUndo(items, t, m, FALSE) /\ wait' = wait
    <3>1. FALSE \in BOOLEAN
      OBVIOUS
    <3>2. /\ items' \in [TaskIds -> [Messages -> Items \cup {None}]]
          /\ items'[t][m] = None
          /\ \A u \in TaskIds, n \in Messages : u # t \/ n # m => items'[u][n] = items[u][n]
          /\ latched' \in [TaskIds -> SUBSET Messages]
          /\ \A u \in TaskIds \ {t} : latched'[u] = latched[u]
      BY <1>4, <2>2 DEF SettleUndo
    <3> QED
      BY <1>4, <2>2, <3>2
  <2> QED
    BY <2>1, <2>2 DEF NextEntry
<1>7. /\ \A u \in TaskIds, n \in Messages : items'[u][n] # None => items'[u][n] = items[u][n]
      /\ \A u \in TaskIds, n \in Messages : items'[u][n] # None => row'[n] # None
      /\ \A u \in TaskIds : task[u].status = "absent" => latched'[u] = latched[u]
  BY <1>2, <1>3, <1>6 DEF IInv, Order, Backed, Present
<1>8. /\ DOMAIN call' = Calls /\ \A d \in Calls \ {"live"} : call'[d] = call[d]
      /\ Handling' /\ Down' /\ Exclusive'
  <2>1. CASE call' = call
    <3>1. /\ DOMAIN call' = Calls /\ call'["live"] = NoCall /\ NoCall.stage = "none"
          /\ \A d \in Calls : call'[d] = call[d]
      BY <1>1, <1>4, <2>1 DEF NoCall
    <3> QED
      BY <1>2, <1>3, <1>4, <1>7, <3>1, CallFrame DEF Engaged
  <2>2. CASE /\ items[t][m] # None /\ items' = items
             /\ call' = [call EXCEPT !["live"] = NewCall(t, {m}, items[t][m].to)]
    <3> DEFINE f == items[t][m].to
               k == NewCall(t, {m}, f)
    <3>1. Present(m) /\ f \in Folders
      BY <2>2 DEF IInv, Order, Backed, Typed, TypeOK, Items
    <3> HIDE DEF f
    <3>2. /\ {m} \in SUBSET Messages /\ {m} # {}
          /\ \A n \in {m} : Present(n) /\ items[t][n] # None
      BY <2>2, <3>1
    <3>3. /\ k \in Entries /\ k # NoCall /\ k.stage = "dial" /\ k.task = t /\ k.dest = f
          /\ DOMAIN k.rows = {m} /\ DOMAIN k.hit = {m} /\ k.claimed = {}
      <4>1. Dialled(k, t, {m}, f)
        <5>1. PICK S \in SUBSET Messages : S = {m}
          BY <3>2
        <5>2. S # {} /\ \A n \in S : Present(n) /\ items[t][n] # None
          BY <3>2, <5>1
        <5> HIDE DEF k
        <5>3. Dialled(NewCall(t, S, f), t, S, f)
          BY <3>1, <5>2, NewCallType
        <5> QED
          BY <5>1, <5>3 DEF k
      <4> QED
        BY <4>1 DEF Dialled
    <3>4. /\ DOMAIN call' = Calls /\ call'["live"] = k
          /\ \A d \in Calls \ {"live"} : call'[d] = call[d]
      BY <1>4, <2>2 DEF f
    <3> HIDE DEF k
    <3>5. CallOK("live")'
      BY <1>1, <1>2, <1>3, <3>3, <3>4 DEF CallOK, Ids, Kind
    <3> QED
      BY <1>2, <1>3, <1>4, <1>7, <3>3, <3>4, <3>5, CallFrame DEF Engaged
  <2> QED
    BY <2>1, <2>2 DEF NextEntry
<1>9. TypeOK' /\ Bounded' /\ Backed' /\ Chain' /\ OneDestination' /\ Elsewhere'
  <2>1. /\ mishaps' \in mishaps..MaxMishaps /\ row' \in [Messages -> Cells]
        /\ copies' \in SUBSET Places /\ outlived' \subseteq Messages
        /\ at' \in [Messages -> Folders \cup {None}] /\ uids' \in [Messages -> Nat]
        /\ uidnext' \in Nat
    BY <1>3, TypedRows DEF IInv, Typed, TypeOK, Bounded
  <2> QED
    BY <1>2, <1>3, <1>4, <1>5, <1>6, <1>7, <1>8, <2>1, WorkFrame
<1>10. Obliged'
  <2>1. ASSUME NEW u \in TaskIds, NEW n \in Messages, FreeGoal(n)', Promised(u, n)
        PROVE  /\ items'[u][n] = items[u][n] /\ n \notin latched'[u]
               /\ task[u].status = "running" /\ InHand(u, n) => InHand(u, n)'
    <3>1. u # t /\ task[u].status # "running"
      BY <1>1, <1>2, <2>1 DEF Promised
    <3> QED
      BY <1>6, <2>1, <3>1 DEF Promised
  <2> QED
    BY <1>3, <1>5, <2>1, PromiseFrame
<1> QED
  BY <1>8, <1>9, <1>10 DEF IInv, Typed, Order
----------------------------------------------------------------------------
\* The end of a call.

FreeIn(r, m) == r[m] # None /\ r[m].goal # None /\ r[m].state = "free"

\* What the end of a call does to the row, the items and the latches.
LEMMA EndsType ==
    ASSUME IInv, NEW c \in Calls, call[c] # NoCall, NEW r \in [Messages -> Cells],
           NEW its \in [TaskIds -> [Messages -> Items \cup {None}]],
           NEW S \in SUBSET Messages, NEW waits, Ends(c, r, its, S, waits)
    PROVE  LET t == call[c].task
           IN /\ DOMAIN call' = Calls /\ call'[c] = NoCall
              /\ \A d \in Calls \ {c} : call'[d] = call[d]
              /\ wait' \in BOOLEAN /\ (wait => wait') /\ (c = "live" /\ waits => wait')
              /\ row' \in [Messages -> Cells]
              /\ \A m \in Messages : row'[m] # r[m] => r[m] # None /\ r[m].state = "free"
                                        /\ row'[m] # None /\ row'[m].goal = None
              /\ items' \in [TaskIds -> [Messages -> Items \cup {None}]]
              /\ \A u \in TaskIds, m \in Messages :
                    items'[u][m] # its[u][m] => Kind(u) = "undo" /\ items'[u][m] = None
              /\ latched' \in [TaskIds -> SUBSET Messages]
              /\ \A u \in TaskIds \ {t} : latched'[u] = latched[u]
              /\ Kind(t) = "move" =>
                    /\ c = "old" \/ waits => latched' = latched
                    /\ c = "live" /\ ~waits => 
                          /\ latched'[t] \subseteq latched[t] \cup S
                          /\ \A m \in S \ latched[t] : FreeIn(r, m) => row'[m].goal # call[c].dest
<1> DEFINE t == call[c].task
<1>1. /\ call' = [call EXCEPT ![c] = NoCall] /\ wait' = (wait \/ (c = "live" /\ waits))
      /\ DOMAIN call = Calls /\ wait \in BOOLEAN
  BY DEF Ends, IInv, Typed, TypeOK
<1>2. /\ t \in TaskIds /\ Kind(t) \in {"move", "undo"} /\ call[c].dest \in Folders
  BY TaskTyped DEF IInv, Typed, Handling, CallOK, Entries, Kind, Tasks
<1>3. items \in [TaskIds -> [Messages -> Items \cup {None}]] /\ latched \in [TaskIds -> SUBSET Messages]
  BY DEF IInv, Typed, TypeOK
<1>4. /\ DOMAIN call' = Calls /\ call'[c] = NoCall
      /\ \A d \in Calls \ {c} : call'[d] = call[d]
  BY <1>1
<1>5. wait' \in BOOLEAN /\ (wait => wait') /\ (c = "live" /\ waits => wait')
  BY <1>1
<1> HIDE DEF t
<1>6. CASE Kind(t) = "move"
  <2>1. /\ row' = IF c = "live" /\ ~waits
                      THEN [m \in Messages |->
                              IF m \in S \ latched[t] /\ r[m] # None
                                  /\ r[m].state = "free" /\ r[m].goal = call[c].dest
                                  THEN NoGoal(r[m]) ELSE r[m]]
                      ELSE r
        /\ latched' = IF c = "live" /\ ~waits
                          THEN [latched EXCEPT ![t] = Latched(t, S)] ELSE latched
        /\ items' = its
    BY <1>6 DEF Ends, t
  <2>2. Latched(t, S) \in SUBSET Messages /\ Latched(t, S) \subseteq latched[t] \cup S
    BY <1>2, LatchedType DEF Latched
  <2>3. CASE c = "live" /\ ~waits
    <3>1. row' = [m \in Messages |->
                              IF m \in S \ latched[t] /\ r[m] # None
                                  /\ r[m].state = "free" /\ r[m].goal = call[c].dest
                                  THEN NoGoal(r[m]) ELSE r[m]]
      BY <2>1, <2>3
    <3>2. /\ row' \in [Messages -> Cells]
          /\ \A m \in Messages : row'[m] # r[m] => r[m] # None /\ r[m].state = "free"
                                        /\ row'[m] # None /\ row'[m].goal = None
      <4>1. \A m \in Messages : r[m] # None =>
          /\ NoGoal(r[m]) \in Cells /\ NoGoal(r[m]) # None /\ NoGoal(r[m]).goal = None
        BY NoGoalType DEF Cells
      <4> QED
        BY <3>1, <4>1
    <3>3. \A m \in S \ latched[t] : FreeIn(r, m) => row'[m].goal # call[c].dest
      <4>1. \A m \in Messages : r[m] # None => NoGoal(r[m]).goal = None
        BY NoGoalType DEF Cells
      <4> QED
        BY <1>2, <3>1, <4>1 DEF FreeIn
    <3>4. latched' = [latched EXCEPT ![t] = Latched(t, S)]
      BY <2>1, <2>3
    <3>5. /\ latched' \in [TaskIds -> SUBSET Messages]
          /\ \A u \in TaskIds \ {t} : latched'[u] = latched[u]
          /\ latched'[t] \subseteq latched[t] \cup S
      BY <1>2, <1>3, <2>2, <3>4
    <3> QED
      BY <1>4, <1>5, <2>1, <2>3, <3>2, <3>3, <3>5 DEF t
  <2>4. CASE ~(c = "live" /\ ~waits)
    <3>1. row' = r /\ latched' = latched
      BY <2>1, <2>4
    <3> QED
      BY <1>3, <1>4, <1>5, <2>1, <2>4, <3>1 DEF t
  <2> QED
    BY <2>3, <2>4
<1>7. CASE Kind(t) = "undo"
  <2>1. PICK m \in Ids(c) : 
               IF waits \/ its[t][m] = None \/ (c = "old" /\ S # {})
                             THEN items' = its /\ UNCHANGED latched
                             ELSE SettleUndo(its, t, m, S # {} /\ ~Home(r, m, call[c].dest))
    BY <1>7 DEF Ends, t
  <2>2. m \in Messages /\ row' = r
    BY <1>7, RowSetsType DEF Ends, t, Ids, IInv, Typed, Handling, CallOK, Entries
  <2>3. /\ items' \in [TaskIds -> [Messages -> Items \cup {None}]]
        /\ \A u \in TaskIds, n \in Messages :
                    items'[u][n] # its[u][n] => u = t /\ items'[u][n] = None
        /\ latched' \in [TaskIds -> SUBSET Messages]
        /\ \A u \in TaskIds \ {t} : latched'[u] = latched[u]
    <3>1. CASE items' = its /\ latched' = latched
      BY <1>3, <3>1
    <3>2. CASE SettleUndo(its, t, m, S # {} /\ ~Home(r, m, call[c].dest))
      <4>1. CASE S # {} /\ ~Home(r, m, call[c].dest)
        <5>1. items' = its /\ latched' = [latched EXCEPT ![t] = @ \cup {m}]
          BY <3>2, <4>1 DEF SettleUndo
        <5> QED
          BY <1>2, <1>3, <2>2, <5>1
      <4>2. CASE ~(S # {} /\ ~Home(r, m, call[c].dest))
        <5>1. items' = [its EXCEPT ![t][m] = None] /\ latched' = latched
          BY <1>3, <3>2, <4>2 DEF SettleUndo
        <5> QED
          BY <1>2, <1>3, <2>2, <5>1
      <4> QED
        BY <4>1, <4>2
    <3> QED
      BY <2>1, <3>1, <3>2
  <2> QED
    BY <1>4, <1>5, <1>7, <2>2, <2>3 DEF t
<1> QED
  BY <1>2, <1>6, <1>7

\* What a call leaves to its end: r for the rows and its for the items.
EndsFrom(c, r, its) ==
    /\ r \in [Messages -> Cells] /\ Undisturbed(r)
    /\ its \in [TaskIds -> [Messages -> Items \cup {None}]]
    /\ \A t \in TaskIds, m \in Messages : its[t][m] # None => its[t][m] = items[t][m] /\ r[m] # None
    /\ \A t \in TaskIds, m \in Messages : FreeIn(r, m) => its[t][m] = items[t][m]
    /\ \A d \in Calls \ {c} : call[d].stage \in {"claimed", "done"} =>
          \A m \in call[d].claimed : r[m] = row[m]

\* A goal is given back or latched with it, unless it waits for another attempt.
LEMMA EndsStep ==
    ASSUME IInv, up, NEW c \in Calls, call[c] # NoCall, NEW r, NEW its, EndsFrom(c, r, its),
           NEW S \in SUBSET Ids(c), NEW waits, Ends(c, r, its, S, waits),
           UNCHANGED <<epoch, lookup, known, count, task, undone, tries, left, pass, hook, up>>,
           at' \in [Messages -> Folders \cup {None}], uids' \in [Messages -> Nat],
           uidnext' \in Nat, mishaps' \in mishaps..MaxMishaps,
           copies' \in SUBSET Places, outlived' \subseteq Messages,
           waits \/ \A m \in Ids(c) : FreeIn(r, m) => m \in S
    PROVE  IInv'
<1> DEFINE t == call[c].task
<1>1. Ids(c) \subseteq Messages /\ S \in SUBSET Messages
  BY RowSetsType DEF IInv, Typed, Handling, CallOK, Entries, Ids
<1>2. /\ DOMAIN call' = Calls /\ call'[c] = NoCall
      /\ \A d \in Calls \ {c} : call'[d] = call[d]
      /\ wait' \in BOOLEAN /\ (wait => wait') /\ (c = "live" /\ waits => wait')
      /\ row' \in [Messages -> Cells]
      /\ \A m \in Messages : row'[m] # r[m] => r[m] # None /\ r[m].state = "free"
                                /\ row'[m] # None /\ row'[m].goal = None
      /\ items' \in [TaskIds -> [Messages -> Items \cup {None}]]
      /\ \A u \in TaskIds, m \in Messages :
            items'[u][m] # its[u][m] => Kind(u) = "undo" /\ items'[u][m] = None
      /\ latched' \in [TaskIds -> SUBSET Messages]
      /\ \A u \in TaskIds \ {t} : latched'[u] = latched[u]
      /\ Kind(t) = "move" =>
            /\ c = "old" \/ waits => latched' = latched
            /\ c = "live" /\ ~waits => 
                  /\ latched'[t] \subseteq latched[t] \cup S
                  /\ \A m \in S \ latched[t] : FreeIn(r, m) => row'[m].goal # call[c].dest
  BY <1>1, EndsType DEF EndsFrom
<1>3. /\ CallOK(c) /\ t \in TaskIds /\ task[t].status # "absent"
  BY DEF IInv, Typed, Handling, CallOK, Entries
<1> HIDE DEF t
<1>4. /\ \A u \in TaskIds, m \in Messages : items'[u][m] # None => items'[u][m] = items[u][m]
      /\ \A u \in TaskIds, m \in Messages : items'[u][m] # None => row'[m] # None
      /\ \A u \in TaskIds : task[u].status = "absent" => latched'[u] = latched[u]
  BY <1>2, <1>3 DEF EndsFrom
<1>5. Undisturbed(row')
  BY <1>2 DEF Undisturbed, EndsFrom
<1>6. Handling' /\ Down' /\ Exclusive'
  <2>1. ASSUME NEW d \in Calls \ {c}, call[d].stage \in {"claimed", "done"},
               NEW m \in call[d].claimed
        PROVE  row'[m] = row[m]
    <3>1. m \in Messages
      BY <2>1 DEF IInv, Typed, Handling, CallOK, Entries, NoCall
    <3>2. r[m] = row[m] /\ row[m].state = "intent"
      BY <2>1 DEF EndsFrom, IInv, Order, Exclusive
    <3> QED
      BY <1>2, <3>1, <3>2
  <2>2. NoCall.stage \notin Engaged
    BY DEF NoCall, Engaged
  <2>3. NoCall.stage \notin {"claimed", "done"}
    BY DEF NoCall
  <2> QED
    BY <1>2, <1>4, <2>1, <2>2, <2>3, CallFrame
<1>7. TypeOK' /\ Bounded' /\ Backed' /\ Chain' /\ OneDestination' /\ Elsewhere'
  <2>1. left' \subseteq Messages
    BY DEF IInv, Typed, TypeOK
  <2> QED
    BY <1>2, <1>4, <1>5, <2>1, WorkFrame
<1>8. ASSUME NEW u \in TaskIds, NEW m \in Messages, FreeGoal(m)', Promised(u, m)
      PROVE  /\ items'[u][m] = items[u][m] /\ m \notin latched'[u]
             /\ task[u].status = "running" /\ InHand(u, m) => InHand(u, m)'
  <2>1. /\ row'[m] = r[m] /\ FreeIn(r, m) /\ r[m].goal = row[m].goal /\ row[m] # None
        /\ Kind(u) = "move" /\ m \notin latched[u] /\ items[u][m] # None
        /\ items[u][m].to = row[m].goal
    BY <1>2, <1>8 DEF FreeGoal, Present, FreeIn, EndsFrom, Undisturbed, Promised
  <2>2. items'[u][m] = items[u][m]
    BY <1>2, <2>1 DEF EndsFrom
  <2>3. m \in Ids(c) /\ u = t => items[u][m].to = call[c].dest
    BY <1>3, <2>1 DEF CallOK, t
  <2>4. CASE u = t /\ c = "live" /\ ~waits
    <3>1. m \in S /\ m \notin latched[t] => row'[m].goal # call[c].dest
      BY <1>2, <2>1, <2>4
    <3>2. m \notin Ids(c) /\ m \notin S
      BY <2>1, <2>3, <2>4, <3>1
    <3> QED
      BY <1>2, <2>1, <2>2, <2>4, <3>2 DEF InHand, Ids
  <2>5. CASE ~(u = t /\ c = "live" /\ ~waits)
    <3>1. m \notin latched'[u]
      BY <1>2, <2>1, <2>5 DEF Calls
    <3>2. InHand(u, m) => InHand(u, m)'
      BY <1>2, <2>5 DEF InHand, Ids, t, Calls
    <3> QED
      BY <2>2, <3>1, <3>2
  <2> QED
    BY <2>4, <2>5
<1>9. Obliged'
  BY <1>5, <1>8, PromiseFrame
<1> QED
  BY <1>6, <1>7, <1>9 DEF IInv, Typed, Order

LEMMA EndsBeside ==
    ASSUME IInv, Running, NEW c \in Calls, call[c] # NoCall, NEW r, NEW its,
           EndsFrom(c, r, its), NEW S \in SUBSET Ids(c), NEW waits, Ends(c, r, its, S, waits),
           UNCHANGED beside, mishaps' \in mishaps..MaxMishaps,
           waits \/ \A m \in Ids(c) : FreeIn(r, m) => m \in S
    PROVE  IInv'
<1>1. /\ UNCHANGED <<epoch, lookup, known, count, task, undone, tries, left, pass, hook, up>>
      /\ at' = at /\ uids' = uids /\ uidnext' = uidnext /\ copies' = copies
      /\ outlived' = outlived /\ up
  BY DEF beside, server, Running
<1>2. /\ at \in [Messages -> Folders \cup {None}] /\ uids \in [Messages -> Nat]
      /\ uidnext \in Nat /\ copies \in SUBSET Places /\ outlived \subseteq Messages
  BY DEF IInv, Typed, TypeOK, Places
<1> QED
  BY <1>1, <1>2, EndsStep

\* The call leaves the rows as they are, or takes goals from rows nobody else claims.
LEMMA EndsAsIs ==
    ASSUME IInv, NEW c \in Calls
    PROVE  EndsFrom(c, row, items)
  BY TypedRows DEF EndsFrom, Undisturbed, FreeGoal, Present, IInv, Typed, TypeOK, Order, Backed

LEMMA EndsWithdrawn ==
    ASSUME IInv, NEW c \in Calls, NEW W \in SUBSET Messages, \A m \in W : Present(m),
           \A d \in Calls \ {c} : call[d].stage \notin {"claimed", "done"}
    PROVE  /\ EndsFrom(c, Withdrawn(W), items)
           /\ \A m \in Messages : FreeIn(Withdrawn(W), m) => m \notin W /\ FreeGoal(m)
           /\ \A m \in Messages \ W : Withdrawn(W)[m] = row[m]
<1>1. \A m \in W : /\ NoGoal(row[m]) \in Cells /\ NoGoal(row[m]) # None
                   /\ NoGoal(row[m]).goal = None
  BY TypedRows, NoGoalType DEF Present, Cells
<1>2. Withdrawn(W) \in [Messages -> Cells]
  BY <1>1, TypedRows DEF Withdrawn
<1>3. \A m \in Messages : Withdrawn(W)[m] = IF m \in W THEN NoGoal(row[m]) ELSE row[m]
  BY DEF Withdrawn
<1>4. \A m \in Messages : row[m] # None => Withdrawn(W)[m] # None
  BY <1>1, <1>3
<1>5. \A m \in Messages : FreeIn(Withdrawn(W), m) => m \notin W /\ FreeGoal(m)
  BY <1>1, <1>3 DEF FreeIn, FreeGoal, Present
<1>6. Undisturbed(Withdrawn(W))
  BY <1>3, <1>5 DEF Undisturbed, FreeIn
<1>7. /\ items \in [TaskIds -> [Messages -> Items \cup {None}]]
      /\ \A t \in TaskIds, m \in Messages : items[t][m] # None => row[m] # None
  BY DEF IInv, Typed, TypeOK, Order, Backed, Present
<1> QED
  BY <1>2, <1>3, <1>4, <1>5, <1>6, <1>7 DEF EndsFrom

LEMMA CallType ==
    ASSUME IInv, NEW c \in Calls, call[c] # NoCall
    PROVE  /\ CallOK(c) /\ call[c] \in Entries /\ call[c].task \in TaskIds /\ DOMAIN call = Calls
           /\ Ids(c) \in SUBSET Messages /\ call[c].claimed \in SUBSET Ids(c)
           /\ call[c].dest \in Folders /\ call[c].open \in BOOLEAN /\ call[c].hit \in [Ids(c) -> Nat]
           /\ mishaps' = mishaps => mishaps' \in mishaps..MaxMishaps
           /\ \A k : Mishap(k) => mishaps' \in mishaps..MaxMishaps
<1>1. /\ CallOK(c) /\ call[c] \in Entries /\ call[c].task \in TaskIds /\ DOMAIN call = Calls
  BY DEF IInv, Typed, TypeOK, Handling, CallOK, Entries
<1>2. /\ Ids(c) \in SUBSET Messages /\ call[c].claimed \in SUBSET Ids(c)
      /\ call[c].dest \in Folders /\ call[c].open \in BOOLEAN
  BY <1>1, RowSetsType DEF CallOK, Entries, Ids
<1>3. call[c].hit \in [Ids(c) -> Nat]
  BY <1>1 DEF CallOK, Entries, Hits
<1>4. mishaps' = mishaps => mishaps' \in mishaps..MaxMishaps
  BY DEF IInv, Typed, Bounded
<1>5. \A k : Mishap(k) => mishaps' \in mishaps..MaxMishaps
  BY MishapStep DEF IInv, Typed, Bounded
<1> QED
  BY <1>1, <1>2, <1>3, <1>4, <1>5

LEMMA Calling ==
    ASSUME NEW k, k.stage # "none"
    PROVE  k # NoCall
  BY DEF NoCall

LEMMA WaitTimesOutStep ==
    ASSUME IInv, NEW c \in Calls, WaitTimesOut(c)
    PROVE  IInv'
<1>1. /\ call[c].stage # "none" /\ Running /\ Ends(c, row, items, {}, TRUE)
      /\ UNCHANGED beside /\ mishaps' = mishaps /\ {} \in SUBSET Ids(c)
  BY DEF WaitTimesOut
<1>2. call[c] # NoCall
  BY <1>1, Calling
<1> QED
  BY <1>1, <1>2, EndsAsIs, CallType, EndsBeside

LEMMA NotSentStep ==
    ASSUME IInv, NEW c \in Calls, NotSent(c)
    PROVE  IInv'
<1>1. call[c] # NoCall /\ Running /\ UNCHANGED beside
  <2>1. call[c].stage # "none" /\ Running /\ UNCHANGED beside
    BY DEF NotSent
  <2> QED
    BY <2>1, Calling
<1>2. Ids(c) \in SUBSET Ids(c) /\ Ids(c) \in SUBSET Messages
  BY <1>1, CallType
<1>3. ASSUME NEW W \in SUBSET Messages, \A m \in W : Present(m),
             \A d \in Calls \ {c} : call[d].stage \notin {"claimed", "done"},
             Ends(c, Withdrawn(W), items, Ids(c), FALSE), mishaps' \in mishaps..MaxMishaps
      PROVE  IInv'
  <2>1. EndsFrom(c, Withdrawn(W), items)
    BY <1>3, EndsWithdrawn
  <2> QED
    BY <1>1, <1>2, <1>3, <2>1, EndsBeside
<1>4. CASE /\ call[c].stage = "dial" /\ ~Moving /\ ~pass.on /\ Mishap("fault")
           /\ Ends(c, [m \in Messages |-> IF m \in Ids(c) /\ Claimable(c, m)
                                             THEN NoGoal(row[m]) ELSE row[m]],
                  items, Ids(c), FALSE)
  <2> DEFINE W == {m \in Ids(c) : Claimable(c, m)}
  <2>1. W \in SUBSET Messages /\ \A m \in W : Present(m)
    BY <1>2 DEF Claimable
  <2>2. Withdrawn(W) = [m \in Messages |-> IF m \in Ids(c) /\ Claimable(c, m)
                                             THEN NoGoal(row[m]) ELSE row[m]]
    BY DEF Withdrawn
  <2>3. \A d \in Calls \ {c} : call[d].stage \notin {"claimed", "done"}
    BY <1>4 DEF Moving, Engaged
  <2>4. mishaps' \in mishaps..MaxMishaps
    BY <1>1, <1>4, CallType
  <2>5. Ends(c, Withdrawn(W), items, Ids(c), FALSE)
    BY <1>4, <2>2
  <2> HIDE DEF W
  <2> QED
    BY <1>3, <2>1, <2>3, <2>4, <2>5
<1>5. CASE /\ call[c].stage = "claimed"
           /\ IF call[c].open THEN Mishap("fault") ELSE UNCHANGED mishaps
           /\ Ends(c, Claims(c), items, Ids(c), FALSE)
  <2> DEFINE W == {m \in call[c].claimed : Present(m) /\ row[m].state = "intent"}
  <2>1. W \in SUBSET Messages /\ \A m \in W : Present(m)
    BY <1>1, CallType
  <2>2. Withdrawn(W) = Claims(c)
    BY DEF Withdrawn, Claims
  <2>3. \A d \in Calls \ {c} : call[d].stage \notin {"claimed", "done"}
    BY <1>5 DEF IInv, Order, Exclusive, Engaged
  <2>4. mishaps' \in mishaps..MaxMishaps
    BY <1>1, <1>5, CallType
  <2>5. Ends(c, Withdrawn(W), items, Ids(c), FALSE)
    BY <1>5, <2>2
  <2> HIDE DEF W
  <2> QED
    BY <1>3, <2>1, <2>3, <2>4, <2>5
<1> QED
  BY <1>4, <1>5 DEF NotSent

LEMMA CommandRefusedStep ==
    ASSUME IInv, NEW c \in Calls, CommandRefused(c)
    PROVE  IInv'
<1>1. /\ Running /\ UNCHANGED beside /\ call[c].stage = "claimed"
      /\ IF Sent(c) = {} THEN UNCHANGED mishaps ELSE Mishap("fault")
      /\ Ends(c, Claims(c), items, Ids(c), FALSE)
  BY DEF CommandRefused
<1>2. call[c] # NoCall
  BY <1>1, Calling
<1> DEFINE W == {m \in call[c].claimed : Present(m) /\ row[m].state = "intent"}
<1>3. W \in SUBSET Messages /\ \A m \in W : Present(m)
  BY <1>2, CallType
<1>4. Withdrawn(W) = Claims(c)
  BY DEF Withdrawn, Claims
<1>5. \A d \in Calls \ {c} : call[d].stage \notin {"claimed", "done"}
  BY <1>1 DEF IInv, Order, Exclusive, Engaged
<1>6. mishaps' \in mishaps..MaxMishaps
  BY <1>1, <1>2, CallType
<1>7. Ends(c, Withdrawn(W), items, Ids(c), FALSE) /\ Ids(c) \in SUBSET Ids(c)
  BY <1>1, <1>4
<1> HIDE DEF W
<1>8. EndsFrom(c, Withdrawn(W), items)
  BY <1>3, <1>5, EndsWithdrawn
<1> QED
  BY <1>1, <1>2, <1>6, <1>7, <1>8, EndsBeside

\* What the command is not sent for loses its claim.
LEMMA CheckedType ==
    ASSUME IInv, NEW c \in Calls, call[c].stage = "claimed"
    PROVE  /\ EndsFrom(c, Checked(c), items) /\ Sent(c) \in SUBSET call[c].claimed
           /\ \A m \in Messages : FreeIn(Checked(c), m) => m \notin call[c].claimed /\ FreeGoal(m)
           /\ \A m \in Sent(c) : Checked(c)[m] = row[m]
           /\ \A m \in call[c].claimed : 
                 Present(m) /\ row[m].state = "intent" /\ row[m].goal = call[c].dest
           /\ ~pass.on
           /\ \A d \in Calls \ {c} : call[d].stage \notin Engaged
<1> DEFINE W == call[c].claimed \ Sent(c)
<1>1. call[c] # NoCall
  BY Calling
<1>2. /\ \A m \in call[c].claimed : 
            Present(m) /\ row[m].state = "intent" /\ row[m].goal = call[c].dest
      /\ ~pass.on
      /\ \A d \in Calls \ {c} : call[d].stage \notin Engaged
  BY DEF IInv, Order, Exclusive, Engaged
<1>3. Withdrawn(W) = Checked(c)
  BY DEF Withdrawn, Checked
<1>4. W \in SUBSET Messages /\ (\A m \in W : Present(m)) /\ Sent(c) \in SUBSET call[c].claimed
      /\ call[c].claimed \in SUBSET Messages /\ Sent(c) \cap W = {}
  BY <1>1, <1>2, CallType DEF Sent
<1>5. call[c].claimed = W \cup Sent(c)
  BY <1>4
<1>6. \A d \in Calls \ {c} : call[d].stage \notin {"claimed", "done"}
  BY <1>2 DEF Engaged
<1> HIDE DEF W
<1>7. /\ EndsFrom(c, Checked(c), items)
      /\ \A m \in Messages : FreeIn(Checked(c), m) => m \notin W /\ FreeGoal(m)
      /\ \A m \in Messages \ W : Checked(c)[m] = row[m]
  BY <1>3, <1>4, <1>6, EndsWithdrawn
<1>8. \A m \in Messages : FreeIn(Checked(c), m) => m \notin Sent(c)
  BY <1>2, <1>4, <1>7 DEF FreeIn
<1> QED
  BY <1>2, <1>4, <1>5, <1>7, <1>8

LEMMA AnswerLostStep ==
    ASSUME IInv, NEW c \in Calls, AnswerLost(c)
    PROVE  IInv'
<1>1. Running /\ UNCHANGED beside /\ call[c].stage # "none"
  BY DEF AnswerLost
<1>2. call[c] # NoCall
  BY <1>1, Calling
<1>3. CASE /\ call[c].stage = "done" /\ (UNCHANGED mishaps \/ Mishap("fault"))
           /\ Ends(c, row, items, Ids(c) \ call[c].claimed, Kind(call[c].task) = "undo")
  <2>1. Ids(c) \ call[c].claimed \in SUBSET Ids(c) /\ mishaps' \in mishaps..MaxMishaps
    BY <1>2, <1>3, CallType
  <2>2. \A m \in Ids(c) : FreeIn(row, m) => m \in Ids(c) \ call[c].claimed
    BY <1>3 DEF IInv, Order, Exclusive, FreeIn
  <2> QED
    BY <1>1, <1>2, <1>3, <2>1, <2>2, EndsAsIs, EndsBeside
<1>4. CASE /\ call[c].stage = "claimed" /\ Mishap("fault")
           /\ Ends(c, Checked(c), items, Ids(c) \ Sent(c), Kind(call[c].task) = "undo")
  <2>1. Ids(c) \ Sent(c) \in SUBSET Ids(c) /\ mishaps' \in mishaps..MaxMishaps
    BY <1>2, <1>4, CallType
  <2>2. EndsFrom(c, Checked(c), items)
    BY <1>4, CheckedType
  <2>3. \A m \in Ids(c) : FreeIn(Checked(c), m) => m \in Ids(c) \ Sent(c)
    BY <1>2, <1>4, CheckedType, CallType
  <2> QED
    BY <1>1, <1>2, <1>4, <2>1, <2>2, <2>3, EndsBeside
<1> QED
  BY <1>3, <1>4 DEF AnswerLost

\* A step of the engine that does not end the call.
LEMMA StageStep ==
    ASSUME IInv, Running, NEW c \in Calls, call[c] # NoCall, NEW r, EndsFrom(c, r, items), row' = r,
           NEW k, DOMAIN call' = Calls, call'[c] = k, \A d \in Calls \ {c} : call'[d] = call[d],
           k \in Entries, k.task = call[c].task, k.dest = call[c].dest,
           DOMAIN k.rows = Ids(c), DOMAIN k.hit = Ids(c), k.claimed \subseteq Ids(c),
           \A d \in Calls \ {c} : call[d].stage \notin Engaged,
           k.stage \in {"claimed", "done"} =>
              /\ ~pass.on
              /\ \A m \in k.claimed : r[m] # None /\ r[m].state = "intent" /\ r[m].goal = k.dest,
           UNCHANGED <<epoch, lookup, known, count, task, undone, tries, left, pass, hook, up>>,
           at' \in [Messages -> Folders \cup {None}], uids' \in [Messages -> Nat],
           uidnext' \in Nat, mishaps' = mishaps,
           UNCHANGED <<copies, outlived, items, latched, wait>>
    PROVE  IInv'
<1>1. /\ CallOK(c) /\ Ids(c) \in SUBSET Messages
  BY CallType
<1>2. up /\ items' = items
  BY DEF Running
<1>3. CallOK(c)'
  <2>1. Ids(c)' = Ids(c)
    BY DEF Ids
  <2>2. /\ call'[c] \in Entries /\ call'[c].claimed \subseteq Ids(c) /\ DOMAIN call'[c].hit = Ids(c)
        /\ call'[c].task = call[c].task /\ call'[c].dest = call[c].dest /\ task' = task
    OBVIOUS
  <2> QED
    BY <1>1, <1>2, <2>1, <2>2 DEF CallOK, Kind
<1>4. Handling' /\ Down' /\ Exclusive'
  <2>1. \A d \in Calls \ {c} : call[d].stage \notin {"claimed", "done"}
    BY DEF Engaged
  <2> QED
    BY <1>2, <1>3, <2>1, CallFrame
<1>5. TypeOK' /\ Bounded' /\ Backed' /\ Chain' /\ OneDestination' /\ Elsewhere'
  <2>1. /\ copies' \in SUBSET Places /\ outlived' \subseteq Messages
        /\ left' \subseteq Messages /\ wait' \in BOOLEAN /\ mishaps' \in mishaps..MaxMishaps
        /\ items' \in [TaskIds -> [Messages -> Items \cup {None}]]
        /\ latched' \in [TaskIds -> SUBSET Messages]
    BY DEF IInv, Typed, TypeOK, Places, Bounded
  <2>2. /\ row' \in [Messages -> Cells] /\ Undisturbed(row')
        /\ \A t \in TaskIds, m \in Messages : items'[t][m] # None => row'[m] # None
    BY <1>2 DEF EndsFrom
  <2> QED
    BY <1>2, <2>1, <2>2, WorkFrame
<1>6. Obliged'
  <2>1. Undisturbed(row')
    BY DEF EndsFrom
  <2>2. ASSUME NEW t \in TaskIds, NEW m \in Messages, FreeGoal(m)', Promised(t, m)
        PROVE  /\ items'[t][m] = items[t][m] /\ m \notin latched'[t]
               /\ task[t].status = "running" /\ InHand(t, m) => InHand(t, m)'
    <3>1. InHand(t, m) => InHand(t, m)'
      BY DEF InHand, Ids, Calls, NoCall, Entries
    <3> QED
      BY <2>2, <3>1 DEF Promised
  <2> QED
    BY <2>1, <2>2, PromiseFrame
<1> QED
  BY <1>4, <1>5, <1>6 DEF IInv, Typed, Order

LEMMA EnterStep ==
    ASSUME IInv, NEW c \in Calls, Enter(c)
    PROVE  IInv'
<1>1. Running /\ UNCHANGED beside /\ mishaps' = mishaps /\ call[c].stage = "dial"
  BY DEF Enter
<1>2. call[c] # NoCall
  BY <1>1, Calling
<1>3. CASE Ends(c, row, items, Ids(c), FALSE)
  <2>1. Ids(c) \in SUBSET Ids(c) /\ mishaps' \in mishaps..MaxMishaps
    BY <1>1, <1>2, CallType
  <2> QED
    BY <1>1, <1>2, <1>3, <2>1, EndsAsIs, EndsBeside
<1>4. CASE Ends(c, row, items, {}, TRUE)
  <2>1. {} \in SUBSET Ids(c) /\ mishaps' \in mishaps..MaxMishaps
    BY <1>1, <1>2, CallType
  <2> QED
    BY <1>1, <1>2, <1>4, <2>1, EndsAsIs, EndsBeside
<1> DEFINE k == call[c]
           n == IF Kind(k.task) = "move" THEN k ELSE NewCall(k.task, Ids(c), k.dest)
           e == [n EXCEPT !.stage = "wait", !.open = k.open]
<1>5. CASE /\ ~AtHome(c) /\ ~Moving /\ call' = [call EXCEPT ![c] = e]
           /\ UNCHANGED <<row, items, latched, wait>>
  <2>1. /\ n \in Entries /\ n.task = k.task /\ n.dest = k.dest /\ DOMAIN n.rows = Ids(c)
        /\ DOMAIN n.hit = Ids(c) /\ n.claimed \subseteq Ids(c)
    <3>1. CASE Kind(k.task) = "move"
      BY <1>2, <3>1, CallType DEF Ids
    <3>2. CASE Kind(k.task) # "move"
      <4>1. Kind(k.task) = "undo" /\ k.task \in TaskIds /\ k.dest \in Folders
        BY <1>2, <3>2, CallType, TaskTyped DEF Kind, Tasks
      <4>2. /\ Ids(c) \in SUBSET Messages /\ Ids(c) # {}
            /\ \A m \in Ids(c) : Present(m) /\ items[k.task][m] # None
        <5>1. PICK m \in Messages : Ids(c) = {m}
          BY <1>2, <4>1, CallType DEF CallOK
        <5>2. items[k.task][m] # None
          BY <1>5, <4>1, <5>1 DEF AtHome
        <5> QED
          BY <4>1, <5>1, <5>2 DEF IInv, Order, Backed
      <4>3. n = NewCall(k.task, Ids(c), k.dest)
        BY <3>2
      <4>4. /\ n \in Entries /\ n # NoCall /\ n.stage = "dial" /\ n.task = k.task
            /\ n.dest = k.dest
            /\ DOMAIN n.rows = Ids(c) /\ DOMAIN n.hit = Ids(c) /\ n.claimed = {}
        <5>1. PICK t \in TaskIds, S \in SUBSET Messages, f \in Folders :
                  /\ t = k.task /\ S = Ids(c) /\ f = k.dest
                  /\ S # {} /\ \A m \in S : Present(m) /\ items[t][m] # None
          BY <4>1, <4>2
        <5>2. Dialled(NewCall(t, S, f), t, S, f)
          BY <5>1, NewCallType
        <5>3. NewCall(k.task, Ids(c), k.dest) = NewCall(t, S, f)
          BY <5>1 DEF NewCall
        <5> QED
          BY <4>3, <5>1, <5>2, <5>3 DEF Dialled
      <4> QED
        BY <4>4
    <3> QED
      BY <3>1, <3>2
  <2>2. k.open \in BOOLEAN /\ "wait" \in Engaged
    BY <1>2, CallType DEF Engaged
  <2> HIDE DEF n, k
  <2>3. /\ e \in Entries /\ e.stage = "wait" /\ e.task = n.task /\ e.dest = n.dest
        /\ e.rows = n.rows /\ e.hit = n.hit /\ e.claimed = n.claimed
    <3>1. e \in Entries
      <4>1. \A x \in Entries, s \in Engaged, b \in BOOLEAN :
                [x EXCEPT !.stage = s, !.open = b] \in Entries
        BY DEF Entries
      <4> QED
        BY <2>1, <2>2, <4>1
    <3> QED
      BY <2>1, <3>1 DEF Entries
  <2> HIDE DEF e
  <2>4. /\ DOMAIN call' = Calls /\ call'[c] = e /\ \A d \in Calls \ {c} : call'[d] = call[d]
    BY <1>2, <1>5, CallType
  <2>5. \A d \in Calls \ {c} : call[d].stage \notin Engaged
    BY <1>5 DEF Moving
  <2>6. EndsFrom(c, row, items) /\ row' = row
    BY <1>5, EndsAsIs
  <2>7. /\ UNCHANGED <<epoch, lookup, known, count, task, undone, tries, left, pass, hook, up>>
        /\ at' = at /\ uids' = uids /\ uidnext' = uidnext /\ copies' = copies
        /\ outlived' = outlived
        /\ at \in [Messages -> Folders \cup {None}] /\ uids \in [Messages -> Nat]
        /\ uidnext \in Nat
    BY <1>1 DEF beside, server, IInv, Typed, TypeOK
  <2>8. e.task = call[c].task /\ e.dest = call[c].dest
    BY <2>1, <2>3 DEF k
  <2>9. DOMAIN e.rows = Ids(c) /\ DOMAIN e.hit = Ids(c) /\ e.claimed \subseteq Ids(c)
    BY <2>1, <2>3
  <2>10. e.stage \notin {"claimed", "done"}
    BY <2>3
  <2> QED
    BY <1>1, <1>2, <1>5, <2>3, <2>4, <2>5, <2>6, <2>7, <2>8, <2>9, <2>10, StageStep
<1> QED
  BY <1>3, <1>4, <1>5 DEF Enter

LEMMA ClaimStep ==
    ASSUME IInv, NEW c \in Calls, Claim(c)
    PROVE  IInv'
<1> DEFINE k == call[c]
           S == {m \in Ids(c) : Claimable(c, m)}
<1>1. Running /\ UNCHANGED beside /\ mishaps' = mishaps /\ call[c].stage = "wait" /\ ~pass.on
  BY DEF Claim
<1>2. call[c] # NoCall
  BY <1>1, Calling
<1>3. CASE Ends(c, row, items, Ids(c), Kind(call[c].task) = "undo")
  <2>1. Ids(c) \in SUBSET Ids(c) /\ mishaps' \in mishaps..MaxMishaps
    BY <1>1, <1>2, CallType
  <2> QED
    BY <1>1, <1>2, <1>3, <2>1, EndsAsIs, EndsBeside
<1>4. CASE /\ row' = [m \in Messages |-> IF m \in S
                                THEN [row[m] EXCEPT !.goal = k.dest, !.state = "intent"]
                                ELSE row[m]]
           /\ call' = [call EXCEPT ![c].stage = "claimed", ![c].claimed = S]
           /\ UNCHANGED <<items, latched, wait>>
  <2>1. /\ call[c] \in Entries /\ DOMAIN call = Calls /\ k.dest \in Folders
        /\ S \in SUBSET Ids(c) /\ Ids(c) \in SUBSET Messages /\ DOMAIN call[c].hit = Ids(c)
        /\ \A m \in S : Present(m)
    BY <1>2, CallType DEF Claimable
  <2> HIDE DEF S, k
  <2>2. \A m \in S : /\ row'[m] \in Cells /\ row'[m] # None
                     /\ row'[m].goal = k.dest /\ row'[m].state = "intent"
    <3>1. \A r \in Rows : LET q == [r EXCEPT !.goal = k.dest, !.state = "intent"]
                          IN q \in Cells /\ q # None /\ q.goal = k.dest /\ q.state = "intent"
      BY <2>1 DEF Rows, Cells
    <3>2. \A m \in S : row[m] \in Rows /\ m \in Messages
      BY <2>1, TypedRows DEF Present, Cells
    <3> QED
      BY <1>4, <3>1, <3>2
  <2>3. \A m \in Messages \ S : row'[m] = row[m]
    BY <1>4
  <2>4. row' \in [Messages -> Cells]
    BY <1>4, <2>2, <2>3, TypedRows
  <2>5. \A d \in Calls \ {c} : call[d].stage \notin Engaged
    BY <1>1 DEF IInv, Order, Exclusive, Engaged
  <2>6. EndsFrom(c, row', items)
    <3>1. Undisturbed(row')
      BY <2>2, <2>3 DEF Undisturbed, FreeGoal, Present
    <3>2. /\ items \in [TaskIds -> [Messages -> Items \cup {None}]]
          /\ \A t \in TaskIds, m \in Messages : items[t][m] # None => row[m] # None
      BY DEF IInv, Typed, TypeOK, Order, Backed, Present
    <3>3. \A m \in Messages : row[m] # None => row'[m] # None
      BY <2>2, <2>3
    <3> QED
      BY <2>4, <2>5, <3>1, <3>2, <3>3 DEF EndsFrom, Engaged
  <2> DEFINE e == [call[c] EXCEPT !.stage = "claimed", !.claimed = S]
  <2>7. /\ DOMAIN call' = Calls /\ call'[c] = e /\ \A d \in Calls \ {c} : call'[d] = call[d]
    BY <1>4, <2>1
  <2>8. /\ e \in Entries /\ e.stage = "claimed" /\ e.task = call[c].task /\ e.dest = call[c].dest
        /\ DOMAIN e.rows = Ids(c) /\ DOMAIN e.hit = Ids(c) /\ e.claimed = S
    BY <2>1 DEF Entries, Ids, Engaged
  <2> HIDE DEF e
  <2>9. /\ UNCHANGED <<epoch, lookup, known, count, task, undone, tries, left, pass, hook, up>>
        /\ at' = at /\ uids' = uids /\ uidnext' = uidnext /\ copies' = copies
        /\ outlived' = outlived
        /\ at \in [Messages -> Folders \cup {None}] /\ uids \in [Messages -> Nat]
        /\ uidnext \in Nat
    BY <1>1 DEF beside, server, IInv, Typed, TypeOK
  <2>10. \A m \in e.claimed : row'[m] # None /\ row'[m].state = "intent" /\ row'[m].goal = e.dest
    BY <2>2, <2>8 DEF k
  <2> QED
    <3>1. PICK r : r = row'
      OBVIOUS
    <3>2. EndsFrom(c, r, items)
      BY <2>6, <3>1
    <3>3. \A m \in e.claimed : r[m] # None /\ r[m].state = "intent" /\ r[m].goal = e.dest
      BY <2>10, <3>1
    <3>4. e.claimed \subseteq Ids(c)
      BY <2>1, <2>8
    <3>5. items' = items /\ latched' = latched /\ wait' = wait
      BY <1>4
    <3> QED
      BY <1>1, <1>2, <2>5, <2>7, <2>8, <2>9, <3>1, <3>2, <3>3, <3>4, <3>5, StageStep
<1> QED
  BY <1>3, <1>4 DEF Claim

LEMMA CommandStep ==
    ASSUME IInv, NEW c \in Calls, Command(c)
    PROVE  IInv'
<1> DEFINE X == UNION {Target(c, m) : m \in Sent(c)}
<1>1. /\ Running /\ call[c].stage = "claimed" /\ row' = Checked(c)
      /\ UNCHANGED <<epoch, lookup, copies, known, outlived, ledger, attempt, pass, hook, up, mishaps>>
  BY DEF Command
<1>2. call[c] # NoCall
  BY <1>1, Calling
<1>3. /\ CallOK(c) /\ call[c] \in Entries /\ DOMAIN call = Calls
      /\ Ids(c) \in SUBSET Messages /\ call[c].claimed \in SUBSET Ids(c)
      /\ call[c].dest \in Folders
  BY <1>2, CallType
<1>4. /\ at \in [Messages -> Folders \cup {None}] /\ uids \in [Messages -> Nat] /\ uidnext \in Nat
  BY DEF IInv, Typed, TypeOK
<1>5. X \in SUBSET Messages /\ \A m \in Sent(c) : Target(c, m) \subseteq X
  BY DEF Target, Named
<1>6. Cardinality(X) \in Nat
  BY <1>5, FS_Subset, FS_CardinalityType
<1> DEFINE h(n) == [m \in Ids(c) |-> IF m \in Sent(c) /\ Target(c, m) # {}
                                     THEN n[CHOOSE x \in Target(c, m) : TRUE] ELSE 0]
<1>7. PICK n \in [X -> uidnext..(uidnext + Cardinality(X) - 1)] :
          /\ uidnext' = uidnext + Cardinality(X)
          /\ at' = [x \in Messages |-> IF x \in X THEN call[c].dest ELSE at[x]]
          /\ uids' = [x \in Messages |-> IF x \in X THEN n[x] ELSE uids[x]]
          /\ call' = [call EXCEPT ![c].stage = "done", ![c].claimed = Sent(c), ![c].hit = h(n)]
  BY DEF Command
<1>8. h(n) \in [Ids(c) -> Nat]
  <2>1. \A x \in X : n[x] \in Nat
    BY <1>4, <1>6, <1>7
  <2>2. ASSUME NEW m \in Sent(c), Target(c, m) # {}
        PROVE  (CHOOSE x \in Target(c, m) : TRUE) \in X
    BY <1>5, <2>2
  <2> HIDE DEF X
  <2> QED
    BY <2>1, <2>2
<1>9. h(n) \in Hits /\ DOMAIN h(n) = Ids(c)
  BY <1>3, <1>8, HitsType
<1>10. /\ at' \in [Messages -> Folders \cup {None}] /\ uids' \in [Messages -> Nat]
       /\ uidnext' \in Nat
  <2> HIDE DEF X, h
  <2>1. \A x \in X : n[x] \in Nat
    BY <1>4, <1>6, <1>7
  <2>2. uidnext' \in Nat
    BY <1>4, <1>6, <1>7
  <2>3. at' \in [Messages -> Folders \cup {None}]
    BY <1>3, <1>4, <1>7
  <2>4. uids' \in [Messages -> Nat]
    BY <1>4, <1>7, <2>1
  <2> QED
    BY <2>2, <2>3, <2>4
<1> DEFINE e == [call[c] EXCEPT !.stage = "done", !.claimed = Sent(c), !.hit = h(n)]
<1>11. Sent(c) \in SUBSET call[c].claimed
  BY <1>1, CheckedType
<1> HIDE DEF h, X
<1>12. /\ DOMAIN call' = Calls /\ call'[c] = e /\ \A d \in Calls \ {c} : call'[d] = call[d]
  BY <1>3, <1>7
<1>13. /\ e \in Entries /\ e.stage = "done" /\ e.task = call[c].task /\ e.dest = call[c].dest
       /\ DOMAIN e.rows = Ids(c) /\ DOMAIN e.hit = Ids(c) /\ e.claimed = Sent(c)
  BY <1>3, <1>9, <1>11 DEF Entries, Ids, Engaged
<1> HIDE DEF e
<1>14. /\ UNCHANGED <<epoch, lookup, known, count, task, undone, tries, left, pass, hook, up>>
       /\ copies' = copies /\ outlived' = outlived /\ items' = items /\ latched' = latched
       /\ wait' = wait /\ mishaps' = mishaps
  BY <1>1 DEF ledger, attempt
<1>15. PICK r : r = Checked(c)
  OBVIOUS
<1>16. EndsFrom(c, r, items) /\ row' = r
  BY <1>1, <1>15, CheckedType
<1>17. /\ \A d \in Calls \ {c} : call[d].stage \notin Engaged
       /\ ~pass.on /\ e.claimed \subseteq Ids(c)
       /\ \A m \in e.claimed : r[m] # None /\ r[m].state = "intent" /\ r[m].goal = e.dest
  <2>1. /\ \A d \in Calls \ {c} : call[d].stage \notin Engaged
        /\ \A m \in Sent(c) : Checked(c)[m] = row[m]
        /\ \A m \in call[c].claimed :
              Present(m) /\ row[m].state = "intent" /\ row[m].goal = call[c].dest
        /\ ~pass.on
    BY <1>1, CheckedType
  <2> QED
    BY <1>3, <1>11, <1>13, <1>15, <2>1 DEF Present
<1> QED
  BY <1>1, <1>2, <1>10, <1>12, <1>13, <1>14, <1>16, <1>17, StageStep

LEMMA ArrivedType ==
    ASSUME IInv, NEW c \in Calls, call[c].stage = "done", NEW m \in call[c].claimed, NEW plus
    PROVE  /\ Arrived(c, m, plus) \in Cells /\ Arrived(c, m, plus) # None
           /\ Arrived(c, m, plus).goal = None \/ Arrived(c, m, plus).state # "free"
<1>1. /\ call[c].dest \in Folders /\ call[c].hit \in [Ids(c) -> Nat]
      /\ call[c].claimed \subseteq Ids(c) /\ Ids(c) \subseteq Messages
  BY Calling, CallType
<1>2. row[m] \in Rows /\ row[m].goal # None /\ call[c].hit[m] \in Nat
  <2>1. Present(m) /\ row[m].goal = call[c].dest
    BY DEF IInv, Order, Exclusive
  <2> QED
    BY <1>1, <2>1, TypedRows DEF Present, Cells
<1>3. CASE plus /\ call[c].hit[m] # 0
  <2>1. /\ NoGoal(row[m]) \in Rows /\ NoGoal(row[m]).goal = None /\ NoGoal(row[m]).state = "free"
    BY <1>2, NoGoalType DEF Cells
  <2>2. ASSUME NEW x \in Rows, x.goal = None, x.state = "free", NEW u \in Nat,
               NEW y, y = [x EXCEPT !.mailbox = call[c].dest, !.uid = u]
        PROVE  y \in Cells /\ y # None /\ y.goal = None
    <3>1. y \in Rows /\ y.goal = None /\ y.state = "free"
      BY <1>1, <2>2 DEF Rows
    <3> QED
      BY <3>1 DEF Cells
  <2>3. Arrived(c, m, plus) =
           [NoGoal(row[m]) EXCEPT !.mailbox = call[c].dest, !.uid = call[c].hit[m]]
    BY <1>3 DEF Arrived
  <2>4. PICK x : x = NoGoal(row[m])
    OBVIOUS
  <2> QED
    BY <1>2, <2>1, <2>2, <2>3, <2>4
<1>4. CASE ~(plus /\ call[c].hit[m] # 0)
  <2>1. ASSUME NEW x \in Rows, x.goal # None,
               NEW y, y = [x EXCEPT !.uid = 0, !.state = "confirmed"]
        PROVE  y \in Cells /\ y # None /\ y.state = "confirmed"
    <3>1. y \in Rows /\ y.goal = x.goal /\ y.state = "confirmed"
      BY <2>1 DEF Rows
    <3> QED
      BY <2>1, <3>1 DEF Cells
  <2>2. Arrived(c, m, plus) = [row[m] EXCEPT !.uid = 0, !.state = "confirmed"]
    BY <1>4 DEF Arrived
  <2> QED
    BY <1>2, <2>1, <2>2
<1> QED
  BY <1>3, <1>4

LEMMA AnswerStep ==
    ASSUME IInv, NEW c \in Calls, Answer(c)
    PROVE  IInv'
<1>1. /\ Running /\ call[c].stage = "done"
      /\ UNCHANGED <<server, known, count, task, undone, tries, left, pass, hook, up, mishaps>>
  BY DEF Answer
<1>2. call[c] # NoCall
  BY <1>1, Calling
<1>3. /\ CallOK(c) /\ Ids(c) \in SUBSET Messages /\ call[c].claimed \in SUBSET Ids(c)
      /\ call[c].dest \in Folders /\ call[c].hit \in [Ids(c) -> Nat]
      /\ mishaps' \in mishaps..MaxMishaps
  BY <1>1, <1>2, CallType
<1> DEFINE S == call[c].claimed
           bound(plus) == {m \in S : plus /\ call[c].hit[m] # 0}
           r(plus) == [m \in Messages |->
                    IF m \in S THEN Arrived(c, m, plus)
                    ELSE IF Present(m) /\ Duplicate(c, bound(plus), row[m].id, row[m].mailbox,
                                                    row[m].uid) THEN None ELSE row[m]]
           d(plus) == {e \in copies : ~Duplicate(c, bound(plus), e[1], e[2], e[3])}
<1>4. PICK plus \in UidPlus :
        /\ copies' = Rest(r(plus), d(plus))
        /\ outlived' = (outlived \cup {m \in bound(plus) : Mistaken(c, m)}) \ Gone(r(plus))
        /\ Ends(c, Shown(r(plus), d(plus)), Forget(items, Gone(r(plus))), Ids(c) \ S, FALSE)
  BY DEF Answer
<1>5. /\ \A m \in S : Present(m) /\ row[m].state = "intent" /\ row[m].goal = call[c].dest
      /\ \A x \in Calls \ {c} : call[x].stage \notin {"claimed", "done"}
  BY <1>1 DEF IInv, Order, Exclusive, Engaged
<1>6. \A m \in S : /\ Arrived(c, m, plus) \in Cells /\ Arrived(c, m, plus) # None
                   /\ Arrived(c, m, plus).goal = None \/ Arrived(c, m, plus).state # "free"
  BY <1>1, ArrivedType
<1>7. /\ r(plus) \in [Messages -> Cells] /\ d(plus) \in SUBSET Places
      /\ \A m \in Messages \ S : r(plus)[m] \in {None, row[m]}
      /\ \A m \in S : ~FreeIn(r(plus), m)
      /\ bound(plus) \in SUBSET Messages
  <2> DEFINE q == r(plus)
  <2>1. \A m \in S : q[m] = Arrived(c, m, plus)
    BY <1>3
  <2>2. \A m \in Messages \ S : q[m] \in {None, row[m]}
    OBVIOUS
  <2>3. \A m \in S : ~FreeIn(q, m)
    <3> HIDE DEF q
    <3> QED
      BY <1>6, <2>1 DEF FreeIn
  <2>4. \A m \in Messages : q[m] \in Cells
    <3> HIDE DEF q
    <3> QED
      BY <1>6, <2>1, <2>2, TypedRows DEF Cells
  <2>5. q \in [Messages -> Cells]
    BY <2>4
  <2>6. d(plus) \in SUBSET Places
    BY TypedRows
  <2>7. bound(plus) \in SUBSET Messages
    BY <1>3
  <2> QED
    BY <2>2, <2>3, <2>5, <2>6, <2>7
<1> HIDE DEF r, d, bound
<1>8. PICK q \in [Messages -> Cells], e \in SUBSET Places : q = r(plus) /\ e = d(plus)
  BY <1>7
<1>9. PICK s, its : s = Shown(q, e) /\ its = Forget(items, Gone(q))
  OBVIOUS
<1>10. /\ s \in [Messages -> Cells]
       /\ \A m \in Messages \ Gone(q) : s[m] = q[m]
       /\ \A m \in Gone(q) : s[m] # None => s[m].goal = None
       /\ Rest(q, e) \subseteq e
  BY <1>9, ShownType
<1>11. \A m \in Messages : FreeIn(s, m) => m \notin Gone(q) /\ m \notin S /\ s[m] = row[m]
  BY <1>7, <1>8, <1>10 DEF FreeIn, Gone
<1>12. /\ its \in [TaskIds -> [Messages -> Items \cup {None}]]
       /\ \A t \in TaskIds, m \in Messages : m \notin Gone(q) => its[t][m] = items[t][m]
       /\ \A t \in TaskIds, m \in Messages : its[t][m] # None =>
             m \notin Gone(q) /\ its[t][m] = items[t][m]
  BY <1>9 DEF Forget, IInv, Typed, TypeOK
<1>13. EndsFrom(c, s, its)
  <2>1. Undisturbed(s)
    BY <1>11 DEF Undisturbed, FreeIn, FreeGoal, Present
  <2>2. \A t \in TaskIds, m \in Messages : its[t][m] # None => its[t][m] = items[t][m] /\ s[m] # None
    BY <1>10, <1>12 DEF Gone
  <2>3. \A t \in TaskIds, m \in Messages : FreeIn(s, m) => its[t][m] = items[t][m]
    BY <1>11, <1>12
  <2> QED
    BY <1>5, <1>10, <1>12, <2>1, <2>2, <2>3 DEF EndsFrom
<1>14. /\ Ends(c, s, its, Ids(c) \ S, FALSE) /\ Ids(c) \ S \in SUBSET Ids(c)
       /\ \A m \in Ids(c) : FreeIn(s, m) => m \in Ids(c) \ S
  BY <1>3, <1>4, <1>8, <1>9, <1>11
<1>15. copies' \in SUBSET Places /\ outlived' \subseteq Messages
  BY <1>4, <1>7, <1>8, <1>10 DEF IInv, Typed, TypeOK
<1>16. /\ at' \in [Messages -> Folders \cup {None}] /\ uids' \in [Messages -> Nat]
       /\ uidnext' \in Nat /\ up
       /\ UNCHANGED <<epoch, lookup, known, count, task, undone, tries, left, pass, hook, up>>
  BY <1>1 DEF Running, server, IInv, Typed, TypeOK
<1> QED
  BY <1>2, <1>3, <1>13, <1>14, <1>15, <1>16, EndsStep
----------------------------------------------------------------------------
LEMMA Stutter ==
    ASSUME IInv, UNCHANGED vars
    PROVE  IInv'
<1>1. /\ UNCHANGED <<cache, ledger, attempt, call, hook, up>>
      /\ at' = at /\ uids' = uids /\ uidnext' = uidnext /\ epoch' = epoch
      /\ lookup' = lookup /\ mishaps' = mishaps /\ pass' = pass
  BY DEF vars, server
<1>2. /\ at' \in [Messages -> Folders \cup {None}] /\ uids' \in [Messages -> Nat]
      /\ uidnext' \in Nat /\ epoch' \in [Folders -> Nat]
      /\ \A f \in Folders : epoch'[f] <= mishaps'
      /\ mishaps' \in mishaps..MaxMishaps
  BY <1>1 DEF IInv, Typed, TypeOK, Bounded
<1>3. pass' \in Passes /\ (pass'.on => up /\ pass.on)
  BY <1>1 DEF IInv, Typed, Handling, Order, Down
<1> QED
  BY <1>1, <1>2, <1>3, Quiet

LEMMA EngineStep ==
    ASSUME IInv, NEW c \in Calls, Engine(c)
    PROVE  IInv'
  BY EnterStep, ClaimStep, WaitTimesOutStep, NotSentStep, CommandStep, CommandRefusedStep,
     AnswerLostStep, AnswerStep DEF Engine

LEMMA AttemptStep ==
    ASSUME IInv, Attempt
    PROVE  IInv'
<1>1. CASE Engine("live")
  BY <1>1, EngineStep DEF Calls
<1>2. ASSUME NEW t \in TaskIds, Begin(t) \/ Complete(t) \/ AttemptFails(t)
      PROVE  IInv'
  BY <1>2, BeginStep, CompleteStep, AttemptFailsStep
<1>3. ASSUME NEW t \in TaskIds, NEW S \in SUBSET Chosen, NextChunk(t, S)
      PROVE  IInv'
  BY <1>3, NextChunkStep
<1>4. ASSUME NEW t \in TaskIds, NEW m \in Chosen, NextEntry(t, m)
      PROVE  IInv'
  BY <1>4, NextEntryStep
<1> QED
  BY <1>1, <1>2, <1>3, <1>4 DEF Attempt

LEMMA PassActionStep ==
    ASSUME IInv, Pass
    PROVE  IInv'
<1>1. CASE StartPass \/ CloseFolder \/ EndPass
  BY <1>1, StartPassStep, CloseFolderStep, EndPassStep
<1>2. ASSUME NEW f \in Folders, OpenFolder(f) \/ FolderFails(f)
      PROVE  IInv'
  BY <1>2, OpenFolderStep, FolderFailsStep
<1>3. ASSUME NEW p \in pass.todo, Refresh(p)
      PROVE  IInv'
  BY <1>3, RefreshStep
<1>4. ASSUME NEW p \in pass.todo, NEW m \in Messages, Defer(p, m) \/ Reconcile(p, m)
      PROVE  IInv'
  BY <1>4, DeferStep, ReconcileStep
<1> QED
  BY <1>1, <1>2, <1>3, <1>4 DEF Pass

LEMMA NextInvariant == IInv /\ [Next]_vars => IInv'
<1> SUFFICES ASSUME IInv, [Next]_vars
             PROVE  IInv'
  OBVIOUS
<1>1. ASSUME NEW m \in Chosen, OtherMoves(m)
      PROVE  IInv'
  BY <1>1, OtherMovesStep
<1>2. ASSUME NEW f \in Folders, Rebuild(f)
      PROVE  IInv'
  BY <1>2, RebuildStep
<1>3. ASSUME NEW S \in SUBSET Chosen, NEW f \in Folders, AcceptMove(S, f)
      PROVE  IInv'
  BY <1>3, AcceptMoveStep
<1>4. ASSUME NEW t \in TaskIds, AcceptUndo(t) \/ AttemptTimesOut(t)
      PROVE  IInv'
  BY <1>4, AcceptUndoStep, AttemptTimesOutStep
<1>5. CASE Work
  BY <1>5, AttemptStep, EngineStep, HookStep, BootStep DEF Work, Calls
<1>6. CASE Pass
  BY <1>6, PassActionStep
<1>7. CASE Crash
  BY <1>7, CrashStep
<1>8. CASE UNCHANGED vars
  BY <1>8, Stutter
<1> QED
  BY <1>1, <1>2, <1>3, <1>4, <1>5, <1>6, <1>7, <1>8 DEF Next

\* In every execution the inductive invariant holds: the types, the order in which
\* tasks, calls and passes exclude each other, and what stands behind every goal.
THEOREM Invariant == SafetySpec => []IInv
<1>1. Init => IInv
  BY InitInvariant
<1>2. IInv /\ [Next]_vars => IInv'
  BY NextInvariant
<1> QED
  BY <1>1, <1>2, PTL DEF SafetySpec

\* The types, with the bounds on the number of attempts a crash or a timeout can
\* add, and that no row without a goal is claimed.
THEOREM TypeCorrect == SafetySpec => []TypeOK
<1>1. IInv => TypeOK
  BY DEF IInv, Typed
<1> QED
  BY <1>1, Invariant, PTL

\* However many tasks, messages and folders there are: a goal nothing has claimed is
\* owed by a task that will still look at it, through lost answers, abandoned calls,
\* crashes, rebuilt folders and passes that delete rows (kinds/move.ts, wiring.ts).
THEOREM NoGoalOrphaned == SafetySpec => []NoOrphanGoal
<1>1. IInv => NoOrphanGoal
  <2> SUFFICES ASSUME IInv, NEW m \in Messages, FreeGoal(m)
               PROVE  \E t \in TaskIds : /\ task[t].kind = "move" /\ m \in Owed(t)
                           /\ \/ task[t].status \in Live
                              \/ task[t].status = "failed" /\ (hook = t \/ ~up)
    BY DEF NoOrphanGoal, FreeGoal
  <2>1. PICK t \in TaskIds : Promised(t, m) /\ Standing(t, m)
    BY DEF IInv, Obliged
  <2>2. m \in Owed(t) /\ task[t].kind = "move"
    BY <2>1, OwedType DEF Promised, Kind
  <2> QED
    BY <2>1, <2>2 DEF Standing, Live
<1> QED
  BY <1>1, Invariant, PTL
=============================================================================
