----------------------------- MODULE MoveTasks -----------------------------
(***************************************************************************)
(* Moves between the folders of one account: a goal written when the user  *)
(* confirms (kinds/move.ts), a durable task that claims it and sends MOVE  *)
(* (sync-moves.ts), the undo of a move task (kinds/undo.ts), the settlement*)
(* of a task that gave up (wiring.ts), and the sync pass that decides what *)
(* an answer left open (sync.ts).  Beside them, other clients of the       *)
(* account and a provider that rebuilds a mailbox.                         *)
(*                                                                         *)
(* The chain of tasks is the one TaskScheduler describes.  An attempt that *)
(* is abandoned at its timeout keeps running: it is the old call below.    *)
(* A pass opens a folder, handles what it listed one message at a time, and*)
(* closes it; the rows a chunk names are in one folder.                    *)
(*                                                                         *)
(* A definition whose name has a suffix is a variant with a defect.        *)
(***************************************************************************)
EXTENDS Naturals, FiniteSets, Functions

CONSTANTS
    Messages,
    Folders,
    Priority,       \* the order in which a pass visits the folders (folderPriority)
    Chosen,         \* the messages the user moves
    Start,          \* the folder where every message begins
    FirstUid,       \* and the number it has there
    UidPlus,        \* whether an answer may, or must, name the new uids
    StableIds,      \* whether the provider may, or must, have opaque ids
    CanUndo,        \* whether the user may ask for an undo
    MaxTasks,       \* bound: tasks accepted
    MaxAttempts,    \* tasks.max_attempts
    Mishaps,        \* which of them happen, with opaque ids and without: "timeout",
                    \* "crash", "fault" (a refusal or a lost connection), "other"
                    \* (another client), "rebuild"
    MaxMishaps,     \* bound: all of them together
    None

ASSUME MoveAssumption ==
    /\ IsFiniteSet(Messages)
    /\ Start \in Folders /\ Chosen \subseteq Messages
    /\ FirstUid \in [Messages -> 1..Cardinality(Messages)] /\ IsInjective(FirstUid)
    /\ Priority \in [Folders -> Nat]
    /\ UidPlus \subseteq BOOLEAN /\ UidPlus # {}
    /\ StableIds \subseteq BOOLEAN /\ StableIds # {}
    /\ CanUndo \in BOOLEAN
    /\ {MaxTasks, MaxMishaps} \subseteq Nat
    /\ MaxAttempts \in Nat \ {0}
    /\ None \notin Messages \cup Folders

VARIABLES
    at, uids,   \* the provider: where a message is, and its number there
    uidnext,    \* the provider: the next number it gives out
    epoch,      \* the provider: UIDVALIDITY of each folder
    lookup,     \* the provider: whether it has opaque ids (remote_id_lookup)
    row,        \* the row the user sees of a message
    copies,     \* further rows sync has added for it: <<message, folder, uid>>
    known,      \* folders.uid_validity
    outlived,   \* history: rows whose number may not be their message's, because a
                \* reset kept them or their message changed under a call, and that
                \* no pass has found since
    count,      \* tasks accepted so far, numbered in commit order
    task,       \* kind, parent, status of a task
    items,      \* its task_items that are owed or given up, per message
    latched,    \* those with failed = 1
    undone,     \* tasks whose undo was accepted
    tries,      \* attempts of the task at the head
    left, wait, \* the attempt: ids not handled yet, and whether one must wait
    call,       \* the move engine: the call of the attempt, and an abandoned one
    pass,       \* the sync pass under way
    hook,       \* the failed task whose goals are still to be given back
    up,
    mishaps     \* how many there were

server   == <<at, uids, uidnext, epoch, lookup>>
cache    == <<row, copies, known, outlived>>
ledger   == <<count, task, items, latched, undone>>
attempt  == <<tries, left, wait>>
vars     == <<server, cache, ledger, attempt, call, pass, hook, up, mishaps>>

TaskIds == 1..MaxTasks
Calls   == {"live", "old"}
Live    == {"pending", "running"}
Ended   == {"completed", "failed"}
Rows    == [mailbox : Folders, uid : Nat, goal : Folders \cup {None},
            state : {"free", "intent", "confirmed"}, id : Messages]
Items   == [from : Folders, to : Folders, epoch : Folders \X Nat,
            uid : Nat, named : Messages \cup {None}]

ASSUME NoneAssumption == None \notin Rows /\ None \notin Items

\* Every variable has a value of its type, and only a goal can be claimed.
TypeOK ==
    /\ at \in [Messages -> Folders \cup {None}] /\ lookup \in BOOLEAN
    /\ uids \in [Messages -> Nat] /\ uidnext \in Nat
    /\ epoch \in [Folders -> 0..MaxMishaps] /\ known \in [Folders -> 0..MaxMishaps]
    /\ row \in [Messages -> Rows \cup {None}]
    /\ \A m \in Messages : row[m] # None /\ row[m].goal = None => row[m].state = "free"
    /\ copies \subseteq Messages \X Folders \X Nat /\ outlived \subseteq Messages
    /\ count \in 0..MaxTasks
    /\ task \in [TaskIds -> [kind : {"move", "undo"}, parent : 0..MaxTasks,
                             status : {"absent"} \cup Live \cup Ended]]
    /\ items \in [TaskIds -> [Messages -> Items \cup {None}]]
    /\ latched \in [TaskIds -> SUBSET Messages]
    /\ undone \subseteq TaskIds
    /\ tries \in 0..(MaxAttempts + MaxMishaps)
    /\ left \subseteq Messages /\ wait \in BOOLEAN
    /\ DOMAIN call = Calls
    /\ hook \in 0..MaxTasks
    /\ up \in BOOLEAN

NoCall == [stage |-> "none"]
NoPass == [on |-> FALSE, left |-> {}, open |-> None, todo |-> {}, fresh |-> {},
           prune |-> FALSE, absent |-> {}, seen |-> {}]

Init ==
    /\ at = [m \in Messages |-> Start]
    /\ uids = FirstUid /\ uidnext = Cardinality(Messages) + 1
    /\ epoch = [f \in Folders |-> 0] /\ known = epoch /\ lookup \in StableIds
    /\ row = [m \in Messages |-> [mailbox |-> Start, uid |-> uids[m], goal |-> None,
                                  state |-> "free", id |-> m]]
    /\ copies = {} /\ outlived = {}
    /\ count = 0
    /\ task = [t \in TaskIds |-> [kind |-> "move", parent |-> 0, status |-> "absent"]]
    /\ items = [t \in TaskIds |-> [m \in Messages |-> None]]
    /\ latched = [t \in TaskIds |-> {}]
    /\ undone = {}
    /\ tries = 0 /\ left = {} /\ wait = FALSE
    /\ call = [c \in Calls |-> NoCall]
    /\ pass = NoPass
    /\ hook = 0 /\ up = TRUE
    /\ mishaps = 0

----------------------------------------------------------------------------
\* The provider.  A number it has given out in a folder is not given out again
\* until the folder is rebuilt.

Mishap(k) == k \in Mishaps[lookup] /\ mishaps < MaxMishaps /\ mishaps' = mishaps + 1

In(f)       == {m \in Messages : at[m] = f}
Named(f, u) == {m \in Messages : at[m] = f /\ uids[m] = u}

\* Another client moves or deletes a message.
OtherMoves(m) ==
    /\ Mishap("other") /\ at[m] # None
    /\ \E f \in (Folders \cup {None}) \ {at[m]} : at' = [at EXCEPT ![m] = f]
    /\ uids' = [uids EXCEPT ![m] = uidnext] /\ uidnext' = uidnext + 1
    /\ UNCHANGED <<epoch, lookup, cache, ledger, attempt, call, pass, hook, up>>

\* The mailbox is rebuilt: the messages in it exchange their numbers.  What was
\* selected on a connection is lost with it.
Rebuild(f) ==
    /\ Mishap("rebuild")
    /\ \A c \in Calls : call[c].stage # "done"
    /\ \E p \in [In(f) -> In(f)] :
          /\ IsInjective(p)
          /\ uids' = [m \in Messages |-> IF m \in In(f) THEN uids[p[m]] ELSE uids[m]]
    /\ epoch' = [epoch EXCEPT ![f] = @ + 1]
    /\ UNCHANGED <<at, uidnext, lookup, cache, ledger, attempt, call, pass, hook, up>>

----------------------------------------------------------------------------
\* What a task owes, and giving it back.

Present(m) == row[m] # None
HasGoal(m, f) == Present(m) /\ row[m].state = "free" /\ row[m].goal = f
NoGoal_KeepsState(r) == [r EXCEPT !.goal = None]
NoGoal(r) == [r EXCEPT !.goal = None, !.state = "free"]

\* pendingMoveItemIds, pendingUndoItems
Owed(t) == {m \in Messages \ latched[t] :
                /\ items[t][m] # None
                /\ task[t].kind = "move" => HasGoal(m, items[t][m].to)}

\* revertMoveFailures: the latch, and the goal if nothing has claimed it.
Reverted(t, S) == [m \in Messages |->
    IF m \in S \ latched[t] /\ items[t][m] # None /\ HasGoal(m, items[t][m].to)
        THEN NoGoal(row[m]) ELSE row[m]]
Latched(t, S) == latched[t] \cup {m \in S : items[t][m] # None}

\* The permanent-failure obligation of a move or of an undo.
GivenBack(t) == IF task[t].kind = "move" THEN Reverted(t, Owed(t)) ELSE row

\* Rows r and copies c become the cache.  Deleting a row leaves the items its,
\* where they are about it, without a message to find; the message is shown by a
\* copy of it, if there is one.
Fresh(x, f, u) == [mailbox |-> f, uid |-> u, goal |-> None, state |-> "free", id |-> x]
Gone(r)        == {m \in Messages : r[m] = None}
Forget(its, S) ==
    [t \in TaskIds |-> [m \in Messages |-> IF m \in S THEN None ELSE its[t][m]]]
Other(c, m)    == {d \in c : d[1] = m}
Twin(c, m)     == CHOOSE d \in Other(c, m) : TRUE
Shown(r, c)    == [m \in Messages |-> IF m \in Gone(r) /\ Other(c, m) # {}
                       THEN Fresh(m, Twin(c, m)[2], Twin(c, m)[3]) ELSE r[m]]
Rest(r, c)     == c \ {Twin(c, m) : m \in {x \in Gone(r) : Other(c, x) # {}}}

----------------------------------------------------------------------------
\* Acceptance: one transaction, then the task is started.

Running == up /\ hook = 0

Accept(kind, parent, its) ==
    /\ count < MaxTasks
    /\ count' = count + 1
    /\ task' = [task EXCEPT ![count + 1] =
                    [kind |-> kind, parent |-> parent, status |-> "pending"]]
    /\ items' = [items EXCEPT ![count + 1] = its]

\* The item freezes where the row is and the generation the cache has for it;
\* and, for the properties, the number the row has and what it stands for.
Frozen(m, f) == [from |-> row[m].mailbox, to |-> f,
                 epoch |-> <<row[m].mailbox, known[row[m].mailbox]>>, uid |-> row[m].uid,
                 named |-> IF m \in outlived THEN None ELSE row[m].id]

\* A row that is elsewhere and that no other move has.  What cannot be moved is
\* counted at once and never looked at again.
AcceptMove(S, f) ==
    /\ Running /\ S # {}
    /\ \A m \in S : Present(m) /\ row[m].mailbox # f /\ row[m].goal = None
    /\ Accept("move", 0, [m \in Messages |-> IF m \in S THEN Frozen(m, f) ELSE None])
    /\ row' = [m \in Messages |-> IF m \in S THEN [row[m] EXCEPT !.goal = f] ELSE row[m]]
    /\ UNCHANGED <<server, copies, known, outlived, latched, undone, attempt, call, pass,
                   hook, up, mishaps>>

\* The undo of a move that has ended, once.  It freezes the generation of the
\* folder the row is in now, and where each message came from.
AcceptUndo(p) ==
    /\ Running /\ CanUndo
    /\ task[p].kind = "move" /\ task[p].status \in Ended /\ p \notin undone
    /\ \E m \in Messages : items[p][m] # None
    /\ Accept("undo", p, [m \in Messages |->
            IF items[p][m] = None THEN None ELSE Frozen(m, items[p][m].from)])
    /\ undone' = undone \cup {p}
    /\ UNCHANGED <<server, cache, latched, attempt, call, pass, hook, up, mishaps>>

----------------------------------------------------------------------------
\* The attempt.  The runner reads what is owed, hands chunks to the engine and
\* settles each one.

Head(t) == /\ task[t].status \in Live
           /\ \A s \in TaskIds : task[s].status \in Live => t <= s
Job(t)  == Running /\ Head(t) /\ task[t].status = "running"
Kind(t) == task[t].kind

Begin(t) ==
    /\ Running /\ Head(t) /\ task[t].status = "pending"
    /\ task' = [task EXCEPT ![t].status = "running"]
    /\ tries' = tries + 1
    /\ left' = Owed(t) /\ wait' = FALSE
    /\ UNCHANGED <<server, cache, count, items, latched, undone, call, pass, hook, up,
                   mishaps>>

\* A call of the engine: the rows as they were read and their generation then,
\* what was accepted for each, what has been claimed of them, the folder they go
\* to, whether the connection is usable, and once the command is carried out the
\* new number of each.  For the properties: the rows that had outlived their folder
\* when they were read.
NewCall(t, S, f) ==
    LET g == (CHOOSE r \in {row[m] : m \in S} : TRUE).mailbox
    IN [stage |-> "dial", task |-> t, rows |-> [m \in S |-> row[m]], from |-> g,
        known |-> known[g], due |-> [m \in S |-> items[t][m]], dest |-> f,
        claimed |-> {}, open |-> TRUE, hit |-> [m \in S |-> 0], blind |-> S \cap outlived]

Free(t) == Job(t) /\ call["live"] = NoCall

\* batchMoveMessages: a chunk of rows of one folder.  A row sync has dropped
\* cannot be moved, and rows already in the folder are done.
NextChunk(t, S) ==
    /\ Free(t) /\ Kind(t) = "move" /\ ~wait
    /\ S # {} /\ S \subseteq left
    /\ left' = left \ S
    /\ \/ \E m \in S : S = {m} /\ items[t][m] = None /\ UNCHANGED call
       \/ /\ \A m, n \in S : items[t][m] # None /\ row[m].mailbox = row[n].mailbox
          /\ LET f == (CHOOSE i \in {items[t][m] : m \in S} : TRUE).to
             IN call' = IF \E m \in S : row[m].mailbox = f THEN call
                            ELSE [call EXCEPT !["live"] = NewCall(t, S, f)]
    /\ UNCHANGED <<server, cache, ledger, tries, wait, pass, hook, up, mishaps>>

\* settleUndoItem
SettleUndo(its, t, m, failed) ==
    /\ items' = [its EXCEPT ![t][m] = IF failed THEN @ ELSE None]
    /\ latched' = [latched EXCEPT ![t] = IF failed THEN @ \cup {m} ELSE @]

\* The undo goes message by message: one whose move is not decided waits, one
\* that is home, or that a newer decision has moved on, is done, and the others
\* go to the engine.
NextEntry(t, m) ==
    /\ Free(t) /\ Kind(t) = "undo" /\ m \in left
    /\ left' = left \ {m}
    /\ \/ items[t][m] = None /\ UNCHANGED <<items, latched, wait, call>>
       \/ /\ items[t][m] # None /\ row[m].state # "free"
          /\ wait' = TRUE /\ UNCHANGED <<items, latched, call>>
       \/ /\ items[t][m] # None /\ row[m].state = "free"
          /\ row[m].mailbox # items[task[t].parent][m].to
          /\ SettleUndo(items, t, m, FALSE) /\ UNCHANGED <<wait, call>>
       \/ /\ items[t][m] # None /\ row[m].state = "free"
          /\ row[m].mailbox = items[task[t].parent][m].to
          /\ call' = [call EXCEPT !["live"] = NewCall(t, {m}, items[t][m].to)]
          /\ UNCHANGED <<items, latched, wait>>
    /\ UNCHANGED <<server, cache, count, task, undone, tries, pass, hook, up, mishaps>>

----------------------------------------------------------------------------
\* The end of a call.  The live attempt gives back and latches what failed, or
\* waits; of an abandoned one nothing is settled but an undo that landed.

Ids(c) == DOMAIN call[c].rows
Home(r, m, f) == r[m].state = "free" /\ r[m].mailbox = f

\* r and its are the rows and the items the engine leaves, S what it could not move.
Ends(c, r, its, S, waits) ==
    LET k == call[c]
        t == k.task
    IN /\ call' = [call EXCEPT ![c] = NoCall]
       /\ wait' = (wait \/ (c = "live" /\ waits))
       /\ IF Kind(t) = "move"
              THEN /\ row' = IF c = "live" /\ ~waits
                                 THEN [m \in Messages |->
                                         IF m \in S \ latched[t] /\ r[m] # None
                                             /\ r[m].state = "free" /\ r[m].goal = k.dest
                                             THEN NoGoal(r[m]) ELSE r[m]]
                                 ELSE r
                   /\ latched' = IF c = "live" /\ ~waits
                                     THEN [latched EXCEPT ![t] = Latched(t, S)] ELSE latched
                   /\ items' = its
              ELSE /\ row' = r
                   /\ \E m \in Ids(c) :
                         IF waits \/ its[t][m] = None \/ (c = "old" /\ S # {})
                             THEN items' = its /\ UNCHANGED latched
                             ELSE SettleUndo(its, t, m, S # {} /\ ~Home(r, m, k.dest))

\* What the end of a call leaves alone.
beside == <<server, copies, known, outlived, count, task, undone, tries, left, pass, hook,
            up>>

Engaged == {"wait", "claimed", "done"}
Moving  == \E c \in Calls : call[c].stage \in Engaged
Claims(c) ==
    [m \in Messages |-> IF m \in call[c].claimed /\ Present(m) /\ row[m].state = "intent"
                            THEN NoGoal(row[m]) ELSE row[m]]

\* The row of an undo is read only now.  One that has a goal waits; one that is
\* gone or home is done, or counted as failed if its place is not decided.
Blocked(c) == Kind(call[c].task) = "undo" /\ \E m \in Ids(c) :
                /\ items[call[c].task][m] # None
                /\ row[m].goal # None /\ row[m].state # "intent"
AtHome(c)  == Kind(call[c].task) = "undo" /\ \A m \in Ids(c) :
                items[call[c].task][m] # None => row[m].mailbox = call[c].dest

\* The connection is there.  Another move under way on the account means
\* waiting for one's turn; otherwise the account is marked as moving.
Enter(c) ==
    /\ Running /\ call[c].stage = "dial"
    /\ LET k == call[c]
       IN \/ ~Blocked(c) /\ AtHome(c) /\ Ends(c, row, items, Ids(c), FALSE)
          \/ /\ Blocked(c) \/ (~AtHome(c) /\ Moving)
             /\ Ends(c, row, items, {}, TRUE)
          \/ /\ ~Blocked(c) /\ ~AtHome(c) /\ ~Moving
             /\ LET n == IF Kind(k.task) = "move" THEN k ELSE NewCall(k.task, Ids(c), k.dest)
                IN call' = [call EXCEPT ![c] = [n EXCEPT !.stage = "wait", !.open = k.open]]
             /\ UNCHANGED <<row, items, latched, wait>>
    /\ UNCHANGED <<beside, mishaps>>

\* A row that still carries the goal it was read with, or has none, is claimed.
\* A claim left by an interrupted move is taken over if the message is still
\* where it was.
Claimable(c, m) ==
    LET k == call[c]
        r == k.rows[m]
    IN /\ Present(m) /\ items[k.task][m] # None
       /\ \/ /\ r.state = "free" /\ r.goal = k.dest
             /\ row[m].goal = None \/ HasGoal(m, k.dest)
          \/ r.goal = None /\ row[m].goal = None
          \/ /\ r.state = "intent" /\ Named(r.mailbox, r.uid) # {}
             /\ row[m].state = "intent" \/ row[m].goal = None

\* The pass that was running has ended: the rows are claimed, durably, before
\* anything is sent.
Claim(c) ==
    /\ Running /\ call[c].stage = "wait" /\ ~pass.on
    /\ LET k == call[c]
           S == {m \in Ids(c) : Claimable(c, m)}
       IN IF S = {}
              THEN Ends(c, row, items, Ids(c), Kind(k.task) = "undo")
              ELSE /\ row' = [m \in Messages |-> IF m \in S
                                THEN [row[m] EXCEPT !.goal = k.dest, !.state = "intent"]
                                ELSE row[m]]
                   /\ call' = [call EXCEPT ![c].stage = "claimed", ![c].claimed = S]
                   /\ UNCHANGED <<items, latched, wait>>
    /\ UNCHANGED <<beside, mishaps>>

\* The pass outlives the wait.
WaitTimesOut(c) ==
    /\ Running /\ call[c].stage = "wait" /\ pass.on
    /\ Ends(c, row, items, {}, TRUE)
    /\ UNCHANGED <<beside, mishaps>>

\* Nothing was sent: no connection, or no mailbox.
NotSent(c) ==
    /\ Running
    /\ \/ call[c].stage = "dial" /\ ~Moving /\ ~pass.on /\ Mishap("fault")
          /\ Ends(c, [m \in Messages |-> IF m \in Ids(c) /\ Claimable(c, m)
                                             THEN NoGoal(row[m]) ELSE row[m]],
                  items, Ids(c), FALSE)
       \/ /\ call[c].stage = "claimed"
          /\ IF call[c].open THEN Mishap("fault") ELSE UNCHANGED mishaps
          /\ Ends(c, Claims(c), items, Ids(c), FALSE)
    /\ UNCHANGED beside

\* The generation the cache knew when the attempt read the row.
SameGeneration_AsRead(c, m) == call[c].known = epoch[call[c].from]

\* The generation the number was accepted under is the one the mailbox has now.
\* A move that finds its row in another folder than it was accepted in has only
\* the cache to go by; an undo has what it froze.
SameGeneration(c, m) ==
    LET k == call[c]
        i == k.due[m]
    IN IF Kind(k.task) = "move" /\ i.from # k.from
           THEN k.known = epoch[k.from]
           ELSE i.epoch = <<k.from, epoch[k.from]>>

Sent(c)    == {m \in call[c].claimed : SameGeneration(c, m)}
Checked(c) == [m \in Messages |-> IF m \in call[c].claimed \ Sent(c)
                                      THEN NoGoal(row[m]) ELSE row[m]]
Target(c, m) == Named(call[c].from, call[c].rows[m].uid)

\* The server carries the command out: what has the number in the folder moves,
\* and a number nothing has is passed over.
Command(c) ==
    /\ Running /\ call[c].stage = "claimed" /\ call[c].open /\ Sent(c) # {}
    /\ LET X == UNION {Target(c, m) : m \in Sent(c)}
       IN \E n \in [X -> uidnext..(uidnext + Cardinality(X) - 1)] :
          /\ IsInjective(n) /\ uidnext' = uidnext + Cardinality(X)
          /\ at' = [x \in Messages |-> IF x \in X THEN call[c].dest ELSE at[x]]
          /\ uids' = [x \in Messages |-> IF x \in X THEN n[x] ELSE uids[x]]
          /\ call' = [call EXCEPT ![c].stage = "done", ![c].claimed = Sent(c),
                        ![c].hit = [m \in Ids(c) |->
                            IF m \in Sent(c) /\ Target(c, m) # {}
                                THEN n[CHOOSE x \in Target(c, m) : TRUE] ELSE 0]]
    /\ row' = Checked(c)
    /\ UNCHANGED <<epoch, lookup, copies, known, outlived, ledger, attempt, pass, hook, up,
                   mishaps>>

\* The mailbox was rebuilt under every row, or the server says no.
CommandRefused(c) ==
    /\ Running /\ call[c].stage = "claimed" /\ call[c].open
    /\ IF Sent(c) = {} THEN UNCHANGED mishaps ELSE Mishap("fault")
    /\ Ends(c, Claims(c), items, Ids(c), FALSE)
    /\ UNCHANGED beside

\* The connection is lost with the command carried out or not: the claims stay
\* for a pass to decide, and a move counts them as moved.
AnswerLost(c) ==
    /\ Running
    /\ \/ call[c].stage = "done" /\ ~call[c].open /\ UNCHANGED mishaps
             /\ Ends(c, row, items, Ids(c) \ call[c].claimed, Kind(call[c].task) = "undo")
       \/ call[c].stage = "done" /\ call[c].open /\ Mishap("fault")
             /\ Ends(c, row, items, Ids(c) \ call[c].claimed, Kind(call[c].task) = "undo")
       \/ call[c].stage = "claimed" /\ call[c].open /\ Sent(c) # {} /\ Mishap("fault")
             /\ Ends(c, Checked(c), items, Ids(c) \ Sent(c), Kind(call[c].task) = "undo")
    /\ UNCHANGED beside

\* The answer names the new number, and the row is there; or it does not, and
\* the row keeps its goal, confirmed, under a number of its own until a pass
\* recognises the message.
Arrived(c, m, plus) ==
    IF plus /\ call[c].hit[m] # 0
        THEN [NoGoal(row[m]) EXCEPT !.mailbox = call[c].dest, !.uid = call[c].hit[m]]
        ELSE [row[m] EXCEPT !.uid = 0, !.state = "confirmed"]

\* What the cache has of the folder under a new number, or under the opaque id of
\* a message whose new number is not known, is a duplicate.
Duplicate(c, bound, x, f, u) ==
    /\ f = call[c].dest
    /\ \/ \E m \in bound : u = call[c].hit[m]
       \/ lookup /\ \E m \in call[c].claimed \ bound : x = call[c].rows[m].id

\* For the properties: the number is not that of the message the row is about.
Mistaken(c, m) == m \in call[c].blind \/ row[m].id # call[c].rows[m].id

Answer(c) ==
    /\ Running /\ call[c].stage = "done" /\ call[c].open
    /\ \E plus \in UidPlus :
        LET S     == call[c].claimed
            bound == {m \in S : plus /\ call[c].hit[m] # 0}
            r == [m \in Messages |->
                    IF m \in S THEN Arrived(c, m, plus)
                    ELSE IF Present(m) /\ Duplicate(c, bound, row[m].id, row[m].mailbox,
                                                    row[m].uid) THEN None ELSE row[m]]
            d == {e \in copies : ~Duplicate(c, bound, e[1], e[2], e[3])}
        IN /\ copies' = Rest(r, d)
           /\ outlived' = (outlived \cup {m \in bound : Mistaken(c, m)}) \ Gone(r)
           /\ Ends(c, Shown(r, d), Forget(items, Gone(r)), Ids(c) \ S, FALSE)
    /\ UNCHANGED <<server, known, count, task, undone, tries, left, pass, hook, up, mishaps>>

----------------------------------------------------------------------------
\* The end of an attempt.

Complete(t) ==
    /\ Free(t) /\ left = {} /\ ~wait
    /\ task' = [task EXCEPT ![t].status = "completed"]
    /\ tries' = 0
    /\ UNCHANGED <<server, cache, count, items, latched, undone, left, wait, call, pass,
                   hook, up, mishaps>>

\* Retried at the head of the chain, or given up once the attempts are spent.
GivesUpOrRetries(t) ==
    /\ task' = [task EXCEPT ![t].status = IF tries < MaxAttempts THEN "pending" ELSE "failed"]
    /\ IF tries < MaxAttempts THEN UNCHANGED <<tries, hook>> ELSE tries' = 0 /\ hook' = t
    /\ left' = {} /\ wait' = FALSE

AttemptFails(t) ==
    /\ Free(t) /\ wait /\ (Kind(t) = "undo" => left = {})
    /\ GivesUpOrRetries(t)
    /\ UNCHANGED <<server, cache, count, items, latched, undone, call, pass, up, mishaps>>

\* The scheduler abandons the attempt and closes its connections: one that is
\* still being dialled is not among them.
AttemptTimesOut(t) ==
    /\ Job(t) /\ call["live"] # NoCall /\ call["old"] = NoCall
    /\ Mishap("timeout")
    /\ call' = [live |-> NoCall,
                old |-> [call["live"] EXCEPT !.open = call["live"].stage = "dial"]]
    /\ GivesUpOrRetries(t)
    /\ UNCHANGED <<server, cache, count, items, latched, undone, pass, up>>

\* The permanent-failure hook runs in the same stretch as the settlement.
Hook ==
    /\ up /\ hook # 0
    /\ row' = GivenBack(hook)
    /\ latched' = [latched EXCEPT ![hook] = Latched(hook, Owed(hook))]
    /\ hook' = 0
    /\ UNCHANGED <<server, copies, known, outlived, count, task, items, undone, attempt, call,
                   pass, up, mishaps>>

Crash ==
    /\ up /\ Mishap("crash")
    /\ up' = FALSE
    /\ call' = [c \in Calls |-> NoCall] /\ pass' = NoPass
    /\ left' = {} /\ wait' = FALSE /\ hook' = 0
    /\ UNCHANGED <<server, cache, ledger, tries>>

Boot_NoReplay ==
    /\ ~up
    /\ up' = TRUE
    /\ task' = [t \in TaskIds |-> IF task[t].status = "running"
                                      THEN [task[t] EXCEPT !.status = "pending"] ELSE task[t]]
    /\ UNCHANGED <<server, cache, count, items, latched, undone, attempt, call, pass, hook,
                   mishaps>>

\* The obligations of every failed task are run again, and the task that was
\* running is pending.  One that stops half way is run again whole.
Boot ==
    /\ ~up
    /\ up' = TRUE
    /\ LET Failed == {t \in TaskIds : task[t].status = "failed"}
       IN /\ row' = [m \in Messages |->
                        IF \E t \in Failed : Kind(t) = "move" /\ m \in Owed(t)
                            THEN NoGoal(row[m]) ELSE row[m]]
          /\ latched' = [t \in TaskIds |-> IF t \in Failed THEN Latched(t, Owed(t))
                                                            ELSE latched[t]]
    /\ task' = [t \in TaskIds |-> IF task[t].status = "running"
                                      THEN [task[t] EXCEPT !.status = "pending"] ELSE task[t]]
    /\ UNCHANGED <<server, copies, known, outlived, count, items, undone, attempt, call, pass,
                   hook, mishaps>>

----------------------------------------------------------------------------
\* The sync pass, folder by folder.  It does not start while the account is
\* moving, and a move waits for it.

StartPass ==
    /\ Running /\ ~pass.on /\ ~Moving
    /\ pass' = [NoPass EXCEPT !.on = TRUE, !.left = Folders]
    /\ UNCHANGED <<server, cache, ledger, attempt, call, hook, up, mishaps>>

Touched(f) == \E m \in Messages :
    Present(m) /\ row[m].goal # None /\ f \in {row[m].mailbox, row[m].goal}
Intents(f) == {m \in Messages : Present(m) /\ row[m].mailbox = f /\ row[m].state = "intent"}

\* The rows in state "intent" of the folder: in the same generation the number
\* is there, and the move did not happen, or it is gone, and it did.
Same(f)   == known[f] = epoch[f]
Stayed(f) == {m \in Intents(f) : Same(f) /\ Named(f, row[m].uid) # {}}
Absent_Unproven(f) == {}
Absent(f) == {m \in Intents(f) : Same(f) /\ Named(f, row[m].uid) = {}}

\* A rebuilt folder loses its rows, but for a goal that nothing has claimed and
\* a move that is confirmed.
Reset(f) == {m \in Messages : ~Same(f) /\ Present(m) /\ row[m].mailbox = f
                /\ (row[m].goal = None \/ row[m].state = "intent")}
Kept(f)  == {m \in Messages : ~Same(f) /\ Present(m) /\ row[m].mailbox = f} \ Reset(f)

Becomes(r, c) ==
    row' = Shown(r, c) /\ copies' = Rest(r, c) /\ items' = Forget(items, Gone(r))

PassOn == Running /\ pass.on
UnchangedInPass ==
    UNCHANGED <<server, count, task, latched, undone, attempt, call, hook, up>>

\* The folders come by priority.
Upcoming(f) ==
    pass.open = None /\ f \in pass.left /\ \A g \in pass.left : Priority[f] <= Priority[g]

\* The folder is selected: its claims are decided, a rebuilt one is emptied, and
\* what is in it is listed.
OpenFolder(f) ==
    /\ PassOn /\ Upcoming(f)
    /\ LET r == [m \in Messages |-> IF m \in Reset(f) THEN None
                                    ELSE IF m \in Stayed(f) THEN NoGoal(row[m]) ELSE row[m]]
       IN /\ Becomes(r, {d \in copies : d[2] = f => Same(f)})
          /\ outlived' = (outlived \cup Kept(f)) \ Gone(r)
    /\ known' = [known EXCEPT ![f] = epoch[f]]
    /\ pass' = [pass EXCEPT !.left = @ \ {f}, !.open = f,
                            !.todo = {<<x, uids[x]>> : x \in In(f)},
                            !.prune = Same(f) /\ ~Touched(f),
                            !.absent = @ \cup Absent(f)]
    /\ UnchangedInPass /\ UNCHANGED mishaps

\* findPendingMoves: the rows whose goal is the folder and whose opaque id is x.
Pending(f, x) ==
    {m \in Messages : lookup /\ Present(m) /\ row[m].goal = f /\ row[m].id = x}
Landed(m, f, u) == [NoGoal(row[m]) EXCEPT !.mailbox = f, !.uid = u]
Here(f, u)      == {m \in Messages : Present(m) /\ row[m].mailbox = f /\ row[m].uid = u}

\* Without the folder: it is closed, or the pass goes on with the next one.
Closed == [pass EXCEPT !.open = None, !.todo = {}, !.fresh = {}, !.prune = FALSE]

\* The listed messages come by increasing number.
Met(p) == PassOn /\ p \in pass.todo /\ \A q \in pass.todo : p[2] <= q[2]
Handled(p) == [pass EXCEPT !.todo = @ \ {p}]

\* The one row that waits for the message; a claim whose source is not known to be
\* gone waits for the end of the pass.
Awaits(p, m) == Pending(pass.open, p[1]) = {m}
Unproven(m)  == row[m].state = "intent" /\ m \notin pass.absent

Defer(p, m) ==
    /\ Met(p) /\ Awaits(p, m) /\ Unproven(m)
    /\ pass' = [Handled(p) EXCEPT !.seen = @ \cup {<<p[1], pass.open, p[2]>>}]
    /\ UNCHANGED <<server, cache, ledger, attempt, call, hook, up, mishaps>>

\* reconcilePendingRemoteMessage: what the folder has under the same opaque id is
\* deleted, and the row is moved here; (account, mailbox, uid) is UNIQUE, and the
\* folder fails if another row has the number.
Mirror(m, f, x) == Present(m) /\ row[m].mailbox = f /\ row[m].id = x
Lands(m, p, f) ==
    [n \in Messages |-> IF n = m THEN Landed(m, f, p[2])
                        ELSE IF Mirror(n, f, p[1]) THEN None ELSE row[n]]
Fits(m, p, f) == \A n \in Here(f, p[2]) : n = m \/ row[n].id = p[1]

Reconcile(p, m) ==
    /\ Met(p) /\ Awaits(p, m) /\ ~Unproven(m)
    /\ LET f == pass.open
           r == Lands(m, p, f)
       IN IF Fits(m, p, f)
              THEN /\ Becomes(r, {d \in copies : ~(d[2] = f /\ d[1] = p[1])})
                   /\ outlived' = outlived \ (Gone(r) \cup {m})
                   /\ pass' = Handled(p)
              ELSE /\ UNCHANGED <<row, copies, items, outlived>>
                   /\ pass' = Closed
    /\ UnchangedInPass /\ UNCHANGED <<known, mishaps>>

\* No row waits for it.  A row the pass finds by its number takes the opaque id of
\* what has the number, and what is not in the cache is fetched.
Refreshed_FlagsOnly(p) == row
Refreshed(p) == [m \in Messages |-> IF lookup /\ m \in Here(pass.open, p[2])
                                        THEN [row[m] EXCEPT !.id = p[1]] ELSE row[m]]
InCache(f, u) == Here(f, u) # {} \/ \E d \in copies : d[2] = f /\ d[3] = u

Refresh(p) ==
    /\ Met(p) /\ \A m \in Messages : ~Awaits(p, m)
    /\ row' = Refreshed(p)
    /\ outlived' = IF lookup THEN outlived \ Here(pass.open, p[2]) ELSE outlived
    /\ pass' = [Handled(p) EXCEPT !.fresh =
                    IF InCache(pass.open, p[2]) THEN @ ELSE @ \cup {p[2]}]
    /\ UnchangedInPass /\ UNCHANGED <<copies, known, items, mishaps>>

\* What is new is stored, and rows whose number is gone are deleted, unless a
\* pending move touched the folder.  Both ask the folder once more; if it was
\* rebuilt in between, its connection is gone.
Vanished(u) == pass.prune /\ u # 0 /\ Named(pass.open, u) = {}
CloseFolder ==
    /\ PassOn /\ pass.open # None /\ pass.todo = {} /\ Same(pass.open)
    /\ LET f == pass.open
           r == [m \in Messages |->
                    IF Present(m) /\ row[m].mailbox = f /\ row[m].goal = None
                        /\ Vanished(row[m].uid) THEN None ELSE row[m]]
       IN /\ Becomes(r, {d \in copies : ~(d[2] = f /\ Vanished(d[3]))}
                     \cup {<<x, f, uids[x]>> : x \in {y \in In(f) : uids[y] \in pass.fresh}})
          /\ outlived' = outlived \ Gone(r)
    /\ pass' = Closed
    /\ UnchangedInPass /\ UNCHANGED <<known, mishaps>>

\* The folder cannot be read, or not to its end.
FolderFails(f) ==
    /\ PassOn
    /\ f = pass.open \/ Upcoming(f)
    /\ IF f = pass.open /\ ~Same(f) THEN UNCHANGED mishaps ELSE Mishap("fault")
    /\ pass' = [Closed EXCEPT !.left = @ \ {f}]
    /\ UNCHANGED <<server, cache, ledger, attempt, call, hook, up>>

\* What was seen of a claimed move before its source was known to be gone, in one
\* stretch that ends where a row does not fit.
Again == {a \in pass.seen \X pass.absent :
            Pending(a[1][2], a[1][1]) = {a[2]} /\ row[a[2]].state = "intent"}
FitsAgain(a, done) == \A n \in Here(a[1][2], a[1][3]) :
    n = a[2] \/ \E b \in done : row[n].id = b[1][1] /\ b[1][2] = a[1][2]
Replayed(done) == [n \in Messages |->
    IF \E a \in done : n = a[2]
        THEN LET q == (CHOOSE a \in done : n = a[2])[1] IN Landed(n, q[2], q[3])
    ELSE IF \E a \in done : Mirror(n, a[1][2], a[1][1]) THEN None
    ELSE row[n]]

EndPass ==
    /\ PassOn /\ pass.left = {} /\ pass.open = None
    /\ \E done \in SUBSET Again :
          /\ \A a \in done : FitsAgain(a, done)
          /\ done = Again \/ \E a \in Again \ done : ~FitsAgain(a, done)
          /\ Becomes(Replayed(done),
                     {d \in copies : ~\E a \in done : d[1] = a[1][1] /\ d[2] = a[1][2]})
          /\ outlived' = outlived \ (Gone(Replayed(done)) \cup {a[2] : a \in done})
    /\ pass' = NoPass
    /\ UnchangedInPass /\ UNCHANGED <<known, mishaps>>

----------------------------------------------------------------------------
Engine(c) ==
    /\ Running /\ call[c] # NoCall
    /\ \/ Enter(c) \/ Claim(c) \/ WaitTimesOut(c) \/ NotSent(c) \/ Command(c)
       \/ CommandRefused(c) \/ AnswerLost(c) \/ Answer(c)

Attempt ==
    \/ \E t \in TaskIds : \/ Begin(t) \/ Complete(t) \/ AttemptFails(t)
                          \/ \E S \in SUBSET Chosen : NextChunk(t, S)
                          \/ \E m \in Chosen : NextEntry(t, m)
    \/ Engine("live")

Work == Hook \/ Boot \/ Engine("old") \/ Attempt

Pass ==
    \/ StartPass
    \/ /\ PassOn
       /\ \/ CloseFolder \/ EndPass
          \/ \E f \in Folders : OpenFolder(f) \/ FolderFails(f)
          \/ \E p \in pass.todo : \/ Refresh(p)
                                   \/ \E m \in Messages : Defer(p, m) \/ Reconcile(p, m)

Next ==
    \/ \E m \in Chosen : OtherMoves(m)
    \/ \E f \in Folders : Rebuild(f)
    \/ \E S \in SUBSET Chosen, f \in Folders : AcceptMove(S, f)
    \/ \E t \in TaskIds : AcceptUndo(t) \/ AttemptTimesOut(t)
    \/ Work \/ Pass \/ Crash

\* The chain's work and the passes go on.  The subscripts hold what every step of
\* the one, and of the other, changes.
Fairness ==
    WF_<<ledger, attempt, call, hook, up>>(Work) /\ WF_pass(Pass)

SafetySpec == Init /\ [][Next]_vars

Spec == SafetySpec /\ Fairness

----------------------------------------------------------------------------
\* A goal that nothing has claimed belongs to a task that is not settled, or to
\* one that failed and whose goals are about to be given back.  Otherwise the row
\* stays in its old folder under a goal nobody carries out, and no other move is
\* accepted for it (permanent-failure obligations and their replay).
NoOrphanGoal ==
    \A m \in Messages : Present(m) /\ row[m].goal # None /\ row[m].state = "free" =>
        \E t \in TaskIds : /\ task[t].kind = "move" /\ m \in Owed(t)
                           /\ \/ task[t].status \in Live
                              \/ task[t].status = "failed" /\ (hook = t \/ ~up)

\* In the generation the cache knows, the number of a row names the message the
\* row's opaque id names, or none: through moves whose answer is lost, undos,
\* rebuilt mailboxes and passes that interleave with them.  The exception is a
\* row a reset kept, or whose message changed between the attempt that read it and
\* the answer, until a pass finds it.
NumberNamesMessage ==
    \A m \in Messages \ outlived :
        Present(m) /\ known[row[m].mailbox] = epoch[row[m].mailbox]
            => Named(row[m].mailbox, row[m].uid) \subseteq {row[m].id}

\* What a MOVE moves, at the server, is what a row it was built from stood for
\* when the task was accepted: not what has its number by now (the frozen
\* generation of moveAcceptanceEvidence and undoItemSpecs).  This is about rows
\* that are still where they were accepted, under the same number; one that was
\* carried elsewhere since, by an abandoned attempt or a pass, has only the cache
\* to go by, as has one that had outlived its folder.
Carried(c, m) == <<call[c].from, call[c].rows[m].uid>>
                    # <<call[c].due[m].from, call[c].due[m].uid>>
MovesWhatWasAccepted ==
    [][\A c \in Calls : call[c].stage = "claimed" /\ call'[c].stage = "done" =>
        \A x \in Messages : at'[x] # at[x] =>
            \E m \in Ids(c) : /\ uids[x] = call[c].rows[m].uid
                              /\ call[c].due[m].named \in {x, None} \/ Carried(c, m)]_vars

\* No goal waits for ever: it is carried out, or given back.  One exception is a
\* claim on a message another client took away: it is neither in the goal nor
\* under its number where it was, and no pass can tell.  The other is a provider
\* without opaque ids: where an answer was lost with the message gone, or did not
\* name its new number, the passes have nothing to recognise the message by, and
\* its row stays where it was, readable and blocked.
Waiting(m) == Present(m) /\ row[m].goal # None
Away(m)    == Named(row[m].mailbox, row[m].uid) = {}
Lost(m)    == at[row[m].id] # row[m].goal /\ Away(m)
Blind(m)   == ~lookup /\ \/ row[m].state = "intent" /\ Away(m)
                         \/ row[m].state = "confirmed"
EveryMoveSettles == \A m \in Chosen : []<>(~Waiting(m) \/ Lost(m) \/ Blind(m))

\* Seen by the user: what moves is the message whose cached body the row shows.
\* A row that outlives the reset of its folder because it has a goal is found by
\* its old number, and shows the wrong one (sync.ts, the reset).
MovesWhatWasShown ==
    [][\A c \in Calls : call[c].stage = "claimed" /\ call'[c].stage = "done" =>
        \A x \in Messages : at'[x] # at[x] => x \in Ids(c)]_vars
=============================================================================
