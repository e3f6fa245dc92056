------------------------- MODULE AccountWriteSlots -------------------------
(***************************************************************************)
(* The per-account write slot (sync-locks.ts): a chain of promises per     *)
(* account.  A caller hangs a gate of its own behind the chain's tail and  *)
(* waits for the tail it found, so it is let in when every earlier gate is *)
(* released; it releases its own when it is done or when it gives up.      *)
(* A gate is a number, counted per account.                                *)
(*                                                                         *)
(* An execution context remembers the accounts it holds (heldWriteSlots,   *)
(* an AsyncLocalStorage set); a nested call skips those.  A context        *)
(* started by a task runner inherits the runner's set, which nothing       *)
(* clears: a sync pass kicked by a runner is such a context, and so are    *)
(* the filter rules that pass applies.                                     *)
(*                                                                         *)
(* A run abandoned at TASK_RUN_TIMEOUT counts as having left: its signal   *)
(* closes the provider connection.  A definition whose name has a suffix   *)
(* (GiveUp_KeepsSlots) is a variant with a defect.                         *)
(***************************************************************************)
EXTENDS Naturals, FiniteSets

CONSTANTS
    Callers,    \* executions that take slots: moves, flag writes, task runs
    Runners,    \* those that are task runs and may kick a sync pass
    Kicked,     \* executions that start in a runner's context
    Accounts,   \* account ids, as numbers in their sort order
    MaxDepth,   \* bound: how deep a caller nests its calls
    MaxGates    \* bound: gates hung on each account's chain

ASSUME SlotAssumption ==
    /\ Accounts \subseteq Nat
    /\ MaxDepth \in Nat \ {0}
    /\ MaxGates \in [Accounts -> Nat]

VARIABLES
    last,    \* last[a]: the gate at the tail of a's chain
    open,    \* open[a]: gates of a not released yet
    gate,    \* gate[p][a]: p's own gate on a, once it hung one
    held,    \* held[p]: heldWriteSlots as p's context sees it
    pc,      \* idle, acquire (between two slots), wait, inside
    depth,   \* number of calls p is in
    todo,    \* accounts its innermost call has still to acquire
    frame,   \* frame[p][d]: accounts its call at depth d acquired itself
    scope    \* accounts its outermost call was made for

vars == <<last, open, gate, held, pc, depth, todo, frame, scope>>

Depths == 1..MaxDepth

\* Every variable has a value of its type.
TypeOK ==
    /\ last \in [Accounts -> Nat]
    /\ open \in [Accounts -> SUBSET Nat]
    /\ gate \in [Callers -> [Accounts -> Nat]]
    /\ held \in [Callers -> SUBSET Accounts]
    /\ pc \in [Callers -> {"idle", "acquire", "wait", "inside"}]
    /\ depth \in [Callers -> 0..MaxDepth]
    /\ todo \in [Callers -> SUBSET Accounts]
    /\ frame \in [Callers -> [Depths -> SUBSET Accounts]]
    /\ scope \in [Callers -> SUBSET Accounts]

Init ==
    /\ last = [a \in Accounts |-> 0]
    /\ open = [a \in Accounts |-> {}]
    /\ gate = [p \in Callers |-> [a \in Accounts |-> 0]]
    /\ held = [p \in Callers |-> {}]
    /\ pc = [p \in Callers |-> "idle"]
    /\ depth = [p \in Callers |-> 0]
    /\ todo = [p \in Callers |-> {}]
    /\ frame = [p \in Callers |-> [d \in Depths |-> {}]]
    /\ scope = [p \in Callers |-> {}]

-----------------------------------------------------------------------------
NextUp_Unsorted(p) ==
    {a \in todo[p] \ held[p] : \A b \in todo[p] \ held[p] :
        IF p \in Runners THEN a >= b ELSE a <= b}

\* The account the innermost call acquires next: the first one in sort order
\* that the context does not hold.
NextUp(p) ==
    {a \in todo[p] \ held[p] : \A b \in todo[p] \ held[p] : a <= b}

\* Calls under way that will still hang a gate on a.
Coming(a) ==
    {q \in Callers :
        \/ pc[q] = "acquire" /\ a \in todo[q] \ held[q]
        \/ pc[q] = "wait" /\ a \in (todo[q] \ held[q]) \ NextUp(q)}

\* withAccountWriteLocks(S) from outside, or nested on what the context holds.
Call(p, S) ==
    /\ S # {}
    /\ \/ /\ pc[p] = "idle"
          /\ p \in Kicked => held[p] # {}
          /\ \A a \in S : last[a] + Cardinality(Coming(a)) < MaxGates[a]
          /\ scope' = [scope EXCEPT ![p] = S]
       \/ /\ pc[p] = "inside"
          /\ depth[p] < MaxDepth
          /\ S \subseteq held[p]
          /\ UNCHANGED scope
    /\ depth' = [depth EXCEPT ![p] = @ + 1]
    /\ todo' = [todo EXCEPT ![p] = S]
    /\ pc' = [pc EXCEPT ![p] = "acquire"]
    /\ UNCHANGED <<last, open, gate, held, frame>>

\* Hang a gate behind the tail and wait for the tail found there.
HangGate(p) ==
    /\ pc[p] = "acquire"
    /\ \E a \in NextUp(p) :
          /\ last' = [last EXCEPT ![a] = @ + 1]
          /\ open' = [open EXCEPT ![a] = @ \cup {last[a] + 1}]
          /\ gate' = [gate EXCEPT ![p][a] = last[a] + 1]
    /\ pc' = [pc EXCEPT ![p] = "wait"]
    /\ UNCHANGED <<held, depth, todo, frame, scope>>

Resolved_TailIsGate(p, a) == gate[p][a] - 1 \notin open[a]

Resolved_LastFirst(p, a) == \A g \in open[a] : g <= gate[p][a]

\* The tail found there is resolved: every gate before p's is released.
Resolved(p, a) == \A g \in open[a] : g >= gate[p][a]

LetIn(p) ==
    /\ pc[p] = "wait"
    /\ \E a \in NextUp(p) :
          /\ Resolved(p, a)
          /\ held' = [held EXCEPT ![p] = @ \cup {a}]
          /\ frame' = [frame EXCEPT ![p][depth[p]] = @ \cup {a}]
    /\ pc' = [pc EXCEPT ![p] = "acquire"]
    /\ UNCHANGED <<last, open, gate, depth, todo, scope>>

\* Every account of the call is held: its body runs.
Begin(p) ==
    /\ pc[p] = "acquire"
    /\ todo[p] \subseteq held[p]
    /\ pc' = [pc EXCEPT ![p] = "inside"]
    /\ UNCHANGED <<last, open, gate, held, depth, todo, frame, scope>>

EndCall_Twice(p, A) ==
    /\ open' = [a \in Accounts |->
                   IF a \in A THEN open[a] \ {gate[p][a]} ELSE open[a]]
    /\ held' = [held EXCEPT ![p] = @ \ frame[p][depth[p]]]
    /\ frame' = [frame EXCEPT ![p][depth[p]] = {}]
    /\ depth' = [depth EXCEPT ![p] = @ - 2]
    /\ pc' = [pc EXCEPT ![p] = IF depth[p] = 1 THEN "idle" ELSE "inside"]
    /\ UNCHANGED <<last, gate, todo, scope>>

\* The call at p's depth ends: p's gates on the accounts in A are released,
\* and those it acquired are held no more.
EndCall(p, A) ==
    /\ open' = [a \in Accounts |->
                   IF a \in A THEN open[a] \ {gate[p][a]} ELSE open[a]]
    /\ held' = [held EXCEPT ![p] = @ \ frame[p][depth[p]]]
    /\ frame' = [frame EXCEPT ![p][depth[p]] = {}]
    /\ depth' = [depth EXCEPT ![p] = @ - 1]
    /\ pc' = [pc EXCEPT ![p] = IF depth[p] = 1 THEN "idle" ELSE "inside"]
    /\ UNCHANGED <<last, gate, todo, scope>>

GiveUp_KeepsSlots(p) ==
    /\ pc[p] = "wait"
    /\ EndCall(p, NextUp(p))

\* The wait ran out: p's own gate goes first, then the slots it had.
GiveUp(p) ==
    /\ pc[p] = "wait"
    /\ EndCall(p, NextUp(p) \cup frame[p][depth[p]])

Leave(p) ==
    /\ pc[p] = "inside"
    /\ EndCall(p, frame[p][depth[p]])

\* A runner starts an execution that is not awaited, in its own context.
Kick(p, c) ==
    /\ p \in Runners
    /\ pc[p] = "inside"
    /\ c \in Kicked
    /\ pc[c] = "idle"
    /\ held' = [held EXCEPT ![c] = held[p]]
    /\ UNCHANGED <<last, open, gate, pc, depth, todo, frame, scope>>

Step(p) == HangGate(p) \/ LetIn(p) \/ Begin(p) \/ Leave(p)

Next ==
    \E p \in Callers :
        \/ Step(p)
        \/ GiveUp(p)
        \/ \E S \in SUBSET Accounts : Call(p, S)
        \/ \E c \in Callers : Kick(p, c)

SafetySpec == Init /\ [][Next]_vars

\* Promise continuations run, and the body of an outermost call ends: it makes
\* finitely many nested calls and its provider commands time out.  No wait for
\* a slot is assumed to run out.
Spec ==
    /\ SafetySpec
    /\ \A p \in Callers :
          /\ WF_vars(Step(p))
          /\ SF_vars(depth[p] = 1 /\ Leave(p))

-----------------------------------------------------------------------------
(* Properties.                                                             *)

\* Executions that did not start in another one's context.
Ordinary == Callers \ Kicked

\* "Two write operations on the same account wait in line": among executions
\* with a context of their own, the bodies of two calls for the same account
\* never run at the same time, whichever waiters before them gave up, and
\* what a context believes it holds (heldWriteSlots), it holds.
Exclusive ==
    \A p \in Ordinary :
        /\ \A a \in held[p] : gate[p][a] \in open[a]
        /\ \A q \in Ordinary \ {p} :
              pc[p] = "inside" /\ pc[q] = "inside" => scope[p] \cap scope[q] = {}

\* Every gate still closed belongs to a call that waits for it or holds it:
\* no failed or finished call leaves an account locked.
NoLostGate ==
    \A a \in Accounts : \A g \in open[a] :
        \E p \in Callers :
            /\ gate[p][a] = g
            /\ \/ pc[p] = "wait" /\ a \in NextUp(p)
               \/ \E d \in 1..depth[p] : a \in frame[p][d]

\* Gates open in the order they were hung: an ordinary holder hung its gate
\* before everyone who still waits for it.
FirstComeFirstServed ==
    \A p \in Ordinary, q \in Callers : \A a \in Accounts :
        /\ pc[q] = "wait"
        /\ a \in NextUp(q)
        /\ a \in held[p]
        => gate[p][a] < gate[q][a]

\* "Serializes filter-rule and agent flag writes against user moves": what a
\* kicked sync pass writes waits its turn behind an ordinary caller.
KickedWaitsItsTurn ==
    \A k \in Kicked, p \in Callers \ (Kicked \cup Runners) :
        pc[k] = "inside" /\ pc[p] = "inside" => scope[k] \cap scope[p] = {}

\* "Sorted, so concurrent multi-account batches can never deadlock": every
\* call is let in or gives up, and nobody has to give up for it; nesting on
\* an account already held does not block either.
EveryCallServed ==
    \A p \in Callers : pc[p] = "wait" ~> pc[p] # "wait"
============================================================================
