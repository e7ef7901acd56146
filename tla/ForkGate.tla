------------------------------ MODULE ForkGate ------------------------------
(***************************************************************************)
(* The fork gate (crates/topo-core/src/fork.rs): every public operation    *)
(* and every maintenance pass is counted in one of NumShards words; a      *)
(* fork sets the pending bit of every shard, waits until every count is    *)
(* zero and only then lets fork() happen, so that the child inherits no    *)
(* held lock.  The forking thread itself may allocate in the window (other *)
(* libraries' pthread_atfork handlers do), which the per-thread nesting    *)
(* depth allows.                                                           *)
(*                                                                         *)
(* One step is one atomic access to a shard (fetch_add, fetch_sub,         *)
(* fetch_or, fetch_and, load) together with the thread-local work around   *)
(* it.  Which shard an operation lands on is any of them: the CPU or       *)
(* thread key only spreads the load.  fork() is followed into the parent   *)
(* or into the child, where only the forking thread is left.               *)
(***************************************************************************)
EXTENDS Integers, FiniteSets

CONSTANTS
    Threads,
    NoThread,
    NumShards,      \* NUM_SHARDS
    MaxNesting,     \* bound: nested guards one thread holds at once
    MaxPasses,      \* bound: maintenance passes started
    MaxForks        \* bound: forks started

ASSUME ForkGateAssumption ==
    /\ IsFiniteSet(Threads) /\ NoThread \notin Threads
    /\ NumShards \in Nat \ {0}
    /\ MaxNesting \in Nat /\ MaxPasses \in Nat /\ MaxForks \in Nat

VARIABLES
    pending,        \* fork-pending bit of each shard
    count,          \* in-flight count of each shard
    forkLock,       \* holder of FORK_LOCK
    background,     \* BACKGROUND_ENABLED
    alive,          \* threads of the process that is followed
    depth,          \* per thread: DEPTH of the module reentry
    pc, at,         \* per thread: step of a guard entry, and its shard
    slot,           \* per thread: the shard of its first-level guard
    nested,         \* per thread: its guards that took no slot (NESTED)
    passes,         \* number of maintenance passes started
    fork,           \* per thread: step of prefork or postfork
    cursor, sum,    \* of the thread that holds FORK_LOCK
    forks           \* number of forks started

gate == <<pending, count>>
held == <<slot, nested, passes>>
local == <<depth, pc, at, held>>
forking == <<forkLock, fork, cursor, sum, forks>>
vars == <<gate, background, alive, local, forking>>

Shards == 0 .. NumShards - 1
NoSlot == NumShards

Init ==
    /\ pending = [s \in Shards |-> FALSE]
    /\ count = [s \in Shards |-> 0]
    /\ forkLock = NoThread
    /\ background = TRUE
    /\ alive = Threads
    /\ depth = [t \in Threads |-> 0]
    /\ pc = [t \in Threads |-> "run"]
    /\ at = [t \in Threads |-> NoSlot]
    /\ slot = [t \in Threads |-> NoSlot]
    /\ nested = [t \in Threads |-> 0]
    /\ fork = [t \in Threads |-> "none"]
    /\ cursor = 0 /\ sum = 0 /\ forks = 0 /\ passes = 0

\* One type invariant for the module.
TypeOK ==
    /\ pending \in [Shards -> BOOLEAN]
    /\ count \in [Shards -> Nat]
    /\ forkLock \in Threads \cup {NoThread}
    /\ background \in BOOLEAN
    /\ alive \subseteq Threads
    /\ depth \in [Threads -> Nat]
    /\ pc \in [Threads -> {"run", "add", "backOut", "park", "maintAdd",
                           "maintBackOut"}]
    /\ at \in [Threads -> Shards \cup {NoSlot}]
    /\ slot \in [Threads -> Shards \cup {NoSlot}]
    /\ nested \in [Threads -> Nat]
    /\ fork \in [Threads -> {"none", "acquire", "setBits", "drain", "prepared",
                             "parent", "clearBits", "child"}]
    /\ cursor \in 0 .. NumShards
    /\ sum \in Nat /\ forks \in Nat /\ passes \in Nat

\* The fork window as the forking thread sees it: prefork has returned and the
\* matching postfork handler has not run.
InWindow(t) == fork[t] \in {"prepared", "parent", "child"}

\* t may run allocator code: it is between the steps of any fork handler.
MayRun(t) == /\ t \in alive /\ pc[t] = "run"
             /\ fork[t] = "none" \/ InWindow(t)

-----------------------------------------------------------------------------
(* operation_guard and maintenance_guard *)

\* Both start by raising the depth: a nested guard takes no slot and does not
\* look at the fork bit.
EnterAt(t, first) ==
    /\ nested[t] < MaxNesting
    /\ depth' = [depth EXCEPT ![t] = @ + 1]
    /\ IF depth[t] # 0
       THEN nested' = [nested EXCEPT ![t] = @ + 1] /\ UNCHANGED pc
       ELSE pc' = [pc EXCEPT ![t] = first] /\ UNCHANGED nested
    /\ UNCHANGED <<gate, background, alive, at, slot, forking>>

OperationGuard(t) == MayRun(t) /\ EnterAt(t, "add") /\ UNCHANGED passes

MaintenanceGuard(t) ==
    /\ MayRun(t) /\ background
    /\ passes < MaxPasses
    /\ passes' = passes + 1
    /\ EnterAt(t, "maintAdd")

\* Mutant: the fork bit is looked at after the increment, and an operation that
\* finds it set goes on.
AdmitsAnyway(t, s) ==
    /\ pc[t] = "add"
    /\ count' = [count EXCEPT ![s] = @ + 1]
    /\ slot' = [slot EXCEPT ![t] = s]
    /\ pc' = [pc EXCEPT ![t] = "run"]
    /\ UNCHANGED <<pending, background, alive, depth, at, nested, passes, forking>>

\* fetch_add decides: the previous value's fork bit was clear, or it was set
\* and the operation must back out.
Add(t, s) ==
    /\ pc[t] = "add"
    /\ count' = [count EXCEPT ![s] = @ + 1]
    /\ IF pending[s]
       THEN /\ pc' = [pc EXCEPT ![t] = "backOut"]
            /\ at' = [at EXCEPT ![t] = s]
            /\ UNCHANGED slot
       ELSE /\ pc' = [pc EXCEPT ![t] = "run"]
            /\ slot' = [slot EXCEPT ![t] = s]
            /\ UNCHANGED at
    /\ UNCHANGED <<pending, background, alive, depth, nested, passes, forking>>

BackOut(t) ==
    /\ pc[t] = "backOut"
    /\ count' = [count EXCEPT ![at[t]] = @ - 1]
    /\ pc' = [pc EXCEPT ![t] = "park"]
    /\ UNCHANGED <<pending, background, alive, depth, at, held, forking>>

\* The spin ends when the bit of that shard is clear; the entry starts over.
Unpark(t) ==
    /\ pc[t] = "park"
    /\ ~pending[at[t]]
    /\ pc' = [pc EXCEPT ![t] = "add"]
    /\ at' = [at EXCEPT ![t] = NoSlot]
    /\ UNCHANGED <<gate, background, alive, depth, held, forking>>

\* Maintenance declines instead of parking.
MaintAdd(t, s) ==
    /\ pc[t] = "maintAdd"
    /\ count' = [count EXCEPT ![s] = @ + 1]
    /\ IF pending[s]
       THEN /\ pc' = [pc EXCEPT ![t] = "maintBackOut"]
            /\ at' = [at EXCEPT ![t] = s]
            /\ UNCHANGED slot
       ELSE /\ pc' = [pc EXCEPT ![t] = "run"]
            /\ slot' = [slot EXCEPT ![t] = s]
            /\ UNCHANGED at
    /\ UNCHANGED <<pending, background, alive, depth, nested, passes, forking>>

MaintBackOut(t) ==
    /\ pc[t] = "maintBackOut"
    /\ count' = [count EXCEPT ![at[t]] = @ - 1]
    /\ at' = [at EXCEPT ![t] = NoSlot]
    /\ depth' = [depth EXCEPT ![t] = @ - 1]
    /\ pc' = [pc EXCEPT ![t] = "run"]
    /\ UNCHANGED <<pending, background, alive, held, forking>>

\* A thread holds no guard.
Idle(t) == slot[t] = NoSlot /\ nested[t] = 0

\* Drop of the innermost guard: a nested one only lowers the depth, the
\* first-level one gives its slot back, to the shard it took it from.
DropNested(t) ==
    /\ MayRun(t) /\ nested[t] > 0
    /\ depth' = [depth EXCEPT ![t] = @ - 1]
    /\ nested' = [nested EXCEPT ![t] = @ - 1]
    /\ UNCHANGED <<gate, background, alive, pc, at, slot, passes, forking>>

DropFirst(t) ==
    /\ MayRun(t) /\ nested[t] = 0 /\ slot[t] # NoSlot
    /\ depth' = [depth EXCEPT ![t] = @ - 1]
    /\ count' = [count EXCEPT ![slot[t]] = @ - 1]
    /\ slot' = [slot EXCEPT ![t] = NoSlot]
    /\ UNCHANGED <<pending, background, alive, pc, at, nested, passes, forking>>

\* set_background_enabled: the host's switch.
SetBackground(on) ==
    /\ background # on
    /\ background' = on
    /\ UNCHANGED <<gate, alive, local, forking>>

-----------------------------------------------------------------------------
(* prefork, fork() and the two postfork handlers *)

ForkGoes(t, step) == fork' = [fork EXCEPT ![t] = step]

\* A thread that is inside no operation calls fork(): FORK_LOCK comes first.
Prefork(t) ==
    /\ MayRun(t) /\ fork[t] = "none" /\ Idle(t)
    /\ forks < MaxForks
    /\ ForkGoes(t, "acquire")
    /\ forks' = forks + 1
    /\ UNCHANGED <<gate, background, alive, local, forkLock, cursor, sum>>

Acquire(t) ==
    /\ t \in alive /\ fork[t] = "acquire"
    /\ forkLock = NoThread
    /\ forkLock' = t
    /\ ForkGoes(t, "setBits")
    /\ cursor' = 0
    /\ UNCHANGED <<gate, background, alive, local, sum, forks>>

\* Mutant: shard 0 stands for all of them.
SetsFirstBit(t) ==
    /\ fork[t] = "setBits"
    /\ pending' = [pending EXCEPT ![cursor] = TRUE]
    /\ cursor' = 0 /\ sum' = 0 /\ ForkGoes(t, "drain")
    /\ UNCHANGED <<count, background, alive, local, forkLock, forks>>

\* The bit of every shard is set before any shard is drained.
SetBit(t) ==
    /\ fork[t] = "setBits"
    /\ pending' = [pending EXCEPT ![cursor] = TRUE]
    /\ IF cursor + 1 < NumShards
       THEN cursor' = cursor + 1 /\ UNCHANGED <<fork, sum>>
       ELSE cursor' = 0 /\ sum' = 0 /\ ForkGoes(t, "drain")
    /\ UNCHANGED <<count, background, alive, local, forkLock, forks>>

\* total_in_flight, one load at a time.  A sum of zero ends the drain, and the
\* forking thread exempts itself from the gate.
Drain(t) ==
    /\ fork[t] = "drain"
    /\ IF cursor < NumShards
       THEN /\ sum' = sum + count[cursor] /\ cursor' = cursor + 1
            /\ UNCHANGED <<fork, depth>>
       ELSE /\ sum' = 0 /\ cursor' = 0
            /\ IF sum = 0
               THEN /\ ForkGoes(t, "prepared")
                    /\ depth' = [depth EXCEPT ![t] = @ + 1]
               ELSE UNCHANGED <<fork, depth>>
    /\ UNCHANGED <<gate, background, alive, pc, at, held, forkLock, forks>>

\* fork() itself (external): the parent goes on with all its threads, the child
\* with the forking thread and a copy of everything else.
ForkParent(t) ==
    /\ MayRun(t) /\ fork[t] = "prepared" /\ Idle(t)
    /\ ForkGoes(t, "parent")
    /\ UNCHANGED <<gate, background, alive, local, forkLock, cursor, sum, forks>>

ForkChild(t) ==
    /\ MayRun(t) /\ fork[t] = "prepared" /\ Idle(t)
    /\ ForkGoes(t, "child")
    /\ alive' = {t}
    /\ UNCHANGED <<gate, background, local, forkLock, cursor, sum, forks>>

\* postfork_parent: the bits are cleared one by one, then the exemption ends
\* and FORK_LOCK is released.
PostforkParent(t) ==
    /\ MayRun(t) /\ fork[t] = "parent" /\ Idle(t)
    /\ ForkGoes(t, "clearBits")
    /\ UNCHANGED <<gate, background, alive, local, forkLock, cursor, sum, forks>>

\* Mutant: only the bit of shard 0 is cleared.
ClearsFirstBit(t) ==
    /\ fork[t] = "clearBits"
    /\ pending' = [pending EXCEPT ![0] = FALSE]
    /\ ForkGoes(t, "none")
    /\ depth' = [depth EXCEPT ![t] = @ - 1]
    /\ forkLock' = NoThread
    /\ UNCHANGED <<count, background, alive, pc, at, held>>
    /\ UNCHANGED <<cursor, sum, forks>>

ClearBit(t) ==
    /\ fork[t] = "clearBits"
    /\ pending' = [pending EXCEPT ![cursor] = FALSE]
    /\ IF cursor + 1 < NumShards
       THEN cursor' = cursor + 1 /\ UNCHANGED <<fork, forkLock, depth>>
       ELSE /\ cursor' = 0
            /\ ForkGoes(t, "none")
            /\ depth' = [depth EXCEPT ![t] = @ - 1]
            /\ forkLock' = NoThread
    /\ UNCHANGED <<count, background, alive, pc, at, held, sum, forks>>

\* postfork_child: the only thread resets everything.
PostforkChild(t) ==
    /\ MayRun(t) /\ fork[t] = "child" /\ Idle(t)
    /\ pending' = [s \in Shards |-> FALSE]
    /\ count' = [s \in Shards |-> 0]
    /\ forkLock' = NoThread
    /\ depth' = [depth EXCEPT ![t] = 0]
    /\ background' = FALSE
    /\ ForkGoes(t, "none")
    /\ UNCHANGED <<alive, pc, at, held, cursor, sum, forks>>

-----------------------------------------------------------------------------
\* The steps of a guard entry or exit that is under way.
GuardStep(t) ==
    /\ t \in alive
    /\ \/ \E s \in Shards : Add(t, s) \/ MaintAdd(t, s)
       \/ BackOut(t) \/ Unpark(t) \/ MaintBackOut(t)

ForkStep(t) ==
    t \in alive /\ (Acquire(t) \/ SetBit(t) \/ Drain(t) \/ ClearBit(t))

\* fork() and the handlers around it, once prefork has returned.
WindowStep(t) == \/ ForkParent(t) \/ ForkChild(t)
                 \/ PostforkParent(t) \/ PostforkChild(t)

Next ==
    \/ \E t \in Threads : \/ OperationGuard(t) \/ MaintenanceGuard(t)
                          \/ GuardStep(t) \/ DropNested(t) \/ DropFirst(t)
                          \/ Prefork(t) \/ ForkStep(t) \/ WindowStep(t)
    \/ \E on \in BOOLEAN : SetBackground(on)

Spec == Init /\ [][Next]_vars

\* Fairness.  A thread that has started to enter, or to fork, goes on with it.
\* Every guard is dropped in the end, at its own level of nesting, and the
\* handlers that run in the window return, however many nested guards they take
\* meanwhile: hence strong fairness of leaving.  Nobody has to start an
\* operation, a pass or a fork.
Fairness ==
    \A t \in Threads :
        /\ WF_vars(GuardStep(t))
        /\ \A n \in 1 .. MaxNesting : SF_vars(nested[t] = n /\ DropNested(t))
        /\ SF_vars(DropFirst(t))
        /\ WF_vars(ForkStep(t))
        /\ SF_vars(WindowStep(t))

FairSpec == Spec /\ Fairness

-----------------------------------------------------------------------------
(* Properties *)

\* t executes an operation it was admitted to at first level.
Admitted(t) == slot[t] # NoSlot

\* fork.rs, prefork: when it returns, and until the postfork handler runs, no
\* other thread is inside an operation or a maintenance pass, so no allocator
\* lock is held when fork() copies the process.
QuiescedAtFork ==
    \A f \in Threads : InWindow(f) =>
        \A t \in alive \ {f} : Idle(t)

\* The threads that a shard counts.
Takers(s) == {t \in alive :
                 \/ slot[t] = s
                 \/ pc[t] \in {"backOut", "maintBackOut"} /\ at[t] = s}

\* operation_guard, maintenance_guard and Drop: the count of a shard is the
\* number of first-level guards that took it plus the entries that are about to
\* back out of it; in the child, from the moment postfork_child has run.
CountsBalance ==
    (\A t \in Threads : fork[t] # "child") =>
        \A s \in Shards :
            count[s] = Cardinality(Takers(s))

\* module reentry: the depth of a thread is exactly what it has open; a depth
\* that drifted up would let the thread pass every later fork unnoticed, one
\* that drifted down would make it park inside its own operation.
DepthBalances ==
    \A t \in alive :
        depth[t] = nested[t] + (IF Admitted(t) \/ pc[t] # "run" THEN 1 ELSE 0)
                   + (IF InWindow(t) \/ fork[t] = "clearBits" THEN 1 ELSE 0)

\* prefork's exemption: a thread that owns the window, or holds an operation,
\* never waits on a fork bit.
NeverParksInside ==
    \A t \in alive : pc[t] # "run" => ~InWindow(t) /\ Idle(t)

\* The drain of prefork ends: operations in flight finish, and an entry that
\* backs out adds to a count at most once per window.
DrainEnds ==
    \A t \in Threads : (fork[t] = "drain") ~> (InWindow(t) \/ t \notin alive)

\* An operation that parked on the fork bit is admitted in the end, unless its
\* thread is not part of the process that is followed.
ParkedIsAdmitted ==
    \A t \in Threads : (pc[t] = "park") ~> (Admitted(t) \/ t \notin alive)

\* Every fork that starts comes to an end, for all its competitors for
\* FORK_LOCK.
ForkEnds ==
    \A t \in Threads :
        (fork[t] # "none") ~> (fork[t] = "none" \/ t \notin alive)

\* The gate as a whole: it implements QuiesceGate.  In the child the inherited
\* guards of other threads are gone with them.
Inside == {t \in alive : Admitted(t)}

WindowOwner == IF \E f \in alive : InWindow(f)
               THEN CHOOSE f \in alive : InWindow(f) ELSE NoThread

Quiesce == INSTANCE QuiesceGate WITH
    Workers <- Threads, Nobody <- NoThread,
    inside <- Inside, owner <- WindowOwner

\* prefork and postfork open and close a window exactly as QuiesceGate says.
ImplementsQuiesceGate == Quiesce!GateSpec

\* The gate at every instant: no other thread is inside when prefork has
\* returned, counts and depths are exact, and nobody inside waits on a fork bit.
GateSound ==
    TypeOK /\ QuiescedAtFork /\ CountsBalance /\ DepthBalances /\ NeverParksInside

\* Drains, parked operations and forks all come to an end.
EverythingEnds == DrainEnds /\ ParkedIsAdmitted /\ ForkEnds
=============================================================================
