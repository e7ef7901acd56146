--------------------------- MODULE ForkGateProofs ---------------------------
(***************************************************************************)
(* Proofs about ForkGate, for any number of threads, shards and forks.     *)
(*                                                                         *)
(* QuiescedAtFork is not inductive: that the drain saw zero in a shard     *)
(* says nothing of the operations in it unless the count of the shard is   *)
(* right (Balanced), unless its bit was set when it was read and still is  *)
(* (BitsHold), and unless one thread at a time sets and clears bits        *)
(* (LockHeld).  That a thread has no nested guard open without a           *)
(* first-level one, and never enters the gate in its own window, is kept   *)
(* by the depth (LocalOK).                                                 *)
(***************************************************************************)
EXTENDS ForkGate, FiniteSetTheorems, TLAPS

\* The steps at which a thread holds FORK_LOCK.
Owning == {"setBits", "drain", "prepared", "parent", "clearBits", "child"}

BackingOut == {"backOut", "maintBackOut"}

\* What a thread's own variables say of each other.
LocalOK(t) ==
    /\ pc[t] # "run" => Idle(t) /\ fork[t] = "none"
    /\ pc[t] \in BackingOut \cup {"park"} => at[t] \in Shards
    /\ nested[t] > 0 => slot[t] # NoSlot \/ InWindow(t)
    /\ fork[t] # "none" => slot[t] = NoSlot
    /\ depth[t] = nested[t]
                  + (IF Admitted(t) \/ pc[t] # "run" THEN 1 ELSE 0)
                  + (IF InWindow(t) \/ fork[t] = "clearBits" THEN 1 ELSE 0)

LocalsOK == \A t \in alive : LocalOK(t)

LockHeld == \A t \in Threads : fork[t] \in Owning <=> forkLock = t

\* What the bits and the drain guarantee at each step of a fork.
BitsHold ==
    \A f \in Threads :
        /\ fork[f] = "setBits" =>
               cursor < NumShards /\ \A s \in Shards : s < cursor => pending[s]
        /\ fork[f] \in {"drain", "prepared", "parent", "child"} =>
               \A s \in Shards : pending[s]
        /\ (fork[f] = "drain" /\ sum = 0) =>
               \A s \in Shards : s < cursor => \A u \in alive : slot[u] # s
        /\ InWindow(f) => \A u \in alive : slot[u] = NoSlot
        /\ fork[f] \in {"prepared", "parent"} => cursor = 0
        /\ fork[f] = "clearBits" => cursor < NumShards

\* In the child the counts mean nothing until postfork_child resets them.
Balanced ==
    (\A t \in Threads : fork[t] # "child") =>
        \A s \in Shards : count[s] = Cardinality(Takers(s))

OnlyForker == \A t \in Threads : fork[t] = "child" => alive = {t}

IInv == TypeOK /\ LocalsOK /\ LockHeld /\ BitsHold /\ Balanced /\ OnlyForker

-----------------------------------------------------------------------------
\* Counting.
LEMMA TakersFinite ==
    ASSUME TypeOK, NEW s \in Shards
    PROVE  IsFiniteSet(Takers(s)) /\ Cardinality(Takers(s)) \in Nat
<1>1. Takers(s) \in SUBSET Threads
  BY Zenon DEF Takers, TypeOK
<1>2. IsFiniteSet(Takers(s))
  BY Zenon, <1>1, FS_Subset, ForkGateAssumption
<1>3. QED
  BY Zenon, <1>2, FS_CardinalityType

\* fetch_add counts one taker more ...
LEMMA CountedUp ==
    ASSUME TypeOK, Balanced, NEW s \in Shards, NEW t \in alive,
           \A u \in Threads : fork[u] # "child",
           count' = [count EXCEPT ![s] = @ + 1],
           t \notin Takers(s), Takers(s)' = Takers(s) \cup {t},
           \A r \in Shards : r # s => Takers(r)' = Takers(r)
    PROVE  Balanced'
<1>1. Cardinality(Takers(s) \cup {t}) = Cardinality(Takers(s)) + 1
  BY Zenon, TakersFinite, FS_AddElement
<1>2. ASSUME NEW r \in Shards
      PROVE  count'[r] = Cardinality(Takers(r)')
  <2>1. CASE r = s
    BY Zenon, <1>1, <2>1 DEF Balanced, TypeOK
  <2>2. CASE r # s
    BY Zenon, <2>2 DEF Balanced, TypeOK
  <2>3. QED
    BY Zenon, <2>1, <2>2
<1>3. QED
  BY Zenon, <1>2 DEF Balanced

\* ... and fetch_sub one less.
LEMMA CountedDown ==
    ASSUME TypeOK, Balanced, NEW s \in Shards, NEW t \in alive,
           \A u \in Threads : fork[u] # "child",
           count' = [count EXCEPT ![s] = @ - 1],
           t \in Takers(s), Takers(s)' = Takers(s) \ {t},
           \A r \in Shards : r # s => Takers(r)' = Takers(r)
    PROVE  Balanced' /\ count' \in [Shards -> Nat]
<1>1. /\ Cardinality(Takers(s) \ {t}) = Cardinality(Takers(s)) - 1
      /\ Cardinality(Takers(s) \ {t}) \in Nat
  BY Zenon, TakersFinite, FS_RemoveElement, FS_CardinalityType
<1>2. ASSUME NEW r \in Shards
      PROVE  count'[r] = Cardinality(Takers(r)') /\ count'[r] \in Nat
  <2>1. CASE r = s
    BY Zenon, <1>1, <2>1 DEF Balanced, TypeOK
  <2>2. CASE r # s
    BY Zenon, <2>2 DEF Balanced, TypeOK
  <2>3. QED
    BY Zenon, <2>1, <2>2
<1>3. Balanced'
  BY Zenon, <1>2 DEF Balanced
<1>4. QED
  BY Zenon, <1>2, <1>3 DEF TypeOK

\* The counts stay balanced when neither they nor their takers change.
LEMMA CountsKept ==
    ASSUME TypeOK, Balanced, count' = count,
           \A s \in Shards : Takers(s)' = Takers(s),
           (\A u \in Threads : fork'[u] # "child")
               => \A u \in Threads : fork[u] # "child"
    PROVE  Balanced'
BY Zenon DEF Balanced

\* The threads other than t keep their variables.
OthersKept(t) ==
    \A u \in alive : u # t =>
        /\ pc'[u] = pc[u] /\ at'[u] = at[u] /\ slot'[u] = slot[u]
        /\ nested'[u] = nested[u] /\ depth'[u] = depth[u] /\ fork'[u] = fork[u]

\* Who takes no step keeps its local facts.
LEMMA LocalsKept ==
    ASSUME LocalsOK, NEW t \in alive, alive' = alive, OthersKept(t), LocalOK(t)'
    PROVE  LocalsOK'
<1> SUFFICES ASSUME NEW u \in alive PROVE LocalOK(u)'
  BY Zenon DEF LocalsOK
<1>1. CASE u = t
  BY Zenon, <1>1
<1>2. CASE u # t
  BY <1>2 DEF LocalsOK, LocalOK, OthersKept, Idle, Admitted, InWindow
<1>3. QED
  BY Zenon, <1>1, <1>2

\* Steps of the guards leave the fork alone, and only empty slots.
LEMMA BitsKept ==
    ASSUME BitsHold, UNCHANGED <<fork, cursor, sum, pending, alive>>,
           \A u \in alive : slot'[u] = slot[u] \/ slot'[u] = NoSlot
    PROVE  BitsHold'
<1> SUFFICES ASSUME NEW f \in Threads
             PROVE  /\ (fork[f] = "drain" /\ sum = 0) =>
                          \A s \in Shards : s < cursor =>
                              \A u \in alive : slot'[u] # s
                    /\ InWindow(f) => \A u \in alive : slot'[u] = NoSlot
  BY Zenon DEF BitsHold, InWindow
<1>1. \A s \in Shards : s # NoSlot
  BY ForkGateAssumption DEF Shards, NoSlot
<1>2. QED
  BY Zenon, <1>1 DEF BitsHold

\* A thread at a step of the gate is not the owner of a window, and nobody is
\* in the child.
LEMMA NobodyInChild ==
    ASSUME IInv, NEW t \in alive, fork[t] # "child"
    PROVE  \A u \in Threads : fork[u] # "child"
BY Zenon DEF IInv, OnlyForker

\* A thread that leaves a shard is the only change to its takers.
LEMMA TakerGone ==
    ASSUME NEW t \in alive, NEW s \in Shards, alive' = alive,
           \A u \in alive : u # t => /\ slot'[u] = slot[u]
                                     /\ pc'[u] = pc[u] /\ at'[u] = at[u],
           slot'[t] = NoSlot, pc'[t] \notin BackingOut,
           \A r \in Shards : r # s => t \notin Takers(r)
    PROVE  /\ Takers(s)' = Takers(s) \ {t}
           /\ \A r \in Shards : r # s => Takers(r)' = Takers(r)
<1>1. \A r \in Shards : r # NoSlot
  BY ForkGateAssumption DEF Shards, NoSlot
<1>2. \A r \in Shards : t \notin Takers(r)'
  BY Zenon, <1>1 DEF Takers, BackingOut
<1>3. \A r \in Shards : \A u : u # t => (u \in Takers(r)' <=> u \in Takers(r))
  BY Zenon DEF Takers
<1>4. Takers(s)' = Takers(s) \ {t}
  BY Zenon, <1>2, <1>3
<1>5. ASSUME NEW r \in Shards, r # s
      PROVE  Takers(r)' = Takers(r)
  <2>1. \A u : u \in Takers(r)' <=> u \in Takers(r)
    BY Zenon, <1>2, <1>3, <1>5
  <2>2. QED
    BY Zenon, <2>1
<1>6. QED
  BY Zenon, <1>4, <1>5

\* FORK_LOCK: the thread at a step of a fork is the only one.
LEMMA OneOwner ==
    ASSUME IInv, NEW t \in alive, fork[t] \in Owning
    PROVE  t \in Threads /\ \A u \in Threads : fork[u] \in Owning => u = t
BY Zenon DEF IInv, TypeOK, LockHeld

\* Entering: only the depth, the step and the nested guards change.
LEMMA OperationGuardInv ==
    ASSUME IInv, NEW t \in alive, OperationGuard(t)
    PROVE  IInv'
<1>1. TypeOK'
  <2>1. t \in Threads
    BY Zenon DEF IInv, TypeOK
  <2>2. /\ depth' \in [Threads -> Nat]
        /\ nested' \in [Threads -> Nat]
        /\ pc' \in [Threads -> {"run", "add", "backOut", "park", "maintAdd",
                           "maintBackOut"}]
    BY <2>1 DEF IInv, TypeOK, OperationGuard, EnterAt
  <2>3. QED
    BY Zenon, <2>2
      DEF IInv, TypeOK, OperationGuard, EnterAt, gate, held, local, forking
<1>2. LocalsOK'
  <2>1. OthersKept(t)
    BY Zenon DEF IInv, TypeOK, OthersKept, OperationGuard, EnterAt, held, local, forking
  <2>2. LocalOK(t) /\ t \in Threads
    BY Zenon DEF IInv, TypeOK, LocalsOK
  <2>3. LocalOK(t)'
    BY SMTT(20), <2>2, ForkGateAssumption
      DEF IInv, TypeOK, LocalOK, Idle, Admitted, InWindow, MayRun, BackingOut,
          Shards, NoSlot, OperationGuard, EnterAt, held, local, forking
  <2>4. alive' = alive
    BY Zenon DEF OperationGuard, EnterAt
  <2>5. QED
    BY Zenon, <2>1, <2>3, <2>4, LocalsKept DEF IInv
<1>3. LockHeld'
  BY Zenon, ForkGateAssumption
    DEF IInv, TypeOK, LockHeld, Owning, OperationGuard, EnterAt, gate, held,
        local, forking
<1>4. BitsHold'
  <2>1. UNCHANGED <<fork, cursor, sum, pending, alive>>
    BY Zenon DEF OperationGuard, EnterAt, gate, forking
  <2>2. \A u \in alive : slot'[u] = slot[u] \/ slot'[u] = NoSlot
    BY Zenon DEF IInv, TypeOK, OperationGuard, EnterAt, held, local
  <2>3. QED
    BY Zenon, <2>1, <2>2, BitsKept DEF IInv
<1>5. Balanced'
  <2>1. \A s \in Shards : Takers(s)' = Takers(s)
    BY Zenon DEF IInv, TypeOK, Takers, MayRun, Shards, NoSlot, OperationGuard,
           EnterAt, gate, held, local, forking
  <2>2. QED
    BY Zenon, <2>1, CountsKept
      DEF IInv, TypeOK, OperationGuard, EnterAt, gate, held, local, forking
<1>6. OnlyForker'
  BY Zenon, NobodyInChild
    DEF IInv, TypeOK, OnlyForker, MayRun, OperationGuard, EnterAt, gate, held,
        local, forking
<1>7. QED
  BY Zenon, <1>1, <1>2, <1>3, <1>4, <1>5, <1>6 DEF IInv

\* maintenance_guard: the guard of a background pass.
LEMMA MaintenanceGuardInv ==
    ASSUME IInv, NEW t \in alive, MaintenanceGuard(t)
    PROVE  IInv'
<1>1. TypeOK'
  <2>1. t \in Threads
    BY Zenon DEF IInv, TypeOK
  <2>2. /\ depth' \in [Threads -> Nat]
        /\ nested' \in [Threads -> Nat]
        /\ pc' \in [Threads -> {"run", "add", "backOut", "park", "maintAdd",
                           "maintBackOut"}]
    BY <2>1 DEF IInv, TypeOK, MaintenanceGuard, EnterAt
  <2>3. QED
    BY <2>2
      DEF IInv, TypeOK, MaintenanceGuard, EnterAt, gate, held, local, forking
<1>2. LocalsOK'
  <2>1. OthersKept(t)
    BY Zenon DEF IInv, TypeOK, OthersKept, MaintenanceGuard, EnterAt, held, local, forking
  <2>2. LocalOK(t) /\ t \in Threads
    BY Zenon DEF IInv, TypeOK, LocalsOK
  <2>3. LocalOK(t)'
    BY SMTT(20), <2>2, ForkGateAssumption
      DEF IInv, TypeOK, LocalOK, Idle, Admitted, InWindow, MayRun, BackingOut,
          Shards, NoSlot, MaintenanceGuard, EnterAt, held, local, forking
  <2>4. alive' = alive
    BY Zenon DEF MaintenanceGuard, EnterAt
  <2>5. QED
    BY Zenon, <2>1, <2>3, <2>4, LocalsKept DEF IInv
<1>3. LockHeld'
  BY Zenon, ForkGateAssumption
    DEF IInv, TypeOK, LockHeld, Owning, MaintenanceGuard, EnterAt, gate, held,
        local, forking
<1>4. BitsHold'
  <2>1. UNCHANGED <<fork, cursor, sum, pending, alive>>
    BY Zenon DEF MaintenanceGuard, EnterAt, gate, forking
  <2>2. \A u \in alive : slot'[u] = slot[u] \/ slot'[u] = NoSlot
    BY Zenon DEF IInv, TypeOK, MaintenanceGuard, EnterAt, held, local
  <2>3. QED
    BY Zenon, <2>1, <2>2, BitsKept DEF IInv
<1>5. Balanced'
  <2>1. \A s \in Shards : Takers(s)' = Takers(s)
    BY Zenon DEF IInv, TypeOK, Takers, MayRun, Shards, NoSlot, MaintenanceGuard,
           EnterAt, gate, held, local, forking
  <2>2. QED
    BY Zenon, <2>1, CountsKept
      DEF IInv, TypeOK, MaintenanceGuard, EnterAt, gate, held, local, forking
<1>6. OnlyForker'
  BY Zenon, NobodyInChild
    DEF IInv, TypeOK, OnlyForker, MayRun, MaintenanceGuard, EnterAt, gate,
        held, local, forking
<1>7. QED
  BY Zenon, <1>1, <1>2, <1>3, <1>4, <1>5, <1>6 DEF IInv

\* fetch_add: no bit of a draining fork is clear, so no slot is taken behind it.
LEMMA AddInv ==
    ASSUME IInv, NEW t \in alive, NEW s \in Shards, Add(t, s)
    PROVE  IInv'
<1>1. TypeOK'
  <2>1. t \in Threads
    BY Zenon DEF IInv, TypeOK
  <2>2. count' \in [Shards -> Nat]
    BY DEF IInv, TypeOK, Add
  <2>3. /\ at' \in [Threads -> Shards \cup {NoSlot}]
        /\ slot' \in [Threads -> Shards \cup {NoSlot}]
    BY Zenon, <2>1 DEF IInv, TypeOK, Add
  <2>4. pc' \in [Threads -> {"run", "add", "backOut", "park", "maintAdd",
                           "maintBackOut"}]
    BY Zenon, <2>1 DEF IInv, TypeOK, Add
  <2>5. QED
    BY Zenon, <2>2, <2>3, <2>4 DEF IInv, TypeOK, Add, gate, held, local, forking
<1>2. LocalsOK'
  <2>1. OthersKept(t)
    BY Zenon DEF IInv, TypeOK, OthersKept, Add, held, local, forking
  <2>2. LocalOK(t) /\ t \in Threads
    BY Zenon DEF IInv, TypeOK, LocalsOK
  <2>3. LocalOK(t)'
    BY <2>2, ForkGateAssumption
      DEF IInv, TypeOK, LocalOK, Idle, Admitted, InWindow, MayRun, BackingOut,
          Shards, NoSlot, Add, held, local, forking
  <2>4. alive' = alive
    BY Zenon DEF Add
  <2>5. QED
    BY Zenon, <2>1, <2>3, <2>4, LocalsKept DEF IInv
<1>3. LockHeld'
  BY Zenon, ForkGateAssumption
    DEF IInv, TypeOK, LockHeld, Owning, Add, gate, held, local, forking
<1>4. BitsHold'
  BY SMTT(20), ForkGateAssumption
    DEF IInv, TypeOK, BitsHold, LockHeld, Owning, LocalsOK, LocalOK,
         InWindow, Shards, NoSlot, Idle, MayRun, Add, gate, held, local,
         forking
<1>5. Balanced'
  <2>1. \A u \in Threads : fork[u] # "child"
    BY Zenon, NobodyInChild DEF IInv, LocalsOK, LocalOK, Add
  <2>2. t \notin Takers(s)
    BY DEF IInv, LocalsOK, LocalOK, Idle, Takers, Add, Shards, NoSlot
  <2>3. /\ Takers(s)' = Takers(s) \cup {t}
        /\ \A r \in Shards : r # s => Takers(r)' = Takers(r)
    BY DEF IInv, TypeOK, LocalsOK, LocalOK, Idle, Takers, Add, Shards, NoSlot,
           forking
  <2>4. QED
    BY Zenon, <2>1, <2>2, <2>3, CountedUp DEF IInv, Add
<1>6. OnlyForker'
  BY Zenon, NobodyInChild
    DEF IInv, TypeOK, OnlyForker, MayRun, Add, gate, held, local, forking
<1>7. QED
  BY Zenon, <1>1, <1>2, <1>3, <1>4, <1>5, <1>6 DEF IInv

\* Its increment of a shard.
LEMMA MaintAddInv ==
    ASSUME IInv, NEW t \in alive, NEW s \in Shards, MaintAdd(t, s)
    PROVE  IInv'
<1>1. TypeOK'
  <2>1. t \in Threads
    BY Zenon DEF IInv, TypeOK
  <2>2. count' \in [Shards -> Nat]
    BY DEF IInv, TypeOK, MaintAdd
  <2>3. /\ at' \in [Threads -> Shards \cup {NoSlot}]
        /\ slot' \in [Threads -> Shards \cup {NoSlot}]
    BY Zenon, <2>1 DEF IInv, TypeOK, MaintAdd
  <2>4. pc' \in [Threads -> {"run", "add", "backOut", "park", "maintAdd",
                           "maintBackOut"}]
    BY Zenon, <2>1 DEF IInv, TypeOK, MaintAdd
  <2>5. QED
    BY Zenon, <2>2, <2>3, <2>4 DEF IInv, TypeOK, MaintAdd, gate, held, local, forking
<1>2. LocalsOK'
  <2>1. OthersKept(t)
    BY Zenon DEF IInv, TypeOK, OthersKept, MaintAdd, held, local, forking
  <2>2. LocalOK(t) /\ t \in Threads
    BY Zenon DEF IInv, TypeOK, LocalsOK
  <2>3. LocalOK(t)'
    BY <2>2, ForkGateAssumption
      DEF IInv, TypeOK, LocalOK, Idle, Admitted, InWindow, MayRun, BackingOut,
          Shards, NoSlot, MaintAdd, held, local, forking
  <2>4. alive' = alive
    BY Zenon DEF MaintAdd
  <2>5. QED
    BY Zenon, <2>1, <2>3, <2>4, LocalsKept DEF IInv
<1>3. LockHeld'
  BY Zenon, ForkGateAssumption
    DEF IInv, TypeOK, LockHeld, Owning, MaintAdd, gate, held, local, forking
<1>4. BitsHold'
  BY ForkGateAssumption
    DEF IInv, TypeOK, BitsHold, LockHeld, Owning, LocalsOK, LocalOK,
         InWindow, Shards, NoSlot, Idle, MayRun, MaintAdd, gate, held, local,
         forking
<1>5. Balanced'
  <2>1. \A u \in Threads : fork[u] # "child"
    BY Zenon, NobodyInChild DEF IInv, LocalsOK, LocalOK, MaintAdd
  <2>2. t \notin Takers(s)
    BY DEF IInv, LocalsOK, LocalOK, Idle, Takers, MaintAdd, Shards, NoSlot
  <2>3. /\ Takers(s)' = Takers(s) \cup {t}
        /\ \A r \in Shards : r # s => Takers(r)' = Takers(r)
    BY DEF IInv, TypeOK, LocalsOK, LocalOK, Idle, Takers, MaintAdd, Shards,
           NoSlot, forking
  <2>4. QED
    BY Zenon, <2>1, <2>2, <2>3, CountedUp DEF IInv, MaintAdd
<1>6. OnlyForker'
  BY Zenon, NobodyInChild
    DEF IInv, TypeOK, OnlyForker, MayRun, MaintAdd, gate, held, local, forking
<1>7. QED
  BY Zenon, <1>1, <1>2, <1>3, <1>4, <1>5, <1>6 DEF IInv

\* Backing out and leaving: one taker less in its own shard.
LEMMA BackOutInv ==
    ASSUME IInv, NEW t \in alive, BackOut(t)
    PROVE  IInv'
<1>1. Balanced' /\ count' \in [Shards -> Nat]
  <2>1. PICK s \in Shards : s = at[t]
    BY Zenon DEF IInv, TypeOK, LocalsOK, LocalOK, BackOut, BackingOut
  <2>2. \A u \in Threads : fork[u] # "child"
    BY Zenon, <2>1, NobodyInChild
      DEF IInv, LocalsOK, LocalOK, BackOut, MayRun, BackingOut, NoSlot, Shards
  <2>3. t \in Takers(s) /\ \A r \in Shards : r # s => t \notin Takers(r)
    BY <2>1, ForkGateAssumption
      DEF IInv, LocalsOK, LocalOK, Idle, MayRun, BackOut, Shards, NoSlot,
          Takers
  <2>4. /\ alive' = alive /\ slot'[t] = NoSlot
        /\ \A u \in alive : u # t => /\ slot'[u] = slot[u]
                                  /\ pc'[u] = pc[u] /\ at'[u] = at[u]
    BY Zenon DEF IInv, TypeOK, BackOut, LocalsOK, LocalOK, Idle, forking, held
  <2>5. pc'[t] \notin BackingOut
    BY Zenon DEF IInv, TypeOK, BackOut, MayRun, BackingOut
  <2>6. /\ Takers(s)' = Takers(s) \ {t}
        /\ \A r \in Shards : r # s => Takers(r)' = Takers(r)
    BY Zenon, <2>3, <2>4, <2>5, TakerGone
  <2>7. count' = [count EXCEPT ![s] = @ - 1]
    BY Zenon, <2>1 DEF BackOut
  <2>8. QED
    BY Zenon, <2>2, <2>3, <2>6, <2>7, CountedDown DEF IInv
<1>2. TypeOK'
  <2>1. t \in Threads
    BY Zenon DEF IInv, TypeOK
  <2>2. QED
    BY Zenon, <1>1, <2>1 DEF IInv, TypeOK, BackOut, gate, held, local, forking
<1>3. LocalsOK'
  <2>1. OthersKept(t)
    BY Zenon DEF IInv, TypeOK, OthersKept, BackOut, held, local, forking
  <2>2. LocalOK(t) /\ t \in Threads
    BY Zenon DEF IInv, TypeOK, LocalsOK
  <2>3. LocalOK(t)'
    BY Zenon, <2>2, ForkGateAssumption
      DEF IInv, TypeOK, LocalOK, Idle, Admitted, InWindow, MayRun, BackingOut,
          Shards, NoSlot, BackOut, held, local, forking
  <2>4. alive' = alive
    BY Zenon DEF BackOut
  <2>5. QED
    BY Zenon, <2>1, <2>3, <2>4, LocalsKept DEF IInv
<1>4. LockHeld'
  BY Zenon, ForkGateAssumption
    DEF IInv, TypeOK, LockHeld, Owning, BackOut, gate, held, local, forking
<1>5. BitsHold'
  <2>1. UNCHANGED <<fork, cursor, sum, pending, alive>>
    BY Zenon DEF BackOut, EnterAt, gate, forking
  <2>2. \A u \in alive : slot'[u] = slot[u] \/ slot'[u] = NoSlot
    BY Zenon DEF IInv, TypeOK, BackOut, EnterAt, held, local
  <2>3. QED
    BY Zenon, <2>1, <2>2, BitsKept DEF IInv
<1>6. OnlyForker'
  BY Zenon, NobodyInChild
    DEF IInv, TypeOK, OnlyForker, MayRun, BackOut, gate, held, local, forking
<1>7. QED
  BY Zenon, <1>1, <1>2, <1>3, <1>4, <1>5, <1>6 DEF IInv

\* A parked thread that finds its shard open again starts over.
LEMMA UnparkInv ==
    ASSUME IInv, NEW t \in alive, Unpark(t)
    PROVE  IInv'
<1>1. TypeOK'
  BY Zenon DEF IInv, TypeOK, Shards, NoSlot, Unpark, gate, held, local, forking
<1>2. LocalsOK'
  <2>1. OthersKept(t)
    BY Zenon DEF IInv, TypeOK, OthersKept, Unpark, held, local, forking
  <2>2. LocalOK(t) /\ t \in Threads
    BY Zenon DEF IInv, TypeOK, LocalsOK
  <2>3. LocalOK(t)'
    BY Zenon, <2>2, ForkGateAssumption
      DEF IInv, TypeOK, LocalOK, Idle, Admitted, InWindow, MayRun, BackingOut,
          Shards, NoSlot, Unpark, held, local, forking
  <2>4. alive' = alive
    BY Zenon DEF Unpark
  <2>5. QED
    BY Zenon, <2>1, <2>3, <2>4, LocalsKept DEF IInv
<1>3. LockHeld'
  BY Zenon, ForkGateAssumption
    DEF IInv, TypeOK, LockHeld, Owning, Unpark, gate, held, local, forking
<1>4. BitsHold'
  <2>1. UNCHANGED <<fork, cursor, sum, pending, alive>>
    BY Zenon DEF Unpark, EnterAt, gate, forking
  <2>2. \A u \in alive : slot'[u] = slot[u] \/ slot'[u] = NoSlot
    BY Zenon DEF IInv, TypeOK, Unpark, EnterAt, held, local
  <2>3. QED
    BY Zenon, <2>1, <2>2, BitsKept DEF IInv
<1>5. Balanced'
  <2>1. \A s \in Shards : Takers(s)' = Takers(s)
    BY Zenon DEF IInv, TypeOK, Takers, MayRun, Shards, NoSlot, Unpark, gate, held,
           local, forking
  <2>2. QED
    BY Zenon, <2>1, CountsKept DEF IInv, TypeOK, Unpark, gate, held, local, forking
<1>6. OnlyForker'
  BY Zenon, NobodyInChild
    DEF IInv, TypeOK, OnlyForker, MayRun, Unpark, gate, held, local, forking
<1>7. QED
  BY Zenon, <1>1, <1>2, <1>3, <1>4, <1>5, <1>6 DEF IInv

\* A background pass that saw a fork coming takes its increment back.
LEMMA MaintBackOutInv ==
    ASSUME IInv, NEW t \in alive, MaintBackOut(t)
    PROVE  IInv'
<1>1. Balanced' /\ count' \in [Shards -> Nat]
  <2>1. PICK s \in Shards : s = at[t]
    BY Zenon DEF IInv, TypeOK, LocalsOK, LocalOK, MaintBackOut, BackingOut
  <2>2. \A u \in Threads : fork[u] # "child"
    BY Zenon, <2>1, NobodyInChild
      DEF IInv, LocalsOK, LocalOK, MaintBackOut, MayRun, BackingOut, NoSlot,
          Shards
  <2>3. t \in Takers(s) /\ \A r \in Shards : r # s => t \notin Takers(r)
    BY <2>1, ForkGateAssumption
      DEF IInv, LocalsOK, LocalOK, Idle, MayRun, MaintBackOut, Shards, NoSlot,
          Takers
  <2>4. /\ alive' = alive /\ slot'[t] = NoSlot
        /\ \A u \in alive : u # t => /\ slot'[u] = slot[u]
                                  /\ pc'[u] = pc[u] /\ at'[u] = at[u]
    BY Zenon DEF IInv, TypeOK, MaintBackOut, LocalsOK, LocalOK, Idle, forking, held
  <2>5. pc'[t] \notin BackingOut
    BY Zenon DEF IInv, TypeOK, MaintBackOut, MayRun, BackingOut
  <2>6. /\ Takers(s)' = Takers(s) \ {t}
        /\ \A r \in Shards : r # s => Takers(r)' = Takers(r)
    BY Zenon, <2>3, <2>4, <2>5, TakerGone
  <2>7. count' = [count EXCEPT ![s] = @ - 1]
    BY Zenon, <2>1 DEF MaintBackOut
  <2>8. QED
    BY Zenon, <2>2, <2>3, <2>6, <2>7, CountedDown DEF IInv
<1>2. TypeOK'
  <2>1. t \in Threads
    BY Zenon DEF IInv, TypeOK
  <2>2. depth[t] > 0
    BY <2>1
      DEF IInv, TypeOK, LocalsOK, LocalOK, MaintBackOut, Admitted, InWindow
  <2>3. depth' \in [Threads -> Nat]
    BY <2>1, <2>2 DEF IInv, TypeOK, MaintBackOut
  <2>4. QED
    BY Zenon, <1>1, <2>1, <2>3
      DEF IInv, TypeOK, MaintBackOut, gate, held, local, forking
<1>3. LocalsOK'
  <2>1. OthersKept(t)
    BY Zenon DEF IInv, TypeOK, OthersKept, MaintBackOut, held, local, forking
  <2>2. LocalOK(t) /\ t \in Threads
    BY Zenon DEF IInv, TypeOK, LocalsOK
  <2>3. LocalOK(t)'
    BY <2>2, ForkGateAssumption
      DEF IInv, TypeOK, LocalOK, Idle, Admitted, InWindow, MayRun, BackingOut,
          Shards, NoSlot, MaintBackOut, held, local, forking
  <2>4. alive' = alive
    BY Zenon DEF MaintBackOut
  <2>5. QED
    BY Zenon, <2>1, <2>3, <2>4, LocalsKept DEF IInv
<1>4. LockHeld'
  BY Zenon, ForkGateAssumption
    DEF IInv, TypeOK, LockHeld, Owning, MaintBackOut, gate, held, local,
        forking
<1>5. BitsHold'
  <2>1. UNCHANGED <<fork, cursor, sum, pending, alive>>
    BY Zenon DEF MaintBackOut, EnterAt, gate, forking
  <2>2. \A u \in alive : slot'[u] = slot[u] \/ slot'[u] = NoSlot
    BY Zenon DEF IInv, TypeOK, MaintBackOut, EnterAt, held, local
  <2>3. QED
    BY Zenon, <2>1, <2>2, BitsKept DEF IInv
<1>6. OnlyForker'
  BY Zenon, NobodyInChild
    DEF IInv, TypeOK, OnlyForker, MayRun, MaintBackOut, gate, held, local,
        forking
<1>7. QED
  BY Zenon, <1>1, <1>2, <1>3, <1>4, <1>5, <1>6 DEF IInv

\* The drop of a guard that took no slot.
LEMMA DropNestedInv ==
    ASSUME IInv, NEW t \in alive, DropNested(t)
    PROVE  IInv'
<1>1. TypeOK'
  <2>1. t \in Threads /\ depth[t] > 0
    BY DEF IInv, TypeOK, LocalsOK, LocalOK, DropNested, Admitted, InWindow
  <2>2. depth' \in [Threads -> Nat] /\ nested' \in [Threads -> Nat]
    BY <2>1 DEF IInv, TypeOK, DropNested
  <2>3. QED
    BY Zenon, <2>2 DEF IInv, TypeOK, DropNested, gate, held, local, forking
<1>2. LocalsOK'
  <2>1. OthersKept(t)
    BY Zenon DEF IInv, TypeOK, OthersKept, DropNested, held, local, forking
  <2>2. LocalOK(t) /\ t \in Threads
    BY Zenon DEF IInv, TypeOK, LocalsOK
  <2>3. LocalOK(t)'
    BY <2>2, ForkGateAssumption
      DEF IInv, TypeOK, LocalOK, Idle, Admitted, InWindow, MayRun, BackingOut,
          Shards, NoSlot, DropNested, held, local, forking
  <2>4. alive' = alive
    BY Zenon DEF DropNested
  <2>5. QED
    BY Zenon, <2>1, <2>3, <2>4, LocalsKept DEF IInv
<1>3. LockHeld'
  BY Zenon, ForkGateAssumption
    DEF IInv, TypeOK, LockHeld, Owning, DropNested, gate, held, local, forking
<1>4. BitsHold'
  <2>1. UNCHANGED <<fork, cursor, sum, pending, alive>>
    BY Zenon DEF DropNested, EnterAt, gate, forking
  <2>2. \A u \in alive : slot'[u] = slot[u] \/ slot'[u] = NoSlot
    BY Zenon DEF IInv, TypeOK, DropNested, EnterAt, held, local
  <2>3. QED
    BY Zenon, <2>1, <2>2, BitsKept DEF IInv
<1>5. Balanced'
  <2>1. \A s \in Shards : Takers(s)' = Takers(s)
    BY Zenon DEF IInv, TypeOK, Takers, MayRun, Shards, NoSlot, DropNested, gate,
           held, local, forking
  <2>2. QED
    BY Zenon, <2>1, CountsKept
      DEF IInv, TypeOK, DropNested, gate, held, local, forking
<1>6. OnlyForker'
  BY Zenon, NobodyInChild
    DEF IInv, TypeOK, OnlyForker, MayRun, DropNested, gate, held, local,
        forking
<1>7. QED
  BY Zenon, <1>1, <1>2, <1>3, <1>4, <1>5, <1>6 DEF IInv

\* The drop of the guard that did.
LEMMA DropFirstInv ==
    ASSUME IInv, NEW t \in alive, DropFirst(t)
    PROVE  IInv'
<1>1. Balanced' /\ count' \in [Shards -> Nat]
  <2>1. PICK s \in Shards : s = slot[t]
    BY Zenon DEF IInv, TypeOK, LocalsOK, LocalOK, DropFirst, BackingOut
  <2>2. \A u \in Threads : fork[u] # "child"
    BY Zenon, <2>1, NobodyInChild
      DEF IInv, LocalsOK, LocalOK, DropFirst, MayRun, BackingOut, NoSlot,
          Shards
  <2>3. t \in Takers(s) /\ \A r \in Shards : r # s => t \notin Takers(r)
    BY Zenon, <2>1, ForkGateAssumption
      DEF IInv, LocalsOK, LocalOK, Idle, MayRun, DropFirst, Shards, NoSlot,
          Takers
  <2>4. /\ alive' = alive /\ slot'[t] = NoSlot
        /\ \A u \in alive : u # t => /\ slot'[u] = slot[u]
                                  /\ pc'[u] = pc[u] /\ at'[u] = at[u]
    BY Zenon DEF IInv, TypeOK, DropFirst, LocalsOK, LocalOK, Idle, forking, held
  <2>5. pc'[t] \notin BackingOut
    BY Zenon DEF IInv, TypeOK, DropFirst, MayRun, BackingOut
  <2>6. /\ Takers(s)' = Takers(s) \ {t}
        /\ \A r \in Shards : r # s => Takers(r)' = Takers(r)
    BY Zenon, <2>3, <2>4, <2>5, TakerGone
  <2>7. count' = [count EXCEPT ![s] = @ - 1]
    BY Zenon, <2>1 DEF DropFirst
  <2>8. QED
    BY Zenon, <2>2, <2>3, <2>6, <2>7, CountedDown DEF IInv
<1>2. TypeOK'
  <2>1. t \in Threads
    BY Zenon DEF IInv, TypeOK
  <2>2. depth[t] > 0
    BY <2>1 DEF IInv, TypeOK, LocalsOK, LocalOK, DropFirst, Admitted, InWindow
  <2>3. depth' \in [Threads -> Nat]
    BY <2>1, <2>2 DEF IInv, TypeOK, DropFirst
  <2>4. QED
    BY Zenon, <1>1, <2>1, <2>3 DEF IInv, TypeOK, DropFirst, gate, held, local, forking
<1>3. LocalsOK'
  <2>1. OthersKept(t)
    BY Zenon DEF IInv, TypeOK, OthersKept, DropFirst, held, local, forking
  <2>2. LocalOK(t) /\ t \in Threads
    BY Zenon DEF IInv, TypeOK, LocalsOK
  <2>3. LocalOK(t)'
    BY <2>2, ForkGateAssumption
      DEF IInv, TypeOK, LocalOK, Idle, Admitted, InWindow, MayRun, BackingOut,
          Shards, NoSlot, DropFirst, held, local, forking
  <2>4. alive' = alive
    BY Zenon DEF DropFirst
  <2>5. QED
    BY Zenon, <2>1, <2>3, <2>4, LocalsKept DEF IInv
<1>4. LockHeld'
  BY Zenon, ForkGateAssumption
    DEF IInv, TypeOK, LockHeld, Owning, DropFirst, gate, held, local, forking
<1>5. BitsHold'
  <2>1. UNCHANGED <<fork, cursor, sum, pending, alive>>
    BY Zenon DEF DropFirst, EnterAt, gate, forking
  <2>2. \A u \in alive : slot'[u] = slot[u] \/ slot'[u] = NoSlot
    BY Zenon DEF IInv, TypeOK, DropFirst, EnterAt, held, local
  <2>3. QED
    BY Zenon, <2>1, <2>2, BitsKept DEF IInv
<1>6. OnlyForker'
  BY Zenon, NobodyInChild
    DEF IInv, TypeOK, OnlyForker, MayRun, DropFirst, gate, held, local, forking
<1>7. QED
  BY Zenon, <1>1, <1>2, <1>3, <1>4, <1>5, <1>6 DEF IInv

\* The switch of the background passes.
LEMMA SetBackgroundInv ==
    ASSUME IInv, NEW on \in BOOLEAN, SetBackground(on)
    PROVE  IInv'
<1>1. TypeOK'
  BY Zenon DEF IInv, TypeOK, Shards, NoSlot, SetBackground, gate, held, local,
         forking
<1>2. LocalsOK'
  BY ZenonT(30) DEF IInv, TypeOK, LocalsOK, LocalOK, Idle, Admitted, InWindow, MayRun,
         BackingOut, Shards, NoSlot, SetBackground, gate, held, local, forking
<1>3. LockHeld'
  BY Zenon, ForkGateAssumption
    DEF IInv, TypeOK, LockHeld, Owning, SetBackground, gate, held, local,
        forking
<1>4. BitsHold'
  BY Zenon, ForkGateAssumption
    DEF IInv, TypeOK, BitsHold, LockHeld, Owning, LocalsOK, LocalOK,
         InWindow, Shards, NoSlot, Idle, MayRun, SetBackground, gate, held,
         local, forking
<1>5. Balanced'
  <2>1. \A s \in Shards : Takers(s)' = Takers(s)
    BY Zenon DEF IInv, TypeOK, Takers, MayRun, Shards, NoSlot, SetBackground, gate,
           held, local, forking
  <2>2. QED
    BY Zenon, <2>1, CountsKept
      DEF IInv, TypeOK, SetBackground, gate, held, local, forking
<1>6. OnlyForker'
  BY Zenon, NobodyInChild
    DEF IInv, TypeOK, OnlyForker, MayRun, SetBackground, gate, held, local,
        forking
<1>7. QED
  BY Zenon, <1>1, <1>2, <1>3, <1>4, <1>5, <1>6 DEF IInv

\* The fork: bits up to the cursor are set, then counts up to it are zero.
LEMMA PreforkInv ==
    ASSUME IInv, NEW t \in alive, Prefork(t)
    PROVE  IInv'
<1>1. TypeOK'
  BY DEF IInv, TypeOK, Shards, NoSlot, Prefork, ForkGoes, gate, held, local,
         forking
<1>2. LocalsOK'
  <2>1. OthersKept(t)
    BY Zenon DEF IInv, TypeOK, OthersKept, Prefork, ForkGoes, held, local, forking
  <2>2. LocalOK(t) /\ t \in Threads
    BY Zenon DEF IInv, TypeOK, LocalsOK
  <2>3. LocalOK(t)'
    BY Zenon, <2>2, ForkGateAssumption
      DEF IInv, TypeOK, LocalOK, Idle, Admitted, InWindow, MayRun, BackingOut,
          Shards, NoSlot, Prefork, ForkGoes, held, local, forking
  <2>4. alive' = alive
    BY Zenon DEF Prefork, ForkGoes
  <2>5. QED
    BY Zenon, <2>1, <2>3, <2>4, LocalsKept DEF IInv
<1>3. LockHeld'
  BY Zenon, ForkGateAssumption
    DEF IInv, TypeOK, LockHeld, Owning, Prefork, ForkGoes, gate, held, local,
        forking
<1>4. BitsHold'
  BY ForkGateAssumption
    DEF IInv, TypeOK, BitsHold, LockHeld, Owning, LocalsOK, LocalOK,
         InWindow, Shards, NoSlot, Idle, MayRun, Prefork, ForkGoes, gate,
         held, local, forking
<1>5. Balanced'
  <2>1. \A s \in Shards : Takers(s)' = Takers(s)
    BY Zenon DEF IInv, TypeOK, Takers, MayRun, Shards, NoSlot, Prefork, ForkGoes,
           gate, held, local, forking
  <2>2. QED
    BY Zenon, <2>1, CountsKept
      DEF IInv, TypeOK, Prefork, ForkGoes, gate, held, local, forking
<1>6. OnlyForker'
  BY Zenon, NobodyInChild
    DEF IInv, TypeOK, OnlyForker, MayRun, Prefork, ForkGoes, gate, held,
        local, forking
<1>7. QED
  BY Zenon, <1>1, <1>2, <1>3, <1>4, <1>5, <1>6 DEF IInv

\* prefork takes FORK_LOCK.
LEMMA AcquireInv ==
    ASSUME IInv, NEW t \in alive, Acquire(t)
    PROVE  IInv'
<1>1. TypeOK'
  <2>1. t \in Threads
    BY Zenon DEF IInv, TypeOK
  <2>2. QED
    BY <2>1, ForkGateAssumption
      DEF IInv, TypeOK, Acquire, ForkGoes, gate, held, local, forking
<1>2. LocalsOK'
  <2>1. OthersKept(t)
    BY Zenon DEF IInv, TypeOK, OthersKept, Acquire, ForkGoes, held, local, forking
  <2>2. LocalOK(t) /\ t \in Threads
    BY Zenon DEF IInv, TypeOK, LocalsOK
  <2>3. LocalOK(t)'
    BY Zenon, <2>2, ForkGateAssumption
      DEF IInv, TypeOK, LocalOK, Idle, Admitted, InWindow, MayRun, BackingOut,
          Shards, NoSlot, Acquire, ForkGoes, held, local, forking
  <2>4. alive' = alive
    BY Zenon DEF Acquire, ForkGoes
  <2>5. QED
    BY Zenon, <2>1, <2>3, <2>4, LocalsKept DEF IInv
<1>3. LockHeld'
  BY Zenon, ForkGateAssumption
    DEF IInv, TypeOK, LockHeld, Owning, Acquire, ForkGoes, gate, held, local,
        forking
<1>4. BitsHold'
  BY ForkGateAssumption
    DEF IInv, TypeOK, BitsHold, LockHeld, Owning, LocalsOK, LocalOK,
         InWindow, Shards, NoSlot, Idle, MayRun, Acquire, ForkGoes, gate,
         held, local, forking
<1>5. Balanced'
  <2>1. \A s \in Shards : Takers(s)' = Takers(s)
    BY Zenon DEF IInv, TypeOK, Takers, MayRun, Shards, NoSlot, Acquire, ForkGoes,
           gate, held, local, forking
  <2>2. QED
    BY Zenon, <2>1, CountsKept
      DEF IInv, TypeOK, Acquire, ForkGoes, gate, held, local, forking
<1>6. OnlyForker'
  BY NobodyInChild
    DEF IInv, TypeOK, OnlyForker, MayRun, Acquire, ForkGoes, gate, held,
        local, forking
<1>7. QED
  BY Zenon, <1>1, <1>2, <1>3, <1>4, <1>5, <1>6 DEF IInv

\* prefork raises the bit of one shard.
LEMMA SetBitInv ==
    ASSUME IInv, NEW t \in alive, SetBit(t)
    PROVE  IInv'
<1>1. TypeOK'
  <2>1. t \in Threads /\ cursor \in Shards
    BY ForkGateAssumption DEF IInv, TypeOK, BitsHold, SetBit, Shards
  <2>2. pending' \in [Shards -> BOOLEAN]
    BY Zenon, <2>1 DEF IInv, TypeOK, SetBit
  <2>3. fork' \in [Threads -> {"none", "acquire", "setBits", "drain",
  "prepared",
                             "parent", "clearBits", "child"}]
    BY ZenonT(30), <2>1 DEF IInv, TypeOK, SetBit, ForkGoes
  <2>4. cursor' \in 0 .. NumShards /\ sum' \in Nat
    BY <2>1, ForkGateAssumption DEF IInv, TypeOK, SetBit, Shards
  <2>5. QED
    BY Zenon, <2>2, <2>3, <2>4 DEF IInv, TypeOK, SetBit, gate, held, local, forking
<1>2. LocalsOK'
  <2>1. OthersKept(t)
    BY Zenon DEF IInv, TypeOK, OthersKept, SetBit, ForkGoes, held, local, forking
  <2>2. LocalOK(t) /\ t \in Threads
    BY Zenon DEF IInv, TypeOK, LocalsOK
  <2>3. LocalOK(t)'
    BY Zenon, <2>2, ForkGateAssumption
      DEF IInv, TypeOK, LocalOK, Idle, Admitted, InWindow, MayRun, BackingOut,
          Shards, NoSlot, SetBit, ForkGoes, held, local, forking
  <2>4. alive' = alive
    BY Zenon DEF SetBit, ForkGoes
  <2>5. QED
    BY Zenon, <2>1, <2>3, <2>4, LocalsKept DEF IInv
<1>3. LockHeld'
  BY ForkGateAssumption
    DEF IInv, TypeOK, LockHeld, Owning, SetBit, ForkGoes, gate, held, local,
        forking
<1>4. BitsHold'
  <2>1. /\ fork[t] = "setBits" /\ fork[t] \in Owning
        /\ pending' = [pending EXCEPT ![cursor] = TRUE]
    BY Zenon DEF SetBit, Owning
  <2>2. t \in Threads /\ cursor \in Nat /\ cursor < NumShards
    BY <2>1 DEF IInv, TypeOK, BitsHold
  <2>3. \A s \in Shards : s < cursor + 1 => pending'[s]
    BY <2>1, <2>2, ForkGateAssumption DEF IInv, TypeOK, BitsHold, Shards
  <2>4. \/ fork' = fork /\ cursor' = cursor + 1 /\ cursor' < NumShards
        \/ /\ fork' = [fork EXCEPT ![t] = "drain"] /\ cursor' = 0
           /\ \A s \in Shards : pending'[s]
    BY <2>2, <2>3, ForkGateAssumption DEF SetBit, ForkGoes, Shards
  <2>5. \A f \in Threads : f # t => fork'[f] \notin Owning
    BY Zenon, <2>1, <2>4, OneOwner DEF IInv, TypeOK
  <2>6. \/ fork'[t] = "setBits" /\ cursor' = cursor + 1 /\ cursor' < NumShards
        \/ fork'[t] = "drain" /\ cursor' = 0 /\ \A s \in Shards : pending'[s]
    BY Zenon, <2>1, <2>2, <2>4 DEF IInv, TypeOK
  <2>7. \A s \in Shards : ~(s < 0)
    BY ForkGateAssumption DEF Shards
  <2>8. QED
    BY Zenon, <2>3, <2>5, <2>6, <2>7 DEF BitsHold, InWindow, Owning
<1>5. Balanced'
  <2>1. \A s \in Shards : Takers(s)' = Takers(s)
    BY Zenon DEF IInv, TypeOK, Takers, MayRun, Shards, NoSlot, SetBit, ForkGoes,
           gate, held, local, forking
  <2>2. QED
    BY Zenon, <2>1, CountsKept
      DEF IInv, TypeOK, SetBit, ForkGoes, gate, held, local, forking
<1>6. OnlyForker'
  BY NobodyInChild
    DEF IInv, TypeOK, OnlyForker, MayRun, SetBit, ForkGoes, gate, held, local,
        forking
<1>7. QED
  BY Zenon, <1>1, <1>2, <1>3, <1>4, <1>5, <1>6 DEF IInv

\* prefork reads one count of its sum.
LEMMA DrainInv ==
    ASSUME IInv, NEW t \in alive, Drain(t)
    PROVE  IInv'
<1>1. TypeOK'
  <2>1. t \in Threads
    BY Zenon DEF IInv, TypeOK
  <2>2. cursor' \in 0 .. NumShards /\ sum' \in Nat
    BY ForkGateAssumption DEF IInv, TypeOK, Drain, Shards
  <2>3. fork' \in [Threads -> {"none", "acquire", "setBits", "drain",
  "prepared",
                             "parent", "clearBits", "child"}]
    BY Zenon, <2>1 DEF IInv, TypeOK, Drain, ForkGoes
  <2>4. depth' \in [Threads -> Nat]
    BY <2>1 DEF IInv, TypeOK, Drain
  <2>5. QED
    BY Zenon, <2>2, <2>3, <2>4 DEF IInv, TypeOK, Drain, gate, held, local, forking
<1>2. LocalsOK'
  <2>1. OthersKept(t)
    BY Zenon DEF IInv, TypeOK, OthersKept, Drain, ForkGoes, held, local, forking
  <2>2. LocalOK(t) /\ t \in Threads
    BY Zenon DEF IInv, TypeOK, LocalsOK
  <2>3. LocalOK(t)'
    BY SMTT(20), <2>2, ForkGateAssumption
      DEF IInv, TypeOK, LocalOK, Idle, Admitted, InWindow, MayRun, BackingOut,
          Shards, NoSlot, Drain, ForkGoes, held, local, forking
  <2>4. alive' = alive
    BY Zenon DEF Drain, ForkGoes
  <2>5. QED
    BY Zenon, <2>1, <2>3, <2>4, LocalsKept DEF IInv
<1>3. LockHeld'
  BY ForkGateAssumption
    DEF IInv, TypeOK, LockHeld, Owning, Drain, ForkGoes, gate, held, local,
        forking
<1>4. BitsHold'
  <2>1. t \in Threads /\ \A u \in Threads : fork[u] \in Owning => u = t
    BY Zenon, OneOwner DEF Owning, Drain
  <2>2. CASE cursor < NumShards
    <3>1. cursor \in Shards /\ count[cursor] \in Nat
      BY <2>2, ForkGateAssumption DEF IInv, TypeOK, Shards
    <3>2. count[cursor] = 0 => \A u \in alive : slot[u] # cursor
      <4>1. count[cursor] = Cardinality(Takers(cursor))
        BY Zenon, <3>1, NobodyInChild DEF IInv, Balanced, Drain
      <4>2. count[cursor] = 0 => Takers(cursor) = {}
        BY Zenon, <3>1, <4>1, TakersFinite, FS_EmptySet DEF IInv
      <4>3. QED
        BY Zenon, <4>2 DEF Takers
    <3>3. sum' = 0 => sum = 0 /\ count[cursor] = 0
      BY <2>2, <3>1 DEF IInv, TypeOK, Drain
    <3>4. sum' = 0 =>
            \A s \in Shards : s < cursor' => \A u \in alive : slot[u] # s
      BY <2>1, <2>2, <3>1, <3>2, <3>3
        DEF IInv, TypeOK, BitsHold, Drain, Shards
    <3>5. UNCHANGED <<fork, pending, slot, alive>> /\ fork[t] = "drain"
      BY Zenon, <2>2 DEF Drain, gate, held
    <3>6. QED
      BY Zenon, <2>1, <3>4, <3>5 DEF IInv, BitsHold, InWindow, Owning
  <2>3. CASE ~(cursor < NumShards)
    <3>1. /\ \A s \in Shards : s < cursor
          /\ UNCHANGED <<pending, slot, alive>> /\ cursor' = 0
      BY <2>3, ForkGateAssumption DEF IInv, TypeOK, Drain, gate, held, Shards
    <3>2. CASE sum # 0
      <4>1. fork' = fork
        BY Zenon, <2>3, <3>2 DEF Drain
      <4>2. QED
        BY <2>1, <3>1, <4>1, ForkGateAssumption
          DEF IInv, BitsHold, InWindow, Owning, Shards, Drain
    <3>3. CASE sum = 0
      <4>1. fork' = [fork EXCEPT ![t] = "prepared"]
        BY Zenon, <2>3, <3>3 DEF Drain, ForkGoes
      <4>2. \A u \in alive : slot[u] = NoSlot
        BY Zenon, <2>1, <3>1, <3>3 DEF IInv, TypeOK, BitsHold, Drain
      <4>3. QED
        BY <2>1, <3>1, <4>1, <4>2
          DEF IInv, TypeOK, BitsHold, InWindow, Owning, Drain
    <3>4. QED
      BY Zenon, <3>2, <3>3
  <2>4. QED
    BY Zenon, <2>2, <2>3
<1>5. Balanced'
  <2>1. \A s \in Shards : Takers(s)' = Takers(s)
    BY Zenon DEF IInv, TypeOK, Takers, MayRun, Shards, NoSlot, Drain, ForkGoes,
           gate, held, local, forking
  <2>2. QED
    BY Zenon, <2>1, CountsKept
      DEF IInv, TypeOK, Drain, ForkGoes, gate, held, local, forking
<1>6. OnlyForker'
  BY NobodyInChild
    DEF IInv, TypeOK, OnlyForker, MayRun, Drain, ForkGoes, gate, held, local,
        forking
<1>7. QED
  BY Zenon, <1>1, <1>2, <1>3, <1>4, <1>5, <1>6 DEF IInv

\* fork, seen in the parent.
LEMMA ForkParentInv ==
    ASSUME IInv, NEW t \in alive, ForkParent(t)
    PROVE  IInv'
<1>1. TypeOK'
  BY Zenon DEF IInv, TypeOK, Shards, NoSlot, ForkParent, ForkGoes, gate, held,
         local, forking
<1>2. LocalsOK'
  <2>1. OthersKept(t)
    BY Zenon DEF IInv, TypeOK, OthersKept, ForkParent, ForkGoes, held, local, forking
  <2>2. LocalOK(t) /\ t \in Threads
    BY Zenon DEF IInv, TypeOK, LocalsOK
  <2>3. LocalOK(t)'
    BY Zenon, <2>2, ForkGateAssumption
      DEF IInv, TypeOK, LocalOK, Idle, Admitted, InWindow, MayRun, BackingOut,
          Shards, NoSlot, ForkParent, ForkGoes, held, local, forking
  <2>4. alive' = alive
    BY Zenon DEF ForkParent, ForkGoes
  <2>5. QED
    BY Zenon, <2>1, <2>3, <2>4, LocalsKept DEF IInv
<1>3. LockHeld'
  BY Zenon, ForkGateAssumption
    DEF IInv, TypeOK, LockHeld, Owning, ForkParent, ForkGoes, gate, held,
        local, forking
<1>4. BitsHold'
  BY ForkGateAssumption
    DEF IInv, TypeOK, BitsHold, LockHeld, Owning, LocalsOK, LocalOK,
         InWindow, Shards, NoSlot, Idle, MayRun, ForkParent, ForkGoes, gate,
         held, local, forking
<1>5. Balanced'
  <2>1. \A s \in Shards : Takers(s)' = Takers(s)
    BY Zenon DEF IInv, TypeOK, Takers, MayRun, Shards, NoSlot, ForkParent, ForkGoes,
           gate, held, local, forking
  <2>2. QED
    BY Zenon, <2>1, CountsKept
      DEF IInv, TypeOK, ForkParent, ForkGoes, gate, held, local, forking
<1>6. OnlyForker'
  BY Zenon, NobodyInChild
    DEF IInv, TypeOK, OnlyForker, MayRun, ForkParent, ForkGoes, gate, held,
        local, forking
<1>7. QED
  BY Zenon, <1>1, <1>2, <1>3, <1>4, <1>5, <1>6 DEF IInv

\* fork, seen in the child: no other thread is alive.
LEMMA ForkChildInv ==
    ASSUME IInv, NEW t \in alive, ForkChild(t)
    PROVE  IInv'
<1>1. TypeOK'
  BY Zenon DEF IInv, TypeOK, Shards, NoSlot, ForkChild, ForkGoes, gate, held, local,
         forking
<1>2. LocalsOK'
  BY ZenonT(30) DEF IInv, TypeOK, LocalsOK, LocalOK, Idle, Admitted, InWindow, MayRun,
         BackingOut, Shards, NoSlot, ForkChild, ForkGoes, gate, held, local,
         forking
<1>3. LockHeld'
  BY Zenon, ForkGateAssumption
    DEF IInv, TypeOK, LockHeld, Owning, ForkChild, ForkGoes, gate, held,
        local, forking
<1>4. BitsHold'
  BY ForkGateAssumption
    DEF IInv, TypeOK, BitsHold, LockHeld, Owning, LocalsOK, LocalOK,
         InWindow, Shards, NoSlot, Idle, MayRun, ForkChild, ForkGoes, gate,
         held, local, forking
<1>5. Balanced'
  BY Zenon DEF IInv, TypeOK, Balanced, ForkChild, ForkGoes
<1>6. OnlyForker'
  BY Zenon, NobodyInChild
    DEF IInv, TypeOK, OnlyForker, MayRun, ForkChild, ForkGoes, gate, held,
        local, forking
<1>7. QED
  BY Zenon, <1>1, <1>2, <1>3, <1>4, <1>5, <1>6 DEF IInv

\* postfork_parent begins.
LEMMA PostforkParentInv ==
    ASSUME IInv, NEW t \in alive, PostforkParent(t)
    PROVE  IInv'
<1>1. TypeOK'
  BY Zenon DEF IInv, TypeOK, Shards, NoSlot, PostforkParent, ForkGoes, gate, held,
         local, forking
<1>2. LocalsOK'
  <2>1. LocalOK(t)'
    BY DEF IInv, TypeOK, LocalsOK, LocalOK, Idle, Admitted, InWindow, MayRun,
           PostforkParent, ForkGoes, local, held
  <2>2. \A u \in alive : u # t => LocalOK(u)'
    BY ZenonT(30) DEF IInv, TypeOK, LocalsOK, LocalOK, Idle, Admitted, InWindow, MayRun,
           PostforkParent, ForkGoes, local, held
  <2>3. QED
    BY Zenon, <2>1, <2>2 DEF LocalsOK, PostforkParent
<1>3. LockHeld'
  BY Zenon, ForkGateAssumption
    DEF IInv, TypeOK, LockHeld, Owning, PostforkParent, ForkGoes, gate, held,
        local, forking
<1>4. BitsHold'
  BY ForkGateAssumption
    DEF IInv, TypeOK, BitsHold, LockHeld, Owning, LocalsOK, LocalOK,
         InWindow, Shards, NoSlot, Idle, MayRun, PostforkParent, ForkGoes,
         gate, held, local, forking
<1>5. Balanced'
  <2>1. \A s \in Shards : Takers(s)' = Takers(s)
    BY Zenon DEF IInv, TypeOK, Takers, MayRun, Shards, NoSlot, PostforkParent,
           ForkGoes, gate, held, local, forking
  <2>2. QED
    BY Zenon, <2>1, CountsKept
      DEF IInv, TypeOK, PostforkParent, ForkGoes, gate, held, local, forking
<1>6. OnlyForker'
  BY Zenon, NobodyInChild
    DEF IInv, TypeOK, OnlyForker, MayRun, PostforkParent, ForkGoes, gate,
        held, local, forking
<1>7. QED
  BY Zenon, <1>1, <1>2, <1>3, <1>4, <1>5, <1>6 DEF IInv

\* postfork_parent lowers the bit of one shard.
LEMMA ClearBitInv ==
    ASSUME IInv, NEW t \in alive, ClearBit(t)
    PROVE  IInv'
<1>1. TypeOK'
  <2>1. t \in Threads /\ cursor \in Shards
    BY ForkGateAssumption DEF IInv, TypeOK, BitsHold, ClearBit, Shards
  <2>2. depth[t] > 0
    BY <2>1 DEF IInv, TypeOK, ClearBit, LocalsOK, LocalOK, Admitted, InWindow
  <2>3. pending' \in [Shards -> BOOLEAN]
    BY Zenon, <2>1 DEF IInv, TypeOK, ClearBit
  <2>4. fork' \in [Threads -> {"none", "acquire", "setBits", "drain",
  "prepared",
                             "parent", "clearBits", "child"}]
    BY Zenon, <2>1 DEF IInv, TypeOK, ClearBit, ForkGoes
  <2>5. cursor' \in 0 .. NumShards
    BY <2>1, ForkGateAssumption DEF IInv, TypeOK, ClearBit, Shards
  <2>6. depth' \in [Threads -> Nat]
    BY <2>1, <2>2 DEF IInv, TypeOK, ClearBit
  <2>7. forkLock' \in Threads \cup {NoThread}
    BY Zenon, <2>1 DEF IInv, TypeOK, ClearBit
  <2>8. QED
    BY Zenon, <2>3, <2>4, <2>5, <2>6, <2>7
      DEF IInv, TypeOK, ClearBit, gate, held, local, forking
<1>2. LocalsOK'
  <2>1. OthersKept(t)
    BY Zenon DEF IInv, TypeOK, OthersKept, ClearBit, ForkGoes, held, local, forking
  <2>2. LocalOK(t) /\ t \in Threads
    BY Zenon DEF IInv, TypeOK, LocalsOK
  <2>3. LocalOK(t)'
    BY <2>2, ForkGateAssumption
      DEF IInv, TypeOK, LocalOK, Idle, Admitted, InWindow, MayRun, BackingOut,
          Shards, NoSlot, ClearBit, ForkGoes, held, local, forking
  <2>4. alive' = alive
    BY Zenon DEF ClearBit, ForkGoes
  <2>5. QED
    BY Zenon, <2>1, <2>3, <2>4, LocalsKept DEF IInv
<1>3. LockHeld'
  BY ForkGateAssumption
    DEF IInv, TypeOK, LockHeld, Owning, ClearBit, ForkGoes, gate, held, local,
        forking
<1>4. BitsHold'
  <2>1. t \in Threads /\ \A u \in Threads : fork[u] \in Owning => u = t
    BY Zenon, OneOwner DEF Owning, ClearBit
  <2>2. cursor' < NumShards
    BY <2>1, ForkGateAssumption DEF IInv, TypeOK, BitsHold, ClearBit
  <2>3. /\ fork' = fork \/ fork' = [fork EXCEPT ![t] = "none"]
        /\ fork[t] = "clearBits"
    BY Zenon DEF ClearBit, ForkGoes
  <2>4. QED
    BY <2>1, <2>2, <2>3 DEF IInv, TypeOK, BitsHold, InWindow, Owning
<1>5. Balanced'
  <2>1. \A s \in Shards : Takers(s)' = Takers(s)
    BY Zenon DEF IInv, TypeOK, Takers, MayRun, Shards, NoSlot, ClearBit, ForkGoes,
           gate, held, local, forking
  <2>2. QED
    BY Zenon, <2>1, CountsKept
      DEF IInv, TypeOK, ClearBit, ForkGoes, gate, held, local, forking
<1>6. OnlyForker'
  BY Zenon, NobodyInChild
    DEF IInv, TypeOK, OnlyForker, MayRun, ClearBit, ForkGoes, gate, held,
        local, forking
<1>7. QED
  BY Zenon, <1>1, <1>2, <1>3, <1>4, <1>5, <1>6 DEF IInv

\* postfork_child resets the gate.
LEMMA PostforkChildInv ==
    ASSUME IInv, NEW t \in alive, PostforkChild(t)
    PROVE  IInv'
<1>1. TypeOK'
  BY Zenon DEF IInv, TypeOK, Shards, NoSlot, PostforkChild, ForkGoes, gate, held,
         local, forking
<1>2. LocalsOK'
  <2>1. alive = {t} /\ alive' = {t} /\ t \in Threads
    BY Zenon DEF IInv, TypeOK, OnlyForker, PostforkChild
  <2>2. /\ pc[t] = "run" /\ UNCHANGED <<pc, slot, nested>> /\ Idle(t)
        /\ depth'[t] = 0 /\ fork'[t] = "none"
    BY Zenon, <2>1 DEF IInv, TypeOK, MayRun, PostforkChild, ForkGoes, held
  <2>3. QED
    BY <2>1, <2>2 DEF LocalsOK, LocalOK, Idle, InWindow, Admitted, BackingOut
<1>3. LockHeld'
  <2>1. /\ fork[t] \in Owning /\ forkLock' = NoThread
        /\ fork' = [fork EXCEPT ![t] = "none"]
    BY Zenon DEF PostforkChild, ForkGoes, Owning
  <2>2. \A u \in Threads : fork'[u] \notin Owning
    BY Zenon, <2>1, OneOwner DEF IInv, TypeOK, Owning
  <2>3. QED
    BY Zenon, <2>1, <2>2, ForkGateAssumption DEF LockHeld
<1>4. BitsHold'
  <2>1. fork[t] \in Owning /\ fork' = [fork EXCEPT ![t] = "none"]
    BY Zenon DEF PostforkChild, ForkGoes, Owning
  <2>2. \A u \in Threads : fork'[u] \notin Owning
    BY Zenon, <2>1, OneOwner DEF IInv, TypeOK, Owning
  <2>3. QED
    BY Zenon, <2>2 DEF BitsHold, InWindow, Owning
<1>5. Balanced'
  <2>1. alive = {t} /\ alive' = {t} /\ t \in Threads
    BY Zenon DEF IInv, TypeOK, OnlyForker, PostforkChild
  <2>2. /\ pc[t] = "run" /\ UNCHANGED <<pc, slot, nested>> /\ Idle(t)
        /\ depth'[t] = 0 /\ fork'[t] = "none"
    BY Zenon, <2>1 DEF IInv, TypeOK, MayRun, PostforkChild, ForkGoes, held
  <2>3. \A s \in Shards : s # NoSlot
    BY ForkGateAssumption DEF Shards, NoSlot
  <2>4. slot'[t] = NoSlot /\ pc'[t] = "run"
    BY Zenon, <2>2 DEF Idle
  <2>5. \A s \in Shards : Takers(s)' = {}
    BY Zenon, <2>1, <2>3, <2>4 DEF Takers
  <2>6. \A s \in Shards : count'[s] = 0
    BY Zenon DEF PostforkChild
  <2>7. QED
    BY Zenon, <2>5, <2>6, FS_EmptySet DEF Balanced
<1>6. OnlyForker'
  BY Zenon, NobodyInChild
    DEF IInv, TypeOK, OnlyForker, MayRun, PostforkChild, ForkGoes, gate, held,
        local, forking
<1>7. QED
  BY Zenon, <1>1, <1>2, <1>3, <1>4, <1>5, <1>6 DEF IInv

-----------------------------------------------------------------------------
\* The gate as the process starts with it.
LEMMA InitInv == Init => IInv
<1> SUFFICES ASSUME Init PROVE IInv
  BY Zenon
<1>1. TypeOK /\ LocalsOK /\ LockHeld /\ BitsHold /\ OnlyForker
  BY ForkGateAssumption
    DEF Init, TypeOK, LocalsOK, LocalOK, LockHeld, BitsHold, OnlyForker,
        Owning,
        Idle, InWindow, Admitted, BackingOut, Shards, NoSlot
<1>2. \A s \in Shards : Takers(s) = {}
  BY ForkGateAssumption DEF Init, Takers, Shards, NoSlot
<1>3. Balanced
  BY Zenon, <1>2, FS_EmptySet DEF Init, Balanced
<1>4. QED
  BY Zenon, <1>1, <1>3 DEF IInv

\* The invariant is about the variables of the gate.
LEMMA StutterInv == IInv /\ UNCHANGED vars => IInv'
<1> SUFFICES ASSUME IInv, UNCHANGED vars PROVE IInv'
  BY Zenon
<1> USE DEF IInv, vars, gate, held, local, forking
<1>1. TypeOK'
  BY Zenon DEF TypeOK
<1>2. LocalsOK'
  BY Zenon DEF LocalsOK, LocalOK, Idle, InWindow, Admitted
<1>3. LockHeld' /\ BitsHold' /\ OnlyForker'
  BY Zenon DEF LockHeld, BitsHold, OnlyForker, InWindow
<1>4. \A s \in Shards : Takers(s)' = Takers(s)
  BY Zenon DEF Takers
<1>5. Balanced'
  BY Zenon, <1>4 DEF Balanced
<1>6. QED
  BY Zenon, <1>1, <1>2, <1>3, <1>5

\* Every step keeps the invariant.
LEMMA NextInv == IInv /\ [Next]_vars => IInv'
<1> SUFFICES ASSUME IInv, [Next]_vars PROVE IInv'
  BY Zenon
<1>1. ASSUME NEW t \in Threads,
             \/ OperationGuard(t) \/ MaintenanceGuard(t) \/ DropNested(t)
             \/ DropFirst(t) \/ Prefork(t)
      PROVE  IInv'
  <2>1. t \in alive
    BY Zenon, <1>1 DEF OperationGuard, MaintenanceGuard, DropNested, DropFirst,
                Prefork, MayRun
  <2>2. QED
    BY Zenon, <1>1, <2>1, OperationGuardInv, MaintenanceGuardInv, DropNestedInv,
       DropFirstInv, PreforkInv, Zenon
<1>2. ASSUME NEW t \in Threads, GuardStep(t)
      PROVE  IInv'
  BY Zenon, <1>2, AddInv, MaintAddInv, BackOutInv, UnparkInv, MaintBackOutInv
    DEF GuardStep
<1>3. ASSUME NEW t \in Threads, ForkStep(t)
      PROVE  IInv'
  BY Zenon, <1>3, AcquireInv, SetBitInv, DrainInv, ClearBitInv DEF ForkStep
<1>4. ASSUME NEW t \in Threads, WindowStep(t)
      PROVE  IInv'
  <2>1. t \in alive
    BY Zenon, <1>4 DEF WindowStep, ForkParent, ForkChild, PostforkParent,
                PostforkChild, MayRun
  <2>2. QED
    BY Zenon, <1>4, <2>1, ForkParentInv, ForkChildInv, PostforkParentInv,
       PostforkChildInv, Zenon DEF WindowStep
<1>5. ASSUME NEW on \in BOOLEAN, SetBackground(on)
      PROVE  IInv'
  BY Zenon, <1>5, SetBackgroundInv
<1>6. CASE UNCHANGED vars
  BY Zenon, <1>6, StutterInv
<1>7. QED
  BY Zenon, <1>1, <1>2, <1>3, <1>4, <1>5, <1>6 DEF Next

\* The inductive invariant holds of every run of the gate (fork.rs).
THEOREM ForkGateInvariant == Spec => []IInv
<1>1. QED
  BY InitInv, NextInv, PTL DEF Spec

\* The types of the gate's state: no count ever goes below zero.
THEOREM GateTypes == Spec => []TypeOK
<1>1. IInv => TypeOK
  BY Zenon DEF IInv
<1>2. QED
  BY <1>1, ForkGateInvariant, PTL

\* prefork: when it returns, no other thread of the process is inside an
\* operation or a maintenance pass.
THEOREM ForkIsQuiesced == Spec => []QuiescedAtFork
<1>1. IInv => QuiescedAtFork
  <2> SUFFICES ASSUME IInv, NEW f \in Threads, InWindow(f),
  NEW t \in alive \ {f}
               PROVE  Idle(t)
    BY Zenon DEF QuiescedAtFork
  <2>1. slot[t] = NoSlot
    BY Zenon DEF IInv, BitsHold
  <2>2. ~InWindow(t)
    BY DEF IInv, TypeOK, LockHeld, Owning, InWindow
  <2>3. QED
    BY <2>1, <2>2 DEF IInv, TypeOK, LocalsOK, LocalOK, Idle
<1>2. QED
  BY <1>1, ForkGateInvariant, PTL

\* The counts of the shards are exactly their takers.
THEOREM CountsAreExact == Spec => []CountsBalance
<1>1. IInv => CountsBalance
  BY Zenon DEF IInv, Balanced, CountsBalance
<1>2. QED
  BY <1>1, ForkGateInvariant, PTL

\* The nesting depth never drifts.
THEOREM DepthIsExact == Spec => []DepthBalances
<1>1. IInv => DepthBalances
  BY Zenon DEF IInv, LocalsOK, LocalOK, DepthBalances
<1>2. QED
  BY <1>1, ForkGateInvariant, PTL

\* Neither the owner of the window nor a thread inside an operation waits at
\* the gate.
THEOREM NobodyParksInside == Spec => []NeverParksInside
<1>1. IInv => NeverParksInside
  BY Zenon DEF IInv, LocalsOK, LocalOK, NeverParksInside, InWindow
<1>2. QED
  BY <1>1, ForkGateInvariant, PTL

\* The gate as a whole, at every instant of every run.
THEOREM GateIsSound == Spec => []GateSound
BY GateTypes, ForkIsQuiesced, CountsAreExact, DepthIsExact, NobodyParksInside, PTL
   DEF GateSound
-----------------------------------------------------------------------------
(* ForkGate implements QuiesceGate. *)

\* The owner of the window, from the invariant, before and after a step.
OwnerKnown == /\ \A f \in alive : InWindow(f) => WindowOwner = f
              /\ (\A f \in alive : ~InWindow(f)) => WindowOwner = NoThread

\* The window has at most one owner ...
LEMMA OwnerIs == IInv => OwnerKnown
<1> SUFFICES ASSUME IInv PROVE OwnerKnown
  BY Zenon
<1>1. \A f, g \in alive : InWindow(f) /\ InWindow(g) => f = g
  BY DEF IInv, TypeOK, LockHeld, InWindow, Owning
<1>2. QED
  BY Zenon, <1>1 DEF WindowOwner, OwnerKnown

\* ... after a step too.
LEMMA OwnerWillBe == IInv' => OwnerKnown'
BY OwnerIs, PTL

\* A step that keeps the slots and the windows is a stutter of QuiesceGate.
LEMMA QuietStep ==
    ASSUME IInv, IInv', alive' = alive, slot' = slot,
           \A u \in alive : InWindow(u)' <=> InWindow(u)
    PROVE  UNCHANGED Quiesce!gateVars
<1>1. Inside' = Inside
  BY Zenon DEF Inside, Admitted
<1>2. WindowOwner' = WindowOwner
  <2>1. CASE \A f \in alive : ~InWindow(f)
    BY Zenon, <2>1, OwnerIs, OwnerWillBe DEF OwnerKnown
  <2>2. CASE \E f \in alive : InWindow(f)
    BY Zenon, <2>2, OwnerIs, OwnerWillBe DEF OwnerKnown
  <2>3. QED
    BY Zenon, <2>1, <2>2
<1>3. QED
  BY Zenon, <1>1, <1>2 DEF Quiesce!gateVars

\* Nobody is inside a gate that has just been made.
LEMMA RefineInit == Init => Quiesce!GateInit
BY Zenon, ForkGateAssumption
  DEF Init, Quiesce!GateInit, Inside, Admitted, WindowOwner, InWindow

\* An increment that finds the bit down admits its thread.
LEMMA RefineAdd ==
    ASSUME IInv, IInv', NEW t \in alive, NEW s \in Shards,
           Add(t, s) \/ MaintAdd(t, s)
    PROVE  Quiesce!Admit(t) \/ UNCHANGED Quiesce!gateVars
<1>1. CASE pending[s]
  <2>1. alive' = alive /\ slot' = slot /\ fork' = fork
    BY Zenon, <1>1 DEF Add, MaintAdd, forking
  <2>2. QED
    BY Zenon, <2>1, QuietStep DEF InWindow
<1>2. CASE ~pending[s]
  <2>1. /\ alive' = alive /\ fork' = fork /\ t \in Threads
        /\ slot' = [slot EXCEPT ![t] = s]
    BY Zenon, <1>2 DEF IInv, TypeOK, Add, MaintAdd, forking
  <2>2. \A u \in alive : ~InWindow(u) /\ ~InWindow(u)'
    <3>1. \A u \in Threads : ~InWindow(u)
      BY Zenon, <1>2, ForkGateAssumption DEF IInv, BitsHold, InWindow
    <3>2. QED
      BY Zenon, <2>1, <3>1 DEF IInv, TypeOK, InWindow
  <2>3. WindowOwner = NoThread /\ WindowOwner' = NoThread
    BY Zenon, <2>1, <2>2, OwnerIs, OwnerWillBe DEF OwnerKnown
  <2>4. t \notin Inside
    BY Zenon DEF IInv, LocalsOK, LocalOK, Idle, Inside, Admitted, Add, MaintAdd
  <2>5. Inside' = Inside \cup {t}
    <3>1. s # NoSlot
      BY ForkGateAssumption DEF Shards, NoSlot
    <3>2. QED
      BY Zenon, <2>1, <3>1 DEF IInv, TypeOK, Inside, Admitted, NoSlot
  <2>6. QED
    BY Zenon, <2>3, <2>4, <2>5 DEF Quiesce!Admit
<1>3. QED
  BY Zenon, <1>1, <1>2

\* The drop of a slot lets its thread out.
LEMMA RefineDrop ==
    ASSUME IInv, IInv', NEW t \in alive, DropFirst(t)
    PROVE  Quiesce!Retire(t)
<1>1. /\ alive' = alive /\ fork' = fork /\ t \in Threads
      /\ slot' = [slot EXCEPT ![t] = NoSlot] /\ slot[t] # NoSlot
  BY Zenon DEF IInv, TypeOK, DropFirst, forking
<1>2. t \in Inside /\ Inside' = Inside \ {t}
  <2>1. \A u \in alive : slot'[u] # NoSlot <=> slot[u] # NoSlot /\ u # t
    BY Zenon, <1>1 DEF IInv, TypeOK
  <2>2. QED
    BY Zenon, <1>1, <2>1 DEF Inside, Admitted
<1>3. \A u \in alive : ~InWindow(u) /\ ~InWindow(u)'
  <2>1. \A u \in Threads : ~InWindow(u)
    BY Zenon, <1>1 DEF IInv, BitsHold
  <2>2. QED
    BY Zenon, <1>1, <2>1 DEF IInv, TypeOK, InWindow
<1>4. WindowOwner' = WindowOwner
  BY Zenon, <1>1, <1>3, OwnerIs, OwnerWillBe DEF OwnerKnown
<1>5. QED
  BY Zenon, <1>2, <1>4 DEF Quiesce!Retire

\* The read that finds every count at zero opens the window.
LEMMA RefineDrain ==
    ASSUME IInv, IInv', NEW t \in alive, Drain(t)
    PROVE  Quiesce!Open(t) \/ UNCHANGED Quiesce!gateVars
<1>1. /\ alive' = alive /\ slot' = slot /\ t \in Threads
      /\ fork' = fork \/ fork' = [fork EXCEPT ![t] = "prepared"]
  BY Zenon DEF IInv, TypeOK, Drain, ForkGoes, held
<1>2. CASE fork' = fork
  BY Zenon, <1>1, <1>2, QuietStep DEF InWindow
<1>3. CASE fork' = [fork EXCEPT ![t] = "prepared"]
  <2>1. InWindow(t)' /\ \A u \in alive : ~InWindow(u)
    <3>1. fork[t] = "drain" /\ fork[t] \in Owning
      BY Zenon DEF Drain, Owning
    <3>2. InWindow(t)'
      BY Zenon, <1>1, <1>3 DEF IInv, TypeOK, InWindow
    <3>3. \A u \in alive : u \in Threads
      BY Zenon DEF IInv, TypeOK
    <3>4. QED
      BY Zenon, <3>1, <3>2, <3>3, OneOwner DEF InWindow, Owning
  <2>2. WindowOwner = NoThread /\ WindowOwner' = t
    BY Zenon, <1>1, <2>1, OwnerIs, OwnerWillBe DEF OwnerKnown
  <2>3. Inside = {} /\ Inside' = Inside
    <3>1. \A u \in alive : slot'[u] = NoSlot
      BY Zenon, <1>1, <2>1 DEF IInv, BitsHold
    <3>2. QED
      BY Zenon, <1>1, <3>1 DEF Inside, Admitted
  <2>4. QED
    BY Zenon, <2>2, <2>3 DEF Quiesce!Open
<1>4. QED
  BY Zenon, <1>1, <1>2, <1>3

\* postfork_parent, in its first step, and postfork_child close it.
LEMMA RefineClose ==
    ASSUME IInv, IInv', NEW t \in alive, PostforkParent(t) \/ PostforkChild(t)
    PROVE  Quiesce!Close(t)
<1>1. /\ alive' = alive /\ slot' = slot /\ t \in Threads /\ InWindow(t)
      /\ \/ fork' = [fork EXCEPT ![t] = "clearBits"]
         \/ fork' = [fork EXCEPT ![t] = "none"]
  BY Zenon DEF IInv, TypeOK, PostforkParent, PostforkChild, ForkGoes, held, local,
         InWindow
<1>2. \A u \in alive : ~InWindow(u)'
  <2>1. fork[t] \in Owning
    BY Zenon, <1>1 DEF InWindow, Owning
  <2>2. QED
    BY <1>1, <2>1, OneOwner DEF IInv, TypeOK, InWindow, Owning
<1>3. WindowOwner = t /\ WindowOwner' = NoThread
  BY Zenon, <1>1, <1>2, OwnerIs, OwnerWillBe DEF OwnerKnown
<1>4. Inside' = Inside
  BY Zenon, <1>1 DEF Inside, Admitted
<1>5. QED
  BY Zenon, <1>3, <1>4 DEF Quiesce!Close

\* A child starts with the window of the thread that forked.
LEMMA RefineForkChild ==
    ASSUME IInv, IInv', NEW t \in alive, ForkChild(t)
    PROVE  UNCHANGED Quiesce!gateVars
<1>1. /\ alive' = {t} /\ slot' = slot /\ t \in Threads
      /\ fork' = [fork EXCEPT ![t] = "child"] /\ fork[t] = "prepared"
  BY Zenon DEF IInv, TypeOK, ForkChild, ForkGoes, held, local
<1>2. InWindow(t) /\ InWindow(t)'
  BY Zenon, <1>1 DEF IInv, TypeOK, InWindow
<1>3. WindowOwner' = WindowOwner
  BY Zenon, <1>1, <1>2, OwnerIs, OwnerWillBe DEF OwnerKnown
<1>4. Inside' = {} /\ Inside = {}
  BY Zenon, <1>1, <1>2 DEF IInv, BitsHold, Inside, Admitted, NoSlot
<1>5. QED
  BY Zenon, <1>3, <1>4 DEF Quiesce!gateVars

\* The other steps leave the slots and the windows alone.
LEMMA RefineQuiet ==
    ASSUME IInv, IInv',
           \/ \E t \in alive : \/ OperationGuard(t) \/ MaintenanceGuard(t)
                               \/ BackOut(t) \/ Unpark(t) \/ MaintBackOut(t)
                               \/ DropNested(t) \/ Prefork(t) \/ Acquire(t)
                               \/ SetBit(t) \/ ClearBit(t) \/ ForkParent(t)
           \/ \E on \in BOOLEAN : SetBackground(on)
           \/ UNCHANGED vars
    PROVE  UNCHANGED Quiesce!gateVars
<1>1. alive' = alive /\ slot' = slot
  BY Zenon DEF OperationGuard, MaintenanceGuard, EnterAt, BackOut, Unpark, MaintBackOut,
         DropNested, Prefork, Acquire, SetBit, ClearBit, ForkParent,
         SetBackground, vars, held, local
<1>2. \/ fork' = fork
      \/ \E t \in alive : \E step \in {"acquire", "setBits", "drain", "none"} :
            ~InWindow(t) /\ fork' = [fork EXCEPT ![t] = step]
      \/ \E t \in alive : InWindow(t) /\ fork' = [fork EXCEPT ![t] = "parent"]
  BY ZenonT(30) DEF OperationGuard, MaintenanceGuard, EnterAt, BackOut, Unpark, MaintBackOut,
         DropNested, Prefork, Acquire, SetBit, ClearBit, ForkParent,
         SetBackground, vars, forking, ForkGoes, InWindow
<1>3. \A u \in alive : InWindow(u)' <=> InWindow(u)
  BY Zenon, <1>2 DEF IInv, TypeOK, InWindow
<1>4. QED
  BY Zenon, <1>1, <1>3, QuietStep

\* Every step is a step of QuiesceGate or leaves it alone.
LEMMA RefineNext ==
    IInv /\ IInv' /\ [Next]_vars => [Quiesce!GateNext]_(Quiesce!gateVars)
<1> SUFFICES ASSUME IInv, IInv', [Next]_vars
             PROVE  Quiesce!GateNext \/ UNCHANGED Quiesce!gateVars
  BY Zenon
<1>1. alive \subseteq Threads
  BY Zenon DEF IInv, TypeOK
<1>2. ASSUME NEW t \in alive, NEW s \in Shards, Add(t, s) \/ MaintAdd(t, s)
      PROVE  Quiesce!GateNext \/ UNCHANGED Quiesce!gateVars
  BY Zenon, <1>1, <1>2, RefineAdd DEF Quiesce!GateNext
<1>3. ASSUME NEW t \in alive, DropFirst(t)
      PROVE  Quiesce!GateNext
  BY Zenon, <1>1, <1>3, RefineDrop DEF Quiesce!GateNext
<1>4. ASSUME NEW t \in alive, Drain(t)
      PROVE  Quiesce!GateNext \/ UNCHANGED Quiesce!gateVars
  BY Zenon, <1>1, <1>4, RefineDrain DEF Quiesce!GateNext
<1>5. ASSUME NEW t \in alive, PostforkParent(t) \/ PostforkChild(t)
      PROVE  Quiesce!GateNext
  BY Zenon, <1>1, <1>5, RefineClose DEF Quiesce!GateNext
<1>6. ASSUME NEW t \in alive, ForkChild(t)
      PROVE  UNCHANGED Quiesce!gateVars
  BY Zenon, <1>6, RefineForkChild
<1>7. QED
  BY <1>2, <1>3, <1>4, <1>5, <1>6, RefineQuiet, ZenonT(30)
    DEF Next, GuardStep, ForkStep, WindowStep, DropFirst, DropNested,
        OperationGuard, MaintenanceGuard, Prefork, ForkParent, ForkChild,
        PostforkParent, PostforkChild, MayRun

\* The fork gate implements QuiesceGate: operations and fork windows exclude
\* each other, whatever the number of threads and shards.
THEOREM GateRefines == Spec => ImplementsQuiesceGate
<1>1. QED
  BY ForkGateInvariant, RefineInit, RefineNext, PTL
    DEF Spec, ImplementsQuiesceGate, Quiesce!GateSpec
=============================================================================
