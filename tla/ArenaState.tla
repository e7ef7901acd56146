----------------------------- MODULE ArenaState -----------------------------
(***************************************************************************)
(* The state of the arena registry, topo-core/src/arena.rs: one slot per   *)
(* arena, the locals of the threads that work on them, and what can be     *)
(* read off them.  ArenaTable has the operations.                          *)
(***************************************************************************)
EXTENDS Integers, FiniteSets

CONSTANTS
    Threads,
    Nobody,
    MaxArenas,      \* MAX_ARENAS
    Rights,         \* CapRights; "alloc" is CapRights::ALLOC
    U64Max,         \* the largest byte count; it stands for QUOTA_UNLIMITED
    Quotas,         \* the quotas asked for in a policy or a delegation
    Sizes,          \* the sizes of allocations
    Used,           \* the arenas that the program allocates from
    Asked,          \* the sets of rights asked for
    MaxGeneration   \* bound: no slot is created again at this generation

ASSUME ArenaTableAssumption ==
    /\ Nobody \notin Threads /\ IsFiniteSet(Threads)
    /\ MaxArenas \in Nat \ {0} /\ MaxGeneration \in Nat /\ U64Max \in Nat
    /\ "alloc" \in Rights
    /\ Quotas \subseteq 0 .. U64Max
    /\ Sizes \subseteq 1 .. U64Max
    /\ Used \subseteq 0 .. MaxArenas - 1
    /\ Asked \subseteq SUBSET Rights

Unlimited == U64Max
Arenas == 0 .. MaxArenas - 1
Default == 0

VARIABLES
    state, rights, generation,      \* ArenaAtomics, one entry per slot
    committed, reserved, limit, live_children,
    parent_plus1, parent_generation,\* ArenaMeta
    high_water, lock,
    live,           \* history: bytes of the arena's live objects
    stale,          \* history: the incarnations that have ended
    pc, job         \* per thread: the step it is at, and its locals

slots == <<state, rights, generation, limit, parent_plus1, parent_generation,
           high_water>>
quota == <<committed, reserved>>
vars == <<slots, quota, live_children, lock, live, stale, pc, job>>

NoJob == [arena |-> Default, size |-> 0, cur |-> 0, lim |-> 0, rights |-> {}]

\* ArenaState.
States == {"Initializing", "Active", "Resetting", "Draining", "Destroyed",
           "ErrorQuarantined"}
Terminal == {"Destroyed", "ErrorQuarantined"}
IsActive(a) == state[a] = "Active"
IsRegistered(a) == state[a] # "Destroyed"

\* One type invariant for the module.
TypeOK ==
    /\ state \in [Arenas -> States]
    /\ rights \in [Arenas -> SUBSET Rights]
    /\ generation \in [Arenas -> Nat] /\ parent_generation \in [Arenas -> Nat]
    /\ committed \in [Arenas -> 0 .. U64Max]
    /\ reserved \in [Arenas -> 0 .. U64Max]
    /\ limit \in [Arenas -> 0 .. U64Max]
    /\ live_children \in [Arenas -> 0 .. MaxArenas]
    /\ parent_plus1 \in [Arenas -> 0 .. MaxArenas]
    /\ high_water \in 1 .. MaxArenas
    /\ lock \in Threads \cup {Nobody}
    /\ live \in [Arenas -> Nat] /\ stale \subseteq Arenas \X Nat
    /\ pc \in [Threads -> {"idle", "charge", "charged", "credit", "reserve",
                           "create", "unreserve", "pending", "reset", "destroy",
                           "resetDrained", "destroyDrained", "failed", "return",
                           "retire"}]
    /\ job \in [Threads -> [arena : Arenas, size : 0 .. U64Max,
                            cur : 0 .. U64Max, lim : 0 .. U64Max,
                            rights : SUBSET Rights]]

-----------------------------------------------------------------------------
SaturatingSub(x, y) == IF x < y THEN 0 ELSE x - y
Lower(f, a, n) == [f EXCEPT ![a] = SaturatingSub(@, n)]

\* claim_slot_locked: a fresh slot, else a destroyed one.
Claimable == IF high_water < MaxArenas THEN {high_water}
             ELSE {a \in Arenas \ {Default} : state[a] = "Destroyed"}

\* The precondition of arena_reset and arena_destroy.
Quiesced(a) ==
    \A t \in Threads : pc[t] \in {"charge", "charged", "credit"}
                          => job[t].arena # a

\* The incarnation that delegated a.
HasParent(a) ==
    /\ parent_plus1[a] # 0
    /\ generation[parent_plus1[a] - 1] = parent_generation[a]

Registered == {a \in Arenas : IsRegistered(a)}
Children(p) == {c \in Registered : parent_plus1[c] = p + 1}

\* The sum of byte counts, as the number of units below the graph of f.
Total(f) == Cardinality({x \in (DOMAIN f) \X (1 .. U64Max) : x[2] <= f[x[1]]})

\* The bytes of a's charges that are not yet an object, or no longer one.
InFlight(a) ==
    Total([t \in Threads |-> IF pc[t] \in {"charged", "credit"} /\ job[t].arena = a
                             THEN job[t].size ELSE 0])

\* The quotas of a set of arenas.
Budget(cs) == Total([c \in Arenas |-> IF c \in cs THEN limit[c] ELSE 0])
=============================================================================
