----------------------------- MODULE ArenaTable -----------------------------
(***************************************************************************)
(* The arena registry, topo-core/src/arena.rs, and the engine operations   *)
(* that drive it: charge and credit on every allocation and free, create,  *)
(* delegate, reset and destroy.                                            *)
(*                                                                         *)
(* Charges and credits are lock-free: they load committed and retry a      *)
(* compare-exchange.  Everything else holds the table lock, but a          *)
(* delegation and a child's destroy change the parent's committed with the *)
(* same compare-exchange, so those steps are modelled one by one.  The     *)
(* fields that only lock holders read change in one step with the word     *)
(* next to them.  Labels, names, NUMA and decay settings and the reset     *)
(* generation decide nothing here and are left out.                        *)
(*                                                                         *)
(* reset and destroy are unsafe: their caller guarantees that no thread    *)
(* allocates from the arena or frees into it (Quiesced, and Free).         *)
(***************************************************************************)
EXTENDS ArenaState

Init ==
    /\ state = [a \in Arenas |-> IF a = Default THEN "Active" ELSE "Destroyed"]
    /\ rights = [a \in Arenas |-> IF a = Default THEN Rights ELSE {}]
    /\ generation = [a \in Arenas |-> IF a = Default THEN 1 ELSE 0]
    /\ committed = [a \in Arenas |-> 0] /\ reserved = [a \in Arenas |-> 0]
    /\ limit = [a \in Arenas |-> Unlimited]
    /\ live_children = [a \in Arenas |-> 0]
    /\ parent_plus1 = [a \in Arenas |-> 0]
    /\ parent_generation = [a \in Arenas |-> 0]
    /\ high_water = 1 /\ lock = Nobody
    /\ live = [a \in Arenas |-> 0] /\ stale = {}
    /\ pc = [t \in Threads |-> "idle"] /\ job = [t \in Threads |-> NoJob]

Goto(t, l) == pc' = [pc EXCEPT ![t] = l]
Return(t) == Goto(t, "idle") /\ job' = [job EXCEPT ![t] = NoJob]
Work(t, a, n) == job' = [job EXCEPT ![t] = [arena |-> a, size |-> n,
                     cur |-> committed[a], lim |-> limit[a], rights |-> {}]]

\* One round of a compare-exchange loop on a's committed: swap, or look again.
Swaps(t, a) == committed[a] = job[t].cur
LooksAgain(t, a) ==
    /\ ~Swaps(t, a)
    /\ job' = [job EXCEPT ![t].cur = committed[a]]

\* The gate of try_charge and of the reservation: checked_add, then the limit,
\* which is never above the largest count.
Fits(t) == job[t].cur + job[t].size <= job[t].lim

\* Mutant: only a never-used slot gets a new generation.
FirstGenerationOnly(g) == IF g = 0 THEN 1 ELSE g

\* Generation::next; the bound keeps it from wrapping.
NextGeneration(g) == g + 1

CanTransition(from, to) ==
    <<from, to>> \in {<<"Initializing", "Active">>, <<"Active", "Resetting">>,
                      <<"Resetting", "Active">>, <<"Active", "Draining">>,
                      <<"Draining", "Destroyed">>,
                      <<"Resetting", "ErrorQuarantined">>,
                      <<"Draining", "ErrorQuarantined">>}

-----------------------------------------------------------------------------
(* Accounting: allocate_in, free, and resizing in place *)

TryCharge(t, a, n) ==
    /\ pc[t] = "idle"
    /\ IsActive(a) /\ "alloc" \in rights[a]
    /\ Work(t, a, n) /\ Goto(t, "charge")
    /\ UNCHANGED <<slots, quota, live_children, lock, live, stale>>

ChargeExchange(t) ==
    LET a == job[t].arena IN
    /\ pc[t] = "charge"
    /\ \/ ~Fits(t) /\ Return(t) /\ UNCHANGED committed
       \/ /\ Fits(t) /\ Swaps(t, a)
          /\ committed' = [committed EXCEPT ![a] = @ + job[t].size]
          /\ Goto(t, "charged") /\ UNCHANGED job
       \/ Fits(t) /\ LooksAgain(t, a) /\ UNCHANGED <<committed, pc>>
    /\ UNCHANGED <<slots, reserved, live_children, lock, live, stale>>

\* The storage is found, or the charge is given back.
Serve(t) ==
    /\ pc[t] = "charged"
    /\ live' = [live EXCEPT ![job[t].arena] = @ + job[t].size]
    /\ Return(t)
    /\ UNCHANGED <<slots, quota, live_children, lock, stale>>

StorageExhausted(t) ==
    /\ pc[t] = "charged"
    /\ Work(t, job[t].arena, job[t].size) /\ Goto(t, "credit")
    /\ UNCHANGED <<slots, quota, live_children, lock, live, stale>>

Free(t, a, n) ==
    /\ pc[t] = "idle" /\ state[a] = "Active"
    /\ n <= live[a]
    /\ live' = [live EXCEPT ![a] = @ - n]
    /\ Work(t, a, n) /\ Goto(t, "credit")
    /\ UNCHANGED <<slots, quota, live_children, lock, stale>>

Credit(t) ==
    LET a == job[t].arena IN
    /\ pc[t] = "credit"
    /\ \/ /\ Swaps(t, a)
          /\ committed' = Lower(committed, a, job[t].size)
          /\ Return(t)
       \/ LooksAgain(t, a) /\ UNCHANGED <<committed, pc>>
    /\ UNCHANGED <<slots, reserved, live_children, lock, live, stale>>

-----------------------------------------------------------------------------
(* Creation and delegation *)

\* Bound: the slot that would be claimed has generations left.
WithinBound == \A a \in Claimable : generation[a] < MaxGeneration

\* create_locked_inner, in slot id, the first one claimable.
Create(id, r, q, pp, pg, st) ==
    /\ id \in Claimable /\ \A a \in Claimable : id <= a
    /\ high_water' = IF id = high_water THEN high_water + 1 ELSE high_water
    /\ generation' = [generation EXCEPT ![id] = NextGeneration(@)]
    /\ rights' = [rights EXCEPT ![id] = r]
    /\ committed' = [committed EXCEPT ![id] = 0]
    /\ reserved' = [reserved EXCEPT ![id] = 0]
    /\ limit' = [limit EXCEPT ![id] = q]
    /\ parent_plus1' = [parent_plus1 EXCEPT ![id] = pp]
    /\ parent_generation' = [parent_generation EXCEPT ![id] = pg]
    /\ state' = [state EXCEPT ![id] = st]

\* ArenaPolicy::validate.
Validate(q) == q # 0

\* arena_create.
CreateArena(t, id, r, q) ==
    /\ pc[t] = "idle" /\ lock = Nobody
    /\ Validate(q) /\ WithinBound
    /\ Create(id, r, q, 0, 0, "Active")
    /\ UNCHANGED <<live_children, lock, live, stale, pc, job>>

\* arena_create_hooked: the backing is built before the arena is published.
CreatePending(t, id, r, q) ==
    /\ pc[t] = "idle" /\ lock = Nobody
    /\ Validate(q) /\ WithinBound
    /\ Create(id, r, q, 0, 0, "Initializing")
    /\ job' = [job EXCEPT ![t] = [NoJob EXCEPT !.arena = id]]
    /\ Goto(t, "pending")
    /\ UNCHANGED <<live_children, lock, live, stale>>

PublishArena(t) ==
    LET a == job[t].arena IN
    /\ pc[t] = "pending" /\ state[a] = "Initializing"
    /\ state' = [state EXCEPT ![a] = "Active"]
    /\ Return(t)
    /\ UNCHANGED <<rights, generation, limit, parent_plus1, parent_generation,
                   high_water, quota, live_children, lock, live, stale>>

AbandonPending(t) ==
    LET a == job[t].arena IN
    /\ pc[t] = "pending" /\ lock = Nobody /\ state[a] = "Initializing"
    /\ stale' = stale \cup {<<a, generation[a]>>}
    /\ generation' = [generation EXCEPT ![a] = NextGeneration(@)]
    /\ rights' = [rights EXCEPT ![a] = {}]
    /\ state' = [state EXCEPT ![a] = "Destroyed"]
    /\ Return(t)
    /\ UNCHANGED <<limit, parent_plus1, parent_generation, high_water, quota,
                   live_children, lock, live>>

\* ArenaStats, as stats_locked reads it: the fields that delegation looks at.
StatsLocked(p) ==
    [quota_limit |-> limit[p], rights |-> rights[p], reserved |-> reserved[p],
     used |-> SaturatingSub(committed[p], reserved[p])]

RemainingQuota(s) ==
    IF s.quota_limit = Unlimited THEN Unlimited
    ELSE SaturatingSub(SaturatingSub(s.quota_limit, s.used), s.reserved)

\* CapRights::attenuates.
Attenuates(r, of) == r \subseteq of

\* delegate_locked up to the reservation; the lock stays held.
Delegate(t, p, r, q) ==
    /\ pc[t] = "idle" /\ lock = Nobody
    /\ IsActive(p)
    /\ Attenuates(r, StatsLocked(p).rights)
    /\ q <= RemainingQuota(StatsLocked(p))
    /\ Validate(q) /\ WithinBound
    /\ lock' = t
    /\ job' = [job EXCEPT ![t] = [arena |-> p, size |-> q, cur |-> committed[p],
                                  lim |-> limit[p], rights |-> r]]
    /\ Goto(t, IF limit[p] = Unlimited THEN "create" ELSE "reserve")
    /\ UNCHANGED <<slots, quota, live_children, live, stale>>

\* reserve_child_quota_locked.
Reserve(t) ==
    LET p == job[t].arena IN
    /\ pc[t] = "reserve"
    /\ \/ /\ ~Fits(t)
          /\ lock' = Nobody /\ Return(t) /\ UNCHANGED quota
       \/ /\ Fits(t) /\ Swaps(t, p)
          /\ committed' = [committed EXCEPT ![p] = @ + job[t].size]
          /\ reserved' = [reserved EXCEPT ![p] = @ + job[t].size]
          /\ Goto(t, "create") /\ UNCHANGED <<lock, job>>
       \/ Fits(t) /\ LooksAgain(t, p) /\ UNCHANGED <<quota, lock, pc>>
    /\ UNCHANGED <<slots, live_children, live, stale>>

\* The child is created, and its parent counts it.
DelegateCreate(t) ==
    LET p == job[t].arena IN
    /\ pc[t] = "create"
    /\ \E id \in Arenas :
          Create(id, job[t].rights, job[t].size, p + 1, generation[p], "Active")
    /\ live_children' = [live_children EXCEPT ![p] = @ + 1]
    /\ lock' = Nobody /\ Return(t)
    /\ UNCHANGED <<live, stale>>

\* No slot: the reservation, if there is one, is rolled back.
DelegateExhausted(t) ==
    LET p == job[t].arena IN
    /\ pc[t] = "create" /\ Claimable = {}
    /\ IF limit[p] = Unlimited
       THEN lock' = Nobody /\ Return(t)
       ELSE /\ job' = [job EXCEPT ![t].cur = committed[p]]
            /\ Goto(t, "unreserve") /\ UNCHANGED lock
    /\ UNCHANGED <<slots, quota, live_children, live, stale>>

\* release_child_quota_locked, once its exchange succeeds.
Release(p, n) ==
    /\ committed' = Lower(committed, p, n)
    /\ reserved' = Lower(reserved, p, n)

Unreserve(t) ==
    LET p == job[t].arena IN
    /\ pc[t] = "unreserve"
    /\ \/ /\ Swaps(t, p) /\ Release(p, job[t].size)
          /\ lock' = Nobody /\ Return(t)
       \/ LooksAgain(t, p) /\ UNCHANGED <<quota, lock, pc>>
    /\ UNCHANGED <<slots, live_children, live, stale>>

-----------------------------------------------------------------------------
(* Reset and destroy *)

Transition(a, to) ==
    /\ CanTransition(state[a], to)
    /\ state' = [state EXCEPT ![a] = to]
    /\ UNCHANGED <<rights, generation, limit, parent_plus1, parent_generation,
                   high_water>>

BeginReset(t, a) ==
    /\ pc[t] = "idle" /\ lock = Nobody /\ a # Default /\ Quiesced(a)
    /\ Transition(a, "Resetting")
    /\ Work(t, a, 0) /\ Goto(t, "reset")
    /\ UNCHANGED <<quota, live_children, lock, live, stale>>

\* Mutant: the children are not looked at.
DestroysParents(t, a) ==
    /\ pc[t] = "idle" /\ lock = Nobody /\ a # Default /\ Quiesced(a)
    /\ Transition(a, "Draining")
    /\ Work(t, a, 0) /\ Goto(t, "destroy")
    /\ UNCHANGED <<quota, live_children, lock, live, stale>>

BeginDestroy(t, a) ==
    /\ pc[t] = "idle" /\ lock = Nobody /\ a # Default /\ Quiesced(a)
    /\ live_children[a] = 0
    /\ Transition(a, "Draining")
    /\ Work(t, a, 0) /\ Goto(t, "destroy")
    /\ UNCHANGED <<quota, live_children, lock, live, stale>>

\* drain_arena retires every object, whether or not all backing came back.
\* A destroy also returns the hooked backing, which may be refused.
DrainArena(t) ==
    /\ pc[t] \in {"reset", "destroy"}
    /\ live' = [live EXCEPT ![job[t].arena] = 0]
    /\ \/ Goto(t, IF pc[t] = "reset" THEN "resetDrained" ELSE "destroyDrained")
       \/ Goto(t, "failed")
    /\ UNCHANGED <<slots, quota, live_children, lock, stale, job>>

\* Mutant: the budget of the children, which stay, is forgotten.
ResetForgetsChildren(t) ==
    LET a == job[t].arena IN
    /\ pc[t] = "resetDrained" /\ lock = Nobody
    /\ Transition(a, "Active")
    /\ committed' = [committed EXCEPT ![a] = 0]
    /\ reserved' = [reserved EXCEPT ![a] = 0]
    /\ Return(t)
    /\ UNCHANGED <<live_children, lock, live, stale>>

FinishReset(t) ==
    LET a == job[t].arena IN
    /\ pc[t] = "resetDrained" /\ lock = Nobody
    /\ Transition(a, "Active")
    /\ committed' = [committed EXCEPT ![a] = reserved[a]]
    /\ Return(t)
    /\ UNCHANGED <<reserved, live_children, lock, live, stale>>

QuarantineArena(t) ==
    LET a == job[t].arena IN
    /\ pc[t] = "failed" /\ lock = Nobody
    /\ Transition(a, "ErrorQuarantined")
    /\ committed' = [committed EXCEPT ![a] = reserved[a]]
    /\ Return(t)
    /\ UNCHANGED <<reserved, live_children, lock, live, stale>>

\* finish_destroy up to the exchange in return_reservation_to_parent_locked.
FinishDestroy(t) ==
    LET a == job[t].arena
        p == parent_plus1[a] - 1 IN
    /\ pc[t] = "destroyDrained" /\ lock = Nobody
    /\ CanTransition(state[a], "Destroyed")
    /\ lock' = t
    /\ IF HasParent(a)
       THEN /\ live_children' = Lower(live_children, p, 1)
            /\ IF limit[p] # Unlimited /\ limit[a] # Unlimited
               THEN Goto(t, "return") /\ job' = [job EXCEPT ![t].cur = committed[p]]
               ELSE Goto(t, "retire") /\ UNCHANGED job
       ELSE Goto(t, "retire") /\ UNCHANGED <<live_children, job>>
    /\ UNCHANGED <<slots, quota, live, stale>>

ReturnReservation(t) ==
    LET a == job[t].arena
        p == parent_plus1[a] - 1 IN
    /\ pc[t] = "return"
    /\ \/ /\ Swaps(t, p) /\ Release(p, limit[a])
          /\ Goto(t, "retire") /\ UNCHANGED job
       \/ LooksAgain(t, p) /\ UNCHANGED <<quota, pc>>
    /\ UNCHANGED <<slots, live_children, lock, live, stale>>

Retire(t) ==
    LET a == job[t].arena IN
    /\ pc[t] = "retire"
    /\ committed' = [committed EXCEPT ![a] = 0]
    /\ reserved' = [reserved EXCEPT ![a] = 0]
    /\ rights' = [rights EXCEPT ![a] = {}]
    /\ stale' = stale \cup {<<a, generation[a]>>}
    /\ generation' = [generation EXCEPT ![a] = NextGeneration(@)]
    /\ state' = [state EXCEPT ![a] = "Destroyed"]
    /\ lock' = Nobody /\ Return(t)
    /\ UNCHANGED <<limit, parent_plus1, parent_generation, high_water,
                   live_children, live>>

-----------------------------------------------------------------------------
Calls(t) ==
    \/ \E a \in Used, n \in Sizes : TryCharge(t, a, n) \/ Free(t, a, n)
    \/ \E r \in Asked, q \in Quotas :
          \/ \E id \in Arenas : CreateArena(t, id, r, q) \/ CreatePending(t, id, r, q)
          \/ \E p \in Arenas : Delegate(t, p, r, q)
    \/ \E a \in Arenas : BeginReset(t, a) \/ BeginDestroy(t, a)

Steps(t) ==
    \/ ChargeExchange(t) \/ Serve(t) \/ StorageExhausted(t) \/ Credit(t)
    \/ PublishArena(t) \/ AbandonPending(t)
    \/ Reserve(t) \/ DelegateCreate(t) \/ DelegateExhausted(t) \/ Unreserve(t)
    \/ DrainArena(t) \/ FinishReset(t) \/ QuarantineArena(t)
    \/ FinishDestroy(t) \/ ReturnReservation(t) \/ Retire(t)

Next == \E t \in Threads : Calls(t) \/ Steps(t)

Spec == Init /\ [][Next]_vars
-----------------------------------------------------------------------------
(* Properties *)

\* The table's own oracle, of one state of the table.
CheckInvariants ==
    /\ IsRegistered(Default)
    /\ high_water <= MaxArenas
    /\ \A a \in 0 .. high_water - 1 :
          /\ committed[a] <= limit[a]
          /\ state[a] \in Terminal => SaturatingSub(committed[a], reserved[a]) = 0
          /\ IsRegistered(a) => generation[a] # 0

\* At every instant the table satisfies what check_invariants tests ("it holds
\* even mid-update"): own bytes and delegated budget together stay within the
\* quota though both are charged lock-free, nothing is left on the account of a
\* destroyed or quarantined arena, and a registered arena has an incarnation.
\* The code loads the fields of an arena one after the other, without the lock,
\* so it answers for one instant only while no slot is recycled as it reads.
OracleAccepts == CheckInvariants

\* credit and release_child_quota_locked saturate at zero; they never need to,
\* because committed is exactly what the arena owes.
Accounted ==
    \A a \in Arenas : state[a] \notin {"Resetting", "Draining"} =>
        committed[a] = reserved[a] + live[a] + InFlight(a)

\* ArenaAtomics::reserved: whenever the lock is free an arena has set aside
\* exactly the quotas of its live children, and nothing where its own quota is
\* unlimited; a failed delegation and a child's destroy give everything back.
NoBudgetLeaked ==
    lock = Nobody => \A p \in Registered :
        reserved[p] = IF limit[p] = Unlimited THEN 0 ELSE Budget(Children(p))

\* The arenas below a, over every arena that was there in between.
DelegatedBy(p) == {c \in Arenas : parent_plus1[c] = p + 1}
Subtree[a \in Arenas, n \in 0 .. MaxArenas] ==
    IF n = 0 THEN {a}
    ELSE {a} \cup UNION {Subtree[c, n - 1] : c \in DelegatedBy(a)}

\* delegate_locked: "the tree-wide bound".  The objects of an arena and of all
\* arenas below it, with the requests under way, never exceed its quota.
SubtreeWithinQuota ==
    \A a \in Registered : limit[a] # Unlimited =>
        Total([c \in Arenas |-> IF c \in Subtree[a, MaxArenas]
                                THEN live[c] + InFlight(c) ELSE 0]) <= limit[a]

\* begin_destroy: no arena goes while an arena that it delegated is there, so a
\* child's parent is always the incarnation it was delegated from.
NoOrphan ==
    \A c \in Registered : parent_plus1[c] # 0 =>
        LET p == parent_plus1[c] - 1 IN
        /\ state[p] \notin {"Initializing", "Draining", "Destroyed"}
        /\ generation[p] = parent_generation[c]
        /\ lock = Nobody => live_children[p] = Cardinality(Children(p))

\* resolve_handle: a handle to an incarnation that has ended never resolves again.
StaleHandlesStayStale ==
    \A a \in Registered : <<a, generation[a]>> \notin stale

\* delegate and finish_destroy: the thread that holds the table lock never waits,
\* on whatever path it gives the lock back.
HolderGoesOn == lock # Nobody => ENABLED Steps(lock)

\* The quota ledger, one level of the tree at a time, with the code's own oracle.
LedgerSound == Accounted /\ NoBudgetLeaked /\ OracleAccepts

\* The quota ledger as a whole; whoever holds the lock that guards it can go on.
QuotaKept == LedgerSound /\ SubtreeWithinQuota /\ HolderGoesOn

\* The tree of arenas: well typed, and every arena in use below the incarnation
\* that delegated to it.
TreeSound == TypeOK /\ NoOrphan
=============================================================================
