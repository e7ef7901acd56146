---------------------------- MODULE CacheBudget -----------------------------
(***************************************************************************)
(* The front-end cache budget (topo-core/src/budget.rs).  A tick, adapt,   *)
(* walks the initialized slots: it grows the soft capacity of those that   *)
(* missed and shrinks those that overflowed, sums the capacities, and      *)
(* takes batches away until the sum is within the global budget, first     *)
(* down to one batch per slot and then to one object.  Capacities are      *)
(* relaxed atomics that are loaded, computed with and stored, so the       *)
(* application's misses and overflows, slots it initializes and a new      *)
(* budget fall between any two.                                            *)
(* Ticks do not overlap: one host drives them, as the release pump does.   *)
(***************************************************************************)
EXTENDS Naturals, FiniteSets, FiniteSetsExt, TLC

CONSTANTS NSlots, Batch, Hard,   \* slots in walk order, batch and hard capacity
          Budgets,               \* the budgets a host sets
          MaxTicks, MaxChanges   \* bounds

VARIABLES initialized, soft, missed, overflowed, budget,
          tick, ticks, changes,
          settled   \* no slot was initialized and no budget set since the last tick began

vars == <<initialized, soft, missed, overflowed, budget, tick, ticks, changes, settled>>
slotVars == <<initialized, soft, missed, overflowed>>

SlotIds == 1 .. NSlots
Idle == [pc |-> "idle"]
Lesser(a, b) == IF a < b THEN a ELSE b
Greater(a, b) == IF a > b THEN a ELSE b
Minus(a, b) == IF a > b THEN a - b ELSE 0
SumOver(f, S) == MapThenSumSet(LAMBDA i : f[i], S)

Init ==
    /\ initialized = {} /\ soft = [i \in SlotIds |-> 1]
    /\ missed = [i \in SlotIds |-> FALSE] /\ overflowed = [i \in SlotIds |-> FALSE]
    /\ budget \in Budgets
    /\ tick = Idle /\ ticks = 0 /\ changes = 0 /\ settled = FALSE

Clamped(cap) == Greater(Lesser(cap, Hard), 1)
Goto(step) == tick' = step
At(pc) == tick.pc = pc

-----------------------------------------------------------------------------
(* The application's side: a slot is initialized by its first use, with    *)
(* room for one batch; its misses or overflows exceed the threshold.       *)

InitSlot(i) ==
    /\ i \notin initialized
    /\ initialized' = initialized \cup {i}
    /\ soft' = [soft EXCEPT ![i] = Lesser(Batch, Hard)]
    /\ settled' = FALSE
    /\ UNCHANGED <<missed, overflowed, budget, tick, ticks, changes>>
Miss(i) ==
    /\ i \in initialized /\ missed' = [missed EXCEPT ![i] = TRUE]
    /\ UNCHANGED <<initialized, soft, overflowed, budget, tick, ticks, changes, settled>>
Overflow(i) ==
    /\ i \in initialized /\ overflowed' = [overflowed EXCEPT ![i] = TRUE]
    /\ UNCHANGED <<initialized, soft, missed, budget, tick, ticks, changes, settled>>

SetGlobalBudget(b) ==
    /\ changes < MaxChanges /\ b # budget
    /\ budget' = b /\ changes' = changes + 1 /\ settled' = FALSE
    /\ UNCHANGED <<slotVars, tick, ticks>>

-----------------------------------------------------------------------------
(* One tick.                                                               *)

BeginTick ==
    /\ At("idle") /\ ticks < MaxTicks
    /\ ticks' = ticks + 1 /\ Goto([pc |-> "adapt", at |-> 1])
    /\ settled' = TRUE
    /\ UNCHANGED <<slotVars, budget, changes>>

Adapted(i) ==
    IF missed[i] /\ soft[i] < Hard THEN Lesser(soft[i] + Batch, Hard)
    ELSE IF overflowed[i] /\ soft[i] > Batch THEN Greater(Minus(soft[i], Batch), Batch)
    ELSE soft[i]

\* Phase 1 reads the slot and takes its counters; the store is a step of its own.
Adapt ==
    LET i == tick.at IN
    /\ At("adapt")
    /\ IF i > NSlots
       THEN Goto([pc |-> "sum", at |-> 1, total |-> 0, limit |-> budget])
            /\ UNCHANGED <<missed, overflowed>>
       ELSE IF i \notin initialized
       THEN Goto([pc |-> "adapt", at |-> i + 1]) /\ UNCHANGED <<missed, overflowed>>
       ELSE /\ missed' = [missed EXCEPT ![i] = FALSE]
            /\ overflowed' = [overflowed EXCEPT ![i] = FALSE]
            /\ Goto([pc |-> "store", at |-> i, new |-> Adapted(i), change |-> Adapted(i) # soft[i]])
    /\ UNCHANGED <<initialized, soft, budget, ticks, changes, settled>>
Store ==
    LET s == tick IN
    /\ At("store")
    /\ IF s.change THEN soft' = [soft EXCEPT ![s.at] = Clamped(s.new)] ELSE UNCHANGED soft
    /\ Goto([pc |-> "adapt", at |-> s.at + 1])
    /\ UNCHANGED <<initialized, missed, overflowed, budget, ticks, changes, settled>>

\* compute_total_capacity, one load per slot.
Sum ==
    LET s == tick IN
    /\ At("sum")
    /\ Goto(IF s.at > NSlots
               THEN [pc |-> "shrink", at |-> 1, total |-> s.total, limit |-> s.limit,
                     floor |-> Batch, progress |-> FALSE]
               ELSE [s EXCEPT !.at = @ + 1,
                              !.total = @ + IF s.at \in initialized THEN soft[s.at] ELSE 0])
    /\ UNCHANGED <<slotVars, budget, ticks, changes, settled>>

\* shrink_to_floor: passes over the slots until the total fits or a pass makes
\* no progress; then the tier of one object, then the end of adapt.
NextTier(s) ==
    IF s.floor = 1 \/ s.total <= s.limit THEN Idle
    ELSE [s EXCEPT !.floor = 1, !.at = 1, !.progress = FALSE]
Shrink ==
    LET s == tick
        i == s.at
    IN
    /\ At("shrink")
    /\ Goto(IF s.total <= s.limit \/ (i > NSlots /\ ~s.progress) THEN NextTier(s)
            ELSE IF i > NSlots THEN [s EXCEPT !.at = 1, !.progress = FALSE]
            ELSE IF i \in initialized /\ soft[i] > s.floor
            THEN [s EXCEPT !.pc = "take", !.progress = TRUE] @@ [cur |-> soft[i]]
            ELSE [s EXCEPT !.at = @ + 1])
    /\ UNCHANGED <<slotVars, budget, ticks, changes, settled>>
Taken(s) == Greater(Minus(s.cur, Batch), s.floor)
TakeBatch ==
    LET s == tick IN
    /\ At("take")
    /\ soft' = [soft EXCEPT ![s.at] = Clamped(Taken(s))]
    /\ Goto([pc |-> "shrink", at |-> s.at + 1, limit |-> s.limit, floor |-> s.floor,
                progress |-> TRUE, total |-> Minus(s.total, s.cur - Taken(s))])
    /\ UNCHANGED <<initialized, missed, overflowed, budget, ticks, changes, settled>>

Next ==
    \/ \E i \in SlotIds : InitSlot(i) \/ Miss(i) \/ Overflow(i)
    \/ \E b \in Budgets : SetGlobalBudget(b)
    \/ BeginTick \/ Adapt \/ Store \/ Sum \/ Shrink \/ TakeBatch

Spec == Init /\ [][Next]_vars

-----------------------------------------------------------------------------
TypeOK ==
    /\ soft \in [SlotIds -> 1 .. Hard] /\ ticks \in 0 .. MaxTicks

\* A tick that no new slot and no new budget overtook leaves soft capacities that
\* fit the global budget, or every slot at one object (adapt, shrink_to_floor).
CapacityWithinBudget ==
    settled /\ At("idle") => SumOver(soft, initialized) <= Greater(budget, Cardinality(initialized))
=============================================================================
