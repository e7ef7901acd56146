------------------------------ MODULE ExtentMap ------------------------------
(***************************************************************************)
(* The back end's bookkeeping, topo-core/src/extent.rs: ExtentMap, and the *)
(* operations of ExtentManager, each of which holds the backend lock from  *)
(* start to end and is one step of whoever calls it.                       *)
(*                                                                         *)
(* Addresses and lengths are in pages.  A map m has the slot pool, the     *)
(* address list and the size bins as sequences of slots (the intrusive     *)
(* links spelt out), the stack of unused slots and the two totals.  The    *)
(* contents of the pages are the provider's: "none" without backing,       *)
(* "zero" when fresh, "data" when an owner may have written, "canary" when *)
(* filled on free.  The arena, the hugepage range, the policy bits and     *)
(* split_generation decide nothing and are left out; so do the advisory    *)
(* split and merge notifications.                                          *)
(***************************************************************************)
EXTENDS Integers, Sequences, SequencesExt, FiniteSets, FiniteSetsExt

CONSTANTS
    Pages,      \* region_len, in pages
    SlotCap,    \* slot_cap: extent descriptors in the pool
    Zeroing,    \* committed_memory_is_zeroed
    Generations \* a slot's generation wraps here (2^32)

Slots == 0 .. SlotCap - 1
Nil == SlotCap
PageSet == 0 .. Pages - 1
ExtentStates == {"Reserved", "Active", "Dirty", "Muzzy", "Released"}
Contents == {"none", "zero", "data", "canary"}

IsFree(st) == st # "Active"
IsBacked(st) == st \in {"Active", "Dirty", "Muzzy"}

CanTransition(from, to) ==
    \/ from = to
    \/ IsFree(from) /\ to = "Active"
    \/ from = "Active" /\ to \in {"Dirty", "Released"}
    \/ from \in {"Reserved", "Released"} /\ to = "Dirty"
    \/ from = "Dirty" /\ to = "Muzzy"
    \/ from \in {"Reserved", "Dirty", "Muzzy"} /\ to = "Released"

\* floor(log2(pages)) + 1
BinIndex(pages) == CHOOSE b \in 1 .. Pages : 2^(b - 1) <= pages /\ pages < 2^b
Bins == 1 .. BinIndex(Pages)

AlignUp(x, align) == ((x + align - 1) \div align) * align

PagesOf(e) == e.base .. e.base + e.len - 1

-----------------------------------------------------------------------------
(* The slot pool and the two indices *)

EmptySlot == [base |-> 0, len |-> 0, committed |-> 0, state |-> "Reserved",
              canary |-> FALSE, occupied |-> FALSE, generation |-> 0]

Bump(g) == (g + 1) % Generations

PopSlot(m) ==
    [m EXCEPT !.unused = Tail(@), !.slot[Head(m.unused)].generation = Bump(@)]

\* What else is left in a slot that is not occupied is overwritten before it is
\* read, and is forgotten here.
PushSlot(m, i) ==
    [m EXCEPT !.slot[i] = [EmptySlot EXCEPT !.generation = Bump(m.slot[i].generation)],
              !.unused = <<i>> \o @]

BinInsert(m, i) == [m EXCEPT !.bins[BinIndex(m.slot[i].len)] = <<i>> \o @]

BinRemove(m, i) == [m EXCEPT !.bins[BinIndex(m.slot[i].len)] = Remove(@, i)]

Place(m, i) == CHOOSE k \in DOMAIN m.addr : m.addr[k] = i

AddrInsertAfter(m, new, after) ==
    [m EXCEPT !.addr = InsertAt(@, Place(m, after) + 1, new)]

AddrRemove(m, i) == [m EXCEPT !.addr = Remove(@, i)]

AddrNext(m, i) ==
    IF Place(m, i) = Len(m.addr) THEN Nil ELSE m.addr[Place(m, i) + 1]
AddrPrev(m, i) == IF Place(m, i) = 1 THEN Nil ELSE m.addr[Place(m, i) - 1]

\* ExtentMap::new: slot 0 is popped for the whole region.
NewMap ==
    [slot |-> [i \in Slots |->
                  IF i = 0 THEN [EmptySlot EXCEPT !.len = Pages,
                                     !.occupied = TRUE, !.generation = Bump(0)]
                           ELSE EmptySlot],
     addr |-> <<0>>,
     bins |-> [b \in Bins |-> IF b = BinIndex(Pages) THEN <<0>> ELSE <<>>],
     unused |-> [k \in 1 .. SlotCap - 1 |-> k],
     free |-> Pages,
     committed |-> 0]

\* resolve: the extent of a reference, if its slot was not recycled.
Resolves(m, r) == m.slot[r.id].occupied /\ m.slot[r.id].generation = r.generation
RefOf(m, i) == [id |-> i, generation |-> m.slot[i].generation]

-----------------------------------------------------------------------------
(* Split, merge, coalesce *)

\* split_in, when its checks pass; the new extent is the top of the stack.
Splits(m, i, prefix) == prefix > 0 /\ prefix < m.slot[i].len /\ m.unused # <<>>

Binned(m, i) == IF IsFree(m.slot[i].state) THEN BinInsert(m, i) ELSE m
Unbinned(m, i) == IF IsFree(m.slot[i].state) THEN BinRemove(m, i) ELSE m

\* e is the whole: both halves inherit its state, its backing and its canary.
Halve(m, i, right, e, prefix) ==
    [m EXCEPT !.slot[i] = [@ EXCEPT !.len = prefix,
                  !.committed = IF e.committed = e.len THEN prefix ELSE 0],
              !.slot[right] = [@ EXCEPT
                  !.base = e.base + prefix, !.len = e.len - prefix,
                  !.committed = IF e.committed = e.len THEN e.len - prefix ELSE 0,
                  !.state = e.state, !.occupied = TRUE, !.canary = e.canary]]

SplitAt(m, i, right, prefix) ==
    Binned(Binned(AddrInsertAfter(
        Halve(PopSlot(Unbinned(m, i)), i, right, m.slot[i], prefix), right, i), i), right)

SplitIn(m, i, prefix) == SplitAt(m, i, Head(m.unused), prefix)

\* Mutant: backing is not compared.
MergesAcrossBacking(l, r) ==
    l.base + l.len = r.base /\ IsFree(l.state) /\ IsFree(r.state)

Mergeable(l, r) ==
    /\ l.base + l.len = r.base
    /\ IsFree(l.state) /\ IsFree(r.state)
    /\ (l.committed = l.len) <=> (r.committed = r.len)

JoinCanary(l, r) == l /\ r

MergedState(l, backed) == IF backed THEN "Dirty" ELSE "Released"

Join(m, i, l, r) ==
    [m EXCEPT !.slot[i] = [@ EXCEPT !.len = l.len + r.len,
                  !.committed = l.committed + r.committed,
                  !.canary = JoinCanary(l.canary, r.canary),
                  !.state = MergedState(l, l.committed + r.committed = l.len + r.len)]]

\* merge_in: the left extent grows over the right one, whose slot is retired.
MergeIn(m, i, j) ==
    PushSlot(BinInsert(Join(AddrRemove(BinRemove(BinRemove(m, i), j), j),
                            i, m.slot[i], m.slot[j]), i), j)

TryMerge(m, i, j) ==
    IF i # Nil /\ j # Nil /\ Mergeable(m.slot[i], m.slot[j])
    THEN MergeIn(m, i, j) ELSE m

MergeLeft(m, i) == TryMerge(m, AddrPrev(m, i), i)

\* coalesce_in: the right neighbour first, then into the left one.
CoalesceIn(m, i) == MergeLeft(TryMerge(m, i, AddrNext(m, i)), i)

\* absorb_next_in: an Active extent takes the free, committed one after it.
AbsorbNext(m, i, j) ==
    PushSlot([AddrRemove(BinRemove(m, j), j) EXCEPT
                 !.slot[i] = [@ EXCEPT !.len = @ + m.slot[j].len,
                     !.committed = @ + m.slot[j].committed, !.canary = FALSE],
                 !.free = @ - m.slot[j].len], j)

-----------------------------------------------------------------------------
(* Fit and carve *)

Prefix(e, align) == AlignUp(e.base, align) - e.base
Fits(e, n, align) == e.len >= Prefix(e, align) + n

Fitting(m, b, n, align) == SelectSeq(m.bins[b], LAMBDA i : Fits(m.slot[i], n, align))

\* The first of the smallest extents of s.
Smallest(m, s) ==
    s[CHOOSE k \in DOMAIN s : \A l \in DOMAIN s :
          \/ m.slot[s[k]].len < m.slot[s[l]].len
          \/ m.slot[s[k]].len = m.slot[s[l]].len /\ k <= l]

BestIn(m, bins, n, align) ==
    IF bins = {} THEN Nil ELSE Smallest(m, Fitting(m, Min(bins), n, align))

\* find_fit with Fit::Best: in the lowest bin that has a fit.
FindFit(m, n, align) ==
    BestIn(m, {b \in Bins : b >= BinIndex(n) /\ Fitting(m, b, n, align) # <<>>}, n, align)

Activate(m, i, n) ==
    [BinRemove(m, i) EXCEPT !.slot[i].state = "Active", !.free = @ - n]

CarveFront(m, i, n) ==
    [ok |-> TRUE, id |-> i,
     map |-> Activate(IF m.slot[i].len > n THEN SplitIn(m, i, n) ELSE m, i, n)]

CarveFrom(m, i, n, prefix) ==
    IF Len(m.unused) < (IF prefix > 0 THEN 1 ELSE 0)
                       + (IF m.slot[i].len - prefix > n THEN 1 ELSE 0)
    THEN [ok |-> FALSE]
    ELSE IF prefix = 0 THEN CarveFront(m, i, n)
    ELSE CarveFront(SplitIn(m, i, prefix), Head(m.unused), n)

CarveFit(m, i, n, align) ==
    IF i = Nil THEN [ok |-> FALSE] ELSE CarveFrom(m, i, n, Prefix(m.slot[i], align))

\* carve_in: a slot for each split it needs, or nothing at all.
Carve(m, n, align) == CarveFit(m, FindFit(m, n, align), n, align)

SetState(m, i, st) ==
    [m EXCEPT !.slot[i] = [@ EXCEPT !.state = st,
                                    !.canary = @ /\ st = "Dirty"]]

\* free_in_canary, of an Active extent.
FreeIn(m, i, st, canary) ==
    CoalesceIn(BinInsert([m EXCEPT !.slot[i] = [@ EXCEPT !.state = st,
                                       !.canary = canary /\ st = "Dirty"],
                                   !.free = @ + m.slot[i].len], i), i)

MarkCommitted(m, i) ==
    LET e == m.slot[i]
    IN  [m EXCEPT !.slot[i] = [@ EXCEPT !.committed = e.len,
                      !.canary = @ /\ e.committed = e.len,
                      !.state = IF IsFree(@) /\ ~IsBacked(@) THEN "Dirty" ELSE @],
                  !.committed = @ + e.len - e.committed]

MarkDecommitted(m, i, st) ==
    [m EXCEPT !.slot[i] = [@ EXCEPT !.committed = 0, !.canary = FALSE,
                                    !.state = st],
              !.committed = @ - m.slot[i].committed]

-----------------------------------------------------------------------------
(* The invariant oracle                    *)

Occupied(m) == {i \in Slots : m.slot[i].occupied}
SumOver(S, f(_)) == FoldSet(LAMBDA i, acc : f(i) + acc, 0, S)

\* check_invariants: the address list tiles the region, each extent is in its
\* bin if and only if it is free, backing is all or nothing and agrees with the
\* state of a free extent, and the totals and the slots balance.
CheckInvariants(m) ==
    /\ \A k \in DOMAIN m.addr :
           LET e == m.slot[m.addr[k]]
           IN  /\ e.occupied /\ e.len > 0
               /\ e.base = IF k = 1 THEN 0
                           ELSE m.slot[m.addr[k - 1]].base + m.slot[m.addr[k - 1]].len
               /\ e.committed \in {0, e.len}
               /\ IsFree(e.state) => (IsBacked(e.state) <=> e.committed = e.len)
               /\ IsFree(e.state) <=> Contains(m.bins[BinIndex(e.len)], m.addr[k])
    /\ LET e == m.slot[Last(m.addr)] IN e.base + e.len = Pages
    /\ m.free = SumOver({i \in Occupied(m) : IsFree(m.slot[i].state)},
                        LAMBDA i : m.slot[i].len)
    /\ m.committed = SumOver(Occupied(m), LAMBDA i : m.slot[i].committed)
    /\ Len(m.addr) + Len(m.unused) = SlotCap
    /\ \A b \in Bins : \A k \in DOMAIN m.bins[b] :
           LET e == m.slot[m.bins[b][k]]
           IN  e.occupied /\ IsFree(e.state) /\ BinIndex(e.len) = b

-----------------------------------------------------------------------------
(* ExtentManager.  A back end b is its map and the contents of its pages.  *)
(* ok says whether the provider's call, if there is one, succeeds.         *)

Fill(page, e, c) == [p \in PageSet |-> IF p \in PagesOf(e) THEN c ELSE page[p]]
Fresh == IF Zeroing THEN "zero" ELSE "data"

NewBackEnd == [map |-> NewMap, page |-> [p \in PageSet |-> "none"]]

\* The bytes of a backed free extent that carries no canary are written before
\* anyone reads them, and are forgotten here.
Forget(b) ==
    [b EXCEPT !.page = [p \in PageSet |->
        LET e == b.map.slot[CHOOSE i \in Occupied(b.map) : p \in PagesOf(b.map.slot[i])]
        IN  IF IsFree(e.state) /\ e.committed > 0 /\ ~e.canary THEN "data" ELSE b.page[p]]]

\* alloc_z: the carved extent goes back in the state its backing has.
Rollback(m, i) ==
    FreeIn(m, i, IF m.slot[i].committed = m.slot[i].len
                 THEN "Dirty" ELSE "Released", FALSE)

\* e is the carved extent; what it has no backing for is committed.
BackIt(b, c, e, ok) ==
    IF e.committed = e.len
    THEN [ok |-> TRUE, ref |-> RefOf(c.map, c.id), base |-> e.base, zeroed |-> FALSE,
          canary |-> e.canary, back |-> [b EXCEPT !.map = c.map]]
    ELSE IF ok
    THEN [ok |-> TRUE, ref |-> RefOf(c.map, c.id), base |-> e.base, zeroed |-> Zeroing,
          canary |-> FALSE, back |-> [map |-> MarkCommitted(c.map, c.id),
                                      page |-> Fill(b.page, e, Fresh)]]
    ELSE [ok |-> FALSE, back |-> Forget([b EXCEPT !.map = Rollback(c.map, c.id)])]

Allocated(b, c, ok) ==
    IF c.ok THEN BackIt(b, c, c.map.slot[c.id], ok) ELSE [ok |-> FALSE, back |-> b]

\* alloc_z: carve, commit what is not backed, report what the bytes hold.
AllocZ(b, n, align, ok) == Allocated(b, Carve(b.map, n, align), ok)

\* free_canary, of an Active extent.  unmap is the effective policy:
\* RetainPolicy::Unmap, or deterministic::force_purge.
FreeCanary(b, r, canary, unmap, ok) ==
    IF unmap /\ ok
    THEN [map |-> FreeIn(MarkDecommitted(b.map, r.id, "Active"), r.id, "Released", FALSE),
          page |-> Fill(b.page, b.map.slot[r.id], "none")]
    ELSE Forget([b EXCEPT !.map = FreeIn(@, r.id, "Dirty", canary)])

\* free_canary looks its reference up first and refuses a stale one and a
\* free extent.
Freeable(b, r) == Resolves(b.map, r) /\ b.map.slot[r.id].state = "Active"

\* split_tail: the tail stays Active.
SplitTail(b, r, prefix) ==
    IF Freeable(b, r) /\ Splits(b.map, r.id, prefix)
    THEN [ok |-> TRUE, back |-> [b EXCEPT !.map = SplitIn(@, r.id, prefix)],
          tail |-> RefOf(PopSlot(b.map), Head(b.map.unused))]
    ELSE [ok |-> FALSE, back |-> b]

\* j is free and makes up the difference.
Grows(m, i, j, n) ==
    j # Nil /\ IsFree(m.slot[j].state) /\ m.slot[j].len >= n - m.slot[i].len

\* can_grow_in_place
CanGrow(b, r, n) ==
    /\ Freeable(b, r) /\ n > b.map.slot[r.id].len
    /\ Grows(b.map, r.id, AddrNext(b.map, r.id), n)

\* m is the map with the neighbour j trimmed.  A failed commit coalesces it again.
Annex(b, m, i, j, ok) ==
    IF m.slot[j].committed = m.slot[j].len
    THEN [ok |-> TRUE, back |-> [b EXCEPT !.map = AbsorbNext(m, i, j)]]
    ELSE IF ok
    THEN [ok |-> TRUE, back |-> [map |-> AbsorbNext(MarkCommitted(m, j), i, j),
                                 page |-> Fill(b.page, m.slot[j], Fresh)]]
    ELSE [ok |-> FALSE, back |-> Forget([b EXCEPT !.map = CoalesceIn(m, j)])]

GrowInto(b, i, j, more, ok) ==
    IF b.map.slot[j].len = more THEN Annex(b, b.map, i, j, ok)
    ELSE IF b.map.unused = <<>> THEN [ok |-> FALSE, back |-> b]
    ELSE Annex(b, SplitIn(b.map, j, more), i, j, ok)

\* grow_in_place: trim the neighbour, commit it, absorb it.
GrowInPlace(b, r, n, ok) ==
    IF CanGrow(b, r, n)
    THEN GrowInto(b, r.id, AddrNext(b.map, r.id), n - b.map.slot[r.id].len, ok)
    ELSE [ok |-> FALSE, back |-> b]
=============================================================================
