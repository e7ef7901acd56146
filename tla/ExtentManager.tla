---------------------------- MODULE ExtentManager ----------------------------
(***************************************************************************)
(* The extent manager on its own, topo-core/src/extent.rs: every public    *)
(* operation, in any order, over a provider whose calls may fail.  Its     *)
(* clients own what alloc gave them until they free it, write all of it,   *)
(* and split and grow only what they own; the physical operations (commit, *)
(* decommit, purge, release) may be called on any extent.  free_revoking,  *)
(* which takes the lock twice, is in LargeObjects.                         *)
(***************************************************************************)
EXTENDS ExtentMap

CONSTANT Aligns     \* the alignments asked for, in pages

VARIABLES
    back,       \* the map and the contents of the pages
    owned       \* history: the allocations that the clients hold

vars == <<back, owned>>

Init == back = NewBackEnd /\ owned = {}

Holding(r, base, len) == [ref |-> r, base |-> base, len |-> len]
Extents == Occupied(back.map)

\* The client fills [base, base + len) with c.
Written(b, base, len, c) == [b EXCEPT !.page = Fill(@, [base |-> base, len |-> len], c)]

Alloc(n, align, ok) ==
    \E a \in {AllocZ(back, n, align, ok)} :
        /\ back' = IF a.ok THEN Written(a.back, a.base, n, "data") ELSE a.back
        /\ owned' = IF a.ok THEN owned \cup {Holding(a.ref, a.base, n)} ELSE owned

\* With the canary, or with what the client left there.
Free(o, canary, unmap, ok) ==
    /\ Freeable(back, o.ref)
    /\ back' = FreeCanary(IF canary THEN Written(back, o.base, o.len, "canary")
                          ELSE back, o.ref, canary, unmap, ok)
    /\ owned' = owned \ {o}

Split(o, prefix) ==
    \E s \in {SplitTail(back, o.ref, prefix)} :
        /\ s.ok /\ back' = s.back
        /\ owned' = (owned \ {o}) \cup {Holding(o.ref, o.base, prefix),
                        Holding(s.tail, o.base + prefix, o.len - prefix)}

Grow(o, n, ok) ==
    /\ CanGrow(back, o.ref, n)
    /\ \E g \in {GrowInPlace(back, o.ref, n, ok)} :
           /\ back' = IF g.ok THEN Written(g.back, o.base, n, "data") ELSE g.back
           /\ owned' = IF g.ok THEN (owned \ {o}) \cup {Holding(o.ref, o.base, n)}
                       ELSE owned

-----------------------------------------------------------------------------
(* The physical operations.  A failed provider call changes nothing.       *)

Commit(i) ==
    /\ back.map.slot[i].committed < back.map.slot[i].len
    /\ back' = Forget([map |-> MarkCommitted(back.map, i),
                       page |-> Fill(back.page, back.map.slot[i], Fresh)])
    /\ UNCHANGED owned

\* decommit, and release after its revocation.
Decommit(i) ==
    /\ IsFree(back.map.slot[i].state)
    /\ back' = IF back.map.slot[i].committed > 0
               THEN [map |-> MarkDecommitted(back.map, i, "Released"),
                     page |-> Fill(back.page, back.map.slot[i], "none")]
               ELSE [back EXCEPT !.map = SetState(@, i, "Released")]
    /\ UNCHANGED owned

\* The kernel may drop the pages at any time from now on.
PurgeLazy(i) ==
    /\ back.map.slot[i].state = "Dirty"
    /\ back' = Forget([back EXCEPT !.map = SetState(@, i, "Muzzy")])
    /\ UNCHANGED owned

PurgeForced(i) ==
    /\ IsFree(back.map.slot[i].state) /\ back.map.slot[i].committed > 0
    /\ back' = Forget([back EXCEPT !.map = SetState(@, i, "Muzzy")])
    /\ UNCHANGED owned

Next ==
    \/ \E n \in 1 .. Pages, align \in Aligns, ok \in BOOLEAN : Alloc(n, align, ok)
    \/ \E o \in owned :
           \/ \E canary, unmap, ok \in BOOLEAN : Free(o, canary, unmap, ok)
           \/ \E prefix \in 1 .. o.len - 1 : Split(o, prefix)
           \/ \E n \in o.len + 1 .. Pages, ok \in BOOLEAN : Grow(o, n, ok)
    \/ \E i \in Extents : Commit(i) \/ Decommit(i) \/ PurgeLazy(i) \/ PurgeForced(i)

Spec == Init /\ [][Next]_vars

-----------------------------------------------------------------------------
\* One type invariant for the module.
TypeOK ==
    /\ back.map.slot \in [Slots ->
           [base : PageSet, len : 0 .. Pages, committed : 0 .. Pages,
            state : ExtentStates, canary : BOOLEAN, occupied : BOOLEAN,
            generation : 0 .. Generations - 1]]
    /\ back.page \in [PageSet -> Contents]
    /\ back.map.free \in 0 .. Pages /\ back.map.committed \in 0 .. Pages

\* check_invariants, which the debug build asserts after every change: whatever
\* operations ran and whichever provider calls failed, the extents tile the
\* region, the bins hold the free ones and the totals are right.
WellFormed == CheckInvariants(back.map)

\* M-004 and M-005: what alloc gave out stays an Active extent of its own range,
\* wholly backed, under the reference it was given, until its owner frees it;
\* and no other extent is Active, so that nothing is lost either.
LiveExtents ==
    /\ \A o \in owned :
           LET e == back.map.slot[o.ref.id]
           IN  /\ Freeable(back, o.ref)
               /\ e.base = o.base /\ e.len = o.len /\ e.committed = e.len
    /\ {i \in Extents : back.map.slot[i].state = "Active"} = {o.ref.id : o \in owned}

\* committed_len is what the provider was asked for and granted: a page has
\* backing exactly when its extent says so, after any failed call.
BackingAgrees ==
    \A i \in Extents : \A p \in PagesOf(back.map.slot[i]) :
        back.page[p] # "none" <=> back.map.slot[i].committed > 0

\* Slot::canary: a free extent that carries the flag is Dirty, backed, and holds
\* the pattern in every byte, so that verify-on-reuse never aborts a correct
\* program.
CanarySound ==
    \A i \in Extents : LET e == back.map.slot[i] IN
        e.canary /\ IsFree(e.state) =>
            /\ e.state = "Dirty" /\ e.committed = e.len
            /\ \A p \in PagesOf(e) : back.page[p] = "canary"

\* find_fit against its definition: it finds an extent whenever some free extent
\* can hold the request at the alignment, and no smaller one can.
BestFitIsBest ==
    \A n \in 1 .. Pages, align \in Aligns :
        \A i \in {FindFit(back.map, n, align)} :
            LET able == {j \in Extents : /\ IsFree(back.map.slot[j].state)
                                         /\ Fits(back.map.slot[j], n, align)}
            IN  IF able = {} THEN i = Nil
                ELSE /\ i \in able
                     /\ \A j \in able : back.map.slot[i].len <= back.map.slot[j].len

StateOfPage(b, p) ==
    b.map.slot[CHOOSE i \in Occupied(b.map) : p \in PagesOf(b.map.slot[i])].state

\* ExtentState::can_transition: no page is ever Reserved again once it was
\* something else, a live page is not purged, and a page without backing does
\* not become Muzzy.
LifecycleStep ==
    \A p \in PageSet :
        LET from == StateOfPage(back, p)
            to == StateOfPage(back', p)
        IN  /\ to = "Reserved" => from = "Reserved"
            /\ to = "Muzzy" => from \in {"Dirty", "Muzzy"}
Lifecycle == [][LifecycleStep]_vars

\* A call that gives the client nothing and takes nothing leaves no more extents
\* than it found: an allocation or a growth whose commit fails merges again what
\* it had split (grow_in_place: "leaving the original free geometry").
NoFragmentsStep == owned' = owned => Len(back'.map.addr) <= Len(back.map.addr)
=============================================================================
