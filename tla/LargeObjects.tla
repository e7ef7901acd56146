---------------------------- MODULE LargeObjects ----------------------------
(***************************************************************************)
(* The large-object allocator, topo-core/src/large.rs, over the back end   *)
(* of ExtentMap: descriptors in a pool, published in the pagemap, each     *)
(* backed by one extent.                                                   *)
(*                                                                         *)
(* Two locks are never held together: the pool lock (descriptors and the   *)
(* pagemap entries of large objects) and the backend lock.  An operation   *)
(* is a chain of critical sections, and a step here is one of them with    *)
(* what the thread does to pages that are its own in between (protect,     *)
(* fill, scrub, zero), which nobody else can see.  Lengths are in pages;   *)
(* the object of a guarded allocation fills the pages between its guards.  *)
(* Regions served by the region cache are in HugeBackend.                  *)
(***************************************************************************)
EXTENDS ExtentMap

CONSTANTS
    Threads,
    LargeCap,   \* the largest large_slots: descriptors in the pool
    Arenas,
    Explicit,   \* the arenas that are reset and destroyed
    Sampled,    \* the arenas whose allocations are sampled for guard pages
    JunkFill,   \* junk_fill_enabled
    Unmaps,     \* the retain policies in effect: Unmap, or not
    Scrubs      \* the frees asked for: scrubbing, or not

LargeSlots == 0 .. LargeCap - 1
NoLarge == LargeCap

VARIABLES
    back,       \* the extent map and the contents of the pages
    prot,       \* the pages that are PROT_NONE
    pool,       \* the descriptors, the free stack, high_water and live
    pagemap,    \* page -> the descriptor published for it
    op,         \* thread -> the operation that it is in
    held,       \* history: the objects that the program has
    withheld,   \* history: extents kept Active for good, no one's object
    aborted     \* history: a verify-on-reuse or a debug assertion failed

vars == <<back, prot, pool, pagemap, op, held, withheld, aborted>>

Idle == [at |-> "idle"]
NoSlot == [base |-> 0, usable |-> 0, ref |-> [id |-> 0, generation |-> 0],
           arena |-> CHOOSE a \in Arenas : TRUE,
           guarded |-> FALSE, armed |-> FALSE, quarantined |-> FALSE]

Init ==
    /\ back = NewBackEnd /\ prot = {}
    /\ \E cap \in 1 .. LargeCap :
           pool = [cap |-> cap, slot |-> [s \in LargeSlots |-> NoSlot],
                   free |-> <<>>, high |-> 0, live |-> 0]
    /\ pagemap = [p \in PageSet |-> NoLarge]
    /\ op = [t \in Threads |-> Idle]
    /\ held = {} /\ withheld = {} /\ aborted = FALSE

Goto(t, o) == op' = [op EXCEPT ![t] = o]
Extent(base, len) == [base |-> base, len |-> len]
Written(b, base, len, c) == [b EXCEPT !.page = Fill(@, Extent(base, len), c)]
Publish(base, len, s) ==
    [p \in PageSet |-> IF p \in PagesOf(Extent(base, len)) THEN s ELSE pagemap[p]]

-----------------------------------------------------------------------------
(* The pool *)

\* LargePool::acquire: a released slot before a new one.
Acquirable == pool.free # <<>> \/ pool.high < pool.cap
Acquired == IF pool.free # <<>> THEN Head(pool.free) ELSE pool.high
Acquire(d) ==
    [cap |-> pool.cap,
     slot |-> [pool.slot EXCEPT ![Acquired] = d],
     free |-> IF pool.free # <<>> THEN Tail(pool.free) ELSE <<>>,
     high |-> IF pool.free # <<>> THEN pool.high ELSE pool.high + 1,
     live |-> pool.live + 1]

\* A released descriptor keeps its contents, of which only the quarantine bit is
\* kept here: no pagemap entry leads to it (PagemapExact), so that free_arena's
\* scan passes over it whatever its base.
Released(d) == [NoSlot EXCEPT !.quarantined = d.quarantined]
Release(p, s) == [p EXCEPT !.slot[s] = Released(@), !.free = <<s>> \o @, !.live = @ - 1]

-----------------------------------------------------------------------------
(* allocate_with_in and allocate_guarded *)

\* alloc_large, and the verification of the canary that it reports.
TakeExtent(t, arena, n, ok) ==
    /\ op[t] = Idle
    /\ \E a \in {AllocZ(back, n, 1, ok)} :
           /\ back' = a.back
           /\ Goto(t, IF a.ok
                      THEN [at |-> "publish", base |-> a.base, len |-> n, ref |-> a.ref,
                            arena |-> arena, guarded |-> FALSE, armed |-> FALSE,
                            zeroed |-> a.zeroed, then |-> Idle]
                      ELSE Idle)
           /\ aborted' = \/ aborted
                         \/ /\ a.ok /\ a.canary
                            /\ \E p \in a.base .. a.base + n - 1 : back.page[p] # "canary"
    /\ UNCHANGED <<prot, pool, pagemap, held, withheld>>

\* Guards of an object of n pages whose extent starts at base.
Lead(base) == base
Trail(base, n) == base + n + 1

\* needs_restore: both guards are on, or one is and could not be taken off.
NeedsRestore(lead, trail, unlead, untrail) ==
    \/ lead /\ trail
    \/ lead /\ ~unlead
    \/ trail /\ ~untrail

\* alloc_large with two more pages, and the guards; each protection may fail,
\* and so may its rollback, where there is something to roll back.
TakeGuarded(t, arena, n, ok, lead, trail, unlead, untrail) ==
    /\ op[t] = Idle
    /\ ~lead \/ trail => unlead
    /\ ~trail \/ lead => untrail
    /\ \E a \in {AllocZ(back, n + 2, 1, ok)} :
           /\ back' = a.back
           /\ IF a.ok
              THEN /\ Goto(t, [at |-> "publish", base |-> a.base + 1, len |-> n,
                              ref |-> a.ref, arena |-> arena, guarded |-> TRUE,
                              armed |-> NeedsRestore(lead, trail, unlead, untrail),
                              zeroed |-> FALSE, then |-> Idle])
                   /\ prot' = prot
                          \cup (IF lead /\ (trail \/ ~unlead) THEN {Lead(a.base)} ELSE {})
                          \cup (IF trail /\ (lead \/ ~untrail) THEN {Trail(a.base, n)} ELSE {})
              ELSE UNCHANGED <<op, prot>>
    /\ UNCHANGED <<pool, pagemap, held, withheld, aborted>>

Object(base, len, arena, s) ==
    [base |-> base, len |-> len, arena |-> arena, slot |-> s, parked |-> FALSE]

\* The descriptor, new or recycled.
Described(o) ==
    [base |-> o.base, usable |-> o.len, ref |-> o.ref, arena |-> o.arena,
     guarded |-> o.guarded, armed |-> o.armed, quarantined |-> FALSE]

\* Under the pool lock: a descriptor and its pagemap entries, then the zeroing
\* that the caller asked for; the program writes its object at once.  Without a
\* descriptor, or when install_large finds no memory for a leaf, the backing
\* goes back.
PublishObject(t, installed) ==
    LET o == op[t]
    IN  /\ o.at = "publish"
        /\ IF Acquirable /\ installed
           THEN /\ pool' = Acquire(Described(o))
                /\ pagemap' = Publish(o.base, o.len, Acquired)
                /\ held' = held \cup {Object(o.base, o.len, o.arena, Acquired)}
                /\ back' = Written(back, o.base, o.len, "data")
                /\ aborted' = \/ aborted
                              \/ /\ o.zeroed
                                 /\ \E p \in PagesOf(o) : back.page[p] # "zero"
                /\ Goto(t, Idle)
                /\ UNCHANGED <<prot, withheld>>
           ELSE /\ pool' = IF Acquirable
                           THEN Release(Acquire(Described(o)), Acquired) ELSE pool
                /\ Goto(t, [o EXCEPT !.at = "unwind"])
                /\ UNCHANGED <<back, prot, pagemap, held, withheld, aborted>>

\* Mutant: the backing of an object that was not published is forgotten.
UnwindForgets(t, lead, trail, unmap, ok) ==
    /\ op[t].at = "unwind"
    /\ Goto(t, Idle)
    /\ prot' = prot \ PagesOf(Extent(op[t].base - 1, op[t].len + 2))
    /\ UNCHANGED <<back, pool, pagemap, held, withheld, aborted>>

\* restore_and_free, and return_backing on the error path.  An extent with a
\* guard that cannot be taken off is withheld.
Unwind(t, lead, trail, unmap, ok) ==
    LET o == op[t]
    IN  /\ o.at = "unwind" /\ (o.guarded \/ (lead /\ trail))
        /\ Goto(t, Idle)
        /\ IF o.guarded /\ ~(lead /\ trail)
           THEN /\ withheld' = withheld \cup {o.ref}
                /\ prot' = prot \ ((IF lead THEN {o.base - 1} ELSE {})
                                   \cup (IF trail THEN {o.base + o.len} ELSE {}))
                /\ UNCHANGED back
           ELSE /\ back' = IF Freeable(back, o.ref)
                           THEN FreeCanary(back, o.ref, FALSE, unmap, ok) ELSE back
                /\ prot' = IF o.guarded THEN prot \ {o.base - 1, o.base + o.len} ELSE prot
                /\ UNCHANGED withheld
        /\ UNCHANGED <<pool, pagemap, held, aborted>>

-----------------------------------------------------------------------------
(* free_inner, mark_quarantined and free_arena *)

Busy(a) == \E t \in Threads : op[t].at # "idle" /\ op[t].arena = a
Draining(a) ==
    \E t \in Threads : /\ op[t].at # "idle" /\ op[t].arena = a
                       /\ op[t].at = "drain" \/ op[t].then.at = "drain"

Resizing == {"retire", "trim", "absorb", "map", "extend"}

\* The program may free an object of an arena that is not being drained; a
\* pointer that is not the base of an object is a stale one.
MayFree(p) ==
    /\ \A o \in held : o.base = p => ~o.parked /\ ~Draining(o.arena)
    /\ \A t \in Threads : op[t].at \in Resizing => op[t].obj.base # p

\* The descriptor of a base pointer; anything else is refused.
ResolvesBase(p) == pagemap[p] # NoLarge /\ pool.slot[pagemap[p]].base = p

\* Under the pool lock: the entries go, then the descriptor.
FreeInner(t, p, revoke, scrub, then) ==
    /\ ResolvesBase(p)
    /\ LET s == pagemap[p]
           d == pool.slot[s]
       IN  /\ pagemap' = Publish(d.base, d.usable, NoLarge)
           /\ pool' = Release(pool, s)
           /\ held' = {o \in held : o.slot # s}
           /\ Goto(t, [at |-> "return", base |-> d.base, len |-> d.usable, ref |-> d.ref,
                       arena |-> d.arena, guarded |-> d.guarded, armed |-> d.armed,
                       revoke |-> revoke, scrub |-> scrub, then |-> then])
    /\ UNCHANGED <<back, prot, withheld, aborted>>

Free(t, p, scrub) ==
    op[t] = Idle /\ MayFree(p) /\ FreeInner(t, p, FALSE, scrub, Idle)

\* fill_on_free or scrub, and whether the extent carries the canary.
Filled(o) == Written(back, o.base, o.len,
                     IF o.scrub THEN "zero" ELSE IF JunkFill THEN "canary" ELSE "data")
DidFill(o) == ~o.scrub /\ JunkFill /\ ~o.guarded

\* free_arena's all_revoked.
Failed(then) == IF then = Idle THEN Idle ELSE [then EXCEPT !.revoked = FALSE]

Withholds(o, lead, trail) == o.armed /\ ~(lead /\ trail)

\* The guards, the fill, and then the backend lock: free_canary, or the first
\* half of free_revoking_canary.  lead, trail, unmap and ok are the provider's.
ReturnBacking(t, lead, trail, unmap, ok) ==
    LET o == op[t]
        unguarded == IF o.armed THEN (IF lead THEN {o.base - 1} ELSE {})
                                     \cup (IF trail THEN {o.base + o.len} ELSE {})
                     ELSE {}
    IN  /\ o.at = "return" /\ (o.armed \/ (lead /\ trail))
        /\ prot' = prot \ unguarded
        /\ IF Withholds(o, lead, trail) \/ (o.revoke /\ ~ok)
           THEN /\ back' = Filled(o) /\ withheld' = withheld \cup {o.ref}
                /\ Goto(t, Failed(o.then))
           ELSE IF o.revoke
           THEN back' = Filled(o) /\ Goto(t, [o EXCEPT !.at = "recycle"]) /\ UNCHANGED withheld
           ELSE /\ back' = IF Freeable(back, o.ref)
                           THEN FreeCanary(Filled(o), o.ref, DidFill(o), unmap, ok)
                           ELSE Filled(o)
                /\ Goto(t, o.then) /\ UNCHANGED withheld
        /\ UNCHANGED <<pool, pagemap, held, aborted>>

Recycle(t, unmap, ok) ==
    LET o == op[t]
    IN  /\ o.at = "recycle"
        /\ back' = IF Freeable(back, o.ref)
                   THEN FreeCanary(back, o.ref, DidFill(o), unmap, ok) ELSE back
        /\ Goto(t, o.then)
        /\ UNCHANGED <<prot, pool, pagemap, held, withheld, aborted>>

\* mark_quarantined and unmark_quarantined, by the quarantine that has the
\* object from a deferred free until it releases it.
SetQuarantined(o, bit) ==
    /\ o.arena \in Explicit /\ ~Draining(o.arena)
    /\ pool.slot[o.slot].quarantined # bit
    /\ pool' = [pool EXCEPT !.slot[o.slot].quarantined = bit]
    /\ held' = (held \ {o}) \cup {[o EXCEPT !.parked = bit]}
    /\ UNCHANGED <<back, prot, pagemap, op, withheld, aborted>>

\* free_arena, of a quiesced arena.
FreeArena(t, a) ==
    /\ op[t] = Idle /\ ~Busy(a)
    /\ Goto(t, [at |-> "drain", arena |-> a, revoked |-> TRUE, then |-> Idle])
    /\ UNCHANGED <<back, prot, pool, pagemap, held, withheld, aborted>>

ScanBound == pool.high

\* The scan, and the free of what it found (a second critical section, in which
\* no one else can have touched an object of the quiesced arena).
Drain(t, scrub) ==
    LET o == op[t]
        found == {s \in LargeSlots : /\ s < ScanBound
                                     /\ pagemap[pool.slot[s].base] = s
                                     /\ pool.slot[s].arena = o.arena}
    IN  /\ o.at = "drain"
        /\ \/ /\ found # {}
              /\ FreeInner(t, pool.slot[Min(found)].base, TRUE, scrub, o)
           \/ /\ found = {}
              /\ Goto(t, Idle)
              /\ UNCHANGED <<back, prot, pool, pagemap, held, withheld, aborted>>

-----------------------------------------------------------------------------
(* shrink and grow.  The caller has the object to itself: held gives it up *)
(* for as long as the operation may change it, and resolving it, under the *)
(* pool lock, is part of the first step under the backend lock.  An        *)
(* operation that is refused changes nothing and is not a step.            *)

MayResize(t, o) ==
    op[t] = Idle /\ ~o.parked /\ ~Draining(o.arena) /\ ~pool.slot[o.slot].guarded

Resize(t, o, at, n, tail) ==
    /\ held' = held \ {o}
    /\ Goto(t, [at |-> at, obj |-> o, new |-> n, ref |-> pool.slot[o.slot].ref,
                tail |-> tail, arena |-> o.arena, then |-> Idle])

\* split_tail
Shrink(t, o, n) ==
    \E s \in {SplitTail(back, pool.slot[o.slot].ref, n)} :
        /\ MayResize(t, o) /\ n < o.len
        /\ s.ok /\ back' = s.back
        /\ Resize(t, o, "retire", n, s.tail)
        /\ UNCHANGED <<prot, pool, pagemap, withheld, aborted>>

\* retire_large_range
RetireTail(t) ==
    LET o == op[t]
    IN  /\ o.at = "retire"
        /\ pagemap' = Publish(o.obj.base + o.new, o.obj.len - o.new, NoLarge)
        /\ Goto(t, [o EXCEPT !.at = "trim"])
        /\ UNCHANGED <<back, prot, pool, held, withheld, aborted>>

\* shrink_usable
TrimUsable(t) ==
    LET o == op[t]
    IN  /\ o.at = "trim"
        /\ pool' = [pool EXCEPT !.slot[o.obj.slot].usable = o.new]
        /\ held' = held \cup {[o.obj EXCEPT !.len = o.new]}
        /\ Goto(t, [o EXCEPT !.at = "tail"])
        /\ UNCHANGED <<back, prot, pagemap, withheld, aborted>>

FreeTail(t, unmap, ok) ==
    /\ op[t].at = "tail"
    /\ back' = IF Freeable(back, op[t].tail)
               THEN FreeCanary(back, op[t].tail, FALSE, unmap, ok) ELSE back
    /\ Goto(t, Idle)
    /\ UNCHANGED <<prot, pool, pagemap, held, withheld, aborted>>

\* can_grow_in_place, then reserve_large_range.
Grow(t, o, n) ==
    /\ MayResize(t, o) /\ n > o.len
    /\ CanGrow(back, pool.slot[o.slot].ref, n)
    /\ Resize(t, o, "absorb", n, NoSlot.ref)
    /\ UNCHANGED <<back, prot, pool, pagemap, withheld, aborted>>

\* grow_in_place, which asks again.
Absorb(t, ok) ==
    /\ op[t].at = "absorb"
    /\ \E g \in {GrowInPlace(back, op[t].ref, op[t].new, ok)} :
        /\ back' = g.back
        /\ IF g.ok THEN Goto(t, [op[t] EXCEPT !.at = "map"]) /\ UNCHANGED held
                   ELSE held' = held \cup {op[t].obj} /\ Goto(t, Idle)
        /\ UNCHANGED <<prot, pool, pagemap, withheld, aborted>>

\* install_large_range: the leaves are there.
MapGrown(t) ==
    LET o == op[t]
    IN  /\ o.at = "map"
        /\ pagemap' = Publish(o.obj.base + o.obj.len, o.new - o.obj.len, o.obj.slot)
        /\ Goto(t, [o EXCEPT !.at = "extend"])
        /\ UNCHANGED <<back, prot, pool, held, withheld, aborted>>

\* grow_usable
ExtendUsable(t) ==
    LET o == op[t]
    IN  /\ o.at = "extend"
        /\ pool' = [pool EXCEPT !.slot[o.obj.slot].usable = o.new]
        /\ held' = held \cup {[o.obj EXCEPT !.len = o.new]}
        /\ back' = Written(back, o.obj.base, o.new, "data")
        /\ Goto(t, Idle)
        /\ UNCHANGED <<prot, pagemap, withheld, aborted>>

Start(t) ==
    \/ \E a \in Arenas :
           /\ ~Draining(a)
           /\ \/ \E n \in 1 .. Pages, ok \in BOOLEAN : TakeExtent(t, a, n, ok)
              \/ a \in Sampled /\ \E n \in 1 .. Pages - 2, ok, lead, trail, unlead, untrail \in BOOLEAN :
                    TakeGuarded(t, a, n, ok, lead, trail, unlead, untrail)
    \/ \E p \in PageSet, scrub \in Scrubs : Free(t, p, scrub)
    \/ \E o \in held, n \in 1 .. Pages : Shrink(t, o, n) \/ Grow(t, o, n)
    \/ \E a \in Explicit : FreeArena(t, a)

Step(t) ==
    \/ \E ok \in BOOLEAN : PublishObject(t, ok) \/ Absorb(t, ok)
    \/ \E lead, trail, ok \in BOOLEAN, unmap \in Unmaps :
           \/ Unwind(t, lead, trail, unmap, ok)
           \/ ReturnBacking(t, lead, trail, unmap, ok)
           \/ FreeTail(t, unmap, ok) \/ Recycle(t, unmap, ok)
    \/ \E scrub \in Scrubs : Drain(t, scrub)
    \/ RetireTail(t) \/ TrimUsable(t)
    \/ MapGrown(t) \/ ExtendUsable(t)

Next ==
    \/ \E t \in Threads : Start(t) \/ Step(t)
    \/ \E o \in held, bit \in BOOLEAN : SetQuarantined(o, bit)

Spec == Init /\ [][Next]_vars

\* The threads are alike.
Symmetry == Permutations(Threads)

-----------------------------------------------------------------------------
InFlight(S) == {t \in Threads : op[t].at \in S}
Resized == {op[t].obj : t \in InFlight(Resizing)}
Objects == held \cup Resized

\* One type invariant for the module.
TypeOK ==
    /\ prot \subseteq PageSet /\ aborted \in BOOLEAN
    /\ pool.cap \in 1 .. LargeCap /\ pool.high \in 0 .. pool.cap
    /\ pool.live \in 0 .. pool.cap /\ pool.free \in Seq(LargeSlots)
    /\ pagemap \in [PageSet -> LargeSlots \cup {NoLarge}]

\* The extent of an object has exactly its pages, and its guard pages.
Backed(o) ==
    LET d == pool.slot[o.slot]
        e == back.map.slot[d.ref.id]
    IN  /\ Freeable(back, d.ref) /\ e.committed = e.len
        /\ IF d.guarded THEN e.base = o.base - 1 /\ e.len = o.len + 2
                        ELSE e.base = o.base /\ e.len = o.len

\* What the program has stays its own through every operation of the others: an
\* object that nobody is resizing has its descriptor, its pagemap entries and an
\* Active extent of just its pages, and its bytes are what the program wrote.
LiveObjects ==
    \A o \in held :
        /\ pool.slot[o.slot].base = o.base /\ pool.slot[o.slot].usable = o.len
        /\ Backed(o)
        /\ \A p \in PagesOf(o) : /\ pagemap[p] = o.slot /\ p \notin prot
                                  /\ back.page[p] = "data"

\* shrink and grow leave the prefix that survives alone: at every point of them
\* it is mapped, backed and as the program left it, and what they fail to do
\* they leave undone.
ResizeKeepsPrefix ==
    \A t \in InFlight(Resizing) :
        LET o == op[t].obj
        IN  /\ Freeable(back, pool.slot[o.slot].ref)
            /\ \A k \in 0 .. Min({o.len, op[t].new}) - 1 :
                   pagemap[o.base + k] = o.slot /\ back.page[o.base + k] = "data"

\* P-Map-001: a pagemap entry belongs to a descriptor in use and lies in its
\* object, so that no lookup finds a released descriptor; and no page of a free
\* extent has an entry.
PagemapExact ==
    /\ \A p \in PageSet : pagemap[p] # NoLarge =>
           \E o \in Objects :
               /\ o.slot = pagemap[p] /\ p >= o.base
               /\ \/ p < o.base + o.len
                  \/ \E t \in InFlight({"extend"}) : op[t].obj = o /\ p < o.base + op[t].new
    /\ \A i \in Occupied(back.map) : IsFree(back.map.slot[i].state) =>
           \A p \in PagesOf(back.map.slot[i]) : pagemap[p] = NoLarge

\* No backing is lost and none is freed twice: every Active extent is that of an
\* object, of an operation on its way, or withheld on purpose, and each of those
\* has one.
NothingLost ==
    LET objects == {pool.slot[o.slot].ref : o \in Objects}
        coming == {op[t].ref : t \in InFlight({"publish", "unwind", "return", "recycle"})}
        tails == {op[t].tail : t \in InFlight({"retire", "trim", "tail"})}
        refs == objects \cup coming \cup tails \cup withheld
    IN  /\ refs = {RefOf(back.map, i) : i \in {j \in Occupied(back.map) :
                                                back.map.slot[j].state = "Active"}}
        /\ Cardinality(refs) =
               Cardinality(Objects) + Cardinality(withheld)
               + Cardinality(InFlight({"publish", "unwind", "return", "recycle"}))
               + Cardinality(InFlight({"retire", "trim", "tail"}))

\* guard_armed: a PROT_NONE page is always in an extent that someone will
\* restore or that is withheld; none is ever handed out again.
GuardsAccounted ==
    \A p \in prot : \E i \in Occupied(back.map) :
        /\ p \in PagesOf(back.map.slot[i])
        /\ LET r == RefOf(back.map, i)
           IN  \/ r \in withheld
               \/ \E o \in held : pool.slot[o.slot].ref = r /\ pool.slot[o.slot].armed
               \/ \E t \in InFlight({"publish", "unwind", "return"}) :
                     op[t].ref = r /\ op[t].guarded

\* The pool: a descriptor is either in use by one object or in the free stack,
\* once; and its quarantine bit is that of the object it describes now.
PoolBalanced ==
    LET used == {o.slot : o \in Objects}
    IN  /\ Cardinality(used) = Cardinality(Objects) /\ pool.live = Cardinality(used)
        /\ IsInjective(pool.free) /\ ToSet(pool.free) = (0 .. pool.high - 1) \ used
        /\ \A o \in held : pool.slot[o.slot].quarantined = o.parked

\* Verify-on-reuse aborts no correct program, and a request for zeroed memory
\* that skips the memset got zeroes.
NeverAborts == ~aborted

\* free_arena returns only when the quiesced arena has no object left, whatever
\* the other threads did to the other arenas meanwhile.
DrainsAllStep ==
    \A t \in Threads : op[t].at = "drain" /\ op'[t] = Idle =>
        \A o \in held : o.arena # op[t].arena
DrainsAll == [][DrainsAllStep]_vars
=============================================================================
