--------------------------- MODULE SpanLifecycle ---------------------------
(***************************************************************************)
(* The life of a small-object span: create_span takes a slot of the        *)
(* descriptor pool and a backing extent, activate_span publishes it in its *)
(* bin of the central cache, remove_batch and insert_batch move objects    *)
(* between the bin and the program, retire_span and drain_arena take it    *)
(* down again (allocator.rs, central.rs, and the bitmaps of span.rs).      *)
(*                                                                         *)
(* A size class is named by the number of objects of its slab.  What holds *)
(* a lock in the code is one step: the span lock of the pool, the bin lock *)
(* (which remove_batch, insert_batch and the deactivations hold to their   *)
(* end), and the span's own lock in activate_span.                         *)
(***************************************************************************)
EXTENDS Integers, FiniteSets, SequencesExt

CONSTANTS Threads,
          Classes,       \* size classes, as object counts
          Arenas,
          Places,        \* placement classes of find_partial_for_arena
          AnyPlace,      \* ANY_PLACE_CLASS
          Cap,           \* slots of the descriptor pool
          WordBits,      \* 64
          InlineWords,   \* INLINE_WORDS of FreeBitmap
          MaxEmpty,      \* MAX_EMPTY_CACHED_PER_BIN
          MaxBatch,      \* bound on a batch
          MaxCreates,    \* bound: spans created
          Does           \* which of "fail", "reset" the configurations allow

VARIABLES desc,          \* slot -> descriptor
          free,          \* the free-slot stack, head first
          highWater,     \* never-used slots start here
          live,          \* SpanPoolInner::live
          bin,           \* class -> [partial, empty, spans, total]
          extents,       \* the slots whose recorded extent is allocated
          out,           \* objects the program holds, as <<slot, index>>
          cached,        \* objects the front end holds
          th,            \* thread -> where it is in a compound operation
          creates,
          does           \* the configuration: a member of Does

vars == <<desc, free, highWater, live, bin, extents, out, cached, th,
          creates, does>>

Slots == 0..(Cap - 1)
Idle == [pc |-> "idle"]

----------------------------------------------------------------------------
(* Bitmaps (FreeBitmap, CachedBits).  bits may hold stale bits of words    *)
(* that are not active: a smaller span leaves them behind.                 *)

WordsFor(n) == Max({(n + WordBits - 1) \div WordBits, 1})

Below(words) == 0..(words * WordBits - 1)

NewBits(n, least) ==
    [words |-> WordsFor(n), cap |-> Max({WordsFor(n), least}), bits |-> {}]

\* Mutant: a recycled bitmap keeps the bits of its last span.
RecycleKeepsBits(b, n) ==
    IF WordsFor(n) > b.cap THEN NewBits(n, 0)
    ELSE [b EXCEPT !.words = WordsFor(n)]

\* recycle_to: a larger block when the words do not fit, then a clear of the
\* words now active.
RecycleTo(b, n) ==
    IF WordsFor(n) > b.cap THEN NewBits(n, 0)
    ELSE [b EXCEPT !.words = WordsFor(n), !.bits = @ \ Below(WordsFor(n))]

NeedsMetadata(b, n) == WordsFor(n) > b.cap

ActiveBits(b) == b.bits \cap Below(b.words)

FillBelow(b, n) == [b EXCEPT !.bits = (@ \ Below(b.words)) \cup (0..(n - 1))]

Cleared(b) == [b EXCEPT !.bits = @ \ Below(b.words)]

\* The lowest k set bits below the object count (central_remove_batch).
Lowest(S, k) == {i \in S : Cardinality({j \in S : j < i}) < k}

----------------------------------------------------------------------------
(* Bins.                                                                   *)

EmptyBin == [partial |-> <<>>, empty |-> <<>>, spans |-> 0, total |-> 0]

Without(q, s) == SelectSeq(q, LAMBDA x : x # s)

Matches(s, a, p) ==
    desc[s].arena = a /\ (p = AnyPlace \/ desc[s].place = p)

\* find_partial_for_arena: the first match moves to the front.
Matching(k, a, p) ==
    {i \in 1..Len(bin[k].partial) : Matches(bin[k].partial[i], a, p)}

MovedToFront(q, i) == <<q[i]>> \o Without(q, q[i])

----------------------------------------------------------------------------

Init ==
    /\ desc = [s \in Slots |-> [state |-> "None"]]
    /\ free = <<>>
    /\ highWater = 0
    /\ live = 0
    /\ bin = [k \in Classes |-> EmptyBin]
    /\ extents = {}
    /\ out = {}
    /\ cached = {}
    /\ th = [t \in Threads |-> Idle]
    /\ creates = 0
    /\ does \in Does

At(t, pc) == th[t].pc = pc
Goto(t, l) == th' = [th EXCEPT ![t] = l]

\* An arena is quiesced while it is reset: no thread is inside an operation
\* of it, and drain_arena is alone with it.
Resetting(a) == \E t \in Threads : th[t].pc \in {"drain", "reclaim"}
                                   /\ th[t].forced /\ th[t].arena = a

----------------------------------------------------------------------------
(* create_span.                                                            *)

FreshSpan(a, k, p) ==
    [state |-> "Active", arena |-> a, sc |-> k, place |-> p, central |-> 0,
     live |-> 0, map |-> NewBits(k, InlineWords), marks |-> NewBits(k, 0)]

RecycledSpan(d, a, k, p) ==
    [state |-> "Active", arena |-> a, sc |-> k, place |-> p, central |-> 0,
     live |-> 0, map |-> RecycleTo(d.map, k), marks |-> RecycleTo(d.marks, k)]

\* What the slot holds when one of the bitmaps could not grow: the bitmaps
\* recycled before it have the new length, the rest is as it was.
HalfRecycled(d, k, grown) ==
    IF grown THEN [d EXCEPT !.map = RecycleTo(@, k)] ELSE d

\* The extent, the slot and the descriptor: all under the pool's lock but for
\* the extent, which is the caller's alone.
TakeSlot(t, a, k, p) ==
    /\ At(t, "idle") /\ creates < MaxCreates /\ ~Resetting(a)
    /\ creates' = creates + 1
    /\ \/ /\ free # <<>>
          /\ desc' = [desc EXCEPT ![Head(free)] = RecycledSpan(@, a, k, p)]
          /\ free' = Tail(free)
          /\ highWater' = highWater
          /\ extents' = extents \cup {Head(free)}
          /\ Goto(t, [pc |-> "activate", s |-> Head(free), arena |-> a,
                      forced |-> FALSE])
       \/ /\ free = <<>> /\ highWater < Cap
          /\ desc' = [desc EXCEPT ![highWater] = FreshSpan(a, k, p)]
          /\ highWater' = highWater + 1
          /\ free' = free
          /\ extents' = extents \cup {highWater}
          /\ Goto(t, [pc |-> "activate", s |-> highWater, arena |-> a,
                      forced |-> FALSE])
    /\ live' = live + 1
    /\ UNCHANGED <<bin, out, cached, does>>

\* The pool is used up, or the metadata for the bitmaps is: the extent goes
\* back.  A fresh slot is given back by the high-water mark, a recycled one to
\* the stack; its descriptor keeps its last state.
NoSlot(t, a, k) ==
    /\ At(t, "idle") /\ "fail" \in does /\ creates < MaxCreates
    /\ creates' = creates + 1
    /\ \/ /\ free # <<>>
          /\ \E grown \in BOOLEAN :
                /\ NeedsMetadata(IF grown THEN desc[Head(free)].marks
                                 ELSE desc[Head(free)].map, k)
                /\ desc' = [desc EXCEPT ![Head(free)] =
                               HalfRecycled(@, k, grown)]
       \/ free = <<>> /\ UNCHANGED desc
    /\ UNCHANGED <<free, highWater, live, bin, extents, out, cached, th, does>>

\* activate_span under the span lock: every object is central-free.
Activate(t) ==
    /\ At(t, "activate")
    /\ desc' = [desc EXCEPT ![th[t].s].map = FillBelow(@, desc[th[t].s].sc),
                            ![th[t].s].central = desc[th[t].s].sc,
                            ![th[t].s].live = 0]
    /\ Goto(t, [th[t] EXCEPT !.pc = "install"])
    /\ UNCHANGED <<free, highWater, live, bin, extents, out, cached, creates,
                   does>>

\* install_span succeeded: the span joins its bin.
Join(t) ==
    /\ At(t, "install")
    /\ LET k == desc[th[t].s].sc IN
       bin' = [bin EXCEPT ![k].partial = <<th[t].s>> \o @,
                          ![k].spans = @ + 1,
                          ![k].total = @ + k]
    /\ Goto(t, Idle)
    /\ UNCHANGED <<desc, free, highWater, live, extents, out, cached, creates,
                   does>>

\* install_span ran out of metadata: activate_span clears the bitmap, and
\* create_span returns the slot and the extent.  The state stays Active.
InstallFails(t) ==
    /\ At(t, "install") /\ "fail" \in does
    /\ desc' = [desc EXCEPT ![th[t].s].map = Cleared(@),
                            ![th[t].s].central = 0,
                            ![th[t].s].live = 0]
    /\ free' = <<th[t].s>> \o free
    /\ live' = live - 1
    /\ extents' = extents \ {th[t].s}
    /\ Goto(t, Idle)
    /\ UNCHANGED <<highWater, bin, out, cached, creates, does>>

----------------------------------------------------------------------------
(* remove_batch.                                                           *)

\* The objects of slot s leave its bin b, of which s is the partial head.
Take(k, b, s, n, place) ==
    LET got == Lowest(ActiveBits(desc[s].map) \cap 0..(k - 1), n)
        left == desc[s].central - Cardinality(got)
    IN /\ desc' = [desc EXCEPT
             ![s].map.bits = @ \ got, ![s].central = left,
             ![s].live = @ + Cardinality(got), ![s].place = place]
       /\ bin' = [bin EXCEPT
             ![k] = [b EXCEPT
                !.partial = IF left = 0 THEN Tail(@) ELSE @,
                !.total = @ - Cardinality(got)]]
       /\ out' = out \cup {<<s, i>> : i \in got}

RemoveFromPartial(t, a, k, p, n) ==
    /\ At(t, "idle") /\ ~Resetting(a)
    /\ Matching(k, a, p) # {}
    /\ LET i == Min(Matching(k, a, p))
           s == bin[k].partial[i]
       IN Take(k, [bin[k] EXCEPT !.partial = MovedToFront(@, i)], s, n, desc[s].place)
    /\ UNCHANGED <<free, highWater, live, extents, cached, th, creates, does>>

\* No partial span matches: the head of the empty list, if it is the arena's.
RemoveFromEmpty(t, a, k, p, n) ==
    /\ At(t, "idle") /\ ~Resetting(a)
    /\ Matching(k, a, p) = {}
    /\ bin[k].empty # <<>>
    /\ desc[Head(bin[k].empty)].arena = a
    /\ LET s == Head(bin[k].empty) IN
       Take(k, [bin[k] EXCEPT !.empty = Tail(@), !.partial = <<s>> \o @], s, n,
            IF p = AnyPlace THEN desc[s].place ELSE p)
    /\ UNCHANGED <<free, highWater, live, extents, cached, th, creates, does>>

----------------------------------------------------------------------------
(* The front end, as far as the marks go: a freed object is marked and     *)
(* held; a vended one is unmarked.                                         *)

TryMarkCached(t, s, i) ==
    /\ At(t, "idle") /\ <<s, i>> \in out /\ ~Resetting(desc[s].arena)
    /\ i \notin desc[s].marks.bits
    /\ desc' = [desc EXCEPT ![s].marks.bits = @ \cup {i}]
    /\ out' = out \ {<<s, i>>}
    /\ cached' = cached \cup {<<s, i>>}
    /\ UNCHANGED <<free, highWater, live, bin, extents, th, creates, does>>

UnmarkCached(t, s, i) ==
    /\ At(t, "idle") /\ <<s, i>> \in cached /\ ~Resetting(desc[s].arena)
    /\ desc' = [desc EXCEPT ![s].marks.bits = @ \ {i}]
    /\ cached' = cached \ {<<s, i>>}
    /\ out' = out \cup {<<s, i>>}
    /\ UNCHANGED <<free, highWater, live, bin, extents, th, creates, does>>

----------------------------------------------------------------------------
(* insert_batch.                                                           *)

\* Where the span goes: an emptied one leaves the partial list for the empty
\* list while that has room; one that was exhausted joins the partial list.
Relist(b, s, total, inserted, empty) ==
    IF empty
    THEN [b EXCEPT !.partial = Without(@, s),
                   !.empty = IF Len(b.empty) < MaxEmpty THEN <<s>> \o @ ELSE @]
    ELSE IF total = inserted /\ (b.partial = <<>> \/ Head(b.partial) # s)
         THEN [b EXCEPT !.partial = <<s>> \o @]
         ELSE b

IsEmpty(d) == d.live = 0 /\ d.central = d.sc

Inserted(d, batch) ==
    [d EXCEPT !.map.bits = @ \cup batch, !.marks.bits = @ \ batch,
              !.central = @ + Cardinality(batch \ ActiveBits(d.map)),
              !.live = @ - Cardinality(batch \ ActiveBits(d.map))]

\* Objects of one Active span that the caller holds go back.  When the span is
\* empty and the empty list full, the caller retires it.
InsertBatch(t, s, batch) ==
    /\ At(t, "idle") /\ desc[s].state = "Active"
    /\ ~Resetting(desc[s].arena)
    /\ batch # {} /\ {s} \X batch \subseteq out \cup cached
    /\ LET d == Inserted(desc[s], batch)
           k == desc[s].sc
           n == Cardinality(batch)
       IN /\ desc' = [desc EXCEPT ![s] = d]
          /\ bin' = [bin EXCEPT ![k] =
                [Relist(@, s, d.central, n, IsEmpty(d)) EXCEPT !.total = @ + n]]
          /\ Goto(t, IF IsEmpty(d) /\ Len(bin[k].empty) >= MaxEmpty
                     THEN [pc |-> "retire", s |-> s, arena |-> d.arena,
                           forced |-> FALSE]
                     ELSE Idle)
    /\ out' = out \ ({s} \X batch)
    /\ cached' = cached \ ({s} \X batch)
    /\ UNCHANGED <<free, highWater, live, extents, creates, does>>

----------------------------------------------------------------------------
(* Retirement.                                                             *)

Deactivated(d) ==
    [d EXCEPT !.map = Cleared(@), !.central = 0, !.live = 0,
              !.state = "Released"]

Unlisted(b, s, freed) ==
    [b EXCEPT
       !.partial = Without(@, s),
       !.empty = IF \E i \in 1..Len(b.partial) : b.partial[i] = s THEN @
                 ELSE Without(@, s),
       !.spans = @ - 1,
       !.total = @ - freed]

\* deactivate_span; it asserts that the span is empty (DeactivatesEmpty).
Deactivate(t) ==
    /\ At(t, "retire")
    /\ LET s == th[t].s IN
       /\ bin' = [bin EXCEPT ![desc[s].sc] = Unlisted(@, s, desc[s].central)]
       /\ desc' = [desc EXCEPT ![s] = Deactivated(@)]
    /\ Goto(t, [th[t] EXCEPT !.pc = "reclaim"])
    /\ UNCHANGED <<free, highWater, live, extents, out, cached, creates, does>>

\* reclaim_span_slot: the slot to the stack, the extent to its backing, which
\* refuses a stale reference.
Reclaim(t) ==
    /\ At(t, "reclaim")
    /\ free' = <<th[t].s>> \o free
    /\ live' = live - 1
    /\ extents' = extents \ {th[t].s}
    /\ Goto(t, IF th[t].forced THEN [th[t] EXCEPT !.pc = "drain"] ELSE Idle)
    /\ UNCHANGED <<desc, highWater, bin, out, cached, creates, does>>

Busy(a) == \E t \in Threads : th[t].pc # "idle" /\ th[t].arena = a

\* arena_reset: the arena is quiesced; its pool slots are walked in order.
BeginDrain(t, a) ==
    /\ At(t, "idle") /\ "reset" \in does /\ ~Busy(a)
    /\ Goto(t, [pc |-> "drain", s |-> -1, arena |-> a, forced |-> TRUE,
                upto |-> highWater])
    /\ UNCHANGED <<desc, free, highWater, live, bin, extents, out, cached,
                   creates, does>>

Drains(a, s) == desc[s].state = "Active" /\ desc[s].arena = a

\* force_retire_span on the next span of the arena: its live objects are
\* discarded.
ForceDeactivate(t) ==
    /\ At(t, "drain")
    /\ \E s \in (th[t].s + 1)..(th[t].upto - 1) :
          /\ Drains(th[t].arena, s)
          /\ \A x \in (th[t].s + 1)..(s - 1) : ~Drains(th[t].arena, x)
          /\ bin' = [bin EXCEPT ![desc[s].sc] =
                        Unlisted(@, s, desc[s].central)]
          /\ desc' = [desc EXCEPT ![s] = Deactivated(@)]
          /\ out' = {o \in out : o[1] # s}
          /\ cached' = {o \in cached : o[1] # s}
          /\ Goto(t, [th[t] EXCEPT !.pc = "reclaim", !.s = s])
    /\ UNCHANGED <<free, highWater, live, extents, creates, does>>

EndDrain(t) ==
    /\ At(t, "drain")
    /\ \A s \in (th[t].s + 1)..(th[t].upto - 1) : ~Drains(th[t].arena, s)
    /\ Goto(t, Idle)
    /\ UNCHANGED <<desc, free, highWater, live, bin, extents, out, cached,
                   creates, does>>

----------------------------------------------------------------------------

Create(t) ==
    \/ \E a \in Arenas, k \in Classes, p \in Places : TakeSlot(t, a, k, p)
    \/ \E a \in Arenas, k \in Classes : NoSlot(t, a, k)
    \/ Activate(t) \/ Join(t) \/ InstallFails(t)

Move(t) ==
    \/ \E a \in Arenas, k \in Classes, p \in Places \cup {AnyPlace},
          n \in 1..MaxBatch :
          RemoveFromPartial(t, a, k, p, n) \/ RemoveFromEmpty(t, a, k, p, n)
    \/ \E s \in Slots : \E i \in 0..(Max(Classes) - 1) :
          TryMarkCached(t, s, i) \/ UnmarkCached(t, s, i)
    \/ \E s \in Slots : \E batch \in SUBSET (0..(Max(Classes) - 1)) :
          InsertBatch(t, s, batch)

Retire(t) ==
    \/ Deactivate(t) \/ Reclaim(t) \/ ForceDeactivate(t) \/ EndDrain(t)
    \/ \E a \in Arenas : BeginDrain(t, a)

Next == \E t \in Threads : Create(t) \/ Move(t) \/ Retire(t)

Spec == Init /\ [][Next]_vars

----------------------------------------------------------------------------
(* Properties.                                                             *)

Listed(k) == ToSet(bin[k].partial) \cup ToSet(bin[k].empty)

\* Spans between two steps of an operation of some thread.
Between(pcs) == {th[t].s : t \in {u \in Threads : th[u].pc \in pcs}}

Joined(k) ==
    {s \in Slots : desc[s].state = "Active" /\ desc[s].sc = k
                   /\ s \notin Between({"activate", "install"})
                   /\ s \notin ToSet(free)}

TypeOK ==
    /\ \A s \in Slots : desc[s].state \in {"None", "Active", "Released"}
    /\ highWater \in 0..Cap
    /\ live \in 0..Cap
    /\ extents \subseteq Slots
    /\ \A k \in Classes : bin[k].spans \in Nat /\ bin[k].total \in Nat

FreeObjects(S) == FoldSet(LAMBDA s, n : n + desc[s].central, 0, S)

\* SpanDescriptor::check_invariants_locked: the count is the bitmap's popcount,
\* and what is live and what is free fit in the slab.
SpanCheck(s) ==
    /\ desc[s].central = Cardinality(ActiveBits(desc[s].map))
    /\ desc[s].live + desc[s].central <= desc[s].sc

\* CentralBin::check_invariants: the two lists are as long as they say and
\* acyclic, their spans are of the class and sound, and the totals agree.
BinCheck(k) ==
    /\ Len(bin[k].partial) + Len(bin[k].empty) <= bin[k].spans
    /\ IsInjective(bin[k].partial) /\ IsInjective(bin[k].empty)
    /\ \A s \in Listed(k) : desc[s].sc = k /\ SpanCheck(s)
    /\ \A s \in ToSet(bin[k].partial) : desc[s].central > 0
    /\ \A s \in ToSet(bin[k].empty) : desc[s].live = 0 /\ desc[s].central = k
    /\ FreeObjects(Listed(k)) = bin[k].total

\* Every central-free object is reached from exactly one list of its bin: the
\* debug oracle accepts every bin none of whose spans is being retired, the
\* lists name only spans of the bin, a span with free objects is on a list
\* unless its retirement is under way, and the totals count it until then.
ListsExact ==
    \A k \in Classes :
        /\ Between({"retire"}) \cap Joined(k) = {} => BinCheck(k)
        /\ IsInjective(bin[k].partial \o bin[k].empty)
        /\ Listed(k) \subseteq Joined(k)
        /\ Len(bin[k].empty) <= MaxEmpty
        /\ \A s \in Joined(k) : desc[s].central > 0 =>
              s \in Listed(k) \/ s \in Between({"retire"})
        /\ bin[k].spans = Cardinality(Joined(k))
        /\ bin[k].total = FreeObjects(Joined(k))

\* Section 3 of the span's invariants: the count is the bitmap's popcount, and
\* every object of a joined span is in exactly one place: central-free, with
\* the program, or held by the front end.
Conserved ==
    \A k \in Classes : \A s \in Joined(k) :
        /\ SpanCheck(s)
        /\ desc[s].live + desc[s].central = k
        /\ \A i \in 0..(k - 1) :
              Cardinality({x \in 1..3 :
                 \/ x = 1 /\ i \in desc[s].map.bits
                 \/ x = 2 /\ <<s, i>> \in out
                 \/ x = 3 /\ <<s, i>> \in cached}) = 1

\* A recycled descriptor's bitmaps cover every object of its new class, and no
\* mark of an earlier span survives: the first free of an object the program
\* holds is never taken for a second one.
MarksFresh ==
    \A k \in Classes : \A s \in Joined(k) :
        /\ desc[s].map.cap * WordBits >= k
        /\ desc[s].marks.cap * WordBits >= k
        /\ \A i \in 0..(k - 1) :
              i \in desc[s].marks.bits <=> <<s, i>> \in cached

\* A slot is on the pool's free stack at most once and never while its span is
\* in use, and live counts the others: create_span unwinds everything it took.
PoolWellFormed ==
    /\ IsInjective(free)
    /\ \A k \in Classes : ToSet(free) \cap Listed(k) = {}
    /\ live = highWater - Len(free)

\* No span's extent is lost or returned twice.
ExtentsBalanced ==
    extents = (0..(highWater - 1)) \ ToSet(free)

\* The assertion of deactivate_span ("called on a non-empty span") never fires:
\* nothing touches a span between the report that it is empty and its
\* deactivation.
DeactivatesEmpty ==
    \A t \in Threads : th[t].pc = "retire" =>
        desc[th[t].s].state = "Active" /\ IsEmpty(desc[th[t].s])

\* A reset leaves nothing of the arena behind: no span, no object.
DrainsAllStep ==
    \A t \in Threads :
        (th[t].pc = "drain" /\ th'[t].pc = "idle") =>
           \A s \in Slots : desc[s].state = "None"
              \/ desc[s].arena # th[t].arena \/ desc[s].state = "Released"
              \/ s \in ToSet(free)
DrainsAll == [][DrainsAllStep]_vars
=============================================================================
