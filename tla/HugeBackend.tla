---------------------------- MODULE HugeBackend ----------------------------
(***************************************************************************)
(* The hugepage backend, topo-core/src/huge.rs: the filler that packs      *)
(* small regions into hugepages, the cache of freed whole-hugepage runs,   *)
(* and the release of empty hugepages to the operating system.             *)
(*                                                                         *)
(* Allocation, free, trim and one subrelease each hold the backend's lock  *)
(* for their whole body, so each is one action.  The release loops drop    *)
(* the lock between finding a candidate and acting on it: a releaser is a  *)
(* process of its own, one step per lock hold, interleaved with every      *)
(* other operation.                                                        *)
(*                                                                         *)
(* An address is a page number; hugepage i holds the pages i * PPH up to   *)
(* (i + 1) * PPH - 1.  A bitmap is a set of offsets.  A bin's doubly       *)
(* linked list is a sequence, whose last element is its tail.              *)
(***************************************************************************)
EXTENDS Integers, SequencesExt

CONSTANTS
    Capacity,       \* hugepages in the region
    PPH,            \* PAGES_PER_HUGEPAGE
    CacheSlots,     \* entries of the region cache
    ScanCap,        \* SCAN_CAP, the hugepages one bin's scan may visit
    Hints,          \* the placement hints used, [hotness, lifetime]
    Strides,        \* the alignments asked for, in pages
    RunSizes,       \* the sizes above a hugepage that are asked for, in pages
    Pressures,      \* the pressures under which a client subreleases
    Cooled,         \* the hugepages that clients may mark cold
    Plans,          \* the hugepages that a tick may plan to release
    Budgets         \* the byte budgets of a release, in pages

VARIABLES
    filler,     \* HugePageFiller: the slots, the bins and next_untouched
    cache,      \* RegionCache: one [base, n] per slot, n = 0 when empty
    backed,     \* the pages that the provider has committed
    held,       \* history: the regions that the clients hold
    rel,        \* the releaser's local variables
    released    \* the backend was torn down

vars == <<filler, cache, backed, held, rel, released>>

Hugepages == 0..(Capacity - 1)
Offsets == 0..(PPH - 1)
Cold == 0
Neutral == 1
Hot == 2
DefaultHints == [hotness |-> Neutral, lifetime |-> 0]

-----------------------------------------------------------------------------
(* One hugepage.                                                           *)

Untouched == [live |-> {}, committed |-> {}, released |-> {}, heads |-> {},
              run_len |-> 0, in_run |-> FALSE, hotness |-> Cold, lifetime |-> 0,
              bin |-> "EmptyBacked", touched |-> FALSE]

Used(s) == Cardinality(s.live)
IsFull(s) == Used(s) >= PPH
Join(a, b) == IF a >= b THEN a ELSE b
Run(off, n) == off..(off + n - 1)

ClassifyBand(band, hotness) ==
    CASE band = 0        -> "NearlyEmpty"
      [] band \in {1, 2} -> IF hotness = Cold THEN "ColdSparse" ELSE "Sparse"
      [] band \in {3, 4} -> "Medium"
      [] OTHER           -> IF hotness = Hot THEN "HotDense" ELSE "NearlyFull"

TargetBin(s) ==
    IF s.released # {} THEN "PartialSubreleased"
    ELSE IF s.live = {} THEN "EmptyBacked"
    ELSE IF IsFull(s) THEN IF s.hotness = Hot THEN "HotDense" ELSE "Full"
    ELSE ClassifyBand((Used(s) * 8) \div PPH, s.hotness)

PackingOrder == <<"HotDense", "NearlyFull", "Medium", "Sparse", "ColdSparse",
                  "NearlyEmpty", "PartialSubreleased", "EmptyBacked">>
Bins == Range(PackingOrder) \cup {"Full"}

-----------------------------------------------------------------------------
(* The bin lists: full hugepages at the tail, the others at the head.      *)

BinInsert(f, i, bin) ==
    [f EXCEPT !.slot[i].bin = bin,
              !.bins[bin] = IF IsFull(f.slot[i]) THEN Append(@, i) ELSE <<i>> \o @]
BinRemove(f, i) == [f EXCEPT !.bins[f.slot[i].bin] = SelectSeq(@, LAMBDA j : j # i)]

AtRightEnd(list, i, full) ==
    /\ list # <<>>
    /\ i = IF full THEN Last(list) ELSE Head(list)

Refile(f, i) ==
    IF /\ f.slot[i].bin = TargetBin(f.slot[i])
       /\ AtRightEnd(f.bins[f.slot[i].bin], i, IsFull(f.slot[i]))
    THEN f
    ELSE BinInsert(BinRemove(f, i), i, TargetBin(f.slot[i]))

\* Hugepage i becomes s and is re-filed.
Put(f, i, s) == Refile([f EXCEPT !.slot[i] = s], i)

NewFiller == [slot |-> [i \in Hugepages |-> Untouched],
              bins |-> [b \in Bins |-> <<>>],
              next |-> 0]

-----------------------------------------------------------------------------
(* Placement.                                                              *)

Clear(s, pages, stride) ==
    {off \in {k * stride : k \in Offsets} :
        off + pages <= PPH /\ Run(off, pages) \cap s.live = {}}
Fits(s, pages, stride) == Clear(s, pages, stride) # {}
FindRunAligned(s, pages, stride) == Min(Clear(s, pages, stride))

Gap(a, b) == IF a >= b THEN a - b ELSE b - a
LifetimeMatch(s, hints) ==
    IF s.live = {} THEN 0
    ELSE IF s.lifetime = hints.lifetime THEN 3
    ELSE 0 - 4 * Gap(s.lifetime, hints.lifetime)
BackedFreeAfter(s, pages) == Max({0, Cardinality(s.committed) - Used(s) - pages})

Score(s, hints, off, pages) ==
      Used(s)
    + (IF s.hotness = hints.hotness THEN 4 ELSE 0)
    + LifetimeMatch(s, hints)
    - (IF s.live = {} THEN 3 ELSE 0)
    + (IF Run(off, pages) \subseteq s.committed THEN 2 ELSE 0)
    - (BackedFreeAfter(s, pages) \div 8 + Min({off, 8}))
    - Cardinality(s.released)
FreshScore(hints) == (IF hints.hotness = Neutral THEN 4 ELSE 0) - 3

\* The hugepages of a bin that the scan reaches and that fit the run.
Scanned(list) == {list[k] : k \in 1..Min({Len(list), ScanCap})}
Candidates(f, bin, pages, stride) ==
    {i \in Scanned(f.bins[bin]) : Fits(f.slot[i], pages, stride)}
CandidateScore(f, i, pages, stride, hints) ==
    Score(f.slot[i], hints, FindRunAligned(f.slot[i], pages, stride), pages)

\* The best score, then the lowest base.
BestOf(f, set, pages, stride, hints) ==
    CHOOSE i \in set : \A j \in set :
        LET a == CandidateScore(f, i, pages, stride, hints)
            b == CandidateScore(f, j, pages, stride, hints)
        IN  a > b \/ (a = b /\ i <= j)

\* The densest bin that has a candidate.
FirstBin(f, pages, stride) ==
    LET with == {k \in DOMAIN PackingOrder :
                    Candidates(f, PackingOrder[k], pages, stride) # {}}
    IN  IF with = {} THEN "none" ELSE PackingOrder[Min(with)]

\* next_untouched joins the EmptyBacked bin.
OpenFresh(f) ==
    BinInsert([f EXCEPT !.slot[f.next].touched = TRUE,
                        !.slot[f.next].hotness = Neutral,
                        !.next = @ + 1], f.next, "EmptyBacked")

Carved(s, off, pages, hints) ==
    [s EXCEPT !.live = @ \cup Run(off, pages), !.heads = @ \cup {off},
              !.hotness = Join(@, hints.hotness),
              !.lifetime = Join(@, hints.lifetime)]
Carve(f, i, off, pages, hints) == Put(f, i, Carved(f.slot[i], off, pages, hints))

Nowhere == [ok |-> FALSE]
Placed(f, i, off, pages, hints) ==
    [ok |-> TRUE, filler |-> Carve(f, i, off, pages, hints), hp |-> i, off |-> off,
     commits |-> ~(Run(off, pages) \subseteq f.slot[i].committed)]
PlaceFresh(f, pages, hints) ==
    IF f.next >= Capacity THEN Nowhere
    ELSE Placed(OpenFresh(f), f.next, 0, pages, hints)
PlaceBest(f, i, pages, stride, hints) ==
    IF /\ CandidateScore(f, i, pages, stride, hints) < FreshScore(hints)
       /\ f.next < Capacity
    THEN PlaceFresh(f, pages, hints)
    ELSE Placed(f, i, FindRunAligned(f.slot[i], pages, stride), pages, hints)
PlaceIn(f, bin, pages, stride, hints) ==
    IF bin = "none" THEN PlaceFresh(f, pages, hints)
    ELSE PlaceBest(f, BestOf(f, Candidates(f, bin, pages, stride), pages, stride, hints),
                   pages, stride, hints)

Place(f, pages, stride, hints) ==
    PlaceIn(f, FirstBin(f, pages, stride), pages, stride, hints)

-----------------------------------------------------------------------------
(* Giving back a packed region, or its tail.                               *)

MarkCommitted(f, i, run) ==
    Put(f, i, [f.slot[i] EXCEPT !.committed = @ \cup run, !.released = @ \ run])

\* [off, off + pages) is one packed region of s, whole.
IsRegion(s, off, pages) ==
    /\ s.touched /\ off + pages <= PPH
    /\ Run(off, pages) \subseteq s.live
    /\ ~s.in_run /\ off \in s.heads
    /\ Run(off + 1, pages - 1) \cap s.heads = {}
    /\ ~(off + pages < PPH /\ off + pages \in s.live /\ off + pages \notin s.heads)

\* An emptied hugepage forgets the hints of what it held.
Vacated(s) ==
    IF s.live = {} THEN [s EXCEPT !.hotness = Neutral, !.lifetime = 0] ELSE s
FreePacked(f, i, off, pages) ==
    Put(f, i, Vacated([f.slot[i] EXCEPT !.live = @ \ Run(off, pages),
                                        !.heads = @ \ {off}]))
Trim(f, i, off, old, new) ==
    Put(f, i, [f.slot[i] EXCEPT !.live = @ \ Run(off + new, old - new)])

-----------------------------------------------------------------------------
(* Whole-hugepage runs.                                                    *)

AllEmpty(f, start, n) == \A j \in Run(start, n) : f.slot[j].live = {}
ConsecutiveEmpty(f, n) ==
    {start \in Hugepages : start + n <= f.next /\ AllEmpty(f, start, n)}

\* Opens hugepage j when it is untouched, and takes all of it.
TakeHugepage(f, j) ==
    Carve(IF f.slot[j].touched THEN f
          ELSE BinInsert([f EXCEPT !.slot[j].touched = TRUE], j, "EmptyBacked"),
          j, 0, PPH, DefaultHints)
MarkRun(f, start, n) ==
    [f EXCEPT !.slot = [j \in Hugepages |->
        IF j \in Run(start, n)
        THEN [f.slot[j] EXCEPT !.in_run = TRUE,
                               !.run_len = IF j = start THEN n ELSE 0]
        ELSE f.slot[j]]]
TakeRun(f, start, n) ==
    [ok |-> TRUE, start |-> start, n |-> n,
     filler |-> MarkRun(FoldLeft(TakeHugepage, f, [k \in 1..n |-> start + k - 1]),
                        start, n),
     commits |-> \E j \in Run(start, n) : f.slot[j].committed # Offsets]

ReserveHugepages(f, n) ==
    IF ConsecutiveEmpty(f, n) # {} THEN TakeRun(f, Min(ConsecutiveEmpty(f, n)), n)
    ELSE IF f.next + n > Capacity THEN Nowhere
    ELSE TakeRun([f EXCEPT !.next = @ + n], f.next, n)

MayReserveAt(f, start, n) ==
    /\ start + n <= Capacity
    /\ \A j \in Run(start, n) : f.slot[j].touched /\ f.slot[j].live = {}

MarkRunCommitted(f, start, n) ==
    FoldLeft(LAMBDA g, j : Put(g, j, [g.slot[j] EXCEPT !.committed = g.slot[j].live,
                                                       !.released = {}]),
             f, [k \in 1..n |-> start + k - 1])

IsRun(f, start, n) ==
    /\ start + n <= Capacity /\ f.slot[start].run_len = n
    /\ \A j \in Run(start, n) :
           f.slot[j].touched /\ f.slot[j].in_run /\ IsFull(f.slot[j])
FreeHugepages(f, start, n) ==
    FoldLeft(LAMBDA g, j :
                 Put(g, j, Vacated([g.slot[j] EXCEPT !.live = {}, !.heads = {},
                                        !.in_run = FALSE, !.run_len = 0])),
             f, [k \in 1..n |-> start + k - 1])

-----------------------------------------------------------------------------
(* The region cache.                                                       *)

HugepageOf(page) == page \div PPH
OffsetOf(page) == page % PPH
NoEntry == [base |-> 0, n |-> 0]
Matching(c, n) == {k \in DOMAIN c : c[k].n = n}
\* The entries of n hugepages whose hugepages are still empty.
Warm(c, f, n) == {k \in Matching(c, n) : MayReserveAt(f, HugepageOf(c[k].base), n)}
\* take gives the first warm entry, and drops the stale ones it meets.
Taken(c, f, n) ==
    [k \in DOMAIN c |->
        IF /\ k \in Matching(c, n)
           /\ Warm(c, f, n) # {} => k <= Min(Warm(c, f, n))
        THEN NoEntry ELSE c[k]]
Store(c, base, n) ==
    LET empty == {k \in DOMAIN c : c[k].n = 0}
    IN  IF empty = {} THEN c ELSE [c EXCEPT ![Min(empty)] = [base |-> base, n |-> n]]

TakeOrReserve(c, f, n) ==
    IF Warm(c, f, n) # {} THEN TakeRun(f, HugepageOf(c[Min(Warm(c, f, n))].base), n)
    ELSE ReserveHugepages(f, n)

-----------------------------------------------------------------------------
(* Subrelease: a run without a live page, all of it committed, of a cold   *)
(* or sparse hugepage unless the pressure is high.                         *)

MaySubrelease(s, off, pages, pressure) ==
    /\ s.touched /\ off + pages <= PPH
    /\ Run(off, pages) \cap s.live = {}
    /\ Run(off, pages) \subseteq s.committed
    /\ \/ pressure
       \/ /\ \/ s.bin \in {"ColdSparse", "Sparse", "NearlyEmpty", "EmptyBacked"}
             \/ s.hotness = Cold
          /\ pages >= Used(s) \div 8
Subreleased(f, i, run) ==
    Put(f, i, [f.slot[i] EXCEPT !.committed = @ \ run, !.released = @ \cup run])

-----------------------------------------------------------------------------
(* The backend's operations, one lock hold each.  The provider may  *)
(* refuse a commit, which it is asked for when something is uncommitted;   *)
(* ok is its answer to a revocation and decommit.                          *)

Idle == [at |-> "idle"]
Init ==
    /\ filler = NewFiller
    /\ cache = [k \in 1..CacheSlots |-> NoEntry]
    /\ backed = {} /\ held = {} /\ rel = Idle /\ released = FALSE

PagesAt(i, run) == {i * PPH + off : off \in run}
Hugepages_(pages) == (pages + PPH - 1) \div PPH
Region(base, pages) == [base |-> base, pages |-> pages]

AllocatePacked(pages, stride, hints) ==
    /\ ~released
    /\ \E p \in {Place(filler, pages, stride, hints)} :
        /\ p.ok
        /\ \/ /\ filler' = MarkCommitted(p.filler, p.hp, Run(p.off, pages))
              /\ backed' = backed \cup PagesAt(p.hp, Run(p.off, pages))
              /\ held' = held \cup {Region(p.hp * PPH + p.off, pages)}
           \/ /\ p.commits
              /\ filler' = FreePacked(p.filler, p.hp, p.off, pages)
              /\ UNCHANGED <<backed, held>>
    /\ UNCHANGED <<cache, rel, released>>

AllocateRun(pages) ==
    /\ ~released
    /\ cache' = Taken(cache, filler, Hugepages_(pages))
    /\ \E r \in {TakeOrReserve(cache, filler, Hugepages_(pages))} :
        \/ /\ ~r.ok
           /\ UNCHANGED <<filler, backed, held>>
        \/ /\ r.ok
           /\ filler' = MarkRunCommitted(r.filler, r.start, r.n)
           /\ backed' = backed \cup Run(r.start * PPH, r.n * PPH)
           /\ held' = held \cup {Region(r.start * PPH, pages)}
        \/ /\ r.ok /\ r.commits
           /\ filler' = FreeHugepages(r.filler, r.start, r.n)
           /\ UNCHANGED <<backed, held>>
    /\ UNCHANGED <<rel, released>>

\* free_region takes only what is one region, whole.
MayFreePacked(base, pages) ==
    pages <= PPH /\ IsRegion(filler.slot[HugepageOf(base)], OffsetOf(base), pages)
MayFreeRun(base, pages) ==
    /\ pages > PPH /\ OffsetOf(base) = 0
    /\ IsRun(filler, HugepageOf(base), Hugepages_(pages))

FreeRegion(base, pages) ==
    /\ ~released
    /\ \/ /\ MayFreePacked(base, pages)
          /\ filler' = FreePacked(filler, HugepageOf(base), OffsetOf(base), pages)
          /\ UNCHANGED cache
       \/ /\ MayFreeRun(base, pages)
          /\ filler' = FreeHugepages(filler, HugepageOf(base), Hugepages_(pages))
          /\ cache' = Store(cache, base, Hugepages_(pages))
    /\ held' = held \ {Region(base, pages)}
    /\ UNCHANGED <<backed, rel, released>>

TrimRegion(region, pages) ==
    /\ ~released /\ pages < region.pages /\ region.pages <= PPH
    /\ IsRegion(filler.slot[HugepageOf(region.base)], OffsetOf(region.base), region.pages)
    /\ filler' = Trim(filler, HugepageOf(region.base), OffsetOf(region.base),
                      region.pages, pages)
    /\ held' = (held \ {region}) \cup {Region(region.base, pages)}
    /\ UNCHANGED <<cache, backed, rel, released>>

\* Mutant: a refused decommit leaves the run filed as released.
KeepsReleasedOnFailure(i, run, ok) ==
    /\ filler' = Subreleased(filler, i, run)
    /\ backed' = IF ok THEN backed \ PagesAt(i, run) ELSE backed

\* A refused revocation or decommit files the run back as committed.
SubreleaseRun(i, run, ok) ==
    IF ok THEN /\ filler' = Subreleased(filler, i, run)
               /\ backed' = backed \ PagesAt(i, run)
    ELSE /\ filler' = MarkCommitted(Subreleased(filler, i, run), i, run)
         /\ UNCHANGED backed

Subrelease(i, off, pages, pressure, ok) ==
    /\ ~released
    /\ MaySubrelease(filler.slot[i], off, pages, pressure)
    /\ SubreleaseRun(i, Run(off, pages), ok)
    /\ UNCHANGED <<cache, held, rel, released>>

MarkCold(i) ==
    /\ filler.slot[i].touched
    /\ filler' = Put(filler, i, [filler.slot[i] EXCEPT !.hotness = Cold])
    /\ UNCHANGED <<cache, backed, held, rel, released>>

\* &mut self: no other operation is running, and the clients are done with
\* their regions.  What the filler says is never read again.
Teardown ==
    /\ ~released /\ rel = Idle
    /\ released' = TRUE
    /\ cache' = [k \in DOMAIN cache |-> NoEntry]
    /\ filler' = NewFiller /\ backed' = {} /\ held' = {}
    /\ UNCHANGED rel

-----------------------------------------------------------------------------
(* The releaser.                                                           *)

EmptyBacked(f, i) == f.slot[i].touched /\ f.slot[i].live = {} /\ f.slot[i].committed # {}
EmptyBackedHugepages(f) == {i \in Hugepages : EmptyBacked(f, i)}
NextEmptyBacked(f, from) == {i \in EmptyBackedHugepages(f) : i >= from}
CommittedFrom(f, i, from) == {off \in f.slot[i].committed : off >= from}
NextCommittedRun(f, i, from) ==
    LET first == Min(CommittedFrom(f, i, from))
        past == {off \in first..PPH : off \notin f.slot[i].committed}
    IN  [off |-> first, pages |-> Min(past) - first]

\* The loops' locals.  The byte budget counts pages.  Between two lock holds
\* a step touches only these, so it ends at the next lock.
Releasing(kind, reserve, max, budget) ==
    [at |-> "scan", kind |-> kind, reserve |-> reserve, max |-> max, budget |-> budget,
     releases |-> 0, kept |-> 0, from |-> 0, done |-> 0,
     search |-> 0, off |-> 0, pages |-> 0]
Remaining(r) == IF r.kind = "bytes" THEN r.budget - r.done ELSE PPH

\* The controller's plan is any number of hugepages; reserve_hp is computed
\* from the number of empty hugepages now.
ReleaseTick(plan) ==
    /\ ~released /\ rel = Idle
    /\ rel' = Releasing("excess",
                        Max({0, Cardinality(EmptyBackedHugepages(filler)) - plan}),
                        plan, 0)
    /\ UNCHANGED <<filler, cache, backed, held, released>>

Skips(r, i) ==
    \/ r.kind = "excess" /\ r.kept < r.reserve
    \/ r.kind = "bytes" /\ Cardinality(filler.slot[i].committed) > Remaining(r)
\* Mutant: a hugepage that is skipped is looked at again.
RevisitsSkipped(r, i) ==
    IF Skips(r, i)
    THEN [r EXCEPT !.kept = IF r.kind = "excess" THEN @ + 1 ELSE @]
    ELSE [r EXCEPT !.from = i + 1, !.at = "runs"]

\* from is past the hugepage that is being released.
Visited(r, i) ==
    IF Skips(r, i)
    THEN [r EXCEPT !.from = i + 1, !.kept = IF r.kind = "excess" THEN @ + 1 ELSE @]
    ELSE [r EXCEPT !.from = i + 1, !.at = "runs"]
ScanFrom(r) ==
    IF NextEmptyBacked(filler, r.from) = {} THEN Idle
    ELSE Visited(r, Min(NextEmptyBacked(filler, r.from)))

Scan ==
    /\ rel.at = "scan"
    /\ rel' = ScanFrom(rel)
    /\ UNCHANGED <<filler, cache, backed, held, released>>
ReleaseWithinBytes(budget) ==
    /\ ~released /\ rel = Idle
    /\ rel' = ScanFrom(Releasing("bytes", 0, 0, budget))
    /\ UNCHANGED <<filler, cache, backed, held, released>>

\* On to the next hugepage, unless this was the last that the plan allows.
Left(r) ==
    IF r.kind = "bytes" THEN [r EXCEPT !.at = "scan", !.search = 0]
    ELSE IF r.releases + 1 >= r.max THEN Idle
    ELSE [r EXCEPT !.at = "scan", !.search = 0, !.releases = @ + 1]

FoundRun(r, run) ==
    [r EXCEPT !.at = "sub", !.search = run.off + run.pages, !.off = run.off,
              !.pages = Min({run.pages, Remaining(r)})]

FindRun ==
    /\ rel.at = "runs"
    /\ rel' = IF CommittedFrom(filler, rel.from - 1, rel.search) = {} THEN Left(rel)
              ELSE FoundRun(rel, NextCommittedRun(filler, rel.from - 1, rel.search))
    /\ UNCHANGED <<filler, cache, backed, held, released>>

\* The hugepage is done with when the budget or its pages are used up.
Resumed(r) ==
    IF Remaining(r) <= 0 \/ r.search >= PPH THEN Left(r) ELSE r
Counted(r, ok) ==
    [r EXCEPT !.at = "runs", !.off = 0, !.pages = 0,
              !.done = IF ok /\ r.kind = "bytes" THEN @ + r.pages ELSE @]

\* The run may have been taken, or released, since the lock was dropped.
ReleaseRun(ok) ==
    /\ rel.at = "sub"
    /\ IF MaySubrelease(filler.slot[rel.from - 1], rel.off, rel.pages, TRUE)
       THEN SubreleaseRun(rel.from - 1, Run(rel.off, rel.pages), ok)
       ELSE ~ok /\ UNCHANGED <<filler, backed>>
    /\ rel' = Resumed(Counted(rel, ok))
    /\ UNCHANGED <<cache, held, released>>

Release == Scan \/ FindRun \/ \E ok \in BOOLEAN : ReleaseRun(ok)

-----------------------------------------------------------------------------
Next ==
    \/ \E pages \in 1..PPH, stride \in Strides, hints \in Hints :
           AllocatePacked(pages, stride, hints)
    \/ \E pages \in RunSizes : AllocateRun(pages)
    \/ \E region \in held : FreeRegion(region.base, region.pages)
    \/ \E region \in held : \E pages \in 1..PPH : TrimRegion(region, pages)
    \/ \E i \in Hugepages : \E off \in Offsets : \E pages \in 1..PPH :
           \E pressure \in Pressures, ok \in BOOLEAN : Subrelease(i, off, pages, pressure, ok)
    \/ \E i \in Cooled : MarkCold(i)
    \/ Teardown
    \/ \E plan \in Plans : ReleaseTick(plan)
    \/ \E budget \in Budgets : ReleaseWithinBytes(budget)
    \/ Release

Spec == Init /\ [][Next]_vars

-----------------------------------------------------------------------------
(* Statistics.                                                             *)

SumOver(S, Op(_)) == FoldSet(LAMBDA x, acc : acc + Op(x), 0, S)
Occupied(f) == {i \in Hugepages : f.slot[i].touched /\ f.slot[i].live # {}}
Vacant(f) == {i \in Hugepages : f.slot[i].touched /\ f.slot[i].live = {}}
Intact(f) == {i \in Occupied(f) : f.slot[i].released = {}}

Coverage(f) ==
    LET live(i) == Used(f.slot[i])
        committed(i) == Cardinality(f.slot[i].committed)
        gone(i) == Cardinality(f.slot[i].released)
        spare(i) == committed(i) - live(i)
    IN  [live_total |-> SumOver(Occupied(f), live),
         on_intact |-> SumOver(Intact(f), live),
         on_partial |-> SumOver(Occupied(f) \ Intact(f), live),
         partial_subreleased |-> SumOver(Occupied(f), gone),
         fragmentation |-> SumOver(Occupied(f), spare),
         empty_backed |-> SumOver(Vacant(f), committed),
         empty_released |-> SumOver(Vacant(f), gone)]

\* What state_bytes reports; reserved is a saturating difference.
StateBytes(c) ==
    [active |-> c.live_total,
     dirty |-> c.fragmentation + c.empty_backed,
     gone |-> c.empty_released + c.partial_subreleased]

-----------------------------------------------------------------------------
(* Properties.                                                             *)

\* Slots, bins and cache entries stay within their types, and the slots past
\* next_untouched are those that were never touched.
TypeOK ==
    /\ filler.next \in 0..Capacity
    /\ \A i \in Hugepages :
           /\ filler.slot[i].live \cup filler.slot[i].committed
                  \cup filler.slot[i].released \subseteq Offsets
           /\ filler.slot[i].run_len \in 0..Capacity
           /\ filler.slot[i].touched <=> i < filler.next
           /\ ~filler.slot[i].touched => filler.slot[i] = Untouched
    /\ \A k \in DOMAIN cache :
           cache[k].base \in 0..(Capacity * PPH - 1) /\ cache[k].n \in 0..Capacity

\* The filler's own oracle.
CheckInvariants ==
    /\ \A i \in Hugepages : LET s == filler.slot[i] IN
           /\ s.heads \subseteq s.live /\ s.live \subseteq s.committed
           /\ s.committed \cap s.released = {}
           /\ s.in_run => IsFull(s)
           /\ s.run_len # 0 => s.in_run
           /\ s.touched => s.bin = TargetBin(s)
    /\ \A b \in Bins : LET list == filler.bins[b] IN
           /\ Range(list) = {i \in Hugepages : filler.slot[i].touched
                                               /\ filler.slot[i].bin = b}
           /\ Len(list) = Cardinality(Range(list))
           /\ \A x, y \in DOMAIN list :
                  x < y /\ IsFull(filler.slot[list[x]]) => IsFull(filler.slot[list[y]])

\* check_invariants, which every operation asserts before it drops the lock,
\* holds then: the bitmaps agree, a run's hugepages are full, every touched
\* hugepage is in exactly the bin that its occupancy implies, and in each bin
\* the hugepages that can still fit a run come before the full ones.
WellFiled == CheckInvariants

Extent(region) ==
    IF region.pages <= PPH THEN Run(region.base, region.pages)
    ELSE Run(region.base, Hugepages_(region.pages) * PPH)

\* No two held regions share a page, and every page of every held region is
\* backed, whatever the releaser and the region cache did meanwhile (H-005: a
\* live page is never decommitted).
LiveRegionsBacked ==
    \A r \in held :
        /\ Extent(r) \subseteq backed
        /\ \A q \in held : q # r => Extent(r) \cap Extent(q) = {}

\* The live bits are exactly the pages of the held regions: no page is lost to
\* a failed commit, a trim or a stale cache entry.
NoPageLost ==
    ~released => UNION {Extent(r) : r \in held}
                     = UNION {PagesAt(i, filler.slot[i].live) : i \in Hugepages}

\* The committed bits say what the provider has committed, after a refused
\* commit, revocation or decommit as well.
CommittedIsBacked ==
    ~released => backed = UNION {PagesAt(i, filler.slot[i].committed) : i \in Hugepages}

\* free_region takes a base and a length exactly when they are one allocation:
\* never a part of a region, two of them, an interior page, or a run by another
\* number of hugepages.
FreesExactRegions ==
    ~released => \A base \in 0..(Capacity * PPH - 1), pages \in 1..(Capacity * PPH) :
        (MayFreePacked(base, pages) \/ MayFreeRun(base, pages))
            <=> \E r \in held :
                    /\ r.base = base
                    /\ IF pages <= PPH THEN r.pages = pages
                       ELSE r.pages > PPH /\ Hugepages_(r.pages) = Hugepages_(pages)

\* place fails only when no hugepage, touched or not, has an aligned free run
\* within reach of the scan.  What is out of reach lies behind SCAN_CAP hugepages
\* of its bin that have room, though not for this request: the full ones, filed at
\* the tail, hide nothing, and one page is found wherever one is free.
OutOfReach(i) ==
    LET list == filler.bins[filler.slot[i].bin]
        roomy(k) == ~IsFull(filler.slot[list[k]])
    IN  \E n \in DOMAIN list :
            list[n] = i /\ Cardinality({k \in 1..(n - 1) : roomy(k)}) >= ScanCap
PlacesWhereItFits ==
    \A pages \in 1..PPH, stride \in Strides, i \in Hugepages :
        Fits(filler.slot[i], pages, stride) =>
            \/ Place(filler, pages, stride, DefaultHints).ok
            \/ filler.slot[i].touched /\ OutOfReach(i) /\ pages * stride > 1

\* The byte-budgeted release never returns more than its budget, although the
\* hugepages it looks at change between its lock holds.
BudgetKept == rel # Idle /\ rel.kind = "bytes" => rel.done <= rel.budget

\* The coverage report adds up: the live bytes are the clients', and active and
\* dirty bytes together are exactly the committed ones, so that state_bytes
\* never saturates.
CoverageReconciles ==
    ~released =>
        LET c == Coverage(filler)
            b == StateBytes(c)
            size(r) == Cardinality(Extent(r))
        IN  /\ c.live_total = SumOver(held, size)
            /\ c.on_intact + c.on_partial = c.live_total
            /\ b.active + b.dirty = Cardinality(backed)
            /\ b.active + b.dirty + b.gone <= Capacity * PPH

\* A release that has begun ends, however often the clients empty and refill the
\* hugepages behind it: every step of it takes it further.
Progress(r) ==
    (2 * PPH + 3) * r.from
      + CASE r.at = "scan" -> 2 * PPH + 2
          [] r.at = "runs" -> 2 * r.search
          [] OTHER -> 2 * r.search - 1
ReleaseAdvancesStep ==
    rel # Idle /\ rel' # rel => rel' = Idle \/ Progress(rel') > Progress(rel)

\* The back end as a whole.
RegionsSound ==
    /\ TypeOK /\ WellFiled /\ LiveRegionsBacked /\ NoPageLost /\ CommittedIsBacked
    /\ FreesExactRegions /\ PlacesWhereItFits /\ BudgetKept /\ CoverageReconciles
=============================================================================
