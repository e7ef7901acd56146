---------------------------- MODULE FreePatterns ----------------------------
(***************************************************************************)
(* What the bytes of a small object hold on its way through the allocator  *)
(* (harden.rs and its callers): hardened builds write FREE_PATTERN over    *)
(* freed memory and verify it before they hand the object out again, and   *)
(* slabs of a non-PUBLIC arena are zeroed before another arena can get     *)
(* their backing.                                                          *)
(*                                                                         *)
(* One slab travels between the arenas.  A fill and the publication that   *)
(* follows it are two steps wherever no lock covers both.  The program may *)
(* write to an object after its free; that is what the pattern is for.     *)
(* Large objects carry their pattern in ExtentMap and LargeObjects.        *)
(***************************************************************************)
EXTENDS Naturals, FiniteSets

CONSTANTS Threads,
          Objects,      \* the objects of the slab
          Arenas,
          Default,      \* ArenaId::DEFAULT, the only cacheable arena
          Labelled,     \* the arenas whose label is not PUBLIC
          Builds,       \* sets of compiled features to choose from
          MaxLate,      \* bound: writes after a free
          MaxSpans,     \* bound: spans created
          Nobody

VARIABLES build,        \* subset of {"junk", "quarantine", "scrub"}
          owner,        \* the arena of the slab's span, or Nobody
          bytes,        \* object -> what its memory holds
          place,        \* object -> where it is
          th,           \* thread -> [pc, o]
          aborted,      \* corruption_abort was called
          late,         \* history: objects written while they waited for reuse
          writes,       \* history: writes after a free
          overtaken,    \* history: a span went while an entry evicted from the ring,
                        \* one of its objects, was still in a thread's hands
          spans

vars == <<build, owner, bytes, place, th, aborted, late, writes, overtaken, spans>>

Junk == "junk" \in build
Idle == [pc |-> "idle", o |-> Nobody]
At(t, pc) == ~aborted /\ th[t].pc = pc
Goto(t, pc, o) == th' = [th EXCEPT ![t] = [pc |-> pc, o |-> o]]
Put(o, p) == place' = [place EXCEPT ![o] = p]
WaitsForReuse(o) == place[o] \in {"central", "cached", "ring"}
Cacheable == owner = Default

\* What the program writes into an object of the slab.
Data == IF owner \in Labelled THEN "secret" ELSE "user"

Init ==
    /\ build \in Builds
    /\ owner = Nobody
    /\ bytes = [o \in Objects |-> "zero"]
    /\ place = [o \in Objects |-> "none"]
    /\ th = [t \in Threads |-> Idle]
    /\ aborted = FALSE /\ late = {} /\ writes = 0 /\ spans = 0
    /\ overtaken = FALSE

-----------------------------------------------------------------------------
(* harden.rs *)

FillOnAlloc(old) == IF Junk THEN "alloc" ELSE old

FillOnFree(old) == IF Junk THEN "free" ELSE old

FillFreshSlab(b) == [o \in Objects |-> FillOnFree(b[o])]

VerifyFreePattern(o) == Junk => bytes[o] = "free"

Scrub(b) == [o \in Objects |-> "zero"]

MustScrubForRelabel(a) == a \in Labelled

ScrubOnRelease(a) == "scrub" \in build \/ MustScrubForRelabel(a)

-----------------------------------------------------------------------------
(* Spans *)

CreateSpan(t, a) ==
    /\ At(t, "idle") /\ owner = Nobody /\ spans < MaxSpans
    /\ spans' = spans + 1 /\ owner' = a
    /\ bytes' = FillFreshSlab(bytes)
    /\ place' = [o \in Objects |-> "central"]
    /\ late' = {}
    /\ UNCHANGED <<build, th, aborted, writes, overtaken>>

\* The backing goes back to the shared span extents, which keep the pages or
\* decommit them.
Reclaim(t) ==
    /\ owner' = Nobody
    /\ place' = [o \in Objects |-> "none"]
    /\ \E left \in {IF ScrubOnRelease(owner) THEN Scrub(bytes) ELSE bytes} :
          \E kept \in BOOLEAN : bytes' = IF kept THEN left ELSE Scrub(left)
    /\ Goto(t, "idle", Nobody)
    /\ UNCHANGED <<build, aborted, late, writes, spans>>

RetireSpan(t) == At(t, "retire") /\ Reclaim(t) /\ UNCHANGED overtaken

\* Whether o is the last object to come back; the span then may be cached as an
\* empty one, or is unlinked and the caller retires it.
LastBack(o) == \A p \in Objects \ {o} : place[p] = "central"

AfterInsert(t, o, back) ==
    \/ Put(o, "central") /\ Goto(t, back, Nobody)
    \/ /\ LastBack(o)
       /\ place' = [p \in Objects |-> "retiring"]
       /\ Goto(t, "retire", Nobody)

\* drain_arena of an explicit arena, after it has drained the quarantine: no
\* allocation or free of its objects is under way (its precondition), and the live
\* ones go with their span.  An entry that another thread's free has evicted from
\* the ring, and not yet returned, is in nobody's way.
InDrain(t) == th[t].pc \in {"drain", "return"}
ForceRetire(t) ==
    /\ At(t, "idle") /\ owner \in Arenas \ {Default}
    /\ \A o \in Objects : place[o] \in {"central", "held", "freed"}
    /\ \A u \in Threads : th[u].o # Nobody => InDrain(u)
    /\ overtaken' = (overtaken \/ \E u \in Threads : InDrain(u))
    /\ Reclaim(t)

-----------------------------------------------------------------------------
(* Allocation *)

RemoveBatch(t, o) ==
    /\ At(t, "idle") /\ place[o] = "central"
    /\ Put(o, "taken") /\ Goto(t, "verify", o)
    /\ UNCHANGED <<build, owner, bytes, aborted, late, writes, overtaken, spans>>

ClaimCachedObject(t, o) ==
    /\ At(t, "idle") /\ place[o] = "cached"
    /\ Put(o, "taken") /\ Goto(t, "verify", o)
    /\ UNCHANGED <<build, owner, bytes, aborted, late, writes, overtaken, spans>>

HandOutObject(t) ==
    /\ At(t, "verify")
    /\ IF VerifyFreePattern(th[t].o)
       THEN Goto(t, "fill", th[t].o) /\ UNCHANGED aborted
       ELSE aborted' = TRUE /\ UNCHANGED th
    /\ UNCHANGED <<build, owner, bytes, place, late, writes, overtaken, spans>>

\* The tail of allocate_in: zeroing when asked for, the alloc pattern otherwise.
FillAllocated(t, zero) ==
    /\ At(t, "fill")
    /\ bytes' = [bytes EXCEPT ![th[t].o] = IF zero THEN "zero" ELSE FillOnAlloc(@)]
    /\ Put(th[t].o, "held") /\ Goto(t, "idle", Nobody)
    /\ UNCHANGED <<build, owner, aborted, late, writes, overtaken, spans>>

\* The program uses what it holds.
Write(o) ==
    /\ ~aborted /\ place[o] = "held"
    /\ bytes' = [bytes EXCEPT ![o] = Data]
    /\ UNCHANGED <<build, owner, place, th, aborted, late, writes, overtaken, spans>>

\* The program writes through a pointer that it has freed.
WriteLate(o) ==
    /\ ~aborted /\ writes < MaxLate
    /\ WaitsForReuse(o) \/ place[o] = "freed"
    /\ bytes' = [bytes EXCEPT ![o] = Data]
    /\ writes' = writes + 1
    /\ late' = IF WaitsForReuse(o) THEN late \cup {o} ELSE late
    /\ UNCHANGED <<build, owner, place, th, aborted, overtaken, spans>>

-----------------------------------------------------------------------------
(* Frees *)

Route == IF Cacheable THEN "push" ELSE "insert"

\* free_small_screened: the quarantine is asked first when it is compiled in,
\* and its switch may be off; the cache may be bypassed.
Free(t, o) ==
    /\ At(t, "idle") /\ place[o] = "held"
    /\ \E next \in {Route, "insert"} \cup (IF "quarantine" \in build THEN {"hold"} ELSE {}) :
          Goto(t, next, o)
    /\ Put(o, "freed")
    /\ UNCHANGED <<build, owner, bytes, aborted, late, writes, overtaken, spans>>

\* The fill of maybe_quarantine_small, under the span lock.
HoldFill(t) ==
    /\ At(t, "hold")
    /\ bytes' = [bytes EXCEPT ![th[t].o] = FillOnFree(@)]
    /\ Goto(t, "offer", th[t].o)
    /\ UNCHANGED <<build, owner, place, aborted, late, writes, overtaken, spans>>

OfferHeld(t) ==
    /\ At(t, "offer")
    /\ Put(th[t].o, "ring") /\ Goto(t, "idle", Nobody)
    /\ UNCHANGED <<build, owner, bytes, aborted, late, writes, overtaken, spans>>

OfferDeclined(t) ==
    /\ At(t, "offer")
    /\ Goto(t, Route, th[t].o)
    /\ UNCHANGED <<build, owner, bytes, place, aborted, late, writes, overtaken, spans>>

\* free_small_cached: the fill, then the push, which may be declined.
PushFill(t) ==
    /\ At(t, "push")
    /\ bytes' = [bytes EXCEPT ![th[t].o] = FillOnFree(@)]
    /\ Goto(t, "pushing", th[t].o)
    /\ UNCHANGED <<build, owner, place, aborted, late, writes, overtaken, spans>>

Push(t) ==
    /\ At(t, "pushing")
    /\ \/ Put(th[t].o, "cached") /\ Goto(t, "idle", Nobody)
       \/ Goto(t, "insert", th[t].o) /\ UNCHANGED place
    /\ UNCHANGED <<build, owner, bytes, aborted, late, writes, overtaken, spans>>

\* insert_batch_scrubbing: nothing is inserted into a span that is not active, or
\* over a bit that is set.
InsertBatchScrubbing(t) ==
    LET o == th[t].o IN
    /\ At(t, "insert") \/ At(t, "return")
    /\ IF place[o] \in {"none", "retiring", "central"}
       THEN Goto(t, "idle", Nobody) /\ UNCHANGED <<bytes, place>>
       ELSE bytes' = [bytes EXCEPT ![o] = FillOnFree(@)] /\ AfterInsert(t, o, "idle")
    /\ UNCHANGED <<build, owner, aborted, late, writes, overtaken, spans>>

\* An entry leaves the ring: evicted by another free, or drained.
Evict(t, o) ==
    /\ At(t, "idle") /\ place[o] = "ring"
    /\ Put(o, "freed") /\ Goto(t, "drain", o)
    /\ UNCHANGED <<build, owner, bytes, aborted, late, writes, overtaken, spans>>

DrainOne(t) ==
    /\ At(t, "drain")
    /\ IF VerifyFreePattern(th[t].o)
       THEN Goto(t, "return", th[t].o) /\ UNCHANGED aborted
       ELSE aborted' = TRUE /\ UNCHANGED th
    /\ UNCHANGED <<build, owner, bytes, place, late, writes, overtaken, spans>>

-----------------------------------------------------------------------------
(* The caches between a free and the next allocation *)

Refill(t, o) ==
    /\ At(t, "idle") /\ place[o] = "central" /\ Cacheable
    /\ Put(o, "cached")
    /\ UNCHANGED <<build, owner, bytes, th, aborted, late, writes, overtaken, spans>>

\* Mutant: the flush inserts like a free.
FlushFills(o) == [bytes EXCEPT ![o] = FillOnFree(@)]

\* insert_batch, the form that writes nothing.
Flushed(o) == bytes

Flush(t, o) ==
    /\ At(t, "idle") /\ place[o] = "cached"
    /\ bytes' = Flushed(o)
    /\ AfterInsert(t, o, "idle")
    /\ UNCHANGED <<build, owner, aborted, late, writes, overtaken, spans>>

Next ==
    \/ \E t \in Threads :
          \/ \E a \in Arenas : CreateSpan(t, a)
          \/ RetireSpan(t) \/ ForceRetire(t)
          \/ \E o \in Objects : RemoveBatch(t, o) \/ ClaimCachedObject(t, o)
          \/ HandOutObject(t)
          \/ \E zero \in BOOLEAN : FillAllocated(t, zero)
          \/ \E o \in Objects : Free(t, o)
          \/ HoldFill(t) \/ OfferHeld(t) \/ OfferDeclined(t)
          \/ PushFill(t) \/ Push(t) \/ InsertBatchScrubbing(t)
          \/ \E o \in Objects : Evict(t, o)
          \/ DrainOne(t)
          \/ \E o \in Objects : Refill(t, o) \/ Flush(t, o)
    \/ \E o \in Objects : Write(o) \/ WriteLate(o)

Spec == Init /\ [][Next]_vars

-----------------------------------------------------------------------------
TypeOK ==
    /\ build \in Builds /\ owner \in Arenas \cup {Nobody}
    /\ bytes \in [Objects -> {"zero", "free", "alloc", "user", "secret"}]
    /\ place \in [Objects -> {"none", "central", "taken", "held", "freed",
                              "ring", "cached", "retiring"}]
    /\ late \subseteq Objects

\* verify_free_patterns of a span and of the bins: every central-free object
\* reads as the pattern.
VerifyFreePatterns ==
    Junk => \A o \in Objects : place[o] = "central" => VerifyFreePattern(o)

\* A program that never writes to freed memory is never accused of it, on no
\* route between a free and the next allocation, and the debug walk agrees
\* (hand_out_object, drain_one, verify_free_patterns).  The exception is a reset that
\* overtakes an evicted entry: drain_one verifies memory that is no longer its own.
NoFalseAbort == writes = 0 /\ ~overtaken => ~aborted /\ VerifyFreePatterns

\* A write to an object that waits for reuse is found before the object is
\* handed out again: no refill, flush, eviction or drain in between erases it.
LateWriteCaught ==
    Junk /\ ~overtaken => \A o \in late : place[o] # "held"

\* Nothing that a labelled arena wrote can be read in a PUBLIC one, with or
\* without the patterns (scrub before downgrade).
NoDowngradeLeak ==
    owner \in Arenas \ Labelled => \A o \in Objects : bytes[o] # "secret"
=============================================================================
