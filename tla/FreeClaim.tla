------------------------------ MODULE FreeClaim ------------------------------
(***************************************************************************)
(* The free/claim protocol of small objects: how a free, an allocation, a  *)
(* refill, a flush, the quarantine and span retirement agree on who owns   *)
(* an object, using three per-object markers of the span descriptor:       *)
(*                                                                         *)
(*   cached[o]  the front-end residency bit (CachedBits, lock-free)        *)
(*   free[o]    the central free bitmap     (written under the span lock)  *)
(*   quar[o]    the quarantined bit         (written under the span lock)  *)
(*                                                                         *)
(* Sources: allocator.rs (free_with, free_small_screened,                  *)
(* maybe_quarantine_small, claim_cached_object, retire_span, create_span), *)
(* cache_ops.rs (refill, flush_addrs_to_central), central.rs               *)
(* (remove_batch, insert_batch_inner, activate_span, deactivate_span),     *)
(* span.rs (CachedBits, SpanGuard), harden.rs (Quarantine::offer).         *)
(*                                                                         *)
(* The unit of interleaving is one atomic access to a marker, or one       *)
(* critical section of the central bin lock (the insert, whose markers are *)
(* also read without the lock, is split into its marker writes).  The      *)
(* loads and stores are acquire/release in the code, in the order used     *)
(* here.  One size class is modelled, so there is one central bin; the     *)
(* per-CPU slots and the transfer bin are one multiset fe.                 *)
(***************************************************************************)
EXTENDS Naturals, FiniteSets

CONSTANTS
    Threads,
    NoThread,              \* the bin lock is free
    NoObject,              \* the thread is working on no object
    Spans,
    Objects,
    SpanOf,                \* the span an object is carved from
    Tags,                  \* the kinds of request the program makes
    MaxEmptyCachedPerBin,  \* MAX_EMPTY_CACHED_PER_BIN
    Quarantine,            \* the `quarantine` cargo feature is compiled in
    DoubleFrees,           \* the program may free an object it does not own
    FreesRaceVends         \* ... even one that a refill is just vending

ASSUME FreeClaimAssumption ==
    /\ NoThread \notin Threads
    /\ NoObject \notin Objects
    /\ IsFiniteSet(Spans)
    /\ SpanOf \in [Objects -> Spans]
    /\ Tags \subseteq {"default", "hinted", "foreign"}
    /\ MaxEmptyCachedPerBin \in Nat
    /\ {Quarantine, DoubleFrees, FreesRaceVends} \subseteq BOOLEAN

VARIABLES
    cached, free, quar,    \* the markers, per object
    app,                   \* handed out, and no free has claimed it since
    fe,                    \* number of front-end entries naming the object
    ring,                  \* objects in the quarantine ring
    enabled,               \* the quarantine's runtime switch
    span,                  \* life cycle of each span descriptor
    listed,                \* the central list each span is on
    tag,                   \* arena and place class each span serves
    lock,                  \* holder of the bin lock across several steps
    pc, obj, via,          \* per thread: next step, object, route it is on
    evicted,               \* per thread: ring entries it must still drain
    wins                   \* history: frees admitted since o was last vended

markers == <<cached, free, quar>>
central == <<span, listed, tag, lock>>
local == <<pc, obj, via, evicted>>
vars == <<markers, app, fe, ring, enabled, central, local, wins>>

Labels == {"idle", "screenCached", "screenCentral", "mark", "revalCentral",
           "revalQuar", "unmark", "quarCheck", "quarEnabled", "quarCentral",
           "quarCached", "markQuar", "offer", "held", "drainRing", "drain",
           "unclaimQuar",
           "route", "insert", "insertQuar", "insertUnmark", "rejected",
           "retire", "reclaim", "claim", "refillMark", "publish"}

\* One type invariant for the module.
TypeOK ==
    /\ cached \in [Objects -> BOOLEAN]
    /\ free \in [Objects -> BOOLEAN]
    /\ quar \in [Objects -> BOOLEAN]
    /\ app \in [Objects -> BOOLEAN]
    /\ fe \in [Objects -> Nat]
    /\ ring \subseteq Objects
    /\ enabled \in BOOLEAN
    /\ span \in [Spans -> {"Pooled", "Active", "Released"}]
    /\ listed \in [Spans -> {"none", "partial", "empty"}]
    /\ tag \in [Spans -> {"default", "hinted", "foreign"}]
    /\ lock \in Threads \cup {NoThread}
    /\ pc \in [Threads -> Labels]
    /\ obj \in [Threads -> Objects \cup {NoObject}]
    /\ via \in [Threads -> {"none", "cached", "plain", "flush", "drain",
                          "disable", "converge"}]
    /\ evicted \in [Threads -> SUBSET Objects]
    /\ wins \in [Objects -> Nat]

\* No span exists yet: every descriptor slot is in the pool.
Init ==
    /\ cached = [o \in Objects |-> FALSE]
    /\ free = [o \in Objects |-> FALSE]
    /\ quar = [o \in Objects |-> FALSE]
    /\ app = [o \in Objects |-> FALSE]
    /\ fe = [o \in Objects |-> 0]
    /\ ring = {}
    /\ enabled = FALSE
    /\ span = [s \in Spans |-> "Pooled"]
    /\ listed = [s \in Spans |-> "none"]
    /\ tag = [s \in Spans |-> "default"]
    /\ lock = NoThread
    /\ pc = [t \in Threads |-> "idle"]
    /\ obj = [t \in Threads |-> NoObject]
    /\ via = [t \in Threads |-> "none"]
    /\ evicted = [t \in Threads |-> {}]
    /\ wins = [o \in Objects |-> 0]

-----------------------------------------------------------------------------
(* Vocabulary *)

ObjectsOf(s) == {o \in Objects : SpanOf[o] = s}

\* front_end_cacheable: the default arena's unhinted spans only.
Cacheable(o) == tag[SpanOf[o]] = "default"

\* The span lock of s is held by a thread in the middle of an insert.
SpanLocked(s) == lock # NoThread /\ SpanOf[obj[lock]] = s

\* Thread t goes on to step l with the object it has.
Goto(t, l) == /\ pc' = [pc EXCEPT ![t] = l]
              /\ UNCHANGED <<obj, via, evicted>>

\* Thread t starts working on object o at step l.
Take(t, o, l, v) == /\ pc' = [pc EXCEPT ![t] = l]
                    /\ obj' = [obj EXCEPT ![t] = o]
                    /\ via' = [via EXCEPT ![t] = v]

\* The operation of t returns.
Return(t) == Take(t, NoObject, "idle", "none") /\ UNCHANGED evicted

\* The step after an insert or a retirement: an eviction batch is drained to
\* the end, anything else returns.
Resume(t) == IF via[t] \in {"drain", "disable", "converge"}
             THEN Take(t, NoObject, "drain", via[t]) /\ UNCHANGED evicted
             ELSE Return(t)

\* A free is admitted: the object's live period ends.
EndLife(o) == /\ app' = [app EXCEPT ![o] = FALSE]
              /\ wins' = [wins EXCEPT ![o] = @ + 1]

\* t is freeing o and has not yet taken the claim that settles the race.
Unclaimed(t, o) ==
    /\ obj[t] = o
    /\ \/ pc[t] \in {"screenCached", "screenCentral", "mark", "revalCentral",
                     "revalQuar"}
       \/ via[t] = "plain" /\ pc[t] \in {"quarCheck", "quarCentral",
                                         "quarCached", "markQuar"}
       \/ via[t] = "plain" /\ pc[t] = "insert" /\ ~Quarantine

\* t holds o outside every free structure, as its only owner.
Holds(t, o) ==
    \/ o \in evicted[t]
    \/ /\ obj[t] = o
       /\ \/ pc[t] \in {"offer", "route", "claim", "publish"}
          \/ via[t] = "cached" /\ pc[t] \in {"quarCheck", "quarEnabled",
                                             "quarCentral", "markQuar",
                                             "unclaimQuar"}
          \/ pc[t] = "insert" /\ (via[t] # "plain" \/ Quarantine)

\* A refill has taken o from the central list and not yet marked it.
BeingVended(o) == \E t \in Threads : pc[t] = "refillMark" /\ obj[t] = o

-----------------------------------------------------------------------------
(* free_with: validation, then the lock-free "already awaiting reuse" screen *)

\* What the program may free.  A correct program frees an object it was handed
\* and frees it once.
MayFree(o) ==
    IF DoubleFrees
    THEN FreesRaceVends \/ ~BeingVended(o)
    ELSE app[o] /\ \A u \in Threads : ~Unclaimed(u, o)

\* validate_free resolves the pointer to an object of an Active span (any other
\* pointer is reported Invalid and changes nothing).
FreeCall(t, o) ==
    /\ pc[t] = "idle"
    /\ span[SpanOf[o]] = "Active"
    /\ MayFree(o)
    /\ Take(t, o, "screenCached", "none")
    /\ UNCHANGED <<markers, app, fe, ring, enabled, central, evicted, wins>>

\* is_free_awaiting_reuse, first load: the cached bit.
ScreenCached(t) ==
    /\ pc[t] = "screenCached"
    /\ IF cached[obj[t]] THEN Return(t) ELSE Goto(t, "screenCentral")
    /\ UNCHANGED <<markers, app, fe, ring, enabled, central, wins>>

\* ... second load: the central bit.  The span's tag then fixes the route: a
\* cacheable object must take the cached bit; for the others the quarantined
\* bit or the central insert is the claim.
ScreenCentral(t) ==
    /\ pc[t] = "screenCentral"
    /\ IF free[obj[t]] THEN Take(t, NoObject, "idle", "none")
       ELSE IF Cacheable(obj[t]) THEN Take(t, obj[t], "mark", "cached")
       ELSE Take(t, obj[t], IF Quarantine THEN "quarCheck" ELSE "insert", "plain")
    /\ UNCHANGED <<markers, app, fe, ring, enabled, central, evicted, wins>>

(* free_small_screened: the claim and its revalidation *)

\* Mutant: a load and a store instead of one fetch_or, without looking.
BlindMarkCached(t) ==
    /\ pc[t] = "mark"
    /\ Goto(t, "revalCentral")
    /\ cached' = [cached EXCEPT ![obj[t]] = TRUE]
    /\ UNCHANGED <<free, quar, app, fe, ring, enabled, central, wins>>

\* try_mark_cached: one fetch_or decides between concurrent frees.
TryMarkCached(t) ==
    /\ pc[t] = "mark"
    /\ IF cached[obj[t]]
       THEN Return(t) /\ UNCHANGED cached
       ELSE Goto(t, "revalCentral") /\ cached' = [cached EXCEPT ![obj[t]] = TRUE]
    /\ UNCHANGED <<free, quar, app, fe, ring, enabled, central, wins>>

\* Revalidation under the claim, first load: the central bit.
RevalidateCentral(t) ==
    /\ pc[t] = "revalCentral"
    /\ Goto(t, IF free[obj[t]] THEN "unmark" ELSE "revalQuar")
    /\ UNCHANGED <<markers, app, fe, ring, enabled, central, wins>>

\* ... second load: the quarantined bit.  A free that passes is admitted.
RevalidateQuarantined(t) ==
    /\ pc[t] = "revalQuar"
    /\ IF quar[obj[t]]
       THEN Goto(t, "unmark") /\ UNCHANGED <<app, wins>>
       ELSE Goto(t, IF Quarantine THEN "quarCheck" ELSE "route") /\ EndLife(obj[t])
    /\ UNCHANGED <<markers, fe, ring, enabled, central>>

\* The losing free releases its mark and reports DoubleFree.
Unmark(t) ==
    /\ pc[t] = "unmark"
    /\ cached' = [cached EXCEPT ![obj[t]] = FALSE]
    /\ Return(t)
    /\ UNCHANGED <<free, quar, app, fe, ring, enabled, central, wins>>

\* The claimed object goes to a front-end slot, or (cache bypass, forced slow
\* path, or a slot that stays full after a flush) to the central list.
Route(t) ==
    /\ pc[t] = "route"
    /\ \/ fe' = [fe EXCEPT ![obj[t]] = @ + 1] /\ Return(t)
       \/ UNCHANGED fe /\ Goto(t, "insert")
    /\ UNCHANGED <<markers, app, ring, enabled, central, wins>>

-----------------------------------------------------------------------------
(* maybe_quarantine_small (only with the quarantine feature) *)

\* `settled`: the free ends here; a cacheable object's mark comes off first.
Settle(t) == IF via[t] = "cached" THEN Goto(t, "unmark") ELSE Return(t)

\* A quarantined object is a double free.  Only a free that holds the cached
\* claim may read the runtime switch before marking.
QuarCheck(t) ==
    /\ pc[t] = "quarCheck"
    /\ IF quar[obj[t]] THEN Settle(t)
       ELSE Goto(t, IF via[t] = "cached" THEN "quarEnabled" ELSE "quarCentral")
    /\ UNCHANGED <<markers, app, fe, ring, enabled, central, wins>>

QuarEnabled(t) ==
    /\ pc[t] = "quarEnabled"
    /\ Goto(t, IF enabled THEN "quarCentral" ELSE "route")
    /\ UNCHANGED <<markers, app, fe, ring, enabled, central, wins>>

QuarCentral(t) ==
    /\ pc[t] = "quarCentral"
    /\ IF free[obj[t]] THEN Settle(t)
       ELSE Goto(t, IF via[t] = "cached" THEN "markQuar" ELSE "quarCached")
    /\ UNCHANGED <<markers, app, fe, ring, enabled, central, wins>>

QuarCached(t) ==
    /\ pc[t] = "quarCached"
    /\ IF cached[obj[t]] THEN Settle(t) ELSE Goto(t, "markQuar")
    /\ UNCHANGED <<markers, app, fe, ring, enabled, central, wins>>

\* mark_quarantined under the span lock.  For a non-cacheable object this is
\* the claim, taken before the switch is read: if it is off, the claim goes
\* with the object to the central insert.
MarkQuarantined(t) ==
    LET o == obj[t] IN
    /\ pc[t] = "markQuar"
    /\ ~SpanLocked(SpanOf[o])
    /\ IF quar[o] THEN Settle(t) /\ UNCHANGED <<quar, app, wins>>
       ELSE /\ quar' = [quar EXCEPT ![o] = TRUE]
            /\ IF via[t] = "cached" THEN UNCHANGED <<app, wins>> ELSE EndLife(o)
            /\ Goto(t, IF via[t] = "cached" \/ enabled THEN "offer" ELSE "insert")
    /\ UNCHANGED <<cached, free, fe, ring, enabled, central>>

\* Quarantine::offer holds the object and evicts older entries, which this
\* thread must drain; or it declines (sampling, budgets, or already in the
\* ring), and the free goes on.
OfferHeld(t) ==
    /\ pc[t] = "offer"
    /\ obj[t] \notin ring
    /\ \E E \in SUBSET ring :
          /\ ring' = (ring \ E) \cup {obj[t]}
          /\ evicted' = [evicted EXCEPT ![t] = E]
    /\ pc' = [pc EXCEPT ![t] = "held"]
    /\ UNCHANGED <<markers, app, fe, enabled, central, obj, via, wins>>

OfferDeclined(t) ==
    /\ pc[t] = "offer"
    /\ Goto(t, IF via[t] = "cached" THEN "unclaimQuar" ELSE "insert")
    /\ UNCHANGED <<markers, app, fe, ring, enabled, central, wins>>

\* release_quarantine_claim_small: the cached claim is still in hand.
UnclaimQuarantined(t) ==
    /\ pc[t] = "unclaimQuar"
    /\ ~SpanLocked(SpanOf[obj[t]])
    /\ quar' = [quar EXCEPT ![obj[t]] = FALSE]
    /\ Goto(t, "route")
    /\ UNCHANGED <<cached, free, app, fe, ring, enabled, central, wins>>

\* The ring owns the object: the cached claim comes off, outside any lock.
Held(t) ==
    /\ pc[t] = "held"
    /\ cached' = [cached EXCEPT ![obj[t]] = @ /\ via[t] # "cached"]
    /\ Take(t, NoObject, "drain", "drain")
    /\ UNCHANGED <<free, quar, app, fe, ring, enabled, central, evicted, wins>>

\* drain_one for each evicted entry: a central insert, and maybe a retirement.
DrainOne(t) ==
    /\ pc[t] = "drain"
    /\ \/ \E o \in evicted[t] : /\ Take(t, o, "insert", via[t])
                                /\ evicted' = [evicted EXCEPT ![t] = @ \ {o}]
       \/ /\ evicted[t] = {}
          /\ IF via[t] = "drain" THEN Return(t) ELSE Goto(t, "drainRing")
    /\ UNCHANGED <<markers, app, fe, ring, enabled, central, wins>>

\* Mutant: the batch is copied out of the ring and the ring is not shortened.
DrainKeepsEntries(t) ==
    /\ pc[t] = "drainRing"
    /\ \/ \E E \in (SUBSET ring) \ {{}} :
             /\ evicted' = [evicted EXCEPT ![t] = E]
             /\ Take(t, NoObject, "drain", via[t])
       \/ (ring = {} \/ via[t] = "converge") /\ Return(t)
    /\ UNCHANGED <<markers, app, fe, ring, enabled, central, wins>>

\* drain_quarantine (until the ring is empty) and converge_quarantine (until it
\* is within budget) take batches out of the ring.
DrainRing(t) ==
    /\ pc[t] = "drainRing"
    /\ \/ \E E \in (SUBSET ring) \ {{}} :
             /\ ring' = ring \ E
             /\ evicted' = [evicted EXCEPT ![t] = E]
             /\ Take(t, NoObject, "drain", via[t])
       \/ /\ ring = {} \/ via[t] = "converge"
          /\ Return(t) /\ UNCHANGED ring
    /\ UNCHANGED <<markers, app, fe, enabled, central, wins>>

\* set_quarantine_enabled: switching off also drains the ring.
SetQuarantineEnabled(t, on) ==
    /\ Quarantine /\ pc[t] = "idle"
    /\ enabled' = on
    /\ IF on THEN UNCHANGED local
       ELSE Take(t, NoObject, "drainRing", "disable") /\ UNCHANGED evicted
    /\ UNCHANGED <<markers, app, fe, ring, central, wins>>

\* set_quarantine_policy: a smaller budget converges at once.
ConvergeQuarantine(t) ==
    /\ Quarantine /\ pc[t] = "idle"
    /\ Take(t, NoObject, "drainRing", "converge")
    /\ UNCHANGED <<markers, app, fe, ring, enabled, central, evicted, wins>>

-----------------------------------------------------------------------------
(* CentralCache::insert_batch_inner, under the bin lock and the span lock *)

\* central_insert sets the free bit first.  For a non-cacheable object freed
\* without the quarantine this is the step that admits the free.
CentralInsert(t) ==
    LET o == obj[t] IN
    /\ pc[t] = "insert"
    /\ lock = NoThread
    /\ span[SpanOf[o]] = "Active" /\ ~free[o]
    /\ free' = [free EXCEPT ![o] = TRUE]
    /\ lock' = t
    /\ Goto(t, "insertQuar")
    /\ IF Unclaimed(t, o) THEN EndLife(o) ELSE UNCHANGED <<app, wins>>
    /\ UNCHANGED <<cached, quar, fe, ring, enabled, span, listed, tag>>

\* The span is being torn down, or the object is already central-free.
InsertRejected(t) ==
    LET o == obj[t] IN
    /\ pc[t] = "insert"
    /\ lock = NoThread
    /\ span[SpanOf[o]] # "Active" \/ free[o]
    /\ IF via[t] \in {"cached", "plain"} THEN Goto(t, "rejected") ELSE Resume(t)
    /\ UNCHANGED <<markers, app, fe, ring, enabled, central, wins>>

\* A rejected free releases whichever claim it still carries.
ReleaseClaim(t) ==
    LET o == obj[t] IN
    /\ pc[t] = "rejected"
    /\ cached' = [cached EXCEPT ![o] = FALSE]
    /\ IF Quarantine /\ via[t] = "plain"
       THEN ~SpanLocked(SpanOf[o]) /\ quar' = [quar EXCEPT ![o] = FALSE]
       ELSE UNCHANGED quar
    /\ Return(t)
    /\ UNCHANGED <<free, app, fe, ring, enabled, central, wins>>

\* ... then clears the quarantined bit ...
InsertClearQuarantined(t) ==
    /\ pc[t] = "insertQuar"
    /\ quar' = [quar EXCEPT ![obj[t]] = FALSE]
    /\ Goto(t, "insertUnmark")
    /\ UNCHANGED <<cached, free, app, fe, ring, enabled, central, wins>>

\* Mutant: a span counts as empty once the lowest bits of its bitmap are set.
EmptyTooEarly(s) ==
    IF \E o \in ObjectsOf(s) : free[o]
    THEN IF Cardinality({r \in Spans : listed[r] = "empty"}) < MaxEmptyCachedPerBin
         THEN "empty" ELSE "none"
    ELSE "partial"

\* The list a span belongs on once one object was inserted: a span that became
\* empty is kept up to the limit and otherwise left for the caller to retire;
\* one that was exhausted becomes partial.
ListAfterInsert(s) ==
    IF \A o \in ObjectsOf(s) : free[o]
    THEN IF Cardinality({r \in Spans : listed[r] = "empty"}) < MaxEmptyCachedPerBin
         THEN "empty" ELSE "none"
    ELSE "partial"

\* ... and the cached bit last; the list maintenance follows and the locks are
\* released (nothing but the cached bit is read without them).
InsertUnmark(t) ==
    LET s == SpanOf[obj[t]] IN
    /\ pc[t] = "insertUnmark"
    /\ cached' = [cached EXCEPT ![obj[t]] = FALSE]
    /\ listed' = [listed EXCEPT ![s] = ListAfterInsert(s)]
    /\ IF ListAfterInsert(s) = "none" THEN Goto(t, "retire") ELSE Resume(t)
    /\ lock' = NoThread
    /\ UNCHANGED <<free, quar, app, fe, ring, enabled, span, tag, wins>>

(* Span retirement and creation *)

\* retire_span: deactivate_span clears the bitmap and unlists the span ...
Deactivate(t) ==
    LET s == SpanOf[obj[t]] IN
    /\ pc[t] = "retire"
    /\ lock = NoThread
    /\ free' = [o \in Objects |-> free[o] /\ SpanOf[o] # s]
    /\ span' = [span EXCEPT ![s] = "Released"]
    /\ listed' = [listed EXCEPT ![s] = "none"]
    /\ Goto(t, "reclaim")
    /\ UNCHANGED <<cached, quar, app, fe, ring, enabled, tag, lock, wins>>

\* ... and reclaim_span_slot returns the descriptor slot and the backing.
ReclaimSlot(t) ==
    /\ pc[t] = "reclaim"
    /\ span' = [span EXCEPT ![SpanOf[obj[t]]] = "Pooled"]
    /\ Resume(t)
    /\ UNCHANGED <<markers, app, fe, ring, enabled, listed, tag, lock, wins>>

\* create_span: a pooled descriptor is recycled (its markers cleared) and
\* activated with every object central-free, for the kind of request r.
CreateSpan(t, s, r) ==
    /\ pc[t] = "idle"
    /\ lock = NoThread
    /\ span[s] = "Pooled"
    /\ span' = [span EXCEPT ![s] = "Active"]
    /\ listed' = [listed EXCEPT ![s] = "partial"]
    /\ tag' = [tag EXCEPT ![s] = r]
    /\ free' = [o \in Objects |-> free[o] \/ SpanOf[o] = s]
    /\ cached' = [o \in Objects |-> cached[o] /\ SpanOf[o] # s]
    /\ quar' = [o \in Objects |-> quar[o] /\ SpanOf[o] # s]
    /\ UNCHANGED <<app, fe, ring, enabled, lock, local, wins>>

-----------------------------------------------------------------------------
(* Allocation, refill and flush *)

\* fe_pop (or the transfer pop of alloc_small_from_transfer) takes an entry ...
FrontEndPop(t, o) ==
    /\ pc[t] = "idle"
    /\ fe[o] > 0
    /\ fe' = [fe EXCEPT ![o] = @ - 1]
    /\ Take(t, o, "claim", "none")
    /\ UNCHANGED <<markers, app, ring, enabled, central, evicted, wins>>

\* ... and claim_cached_object hands it out if its mark was set; an entry that
\* is unmarked, or whose span is gone, is dropped.
ClaimCachedObject(t) ==
    LET o == obj[t] IN
    /\ pc[t] = "claim"
    /\ IF span[SpanOf[o]] = "Active" /\ cached[o]
       THEN /\ cached' = [cached EXCEPT ![o] = FALSE]
            /\ app' = [app EXCEPT ![o] = TRUE]
            /\ wins' = [wins EXCEPT ![o] = 0]
       ELSE UNCHANGED <<cached, app, wins>>
    /\ Return(t)
    /\ UNCHANGED <<free, quar, fe, ring, enabled, central>>

\* Which spans serve a request: those of its arena and place class; the last
\* resort of an exhausted backend asks for any place class of its arena.
Serves(s, r) == IF r = "any" THEN tag[s] # "foreign" ELSE tag[s] = r

\* remove_batch vends from a partial span that serves the request, or else from
\* the cached empty span, re-tagged, if it is of the right arena.  A span with
\* nothing left is on no list.
RemoveFromCentral(o, r) ==
    LET s == SpanOf[o] IN
    /\ lock = NoThread
    /\ free[o]
    /\ \/ listed[s] = "partial" /\ Serves(s, r) /\ UNCHANGED tag
       \/ /\ listed[s] = "empty"
          /\ tag[s] = "foreign" <=> r = "foreign"
          /\ \A p \in Spans : listed[p] = "partial" => ~Serves(p, r)
          /\ tag' = [tag EXCEPT ![s] = IF r = "any" THEN @ ELSE r]
    /\ free' = [free EXCEPT ![o] = FALSE]
    /\ listed' = [listed EXCEPT ![s] =
                     IF \E p \in ObjectsOf(s) \ {o} : free[p]
                     THEN "partial" ELSE "none"]

\* The central path of alloc_small: the object goes straight to the program.
AllocFromCentral(t, o, r) ==
    /\ pc[t] = "idle"
    /\ RemoveFromCentral(o, r)
    /\ app' = [app EXCEPT ![o] = TRUE]
    /\ wins' = [wins EXCEPT ![o] = 0]
    /\ UNCHANGED <<cached, quar, fe, ring, enabled, span, lock, local>>

\* refill (for unhinted default-arena requests): the object leaves the central
\* list ...
Refill(t, o) ==
    /\ pc[t] = "idle" /\ "default" \in Tags
    /\ FreesRaceVends \/ \A u \in Threads : ~Unclaimed(u, o)
    /\ RemoveFromCentral(o, "default")
    /\ wins' = [wins EXCEPT ![o] = 0]
    /\ Take(t, o, "refillMark", "flush")
    /\ UNCHANGED <<cached, quar, app, fe, ring, enabled, span, lock, evicted>>

\* Mutant: the object is published without its mark.
RefillWithoutMark(t) ==
    /\ pc[t] = "refillMark"
    /\ Goto(t, "publish")
    /\ UNCHANGED <<markers, app, fe, ring, enabled, central, wins>>

\* ... is marked before it is published; losing the mark drops it.
RefillMark(t) ==
    /\ pc[t] = "refillMark"
    /\ IF cached[obj[t]]
       THEN Return(t) /\ UNCHANGED cached
       ELSE Goto(t, "publish") /\ cached' = [cached EXCEPT ![obj[t]] = TRUE]
    /\ UNCHANGED <<free, quar, app, fe, ring, enabled, central, wins>>

\* Mutant: the batch is copied out of the slot and the slot is not shortened.
FlushKeepsEntry(t, o) ==
    /\ pc[t] = "idle"
    /\ fe[o] > 0
    /\ Take(t, o, "publish", "flush")
    /\ UNCHANGED <<markers, app, fe, ring, enabled, central, evicted, wins>>

\* flush, flush_idle_cpu, drain_transfer: an entry is taken out of the front end.
FlushPop(t, o) ==
    /\ pc[t] = "idle"
    /\ fe[o] > 0
    /\ fe' = [fe EXCEPT ![o] = @ - 1]
    /\ Take(t, o, "publish", "flush")
    /\ UNCHANGED <<markers, app, ring, enabled, central, evicted, wins>>

\* What a slot or the transfer bin accepts stays in the front end; the rest is
\* flushed to the central list, unless its span is gone from the page map.
Publish(t) ==
    /\ pc[t] = "publish"
    /\ \/ fe' = [fe EXCEPT ![obj[t]] = @ + 1] /\ Return(t)
       \/ /\ UNCHANGED fe
          /\ IF span[SpanOf[obj[t]]] = "Active" THEN Goto(t, "insert") ELSE Return(t)
    /\ UNCHANGED <<markers, app, ring, enabled, central, wins>>

-----------------------------------------------------------------------------
FreeStep(t) ==
    \/ ScreenCached(t) \/ ScreenCentral(t)
    \/ TryMarkCached(t) \/ RevalidateCentral(t) \/ RevalidateQuarantined(t)
    \/ Unmark(t) \/ Route(t)

QuarantineStep(t) ==
    \/ QuarCheck(t) \/ QuarEnabled(t) \/ QuarCentral(t) \/ QuarCached(t)
    \/ MarkQuarantined(t) \/ OfferHeld(t) \/ OfferDeclined(t)
    \/ UnclaimQuarantined(t) \/ Held(t) \/ DrainOne(t) \/ DrainRing(t)

CentralStep(t) ==
    \/ CentralInsert(t) \/ InsertRejected(t) \/ ReleaseClaim(t)
    \/ InsertClearQuarantined(t) \/ InsertUnmark(t)
    \/ Deactivate(t) \/ ReclaimSlot(t)

AllocStep(t) == ClaimCachedObject(t) \/ RefillMark(t) \/ Publish(t)

Call(t) ==
    \/ \E o \in Objects : \/ FreeCall(t, o) \/ FrontEndPop(t, o)
                          \/ Refill(t, o) \/ FlushPop(t, o)
    \/ \E o \in Objects, r \in Tags \cup {"any"} : AllocFromCentral(t, o, r)
    \/ \E s \in Spans, r \in Tags : CreateSpan(t, s, r)
    \/ \E on \in BOOLEAN : SetQuarantineEnabled(t, on)
    \/ ConvergeQuarantine(t)

Next == \E t \in Threads : \/ FreeStep(t) \/ QuarantineStep(t)
                           \/ CentralStep(t) \/ AllocStep(t) \/ Call(t)

Spec == Init /\ [][Next]_vars

-----------------------------------------------------------------------------
(* Properties *)

\* Where an object is: with the program, in the hand of a thread, in front-end
\* entries, in the quarantine ring, or in the central bitmap.
Places(o) ==
    (IF app[o] THEN {<<"program", 0>>} ELSE {})
    \cup {<<"thread", t>> : t \in {u \in Threads : Holds(u, o)}}
    \cup {<<"frontEnd", i>> : i \in 1..fe[o]}
    \cup (IF o \in ring THEN {<<"ring", 0>>} ELSE {})
    \cup (IF free[o] THEN {<<"central", 0>>} ELSE {})

\* An object is never in two places at once, so it can never be handed out
\* twice, whatever routes concurrent frees, refills, flushes, drains and
\* retirements take (free_small_screened, refill, insert_batch_inner).
SingleResidence ==
    \A o \in Objects : \A p, q \in Places(o) : p = q

\* A span is only retired, and its descriptor only recycled, when none of its
\* objects is with the program, in a cache, in the ring or in a thread's hand
\* (retire_span relies on is_empty counting non-central objects as live).
ResidentsAreBacked ==
    \A o \in Objects : Places(o) # {} => span[SpanOf[o]] = "Active"

\* No object of a live span is lost: with a program that frees correctly every
\* one is in some place or being vended by a refill.
NoObjectLost ==
    \A o \in Objects : span[SpanOf[o]] = "Active" =>
        Places(o) # {} \/ BeingVended(o)

\* Every entry of a slot or the transfer bin carries its cached mark, the fact
\* claim_cached_object asserts and the double-free oracle needs
\* (front_end_markers_name_held_objects).
EntriesAreMarked == \A o \in Objects : fe[o] > 0 => cached[o]

\* A checker holding the span lock never sees an object both cached and
\* central-free (cached_and_central_free_are_disjoint).
CachedCentralDisjoint ==
    \A o \in Objects : ~SpanLocked(SpanOf[o]) => ~(cached[o] /\ free[o])

\* Of the frees that contend for one live period of an object at most one is
\* admitted, whichever route each takes (free_small_cached's claim rule).
OneWinner == \A o \in Objects : wins[o] <= 1

\* deactivate_span's assertion: the span handed to it is Active and every one
\* of its objects is central-free.
RetiresOnlyEmptySpans ==
    \A t \in Threads : pc[t] = "retire" =>
        /\ span[SpanOf[obj[t]]] = "Active"
        /\ \A o \in ObjectsOf(SpanOf[obj[t]]) : free[o]

\* Every object is in exactly one place: with the program, in a call, or in one
\* free structure.
InOnePlace == TypeOK /\ SingleResidence /\ NoObjectLost

\* Objects lie in active spans, and a span is retired only when it is empty.
Backed == ResidentsAreBacked /\ RetiresOnlyEmptySpans

\* A front-end entry carries its cached mark, and no object carries the cached
\* and the central-free mark at once.
MarksSound == EntriesAreMarked /\ CachedCentralDisjoint

\* Of racing frees of one object one is admitted, none puts it in two places, and
\* a front-end entry carries its mark.
FreedOnce == OneWinner /\ SingleResidence /\ EntriesAreMarked

\* What the quarantine holds, evicts and drains is in one place, in an active
\* span: a span with held objects is not retired.
HeldSafely == TypeOK /\ SingleResidence /\ Backed
=============================================================================
