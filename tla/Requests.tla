------------------------------ MODULE Requests ------------------------------
(***************************************************************************)
(* The request layer of the allocator (allocator.rs): allocation, free,    *)
(* reallocation and in-place resizing, the byte accounting around them,    *)
(* the hooked backends an arena may bring, and the teardown of arenas.     *)
(*                                                                         *)
(* What serves a request (spans, extents, caches) is modelled elsewhere;   *)
(* here an object is taken from the backend of its arena, or is refused.   *)
(* The counters are separate atomics, so every step that moves one of them *)
(* is a step of its own: charge, take, count, raise the peak; release,     *)
(* account, credit.  The caller keeps the C contract: it frees and         *)
(* resizes only objects it holds, one operation at a time, and tears an    *)
(* arena down only while no call of its own works on that arena.           *)
(***************************************************************************)
EXTENDS Naturals, Sequences, FiniteSets, FiniteSetsExt, TLC

CONSTANTS Threads,
          Ids,         \* object identities
          Arenas,      \* explicit arenas
          Default,     \* the default arena, which is also the shared backend
          Page,        \* PAGE_SIZE
          Slots,       \* MAX_HOOK_BACKENDS
          Does,        \* the workloads, one of which a behaviour runs: the
                       \* operations it uses, the request sizes, the arenas it
                       \* allocates in, their quota, and a bound on the bytes it
                       \* allocates in all
          MaxMakes,    \* bound: hooked arenas ever built
          None

VARIABLES uses,        \* the workload, an element of Does
          obj,         \* identity -> object
          used,        \* arena -> bytes charged to it
          allocated, freed, peak,
          ring,        \* the quarantine
          parking,     \* whether the quarantine is enabled
          ast,         \* arena -> its state
          slot,        \* registry of hooked backends: index -> arena or None
          hookSlot,    \* arena -> its index in the registry, or 0
          regions,     \* arenas whose hooks have handed out a region
          dropped,     \* those whose hooks refused it back from a dropped backend
          makes,
          th           \* thread -> its operation

hooks == <<ast, slot, hookSlot, regions, dropped, makes>>
counters == <<used, allocated, freed, peak>>
quarantine == <<ring, parking>>
vars == <<uses, obj, counters, quarantine, hooks, th>>

Places == Arenas \cup {Default}
Minus(a, b) == IF a > b THEN a - b ELSE 0

\* classify and the usable size charged for a request.  One small class.
Small(n) == n < Page
Rounded(n) == ((n + Page - 1) \div Page) * Page
UsableFor(n, guarded) == IF guarded \/ Small(n) THEN n ELSE Rounded(n)

\* hook_backend, span_backing, large_owner_for
Backend(a) ==
    IF a # Default /\ hookSlot[a] # 0 /\ slot[hookSlot[a]] = a THEN a ELSE Default

NoObject == [st |-> "free", arena |-> None, back |-> None, large |-> FALSE,
             guarded |-> FALSE, usable |-> 0, requested |-> 0, data |-> 0, want |-> 0]
Idle == [pc |-> "idle", op |-> None, arena |-> None, id |-> None, old |-> None,
         size |-> 0, usable |-> 0, guarded |-> FALSE, seen |-> 0, evicted |-> {}]

Goto(t, pc) == th' = [th EXCEPT ![t].pc = pc]
Begin(t, r) == th' = [th EXCEPT ![t] = r @@ Idle]

Init ==
    /\ uses \in Does
    /\ obj = [i \in Ids |-> NoObject]
    /\ used = [a \in Places |-> 0]
    /\ allocated = 0 /\ freed = 0 /\ peak = 0
    /\ ring = <<>> /\ parking = ("park" \in uses.ops)
    /\ ast = [a \in Places |-> IF a \in Arenas /\ "hooks" \in uses.ops THEN "none" ELSE "active"]
    /\ slot = [i \in 1..Slots |-> None]
    /\ hookSlot = [a \in Arenas |-> 0]
    /\ regions = {} /\ dropped = {} /\ makes = 0
    /\ th = [t \in Threads |-> Idle]

-----------------------------------------------------------------------------
\* Allocation.

Charges(a, n) == ast[a] = "active" /\ used[a] + n <= uses.quota

\* allocate_in up to try_charge; a refusal returns null and changes nothing.
Allocate(t, a, n, guarded) ==
    LET u == UsableFor(n, guarded)
    IN  /\ th[t].pc = "idle" /\ "alloc" \in uses.ops
        /\ guarded => "guard" \in uses.ops
        /\ a \in uses.places /\ Charges(a, u) /\ allocated + u <= uses.total
        /\ used' = [used EXCEPT ![a] = @ + u]
        /\ Begin(t, [pc |-> "take", op |-> "alloc", arena |-> a, size |-> n,
                     usable |-> u, guarded |-> guarded])
        /\ UNCHANGED <<uses, obj, allocated, freed, peak, quarantine, hooks>>

\* The second half of realloc: a new object in the arena of the old one.  When
\* the charge is refused realloc returns null and the old object stays.
Move(t, guarded) ==
    LET u == UsableFor(th[t].size, guarded)
    IN  /\ th[t].pc = "move"
        /\ guarded => "guard" \in uses.ops
        /\ IF Charges(th[t].arena, u) /\ allocated + u <= uses.total
           THEN /\ used' = [used EXCEPT ![th[t].arena] = @ + u]
                /\ th' = [th EXCEPT ![t].pc = "take", ![t].op = "move",
                                    ![t].usable = u, ![t].guarded = guarded]
                /\ UNCHANGED obj
           ELSE /\ obj' = [obj EXCEPT ![th[t].old].st = "live"]
                /\ th' = [th EXCEPT ![t] = Idle]
                /\ UNCHANGED used
        /\ UNCHANGED <<uses, allocated, freed, peak, quarantine, hooks>>

\* Identities still named by an entry that left the quarantine are not reused.
Unused == {i \in Ids : obj[i].st = "free" /\ \A t \in Threads : i \notin th[t].evicted}

\* alloc_small, large.allocate_in or allocate_guarded, of the arena's backend.
Take(t) ==
    /\ th[t].pc = "take" /\ Unused # {}
    /\ LET i == CHOOSE k \in Unused : TRUE
       IN  /\ obj' = [obj EXCEPT ![i] = [NoObject EXCEPT
                  !.st = "taken", !.arena = th[t].arena, !.back = Backend(th[t].arena),
                  !.large = th[t].guarded \/ ~Small(th[t].size),
                  !.guarded = th[t].guarded, !.usable = th[t].usable,
                  !.requested = th[t].usable]]
           /\ th' = [th EXCEPT ![t].pc = "count", ![t].id = i]
    /\ UNCHANGED <<uses, counters, quarantine, hooks>>

TakeFails(t) ==
    /\ th[t].pc = "take"
    /\ Goto(t, "refund")
    /\ UNCHANGED <<uses, obj, counters, quarantine, hooks>>

\* The charge is given back.  A grow that found no room moves the object when
\* it is part of a realloc; a failed move leaves the old object with its holder.
Refund(t) ==
    LET l == th[t]
    IN  /\ l.pc = "refund"
        /\ used' = [used EXCEPT ![l.arena] = Minus(@, l.usable)]
        /\ IF l.op = "grow"
           THEN Goto(t, "move") /\ UNCHANGED obj
           ELSE /\ th' = [th EXCEPT ![t] = Idle]
                /\ obj' = IF l.old = None THEN obj ELSE [obj EXCEPT ![l.old].st = "live"]
        /\ UNCHANGED <<uses, allocated, freed, peak, quarantine, hooks>>

\* allocated_bytes.fetch_add
Count(t) ==
    /\ th[t].pc = "count"
    /\ allocated' = allocated + th[t].usable
    /\ th' = [th EXCEPT ![t].pc = "peak", ![t].seen = allocated']
    /\ UNCHANGED <<uses, obj, used, freed, peak, quarantine, hooks>>

\* The holder has the object o back, with what it may expect of its contents.
Returned(o, want) == [o EXCEPT !.st = "live", !.want = want]

\* note_requested
Noted(o, n) == IF o.large THEN [o EXCEPT !.requested = n] ELSE o

\* bump_peak_after_alloc, note_requested and the return of allocate_in, or of
\* a grow in place.  A new object is the holder's to fill.
Peak(t) ==
    LET l == th[t]
        o == Noted(obj[l.id], l.size)
    IN  /\ l.pc = "peak"
        /\ peak' = Max({peak, Minus(l.seen, freed)})
        /\ CASE l.op = "move" ->
                /\ obj' = [obj EXCEPT ![l.id] = o]
                /\ Goto(t, "copy")
             [] l.op = "alloc" ->
                /\ obj' = [obj EXCEPT ![l.id] = Returned([o EXCEPT !.data = o.usable], o.usable)]
                /\ th' = [th EXCEPT ![t] = Idle]
             [] OTHER ->
                /\ obj' = [obj EXCEPT ![l.id] = Returned(o, Min({o.want, l.size}))]
                /\ th' = [th EXCEPT ![t] = Idle]
        /\ UNCHANGED <<uses, used, allocated, freed, quarantine, hooks>>

\* reset_peak_live: two loads, then the store.
ReadPeak(t) ==
    /\ th[t].pc = "idle" /\ "rebase" \in uses.ops
    /\ Begin(t, [pc |-> "rebase", op |-> "rebase", seen |-> Minus(allocated, freed)])
    /\ UNCHANGED <<uses, obj, counters, quarantine, hooks>>

StorePeak(t) ==
    /\ th[t].pc = "rebase"
    /\ peak' = th[t].seen
    /\ th' = [th EXCEPT ![t] = Idle]
    /\ UNCHANGED <<uses, obj, used, allocated, freed, quarantine, hooks>>

-----------------------------------------------------------------------------
\* Reallocation.

Held(i) == obj[i].st = "live" /\ ast[obj[i].arena] = "active"

Claim(t, i, pc, op, n) ==
    /\ th[t].pc = "idle" /\ Held(i)
    /\ obj' = [obj EXCEPT ![i].st = "busy"]
    /\ Begin(t, [pc |-> pc, op |-> op, arena |-> obj[i].arena, old |-> i, size |-> n,
                 usable |-> obj[i].usable])
    /\ UNCHANGED <<uses, counters, quarantine, hooks>>

\* realloc: a large object that stays large is resized in place first; a small
\* one that keeps its class is returned as it is, which changes nothing.
Realloc(t, i, n) ==
    /\ "realloc" \in uses.ops
    /\ obj[i].large \/ ~Small(n)
    /\ Claim(t, i, IF obj[i].large /\ ~Small(n) THEN "resize" ELSE "move", "realloc", n)

\* resize_in_place, which never moves
ResizeInPlace(t, i, n) ==
    /\ "realloc" \in uses.ops /\ obj[i].large
    /\ Claim(t, i, "resize", "xallocx", n)

\* owner.shrink: the tail is gone, its bytes are still to be accounted.
Shrink(t) ==
    LET l == th[t]
        r == Rounded(l.size)
    IN  /\ l.pc = "resize" /\ r < l.usable /\ ~obj[l.old].guarded
        /\ obj' = [obj EXCEPT ![l.old].usable = r, ![l.old].data = Min({@, r})]
        /\ th' = [th EXCEPT ![t].pc = "account", ![t].usable = @ - r, ![t].op = "shrink"]
        /\ UNCHANGED <<uses, counters, quarantine, hooks>>

\* The object keeps its size: the request fits, or the shrink was declined.
Keep(t) ==
    LET l == th[t]
    IN  /\ l.pc = "resize" /\ Rounded(l.size) <= l.usable
        /\ obj' = [obj EXCEPT ![l.old] = Returned(Noted(@, l.size), Min({@.want, l.size}))]
        /\ th' = [th EXCEPT ![t] = Idle]
        /\ UNCHANGED <<uses, counters, quarantine, hooks>>

\* The grow is refused its charge.
Decline(t) ==
    LET l == th[t]
    IN  /\ l.pc = "resize" /\ Rounded(l.size) > l.usable
        /\ ~Charges(l.arena, Rounded(l.size) - l.usable)
        /\ IF l.op = "realloc"
           THEN Goto(t, "move") /\ UNCHANGED obj
           ELSE /\ th' = [th EXCEPT ![t] = Idle]
                /\ obj' = [obj EXCEPT ![l.old].st = "live"]
        /\ UNCHANGED <<uses, counters, quarantine, hooks>>

ChargeGrow(t) ==
    LET l == th[t]
        extra == Rounded(l.size) - l.usable
    IN  /\ l.pc = "resize" /\ Rounded(l.size) > l.usable
        /\ Charges(l.arena, extra) /\ allocated + extra <= uses.total
        /\ used' = [used EXCEPT ![l.arena] = @ + extra]
        /\ th' = [th EXCEPT ![t].pc = "grow", ![t].usable = extra,
                            ![t].op = IF @ = "realloc" THEN "grow" ELSE "stay"]
        /\ UNCHANGED <<uses, obj, allocated, freed, peak, quarantine, hooks>>

\* owner.grow; a guarded object is never resized.
Grow(t) ==
    LET l == th[t]
    IN  /\ l.pc = "grow" /\ ~obj[l.old].guarded
        /\ obj' = [obj EXCEPT ![l.old].usable = @ + l.usable]
        /\ th' = [th EXCEPT ![t].pc = "count", ![t].id = l.old]
        /\ UNCHANGED <<uses, counters, quarantine, hooks>>

GrowFails(t) ==
    /\ th[t].pc = "grow"
    /\ Goto(t, "refund")
    /\ UNCHANGED <<uses, obj, counters, quarantine, hooks>>

CopyLength(t) == Min({obj[th[t].old].usable, th[t].size})

\* copy_nonoverlapping; then realloc frees the old object.
Copy(t) ==
    LET l == th[t]
    IN  /\ l.pc = "copy"
        /\ obj' = [obj EXCEPT ![l.id].data = Min({obj[l.old].data, CopyLength(t)}),
                              ![l.id].want = Min({obj[l.old].want, l.size})]
        /\ th' = [th EXCEPT ![t].pc = "release", ![t].usable = obj[l.old].usable]
        /\ UNCHANGED <<uses, counters, quarantine, hooks>>

-----------------------------------------------------------------------------
\* Free and the quarantine.

Free(t, i) == "alloc" \in uses.ops /\ Claim(t, i, "release", "free", 0)

\* owner.free_scrubbing or the small free: the object goes to its backend.
Release(t) ==
    /\ th[t].pc = "release"
    /\ obj' = [obj EXCEPT ![th[t].old] = NoObject]
    /\ Goto(t, "account")
    /\ UNCHANGED <<uses, counters, quarantine, hooks>>

RingCap == IF "evict" \in uses.ops THEN 1 ELSE Cardinality(Ids)

\* maybe_quarantine_small, maybe_quarantine_large: the offer is taken, and the
\* oldest entry leaves a full ring.
Park(t) ==
    LET full == Len(ring) >= RingCap
    IN  /\ th[t].pc = "release" /\ parking
        /\ obj' = [obj EXCEPT ![th[t].old].st = "parked"]
        /\ ring' = Append(IF full THEN Tail(ring) ELSE ring, th[t].old)
        /\ th' = [th EXCEPT ![t].pc = "account",
                            ![t].evicted = IF full THEN {Head(ring)} ELSE {}]
        /\ UNCHANGED <<uses, counters, parking, hooks>>

\* freed_bytes.fetch_add
Account(t) ==
    /\ th[t].pc = "account"
    /\ freed' = freed + th[t].usable
    /\ Goto(t, "credit")
    /\ UNCHANGED <<uses, obj, used, allocated, peak, quarantine, hooks>>

\* The end of a free, of a realloc that moved, or of a shrink.
Ended(t) ==
    LET l == th[t]
    IN  CASE l.op = "shrink" ->
                [obj EXCEPT ![l.old] = Returned(Noted(@, l.size), Min({@.want, l.size}))]
          [] l.op = "move" -> [obj EXCEPT ![l.id].st = "live"]
          [] OTHER -> obj

\* Mutant: the arena is credited before the bytes are counted as freed.
CreditsFirst(t) ==
    /\ th[t].pc \in {"account", "credit"}
    /\ IF th[t].pc = "account"
       THEN /\ used' = [used EXCEPT ![th[t].arena] = Minus(@, th[t].usable)]
            /\ Goto(t, "credit")
            /\ UNCHANGED <<obj, freed>>
       ELSE /\ freed' = freed + th[t].usable
            /\ IF th[t].evicted # {}
               THEN Goto(t, "drain") /\ UNCHANGED obj
               ELSE obj' = Ended(t) /\ th' = [th EXCEPT ![t] = Idle]
            /\ UNCHANGED used
    /\ UNCHANGED <<uses, allocated, peak, quarantine, hooks>>

\* arenas.credit, then the evicted entries
Credit(t) ==
    /\ th[t].pc = "credit"
    /\ used' = [used EXCEPT ![th[t].arena] = Minus(@, th[t].usable)]
    /\ IF th[t].evicted # {}
       THEN Goto(t, "drain") /\ UNCHANGED obj
       ELSE obj' = Ended(t) /\ th' = [th EXCEPT ![t] = Idle]
    /\ UNCHANGED <<uses, allocated, freed, peak, quarantine, hooks>>

\* drain_one: a physical return, without accounting.  An entry whose object was
\* taken away by a teardown returns nothing.
DrainOne(t, e) ==
    LET l == th[t]
        gone == [obj EXCEPT ![e] = IF @.st = "parked" THEN NoObject ELSE @]
    IN  /\ l.pc = "drain" /\ e \in l.evicted
        /\ IF l.evicted # {e}
           THEN /\ th' = [th EXCEPT ![t].evicted = @ \ {e}]
                /\ obj' = gone
           ELSE IF l.op \in {"disable", "reset", "destroy"}
           THEN /\ th' = [th EXCEPT ![t].evicted = {}, ![t].pc = "drainq"]
                /\ obj' = gone
           ELSE /\ th' = [th EXCEPT ![t] = Idle]
                /\ obj' = IF l.op = "move" THEN [gone EXCEPT ![l.id].st = "live"] ELSE gone
        /\ UNCHANGED <<uses, counters, quarantine, hooks>>

TearingDown == {t \in Threads : th[t].op \in {"reset", "destroy"}}

\* set_quarantine_enabled.  Without "foreign" the caller keeps the quarantine
\* quiet while an arena is torn down.
Enable(t) ==
    /\ th[t].pc = "idle" /\ "toggle" \in uses.ops /\ ~parking
    /\ parking' = TRUE
    /\ UNCHANGED <<uses, obj, counters, ring, hooks, th>>

Disable(t) ==
    /\ th[t].pc = "idle" /\ "toggle" \in uses.ops /\ parking
    /\ "foreign" \in uses.ops \/ TearingDown = {}
    /\ parking' = FALSE
    /\ Begin(t, [pc |-> "drainq", op |-> "disable"])
    /\ UNCHANGED <<uses, obj, counters, ring, hooks>>

\* drain_quarantine: batches until the ring is empty.
DrainBatch(t) ==
    /\ th[t].pc = "drainq"
    /\ IF ring # <<>>
       THEN /\ th' = [th EXCEPT ![t].pc = "drain", ![t].evicted = {ring[k] : k \in 1..Len(ring)}]
            /\ ring' = <<>>
       ELSE /\ IF th[t].op = "disable" THEN th' = [th EXCEPT ![t] = Idle]
                                        ELSE Goto(t, "discard")
            /\ UNCHANGED ring
    /\ UNCHANGED <<uses, obj, counters, parking, hooks>>

-----------------------------------------------------------------------------
\* Arenas with hooks of their own.

\* arena_create_hooked: create_pending
Create(t, a) ==
    /\ th[t].pc = "idle" /\ "hooks" \in uses.ops /\ ast[a] = "none" /\ makes < MaxMakes
    /\ ast' = [ast EXCEPT ![a] = "pending"]
    /\ makes' = makes + 1
    /\ Begin(t, [pc |-> "build", op |-> "create", arena |-> a])
    /\ UNCHANGED <<uses, obj, counters, quarantine, slot, hookSlot, regions, dropped>>

Abandon(t) ==
    /\ ast' = [ast EXCEPT ![th[t].arena] = "none"]
    /\ th' = [th EXCEPT ![t] = Idle]

\* HookProvider::drop and ExtentManager::drop: a region of a backend that is
\* given up goes back to the hooks; when they refuse it the error is ignored.
Drop(a) ==
    \/ regions' = regions \ ({a} \ dropped) /\ UNCHANGED dropped
    \/ regions' = regions \cup {a} /\ dropped' = dropped \cup {a}

\* build_and_register_hook_backend: the hooks reserve the regions for spans and
\* for large objects, or refuse the first, or the second; the first is dropped then.
Build(t) ==
    /\ th[t].pc = "build"
    /\ \/ /\ regions' = regions \cup {th[t].arena}
          /\ Goto(t, "register")
          /\ UNCHANGED <<ast, dropped>>
       \/ Abandon(t) /\ UNCHANGED <<regions, dropped>>
       \/ Abandon(t) /\ Drop(th[t].arena)
    /\ UNCHANGED <<uses, obj, counters, quarantine, slot, hookSlot, makes>>

FreeSlots == {i \in 1..Slots : slot[i] = None}

\* The first free entry of the registry, under its lock.  With none the backend
\* is dropped and the arena is abandoned.
Register(t) ==
    /\ th[t].pc = "register"
    /\ IF FreeSlots # {}
       THEN /\ slot' = [slot EXCEPT ![Min(FreeSlots)] = th[t].arena]
            /\ hookSlot' = [hookSlot EXCEPT ![th[t].arena] = Min(FreeSlots)]
            /\ Goto(t, "publish")
            /\ UNCHANGED <<ast, regions, dropped>>
       ELSE Abandon(t) /\ Drop(th[t].arena) /\ UNCHANGED <<slot, hookSlot>>
    /\ UNCHANGED <<uses, obj, counters, quarantine, makes>>

Publish(t) ==
    /\ th[t].pc = "publish"
    /\ ast' = [ast EXCEPT ![th[t].arena] = "active"]
    /\ th' = [th EXCEPT ![t] = Idle]
    /\ UNCHANGED <<uses, obj, counters, quarantine, slot, hookSlot, regions, dropped, makes>>

-----------------------------------------------------------------------------
\* Teardown of an arena.

\* The caller's precondition: no call works on the arena.  The calls know which
\* objects they were given; which entries they evict they do not.
Quiesced(a) ==
    /\ \A t \in Threads : th[t].arena # a
    /\ "foreign" \in uses.ops \/ \A t \in Threads :
            th[t].evicted = {} /\ th[t].op \notin {"disable", "reset", "destroy"}

\* begin_reset, begin_destroy
BeginTeardown(t, a, op) ==
    /\ th[t].pc = "idle" /\ op \in uses.ops /\ ast[a] = "active" /\ Quiesced(a)
    /\ ast' = [ast EXCEPT ![a] = IF op = "reset" THEN "resetting" ELSE "draining"]
    /\ Begin(t, [pc |-> "drainq", op |-> op, arena |-> a])
    /\ UNCHANGED <<uses, obj, counters, quarantine, slot, hookSlot, regions, dropped, makes>>

Of(a) == {i \in Ids : obj[i].st # "free" /\ obj[i].arena = a}
Bytes(S) == MapThenSumSet(LAMBDA i : obj[i].usable, S)

\* drain_arena: every span is force-retired and every large object freed; what
\* they held counts as freed.  A revocation may fail.
Discard(t, revoked) ==
    LET l == th[t]
    IN  /\ l.pc = "discard"
        /\ obj' = [i \in Ids |-> IF i \in Of(l.arena) THEN NoObject ELSE obj[i]]
        /\ freed' = freed + Bytes(Of(l.arena))
        /\ Goto(t, IF ~revoked THEN "isolate"
                   ELSE IF l.op = "reset" THEN "finish" ELSE "unregister")
        /\ UNCHANGED <<uses, used, allocated, peak, quarantine, hooks>>

\* teardown_hook_backend: the backend leaves the registry under the lock ...
Unregister(t) ==
    LET a == th[t].arena
    IN  /\ th[t].pc = "unregister"
        /\ slot' = [i \in 1..Slots |-> IF slot[i] = a THEN None ELSE slot[i]]
        /\ hookSlot' = [hookSlot EXCEPT ![a] = 0]
        /\ Goto(t, IF Backend(a) = a THEN "return" ELSE "finish")
        /\ UNCHANGED <<uses, obj, counters, quarantine, ast, regions, dropped, makes>>

\* ... and its regions go back to the hooks outside it, which may refuse them.
Return(t) ==
    /\ th[t].pc = "return"
    /\ \/ /\ regions' = regions \ ({th[t].arena} \ dropped)
          /\ Goto(t, "finish")
       \/ Goto(t, "isolate") /\ UNCHANGED regions
    /\ UNCHANGED <<uses, obj, counters, quarantine, ast, slot, hookSlot, dropped, makes>>

\* finish_reset, finish_destroy; quarantine after a partial failure
Close(t, pc, st) ==
    /\ th[t].pc = pc
    /\ used' = [used EXCEPT ![th[t].arena] = 0]
    /\ ast' = [ast EXCEPT ![th[t].arena] = st]
    /\ th' = [th EXCEPT ![t] = Idle]
    /\ UNCHANGED <<uses, obj, allocated, freed, peak, quarantine, slot, hookSlot, regions, dropped, makes>>

Finish(t) == Close(t, "finish", IF th[t].op = "reset" THEN "active" ELSE "none")
Isolate(t) == Close(t, "isolate", "isolated")

-----------------------------------------------------------------------------
Step(t) ==
    \/ \E a \in Places, n \in uses.sizes, g \in BOOLEAN : Allocate(t, a, n, g)
    \/ \E g \in BOOLEAN : Move(t, g)
    \/ Take(t) \/ TakeFails(t) \/ Refund(t) \/ Count(t) \/ Peak(t)
    \/ ReadPeak(t) \/ StorePeak(t)
    \/ \E i \in Ids, n \in uses.sizes : Realloc(t, i, n) \/ ResizeInPlace(t, i, n)
    \/ Shrink(t) \/ Keep(t) \/ Decline(t) \/ ChargeGrow(t) \/ Grow(t) \/ GrowFails(t)
    \/ Copy(t)
    \/ \E i \in Ids : Free(t, i)
    \/ Release(t) \/ Park(t) \/ Account(t) \/ Credit(t)
    \/ \E e \in Ids : DrainOne(t, e)
    \/ Enable(t) \/ Disable(t) \/ DrainBatch(t)
    \/ \E a \in Arenas : Create(t, a)
    \/ Build(t) \/ Register(t) \/ Publish(t)
    \/ \E a \in Arenas, op \in {"reset", "destroy"} : BeginTeardown(t, a, op)
    \/ \E r \in BOOLEAN : Discard(t, r)
    \/ Unregister(t) \/ Return(t) \/ Finish(t) \/ Isolate(t)

Next == \E t \in Threads : Step(t)

Spec == Init /\ [][Next]_vars

-----------------------------------------------------------------------------
\* Every variable has its type; a thread between calls owns nothing.
TypeOK ==
    /\ uses \in Does /\ allocated \in Nat /\ freed \in Nat /\ peak \in Nat
    /\ \A i \in Ids : /\ obj[i].st \in {"free", "taken", "live", "busy", "parked"}
                      /\ obj[i].st = "free" <=> obj[i].arena = None
    /\ \A a \in Places : used[a] \in 0..uses.quota
    /\ \A k \in 1..Len(ring) : ring[k] \in Ids
    /\ \A a \in Places :
        ast[a] \in {"none", "pending", "active", "resetting", "draining", "isolated"}
    /\ slot \in [1..Slots -> Arenas \cup {None}] /\ hookSlot \in [Arenas -> 0..Slots]
    /\ regions \subseteq Arenas /\ dropped \subseteq regions
    /\ \A t \in Threads : th[t].pc = "idle" => th[t] = Idle

Quiet == \A t \in Threads : th[t] = Idle
InHand == {i \in Ids : obj[i].st \notin {"free", "parked"}}
Charged == MapThenSumSet(LAMBDA a : used[a], Places)

\* Between calls the three accounts agree: the bytes allocated less the bytes
\* freed are the bytes charged to the arenas (force_retire_span: "This keeps
\* sum of arena.used == live_bytes reconciling"), and both are the usable bytes
\* of the objects the program holds.
Reconciles ==
    Quiet => /\ allocated = freed + Charged
             /\ Charged = Bytes(InHand)

\* At every instant the live bytes the statistics report are covered by the
\* charges: an allocation is charged before it is counted and a free is counted
\* before it is credited, so the quota bounds what is reported as live.
LiveWithinCharged == Minus(allocated, freed) <= Charged /\ freed <= allocated

\* An object that was reallocated, in place or by moving, still holds the bytes
\* its holder may rely on, and a failed realloc leaves the old object as it was.
ContentsKept == \A i \in Ids : obj[i].st = "live" => obj[i].data >= obj[i].want

\* The backend a free, a resize or a teardown is routed to by the object's arena
\* is the backend that served the object.
RoutesToOwner ==
    \A i \in Ids : obj[i].st # "free" => obj[i].back = Backend(obj[i].arena)

\* The registry of hooked backends and the index each arena records agree
\* (check_invariants), and only arenas that are not destroyed are in it.
RegistryExact ==
    /\ \A i \in 1..Slots : slot[i] # None => ast[slot[i]] # "none" /\ hookSlot[slot[i]] = i
    /\ \A a \in Arenas : hookSlot[a] # 0 => slot[hookSlot[a]] = a

\* A region the hooks handed out is in the registry, is being built or returned
\* by one call, or was refused back and keeps its arena isolated.  The one region
\* that leaks is one the hooks refuse from a backend dropped half-built, where
\* there is no arena left to isolate: arena_create_hooked's "On any failure the
\* pending arena is abandoned and nothing leaks" holds while the hooks take back
\* what they gave.
NoRegionLost ==
    \A a \in regions \ dropped :
        \/ \E i \in 1..Slots : slot[i] = a
        \/ \E t \in Threads : th[t].arena = a /\ th[t].pc \in {"register", "return", "isolate"}
        \/ ast[a] = "isolated"

\* The request recorded for a large object never exceeds its usable size, also
\* after a grow was declined, so its waste is not lost from the statistics
\* (apply_inplace_large_resize: "We must NOT do this for a declined grow").
WasteKnown ==
    \A i \in Ids : obj[i].st = "live" /\ obj[i].large => obj[i].requested <= obj[i].usable

\* Between calls the peak is no lower than the live bytes, as long as nobody
\* moves it back: the thread that counted last compares with all that was counted.
PeakCoversLive == Quiet /\ "rebase" \notin uses.ops => peak >= Minus(allocated, freed)
====
