----------------------------- MODULE HeapSampler ----------------------------
(***************************************************************************)
(* The heap sampler (topo-abi/src/sampling.rs over topo-core/src           *)
(* sampling.rs): allocations that fire are recorded, by address, in an     *)
(* open-addressed table under one lock; a free asks a lock-free membership *)
(* filter first and removes the record only when the filter may hold it;   *)
(* a realloc takes the record before it calls the engine and retires it or *)
(* puts it back afterwards.  Threads interleave between those steps, the   *)
(* engine hands a freed address to another thread at once, the filter is   *)
(* rebuilt now and then, and a host turns sampling on and off.             *)
(* Which allocations fire is left open (Sampler is a random countdown);    *)
(* every object has one byte.                                              *)
(***************************************************************************)
EXTENDS Naturals, Sequences, FiniteSets, FiniteSetsExt, TLC

CONSTANTS Threads, Addrs, Home,   \* Home[a]: the slot address a hashes to
          Positions,              \* Positions[a]: its bits in the filter
          Cap, Spares,            \* slots, and how many the load cap may leave (CAP / 8)
          RefreshEvery,           \* samples between two rebuilds of the filter
          MaxObjects, MaxToggles, \* bounds
          None

VARIABLES spare, enabled,
          heap,      \* address -> the object that lives there, or None
          objects,   \* how many objects were allocated: the next one's name
          slots, len, dropped,   \* SampledObjects
          bloom, fired,
          sampledLive,           \* sampled_live_bytes over all profiles
          lost,      \* samples recorded in a profile whose record is dropped or replaced
          tracked,   \* objects whose record was stored and not removed by their owner
          lock, th, toggles

tableVars == <<slots, len, dropped>>
vars == <<spare, enabled, heap, objects, tableVars, bloom, fired, sampledLive, lost, tracked,
          lock, th, toggles>>

Slots == 0 .. Cap - 1
MaxLoad == Cap - spare
Idle == [pc |-> "idle"]

Init ==
    /\ spare \in Spares /\ enabled = TRUE /\ heap = [a \in Addrs |-> None] /\ objects = 0
    /\ slots = [i \in Slots |-> None] /\ len = 0 /\ dropped = 0
    /\ bloom = {} /\ fired = 0 /\ sampledLive = 0 /\ lost = 0 /\ tracked = {}
    /\ lock = None /\ th = [t \in Threads |-> Idle] /\ toggles = 0

At(t, pc) == th[t].pc = pc
Goto(t, step) == th' = [th EXCEPT ![t] = step]
MaybeContains(a) == Positions[a] \subseteq bloom

-----------------------------------------------------------------------------
(* The table: linear probing, backward-shift deletion.                     *)

Wrap(i) == i % Cap
Stops(a) == {k \in Slots : LET s == slots[Wrap(Home[a] + k)] IN s = None \/ s.addr = a}
Probe(a) == Wrap(Home[a] + Min(Stops(a)))
Find(a) == IF Stops(a) = {} \/ slots[Probe(a)] = None THEN None ELSE slots[Probe(a)]

\* Mutant: the probe sequence is taken not to wrap around.
IgnoresWrap(hole, j, home) == ~(hole < home /\ home <= j)
CanMove(hole, j, home) ==
    IF hole <= j THEN ~(hole < home /\ home <= j) ELSE ~(home > hole \/ home <= j)
RECURSIVE Shift(_, _, _)
Shift(tbl, hole, j) ==
    LET n == Wrap(j + 1) IN
    IF tbl[n] = None THEN [tbl EXCEPT ![hole] = None]
    ELSE IF CanMove(hole, n, Home[tbl[n].addr])
    THEN Shift([tbl EXCEPT ![hole] = tbl[n]], n, n)
    ELSE Shift(tbl, hole, n)
Full == \A i \in Slots : slots[i] # None

Store(a, object) == slots' = [slots EXCEPT ![Probe(a)] = [addr |-> a, object |-> object]]
Remove(a) == slots' = Shift(slots, Probe(a), Probe(a)) /\ len' = len - 1

\* on_free, and where the thread goes then.  remove_at looks for the empty slot that
\* ends the chain: in a full table it looks for ever, and the lock stays taken.
OnFree(t, a, then) ==
    IF Find(a) = None THEN Goto(t, then) /\ UNCHANGED <<slots, len, lock>>
    ELSE IF Full
    THEN Goto(t, [th[t] EXCEPT !.pc = "spins"]) /\ lock' = t /\ UNCHANGED <<slots, len>>
    ELSE Remove(a) /\ Goto(t, then) /\ UNCHANGED lock

-----------------------------------------------------------------------------
(* allocate, then on_alloc; the engine picks any free address.             *)

NewObject(a, step, t) ==
    /\ heap[a] = None /\ objects < MaxObjects
    /\ objects' = objects + 1 /\ heap' = [heap EXCEPT ![a] = objects + 1]
    /\ Goto(t, step)

Sampled(a) == [pc |-> "record", addr |-> a]
Allocate(t, a, fire) ==
    /\ At(t, "idle") /\ (fire => enabled)
    /\ NewObject(a, IF fire THEN Sampled(a) ELSE Idle, t)
    /\ UNCHANGED <<enabled, tableVars, bloom, fired, sampledLive, lost, tracked, lock, toggles>>

\* sample_alloc_slow: profile, table, filter, under the lock; then the cadence.
OnAlloc(a) ==
    IF len >= MaxLoad
    THEN dropped' = dropped + 1 /\ lost' = lost + 1 /\ UNCHANGED <<slots, len, tracked>>
    ELSE /\ Store(a, heap[a]) /\ tracked' = tracked \cup {heap[a]}
         /\ IF Find(a) = None THEN len' = len + 1 /\ UNCHANGED lost
            ELSE lost' = lost + 1 /\ UNCHANGED len
         /\ UNCHANGED dropped
Record(t) ==
    LET a == th[t].addr
        refresh == (fired + 1) % RefreshEvery = 0
    IN
    /\ At(t, "record") /\ lock = None
    /\ sampledLive' = sampledLive + 1 /\ OnAlloc(a)
    /\ bloom' = bloom \cup Positions[a] /\ fired' = (fired + 1) % RefreshEvery
    /\ lock' = (IF refresh THEN t ELSE None)
    /\ Goto(t, IF refresh THEN [pc |-> "reset"] ELSE Idle)
    /\ UNCHANGED <<enabled, heap, objects, toggles>>
ResetBloom(t) ==
    /\ At(t, "reset") /\ bloom' = {} /\ Goto(t, [pc |-> "refill"])
    /\ UNCHANGED <<enabled, heap, objects, tableVars, fired, sampledLive, lost, tracked, lock,
                   toggles>>
RefillBloom(t) ==
    /\ At(t, "refill") /\ lock' = None /\ Goto(t, Idle)
    /\ bloom' = bloom \cup UNION {Positions[slots[i].addr] : i \in {j \in Slots : slots[j] # None}}
    /\ UNCHANGED <<enabled, heap, objects, tableVars, fired, sampledLive, lost, tracked, toggles>>

-----------------------------------------------------------------------------
(* free: on_free, which looks at the filter without the lock, then the     *)
(* engine's free.                                                          *)

MayOperate(t, a) ==
    /\ At(t, "idle") /\ heap[a] # None
    /\ \A u \in Threads : "addr" \in DOMAIN th[u] => th[u].addr # a
BeginFree(t, a) ==
    /\ MayOperate(t, a)
    /\ Goto(t, [pc |-> IF enabled /\ MaybeContains(a) THEN "forget" ELSE "free", addr |-> a])
    /\ UNCHANGED <<enabled, heap, objects, tableVars, bloom, fired, sampledLive, lost, tracked,
                   lock, toggles>>
\* sample_free_slow.
Forget(t) ==
    LET a == th[t].addr IN
    /\ At(t, "forget") /\ lock = None
    /\ OnFree(t, a, [th[t] EXCEPT !.pc = "free"])
    /\ sampledLive' = sampledLive - (IF Find(a) = None \/ Full THEN 0 ELSE 1)
    /\ UNCHANGED <<enabled, heap, objects, dropped, bloom, fired, lost, tracked, toggles>>
Free(t) ==
    LET a == th[t].addr IN
    /\ At(t, "free") /\ heap' = [heap EXCEPT ![a] = None] /\ tracked' = tracked \ {heap[a]}
    /\ Goto(t, Idle)
    /\ UNCHANGED <<enabled, objects, tableVars, bloom, fired, sampledLive, lost, lock, toggles>>

-----------------------------------------------------------------------------
(* realloc: take_for_realloc, the engine, then retire_taken or             *)
(* restore_taken, then on_alloc of the new object.                         *)

Takes(a) == enabled /\ MaybeContains(a)
BeginRealloc(t, a) ==
    /\ MayOperate(t, a)
    /\ Goto(t, [pc |-> IF Takes(a) THEN "take" ELSE "resize", addr |-> a, rec |-> None])
    /\ UNCHANGED <<enabled, heap, objects, tableVars, bloom, fired, sampledLive, lost, tracked,
                   lock, toggles>>
Take(t) ==
    LET a == th[t].addr IN
    /\ At(t, "take") /\ lock = None
    /\ OnFree(t, a, [th[t] EXCEPT !.pc = "resize", !.rec = Find(a)])
    /\ UNCHANGED <<enabled, heap, objects, dropped, bloom, fired, sampledLive, lost, tracked,
                   toggles>>

\* The engine: fails, or moves the object to b and frees a (b = a: in place).
ResizeFails(t) ==
    /\ At(t, "resize")
    /\ Goto(t, IF th[t].rec = None THEN Idle ELSE [th[t] EXCEPT !.pc = "restore"])
    /\ UNCHANGED <<enabled, heap, objects, tableVars, bloom, fired, sampledLive, lost, tracked,
                   lock, toggles>>
After(s, fire) == IF s.rec # None THEN [s EXCEPT !.pc = "retire"] @@ [fire |-> fire]
                  ELSE IF fire THEN Sampled(s.new) ELSE Idle
Resize(t, b, fire) ==
    LET s == th[t] IN
    /\ At(t, "resize") /\ (b = s.addr \/ heap[b] = None) /\ (fire => enabled)
    /\ objects < MaxObjects /\ objects' = objects + 1
    /\ heap' = [heap EXCEPT ![s.addr] = None, ![b] = objects + 1]
    /\ tracked' = tracked \ {heap[s.addr]}
    /\ Goto(t, After([pc |-> s.pc, addr |-> b, new |-> b, rec |-> s.rec], fire))
    /\ UNCHANGED <<enabled, tableVars, bloom, fired, sampledLive, lost, lock, toggles>>
Retired == sampledLive - 1
Retire(t) ==
    LET s == th[t] IN
    /\ At(t, "retire") /\ lock = None
    /\ sampledLive' = Retired
    /\ Goto(t, IF s.fire THEN Sampled(s.new) ELSE Idle)
    /\ UNCHANGED <<enabled, heap, objects, tableVars, bloom, fired, lost, tracked, lock, toggles>>

\* on_alloc_restore, and the filter when the record is back.
Refilter(a) == bloom \cup Positions[a]
NoRoom(a) == len >= Cap
Restore(t) ==
    LET a == th[t].addr IN
    /\ At(t, "restore") /\ lock = None
    /\ IF NoRoom(a)
       THEN dropped' = dropped + 1 /\ lost' = lost + 1 /\ UNCHANGED <<slots, len, bloom>>
       ELSE IF Find(a) # None
       THEN lost' = lost + 1 /\ UNCHANGED <<tableVars, bloom>>
       ELSE /\ Store(a, th[t].rec.object) /\ len' = len + 1
            /\ bloom' = Refilter(a) /\ UNCHANGED <<dropped, lost>>
    /\ Goto(t, Idle)
    /\ UNCHANGED <<enabled, heap, objects, fired, sampledLive, tracked, lock, toggles>>

-----------------------------------------------------------------------------
SetRate(on) ==
    /\ enabled # on /\ toggles < MaxToggles /\ toggles' = toggles + 1 /\ enabled' = on
    /\ UNCHANGED <<heap, objects, tableVars, bloom, fired, sampledLive, lost, tracked, lock, th>>

Next ==
    /\ UNCHANGED spare
    /\ \/ \E t \in Threads :
             \/ \E a \in Addrs :
                   \/ BeginFree(t, a) \/ BeginRealloc(t, a)
                   \/ \E fire \in BOOLEAN : Allocate(t, a, fire) \/ Resize(t, a, fire)
             \/ Record(t) \/ ResetBloom(t) \/ RefillBloom(t) \/ Forget(t) \/ Free(t)
             \/ Take(t) \/ ResizeFails(t) \/ Retire(t) \/ Restore(t)
       \/ \E on \in BOOLEAN : SetRate(on)

Spec == Init /\ [][Next]_vars

-----------------------------------------------------------------------------
Records == {slots[i] : i \in {j \in Slots : slots[j] # None}}
InHand == {t \in Threads : At(t, "retire") \/ (th[t].pc \in {"resize", "restore"} /\ th[t].rec # None)}

TypeOK ==
    /\ len \in 0 .. Cap /\ sampledLive \in Nat /\ lost \in Nat
    /\ lock \in Threads \cup {None} /\ tracked \subseteq 1 .. objects

\* The table finds what it holds: from a record's home slot to the record there is
\* no empty slot, no address is there twice, and len counts the records (remove_at).
TableSound ==
    /\ len = Cardinality({i \in Slots : slots[i] # None})
    /\ \A i, j \in Slots :
          slots[i] # None /\ slots[j] # None /\ slots[i].addr = slots[j].addr => i = j
    /\ \A i \in Slots : slots[i] # None => Find(slots[i].addr) = slots[i]

\* The filter covers every record, but for the moment of its own rebuild: no free
\* of a sampled object is dismissed by it (BLOOM.insert, restore_taken).
FilterCovers ==
    (\A t \in Threads : ~At(t, "refill")) => \A r \in Records : MaybeContains(r.addr)

\* The record of a live sampled object stays until its own owner removes it, through
\* every reuse of addresses and every realloc: take_for_realloc "closes the window".
TrackedKept ==
    \A a \in Addrs : heap[a] \in tracked =>
        \/ \E r \in Records : r.addr = a /\ r.object = heap[a]
        \/ \E t \in InHand : th[t].rec.object = heap[a]
        \/ \E t \in Threads : At(t, "free") /\ th[t].addr = a

\* The profiles' sampled live bytes are the recorded objects, those in a realloc's
\* hand, and the samples whose record was dropped or replaced.
LiveBytesAgree == sampledLive = Cardinality(Records) + Cardinality(InHand) + lost

\* Restores pass the load cap by at most one record for every other thread, however
\* records and reallocs alternate.  With fewer threads than spare slots "an empty slot
\* always exists below CAP and the probe terminates" (on_alloc_restore).
LoadBounded ==
    len + Cardinality({t \in InHand : ~At(t, "retire")}) <= MaxLoad + Cardinality(Threads) - 1
=============================================================================
