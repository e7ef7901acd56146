--------------------------- MODULE QuarantineRing ---------------------------
(***************************************************************************)
(* The delayed-reuse quarantine (topo-core/src/harden.rs): a circular      *)
(* buffer of freed objects with byte, object and per-arena counters, a     *)
(* Bloom filter that answers most membership tests, a policy made of       *)
(* separate atomics, and batches of evicted entries that the caller frees  *)
(* once the lock is released.                                              *)
(*                                                                         *)
(* The lock covers offer from the membership test on, drain_batch, and     *)
(* drain_excess after its two loads; the policy is stored field by field   *)
(* without it, so an offer may run with half of a new policy.              *)
(***************************************************************************)
EXTENDS Naturals, Sequences, FiniteSets, FiniteSetsExt

CONSTANTS Threads, Objects,
          Arenas,          \* the arenas with a per_arena counter
          ArenaOf, BytesOf,\* of each object
          Positions,       \* the Bloom bits of each object
          Cap,             \* QUARANTINE_CAP
          MaxBatch,        \* QUARANTINE_MAX_BATCH
          Default,         \* QuarantinePolicy::DEFAULT
          Policies,        \* the policies a host installs
          MaxInstalls,     \* bound on set_quarantine_policy calls
          Nobody           \* an unheld lock, and an empty ring slot

VARIABLES slots, head, len, inserts,    \* QRing
          bloom, bytes, count, perArena,
          policy,                       \* the five policy atomics
          lock,
          at,                           \* where each object is, for the properties
          th, installs

vars == <<slots, head, len, inserts, bloom, bytes, count, perArena, policy, lock, at, th, installs>>
ring == <<slots, head, len, inserts, bloom, bytes, count, perArena>>

Indexes == 0 .. Cap - 1
Idle == [pc |-> "idle"]

Init ==
    /\ slots = [i \in Indexes |-> Nobody] /\ head = 0 /\ len = 0 /\ inserts = 0
    /\ bloom = {} /\ bytes = 0 /\ count = 0 /\ perArena = [a \in Arenas |-> 0]
    /\ policy = Default
    /\ lock = Nobody
    /\ at = [o \in Objects |-> "program"]
    /\ th = [t \in Threads |-> Idle] /\ installs = 0

\* A ring with its counters, as the loops below carry it.
Ring ==
    [slots |-> slots, head |-> head, len |-> len, bytes |-> bytes, count |-> count,
     perArena |-> perArena, out |-> <<>>]
Held(r) == {r.slots[(r.head + k) % Cap] : k \in 0 .. r.len - 1}
Filter(objects) == UNION {Positions[o] : o \in objects}
Maybe(filter, o) == Positions[o] \subseteq filter

Credited(perArenaBytes, o, add) ==
    IF ArenaOf[o] \notin Arenas THEN perArenaBytes
    ELSE [perArenaBytes EXCEPT ![ArenaOf[o]] = IF add THEN @ + BytesOf[o] ELSE @ - BytesOf[o]]

ReleaseAccounting(r, o) ==
    [r EXCEPT !.bytes = @ - BytesOf[o], !.count = @ - 1,
              !.perArena = Credited(@, o, FALSE)]

\* Takes the entry at offset k out of the ring: the oldest entry moves into the
\* victim's slot, so the head can advance.
Evict(r, k) ==
    LET victim == (r.head + k) % Cap
        v == r.slots[victim]
    IN [ReleaseAccounting(r, v) EXCEPT
           !.slots = [r.slots EXCEPT ![victim] = r.slots[r.head]],
           !.head = (r.head + 1) % Cap, !.len = r.len - 1, !.out = Append(r.out, v)]

Stops(r, over) == ~over \/ r.len = 0 \/ Len(r.out) = MaxBatch

\* The rings a victim loop may leave: a random policy picks any victim.  The
\* other two loops take the oldest.
RECURSIVE Evictions(_, _, _)
Evictions(r, want, limit) ==
    IF Stops(r, r.bytes + want > limit.bytes \/ r.len >= limit.objects) THEN {r}
    ELSE UNION {Evictions(Evict(r, k), want, limit) :
                k \in IF limit.random THEN 0 .. r.len - 1 ELSE {0}}
RECURSIVE Popped(_, _, _)
Popped(r, maxBytes, maxObjects) ==
    IF Stops(r, r.bytes > maxBytes \/ r.len > maxObjects) THEN r
    ELSE Popped(Evict(r, 0), maxBytes, maxObjects)
RECURSIVE Drained(_)
Drained(r) == IF Stops(r, TRUE) THEN r ELSE Drained(Evict(r, 0))

Goto(t, step) == th' = [th EXCEPT ![t] = step]
At(t, pc) == th[t].pc = pc
Carry(r) ==
    /\ slots' = r.slots /\ head' = r.head /\ len' = r.len
    /\ bytes' = r.bytes /\ count' = r.count /\ perArena' = r.perArena
HandOut(t, r, placed) ==
    at' = [o \in Objects |-> IF \E i \in 1 .. Len(r.out) : r.out[i] = o THEN t ELSE placed[o]]

-----------------------------------------------------------------------------
(* offer.  The coin of sampled_in is thrown before the lock; a free whose  *)
(* object is already held is a double free.                                *)

OfferBegin(t, o, sampled) ==
    /\ At(t, "idle") /\ lock = Nobody
    /\ \/ at[o] = "program"
       \/ at[o] = "held"                  \* a second free of a held object
    /\ sampled \/ policy.sampling          \* only a sampling policy throws a coin
    /\ IF Maybe(bloom, o) /\ o \in Held(Ring)
       THEN Goto(t, Idle) /\ UNCHANGED lock
       ELSE /\ lock' = t
            /\ Goto(t, [pc |-> "offer", obj |-> o, sampled |-> sampled,
                        maxBytes |-> policy.maxBytes, maxObjects |-> policy.maxObjects])
    /\ UNCHANGED <<ring, policy, at, installs>>

Declines(t) ==
    LET s == th[t] IN
    \/ ~s.sampled \/ s.maxObjects = 0 \/ BytesOf[s.obj] > s.maxBytes
    \/ /\ policy.perArena # 0 /\ ArenaOf[s.obj] \in Arenas
       /\ perArena[ArenaOf[s.obj]] + BytesOf[s.obj] > policy.perArena

OfferDeclined(t) ==
    /\ At(t, "offer") /\ Declines(t)
    /\ lock' = Nobody /\ Goto(t, Idle)
    /\ UNCHANGED <<ring, policy, at, installs>>

\* Adds the entry behind the last, and to the filter; the filter is rebuilt
\* from the ring once it has seen Cap inserts.
Inserted(r, o) ==
    [r EXCEPT !.slots = [@ EXCEPT ![(r.head + r.len) % Cap] = o], !.len = @ + 1,
              !.bytes = @ + BytesOf[o], !.count = @ + 1, !.perArena = Credited(@, o, TRUE)]
RebuildBloom(r, o) ==
    IF inserts + 1 >= Cap THEN Filter(Held(r)) ELSE bloom \cup Positions[o]

OfferHeld(t) ==
    /\ At(t, "offer") /\ ~Declines(t)
    /\ \E r \in Evictions(Ring, BytesOf[th[t].obj],
                          [bytes |-> th[t].maxBytes, objects |-> th[t].maxObjects,
                           random |-> policy.random]) :
          IF r.len < Cap
          THEN \E q \in {Inserted(r, th[t].obj)} :
                  /\ Carry(q)
                  /\ bloom' = RebuildBloom(q, th[t].obj)
                  /\ inserts' = IF inserts + 1 >= Cap THEN 0 ELSE inserts + 1
                  /\ HandOut(t, r, [at EXCEPT ![th[t].obj] = "held"])
                  /\ Goto(t, [pc |-> "free", out |-> r.out, more |-> "none"])
          ELSE /\ Carry(r) /\ UNCHANGED <<bloom, inserts>>
               /\ HandOut(t, r, IF r.out = <<>> THEN at
                                ELSE [at EXCEPT ![th[t].obj] = "held"])
               /\ Goto(t, [pc |-> "free", out |-> r.out, more |-> "none"])
    /\ lock' = Nobody
    /\ UNCHANGED <<policy, installs>>

-----------------------------------------------------------------------------
(* Draining: drain_batch until the ring is empty, and drain_excess until   *)
(* the held set is within the policy.                                      *)

\* Both empty the filter with the ring.
Emptied(r) ==
    IF r.len = 0 THEN bloom' = {} /\ inserts' = 0 ELSE UNCHANGED <<bloom, inserts>>

DrainBatch(t) ==
    /\ At(t, "idle") \/ At(t, "drain")
    /\ lock = Nobody
    /\ \E r \in {Drained(Ring)} :
          /\ Carry(r) /\ Emptied(r) /\ HandOut(t, r, at)
          /\ IF r.out = <<>> THEN Goto(t, Idle)
             ELSE Goto(t, [pc |-> "free", out |-> r.out, more |-> "drain"])
    /\ UNCHANGED <<policy, lock, installs>>

Converge(t) ==
    /\ At(t, "converge")
    /\ Goto(t, [pc |-> "excess", maxBytes |-> policy.maxBytes, maxObjects |-> policy.maxObjects])
    /\ UNCHANGED <<ring, policy, lock, at, installs>>

DrainExcess(t) ==
    /\ At(t, "excess") /\ lock = Nobody
    /\ \E r \in {Popped(Ring, th[t].maxBytes, th[t].maxObjects)} :
          /\ Carry(r) /\ Emptied(r) /\ HandOut(t, r, at)
          /\ IF r.out = <<>> THEN Goto(t, Idle)
             ELSE Goto(t, [pc |-> "free", out |-> r.out, more |-> "converge"])
    /\ UNCHANGED <<policy, lock, installs>>

\* The caller really frees the batch, and asks for the next one.
FreeBatch(t) ==
    /\ At(t, "free")
    /\ at' = [o \in Objects |-> IF at[o] = t THEN "program" ELSE at[o]]
    /\ Goto(t, IF th[t].more = "none" THEN Idle ELSE [pc |-> th[t].more])
    /\ UNCHANGED <<ring, policy, lock, installs>>

\* set_quarantine_policy: set_policy stores one field after the other, and offers
\* run in between; then convergence.
Fields == <<"maxBytes", "maxObjects", "perArena", "random", "sampling">>
Lesser(a, b) == IF a < b THEN a ELSE b
Clamped(p) == [p EXCEPT !.maxObjects = Lesser(@, Cap)]
SetPolicy(t, p) ==
    /\ At(t, "idle") /\ installs < MaxInstalls
    /\ installs' = installs + 1
    /\ policy' = [policy EXCEPT !.maxBytes = p.maxBytes]
    /\ Goto(t, [pc |-> "policy", new |-> Clamped(p), next |-> 2])
    /\ UNCHANGED <<ring, lock, at>>
Store(t, then) ==
    LET k == th[t].next
    IN  /\ At(t, "policy")
        /\ policy' = [policy EXCEPT ![Fields[k]] = th[t].new[Fields[k]]]
        /\ Goto(t, IF k < Len(Fields) THEN [th[t] EXCEPT !.next = k + 1] ELSE then)
        /\ UNCHANGED <<ring, lock, at, installs>>
\* Mutant: a stricter policy does not drain what it forbids.
SetsWithoutConverging(t) == Store(t, Idle)
StoreField(t) == Store(t, [pc |-> "converge"])

Next ==
    \E t \in Threads :
        \/ \E o \in Objects, sampled \in BOOLEAN : OfferBegin(t, o, sampled)
        \/ OfferDeclined(t) \/ OfferHeld(t)
        \/ DrainBatch(t) \/ Converge(t) \/ DrainExcess(t) \/ FreeBatch(t)
        \/ \E p \in Policies : SetPolicy(t, p)
        \/ StoreField(t)

Spec == Init /\ [][Next]_vars

-----------------------------------------------------------------------------
TypeOK ==
    /\ head \in Indexes /\ len \in 0 .. Cap /\ inserts \in 0 .. Cap - 1
    /\ lock \in Threads \cup {Nobody}
    /\ lock # Nobody => th[lock].pc = "offer"
    /\ \A k \in 0 .. len - 1 : slots[(head + k) % Cap] \in Objects

\* check_invariants_locked.
CheckInvariants ==
    /\ len <= Cap /\ (len > 0 => head < Cap)
    /\ count = len
    /\ \A o \in Held(Ring) : Maybe(bloom, o)
    /\ bytes = MapThenSumSet(LAMBDA o : BytesOf[o], Held(Ring))
    /\ \A a \in Arenas :
          perArena[a] = MapThenSumSet(LAMBDA o : BytesOf[o], {o \in Held(Ring) : ArenaOf[o] = a})

\* The counters and the filter describe the ring exactly whenever the lock is
\* free: bytes, objects and every arena's bytes are those of the held entries,
\* and no held entry is missing from the filter, so the oracle accepts.
CountersExact == CheckInvariants

\* A second free of a held object is recognised: the filter never hides an entry
\* of the ring, however many inserts, evictions and rebuilds came before
\* (contains_locked, rebuild_bloom).
NoFalseNegative == \A o \in Held(Ring) : Maybe(bloom, o)

\* Every object the quarantine took is in the ring once or in the batch of one
\* caller that is about to free it, and an object is freed by one caller only:
\* none is dropped, none is handed out twice (offer, drain_batch, drain_excess).
HandedOutOnce ==
    /\ Cardinality(Held(Ring)) = len
    /\ Held(Ring) = {o \in Objects : at[o] = "held"}
    /\ \A t \in Threads :
          {o \in Objects : at[o] = t} =
              IF At(t, "free") THEN {th[t].out[i] : i \in 1 .. Len(th[t].out)} ELSE {}

\* Once no policy change is under way the ring holds no more objects than the
\* policy allows, also when offers ran with half of a new policy
\* (set_quarantine_policy, converge_quarantine).
WithinObjectLimit ==
    (/\ \A t \in Threads : th[t].pc \notin {"policy", "converge", "excess"}
     /\ \A t \in Threads : At(t, "free") => th[t].more # "converge")
        => len <= policy.maxObjects
=============================================================================
