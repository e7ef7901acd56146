---------------------------- MODULE HookAdapters ----------------------------
(***************************************************************************)
(* The C side of arenas with their own extent hooks (hooks_api.rs and the  *)
(* destroy of arena_api.rs): each create puts the caller's hooks in a heap *)
(* box that the arena's backend borrows, records the box under the arena's *)
(* id in CHOOKS_REGISTRY, and the destroy that drops the backend takes it  *)
(* out and frees it.  Arena ids are used again.                            *)
(*                                                                         *)
(* The engine's create and destroy are single steps (Requests has their    *)
(* insides).  A program destroys an arena after its create returned, from  *)
(* one thread, and again only if that was rejected.                        *)
(***************************************************************************)
EXTENDS Naturals, Sequences, FiniteSets, SequencesExt

CONSTANTS Threads,
          ArenaIds,     \* arena ids the engine hands out
          Boxes,        \* addresses of adapters
          MaxCreates,   \* bound: creates begun
          None

VARIABLES boxes,        \* adapters allocated
          backend,      \* id -> the adapter its registered backend borrows, or None
          taken,        \* ids of arenas that exist, quarantined ones included
          registry,     \* CHOOKS_REGISTRY
          owned,        \* ids whose create returned and that nobody destroys yet
          th,           \* thread -> [pc, id, box, hooked, back]
          creates

vars == <<boxes, backend, taken, registry, owned, th, creates>>

Idle == [pc |-> "idle", id |-> None, box |-> None, hooked |-> FALSE, back |-> FALSE]

Init ==
    /\ boxes = {} /\ backend = [a \in ArenaIds |-> None] /\ taken = {}
    /\ registry = <<>> /\ owned = {} /\ creates = 0
    /\ th = [t \in Threads |-> Idle]

----------------------------------------------------------------------------
(* topo_arena_create_hooked.  An incomplete vtable is refused before the   *)
(* box exists.                                                             *)

BoxHooks(t) ==
    /\ th[t].pc = "idle" /\ creates < MaxCreates
    /\ \E b \in Boxes \ boxes :
        /\ boxes' = boxes \cup {b}
        /\ th' = [th EXCEPT ![t] = [Idle EXCEPT !.pc = "create", !.box = b]]
    /\ creates' = creates + 1
    /\ UNCHANGED <<backend, taken, registry, owned>>

EngineCreates(t) ==
    /\ th[t].pc = "create"
    /\ \E a \in ArenaIds \ taken :
        /\ taken' = taken \cup {a}
        /\ backend' = [backend EXCEPT ![a] = th[t].box]
        /\ th' = [th EXCEPT ![t].pc = "push", ![t].id = a]
    /\ UNCHANGED <<boxes, registry, owned, creates>>

CreateFails(t) ==
    /\ th[t].pc = "create"
    /\ boxes' = boxes \ {th[t].box}
    /\ th' = [th EXCEPT ![t] = Idle]
    /\ UNCHANGED <<backend, taken, registry, owned, creates>>

Push(t) ==
    /\ th[t].pc = "push"
    /\ registry' = Append(registry, [id |-> th[t].id, box |-> th[t].box])
    /\ owned' = owned \cup {th[t].id}
    /\ th' = [th EXCEPT ![t] = Idle]
    /\ UNCHANGED <<boxes, backend, taken, creates>>

----------------------------------------------------------------------------
(* topo_arena_destroy: the engine's part, then the test, then the reclaim. *)

\* A destroy may be rejected (live children), leave the arena quarantined
\* with its backend (the drain failed) or without it (the teardown failed),
\* or remove it, after which the id is free.
EngineDestroys(t) ==
    /\ th[t].pc = "idle"
    /\ \E a \in owned, how \in {"rejected", "drain", "teardown", "clean"} :
        /\ owned' = owned \ {a}
        /\ taken' = IF how = "clean" THEN taken \ {a} ELSE taken
        /\ backend' = IF how \in {"clean", "teardown"}
                      THEN [backend EXCEPT ![a] = None] ELSE backend
        /\ th' = [th EXCEPT ![t] = [Idle EXCEPT !.pc = "test", !.id = a,
                                              !.back = how = "rejected"]]
    /\ UNCHANGED <<boxes, registry, creates>>

\* arena_has_hook_backend(id).
Test(t) ==
    /\ th[t].pc = "test"
    /\ th' = [th EXCEPT ![t].pc = "reclaim", ![t].hooked = backend[th[t].id] # None]
    /\ UNCHANGED <<boxes, backend, taken, registry, owned, creates>>

\* Vec::swap_remove: the last entry takes the place of the one removed.
SwapRemove(s, i) ==
    IF i = Len(s) THEN SubSeq(s, 1, i - 1)
    ELSE [SubSeq(s, 1, Len(s) - 1) EXCEPT ![i] = s[Len(s)]]

Reclaim(t) ==
    LET i == SelectInSeq(registry, LAMBDA e : e.id = th[t].id)
        frees == ~th[t].hooked /\ i # 0
    IN /\ th[t].pc = "reclaim"
       /\ registry' = IF frees THEN SwapRemove(registry, i) ELSE registry
       /\ boxes' = IF frees THEN boxes \ {registry[i].box} ELSE boxes
       /\ owned' = IF th[t].back THEN owned \cup {th[t].id} ELSE owned
       /\ th' = [th EXCEPT ![t] = Idle]
       /\ UNCHANGED <<backend, taken, creates>>

Next ==
    \E t \in Threads :
        \/ BoxHooks(t) \/ EngineCreates(t) \/ CreateFails(t) \/ Push(t)
        \/ EngineDestroys(t) \/ Test(t) \/ Reclaim(t)

Spec == Init /\ [][Next]_vars

----------------------------------------------------------------------------
(* Properties.                                                             *)

TypeOK ==
    /\ boxes \subseteq Boxes /\ backend \in [ArenaIds -> Boxes \cup {None}]
    /\ taken \subseteq ArenaIds /\ owned \subseteq taken
    /\ \A i \in DOMAIN registry : registry[i].id \in ArenaIds /\ registry[i].box \in boxes
    /\ creates \in 0..MaxCreates

\* The adapter a registered backend borrows is allocated: reclaim_chooks frees
\* none that the allocator still calls through ("nothing references it").
BorrowedIsLive == \A a \in ArenaIds : backend[a] # None => backend[a] \in boxes

\* When no call is in flight, every adapter allocated is one that a backend
\* borrows: a create/destroy loop never grows the heap.
NoAdapterLost ==
    (\A t \in Threads : th[t].pc = "idle") =>
        boxes \subseteq {backend[a] : a \in ArenaIds}

=============================================================================
