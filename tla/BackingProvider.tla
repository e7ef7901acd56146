--------------------------- MODULE BackingProvider --------------------------
(***************************************************************************)
(* The two back ends behind the provider seam (topo-core/src/backend.rs):  *)
(* the POSIX one (topo-backend-posix), in its performance mode "posix" and *)
(* its guard mode "guard", and the seLe4n simulation "sim"                 *)
(* (topo-backend-sele4n).  Several threads call one provider.  The address *)
(* space is a row of pages that the kernel hands out and takes back, to    *)
(* this provider and to others, at any free place; mmap, munmap, madvise   *)
(* and mprotect are one step each and may fail.  A handle may be used      *)
(* after its region was released.                                          *)
(***************************************************************************)
EXTENDS Naturals, Sequences, SequencesExt, FiniteSets, FiniteSetsExt

CONSTANTS Threads, NPages, Kinds,
          PoolTotal,            \* the simulation's authorized untyped, in pages
          Does,                 \* what callers may use: operations, and alignments in pages
          MaxReserves, MaxOps,  \* bounds
          None

VARIABLES kind,
          use,        \* page -> who the kernel gave it to: "free", "ours", "other"
          access,     \* page -> may it be touched
          zero,       \* page -> does it read as zero
          told,       \* page -> what the results told the caller: is it committed
          guarded,    \* pages the caller has protected
          owned,      \* the provider's live reservations
          pool,       \* the simulation's pool_remaining
          handles,    \* regions returned to callers so far
          stranded,   \* pages whose munmap failed
          lock, th, reserves, ops,
          does        \* what this behaviour's callers use

pageVars == <<use, access, zero, told, guarded>>
vars == <<kind, pageVars, owned, pool, handles, stranded, lock, th, reserves, ops, does>>

Pages == 1 .. NPages
Span(base, n) == base .. base + n - 1
Covers(o) == Span(o.base, o.len)
Idle == [pc |-> "idle"]
Posix == kind \in {"posix", "guard"}

\* ProviderState: a reservation walks the chain one state at a time.
Chain == <<"AuthorizedUntyped", "ReservedUntyped", "FrameCapMinted", "MappedToServer",
           "MappedToClient", "AllocatorCommitted", "AllocatorDirty",
           "AllocatorMuzzyOrScrubbed", "Unmapped", "Revoked", "RecyclableUntyped">>
CanTransition(from, to) == \E i \in 1 .. Len(Chain) - 1 : Chain[i] = from /\ Chain[i + 1] = to
Advance(from, to) == IF CanTransition(from, to) THEN to ELSE "panic"
Walk(from, path) == FoldLeft(Advance, from, path)
MintAndMap == Walk("AuthorizedUntyped", SubSeq(Chain, 2, 6))
Recycle(fsm) == Walk(fsm, SubSeq(Chain, 7, 11))

Init ==
    /\ kind \in Kinds
    /\ use = [p \in Pages |-> "free"] /\ access = [p \in Pages |-> FALSE]
    /\ zero = [p \in Pages |-> FALSE] /\ told = [p \in Pages |-> FALSE] /\ guarded = {}
    /\ owned = {} /\ pool = PoolTotal /\ handles = {} /\ stranded = {}
    /\ lock = None /\ th = [t \in Threads |-> Idle] /\ reserves = 0 /\ ops = 0
    /\ does \in Does

At(t, pc) == th[t].pc = pc
Goto(t, step) == th' = [th EXCEPT ![t] = step]
Set(f, P, v) == [p \in Pages |-> IF p \in P THEN v ELSE f[p]]
UnmapPages(P) == use' = Set(use, P, "free") /\ told' = Set(told, P, FALSE) /\ guarded' = guarded \ P

-----------------------------------------------------------------------------
(* The kernel's other clients: one page of theirs is enough.               *)

OtherMap(p) ==
    /\ use[p] = "free" /\ \A q \in Pages : use[q] # "other"
    /\ use' = [use EXCEPT ![p] = "other"]
    /\ UNCHANGED <<kind, does, access, zero, told, guarded, owned, pool, handles, stranded, lock, th,
                   reserves, ops>>

-----------------------------------------------------------------------------
(* reserve.  POSIX: mmap enough for the alignment, unmap the front and the *)
(* tail, then record the reservation under the lock.                       *)

MayReserve(t) == At(t, "idle") /\ reserves < MaxReserves /\ reserves' = reserves + 1
Over(align) == IF align = 1 THEN 1 ELSE 1 + align
FirstAligned(raw, align) == Min({p \in Pages : p >= raw /\ p % align = 0})
TailPages(P, keep) == {p \in P : p > keep}

Map(t, align, raw) ==
    LET P == Span(raw, Over(align)) IN
    /\ Posix /\ MayReserve(t) /\ P \subseteq Pages /\ \A p \in P : use[p] = "free"
    /\ use' = Set(use, P, "ours") /\ zero' = Set(zero, P, TRUE) /\ told' = Set(told, P, FALSE)
    /\ access' = Set(access, P, kind = "posix")
    /\ Goto(t, [pc |-> "trim", keep |-> FirstAligned(raw, align),
                extra |-> {p \in P : p < FirstAligned(raw, align)},
                tail |-> TailPages(P, FirstAligned(raw, align))])
    /\ UNCHANGED <<kind, does, guarded, owned, pool, handles, stranded, lock, ops>>
MapFails(t) ==
    /\ MayReserve(t)
    /\ UNCHANGED <<kind, does, pageVars, owned, pool, handles, stranded, lock, th, ops>>

\* munmap of the front, then of the tail; the result is not looked at.
Trim(t, ok) ==
    LET s == th[t] IN
    /\ At(t, "trim") /\ s.extra # {}
    /\ IF ok THEN UnmapPages(s.extra) /\ UNCHANGED stranded
       ELSE stranded' = stranded \cup s.extra /\ UNCHANGED <<use, told, guarded>>
    /\ Goto(t, [s EXCEPT !.extra = s.tail, !.tail = {}])
    /\ UNCHANGED <<kind, does, access, zero, owned, pool, handles, lock, reserves, ops>>
SkipFront(t) ==
    /\ At(t, "trim") /\ th[t].extra = {} /\ th[t].tail # {}
    /\ Goto(t, [th[t] EXCEPT !.extra = th[t].tail, !.tail = {}])
    /\ UNCHANGED <<kind, does, pageVars, owned, pool, handles, stranded, lock, reserves, ops>>
Push(t) ==
    LET s == th[t]
        o == [base |-> s.keep, len |-> 1, fsm |-> None]
    IN
    /\ At(t, "trim") /\ s.extra = {} /\ s.tail = {} /\ lock = None
    /\ owned' = owned \cup {o} /\ handles' = handles \cup {[base |-> o.base, len |-> 1]}
    /\ Goto(t, Idle)
    /\ UNCHANGED <<kind, does, pageVars, pool, stranded, lock, reserves, ops>>

\* The simulation: one step under its lock, out of the pool, from the host heap.
SimReserve(t, base) ==
    /\ kind = "sim" /\ MayReserve(t) /\ lock = None /\ pool >= 1 /\ use[base] = "free"
    /\ pool' = pool - 1
    /\ owned' = owned \cup {[base |-> base, len |-> 1, fsm |-> MintAndMap]}
    /\ handles' = handles \cup {[base |-> base, len |-> 1]}
    /\ use' = [use EXCEPT ![base] = "ours"] /\ access' = [access EXCEPT ![base] = TRUE]
    /\ \E z \in BOOLEAN : zero' = [zero EXCEPT ![base] = z]
    /\ told' = [told EXCEPT ![base] = FALSE]
    /\ UNCHANGED <<kind, does, guarded, stranded, lock, th, ops>>

-----------------------------------------------------------------------------
(* The physical-state operations: with_owned_subrange holds the lock over  *)
(* the system call, checked_subrange does not.                             *)

Live(h) == \E o \in owned : o.base = h.base /\ h.len <= o.len
\* The engine protects committed memory and restores it before anything else.
Proper(op, P) ==
    CASE op = "protect" -> \A p \in P : told[p] /\ p \notin guarded
      [] op = "restore" -> P \subseteq guarded
      [] OTHER -> P \cap guarded = {}
\* Mutant: the check releases the lock before the system call.
LetsGo(t) == None
Lease(t) == IF Posix THEN t ELSE None
Begin(t, op, h) ==
    /\ At(t, "idle") /\ lock = None /\ ops < MaxOps /\ op \in does.ops \ {"release"}
    /\ Proper(op, Covers(h)) /\ ops' = ops + 1
    /\ IF Live(h)
       THEN lock' = Lease(t) /\ Goto(t, [pc |-> "act", op |-> op, pages |-> Covers(h)])
       ELSE UNCHANGED <<lock, th>>     \* InvalidRequest
    /\ UNCHANGED <<kind, does, pageVars, owned, pool, handles, stranded, reserves>>

Acting(t, op) == At(t, "act") /\ th[t].op = op
End(t) == Goto(t, Idle) /\ lock' = IF lock = t THEN None ELSE lock
Rest == UNCHANGED <<kind, does, owned, pool, handles, stranded, reserves, ops>>

\* commit: mprotect in guard mode, nothing otherwise.
Protected(t, ok) == access' = IF kind = "guard" THEN Set(access, th[t].pages, TRUE) ELSE access
Commit(t, ok) ==
    /\ Acting(t, "commit") /\ (ok \/ kind = "guard") /\ End(t) /\ Rest
    /\ IF ok THEN Protected(t, ok) /\ told' = Set(told, th[t].pages, TRUE)
       ELSE UNCHANGED <<access, told>>
    /\ UNCHANGED <<use, zero, guarded>>

\* decommit and purge_forced drop the contents; decommit then revokes access in
\* guard mode, a second call that may fail on its own.
Discard(t) == zero' = Set(zero, th[t].pages, TRUE)
DiscardFails(t) ==
    /\ Posix /\ \E op \in {"decommit", "purge_forced", "purge_lazy", "bind"} : Acting(t, op)
    /\ End(t) /\ Rest /\ UNCHANGED pageVars
Revoke(t, ok) ==
    IF kind = "guard" /\ ok THEN access' = Set(access, th[t].pages, FALSE) ELSE UNCHANGED access
Decommit(t, ok) ==
    /\ Acting(t, "decommit") /\ (ok \/ kind = "guard") /\ End(t) /\ Rest
    /\ Discard(t) /\ Revoke(t, ok)
    /\ told' = IF ok THEN Set(told, th[t].pages, FALSE) ELSE told
    /\ UNCHANGED <<use, guarded>>
PurgeForced(t) ==
    /\ Acting(t, "purge_forced") /\ End(t) /\ Rest
    /\ Discard(t) /\ UNCHANGED <<use, access, told, guarded>>
\* The kernel may drop the pages or keep them.
PurgeLazy(t) ==
    /\ Acting(t, "purge_lazy") /\ End(t) /\ Rest
    /\ IF Posix THEN \E Z \in SUBSET th[t].pages : zero' = Set(zero, Z, TRUE) ELSE UNCHANGED zero
    /\ UNCHANGED <<use, access, told, guarded>>
Bind(t) == Acting(t, "bind") /\ End(t) /\ Rest /\ UNCHANGED pageVars

\* protect: a guard page of an object, made inaccessible and restored.
Protect(t, on, ok) ==
    /\ Acting(t, IF on THEN "protect" ELSE "restore") /\ (ok \/ Posix) /\ End(t) /\ Rest
    /\ access' = IF ok /\ Posix THEN Set(access, th[t].pages, ~on) ELSE access
    /\ guarded' = IF ~ok THEN guarded ELSE IF on THEN guarded \cup th[t].pages
                  ELSE guarded \ th[t].pages
    /\ UNCHANGED <<use, zero, told>>

-----------------------------------------------------------------------------
(* release: the entry goes, then the mapping, under one hold of the lock.  *)

Dropped(o) == owned \ {o}
BeginRelease(t, h) ==
    /\ At(t, "idle") /\ lock = None /\ ops < MaxOps /\ "release" \in does.ops /\ ops' = ops + 1
    /\ \E o \in owned :
          /\ o.base = h.base /\ owned' = Dropped(o)
          /\ Goto(t, [pc |-> "unmap", o |-> o])
    /\ lock' = t
    /\ UNCHANGED <<kind, does, pageVars, pool, handles, stranded, reserves>>
Credit(o) == IF kind = "sim" /\ Recycle(o.fsm) = "RecyclableUntyped" THEN pool + o.len ELSE pool
Unmap(t, ok) ==
    LET o == th[t].o IN
    /\ At(t, "unmap") /\ (ok \/ Posix)
    /\ IF ok THEN UnmapPages(Covers(o)) /\ UNCHANGED stranded
       ELSE stranded' = stranded \cup Covers(o) /\ UNCHANGED <<use, told, guarded>>
    /\ pool' = Credit(o) /\ End(t)
    /\ UNCHANGED <<kind, does, access, zero, owned, handles, reserves, ops>>

\* drop: the last owner is gone, so no call is in progress and none follows.
DropProvider ==
    /\ \A t \in Threads : At(t, "idle")
    /\ UnmapPages(UNION {Covers(o) : o \in owned}) /\ owned' = {}
    /\ pool' = PoolTotal /\ handles' = {} /\ reserves' = MaxReserves
    /\ UNCHANGED <<kind, does, access, zero, stranded, lock, th, ops>>

\* The program writes to memory it was told is committed.
Touch(p) ==
    /\ use[p] = "ours" /\ told[p] /\ access[p] /\ zero[p]
    /\ zero' = [zero EXCEPT ![p] = FALSE]
    /\ UNCHANGED <<kind, does, use, access, told, guarded, owned, pool, handles, stranded, lock, th,
                   reserves, ops>>

Next ==
    \/ DropProvider
    \/ \E p \in Pages : OtherMap(p) \/ Touch(p)
    \/ \E t \in Threads :
          \/ \E align \in does.aligns, raw \in Pages : Map(t, align, raw)
          \/ MapFails(t) \/ SkipFront(t) \/ Push(t)
          \/ \E base \in Pages : SimReserve(t, base)
          \/ \E h \in handles : BeginRelease(t, h) \/ \E op \in does.ops : Begin(t, op, h)
          \/ DiscardFails(t) \/ PurgeForced(t) \/ PurgeLazy(t) \/ Bind(t)
          \/ \E ok \in BOOLEAN :
                \/ Trim(t, ok) \/ Commit(t, ok) \/ Decommit(t, ok) \/ Unmap(t, ok)
                \/ \E on \in BOOLEAN : Protect(t, on, ok)

Spec == Init /\ [][Next]_vars

-----------------------------------------------------------------------------
Resident == UNION {Covers(o) : o \in owned}
InFlight ==
    UNION {IF At(t, "trim") THEN {th[t].keep} \cup th[t].extra \cup th[t].tail
           ELSE IF At(t, "unmap") THEN Covers(th[t].o) ELSE {} : t \in Threads}

TypeOK ==
    /\ use \in [Pages -> {"free", "ours", "other"}] /\ access \in [Pages -> BOOLEAN]
    /\ lock \in Threads \cup {None} /\ pool \in 0 .. PoolTotal
    /\ \A o \in owned : o.fsm = (IF Posix THEN None ELSE "AllocatorCommitted")

\* Recorded reservations are disjoint and mapped for this provider, whoever maps
\* and unmaps around them (reserve, release).
OwnedMapped ==
    /\ \A o \in owned : \A p \in Covers(o) : use[p] = "ours"
    /\ \A o, q \in owned : o # q => Covers(o) \cap Covers(q) = {}

\* Every mapping made for the provider is recorded, being trimmed or released, or
\* one whose munmap failed.
NothingStranded == {p \in Pages : use[p] = "ours"} = Resident \cup InFlight \cup stranded

\* A system call on a validated range acts on a reservation that is still live: a
\* release waits for the lease (with_owned_subrange).  The simulation gives no such
\* lease: checked_subrange has let go of the lock when decommit and purge_forced
\* write, and the frame may have been released by then.
LeaseCoversCall ==
    Posix => \A t \in Threads : At(t, "act") =>
        \E o \in owned : th[t].pages \subseteq Covers(o) /\ \A p \in Covers(o) : use[p] = "ours"

\* Memory a caller was told is committed can be touched unless it protected it, and
\* in guard mode memory it was told is not committed traps (commit, decommit).
AccessAsTold ==
    \A p \in Resident :
        /\ told[p] /\ p \notin guarded => access[p]
        /\ kind = "guard" /\ ~told[p] /\ p \notin guarded => ~access[p]

\* Uncommitted memory reads as zero once committed, as POSIX promises
\* (committed_memory_is_zeroed).
UncommittedIsZero == Posix => \A p \in Resident : ~told[p] => zero[p]

\* The simulation's pool and the charges of its live frames make up its total.
PoolBalances ==
    kind = "sim" => PoolTotal = pool + Cardinality(Resident) + Cardinality(InFlight)
=============================================================================
