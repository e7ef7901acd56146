---------------------------- MODULE FrontEnd ----------------------------
(***************************************************************************)
(* The front end of the small-object path: the per-CPU caches of           *)
(* cpu_cache.rs with their three access modes (locked, restartable         *)
(* sequence, pinned core), the transfer cache above them, the central      *)
(* free list, and the refill, flush and drain routines of cache_ops.rs     *)
(* that move batches between the three.  One size class; Objs is the one   *)
(* span that serves it.                                                    *)
(*                                                                         *)
(* A restartable sequence is two steps here, the reads (with the staging   *)
(* store of a push) and the store of the length that commits; the kernel   *)
(* aborts it when its thread is switched out or migrated, or on the fence. *)
(* The scheduler may move a thread between reading its core and using it,  *)
(* so a core that was only read (a hint, the core of an area) is any core. *)
(***************************************************************************)
EXTENDS Integers, Sequences, SequencesExt, FiniteSets

CONSTANTS Threads, Objs, None,
          Cpus,         \* the cores, up to MAX_CPUS
          HardCap,      \* max_local_capacity of the class
          Batch,        \* batch of the class, which is also MAX_BATCH_LEN here
          TransferCap,  \* default_capacity of the class, scaled down
          Configs       \* the process configurations explored, see Init

VARIABLES uses,     \* the span, and what this process does besides allocating and freeing
          on,       \* the core each thread runs on, None when switched out
          mode,     \* CpuCache::mode
          latch,    \* CpuCache::rseq_ever_enabled
          arming,   \* enable_rseq is between the latch and the mode
          slot,     \* CpuSlot of each core: ready, soft, len, buf
          lock,     \* PerCpu::locked: the holder
          binUp,    \* TransferBin::initialized
          bin,      \* the transfer bin's entries
          central,  \* objects on the central free list
          spare,    \* objects of the span while it is not mapped
          held,     \* objects the application holds
          pc, job,  \* where each thread is, and in which operation
          at,       \* the core whose slot the operation works on
          obj,      \* the object being freed
          bag,      \* the batch in the operation's stack buffer
          todo,     \* what a drain may still move from where it is
          cores,    \* the cores a drain has not come to
          reg,      \* the registers of a restartable sequence
          solo      \* the thread that allocates while all others are idle

midVars    == <<binUp, bin, central, spare>>
modeVars   == <<uses, mode, latch, arming>>
threadVars == <<pc, job, at, obj, bag, todo, cores, reg>>
vars == <<on, modeVars, slot, lock, midVars, held, threadVars, solo>>

\* What the model takes of its constants.
ConstantsOK == None \notin Threads \cup Cpus

NoReg == [len |-> 0, val |-> None]
EmptySlot == [ready |-> FALSE, soft |-> 0, len |-> 0, buf |-> [i \in 1 .. HardCap |-> None]]
Least(m, n) == IF m < n THEN m ELSE n

\* Every variable has its type, a core runs one thread, and a slot's counters stay within its
\* buffer: 1 <= soft <= hard, len <= hard (CpuSlot::check_invariants).
TypeOK ==
    /\ on \in [Threads -> Cpus \cup {None}]
    /\ \A t, u \in Threads : on[t] = on[u] /\ on[t] # None => t = u
    /\ uses \in Configs /\ mode \in {"locked", "rseq", "pinned"} /\ latch \in BOOLEAN /\ arming \in BOOLEAN
    /\ lock \in [Cpus -> Threads \cup {None}]
    /\ \A c \in Cpus :
         /\ slot[c].ready \in BOOLEAN /\ slot[c].len \in 0 .. HardCap
         /\ slot[c].soft \in (IF slot[c].ready THEN 1 .. HardCap ELSE {0})
         /\ \A i \in 1 .. HardCap : slot[c].buf[i] \in Objs \cup {None}
    /\ binUp \in BOOLEAN /\ bin \in Seq(Objs) /\ Len(bin) <= TransferCap
    /\ central \subseteq Objs /\ spare \subseteq Objs /\ held \subseteq Objs
    /\ pc \in [Threads -> {"idle", "section", "commit", "pinned", "lock", "body",
                           "xget", "cget", "xput", "cput", "central", "any", "xlast",
                           "cfree", "look", "loop", "xdrain"}]
    /\ job \in [Threads -> {"none", "pop", "repop", "push", "repush", "refill", "flush",
                            "drain", "empty"}]
    /\ at \in [Threads -> Cpus \cup {None}] /\ obj \in [Threads -> Objs \cup {None}]
    /\ \A t \in Threads : bag[t] \in Seq(Objs) /\ Len(bag[t]) <= Batch /\ todo[t] \in Nat
    /\ cores \in [Threads -> SUBSET Cpus]
    /\ solo \in Threads \cup {None}

Init ==
    /\ \E t \in Threads : \E c \in Cpus :
         on = [u \in Threads |-> IF u = t THEN c ELSE None]
    /\ uses \in Configs /\ arming = FALSE
    /\ mode = IF "switch" \in uses.does THEN "locked" ELSE "rseq"
    /\ latch = (mode = "rseq")
    /\ slot = [c \in Cpus |-> EmptySlot] /\ lock = [c \in Cpus |-> None]
    /\ binUp = FALSE /\ bin = <<>> /\ central = {} /\ spare = uses.span /\ held = {}
    /\ pc = [t \in Threads |-> "idle"] /\ job = [t \in Threads |-> "none"]
    /\ at = [t \in Threads |-> None] /\ obj = [t \in Threads |-> None]
    /\ bag = [t \in Threads |-> <<>>] /\ todo = [t \in Threads |-> 0]
    /\ cores = [t \in Threads |-> {}]
    /\ reg = [t \in Threads |-> NoReg] /\ solo = None

-----------------------------------------------------------------------------
(* Where an operation goes next. *)

Goto(t, p, j) == pc' = [pc EXCEPT ![t] = p] /\ job' = [job EXCEPT ![t] = j]
To(t, p, j, c) == Goto(t, p, j) /\ at' = [at EXCEPT ![t] = c]

\* The operation is over and its locals die.
Finish(t) ==
    /\ To(t, "idle", "none", None)
    /\ obj' = [obj EXCEPT ![t] = None] /\ reg' = [reg EXCEPT ![t] = NoReg]
    /\ bag' = [bag EXCEPT ![t] = <<>>] /\ todo' = [todo EXCEPT ![t] = 0]
    /\ cores' = [cores EXCEPT ![t] = {}]
    /\ solo' = IF solo = t THEN None ELSE solo

Stay(t) == UNCHANGED <<obj, bag, todo, cores, solo>>

\* claim_cached_object, hand_out_object: the object is the caller's.
Vend(t, o) == held' = held \cup {o} /\ Finish(t)

\* current_core: a hint, or a reading that may be stale when it is used, so any core.
CurrentCore == Cpus

\* The mode dispatch of fe_pop_tracked and fe_push_tracked.
Dispatch(t, j) ==
    \/ mode = "rseq" /\ To(t, "section", j, None)
    \/ mode = "pinned" /\ To(t, "pinned", j, on[t])
    \/ mode = "locked" /\ \E c \in CurrentCore : To(t, "lock", j, c)

\* An empty pop: the first try refills the slot that was tried, the second goes round again
\* (FRONT_END_POP_RETRY) or gives up on the cache.
AfterEmpty(t, c) ==
    /\ \/ job[t] = "pop" /\ To(t, "xget", "refill", c)
       \/ job[t] = "repop" /\ (Dispatch(t, "pop") \/ To(t, "central", "none", None))
    /\ Stay(t)

\* A full push: the first try flushes the slot that was tried, the second gives up.
AfterFull(t, c) ==
    /\ \/ job[t] = "push" /\ To(t, "lock", "flush", c)
       \/ job[t] = "repush" /\ To(t, "cfree", "none", None)
    /\ Stay(t)

Pops(t) == job[t] \in {"pop", "repop"}
Pushes(t) == job[t] \in {"push", "repush"}

AllocSmall(t) ==
    /\ pc[t] = "idle"
    /\ Dispatch(t, "pop")
    /\ solo' = IF \A u \in Threads \ {t} : pc[u] = "idle" THEN t ELSE None
    /\ UNCHANGED <<modeVars, slot, lock, midVars, held, obj, bag, todo, cores, reg>>

FreeSmall(t) ==
    /\ pc[t] = "idle"
    /\ \E o \in held : held' = held \ {o} /\ obj' = [obj EXCEPT ![t] = o]
    /\ Dispatch(t, "push")
    /\ solo' = None
    /\ UNCHANGED <<modeVars, slot, lock, midVars, bag, todo, cores, reg>>

-----------------------------------------------------------------------------
(* The slot of a core, as the access modes read and write it. *)

Popped(s, n) == [s EXCEPT !.len = @ - n,
                          !.buf = [i \in 1 .. HardCap |-> IF i > s.len - n THEN None ELSE @[i]]]
Pushed(s, q) == [s EXCEPT !.len = @ + Len(q),
                          !.buf = [i \in 1 .. HardCap |-> IF i \in s.len + 1 .. s.len + Len(q)
                                                          THEN q[i - s.len] ELSE @[i]]]

\* What push_batch may add: up to the hard capacity, nothing before initialisation.
Space(s) == IF s.ready THEN HardCap - s.len ELSE 0
Top(s, n) == [i \in 1 .. n |-> s.buf[s.len - n + i]]

\* Lazy initialisation: the metadata for the slot (or for the table of slots) may not be had.
Prepared(s) ==
    IF s.ready THEN {s} ELSE {s, [s EXCEPT !.ready = TRUE, !.soft = Least(Batch, HardCap)]}

-----------------------------------------------------------------------------
(* The restartable sequences of topo-arch. *)

\* The sequence refuses a core whose lock byte is set or whose slot has no buffer.
MayEnter(c) == lock[c] = None /\ slot[c].ready

\* The reads of the sequence, up to the store that commits.
SectionRead(t) ==
    /\ pc[t] = "section"
    /\ MayEnter(on[t])
    /\ \E c \in {on[t]} : \E s \in {slot[c]} :
         \/ Pops(t) /\ s.len = 0 /\ (\E d \in Cpus : AfterEmpty(t, d)) /\ UNCHANGED <<slot, reg>>
         \/ /\ Pops(t) /\ s.len > 0 /\ To(t, "commit", job[t], c) /\ Stay(t)
            /\ reg' = [reg EXCEPT ![t] = [len |-> s.len - 1, val |-> s.buf[s.len]]]
            /\ UNCHANGED slot
         \/ Pushes(t) /\ s.len >= s.soft /\ (\E d \in Cpus : AfterFull(t, d)) /\ UNCHANGED <<slot, reg>>
         \/ /\ Pushes(t) /\ s.len < s.soft /\ To(t, "commit", job[t], c) /\ Stay(t)
            /\ slot' = [slot EXCEPT ![c].buf[s.len + 1] = obj[t]]
            /\ reg' = [reg EXCEPT ![t] = [len |-> s.len + 1, val |-> None]]
    /\ UNCHANGED <<modeVars, lock, midVars, held>>

\* Fallback: the core is locked or has no slot, or RSEQ_ABORT_RETRY is used up.  The locked path
\* then works on effective_core.
SectionFallback(t) ==
    /\ pc[t] = "section"
    /\ \E c \in CurrentCore : To(t, "lock", job[t], c)
    /\ Stay(t) /\ UNCHANGED <<modeVars, slot, lock, midVars, held, reg>>

\* The committing store.  (What lies above len is dead, and forgotten.)
SectionCommit(t) ==
    /\ pc[t] = "commit"
    /\ IF Pops(t)
       THEN /\ slot' = [slot EXCEPT ![at[t]].len = reg[t].len, ![at[t]].buf[reg[t].len + 1] = None]
            /\ Vend(t, reg[t].val)
       ELSE /\ slot' = [slot EXCEPT ![at[t]].len = reg[t].len]
            /\ Finish(t) /\ UNCHANGED held
    /\ UNCHANGED <<modeVars, lock, midVars>>

\* The kernel aborts the sequences of the threads in S; each starts over.  What a push staged
\* lies above len.
Hit(S) == {u \in S : pc[u] = "commit"}
Staged(S, c) == {reg[u].len : u \in {v \in Hit(S) : at[v] = c /\ Pushes(v)}}
Abort(S, p) ==
    /\ pc' = [u \in Threads |-> IF u \in Hit(S) THEN "section" ELSE p[u]]
    /\ at' = [u \in Threads |-> IF u \in Hit(S) THEN None ELSE at[u]]
    /\ reg' = [u \in Threads |-> IF u \in Hit(S) THEN NoReg ELSE reg[u]]
    /\ slot' = [c \in Cpus |-> [slot[c] EXCEPT !.buf =
                  [i \in 1 .. HardCap |-> IF i \in Staged(S, c) /\ i > slot[c].len THEN None ELSE @[i]]]]

-----------------------------------------------------------------------------
(* The pinned sequences: no lock; the core is this thread's alone (the hand-off contract). *)

PinnedAccess(t) ==
    /\ pc[t] = "pinned"
    /\ \E s \in Prepared(slot[at[t]]) :
         \/ /\ Pops(t) /\ s.len > 0
            /\ slot' = [slot EXCEPT ![at[t]] = Popped(s, 1)] /\ Vend(t, s.buf[s.len])
         \/ /\ Pops(t) /\ s.len = 0
            /\ slot' = [slot EXCEPT ![at[t]] = s] /\ AfterEmpty(t, at[t]) /\ UNCHANGED <<held, reg>>
         \/ /\ Pushes(t) /\ s.len < s.soft
            /\ slot' = [slot EXCEPT ![at[t]] = Pushed(s, <<obj[t]>>)] /\ Finish(t) /\ UNCHANGED held
         \/ /\ Pushes(t) /\ s.len >= s.soft
            /\ slot' = [slot EXCEPT ![at[t]] = s] /\ AfterFull(t, at[t]) /\ UNCHANGED <<held, reg>>
    /\ UNCHANGED <<modeVars, lock, midVars>>

\* The oracle does not know the core: the operation is declined, with no slot to refill or flush.
PinnedUnknown(t) ==
    /\ pc[t] = "pinned"
    /\ IF Pops(t) THEN To(t, "central", "none", None) ELSE To(t, "cfree", "none", None)
    /\ Stay(t) /\ UNCHANGED <<modeVars, slot, lock, midVars, held, reg>>

-----------------------------------------------------------------------------
(* The locked path: lock the core, fence when not its owner, then the body. *)

Lock(t) == lock' = [lock EXCEPT ![at[t]] = t]
Unlock(t) == lock' = [lock EXCEPT ![at[t]] = None]

\* drain_cpu turns to another core; after the last, flush_front_end_all drains the transfer bin.
NextCore(t, S) ==
    \/ /\ S # {}
       /\ \E c \in S : To(t, "look", "drain", c) /\ cores' = [cores EXCEPT ![t] = S \ {c}]
       /\ todo' = [todo EXCEPT ![t] = 0]
    \/ /\ S = {} /\ To(t, "xdrain", "empty", None) /\ UNCHANGED cores
       /\ todo' = [todo EXCEPT ![t] = Len(bin)]

\* Mutant: a refill whose push was declined forgets the batch it holds.
ForgetsDeclinedBatch(t) ==
    \/ Pops(t) /\ AfterEmpty(t, at[t])
    \/ Pushes(t) /\ AfterFull(t, at[t])
    \/ /\ job[t] = "refill" /\ To(t, "lock", "repop", at[t]) /\ bag' = [bag EXCEPT ![t] = <<>>]
       /\ UNCHANGED <<obj, todo, cores, solo>>
    \/ job[t] = "flush" /\ Dispatch(t, "repush") /\ Stay(t)
    \/ job[t] = "drain" /\ NextCore(t, cores[t]) /\ UNCHANGED <<obj, bag, solo>>

\* What each operation does when the access is declined or finds nothing.
Declined(t) ==
    \/ Pops(t) /\ AfterEmpty(t, at[t])
    \/ Pushes(t) /\ AfterFull(t, at[t])
    \/ job[t] = "refill" /\ To(t, "xput", "refill", at[t]) /\ Stay(t)
    \/ job[t] = "flush" /\ Dispatch(t, "repush") /\ Stay(t)
    \/ job[t] = "drain" /\ NextCore(t, cores[t]) /\ UNCHANGED <<obj, bag, solo>>

\* Mutant: the fence follows the current mode, not whether sequences may still be running.
FencesByMode(t) == mode = "rseq" /\ at[t] # on[t]

\* fence_if_non_owner: whoever is not on the core, once sequences may be running.
MustFence(t) == latch /\ at[t] # on[t]

\* Locking the core and fencing are one step: the slot is not touched in between, and what a
\* sequence commits there it could as well have committed before.  The membarrier may be refused
\* (a seccomp policy), which declines the operation.
LockAndFence(t) ==
    /\ pc[t] = "lock" /\ lock[at[t]] = None
    /\ \/ /\ ~MustFence(t) /\ Lock(t) /\ Goto(t, "body", job[t])
          /\ Stay(t) /\ UNCHANGED <<at, reg, slot>>
       \/ /\ MustFence(t) /\ Lock(t) /\ Abort(Threads, [pc EXCEPT ![t] = "body"])
          /\ Stay(t) /\ UNCHANGED job
       \/ MustFence(t) /\ Declined(t) /\ UNCHANGED <<lock, reg, slot>>
    /\ UNCHANGED <<modeVars, midVars, held>>

\* fe_pop_locked.
PopLocked(t) ==
    /\ pc[t] = "body" /\ Pops(t)
    /\ \E s \in Prepared(slot[at[t]]) :
         \/ /\ s.len > 0
            /\ slot' = [slot EXCEPT ![at[t]] = Popped(s, 1)] /\ Vend(t, s.buf[s.len])
         \/ s.len = 0 /\ slot' = [slot EXCEPT ![at[t]] = s] /\ Declined(t) /\ UNCHANGED <<held, reg>>
    /\ Unlock(t) /\ UNCHANGED <<modeVars, midVars>>

\* fe_push_locked.
PushLocked(t) ==
    /\ pc[t] = "body" /\ Pushes(t)
    /\ \E s \in Prepared(slot[at[t]]) :
         \/ /\ s.len < s.soft
            /\ slot' = [slot EXCEPT ![at[t]] = Pushed(s, <<obj[t]>>)] /\ Finish(t) /\ UNCHANGED held
         \/ /\ s.len >= s.soft
            /\ slot' = [slot EXCEPT ![at[t]] = s] /\ Declined(t) /\ UNCHANGED <<held, reg>>
    /\ Unlock(t) /\ UNCHANGED <<modeVars, midVars>>

\* The budget left after a batch of n.
Spent(b, n) == IF n < b THEN b - n ELSE 0

\* pop_batch of a flush, and pop_slot of a drain, whose budget shrinks by what was taken.
PopBatch(t) ==
    /\ pc[t] = "body" /\ job[t] \in {"flush", "drain"}
    /\ \E s \in {slot[at[t]]} : \E n \in {Least(Batch, s.len)} :
         \/ n = 0 /\ Declined(t) /\ UNCHANGED slot
         \/ /\ n > 0 /\ To(t, "xput", job[t], at[t])
            /\ slot' = [slot EXCEPT ![at[t]] = Popped(s, n)]
            /\ bag' = [bag EXCEPT ![t] = Top(s, n)]
            /\ todo' = [todo EXCEPT ![t] = Spent(@, n)]
            /\ UNCHANGED <<obj, cores, solo>>
    /\ Unlock(t) /\ UNCHANGED <<modeVars, midVars, held, reg>>

\* push_batch of a refill, up to the hard capacity; then the pop is tried again on this core.
PushBatch(t) ==
    /\ pc[t] = "body" /\ job[t] = "refill"
    /\ \E s \in {slot[at[t]]} :
       \E n \in {Least(Len(bag[t]), Space(s))} :
         /\ slot' = [slot EXCEPT ![at[t]] = Pushed(s, SubSeq(bag[t], 1, n))]
         /\ bag' = [bag EXCEPT ![t] = SubSeq(@, n + 1, Len(@))]
         /\ IF n = Len(bag[t]) THEN Goto(t, "lock", "repop") ELSE Goto(t, "xput", "refill")
    /\ Unlock(t) /\ UNCHANGED <<modeVars, midVars, held, at, obj, todo, cores, reg, solo>>

-----------------------------------------------------------------------------
(* The transfer cache and the central free list. *)

\* fe_pop_on_core: the pop after a refill is tried on the core that was refilled.
PopOnCore(t) == To(t, "lock", "repop", at[t])

\* What follows once the batch in hand is stored.
Continue(t) ==
    \/ job[t] = "refill" /\ PopOnCore(t)
    \/ job[t] = "flush" /\ Dispatch(t, "repush")
    \/ job[t] = "drain" /\ To(t, "loop", "drain", at[t])
    \/ job[t] = "empty" /\ To(t, "xdrain", "empty", None)

\* try_pop_batch: the last n of the bin.
TryPopBatch(n) == SubSeq(bin, Len(bin) - n + 1, Len(bin))

\* refill asks the transfer cache first ...
RefillFromTransfer(t) ==
    /\ pc[t] = "xget"
    /\ \E up \in {binUp, TRUE} : \E n \in {Least(Batch, Len(bin))} :
         /\ binUp' = up
         /\ bin' = SubSeq(bin, 1, Len(bin) - n)
         /\ bag' = [bag EXCEPT ![t] = TryPopBatch(n)]
         /\ IF n > 0 THEN Goto(t, "lock", "refill") ELSE Goto(t, "cget", "refill")
    /\ UNCHANGED <<modeVars, slot, lock, central, spare, held, at, obj, todo, cores, reg, solo>>

\* ... then central, for a batch of one span; without one the cached path gives up.
RefillFromCentral(t) ==
    /\ pc[t] = "cget"
    /\ \/ /\ central = {} /\ To(t, "central", "none", None) /\ UNCHANGED <<central, bag>>
       \/ \E S \in SUBSET central :
            /\ Cardinality(S) = Least(Batch, Cardinality(central))
            /\ central' = central \ S /\ central # {}
            /\ bag' = [bag EXCEPT ![t] = SetToSeq(S)]
            /\ To(t, "lock", "refill", at[t])
    /\ UNCHANGED <<modeVars, slot, lock, binUp, bin, spare, held, obj, todo, cores, reg, solo>>

\* The room in the transfer bin; none where it cannot be initialised.
Room(up) == IF up THEN TransferCap - Len(bin) ELSE 0

\* try_push_batch: as much as fits.
ToTransfer(t) ==
    /\ pc[t] = "xput"
    /\ \E up \in {binUp, TRUE} :
       \E n \in {Least(Len(bag[t]), Room(up))} :
         /\ binUp' = up
         /\ bin' = bin \o SubSeq(bag[t], 1, n)
         /\ bag' = [bag EXCEPT ![t] = SubSeq(@, n + 1, Len(@))]
         /\ IF n = Len(bag[t]) THEN Continue(t) ELSE To(t, "cput", job[t], at[t])
    /\ UNCHANGED <<modeVars, slot, lock, central, spare, held, obj, todo, cores, reg, solo>>

\* insert_batch: the span whose last object comes home is retired (on_empty).
Inserted(S) ==
    IF central \cup S = uses.span THEN central' = {} /\ spare' = uses.span
                             ELSE central' = central \cup S /\ UNCHANGED spare

\* flush_addrs_to_central: the remainder of the batch.
ToCentral(t) ==
    /\ pc[t] = "cput"
    /\ Inserted(ToSet(bag[t]))
    /\ bag' = [bag EXCEPT ![t] = <<>>]
    /\ Continue(t)
    /\ UNCHANGED <<modeVars, slot, lock, binUp, bin, held, obj, todo, cores, reg, solo>>

\* free_small_screened where the cache would not take the object.
FreeToCentral(t) ==
    /\ pc[t] = "cfree"
    /\ Inserted({obj[t]})
    /\ Finish(t)
    /\ UNCHANGED <<modeVars, slot, lock, binUp, bin, held>>

\* alloc_small below the cache: central, a new span, ...
AllocFromCentral(t) ==
    /\ pc[t] = "central"
    /\ \/ \E o \in central : central' = central \ {o} /\ Vend(t, o) /\ UNCHANGED spare
       \/ /\ central = {} /\ spare # {} /\ central' = spare /\ spare' = {}
          /\ UNCHANGED <<held, pc, job, at, reg>> /\ Stay(t)
       \/ /\ central = {} /\ To(t, "any", "none", None)
          /\ Stay(t) /\ UNCHANGED <<central, spare, held, reg>>
    /\ UNCHANGED <<modeVars, slot, lock, binUp, bin>>

\* Mutant: no span and nothing in central fails the allocation at once.
FailsWithoutTransfer(t) ==
    /\ pc[t] = "any"
    /\ \/ \E o \in central : central' = central \ {o} /\ Vend(t, o)
       \/ central = {} /\ Finish(t) /\ UNCHANGED <<central, held>>
    /\ UNCHANGED <<modeVars, slot, lock, binUp, bin, spare>>

\* ... once more central, of any placement class, when no span can be had ...
AllocAnyClass(t) ==
    /\ pc[t] = "any"
    /\ \/ \E o \in central : central' = central \ {o} /\ Vend(t, o)
       \/ central = {} /\ To(t, "xlast", "none", None) /\ Stay(t) /\ UNCHANGED <<central, held, reg>>
    /\ UNCHANGED <<modeVars, slot, lock, binUp, bin, spare>>

\* ... and last the transfer cache (alloc_small_from_transfer); else the allocation fails.
AllocFromTransfer(t) ==
    /\ pc[t] = "xlast"
    /\ \E up \in {binUp, TRUE} : binUp' = up
    /\ IF bin = <<>> THEN Finish(t) /\ UNCHANGED <<bin, held>>
                     ELSE bin' = Front(bin) /\ Vend(t, Last(bin))
    /\ UNCHANGED <<modeVars, slot, lock, central, spare>>

-----------------------------------------------------------------------------
(* flush_front_end_all: every core's slot, then the transfer bin. *)

FlushFrontEndAll(t) ==
    /\ "drain" \in uses.does /\ pc[t] = "idle" /\ mode # "pinned"
    /\ NextCore(t, Cpus)
    /\ solo' = None
    /\ UNCHANGED <<modeVars, slot, lock, midVars, held, obj, bag, reg>>

\* The budget of a core is the length seen before the first batch.
DrainLook(t) ==
    /\ pc[t] = "look"
    /\ IF slot[at[t]].len = 0 THEN NextCore(t, cores[t])
       ELSE /\ Goto(t, "lock", "drain") /\ todo' = [todo EXCEPT ![t] = slot[at[t]].len]
            /\ UNCHANGED <<at, cores>>
    /\ UNCHANGED <<modeVars, slot, lock, midVars, held, obj, bag, reg, solo>>

DrainLoop(t) ==
    /\ pc[t] = "loop"
    /\ IF todo[t] # 0 /\ slot[at[t]].len # 0
       THEN Goto(t, "lock", "drain") /\ UNCHANGED <<at, todo, cores>> ELSE NextCore(t, cores[t])
    /\ UNCHANGED <<modeVars, slot, lock, midVars, held, obj, bag, reg, solo>>

DrainTransfer(t) ==
    /\ pc[t] = "xdrain"
    /\ \E n \in {Least(todo[t], Least(Batch, Len(bin)))} :
         \/ n = 0 /\ Finish(t) /\ UNCHANGED bin
         \/ /\ n > 0 /\ To(t, "cput", "empty", None)
            /\ bin' = SubSeq(bin, 1, Len(bin) - n)
            /\ bag' = [bag EXCEPT ![t] = TryPopBatch(n)]
            /\ todo' = [todo EXCEPT ![t] = @ - n]
            /\ UNCHANGED <<obj, cores, reg, solo>>
    /\ UNCHANGED <<modeVars, slot, lock, binUp, central, spare, held>>

-----------------------------------------------------------------------------
(* The kernel's scheduler, the mode switches and the budget tick. *)

AllIdle == \A t \in Threads : pc[t] = "idle"

\* t is put on core c; who ran there is switched out.  Pinned threads do not move while working.
Schedule(t, c) ==
    /\ on[t] # c /\ (mode = "pinned" => AllIdle)
    /\ on' = [u \in Threads |-> IF u = t THEN c ELSE IF on[u] = c THEN None ELSE on[u]]
    /\ Abort({t} \cup {u \in Threads : on[u] = c}, pc)
    /\ UNCHANGED <<modeVars, lock, midVars, held, job, obj, bag, todo, cores, solo>>

\* enable_rseq arms the latch, then publishes the mode (or the locked one, without rseq).
EnableArm ==
    /\ "switch" \in uses.does /\ ~arming /\ mode = "locked"
    /\ latch' = TRUE /\ arming' = TRUE /\ UNCHANGED mode

EnableSwitch ==
    /\ arming
    /\ mode' = IF mode = "pinned" THEN mode ELSE "rseq"
    /\ arming' = FALSE /\ UNCHANGED latch

DisableRseq ==
    /\ "switch" \in uses.does /\ mode = "rseq"
    /\ mode' = "locked" /\ UNCHANGED <<latch, arming>>

\* The pinned mode is entered and left while nothing is in flight (the # Safety contract).
EnablePinned ==
    /\ "pinned" \in uses.does /\ mode # "pinned" /\ AllIdle
    /\ mode' = "pinned" /\ UNCHANGED <<latch, arming>>
DisablePinned == mode = "pinned" /\ AllIdle /\ mode' = "locked" /\ UNCHANGED <<latch, arming>>

Modes ==
    /\ EnableArm \/ EnableSwitch \/ DisableRseq \/ EnablePinned \/ DisablePinned
    /\ UNCHANGED <<uses, on, slot, lock, midVars, held, threadVars, solo>>

\* set_soft_capacity, called by the budget tick at any time and without the lock.
SetSoftCapacity(c) ==
    /\ "tick" \in uses.does /\ slot[c].ready
    /\ \E n \in 1 .. HardCap : n # slot[c].soft /\ slot' = [slot EXCEPT ![c].soft = n]
    /\ UNCHANGED <<on, modeVars, lock, midVars, held, threadVars, solo>>

Access(t) == SectionRead(t) \/ SectionFallback(t) \/ SectionCommit(t) \/ PinnedAccess(t)
             \/ PinnedUnknown(t) \/ LockAndFence(t) \/ PopLocked(t) \/ PushLocked(t)
             \/ PopBatch(t) \/ PushBatch(t)
Middle(t) == RefillFromTransfer(t) \/ RefillFromCentral(t) \/ ToTransfer(t) \/ ToCentral(t)
             \/ FreeToCentral(t) \/ AllocFromCentral(t) \/ AllocAnyClass(t) \/ AllocFromTransfer(t)
Drains(t) == DrainLook(t) \/ DrainLoop(t) \/ DrainTransfer(t)
Works(t) == Access(t) \/ Middle(t) \/ Drains(t)
Starts(t) == AllocSmall(t) \/ FreeSmall(t) \/ FlushFrontEndAll(t)
Runs(t) == on[t] # None /\ UNCHANGED on /\ (Works(t) \/ Starts(t))

Next ==
    \/ \E t \in Threads : Runs(t)
    \/ \E t \in Threads, c \in Cpus : Schedule(t, c)
    \/ \E c \in Cpus : SetSoftCapacity(c)
    \/ Modes

Spec == Init /\ [][Next]_vars

-----------------------------------------------------------------------------
(* The places in which an object is, one for each occurrence.             *)
Places(o) ==
    {p \in {"slot"} \X Cpus \X (1 .. HardCap) :
        p[3] <= slot[p[2]].len /\ slot[p[2]].buf[p[3]] = o}
    \cup {p \in {"bag"} \X Threads \X (1 .. Batch) :
        p[3] <= Len(bag[p[2]]) /\ bag[p[2]][p[3]] = o}
    \cup {<<"bin", i>> : i \in {j \in DOMAIN bin : bin[j] = o}}
    \cup {<<"hand", t>> : t \in {u \in Threads : obj[u] = o}}
    \cup {<<"set", i>> : i \in {j \in 1 .. 3 : o \in <<central, spare, held>>[j]}}

\* CpuSlot::check_invariants and entries_distinct.
SlotCheck(c) ==
    slot[c].ready =>
        /\ slot[c].len <= HardCap /\ slot[c].soft \in 1 .. HardCap
        /\ \A i, j \in 1 .. slot[c].len :
              slot[c].buf[i] # None /\ (slot[c].buf[i] = slot[c].buf[j] => i = j)

\* TransferBin::check_invariants.
TransferCheck ==
    binUp => Len(bin) <= TransferCap /\ \A i, j \in DOMAIN bin : bin[i] = bin[j] => i = j

\* Every object is in exactly one place, and the oracle of the two caches (check_b2_cache)
\* accepts them at every instant: no interleaving of sequences, locked accesses, drains and mode
\* switches vends an object twice or loses one.
OnePlace ==
    /\ (\A c \in Cpus : SlotCheck(c)) /\ TransferCheck
    /\ \A o \in uses.span : Cardinality(Places(o)) = 1

\* The owner and a non-owner never work on the same slot: while a locked access is past its
\* fence no restartable sequence of that core can still commit.
OwnerExcluded ==
    \A t, u \in Threads : pc[t] = "body" /\ pc[u] = "commit" => at[t] # at[u]

\* "Availability before policy": an allocation that nobody disturbs fails only when neither
\* central nor the transfer cache has a free object left, whatever the fence or the metadata did.
FailsOnlyWhenDry ==
    solo # None /\ pc'[solo] = "idle" /\ held' = held => central = {} /\ bin = <<>>

\* A drain ends: on each core it moves at most the objects it saw there (plus the rest of one
\* batch), however fast other threads refill the slot behind it.
DrainBounded ==
    \A t \in Threads : job[t] = "drain" /\ pc[t] = "body" /\ pc'[t] = "xput" => todo'[t] < todo[t]

\* Every object is in one place of the front end, or in a thread's hands.
PlacesExact == TypeOK /\ OnePlace

\* An allocation fails only when the span is dry, and a drain does what it is
\* bounded to.
CallsServed == [][FailsOnlyWhenDry /\ DrainBounded]_vars
=============================================================================
