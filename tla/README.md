# TLA+ specifications of TopoMalloc

TLA+ models of the allocator, TLC configurations that check them on small instances,
and TLAPS proofs for every value of the constants. `PROJECT.json` lists the parts of
the system, the runs, the source lines each definition stands for (`map`), for every
checked property a plausible bug that breaks it (`mutants`), and what is hard to test
in this code (`hazards`).

```
tlc -workers 2 -config ForkGate.cfg MCForkGate      # one run
tlapm ForkGateProofs.tla                            # one proof module
```

Contents: 1 the system and its modules; 2 the runs; 3-6 the four protocols with
proofs; 7 the ranked locks and the descriptor snapshots; 8 the other modules; 9 what is
proved and what is only model-checked; 10 where code and comments disagree; 11 what is
not modelled.

## 1. The system

A call enters through the C ABI (`topo-abi`), which opens a guard of the fork gate
and calls the engine (`allocator.rs`). Small objects are served from per-CPU slots
(`cpu_cache.rs`), refilled in batches (`cache_ops.rs`) from a transfer cache and from
the central free lists (`central.rs`). A central list holds spans (`span.rs`), each a
run of pages cut into objects of one size class. Spans and large objects (`large.rs`)
are carved from extents (`extent.rs`) or hugepages (`huge.rs`), which a provider behind
the backend seam reserves, commits and releases (`backend.rs`, `hooks.rs`). A free finds
its descriptor through the page map (`pagemap.rs`, `ptr_class.rs`). Cutting across these:
ranked spin locks (`lock.rs`), arenas with quotas (`arena.rs`), the quarantine and the
fill patterns (`harden.rs`), the cache budget (`budget.rs`), the release controller
(`release.rs`), NUMA routing (`node_router.rs`), heap sampling (`sampling.rs`), learned
placement (`placement.rs`), bootstrap and initialisation.

| part | source | module | run |
|---|---|---|---|
| free/claim protocol of small objects | `allocator.rs`, `span.rs`, `central.rs`, `cache_ops.rs` | `FreeClaim` | `FreeClaim_*` |
| fork gate | `fork.rs` | `ForkGate`, `QuiesceGate` | `ForkGate` |
| atfork registration, first call | `fork_api.rs`, `lib.rs` of `topo-abi` | `Bringup` | `Startup` |
| bootstrap metadata arena | `bootstrap.rs` | `Bootstrap` | `Startup` |
| arenas and quotas | `arena.rs` | `ArenaTable` | `ArenaTable` |
| per-CPU caches, transfer cache, refill and flush | `cpu_cache.rs`, `transfer_cache.rs`, `cache_ops.rs`, `topo-arch` | `FrontEnd` | `FrontEnd` |
| spans, descriptor pool, central lists | `central.rs`, `span.rs`, `allocator.rs` | `SpanLifecycle` | `Metadata` |
| descriptor sequence lock | `span.rs` | `DescriptorSeqlock` | `Metadata` |
| page map | `pagemap.rs` | `PageMap` | `Metadata` |
| size classes, slab layout, pointer classification | `size_class.rs`, `slab.rs`, `ptr_class.rs`, `size-class-gen` | `SlabGeometry` | `Metadata` |
| extents | `extent.rs` | `ExtentMap`, `ExtentManager` | `BackEnd` |
| large objects | `large.rs` | `LargeObjects` | `BackEnd` |
| providers | `backend.rs`, `topo-backend-posix`, `topo-backend-sele4n` | `BackingProvider` | `BackEnd` |
| extent hooks | `hooks.rs`, `hooks_api.rs` | `HookProvider`, `HookAdapters` | `BackEnd` |
| request layer and byte accounts | `allocator.rs` | `Requests` | `BackEnd` |
| hugepage back end | `huge.rs` | `HugeBackend` | `BackEnd` |
| ranked locks | `lock.rs` | `RankedLocks` | `Policies` |
| quarantine ring | `harden.rs` | `QuarantineRing` | `Policies` |
| fill patterns, scrubbing | `harden.rs`, `allocator.rs` | `FreePatterns` | `Policies` |
| cache budget, release controller | `budget.rs`, `release.rs` | `CacheBudget`, `ReleaseController` | `Policies` |
| heap sampling, site profiles | `sampling.rs`, `placement.rs` | `HeapSampler`, `SiteProfiles` | `Policies` |
| NUMA topology and routing | `topology.rs`, `node_router.rs` | `NodeRouter` | `Policies` |
| rseq mode | `topo-arch/rseq` | `RseqMode` | `Startup` |
| C interface | `c_api.rs`, `extended.rs`, `arena_api.rs`, `flags.rs` | `CApi` | `Policies` |

How the modules meet: `ForkGate` implements `QuiesceGate`, and `Bringup` uses only the
promise of `QuiesceGate`. `ExtentManager` and `LargeObjects` are both built on `ExtentMap`.
`FreeClaim` has the markers of an object and treats the containers as multisets;
`FrontEnd` has the containers with their capacities, modes and preemption and leaves
the markers out; `SpanLifecycle` has the central side with lists, bitmaps and counts.
`DescriptorSeqlock` and `PageMap` justify what `FreeClaim` and `Requests` take for
granted: that the lookup of a pointer into a live span or object finds its owner.
`RankedLocks` takes from `ForkGate` that only the forking thread may hold a lock at a fork.

**Memory model.** Every access is one atomic step in program order. The protocols
decide on single words with acquire/release or stronger accesses; where the code
relies on a fence between different words (the rseq fence, the sequence lock) the
module says so. Reorderings of relaxed statistics are not visible here.

## 2. The runs

Every run is exhaustive. A run with several parts chooses one in its initial state and
leaves the variables of the others alone, so the parts do not multiply.

| run | instance | checks |
|---|---|---|
| `FreeClaim_correct` | 3 threads, spans of 2 and 1 objects, default, hinted and foreign requests, no quarantine | `InOnePlace`, `Backed`, `MarksSound` |
| `FreeClaim_quarantine` | 2 threads, the same spans, quarantine switched on and off | `HeldSafely` |
| `FreeClaim_doublefree` | 3 threads free the same 2 objects, by either route, any number of times | `FreedOnce` |
| `ForkGate` | 2 threads, 2 shards, 2 forks, nesting 2, 2 maintenance passes | `GateSound`, `ImplementsQuiesceGate`, `EverythingEnds` |
| `Startup` | 3 threads, 1 failing registration, 1 fork, constructor run or elided; bump arena of 8 bytes; 2 probing threads on every kind of host | `FirstCallSafe`, `NoBlindReturn`, `BootstrapSafe`, `RseqSound`, `EveryCallEnds` |
| `ArenaTable` | 2 threads, 3 slots, quotas 1 and 2, 3 generations, with and without the right to allocate | `TreeSound`, `QuotaKept`, `StaleHandlesStayStale` |
| `FrontEnd` | 2 threads, 2 cores, 2 objects, all modes | `PlacesExact`, `OwnerExcluded`, `CallsServed` |
| `Metadata` | spans, descriptors (three layouts), page map, geometry | `SpansSound`, `SnapshotsSound`, `PagesSound`, `PointersSound`, `MetadataSteps` |
| `BackEnd` | extents, large objects, providers, hooks, adapters, requests, hugepages (three shapes) | `ManagerSound`, `LargeSound`, `ProviderSound`, `HooksSound`, `AccountsSound`, `RegionsSound`, `BackEndSteps` |
| `Policies` | nine small instances | `LocksSound`, `RingSound`, `PatternsSound`, `BudgetsKept`, `ProfilesSound`, `RouterSound`, `CallsSound` |
| `SpanLifecycle_unwind` | publication fails, arenas are reset | violation of `PoolWellFormed` |
| `FreeClaim_unmark` | correct program, quarantine on | violation of `EntriesAreMarked` |

A property named `...Sound` (and `InOnePlace`, `Backed`, `QuotaKept`, ...) is a conjunction;
its conjuncts are defined and commented in the component's module and described below.
Symmetry is used for threads, cores, objects and arenas where the run checks
invariants and action properties only, never with liveness.

Deadlock is checked in the `FreeClaim`, `ForkGate` and `FrontEnd` runs. The others say
`CHECK_DEADLOCK FALSE`: their instances stop when a bound on creations, calls or ticks is
reached, and in `Startup` a child of an unhandled fork really can stop. In `ArenaTable`
`HolderGoesOn` takes its place: no path keeps the table lock.

## 3. FreeClaim: who owns a small object

**State.** Per object three markers, as in the span descriptor: `cached` (the residency
bit, lock-free), `free` (the central bitmap) and `quar` (the quarantined bit), the last
two written under the span lock and read without it. Then the places an object can be
in: `app` (with the program), `fe` (number of front-end entries that name it, slots
and transfer bin together), `ring` (quarantine), `evicted` (entries a thread has taken
out of the ring). Spans have a descriptor state, the central list they are on and the
kind of request they serve (`tag`: the default arena, a place-class hint, a foreign
arena). Per thread a program counter, the object it works on, and its route. `wins`
is a history variable: frees admitted since the object was last vended.

**Steps.** One step is one atomic access to a marker, or one critical section under
the bin lock. The central insert is the exception: its marker writes are seen by
readers without the lock, so it is three steps (`CentralInsert`,
`InsertClearQuarantined`, `InsertUnmark`) with the lock held in between. Loads and
stores are acquire/release in the code; the model has them in program order.

| code | actions |
|---|---|
| `free_with`, `is_free_awaiting_reuse` | `FreeCall`, `ScreenCached`, `ScreenCentral` |
| `free_small_screened` | `TryMarkCached`, `RevalidateCentral`, `RevalidateQuarantined`, `Unmark`, `Route`, `ReleaseClaim` |
| `maybe_quarantine_small`, `Quarantine::offer` | `QuarCheck`, `QuarEnabled`, `QuarCentral`, `QuarCached`, `MarkQuarantined`, `OfferHeld`, `OfferDeclined`, `UnclaimQuarantined`, `Held` |
| `drain_one`, `drain_quarantine`, `converge_quarantine`, `set_quarantine_enabled` | `DrainOne`, `DrainRing`, `ConvergeQuarantine`, `SetQuarantineEnabled` |
| `insert_batch_inner` | `CentralInsert`, `InsertRejected`, `InsertClearQuarantined`, `InsertUnmark`, `ListAfterInsert` |
| `retire_span`, `reclaim_span_slot`, `create_span` | `Deactivate`, `ReclaimSlot`, `CreateSpan` |
| `alloc_small_cached`, `claim_cached_object` | `FrontEndPop`, `ClaimCachedObject` |
| `remove_batch`, `alloc_small` | `RemoveFromCentral`, `Serves`, `AllocFromCentral` |
| `refill`, `flush`, `drain_transfer`, `flush_addrs_to_central` | `Refill`, `RefillMark`, `FlushPop`, `Publish` |

**Abstractions.** One size class. A batch has one object: the code treats the objects
of a batch one after the other, and the steps between them interleave with other
threads in the same way. The list order of the central lists is a choice. Which
request misses the cache, and which slot is full, is a choice. Content fills,
canaries and statistics are left out.

**Environment.** `DoubleFrees = FALSE` is a program that frees what it was handed, once.
With `TRUE` it may free any object of an active span at any time. `FreesRaceVends`
adds frees of an object that a refill has taken off the central list and not yet
marked; the code says (`cache_ops.rs`, the comment on losing the mark) that it then
gives up an object rather than vend it twice.

### Runs

The bounds: a free race involves two frees and one helper that drains, refills or
retires, hence three threads. Two spans are needed for a retirement, since the first
empty span of a bin is kept (`MaxEmptyCachedPerBin` is 1 in the code); a span of two
objects has a state between full and empty. With the quarantine two threads reach
every route, as one thread may hold an object and evict another.

`InOnePlace` is the heart for a correct program: no object is in two places, where it
would be handed out twice (`SingleResidence`), and none is in no place (`NoObjectLost`).
`Backed`: what is held lies in an active span, and a span is retired only when empty.
`MarksSound`: a front-end entry is marked cached, and no object is cached and
central-free at once. `HeldSafely` says the first two while the quarantine is switched
on and off. `FreedOnce` is about racing double frees without the quarantine: one free
is admitted per life of the object and the object ends up in one place. With the
quarantine on, a double free can defeat the screen (section 10).

`FreeClaim_unmark` is a violation run, described in section 10.

### Proofs

`FreeClaimProofs` proves `TypeOK` for every instance (`TypeCorrect`). The other theorems
are about a *covered* instance (`Covered`): no quarantine, and if the program
double-frees, then no frees racing a vend, no place-hinted spans and no retirement
(`MaxEmptyCachedPerBin` at least the number of spans). Outside these the properties are
false of the code or not claimed by it: section 10 and the comment in `refill` say why.

The inductive invariant `IInv` says of each object which *roles* name it: a role is
"with the program", "in hand of t", "an entry", "on the central list", "being vended",
and each determines the markers the object must carry. At most one role names it; a
thread inside an insert holds the lock and its object is central-free with the other
markers still to be cleared; a span about to be retired is off both lists and all
its objects are central-free. `SingleResidence` alone is not inductive: it does not
say that an unclaimed free which reads clear markers is looking at a live object.

The module goes through the steps that leave the central bin alone, then those under
the bin lock, and ends with the results: `EachInOnePlace` and `MarksAreSound` (correct
programs), `AlwaysBacked` and `EachFreedOnce` (every covered instance), each the property
of a run, from theorems for their conjuncts.

## 4. ForkGate: quiescence at fork()

**State.** Each shard word of `fork.rs` is a pending bit and a count. `depth` is the
thread-local nesting depth; `slot` and `nested` are the guards a thread holds; `fork`,
`cursor` and `sum` are the progress of `prefork` or `postfork_parent`. `alive` is the
set of threads of the process that is followed: `fork()` is one step into the parent
(`ForkParent`) or into the child (`ForkChild`, which leaves the forking thread alone).

**Steps.** One step is one atomic access to a shard with the thread-local work around
it. Shards are chosen freely, as a thread may migrate between any two operations.
In the child `postfork_child` is one step: there is nobody to interleave with. The
initialisation phase that `maintenance_guard` also tests is taken as reached (it never
goes back). The lock checker's reset belongs to `RankedLocks`.

`QuiesceGate` is the promise: a thread is inside an operation, or somebody owns the fork
window, never both. `ForkGate` is shown to implement it with `inside` the first-level
guards and `owner` the thread between `prefork` and its postfork handler.

### Run

Two shards suffice for an operation to land behind the drain's cursor, two threads for a
forker with a competing fork or operation, two forks for a second window after a first
and for a fork of the child. The proofs cover any number of each.

**Fairness.** A thread that is inside a gate handler keeps running (weak fairness).
Guards are dropped and the handlers that other libraries run in the window return:
each is a finite piece of straight-line code, but one that may open and close nested
guards meanwhile, hence strong fairness of leaving at each nesting level. Nothing is
assumed about starting operations, maintenance or forks. `FORK_LOCK` is an unfair spin
lock; `ForkEnds` holds because the number of forks is bounded, and says nothing
about starvation by endless forks.

`DrainEnds` needs the bound on maintenance passes. A pass that arrives in the window
adds to a count and takes it back; a host that retried without pause could be seen by
every scan of the drain. The code retries on the next tick of its pump. Operations
need no bound: each parks after it has backed out.

The counts themselves can be nonzero after the drain: an arrival that is about to back
out is counted. The comments at `fork.rs:421` and `fork.rs:539` say zero; nothing depends
on it, as the child overwrites the counts and the parent clears only the bits. The
property is therefore `QuiescedAtFork`, about admitted operations.

### Proofs

`ForkGateProofs` proves, for any finite set of threads and any number of shards, forks
and nesting levels: `GateIsSound` (`GateSound` is the types, `QuiescedAtFork`, exact counts
and depths, in the child too from the end of `postfork_child` on, and that nobody inside
waits on a fork bit) and `GateRefines`.
The inductive invariant `IInv` adds to the type invariant: what each
step of an entry implies about `slot`, `at` and `depth` (`LocalsOK`); that only the
holder of `FORK_LOCK` is past `acquire` (`LockHeld`); that the bits behind the cursor are
set while a fork is under way and clear otherwise (`BitsHold`); the exact counts
(`Balanced`); and that a drain's partial sum of zero means that nobody is admitted on
the shards already read (`OnlyForker`). The last is what makes the sequential scan
sound: a shard whose bit is set can lose admitted operations and gain none.
`GateRefines` maps `inside` and `owner` and shows each step a step of `QuiesceGate` or a
stutter.

## 5. Start-up: Bringup, Bootstrap and RseqMode

**State.** `guard` is the three-valued word `ATFORK`; `engine`, `builder` and `phase` are the
`OnceLock` and the initialisation phases; `inside` and `owner` are the operation gate,
here only its promise (`QuiesceGate`); `alive` is the process that is followed. `installs`,
`failures`, `seen` and `unhandled` are history.

**Steps.** One per atomic access of `global()` and `run_attempt`: `Global`, `Check`, `TryClaim`,
`Await`, `Install` (pthread_atfork, which may fail), `Publish`, `Enter`, `GetOrInit`, `Build`
(one phase a step; it may end without a backend), `Exit`. A fork runs the handlers if
they are installed when it starts (`Prefork`, `OpenWindow`, `ForkParent`, `ForkChild`), and
otherwise leaves the child with whatever there was. Calls that re-enter from inside
`pthread_atfork` or the initialiser go to the system allocator in the code and do not
appear.

`FirstCallSafe`: the handlers are installed at most once; the engine is not built before
some `pthread_atfork` has returned; no child of a handled fork is left with an engine that
another process was building. `NoBlindReturn`: a call returns only when the handlers
are installed or an attempt failed after the call began. `EveryCallEnds`: every first
call returns, and so does every call of the bootstrap arena.

Three threads are a claimant, a waiter and a forker; one failure is enough for a waiter
to see one and for the retry. `EveryCallEnds` excepts a child that was forked without
handlers or in the middle of a registration (`Stranded`): it really can wait for ever
(section 10).

**Fairness.** A thread inside `global()` goes on (weak fairness). Opening and closing a
fork window are strongly fair: the drain ends although operations come and go, which
`DrainEnds` of `ForkGate` establishes, and the handlers in the window return although
they may call the allocator. Nobody has to call or to fork.

### Proofs

`StartupProofs` proves `FirstCallIsSafe` and `NeverReturnsBlind` for any set of threads and
any number of failures and forks. The properties say nothing about a call under way, so
`IInv` adds it: one thread registers at a time and the word of `ATFORK` says so
(`WordInv`); whoever has an attempt behind it has seen it succeed or fail since its call
began (`CallInv`); and until a fork runs without handlers, a thread that may build the
engine is counted by the gate or owns the window, and nobody is counted while somebody
owns it (`GateInv`). `NeverReturnsBlind` is an action property and follows from `IInv`
in one step.

**Bootstrap** (`bootstrap.rs`), in the same run: the first caller brings the bump arena up
while the others spin; allocations are compare-exchange loops with alignment padding;
the arena is handed off to a successor at most once. `BootstrapSafe`: blocks lie in the
region, aligned, and never overlap, and nobody reads the arena or the successor while it
is being written. The region is 8 bytes at an unaligned base, so that padding and
exhaustion both happen within two blocks of 3 bytes.

`BootstrapIsSafe` proves `BootstrapSafe` for any number of threads, any region, sizes and
alignments. `BlocksDisjoint` is not inductive: an exchange succeeds if the cursor is what
the thread loaded, and says nothing of blocks. `BootInv` adds that every block ends at or
below the cursor, that an exchange under way loaded a cursor at which its block fits, and,
for the reads, which thread may write a cell in which state of the bootstrap
(`ArenaInv`, `SuccessorInv`, `CursorInv`).

**RseqMode** (`topo-arch/rseq`), in the same run: threads probe the host, register their
areas with the kernel, publish one mode and unregister; a fork child decides again.
`RseqSound`: a sequence runs only on the area the kernel tracks for its thread, the fence
works while sequences may run, and every `enable` of a process gets one answer. Two
threads probe at once, on hosts with and without glibc's registration, with a foreign
registration, a missing fence, and areas that survive a fork or not.

`RseqIsSound` proves `RseqSound` for any threads and hosts. The property speaks of the mode
once it is published; `RseqInv` also says what a decision not yet published has already
seen (the fence works, the intent to register stands), where an area may read as a CPU
without being tracked (only in a fork child that has not decided again), that no answer
was given before the mode, and that a child has one thread. It is a conjunction over the
threads of one predicate of a thread's own locals and the shared words (`ThreadInv`), so
each step only has to be followed for the thread that takes it and, where the mode or the
intent changes, for the others.

## 6. ArenaTable: quotas and incarnations

**State.** The atomics of a slot (`state`, `rights`, `generation`, `committed`, `reserved`,
`limit`, `live_children`), its parent link, `high_water` and the table lock. `live` (bytes of
the arena's objects) and `stale` (incarnations that ended) are history. `job` holds the
locals of a call, among them the value of `committed` it last loaded.

**Steps.** Charge, credit, reservation and release are compare-exchange loops on
`committed`, one exchange a step, so that charges of other threads come in between. The
rest of `delegate` and `finish_destroy` runs under the lock around those exchanges.
`reserved` is written right after an exchange, by the lock holder, for lock holders; it
changes with it. `arena_reset` and `arena_destroy` are `Begin...`, `DrainArena` (which may
fail), and the end that success or failure leads to. Their safety contract, that no
thread allocates from the arena or frees into it, is `Quiesced` and the guard of `Free`.

### Run

Three slots give the default arena, a root and a child, or a child and a grandchild below
the default arena; three generations give a slot destroyed or abandoned and created
again. The table's invariants relate at most one lock holder and one lock-free charge at
a time, hence two threads. `Unlimited` is the largest count, as in the code. Generations
do not reach the 32-bit wrap (`ids.rs` documents it).

`QuotaKept` is `LedgerSound` (what an arena has committed is exactly its objects, its
delegated budget and the requests in flight; the delegated budget is the quotas of its
live children; `check_invariants` accepts), `SubtreeWithinQuota` (the point of the
reservation: the objects of an arena and of all arenas below it fit its quota) and
`HolderGoesOn`. `TreeSound` has `NoOrphan`, which `SubtreeWithinQuota` needs: a grandchild
that outlived its parent would keep memory the root no longer counts. `NoOrphan` also
shows that the generation test in `return_reservation_to_parent_locked` never fails, and
`LedgerSound` that the saturating subtractions never saturate.

### Proofs

The theorems `TreeIsSound`, `HandlesStayStale` and `LedgerIsSound` hold for any finite
set of threads and any number of slots, quotas, sizes and generations. The properties
speak of moments at which the lock is free or an arena is in use; `IInv` says what holds
in between: who holds the lock and at which step (`LockInv`); what a destroyed, unpublished
or quarantined slot holds, and that ended incarnations are older than the present one
(`SlotInv`); the state of the arena a thread works on, and that one thread tears it down
(`WorkInv`); that a child count misses exactly the children on their way out (`TreeInv`);
and that the delegated budget is the quotas of the children not yet repaid plus what is
reserved for a child that does not exist yet (`LedgerInv`).

The sums of the ledger (`Total`) are cardinalities of sets of units, so that the
finite-set theorems give what a step changes: `TotalSplits` and its corollaries (changing
one argument, adding a child, removing one) take the place of an induction. The largest
steps are `delegate` and its creation of the slot; `CreateSlots` and `CreateStep` state what
the plain, the pending and the delegated creation have in common.

The module is split so that the parts can be checked apart: `ArenaState` has the
constants, the variables and the state functions of `ArenaTable`; `ArenaInvariant` defines
`IInv` over them and proves what a step preserves, given how it changes the variables;
`ArenaTableSteps` shows which of these changes each action makes, and `ArenaTableProofs`
has the sums, the ledger and the theorems.

## 7. RankedLocks and DescriptorSeqlock

### Ranked locks: no circular wait

**State.** The flag of each lock, its holder (history), and per thread the ranks the
checker has recorded. A thread takes and releases any lock in any order it likes; the
checker stops it before it would wait out of rank order. After a fork the model follows
the child, which resets the record.

`LocksSound`: a flag is set exactly while one acquire has returned and its release has
not stored; the record of a thread is the ranks of what it holds; no set of threads waits
in a circle. The run has three threads and four locks with the ranks of the code, two of
which share a rank.

`LockProofs` proves `LocksAreSound` for any threads and locks and any assignment of
8-bit ranks (`ConstantsOK`). That nobody waits in a circle needs that a thread waits only
above everything it holds, which follows from the record being exact when the wait
began, which needs its entries to be distinct, or a release would drop the wrong one;
that is `IInv`. The last step takes the waiter with the largest rank in a set of threads
that wait for one another.

### Descriptor snapshots

**State.** The version word, the fields and the check tag of one descriptor, and what the
update under way has still to store; per reader the version it began at and the values it
has loaded. A value carries the incarnation it belongs to (history). A stray write may
change a field between updates.

`SnapshotsSound`: a snapshot that is returned was the descriptor of one update, whole
(`NoTornSnapshot`); with debug checks no changed descriptor is returned
(`CorruptionCaught`); a reader gives up only when an update interfered
(`QuietReadAnswers`). `NoFalseCorruption`, an action property, says that an update in
progress is never reported as corruption. The run has the three layouts of the code (span
header, large object, span without debug checks), one reader, three writes and two
retries.

`LockProofs` proves `SnapshotsAreSound` and `NeverFalselyCorrupt` for any field lists, any
number of readers, retries and writes. The properties speak of a reader that has
finished. `SeqInv` says what a reader under way may rely on as long as the version is the
one it began at: the values it loaded are of the present incarnation; a value the tag does
not cover is the work of a stray write that is still in the field, so the sum will betray
it; and without a stray write the sum is the tag. An attempt behind it was spoilt by an
update. The theorems are
stated of `DescriptorSeqlock` itself; the run checks the same formulas for its three
instances of it.

## 8. The other modules

Each is described by the comment that opens it; here what it keeps, what it checks and
which bounds make the interesting cases happen. Names in parentheses are conjuncts.

### Front end

`FrontEnd`: slots in locked, restartable-sequence and pinned mode, a transfer bin, the
central list, and refill, flush, push-or-flush and the drains between them. A sequence
is two steps, its reads and the committing store; the kernel aborts it when its thread is
switched out, or on the fence. `PlacesExact`: every object is in one place. `OwnerExcluded`:
while a non-owner works on a slot no sequence commits there. `CallsServed`: an allocation
fails only when the span is dry (`FailsOnlyWhenDry`), and a drain moves on with every pop,
however fast others refill behind it (`DrainBounded`). Two cores and two threads give an
owner and a non-owner with a migration; a slot of two, a batch of two and a transfer bin
of one give partial acceptance at every level. Loads from a core's hint may be stale.

`FrontEndProofs` proves `OwnersExcluded` for any threads, cores and configurations. That no
sequence commits while a non-owner is past its fence is not inductive: it does not say
which threads may still start one. `OwnInv` adds that a core runs one thread, that a
thread past the fence holds the lock of its slot, that a sequence about to commit is on
its own core, and that the latch is set while any sequence runs or the mode lets one
start, so that no non-owner skips the fence.

### Metadata

`SpanLifecycle`: two descriptors, two classes, two arenas, three creations; one object
per bitmap word and one inline word, so that a recycled descriptor changes the number of
words. `SpansSound`: lists, bitmaps, counts, pool and extents agree after every operation.
The passing run has either failing publications or arena resets, never both: with both
it fails (`SpanLifecycle_unwind`, section 10).
`DescriptorSeqlock`: one reader of each layout (span header, large object, build without
debug checks), three writes, two retries. `SnapshotsSound`: no snapshot mixes two
incarnations, none gives up unless an update interfered, a stray write is caught.
`PageMap`: three levels of two slots, overlapping owners one after the other, and node
allocations that fail. `PagesSound`: lookups linearize, a range is published whole or not
at all. `SlabGeometry`: the generator, the table lookup, the slab layout and the pointer
classification as operators, against reference definitions over every request and address
of a small space with its upper end included (`PointersSound`). `MetadataSteps`: a reset
leaves no span of its arena; an update in progress is never reported as corruption.

### Back end

`ExtentManager` has four pages and three slots, so that splits run out of slots;
`LargeObjects` has three pages, two descriptors, guards, scrubbing and junk filling, each
operation a chain of critical sections, and its unwinds depend on whether the page map
could be cleared. `ManagerSound`, `LargeSound`: what was handed out
stays an extent of its own with its backing, and nothing is lost or freed twice,
whichever provider call fails. `BackingProvider` has the POSIX provider in both modes and
the seLe4n simulation over four pages; `ProviderSound` says among others that a system
call of the POSIX provider acts on a reservation that is still live (the simulation
promises no such thing, section 10). `HookProvider` and `HookAdapters` have a
user's hooks, which may fail and call back. `Requests` has the byte accounts, each a
separate atomic, the registry of hooked backends and arena teardown; `AccountsSound`:
between calls everything reconciles, and at every instant live bytes are covered by
charges; a region is lost only if its own hook refused to take it back (`NoRegionLost`). `HugeBackend` has three shapes ("pack": two hugepages of three pages, dense without
being full; "loops": the release loops against clients; "runs": overlapping cached runs).
`RegionsSound`: regions are disjoint and backed, the bins file each hugepage by its
occupancy, a release keeps its budget, and a run that fits is found unless `ScanCap` or more
hugepages that are not full stand before it in its bin (`PlacesWhereItFits`; the cap is 1 in
"loops", where that happens). `BackEndSteps`: pages move by `can_transition`; an operation
that hands out nothing and takes nothing back, a failed one above all, leaves no more extents
than it found (`NoFragmentsStep`);
`free_arena` returns only when the arena has no large object left; a release loop
advances with every step, so it ends whatever the clients do.

### Policies

`QuarantineRing`: two threads, three objects, a ring of two whose filter bits collide; the
policy is stored field by field while the others offer and drain, and the setter then
brings the ring down to it. `RingSound`: no object is dropped or handed out twice,
the filter hides no entry, the counters are exact when the lock is free.
`FreePatterns`: one slab that travels between a PUBLIC, a labelled and another arena, and
one late write. `PatternsSound`: no correct program is accused, unless a reset of its arena
overtook a drain (section 10); a write to an object at
rest is found before reuse; nothing a labelled arena wrote is read in a PUBLIC one.
`CacheBudget`, `ReleaseController` (`BudgetsKept`): capacities fit the budget after a tick; the
releases fit the rate over any window of ticks and never exceed what there is. The clock
of the controller is the host's and may be set back, once, right after a tick; three units
of time and the ticks between them are enough for ages, decay and the rate window to matter.
`HeapSampler`, `SiteProfiles` (`ProfilesSound`): the open-addressed table finds what it
holds after any shift, the filter dismisses no recorded free, the reallocs in flight carry
the table past its load cap by at most one record each (`LoadBounded`; the cap leaves one
or two slots), sketches bracket the true counts, hints are a consensus. `NodeRouter`
(`RouterSound`): the snapshot is the machine, a placement fails only when every backend in
reach refused, a region returns to its owner after a refresh, a plan takes no more than the
donor's surplus when it was sampled. The release walks look a hugepage up under the lock
and release it after the lock was dropped, while placements go on. `CApi` (`CallsSound`): errno, flag words, handles and
sized frees of one caller; a flag word keeps its bit fields, in a smaller word.

## 9. What is proved, and what is only model-checked

| theorem | property of a run | assumptions |
|---|---|---|
| `FreeClaimProofs!EachInOnePlace`, `MarksAreSound` | `InOnePlace`, `MarksSound` | covered, correct program |
| `FreeClaimProofs!AlwaysBacked`, `EachFreedOnce` | `Backed`, `FreedOnce` | covered |
| `FreeClaimProofs!TypeCorrect` | conjunct of `InOnePlace`, `HeldSafely` | none |
| `ForkGateProofs!GateIsSound`, `GateRefines` | `GateSound`, `ImplementsQuiesceGate` | `ForkGateAssumption` |
| `StartupProofs!FirstCallIsSafe`, `NeverReturnsBlind` | `FirstCallSafe`, `NoBlindReturn` | `BringupAssumption` |
| `StartupProofs!BootstrapIsSafe` | `BootstrapSafe` | `BootstrapAssumption` |
| `StartupProofs!RseqIsSound` | `RseqSound` | `RseqAssumption` |
| `ArenaTableProofs!TreeIsSound`, `HandlesStayStale` | `TreeSound`, `StaleHandlesStayStale` | `ArenaTableAssumption` |
| `ArenaTableProofs!LedgerIsSound` | conjunct of `QuotaKept` | `ArenaTableAssumption` |
| `FrontEndProofs!OwnersExcluded` | `OwnerExcluded` | `ConstantsOK` |
| `LockProofs!LocksAreSound` | `LocksSound` | `ConstantsOK` |
| `LockProofs!SnapshotsAreSound`, `NeverFalselyCorrupt` | instances in `SnapshotsSound`, `MetadataSteps` | `ConstantsOK` |

The assumptions only type the constants (and ask for finitely many threads where counts
are sums over them). Every inductive invariant was also checked by TLC on the instance of
its run.

Only model-checked:

* liveness (`EverythingEnds`, `EveryCallEnds`), which needs fairness;
* `HolderGoesOn`, which is about `ENABLED`;
* `SubtreeWithinQuota`, whose subtree is a recursive function: it needs an induction over
  the depth of the tree from `LedgerSound` and `NoOrphan`;
* the quarantine paths of `FreeClaim` (`HeldSafely`);
* `PlacesExact` and `CallsServed` of `FrontEnd`: they count objects over sequences of
  several containers, where every step needs facts about the removal of elements that
  rest on induction over the sequence;
* everything in `BackEnd`, in `Metadata` except the snapshots and in `Policies` except the
  locks. Many of these use recursive definitions or folds over sequences.

## 10. Where code and comments disagree

Two disagreements are runs:

* *Unwind of a failed publication* (`SpanLifecycle_unwind`). When `activate_span` fails,
  `create_span` returns the slot and the extent but leaves the descriptor Active
  (`allocator.rs:2564`, "On failure, unwind everything"). The next reset of that arena
  takes it for a live span and returns both again: the free stack names the slot twice.
* *Late unmark* (`FreeClaim_unmark`). After the ring holds an object its cached bit is
  cleared outside any lock (`allocator.rs:3045`). If another thread drains the object and a
  refill marks it cached again before that, the clear removes the new mark. The next pop
  finds the entry unmarked, which `claim_cached_object` calls impossible
  (`allocator.rs:1512`); a release build drops the object. The program makes no mistake.
  For the same reason a checker that holds the span lock can see both bits of an object
  set, against the comment at `span.rs:1152`.

Others were met while modelling; the models follow the code and the properties say what
it guarantees:

* Two racing frees of the last live object of a span are both admitted if the first
  retires the span before the second claims, against `allocator.rs:1630`. `Covered`
  excludes retirement for programs that double-free.
* The revalidation reads the central bit before the quarantined bit; a drain sets the
  first and clears the second in between, against `allocator.rs:1736`. This takes a double
  free with the quarantine on, which `FreeClaim_doublefree` leaves out.
* The registration of the fork handlers is outside the fork gate and `atfork_child` leaves
  `ATFORK` alone. If a thread forks while another is inside `pthread_atfork`, the child's
  guard stays in progress and its next call waits for ever, against `fork_api.rs:242`. The
  load-time constructor makes this rare. `EveryCallEnds` excepts that child.
* `lib.rs:828` says that a call on the fast path that races a registration returns at
  once; it waits in `await_attempt` like any other (`Await`).
* `fork.rs:421` and `fork.rs:539` say that the counts are zero after the drain; an arrival that
  is about to back out is counted (section 4).
* A truthful sized free of a guarded object aborts, while `c_api.rs` says that "a false
  reject would abort a correct program"; `AbortsOnlyGuarded` excepts guarded objects. After
  `topo_xallocx` has resized an extent no size is defined for its sized free.
* An arena teardown that meets an entry of the quarantine in another thread's hands counts
  its bytes twice. In the instance of `Requests` the caller keeps the quarantine quiet while
  an arena is torn down.
* A hook adapter may be freed while a new backend borrows it, or leak, if an arena id is
  used again while the destroy of its last user is on the way from the engine to the
  registry. It takes two threads; the instance of `HookAdapters` has one.
* Overlapping budget ticks compute with each other's stale sums; `CacheBudget` has one
  ticking host, as the release pump is.
* `on_alloc_restore` says that the load cap makes a full table of the heap sampler
  unreachable (`sampling.rs:441`). Each failed realloc may restore one record past the cap, so
  it takes as many reallocs at once as the cap leaves slots (`CAP / 8`). In a full table
  `remove_at` looks for ever for the empty slot that ends a chain, with the lock held
  (`OnFree`, "spins"). `LoadBounded` says how far past the cap the table can get. A
  dropped sample stays in the sampled live bytes; `LiveBytesAgree` has a term for it. Hints
  may be published once more after sampling was turned off.
* `drain_one` reads the canary of an entry another thread took out of the ring, "still mapped
  and exclusively ours" (`allocator.rs:3263`). `drain_arena` waits only for the entries in the
  ring; a reset may retire the span of one on its way, and the slab may be filled with other
  data before the canary is read, which then aborts a correct program. `NoFalseAbort` excepts
  entries that a reset overtook.
* `arena_create_hooked` says that on any failure "nothing leaks" (`allocator.rs:3897`). If the
  backend is dropped after its regions were reserved and a hook refuses to take one back,
  `ExtentManager::drop` ignores that, as `hooks.rs` documents. `NoRegionLost` excepts it.
* "NUMA never fails an allocation outright" (`node_router.rs:412`): a node at distance 255
  reads like one already tried and is never asked; without a default backend the request
  fails although that node has room. `FailsOnlyWhenFull` excepts it.
* The bound on what `rebalance_tick` takes from a donor holds of the pressure that was
  sampled (`PlanNeverStrands`). By the time the walk releases, the donor may have less free or
  more demand.
* `SCAN_CAP` is said to bound a placement "across the packing-ordered bins" (`huge.rs:2038`);
  the count starts again in each bin. Within a bin a run that fits is not found behind 64
  hugepages that are not full and do not fit it. `PlacesWhereItFits` excepts it.
* `checked_subrange` of the seLe4n simulation drops its lock before the caller writes; a
  release in between frees the memory the write goes to, against "never offset into or
  written through" a foreign region (`lib.rs:85`). `LeaseCoversCall` is about the POSIX
  provider, which holds a lease over the call.
* `check_invariants` of the arena table loads the fields of a slot one after the other
  without the lock (`arena.rs:1971`). `LedgerSound` shows that it accepts every single state;
  a walk that a slot's recycling overtakes can mix two incarnations.
* `FreePatterns`: between a fill and the publication behind it a late write can be
  overwritten or missed; only writes to objects at rest are guaranteed to be found.
* The bin oracle of `central.rs` does not hold between the unlinking of an emptied span and
  its deactivation; `ListsExact` says so.
* Numbers in comments that the code has moved away from: the ranks in the table of
  `lock.rs`, the default object limit of the quarantine policy against `QUARANTINE_CAP`, and
  the scan cap of the hugepage filler.

## 11. Not modelled

The reporting ABI, statistics, the control tree, tracing, deterministic mode, debug and
profile switches forward calls or record; they have no protocol of their own. The
build tools, the test support and the vendored kernel bindings are outside the allocator.
Within modelled parts the following decides nothing there and is left out: labels, names
and decay settings of arenas, statistics snapshots, the text of `/sys` files, the random
countdown of the sampler, the aarch64 and riscv spellings of the restartable sequences,
the content of canaries. Spurious failures of weak compare-exchange only repeat a loop.
