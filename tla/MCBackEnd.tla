------------------------------ MODULE MCBackEnd ------------------------------
(***************************************************************************)
(* The back end in one run.  The initial state chooses the part: the       *)
(* extent manager on its own, with four pages and every operation; the     *)
(* large-object allocator over it, with three; the providers that back     *)
(* both, the system's and the host's hooks; the adapters of C hooks; the   *)
(* accounts the engine keeps of every request; or the hugepage back end,   *)
(* in three sizes.  "pack" has two hugepages of three pages, where one can *)
(* be dense without being full; "loops" has two hugepages of two pages,    *)
(* the release loops and a scan of one hugepage per bin; "runs" has three  *)
(* hugepages of one page, where cached runs overlap.  The variables of the *)
(* other parts are Off.                                                    *)
(***************************************************************************)
EXTENDS Naturals, TLC

CONSTANTS Threads, t1, Explicit, Sampled, i1, i2, a0, a1, a2, x, y, z, None, Off

VARIABLES part, back, owned, prot, pool, pagemap, op, held, withheld, aborted,
          kind, use, access, zero, told, guarded, osOwned, osPool, handles, stranded,
          lock, osTh, reserves, osOps, does,
          given, hookHeld, live, overflowed, inHook, stack, failures, refused, calls,
          boxes, backend, taken, registry, boxOwned, boxTh, creates,
          uses, obj, used, allocated, freed, peak, ring, parking, ast, slot, hookSlot,
          regions, dropped, makes, reqTh,
          filler, cache, backed, hugeHeld, rel, released

largeVars == <<prot, pool, pagemap, op, held, withheld, aborted>>
storeVars == <<back, owned, largeVars>>
osVars == <<kind, use, access, zero, told, guarded, osOwned, osPool, handles, stranded,
            lock, osTh, reserves, osOps, does>>
hookVars == <<given, hookHeld, live, overflowed, inHook, stack, failures, refused, calls>>
boxVars == <<boxes, backend, taken, registry, boxOwned, boxTh, creates>>
reqVars == <<uses, obj, used, allocated, freed, peak, ring, parking, ast, slot,
             hookSlot, regions, dropped, makes, reqTh>>
hugeVars == <<filler, cache, backed, hugeHeld, rel, released>>
vars == <<part, storeVars, osVars, hookVars, boxVars, reqVars, hugeVars>>

\* What the callers of a provider use: operations, and alignments in pages.
Caller(kinds, aligns) == [ops |-> kinds, aligns |-> aligns]
Callers ==
    {Caller({"commit", "decommit", "release"}, {1}), Caller({"commit", "protect", "restore"}, {1}),
     Caller({"commit", "purge_lazy", "purge_forced"}, {1}), Caller({"bind", "release"}, {2})}

\* The regions an alloc hook may return.
Regions ==
    {[base |-> r[1], len |-> r[2]] :
        r \in {<<0, 2>>, <<3, 2>>, <<2, 1>>, <<2, 2>>, <<4, 2>>, <<2, 4>>}}

\* Workloads of Requests: operations, sizes, arenas, their quota, bytes in all.
Work(ops, sizes, places, quota, total) ==
    [ops |-> ops, sizes |-> sizes, places |-> places, quota |-> quota, total |-> total]
Workloads ==
    {Work({"alloc", "rebase"}, {1}, {a0}, 4, 2),
     Work({"alloc"}, {1, 2}, {a0}, 4, 4),
     Work({"alloc", "realloc"}, {3, 5}, {a0}, 10, 10),
     Work({"alloc", "guard", "realloc"}, {1, 3}, {a0}, 4, 4),
     Work({"alloc", "realloc"}, {2, 3}, {a0}, 4, 6),
     Work({"alloc", "park", "evict", "realloc"}, {1, 2}, {a0}, 4, 3),
     Work({"alloc", "park", "toggle", "reset"}, {1}, {a1, a0}, 4, 2),
     Work({"alloc", "hooks", "destroy", "reset"}, {1}, {a1}, 2, 1),
     Work({"hooks", "destroy"}, {1, 2}, {a1}, 2, 2)}

Manager == INSTANCE ExtentManager WITH
    Pages <- 4, SlotCap <- 3, Zeroing <- TRUE, Generations <- 2, Aligns <- {1, 2}
Large == INSTANCE LargeObjects WITH
    Pages <- 3, SlotCap <- 2, Zeroing <- TRUE, Generations <- 2, LargeCap <- 2,
    Arenas <- {Explicit, Sampled}, Explicit <- {Explicit}, Sampled <- {Sampled},
    JunkFill <- TRUE, Unmaps <- BOOLEAN, Scrubs <- BOOLEAN
Provider == INSTANCE BackingProvider WITH
    NPages <- 4, Kinds <- {"posix", "guard", "sim"}, PoolTotal <- 2,
    Does <- Callers, MaxReserves <- 2, MaxOps <- 3,
    owned <- osOwned, pool <- osPool, th <- osTh, ops <- osOps
Hooks == INSTANCE HookProvider WITH
    Offers <- Regions, Size <- 2, Align <- 2, ReservationCap <- 2, MaxCalls <- 5, MaxDepth <- 2,
    held <- hookHeld
Adapters == INSTANCE HookAdapters WITH
    Threads <- {t1}, ArenaIds <- {1, 2}, Boxes <- {x, y, z}, MaxCreates <- 4,
    owned <- boxOwned, th <- boxTh
Req == INSTANCE Requests WITH
    Ids <- {i1, i2}, Arenas <- {a1, a2}, Default <- a0, Page <- 2, Slots <- 1, Does <- Workloads,
    MaxMakes <- 2,
    th <- reqTh

HotOrLong == {[hotness |-> 2, lifetime |-> 0], [hotness |-> 1, lifetime |-> 3]}
Plain == {[hotness |-> 1, lifetime |-> 0]}
Pack == INSTANCE HugeBackend WITH
    Capacity <- 2, PPH <- 3, CacheSlots <- 1, ScanCap <- 64, Hints <- HotOrLong,
    Strides <- {1}, RunSizes <- {4}, Pressures <- {FALSE}, Cooled <- {},
    Plans <- {}, Budgets <- {}, held <- hugeHeld
Loops == INSTANCE HugeBackend WITH
    Capacity <- 2, PPH <- 2, CacheSlots <- 1, ScanCap <- 1, Hints <- Plain,
    Strides <- {1, 2}, RunSizes <- {3}, Pressures <- {}, Cooled <- {},
    Plans <- {1}, Budgets <- {1}, held <- hugeHeld
Runs == INSTANCE HugeBackend WITH
    Capacity <- 3, PPH <- 1, CacheSlots <- 2, ScanCap <- 64, Hints <- Plain,
    Strides <- {1}, RunSizes <- {2, 3}, Pressures <- {TRUE}, Cooled <- {0},
    Plans <- {}, Budgets <- {}, held <- hugeHeld

NoStore ==
    /\ back = Off /\ owned = Off /\ prot = Off /\ pool = Off /\ pagemap = Off
    /\ op = Off /\ held = Off /\ withheld = Off /\ aborted = Off
NoProvider ==
    /\ kind = Off /\ use = Off /\ access = Off /\ zero = Off /\ told = Off
    /\ guarded = Off /\ osOwned = Off /\ osPool = Off /\ handles = Off /\ stranded = Off
    /\ lock = Off /\ osTh = Off /\ reserves = Off /\ osOps = Off /\ does = Off
NoHooks ==
    /\ given = Off /\ hookHeld = Off /\ live = Off /\ overflowed = Off /\ inHook = Off
    /\ stack = Off /\ failures = Off /\ refused = Off /\ calls = Off
NoAdapters ==
    /\ boxes = Off /\ backend = Off /\ taken = Off /\ registry = Off /\ boxOwned = Off
    /\ boxTh = Off /\ creates = Off
NoReq ==
    /\ uses = Off /\ obj = Off /\ used = Off /\ allocated = Off /\ freed = Off
    /\ peak = Off /\ ring = Off /\ parking = Off /\ ast = Off /\ slot = Off
    /\ hookSlot = Off /\ regions = Off /\ dropped = Off /\ makes = Off /\ reqTh = Off

NoHuge ==
    /\ filler = Off /\ cache = Off /\ backed = Off /\ hugeHeld = Off /\ rel = Off
    /\ released = Off

Init ==
    \/ /\ part = "manager" /\ Manager!Init
       /\ prot = Off /\ pool = Off /\ pagemap = Off /\ op = Off /\ held = Off
       /\ withheld = Off /\ aborted = Off
       /\ NoProvider /\ NoHooks /\ NoAdapters /\ NoReq /\ NoHuge
    \/ /\ part = "large" /\ Large!Init /\ owned = Off
       /\ NoProvider /\ NoHooks /\ NoAdapters /\ NoReq /\ NoHuge
    \/ /\ part = "provider" /\ Provider!Init
       /\ NoStore /\ NoHooks /\ NoAdapters /\ NoReq /\ NoHuge
    \/ /\ part = "hooks" /\ Hooks!Init
       /\ NoStore /\ NoProvider /\ NoAdapters /\ NoReq /\ NoHuge
    \/ /\ part = "adapters" /\ Adapters!Init
       /\ NoStore /\ NoProvider /\ NoHooks /\ NoReq /\ NoHuge
    \/ /\ part = "requests" /\ Req!Init
       /\ NoStore /\ NoProvider /\ NoHooks /\ NoAdapters /\ NoHuge
    \/ /\ \/ part = "pack" /\ Pack!Init
          \/ part = "loops" /\ Loops!Init
          \/ part = "runs" /\ Runs!Init
       /\ NoStore /\ NoProvider /\ NoHooks /\ NoAdapters /\ NoReq

Next ==
    /\ UNCHANGED part
    /\ \/ /\ part = "manager" /\ Manager!Next
          /\ UNCHANGED <<largeVars, osVars, hookVars, boxVars, reqVars, hugeVars>>
       \/ /\ part = "large" /\ Large!Next
          /\ UNCHANGED <<owned, osVars, hookVars, boxVars, reqVars, hugeVars>>
       \/ /\ part = "provider" /\ Provider!Next
          /\ UNCHANGED <<storeVars, hookVars, boxVars, reqVars, hugeVars>>
       \/ /\ part = "hooks" /\ Hooks!Next
          /\ UNCHANGED <<storeVars, osVars, boxVars, reqVars, hugeVars>>
       \/ /\ part = "adapters" /\ Adapters!Next
          /\ UNCHANGED <<storeVars, osVars, hookVars, reqVars, hugeVars>>
       \/ /\ part = "requests" /\ Req!Next
          /\ UNCHANGED <<storeVars, osVars, hookVars, boxVars, hugeVars>>
       \/ /\ \/ part = "pack" /\ Pack!Next
             \/ part = "loops" /\ Loops!Next
             \/ part = "runs" /\ Runs!Next
          /\ UNCHANGED <<storeVars, osVars, hookVars, boxVars, reqVars>>

Spec == Init /\ [][Next]_vars

ThreadSymmetry == Permutations(Threads)

-----------------------------------------------------------------------------
\* The extent manager: ExtentMap::check_invariants after every operation, whichever
\* calls failed; what alloc gave out stays an Active extent of its own range until
\* it is freed; a page has backing exactly when committed_len says so; a free extent
\* that carries the canary flag holds the pattern in every byte; find_fit finds a
\* smallest extent that fits.
ManagerSound ==
    part = "manager" =>
        /\ Manager!TypeOK /\ Manager!WellFormed /\ Manager!LiveExtents
        /\ Manager!BackingAgrees /\ Manager!CanarySound /\ Manager!BestFitIsBest

\* Large objects: a live one keeps its descriptor, pagemap entries, extent and
\* bytes, and a resize the prefix that survives it; a pagemap entry lies in the
\* object of a descriptor in use (P-Map-001); no backing extent is lost or freed
\* twice; a PROT_NONE page is never handed out; a descriptor is in use once or on
\* the free stack once; verify-on-reuse aborts no correct program.
LargeSound ==
    part = "large" =>
        /\ Large!TypeOK /\ Large!LiveObjects /\ Large!ResizeKeepsPrefix
        /\ Large!PagemapExact /\ Large!NothingLost /\ Large!GuardsAccounted
        /\ Large!PoolBalanced /\ Large!NeverAborts

\* Providers: recorded reservations are disjoint and mapped; every mapping is
\* recorded, on its way, or failed to unmap; a system call acts on a reservation
\* that is still live; memory a caller was told is committed can be touched unless
\* it protected it; uncommitted memory reads as zero once committed; the
\* simulation's pool and the charges of its frames make up its total.
ProviderSound ==
    part = "provider" =>
        /\ Provider!TypeOK /\ Provider!OwnedMapped /\ Provider!NothingStranded
        /\ Provider!LeaseCoversCall /\ Provider!AccessAsTold
        /\ Provider!UncommittedIsZero /\ Provider!PoolBalances

\* Hooks: the regions the engine holds from them are disjoint, and recorded until
\* the record has overflowed; a hook is never called from inside a hook; a region
\* the user's ledger has out is held, on its way back, or behind an error.
\* Adapters of C hooks: the one a registered backend borrows is allocated, and
\* with no call in flight every adapter is one that a backend borrows.
HooksSound ==
    /\ part = "hooks" =>
        /\ Hooks!TypeOK /\ Hooks!HeldDisjoint /\ Hooks!HeldRecorded
        /\ Hooks!HooksNeverNest /\ Hooks!NothingSilent
    /\ part = "adapters" =>
        Adapters!TypeOK /\ Adapters!BorrowedIsLive /\ Adapters!NoAdapterLost

\* Requests: between calls, bytes allocated less bytes freed are the charges of
\* the arenas and the usable bytes the program holds, and the peak covers them; at
\* every instant live bytes are covered by charges; a reallocated object holds the
\* bytes its holder may rely on; a free, resize or teardown reaches the backend that
\* served the object; the registry of hooked backends and the arenas' indices
\* agree; a hooked region is registered, in one call's hands, or was refused back,
\* by a teardown, which isolates its arena, or by a drop of a half-built backend,
\* which nothing records; a recorded request fits its usable size.
AccountsSound ==
    part = "requests" =>
        /\ Req!TypeOK /\ Req!Reconciles /\ Req!LiveWithinCharged /\ Req!ContentsKept
        /\ Req!RoutesToOwner /\ Req!RegistryExact /\ Req!NoRegionLost
        /\ Req!WasteKnown /\ Req!PeakCoversLive

\* The huge-page back end: the bins file every hugepage where its occupancy says
\* (check_invariants); held regions are disjoint, backed whatever the release
\* loops and the region cache do (H-005), and exactly the live bits; the committed
\* bits say what the provider has committed, after its refusals too; free_region
\* accepts exactly the allocations; place refuses only when no aligned run within
\* the scan's reach is free; a release keeps its budget; the coverage report adds up.
RegionsSound ==
    /\ part = "pack" => Pack!RegionsSound
    /\ part = "loops" => Loops!RegionsSound
    /\ part = "runs" => Runs!RegionsSound

\* Steps: every page moves by ExtentState::can_transition; an allocation or growth
\* that fails leaves no extent split that was whole; free_arena returns only
\* when the arena has no large object left; a release loop gets further with every
\* step, so that it ends whatever the clients do.
BackEndSteps ==
    [][/\ part = "manager" => Manager!LifecycleStep /\ Manager!NoFragmentsStep
       /\ part = "large" => Large!DrainsAllStep
       /\ part = "loops" => Loops!ReleaseAdvancesStep]_vars
=============================================================================
