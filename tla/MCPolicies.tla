----------------------------- MODULE MCPolicies -----------------------------
(***************************************************************************)
(* The allocator's policies and its interfaces in one run: the initial     *)
(* state chooses which of them the behaviour is about, and the variables   *)
(* of the others are Off.  The ranked locks are extended rather than       *)
(* instantiated: in other parts they stand still in their initial state.   *)
(***************************************************************************)
EXTENDS RankedLocks, TLC

ASSUME LocksAssumption == ConstantsOK

CONSTANTS t1, t2, o1, o2, i1, a0, a1, a2, Foreign, None, Off

VARIABLES part,
          ringSlots, head, ringLen, inserts, ringBloom, ringBytes, count, perArena,
          ringPolicy, ringLock, ringAt, ringTh, installs,
          build, owner, fillBytes, place, fillTh, aborted, late, writes, overtaken,
          spans,
          initialized, soft, missed, overflowed, budget, tick, ticks, changes, settled,
          config, decayMode, now, started, lastTick, dirtySince, dirtyPresent,
          muzzySince, muzzyPresent, lastAllocated, lastNotified, peakFree, peakAnchor,
          backlog, decayLast, passed, rated, firstTick, decaySeen, clean,
          spare, heapEnabled, heap, objects, heapSlots, heapLen, dropped, heapBloom, heapFired,
          sampledLive, lost, heapTracked, heapLock, heapTh, heapToggles,
          siteSlots, siteSeen, siteFired, samples, hints, any, basis, given, torn,
          siteEnabled, siteAt, siteHost, reader, siteToggles, siteDoes,
          nodeDoes, topo, nodeN, live, backed, held, interleave, failures, spillovers,
          nodeTh, nodeOps,
          callDoes, up, callPolicy, sampling, arenas, objs, callLast, calls

ringVars == <<ringSlots, head, ringLen, inserts, ringBloom, ringBytes, count, perArena,
              ringPolicy, ringLock, ringAt, ringTh, installs>>
fillVars == <<build, owner, fillBytes, place, fillTh, aborted, late, writes, overtaken,
              spans>>
budgetVars == <<initialized, soft, missed, overflowed, budget, tick, ticks, changes,
                settled>>
decayVars == <<config, decayMode, now, started, lastTick, dirtySince, dirtyPresent,
               muzzySince, muzzyPresent, lastAllocated, lastNotified, peakFree,
               peakAnchor, backlog, decayLast, passed, rated, firstTick, decaySeen, clean>>
heapVars == <<spare, heapEnabled, heap, objects, heapSlots, heapLen, dropped, heapBloom,
              heapFired, sampledLive, lost, heapTracked, heapLock, heapTh, heapToggles>>
siteVars == <<siteSlots, siteSeen, siteFired, samples, hints, any, basis, given, torn,
              siteEnabled, siteAt, siteHost, reader, siteToggles, siteDoes>>
nodeVars == <<nodeDoes, topo, nodeN, live, backed, held, interleave, failures,
              spillovers, nodeTh, nodeOps>>
callVars == <<callDoes, up, callPolicy, sampling, arenas, objs, callLast, calls>>
others == <<ringVars, fillVars, budgetVars, decayVars, heapVars, siteVars, nodeVars,
            callVars>>

\* A quarantine policy.
Hold(maxBytes, maxObjects, perArenaMax, random, sampled) ==
    [maxBytes |-> maxBytes, maxObjects |-> maxObjects, perArena |-> perArenaMax,
     random |-> random, sampling |-> sampled]
FirstHold == Hold(4, 2, 0, FALSE, FALSE)
LaterHolds == {Hold(2, 2, 0, TRUE, FALSE), Hold(4, 1, 2, FALSE, TRUE)}
RingArena == "o1" :> "a" @@ "o2" :> "a" @@ "o3" :> "b"
RingWeight == "o1" :> 1 @@ "o2" :> 2 @@ "o3" :> 1
RingBits == "o1" :> {1, 2} @@ "o2" :> {2, 3} @@ "o3" :> {1, 3}

\* Where the sampled addresses hash to.
HeapHome == "a" :> 2 @@ "b" :> 2 @@ "c" :> 0
HeapBits == "a" :> {1, 2} @@ "b" :> {2, 3} @@ "c" :> {1, 3}

FillBuilds == {{}, {"junk"}, {"junk", "quarantine"}, {"quarantine", "scrub"}}

\* Configurations of the release controller, each with the counters it reads.
DecayConfig(rate, latency, dirtyDecay, muzzyDecay, purge, kind) ==
    [rate |-> rate, latency |-> latency, dirtyDecay |-> dirtyDecay,
     muzzyDecay |-> muzzyDecay, purge |-> purge, kind |-> kind]
DecayConfigs ==
    {DecayConfig(0, 2, 2, 1, TRUE, "mode"), DecayConfig(3, 2, 1, 1, TRUE, "rate"),
     DecayConfig(0, 1, 2, 2, TRUE, "age"), DecayConfig(0, 2, 2, 1, TRUE, "age"),
     DecayConfig(0, 2, 2, 2, TRUE, "peak"), DecayConfig(0, 0, 1, 1, FALSE, "idle")}
Quiet ==
    [idle |-> 0, dirty |-> 0, hot |-> 0, muzzy |-> 0, huge |-> 0, sparse |-> 0,
     current |-> 0, max |-> 10, failed |-> FALSE, cpu |-> FALSE, allocated |-> 0,
     notified |-> 0, missPpk |-> 0]
Counters(c) ==
    CASE c.kind = "mode" ->
            {[Quiet EXCEPT !.idle = 4, !.muzzy = 1, !.huge = 3, !.sparse = 1,
                           !.current = cur, !.notified = n] :
                cur \in {0, 6, 7, 8, 9, 10}, n \in {0, 1}}
            \cup {[Quiet EXCEPT !.idle = 4, !.muzzy = 1, !.huge = 3, !.sparse = 1,
                                !.max = 0, !.failed = TRUE, !.notified = 1]}
      [] c.kind = "rate" ->
            {[Quiet EXCEPT !.idle = i, !.dirty = d, !.huge = 2, !.current = cur, !.cpu = b] :
                i \in {0, 4}, d \in {0, 3}, cur \in {8, 10}, b \in BOOLEAN}
      [] c.kind = "age" ->
            {[Quiet EXCEPT !.dirty = d, !.hot = 1, !.muzzy = m, !.current = cur] :
                d \in {0, 2}, m \in {0, 1}, cur \in {0, 9}}
      [] c.kind = "peak" ->
            {[Quiet EXCEPT !.huge = h, !.max = 0, !.allocated = a, !.missPpk = 1000] :
                h \in {0, 6}, a \in {0, 4, 8}}
      [] c.kind = "idle" ->
            {[Quiet EXCEPT !.idle = 4, !.dirty = 2, !.muzzy = 1, !.huge = 2, !.sparse = 1,
                           !.current = cur, !.cpu = b] :
                cur \in {0, 9, 10}, b \in BOOLEAN}

\* What the sampled sites do: sites, size buckets, hotness hints, ages, and how
\* many samples and toggles there are.
Sampling(sites, buckets, hots, ages, n, t) ==
    [sites |-> sites, buckets |-> buckets, hots |-> hots, ages |-> ages,
     samples |-> n, toggles |-> t]
Samplings ==
    {Sampling({"s"}, {1, 2, 3}, {3}, {}, 5, 0), Sampling({"s", "u"}, {1}, {0, 3}, {}, 5, 0),
     Sampling({"s", "u", "v"}, {1}, {3}, {4}, 4, 0), Sampling({"s"}, {1}, {3}, {1, 4}, 5, 0),
     Sampling({"s"}, {1, 2}, {3}, {}, 4, 1)}

\* Machines: what the kernel's files say of the nodes' CPUs, the CPUs' packages
\* and the distances.
Machine(cpus0, cpus1, cpus2, packages, rows) ==
    [lists |-> (0 :> cpus0 @@ 1 :> cpus1 @@ 2 :> cpus2), packages |-> packages,
     rows |-> rows]
NoRows == [node \in 0..2 |-> None]
SomeRows == 0 :> <<1, 2, 3>> @@ 1 :> None @@ 2 :> <<2, 2, 1>>
Same == [c \in 0..1 |-> 0]
FarRows == [SomeRows EXCEPT ![0] = <<1, 2, 9>>]
Apart == Machine({0}, None, {1}, Same, FarRows)
Two == Machine({0}, None, {1}, Same, SomeRows)
One == Machine({0, 1}, None, None, Same, NoRows)
Flip == Machine({1}, None, {0}, [c \in 0..1 |-> c], NoRows)
CpuLists == SUBSET (0..1) \cup {None}
Found ==
    {Machine(a, b, c, packages, rows) :
        a \in CpuLists, b \in CpuLists, c \in CpuLists,
        packages \in {[x \in 0..1 |-> x], [x \in 0..1 |-> 1 - x],
                      [x \in 0..1 |-> IF x = 1 THEN None ELSE 0]},
        rows \in {NoRows, SomeRows}}
Routes(first, later, ops, max, width) ==
    [first |-> first, later |-> later, ops |-> ops, max |-> max, width |-> width]
AllMachines ==
    {Routes(f, {}, {}, 0, 2) : f \in Found}
    \cup {Routes(Two, {One, Flip}, {"local", "bind", "refresh", "free"}, 4, 2),
          Routes(Two, {}, {"bind", "free", "tick"}, 6, 1),
          Routes(Two, {}, {"bind", "free", "tick"}, 4, 2),
          Routes(Two, {Flip}, {"default", "interleave", "mismatch"}, 4, 2),
          Routes(One, {Two}, {"local", "default", "refresh"}, 4, 2),
          Routes(Two, {Apart}, {"bind", "refresh"}, 4, 2),
          Routes(Two, {}, {"idle", "default", "free"}, 4, 2)}

\* Callers of the C interface: operations, sizes, alignments, flag words asked
\* for and only decoded, and how many calls they make.
SmallClasses == {[size |-> n, align |-> n] : n \in {2, 4, 8}}
Plain ==
    [lg |-> 0, zero |-> FALSE, bypass |-> FALSE, guarded |-> FALSE, avoid |-> FALSE,
     prefer |-> FALSE, life |-> 0, hot |-> 0, arena |-> None]
Guarded == [Plain EXCEPT !.lg = 1, !.bypass = TRUE, !.guarded = TRUE]
Contrary == [Plain EXCEPT !.avoid = TRUE, !.prefer = TRUE]
In(arena) == [Plain EXCEPT !.arena = arena]
Asks ==
    {Plain, [In(1) EXCEPT !.lg = 3, !.zero = TRUE, !.prefer = TRUE], Guarded,
     [Plain EXCEPT !.lg = 4, !.guarded = TRUE, !.avoid = TRUE], Contrary, In(2), In(3),
     [Plain EXCEPT !.lg = 6]}
Words(lg, arena) ==
    {[lg |-> lg, zero |-> z, bypass |-> b, guarded |-> g, avoid |-> v, prefer |-> p,
      life |-> l, hot |-> h, arena |-> arena] :
        z, b, g, v, p \in BOOLEAN, l \in {0, 1, 2}, h \in 0..1}
Caller(ops, sizes, aligns, asks, decodes, max) ==
    [ops |-> ops, sizes |-> sizes, aligns |-> aligns, asks |-> asks,
     decodes |-> decodes, max |-> max]
CallWorks ==
    {Caller({}, {}, {}, {}, Words(lg, arena), 0) :
        lg \in {0, 3, 5, 6, 8}, arena \in {None, 0, 2, 3, 6, 7}}
    \cup
    {Caller({"malloc", "calloc", "aligned", "free", "configure", "down"},
            {0, 3, 9, 39}, {1, 3, 4, 16}, {}, {}, 2),
     Caller({"malloc", "realloc", "sized", "configure", "down"}, {0, 3, 5, 9, 17}, {}, {}, {}, 4),
     Caller({"aligned", "sized"}, {4, 8, 16}, {1, 4, 16}, {}, {}, 2),
     Caller({"mallocx", "rallocx", "xallocx", "sized"}, {0, 5, 9, 17}, {},
            {Plain, Guarded, [Plain EXCEPT !.lg = 4, !.avoid = TRUE]}, {}, 3),
     Caller({"mallocx", "nallocx", "dallocx", "configure", "down"}, {0, 5, 39}, {}, Asks, {}, 2),
     Caller({"mallocx", "arena", "rallocx"}, {5}, {},
            {Plain, [In(1) EXCEPT !.zero = TRUE]}, {}, 4),
     Caller({"arena", "configure", "down"}, {0}, {}, {Plain, Contrary}, {}, 3),
     Caller({"mallocx", "rallocx", "xallocx", "down"}, {0, 5, 39}, {},
            {Plain, In(3), In(2)}, {}, 2)}

\* The locks' ranks.
LockRanks == "fork" :> 0 @@ "arena" :> 1 @@ "backend" :> 3 @@ "huge" :> 3

Ring == INSTANCE QuarantineRing WITH
    Threads <- {t1, t2}, Objects <- {"o1", "o2", "o3"}, Arenas <- {"a", "b"},
    ArenaOf <- RingArena, BytesOf <- RingWeight,
    Positions <- RingBits, Cap <- 2, MaxBatch <- 1, Default <- FirstHold,
    Policies <- LaterHolds, MaxInstalls <- 2,
    slots <- ringSlots, len <- ringLen, bloom <- ringBloom, bytes <- ringBytes,
    policy <- ringPolicy, lock <- ringLock, at <- ringAt, th <- ringTh
Fill == INSTANCE FreePatterns WITH
    Threads <- {t1, t2}, Objects <- {o1, o2}, Arenas <- {a0, a1, a2}, Default <- a0,
    Labelled <- {a1}, Builds <- FillBuilds, MaxLate <- 1, MaxSpans <- 2,
    bytes <- fillBytes, th <- fillTh
Budget == INSTANCE CacheBudget WITH
    NSlots <- 2, Batch <- 2, Hard <- 4, Budgets <- {3, 5}, MaxTicks <- 3, MaxChanges <- 1
Control == INSTANCE ReleaseController WITH
    Configs <- DecayConfigs, Inputs <- Counters, Second <- 2, PeakDecay <- 3,
    SoftBp <- 7, HardBp <- 9, Hysteresis <- 1, MaxTime <- 3, MaxTicks <- 3,
    mode <- decayMode, last <- decayLast, seen <- decaySeen
Heap == INSTANCE HeapSampler WITH
    Threads <- {t1, t2}, Addrs <- {"a", "b", "c"},
    Home <- HeapHome, Positions <- HeapBits,
    Cap <- 3, Spares <- {1, 2}, RefreshEvery <- 2, MaxObjects <- 3, MaxToggles <- 1,
    enabled <- heapEnabled, slots <- heapSlots, len <- heapLen, bloom <- heapBloom,
    fired <- heapFired, tracked <- heapTracked, lock <- heapLock, th <- heapTh,
    toggles <- heapToggles
Sites == INSTANCE SiteProfiles WITH
    Ways <- 2, NBuckets <- 3, K <- 2, HotFrom <- 2, Confident <- 2, Bp <- 10, MinBp <- 6,
    Q <- 2, Decay <- 2, MadMax <- 2, PublishEvery <- 2, Does <- Samplings,
    slots <- siteSlots, seen <- siteSeen, fired <- siteFired, enabled <- siteEnabled,
    at <- siteAt, host <- siteHost, toggles <- siteToggles, does <- siteDoes
Router == INSTANCE NodeRouter WITH
    Threads <- {t1, t2}, NCpus <- 2, MaxNodes <- 3, MaxLlc <- 2, Local <- 1, Remote <- 2,
    Far <- 9, PerBackend <- 1, Huge <- 2, Wrap <- 4, Machines <- AllMachines,
    does <- nodeDoes, n <- nodeN, th <- nodeTh, ops <- nodeOps
Calls == INSTANCE CApi WITH
    Ids <- {i1}, Classes <- SmallClasses, MinAlign <- 2, PtrSize <- 2,
    Page <- 8, Top <- 40, UsizeBits <- 6, LgBits <- 3, HotBits <- 1, ArenaBits <- 3,
    MaxArena <- 2, MaxGen <- 2, Works <- CallWorks,
    does <- callDoes, policy <- callPolicy, last <- callLast

-----------------------------------------------------------------------------
NoRing ==
    /\ ringSlots = Off /\ head = Off /\ ringLen = Off /\ inserts = Off
    /\ ringBloom = Off /\ ringBytes = Off /\ count = Off /\ perArena = Off
    /\ ringPolicy = Off /\ ringLock = Off /\ ringAt = Off /\ ringTh = Off
    /\ installs = Off
NoFill ==
    /\ build = Off /\ owner = Off /\ fillBytes = Off /\ place = Off /\ fillTh = Off
    /\ aborted = Off /\ late = Off /\ writes = Off /\ overtaken = Off /\ spans = Off
NoBudget ==
    /\ initialized = Off /\ soft = Off /\ missed = Off /\ overflowed = Off
    /\ budget = Off /\ tick = Off /\ ticks = Off /\ changes = Off /\ settled = Off
NoControl ==
    /\ config = Off /\ decayMode = Off /\ now = Off /\ started = Off /\ lastTick = Off
    /\ dirtySince = Off /\ dirtyPresent = Off /\ muzzySince = Off /\ muzzyPresent = Off
    /\ lastAllocated = Off /\ lastNotified = Off /\ peakFree = Off /\ peakAnchor = Off
    /\ backlog = Off /\ decayLast = Off /\ passed = Off /\ rated = Off /\ firstTick = Off
    /\ decaySeen = Off /\ clean = Off
NoHeap ==
    /\ spare = Off /\ heapEnabled = Off /\ heap = Off /\ objects = Off /\ heapSlots = Off
    /\ heapLen = Off /\ dropped = Off /\ heapBloom = Off /\ heapFired = Off
    /\ sampledLive = Off /\ lost = Off /\ heapTracked = Off /\ heapLock = Off
    /\ heapTh = Off /\ heapToggles = Off
NoSites ==
    /\ siteSlots = Off /\ siteSeen = Off /\ siteFired = Off /\ samples = Off
    /\ hints = Off /\ any = Off /\ basis = Off /\ given = Off /\ torn = Off
    /\ siteEnabled = Off /\ siteAt = Off /\ siteHost = Off /\ reader = Off
    /\ siteToggles = Off /\ siteDoes = Off
NoRouter ==
    /\ nodeDoes = Off /\ topo = Off /\ nodeN = Off /\ live = Off /\ backed = Off
    /\ held = Off /\ interleave = Off /\ failures = Off /\ spillovers = Off
    /\ nodeTh = Off /\ nodeOps = Off
NoCalls ==
    /\ callDoes = Off /\ up = Off /\ callPolicy = Off /\ sampling = Off /\ arenas = Off
    /\ objs = Off /\ callLast = Off /\ calls = Off

MCInit ==
    /\ Init
    /\ \/ part = "locks" /\ NoRing /\ NoFill /\ NoBudget /\ NoControl
          /\ NoHeap /\ NoSites /\ NoRouter /\ NoCalls
       \/ /\ part = "quarantine" /\ Ring!Init
          /\ NoFill /\ NoBudget /\ NoControl /\ NoHeap /\ NoSites
          /\ NoRouter /\ NoCalls
       \/ /\ part = "patterns" /\ Fill!Init
          /\ NoRing /\ NoBudget /\ NoControl /\ NoHeap /\ NoSites
          /\ NoRouter /\ NoCalls
       \/ /\ part = "budget" /\ Budget!Init
          /\ NoRing /\ NoFill /\ NoControl /\ NoHeap /\ NoSites
          /\ NoRouter /\ NoCalls
       \/ /\ part = "release" /\ Control!Init
          /\ NoRing /\ NoFill /\ NoBudget /\ NoHeap /\ NoSites
          /\ NoRouter /\ NoCalls
       \/ /\ part = "sampler" /\ Heap!Init
          /\ NoRing /\ NoFill /\ NoBudget /\ NoControl /\ NoSites
          /\ NoRouter /\ NoCalls
       \/ /\ part = "sites" /\ Sites!Init
          /\ NoRing /\ NoFill /\ NoBudget /\ NoControl /\ NoHeap
          /\ NoRouter /\ NoCalls
       \/ /\ part = "nodes" /\ Router!Init
          /\ NoRing /\ NoFill /\ NoBudget /\ NoControl /\ NoHeap
          /\ NoSites /\ NoCalls
       \/ /\ part = "calls" /\ Calls!Init
          /\ NoRing /\ NoFill /\ NoBudget /\ NoControl /\ NoHeap
          /\ NoSites /\ NoRouter

MCNext ==
    \/ part = "locks" /\ Next /\ UNCHANGED <<part, others>>
    \/ /\ part = "quarantine" /\ Ring!Next
       /\ UNCHANGED <<part, vars, fillVars, budgetVars, decayVars, heapVars, siteVars,
                       nodeVars, callVars>>
    \/ /\ part = "patterns" /\ Fill!Next
       /\ UNCHANGED <<part, vars, ringVars, budgetVars, decayVars, heapVars, siteVars,
                       nodeVars, callVars>>
    \/ /\ part = "budget" /\ Budget!Next
       /\ UNCHANGED <<part, vars, ringVars, fillVars, decayVars, heapVars, siteVars,
                       nodeVars, callVars>>
    \/ /\ part = "release" /\ Control!Next
       /\ UNCHANGED <<part, vars, ringVars, fillVars, budgetVars, heapVars, siteVars,
                       nodeVars, callVars>>
    \/ /\ part = "sampler" /\ Heap!Next
       /\ UNCHANGED <<part, vars, ringVars, fillVars, budgetVars, decayVars, siteVars,
                       nodeVars, callVars>>
    \/ /\ part = "sites" /\ Sites!Next
       /\ UNCHANGED <<part, vars, ringVars, fillVars, budgetVars, decayVars, heapVars,
                       nodeVars, callVars>>
    \/ /\ part = "nodes" /\ Router!Next
       /\ UNCHANGED <<part, vars, ringVars, fillVars, budgetVars, decayVars, heapVars,
                       siteVars, callVars>>
    \/ /\ part = "calls" /\ Calls!Next
       /\ UNCHANGED <<part, vars, ringVars, fillVars, budgetVars, decayVars, heapVars,
                       siteVars, nodeVars>>

MCSpec == MCInit /\ [][MCNext]_<<part, vars, others>>

Symmetry == Permutations(Threads)

-----------------------------------------------------------------------------
\* The quarantine ring drops no object and hands none out twice; its filter never
\* hides an entry; its counters describe the ring whenever its lock is free; with
\* no policy change under way it keeps the policy's object limit.
RingSound ==
    part = "quarantine" =>
        /\ Ring!TypeOK /\ Ring!HandedOutOnce /\ Ring!NoFalseNegative
        /\ Ring!CountersExact /\ Ring!WithinObjectLimit

\* Fill patterns: a program that never writes to freed memory is never accused of
\* it, and a write to an object that waits for reuse is found before its next use,
\* unless a reset overtook an evicted entry of its arena; nothing a labelled arena
\* wrote can be read in a PUBLIC one.
PatternsSound ==
    part = "patterns" =>
        /\ Fill!TypeOK /\ Fill!NoFalseAbort /\ Fill!LateWriteCaught
        /\ Fill!NoDowngradeLeak

\* A budget tick leaves soft capacities that fit the budget, or one object each.
\* What the rate cap lets through stays within the configured rate; no plan gives
\* back more than there is; below Hard only memory idle for its whole interval is
\* released; the pressure mode answers the last counters, up to the hysteresis
\* band; the reserve follows the recent peak of free memory down.
BudgetsKept ==
    /\ part = "budget" => Budget!TypeOK /\ Budget!CapacityWithinBudget
    /\ part = "release" =>
        /\ Control!TypeOK /\ Control!RateKept /\ Control!PlanWithinSupply
        /\ Control!ReleasesOnlyAged /\ Control!ModeJustified
        /\ Control!ReserveFollowsPeak

\* The heap sampler's table finds every record it holds and passes its load cap only
\* by restores under way; its filter dismisses no free of a recorded object;
\* the record of a live sampled object stays until its owner removes it; sampled
\* live bytes are the records, those in a realloc's hand, and the lost.  The
\* sketch of site profiles brackets the true counts; published hints are what all
\* confident sites of a bucket agree on; a lookup gets no hint or one that a
\* confident site of its bucket gave.
ProfilesSound ==
    /\ part = "sampler" =>
        /\ Heap!TypeOK /\ Heap!TableSound /\ Heap!FilterCovers /\ Heap!TrackedKept
        /\ Heap!LiveBytesAgree /\ Heap!LoadBounded
    /\ part = "sites" =>
        /\ Sites!TypeOK /\ Sites!DistBounds /\ Sites!LookupFromASite
        /\ Sites!ConsensusOnly

\* Nodes: the topology snapshot is the machine, or one domain when a CPU is
\* unknown; a placement fails only when every backend refused, those at the
\* distance u8::MAX excepted; every region returns to the backend that owns it and
\* keeps its backing while it is used; a planned move leaves the donor served.
RouterSound ==
    part = "nodes" =>
        /\ Router!TypeOK /\ Router!SnapshotFaithful /\ Router!FailsOnlyWhenFull
        /\ Router!FreedGoHome /\ Router!PlanNeverStrands

\* C calls: errno tells the outcome, whatever the engine's system calls left there;
\* an object returned is what the flag word or handle asked for; a failed resize
\* leaves the allocation as it was; topo_nallocx predicts topo_mallocx; decoding a
\* flag word gives back the request or refuses what cannot be meant; a truthful
\* sized free aborts on no object but a guarded one.
CallsSound ==
    part = "calls" =>
        /\ Calls!TypeOK /\ Calls!ErrnoTellsOutcome /\ Calls!ServesRequest
        /\ Calls!FailureKeepsObject /\ Calls!NallocxPredicts /\ Calls!DecodedAsAsked
        /\ Calls!AbortsOnlyGuarded
=============================================================================
