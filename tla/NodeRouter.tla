----------------------------- MODULE NodeRouter -----------------------------
(***************************************************************************)
(* NUMA placement: what the host reads about the machine                   *)
(* (topo-backend-posix linux_topology), the snapshot built from it         *)
(* (topology.rs), and the router over one hugepage backend per node and an *)
(* unbound one (node_router.rs).  Threads allocate and free through the    *)
(* router while the host refreshes the snapshot, runs the rebalancer and   *)
(* releases idle memory.  A backend is a range of hugepages, each with its *)
(* committed footprint (HugeBackend models it in full); a request takes a  *)
(* hugepage to itself, and those that avoid hugepages never get here.  A   *)
(* bind the OS refuses is only counted.                                    *)
(***************************************************************************)
EXTENDS Naturals, Sequences, FiniteSets, FiniteSetsExt

CONSTANTS Threads, NCpus, MaxNodes, MaxLlc,
          Local, Remote, Far,   \* node distances: same node, default, u8::MAX
          PerBackend, Huge,     \* hugepages of a backend; the bytes of one
          Wrap,                 \* the interleave counter's width
          Machines,             \* records [first, later, ops, max, width]: what the
                                \* host finds at start and at a refresh, what happens,
                                \* how often, and in how many threads at once
          None

VARIABLES does, topo, n,
          live, backed,   \* hugepage -> used, bytes committed; by address
          held,           \* addresses the callers hold
          interleave, failures, spillovers,
          th, ops

backendVars == <<live, backed, held>>
counters == <<interleave, failures, spillovers>>
vars == <<does, topo, n, backendVars, counters, th, ops>>

Cpus == 0 .. NCpus - 1
OsNodes == 0 .. MaxNodes - 1
Lesser(a, b) == IF a < b THEN a ELSE b
Minus(a, b) == IF a > b THEN a - b ELSE 0
Idle == [pc |-> "idle"]

-----------------------------------------------------------------------------
(* Topology.                                                               *)

DefaultDist == [a \in OsNodes |-> [b \in OsNodes |-> IF a = b THEN Local ELSE Remote]]
SingleDomain ==
    [nodes |-> 1, llcs |-> 1, node |-> [c \in Cpus |-> 0], llc |-> [c \in Cpus |-> 0],
     dist |-> DefaultDist, os |-> [d \in OsNodes |-> d]]

\* build: the ids in use, in increasing order, become 0, 1, ...
Dense(used) == [x \in used |-> Cardinality({y \in used : y < x})]
Inverted(f, x) == CHOOSE y \in DOMAIN f : f[y] = x
OsDistance(b, os, x, y) == b.dist[os[x]][os[y]]
Build(b) ==
    LET nodes == {b.node[c] : c \in Cpus}
        llcs == {b.llc[c] : c \in Cpus}
        d == Dense(nodes)
        l == Dense(llcs)
        count == Cardinality(nodes)
        os == [x \in OsNodes |-> IF x < count THEN Inverted(d, x) ELSE x]
    IN
    IF ~b.consistent \/ (\E c \in Cpus : b.node[c] = None) THEN SingleDomain
    ELSE [nodes |-> count, llcs |-> Cardinality(llcs),
          node |-> [c \in Cpus |-> d[b.node[c]]], llc |-> [c \in Cpus |-> l[b.llc[c]]], os |-> os,
          dist |-> [x \in OsNodes |-> [y \in OsNodes |->
                      IF x < count /\ y < count THEN OsDistance(b, os, x, y) ELSE DefaultDist[x][y]]]]

\* discover: the node lists that can be read (the last one naming a CPU wins), the
\* packages numbered as they are first met, the distance rows that can be read.
NodeOf(m, c) ==
    LET lists == {o \in OsNodes : m.lists[o] # None /\ c \in m.lists[o]}
    IN IF lists = {} THEN None ELSE Max(lists)
FirstWith(m, p) == Min({c \in Cpus : m.packages[c] = p})
LlcOf(m, c) ==
    Cardinality({FirstWith(m, m.packages[e]) : e \in Cpus}
                \cap (0 .. FirstWith(m, m.packages[c]) - 1))
Filled(m) ==
    [node |-> [c \in Cpus |-> NodeOf(m, c)],
     llc |-> [c \in Cpus |-> LlcOf(m, c)],
     consistent |-> \A c \in Cpus : NodeOf(m, c) # None => LlcOf(m, c) < MaxLlc,
     dist |-> [a \in OsNodes |-> [b \in OsNodes |->
                 IF m.rows[a] # None /\ b < Len(m.rows[a]) THEN m.rows[a][b + 1]
                 ELSE DefaultDist[a][b]]]]
Discover(m) ==
    IF (\A o \in OsNodes : m.lists[o] = None) \/ (\E c \in Cpus : m.packages[c] = None)
    THEN SingleDomain ELSE Build(Filled(m))

NodeOfCpu(t, c) == IF c \in Cpus THEN t.node[c] ELSE 0
Mismatch(t, c, observed) == ~(t.nodes <= 1 /\ t.llcs <= 1) /\ NodeOfCpu(t, c) # observed
Clamps(node, count) == Lesser(node, count - 1)

-----------------------------------------------------------------------------
(* Rebalancer::plan over pressures [free, demand].                         *)

Need(p) == Minus(p.demand, p.free)
Surplus(p) == Minus(p.free, p.demand)
Donates(p) == Surplus(p)
PlanOf(ps, t) ==
    LET k == Lesser(t.nodes, Cardinality(DOMAIN ps))
        ids == 0 .. k - 1
        dst == Min({i \in ids : \A j \in ids : Need(ps[i]) >= Need(ps[j])})
        donors == {i \in ids \ {dst} : Donates(ps[i]) > 0}
        nearest == {i \in donors : \A j \in donors : t.dist[i][dst] <= t.dist[j][dst]}
        src == Min({i \in nearest : \A j \in nearest : Donates(ps[i]) >= Donates(ps[j])})
    IN
    IF k < 2 \/ Need(ps[dst]) = 0 \/ donors = {} THEN None
    ELSE [src |-> src, dst |-> dst, bytes |-> Lesser(Need(ps[dst]), Donates(ps[src]))]
Applied(ps, mv) == [ps EXCEPT ![mv.src].free = Minus(@, mv.bytes), ![mv.dst].demand = Minus(@, mv.bytes)]

-----------------------------------------------------------------------------
(* The backends: nodes 0 .. n - 1, and the unbound one, n, when n > 1.     *)

Nodes == 0 .. n - 1
Default == n
HasDefault == n > 1
Backends == IF HasDefault THEN Nodes \cup {Default} ELSE Nodes
Pages(b) == (b * PerBackend) .. ((b + 1) * PerBackend - 1)
AllPages == 0 .. ((MaxNodes + 1) * PerBackend - 1)
Unused(b) == Pages(b) \ live
Empties(b) == {p \in Unused(b) : backed[p] > 0}
EmptyBytes(b) == MapThenSumSet(LAMBDA p : backed[p], Empties(b))

Init ==
    /\ does \in Machines
    /\ topo = Discover(does.first) /\ n = topo.nodes
    /\ live = {} /\ backed = [p \in AllPages |-> 0] /\ held = {}
    /\ interleave = 0 /\ failures = [i \in OsNodes |-> 0] /\ spillovers = 0
    /\ th = [t \in Threads |-> Idle] /\ ops = 0

At(t, pc) == th[t].pc = pc
Goto(t, step) == th' = [th EXCEPT ![t] = step]
May(t, op) ==
    /\ At(t, "idle") /\ op \in does.ops /\ ops < does.max /\ ops' = ops + 1
    /\ Cardinality({u \in Threads : ~At(u, "idle")}) < does.width
Same == UNCHANGED <<does, n>>

\* A backend's try_alloc: any unused hugepage, which it commits at least in part.
TryAlloc(t, b) ==
    \E p \in Unused(b), bytes \in 1 .. Huge :
        /\ live' = live \cup {p} /\ held' = held \cup {p}
        /\ backed' = [backed EXCEPT ![p] = IF @ > bytes THEN @ ELSE bytes]
        /\ Goto(t, Idle)

-----------------------------------------------------------------------------
(* choose_node, then alloc_bound or alloc_default.                         *)

\* A request on its way: the backends that refused it, and those that its reading
\* of the distances rules out.
Request(pc, node) == [pc |-> pc, node |-> node, refused |-> {}, tooFar |-> {}]
Bound(node) == Request("bound", node)
Unbound == Request(IF HasDefault THEN "default" ELSE "only", 0)
Interleave(t) ==
    /\ May(t, "interleave") /\ Goto(t, Bound(interleave % n))
    /\ interleave' = (interleave + 1) % Wrap
    /\ Same /\ UNCHANGED <<topo, backendVars, failures, spillovers>>
Policy(t, cpu, node) ==
    /\ \/ May(t, "local") /\ Goto(t, Bound(Clamps(NodeOfCpu(topo, cpu), n)))
       \/ May(t, "bind") /\ Goto(t, Bound(IF node < n THEN node ELSE 0))
       \/ May(t, "default") /\ Goto(t, Unbound)
    /\ Same /\ UNCHANGED <<topo, backendVars, counters>>

Refused(t, b, pc) == [th[t] EXCEPT !.pc = pc, !.refused = @ \cup {b}]
TryBound(t) ==
    LET b == th[t].node IN
    /\ At(t, "bound")
    /\ \/ TryAlloc(t, b) /\ UNCHANGED failures
       \/ /\ Unused(b) = {} /\ failures' = [failures EXCEPT ![b] = @ + 1]
          /\ Goto(t, Refused(t, b, "table")) /\ UNCHANGED backendVars
    /\ Same /\ UNCHANGED <<topo, interleave, spillovers, ops>>
Distance(a, b) == topo.dist[a][b]
ReadDistances(t) ==
    LET node == th[t].node IN
    /\ At(t, "table")
    /\ Goto(t, [pc |-> "spill", refused |-> th[t].refused,
                dist |-> [i \in Nodes |-> IF i = node THEN Far ELSE Distance(node, i)],
                tooFar |-> {i \in Nodes \ {node} : Distance(node, i) = Far}])
    /\ Same /\ UNCHANGED <<topo, backendVars, counters, ops>>
Nearest(dist) == {i \in DOMAIN dist : dist[i] < Far /\ \A j \in DOMAIN dist : dist[i] <= dist[j]}
NextNode(t, b) == [th[t] EXCEPT !.dist[b] = Far, !.refused = @ \cup {b}]
Spill(t) ==
    LET best == Min(Nearest(th[t].dist)) IN
    /\ At(t, "spill") /\ Nearest(th[t].dist) # {}
    /\ \/ TryAlloc(t, best) /\ spillovers' = spillovers + 1
       \/ /\ Unused(best) = {} /\ Goto(t, NextNode(t, best))
          /\ UNCHANGED <<backendVars, spillovers>>
    /\ Same /\ UNCHANGED <<topo, interleave, failures, ops>>
SpillToDefault(t) ==
    /\ At(t, "spill") /\ Nearest(th[t].dist) = {}
    /\ \/ HasDefault /\ TryAlloc(t, Default) /\ spillovers' = spillovers + 1
       \/ /\ HasDefault => Unused(Default) = {}
          /\ Goto(t, Refused(t, Default, "failed")) /\ UNCHANGED <<backendVars, spillovers>>
    /\ Same /\ UNCHANGED <<topo, interleave, failures, ops>>

TryDefault(t) ==
    /\ At(t, "default")
    /\ \/ TryAlloc(t, Default)
       \/ /\ Unused(Default) = {} /\ UNCHANGED backendVars
          /\ Goto(t, Refused(t, Default, "each"))
    /\ Same /\ UNCHANGED <<topo, counters, ops>>
TryEach(t) ==
    LET i == th[t].node IN
    /\ At(t, "each") /\ i < n
    /\ \/ TryAlloc(t, i) /\ spillovers' = spillovers + 1
       \/ /\ Unused(i) = {} /\ UNCHANGED <<backendVars, spillovers>>
          /\ Goto(t, [th[t] EXCEPT !.node = i + 1, !.refused = @ \cup {i}])
    /\ Same /\ UNCHANGED <<topo, interleave, failures, ops>>
TryOnly(t) ==
    /\ At(t, "only")
    /\ \/ TryAlloc(t, 0)
       \/ Unused(0) = {} /\ Goto(t, Refused(t, 0, "failed")) /\ UNCHANGED backendVars
    /\ Same /\ UNCHANGED <<topo, counters, ops>>
Fail(t) ==
    /\ At(t, "failed") \/ (At(t, "each") /\ th[t].node = n)
    /\ Goto(t, Idle) /\ Same /\ UNCHANGED <<topo, backendVars, counters, ops>>

-----------------------------------------------------------------------------
(* try_cache: the region goes back to the backend whose range holds it.    *)

\* Mutant: the unbound backend is not asked.
ForgetsDefault(p) == {b \in Nodes : p \in Pages(b)}
Owner(p) == {b \in Backends : p \in Pages(b)}
Free(t, p) ==
    /\ May(t, "free") /\ p \in held /\ held' = held \ {p}
    /\ live' = IF Owner(p) = {} THEN live ELSE live \ {p}
    /\ Same /\ UNCHANGED <<topo, backed, counters, th>>

-----------------------------------------------------------------------------
(* The host: refresh, rebalance_tick, release_idle.                        *)

Refresh(t, m) ==
    /\ May(t, "refresh") /\ m \in does.later /\ topo' = Discover(m)
    /\ Same /\ UNCHANGED <<backendVars, counters, th>>
RefreshIfMismatch(t, m, cpu, observed) ==
    /\ May(t, "mismatch") /\ m \in does.later
    /\ topo' = IF Mismatch(topo, cpu, observed) THEN Discover(m) ELSE topo
    /\ Same /\ UNCHANGED <<backendVars, counters, th>>

BeginTick(t) ==
    /\ May(t, "tick") /\ Goto(t, [pc |-> "sample", node |-> 0, ps |-> <<>>])
    /\ Same /\ UNCHANGED <<topo, backendVars, counters>>
\* sample_pressure: a node's idle bytes, and its misses since the last tick.
Sample(t) ==
    LET i == th[t].node IN
    /\ At(t, "sample") /\ i < n
    /\ Goto(t, [th[t] EXCEPT !.node = i + 1,
                !.ps = Append(@, [free |-> EmptyBytes(i), demand |-> failures[i] * Huge])])
    /\ failures' = [failures EXCEPT ![i] = 0]
    /\ Same /\ UNCHANGED <<topo, backendVars, interleave, spillovers, ops>>
Pressures(ps) == [i \in 0 .. Len(ps) - 1 |-> ps[i + 1]]
MakePlan(t) ==
    LET mv == PlanOf(Pressures(th[t].ps), topo) IN
    /\ At(t, "sample") /\ th[t].node = n
    /\ Goto(t, IF mv = None THEN Idle ELSE [pc |-> "move", mv |-> mv, ps |-> th[t].ps])
    /\ Same /\ UNCHANGED <<topo, backendVars, counters, ops>>
\* The release walks of a backend: its empty hugepages by address, each looked up
\* under the lock and released after the lock was dropped.  The first `keep` stay;
\* with a budget, `left` bytes, one that does not fit is skipped.
Walk(b, left, keep, more) ==
    [pc |-> "walk", node |-> b, page |-> 0, left |-> left, keep |-> keep, more |-> more]
Affords(left, bytes) == left # None => bytes <= left
\* rebalance_tick has its plan: release_empty_within_bytes.
Move(t) ==
    /\ At(t, "move") /\ Goto(t, Walk(th[t].mv.src, th[t].mv.bytes, 0, None))
    /\ Same /\ UNCHANGED <<topo, backendVars, counters, ops>>
\* release_idle: release_empty_excess of one backend after the other.
BeginReleaseIdle(t, reserve) ==
    /\ May(t, "idle") /\ Goto(t, Walk(0, None, reserve, reserve))
    /\ Same /\ UNCHANGED <<topo, backendVars, counters>>
NextEmptyBacked(t) ==
    LET at == th[t]
        found == {p \in Empties(at.node) : p >= at.page}
        p == Min(found)
    IN
    /\ At(t, "walk")
    /\ Goto(t, IF found = {}
               THEN IF at.more # None /\ at.node + 1 \in Backends
                    THEN Walk(at.node + 1, None, at.more, at.more) ELSE Idle
               ELSE IF at.keep > 0 THEN [at EXCEPT !.page = p + 1, !.keep = @ - 1]
               ELSE IF Affords(at.left, backed[p])
               THEN [at EXCEPT !.pc = "runs", !.page = p]
               ELSE [at EXCEPT !.page = p + 1])
    /\ Same /\ UNCHANGED <<topo, backendVars, counters, ops>>
\* release_hugepage_runs: a run of what the hugepage has now, trimmed to the budget
\* and not in use; or no run is left, or the OS keeps it.
ReleaseRuns(t) ==
    LET at == th[t] IN
    /\ At(t, "runs")
    /\ \/ \E bytes \in 1 .. backed[at.page] :
             /\ Affords(at.left, bytes) /\ at.page \notin live
             /\ backed' = [backed EXCEPT ![at.page] = @ - bytes]
             /\ Goto(t, [at EXCEPT !.left = IF @ = None THEN None ELSE @ - bytes])
       \/ Goto(t, [at EXCEPT !.pc = "walk", !.page = @ + 1]) /\ UNCHANGED backed
    /\ Same /\ UNCHANGED <<topo, live, held, counters, ops>>

Next ==
    \E t \in Threads :
        \/ Interleave(t) \/ \E cpu \in 0 .. NCpus, node \in OsNodes : Policy(t, cpu, node)
        \/ TryBound(t) \/ ReadDistances(t) \/ Spill(t) \/ SpillToDefault(t)
        \/ TryDefault(t) \/ TryEach(t) \/ TryOnly(t) \/ Fail(t)
        \/ \E p \in AllPages : Free(t, p)
        \/ \E m \in does.later :
              \/ Refresh(t, m)
              \/ \E cpu \in Cpus, seen \in OsNodes : RefreshIfMismatch(t, m, cpu, seen)
        \/ BeginTick(t) \/ Sample(t) \/ MakePlan(t) \/ Move(t)
        \/ \E r \in 0 .. 1 : BeginReleaseIdle(t, r)
        \/ NextEmptyBacked(t) \/ ReleaseRuns(t)

Spec == Init /\ [][Next]_vars

-----------------------------------------------------------------------------
TypeOK ==
    /\ n \in 1 .. MaxNodes /\ topo.nodes \in 1 .. MaxNodes /\ live \subseteq AllPages
    /\ \A t \in Threads : At(t, "bound") => th[t].node \in Nodes

\* The snapshot is the machine or one domain: dense ids without gaps, each of them a
\* node that has CPUs, mapped back to the OS's number and with the distances the OS
\* gave; and with a CPU unknown it has one node (TopologyBuilder::build).
SnapshotFaithful ==
    LET f == Filled(does.first)
        t == Discover(does.first)
    IN
    \/ ops > 0 \/ t = SingleDomain
    \/ /\ {t.node[c] : c \in Cpus} = 0 .. t.nodes - 1
       /\ {t.llc[c] : c \in Cpus} = 0 .. t.llcs - 1
       /\ \A c \in Cpus : does.first.lists[t.os[t.node[c]]] # None
                          /\ c \in does.first.lists[t.os[t.node[c]]]
       /\ \A c, e \in Cpus : /\ t.dist[t.node[c]][t.node[e]] = f.dist[f.node[c]][f.node[e]]
                             /\ (t.llc[c] = t.llc[e]) = (does.first.packages[c] = does.first.packages[e])

\* Placement fails no allocation: one that fails was refused by every backend there
\* is, whatever topology was installed meanwhile (alloc_bound, alloc_default).  The
\* backends it never asks are those at the distance u8::MAX, which alloc_bound
\* cannot tell from its mark for a backend already tried.
FailsOnlyWhenFull ==
    \A t \in Threads : (At(t, "failed") \/ (At(t, "each") /\ th[t].node = n)) =>
        Backends \subseteq th[t].refused \cup th[t].tooFar

\* Every region comes home: the hugepages the backends count as used are those the
\* callers hold (owner, try_cache); and none of them loses its backing to a release
\* that looked at it while it was empty (release_hugepage_runs).
FreedGoHome == live = held /\ \A p \in live : backed[p] > 0

\* A planned move takes only what the donor can spare and what the other lacks, so
\* that applying it leaves the donor served (Rebalancer::plan, apply).
PlanNeverStrands ==
    \A t \in Threads : At(t, "move") =>
        LET ps == Pressures(th[t].ps)
            mv == th[t].mv
            after == Applied(ps, mv)
        IN /\ mv.bytes > 0 /\ Need(after[mv.src]) = 0
           /\ Need(after[mv.dst]) = Need(ps[mv.dst]) - mv.bytes
=============================================================================
