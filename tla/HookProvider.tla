---------------------------- MODULE HookProvider ----------------------------
(***************************************************************************)
(* The provider that backs an arena with its user's extent hooks           *)
(* (topo-core/src/hooks.rs).  The hooks are the environment: alloc may     *)
(* return any region, every hook may fail, and a hook may call back into   *)
(* the provider.  The calls of the engine are serialised by the back-end   *)
(* lock, so the state has one call stack: its top frame is the hook that   *)
(* is running.  This is the build without debug assertions, where a        *)
(* refused or invalid call returns an error.                               *)
(***************************************************************************)
EXTENDS Naturals, Sequences, FiniteSets, FiniteSetsExt

CONSTANTS Offers,            \* the regions [base, len] the alloc hook may return
          Size, Align,       \* what the engine asks for
          ReservationCap,    \* ranges the reservation set can hold
          MaxCalls, MaxDepth \* bounds: calls made, calls nested

VARIABLES given,       \* how often each region is with the engine, by the user's ledger
          held,        \* how often the engine holds it
          live, overflowed,   \* ReservationSet
          inHook,      \* in_hook
          stack,       \* the hooks in progress, the innermost last
          failures,    \* the four failure counters
          refused,     \* releases that returned Unsupported
          calls

vars == <<given, held, live, overflowed, inHook, stack, failures, refused, calls>>

Init ==
    /\ given = [r \in Offers |-> 0] /\ held = [r \in Offers |-> 0]
    /\ live = {} /\ overflowed = FALSE /\ inHook = FALSE /\ stack = <<>>
    /\ failures = [k \in {"commit", "split", "merge", "release"} |-> 0]
    /\ refused = 0 /\ calls = 0

NoRegion == [base |-> 0, len |-> 0]
Top == stack[Len(stack)]
Running(op) == stack # <<>> /\ Top.op = op
Under == SubSeq(stack, 1, Len(stack) - 1)
MayCall == calls < MaxCalls /\ Len(stack) < MaxDepth /\ calls' = calls + 1

\* enter_hook: swap the flag to true, refuse when it was already set.
Refuse == inHook' = TRUE
Enter(op, region, below) ==
    /\ ~inHook /\ inHook' = TRUE
    /\ stack' = Append(below, [op |-> op, region |-> region])
Return == inHook' = FALSE /\ stack' = Under

Fail(kind) == failures' = [failures EXCEPT ![kind] = @ + 1]
CountPhys(kind, ok) == IF ok THEN UNCHANGED failures ELSE Fail(kind)

-----------------------------------------------------------------------------
(* ReservationSet.                                                         *)

Overlaps(a, b) == a.base < b.base + b.len /\ b.base < a.base + a.len
Clashes(a) == \E b \in live : Overlaps(a, b)
Record(region) ==
    IF Cardinality(live) < ReservationCap
    THEN live' = live \cup {region} /\ UNCHANGED overflowed
    ELSE overflowed' = TRUE /\ UNCHANGED live
\* Mutant: the record of some other region is removed.
RemovesAnother(region) == live' = IF live = {} THEN {} ELSE live \ {CHOOSE b \in live : TRUE}
Remove(region) == live' = {b \in live : b.base # region.base}

\* validate_alloc: not null, aligned, big enough.
Valid(region) == region.base # 0 /\ region.base % Align = 0 /\ region.len >= Size

-----------------------------------------------------------------------------
(* reserve: the alloc hook, then the record, or the region goes back       *)
(* through the dealloc hook.                                               *)

Reserve ==
    /\ MayCall
    /\ \/ Enter("alloc", NoRegion, stack)
       \/ inHook /\ Refuse /\ UNCHANGED stack
    /\ UNCHANGED <<given, held, live, overflowed, failures, refused>>

AllocFails ==
    /\ Running("alloc") /\ Return
    /\ UNCHANGED <<given, held, live, overflowed, failures, refused, calls>>

Accept(region) ==
    /\ Running("alloc") /\ Valid(region) /\ ~Clashes(region)
    /\ given' = [given EXCEPT ![region] = @ + 1]
    /\ held' = [held EXCEPT ![region] = @ + 1]
    /\ Record(region) /\ Return
    /\ UNCHANGED <<failures, refused, calls>>

Reject(region) ==
    /\ Running("alloc") /\ (~Valid(region) \/ Clashes(region))
    /\ given' = [given EXCEPT ![region] = @ + 1]
    /\ stack' = Append(Under, [op |-> "dealloc", region |-> region])
    /\ inHook' = TRUE
    /\ UNCHANGED <<held, live, overflowed, failures, refused, calls>>

-----------------------------------------------------------------------------
(* release: the record goes before the guard is taken.                     *)

Release(region) ==
    /\ held[region] > 0 /\ MayCall
    /\ held' = [held EXCEPT ![region] = @ - 1] /\ Remove(region)
    /\ \/ Enter("dealloc", region, stack) /\ UNCHANGED refused
       \/ inHook /\ Refuse /\ refused' = refused + 1 /\ UNCHANGED stack
    /\ UNCHANGED <<given, overflowed, failures>>

CountRelease(ok) == IF ok THEN UNCHANGED failures ELSE Fail("release")
Dealloc(ok) ==
    /\ Running("dealloc") /\ Return /\ CountRelease(ok)
    /\ given' = IF ok THEN [given EXCEPT ![Top.region] = @ - 1] ELSE given
    /\ UNCHANGED <<held, live, overflowed, refused, calls>>

-----------------------------------------------------------------------------
(* commit, decommit, purge_lazy and purge_forced on a part of a held       *)
(* region; split and merge of extents inside it.                           *)

Physical(region, offset, len) ==
    /\ held[region] > 0 /\ MayCall
    /\ \/ offset + len > region.len /\ UNCHANGED <<inHook, stack>>
       \/ offset + len <= region.len /\ Enter("commit", region, stack)
       \/ offset + len <= region.len /\ inHook /\ Refuse /\ UNCHANGED stack
    /\ UNCHANGED <<given, held, live, overflowed, failures, refused>>
Restructure(op, region) ==
    /\ held[region] > 0 /\ MayCall
    /\ \/ Enter(op, region, stack)
       \/ inHook /\ Refuse /\ UNCHANGED stack
    /\ UNCHANGED <<given, held, live, overflowed, failures, refused>>
HookDone(op, ok) ==
    /\ Running(op) /\ Return /\ CountPhys(op, ok)
    /\ UNCHANGED <<given, held, live, overflowed, refused, calls>>

Next ==
    \/ Reserve \/ AllocFails
    \/ \E r \in Offers :
          \/ Accept(r) \/ Reject(r) \/ Release(r)
          \/ \E offset \in {0, Size} : Physical(r, offset, Size)
          \/ \E op \in {"split", "merge"} : Restructure(op, r)
    \/ \E ok \in BOOLEAN :
          Dealloc(ok) \/ \E op \in {"commit", "split", "merge"} : HookDone(op, ok)

Spec == Init /\ [][Next]_vars

-----------------------------------------------------------------------------
Count(bag) == MapThenSumSet(LAMBDA r : bag[r], Offers)
InFlight == Cardinality({i \in 1 .. Len(stack) : stack[i].op = "dealloc"})

TypeOK ==
    /\ \A r \in Offers : given[r] \in Nat /\ held[r] \in Nat
    /\ live \subseteq Offers /\ Cardinality(live) <= ReservationCap
    /\ refused \in Nat /\ Len(stack) <= MaxDepth

\* Two regions the engine holds never overlap, whatever the alloc hook returns,
\* until the reservation set has overflowed (reserve, try_record).
HeldDisjoint ==
    ~overflowed => /\ \A r \in Offers : held[r] <= 1
                   /\ \A r, s \in Offers :
                         held[r] > 0 /\ held[s] > 0 /\ r # s => ~Overlaps(r, s)

\* Until it has overflowed, the reservation set records exactly what the engine
\* holds: no release, refused or not, removes another region's record.
HeldRecorded == ~overflowed => live = {r \in Offers : held[r] > 0}

\* A hook never runs inside a hook, however the hooks call back, and the flag is
\* set exactly while one runs (enter_hook, HookGuard).
HooksNeverNest == Len(stack) = (IF inHook THEN 1 ELSE 0)

\* A region the user's ledger has out is held, on its way back, or behind an
\* error: a counted dealloc failure or a refused release.
NothingSilent == Count(given) = Count(held) + InFlight + failures["release"] + refused
=============================================================================
