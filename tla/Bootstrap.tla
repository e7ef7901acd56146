----------------------------- MODULE Bootstrap -----------------------------
(***************************************************************************)
(* The metadata allocator of last resort (bootstrap.rs): a bump arena that *)
(* the first caller of global() brings up while the others spin, that any  *)
(* thread allocates from with a compare-and-exchange loop, and that is     *)
(* handed off to a successor at most once.                                 *)
(*                                                                         *)
(* Addresses are offsets from 0; Base is the address of the region, so a   *)
(* block is aligned in absolute terms although the cursor is relative.     *)
(* The spurious failures of compare_exchange_weak are left out.            *)
(***************************************************************************)
EXTENDS Naturals, FiniteSets

CONSTANTS Threads,
          Base,          \* address of the region
          Capacity,      \* its size
          Sizes,         \* sizes asked for, 0 included
          Aligns,        \* alignments asked for
          MaxBlocks,     \* bound: allocations
          Nothing        \* None

VARIABLES state,         \* State of Bootstrap
          arena,         \* the BumpArena cell: written or uninitialised
          cursor,
          successor,     \* the successor cell
          blocks,        \* blocks handed out, as [at, size, align, by]
          passed,        \* allocations the successor served
          asked,
          th

vars == <<state, arena, cursor, successor, blocks, passed, asked, th>>

Uninit == 0
Initializing == 1
Active == 2
HandingOff == 3
HandedOff == 4

Idle == [pc |-> "idle"]

Init ==
    /\ state = Uninit
    /\ arena = Nothing
    /\ cursor = 0
    /\ successor = Nothing
    /\ blocks = {}
    /\ passed = 0
    /\ asked = 0
    /\ th = [t \in Threads |-> Idle]

At(t, pc) == th[t].pc = pc
Goto(t, l) == th' = [th EXCEPT ![t] = l]

IsInitialized == state >= Active

----------------------------------------------------------------------------
(* global() and init.                                                      *)

Global(t) ==
    /\ At(t, "idle") /\ ~IsInitialized
    /\ Goto(t, [pc |-> "init"])
    /\ UNCHANGED <<state, arena, cursor, successor, blocks, passed, asked>>

\* The exchange: one caller initialises, the others go on to wait.
Claim(t) ==
    /\ At(t, "init")
    /\ IF state = Uninit
       THEN state' = Initializing /\ Goto(t, [pc |-> "write"])
       ELSE state' = state /\ Goto(t, [pc |-> "wait"])
    /\ UNCHANGED <<arena, cursor, successor, blocks, passed, asked>>

WriteArena(t) ==
    /\ At(t, "write")
    /\ arena' = "written"
    /\ cursor' = 0
    /\ Goto(t, [pc |-> "publish"])
    /\ UNCHANGED <<state, successor, blocks, passed, asked>>

PublishArena(t) ==
    /\ At(t, "publish")
    /\ state' = Active
    /\ Goto(t, [pc |-> "wait"])
    /\ UNCHANGED <<arena, cursor, successor, blocks, passed, asked>>

\* The spin of global() ends.
Spun(t) ==
    /\ At(t, "wait") /\ IsInitialized
    /\ Goto(t, Idle)
    /\ UNCHANGED <<state, arena, cursor, successor, blocks, passed, asked>>

----------------------------------------------------------------------------
(* hand_off and hand_off_to.                                               *)

HandOff(t) ==
    /\ At(t, "idle") /\ state = Active
    /\ state' = HandedOff
    /\ UNCHANGED <<arena, cursor, successor, blocks, passed, asked, th>>

\* The exchange to HandingOff keeps every other hand-off out; the cell is being
\* written until the state says HandedOff.
BeginHandOffTo(t) ==
    /\ At(t, "idle") /\ state = Active
    /\ state' = HandingOff
    /\ successor' = "torn"
    /\ Goto(t, [pc |-> "succeed"])
    /\ UNCHANGED <<arena, cursor, blocks, passed, asked>>

EndHandOffTo(t) ==
    /\ At(t, "succeed")
    /\ successor' = "written"
    /\ state' = HandedOff
    /\ Goto(t, Idle)
    /\ UNCHANGED <<arena, cursor, blocks, passed, asked>>

----------------------------------------------------------------------------
(* alloc.                                                                  *)

AlignUp(x, a) == ((x + a - 1) \div a) * a

\* A size of 0 takes one byte.
Length(n) == IF n = 0 THEN 1 ELSE n

\* The reentry guard is entered (this thread holds none), the state and the
\* arena are read.  Without an arena there is nothing to allocate from.
Alloc(t, n, a) ==
    /\ At(t, "idle") /\ asked < MaxBlocks
    /\ asked' = asked + 1
    /\ Goto(t, IF state = HandedOff /\ successor # Nothing
               THEN [pc |-> "pass", got |-> successor]
               ELSE IF IsInitialized
               THEN [pc |-> "load", size |-> Length(n), align |-> a,
                     got |-> arena]
               ELSE Idle)
    /\ UNCHANGED <<state, arena, cursor, successor, blocks, passed>>

\* The successor serves the call.  A nested call of the same thread would find
\* the guard taken and answer None.
Pass(t) ==
    /\ At(t, "pass")
    /\ passed' = passed + 1
    /\ Goto(t, Idle)
    /\ UNCHANGED <<state, arena, cursor, successor, blocks, asked>>


\* The offset of the block: the absolute address is aligned.
Offset(c, a) == AlignUp(Base + c, a) - Base

Fits(c, n, a) == Offset(c, a) + n <= Capacity

LoadCursor(t) ==
    /\ At(t, "load")
    /\ Goto(t, IF Fits(cursor, th[t].size, th[t].align)
               THEN [pc |-> "cas", size |-> th[t].size,
                     align |-> th[t].align, cur |-> cursor]
               ELSE Idle)
    /\ UNCHANGED <<state, arena, cursor, successor, blocks, passed, asked>>

\* Mutant: the cursor is stored without comparing it.
BumpsBlindly(t) == TRUE

Unmoved(t) == cursor = th[t].cur

\* The exchange: the block is the caller's, or the loop goes round.
Bump(t) ==
    /\ At(t, "cas")
    /\ LET l == th[t]
           at == Offset(l.cur, l.align)
       IN IF Unmoved(t)
          THEN /\ cursor' = at + l.size
               /\ blocks' = blocks \cup
                     {[at |-> at, size |-> l.size, align |-> l.align, by |-> t]}
               /\ Goto(t, Idle)
          ELSE /\ Goto(t, [pc |-> "load", size |-> l.size, align |-> l.align,
                           got |-> arena])
               /\ UNCHANGED <<cursor, blocks>>
    /\ UNCHANGED <<state, arena, successor, passed, asked>>

----------------------------------------------------------------------------

Start(t) ==
    \/ Global(t) \/ HandOff(t) \/ BeginHandOffTo(t)
    \/ \E n \in Sizes, a \in Aligns : Alloc(t, n, a)

Step(t) ==
    \/ Claim(t) \/ WriteArena(t) \/ PublishArena(t) \/ Spun(t)
    \/ EndHandOffTo(t) \/ Pass(t) \/ LoadCursor(t) \/ Bump(t)

Next == \E t \in Threads : Start(t) \/ Step(t)

Spec == Init /\ [][Next]_vars

\* A thread inside a call is scheduled again.
Fairness == \A t \in Threads : WF_vars(Step(t))

FairSpec == Spec /\ Fairness

----------------------------------------------------------------------------
(* Properties.                                                             *)

TypeOK ==
    /\ state \in Uninit..HandedOff
    /\ cursor \in 0..Capacity
    /\ \A t \in Threads : th[t].pc \in
          {"idle", "init", "write", "publish", "wait", "succeed", "pass",
           "load", "cas"}

\* Blocks of the bump arena lie in the region, at the alignment asked for, and
\* no two overlap, however the exchanges of the threads interleave and
\* although a hand-off may pass while an allocation is under way.
BlocksDisjoint ==
    /\ \A b \in blocks : b.at + b.size <= Capacity /\ (Base + b.at) % b.align = 0
    /\ \A b, c \in blocks :
          b # c => b.at + b.size <= c.at \/ c.at + c.size <= b.at

\* No allocation uses a cell that is still being written: the arena only once
\* init has published it, the successor only once hand_off_to has.
ReadsPublished ==
    \A t \in Threads : th[t].pc \in {"load", "pass"} => th[t].got = "written"

\* Every call returns: waiters of global() are let go by the one initialiser,
\* and a lost exchange in alloc means that the cursor moved on, which it can do
\* only so often before the region is full.
CallsEnd == \A t \in Threads : []<>(th[t].pc = "idle")
=============================================================================
