----------------------------- MODULE RankedLocks -----------------------------
(***************************************************************************)
(* The allocator's spin locks and their lock-order checker (lock.rs), in a *)
(* build that has the checker.  A thread takes and releases locks in any   *)
(* order it likes: the checker records the ranks it holds, and stops it    *)
(* before it would wait out of order.                                      *)
(*                                                                         *)
(* A fork copies the memory of a process in which only the forking thread  *)
(* may hold a lock (ForkGate shows that); from then on the model follows   *)
(* the child.                                                              *)
(***************************************************************************)
EXTENDS Naturals, Sequences

CONSTANTS Threads,
          Locks,
          Rank,       \* lock -> its rank
          ForkLock,   \* FORK_LOCK
          MaxHeld,    \* MAX_HELD
          Nobody

VARIABLES locked,     \* lock -> its flag
          holder,     \* lock -> the thread whose acquire returned, or Nobody
          th,         \* thread -> [pc, lock, ranks]
          alive,      \* threads of the process
          forked

vars == <<locked, holder, th, alive, forked>>

\* What the model takes of its constants: a rank is a u8.
ConstantsOK ==
    /\ Rank \in [Locks -> 0..255] /\ ForkLock \in Locks /\ MaxHeld \in Nat
    /\ Threads # {} /\ Nobody \notin Threads /\ Nobody \notin Locks

Init ==
    /\ locked = [l \in Locks |-> FALSE] /\ holder = [l \in Locks |-> Nobody]
    /\ th = [t \in Threads |-> [pc |-> "run", lock |-> Nobody, ranks |-> <<>>]]
    /\ alive = Threads /\ forked = FALSE

HeldBy(t) == {l \in Locks : holder[l] = t}

----------------------------------------------------------------------------
(* acquire: checker::enter, then the spin.                                 *)

\* Mutant: only the last rank is compared.
TopBelow(ranks, r) == ranks # <<>> => ranks[Len(ranks)] < r
AllBelow(ranks, r) == \A i \in DOMAIN ranks : ranks[i] < r

\* A failed assertion stops the thread where it is.
Enter(t, l) ==
    /\ th[t].pc = "run"
    /\ th' = [th EXCEPT ![t] =
                IF AllBelow(@.ranks, Rank[l]) /\ Len(@.ranks) < MaxHeld
                THEN [pc |-> "spin", lock |-> l, ranks |-> Append(@.ranks, Rank[l])]
                ELSE [@ EXCEPT !.pc = "stopped"]]
    /\ UNCHANGED <<locked, holder, alive, forked>>

\* The weak exchange may fail on a free lock.
Exchange(t) ==
    LET l == th[t].lock IN
    /\ th[t].pc = "spin"
    /\ \/ /\ ~locked[l]
          /\ locked' = [locked EXCEPT ![l] = TRUE]
          /\ holder' = [holder EXCEPT ![l] = t]
          /\ th' = [th EXCEPT ![t] = [pc |-> "run", lock |-> Nobody, ranks |-> @.ranks]]
       \/ th' = [th EXCEPT ![t].pc = "watch"] /\ UNCHANGED <<locked, holder>>
    /\ UNCHANGED <<alive, forked>>

\* The test before the next exchange.
Watch(t) ==
    /\ th[t].pc = "watch" /\ ~locked[th[t].lock]
    /\ th' = [th EXCEPT ![t].pc = "spin"]
    /\ UNCHANGED <<locked, holder, alive, forked>>

----------------------------------------------------------------------------
(* release: the store, then checker::leave.                                *)

Release(t, l) ==
    /\ th[t].pc = "run" /\ holder[l] = t
    /\ locked' = [locked EXCEPT ![l] = FALSE]
    /\ holder' = [holder EXCEPT ![l] = Nobody]
    /\ th' = [th EXCEPT ![t] = [pc |-> "leave", lock |-> l, ranks |-> @.ranks]]
    /\ UNCHANGED <<alive, forked>>

\* The last entry of the rank is overwritten by the last entry of all.
Left(ranks, r) ==
    LET n == Len(ranks)
        at == {i \in 1..n : ranks[i] = r}
        k == CHOOSE i \in at : \A j \in at : j <= i
    IN IF at = {} THEN ranks
       ELSE [i \in 1..(n - 1) |-> IF i = k THEN ranks[n] ELSE ranks[i]]

Leave(t) ==
    /\ th[t].pc = "leave"
    /\ th' = [th EXCEPT ![t] = [pc |-> "run", lock |-> Nobody,
                                ranks |-> Left(@.ranks, Rank[@.lock])]]
    /\ UNCHANGED <<locked, holder, alive, forked>>

----------------------------------------------------------------------------
(* fork: force_reset of FORK_LOCK and reset_lock_checker in the child.     *)

Fork(t) ==
    /\ ~forked /\ th[t].pc = "run" /\ HeldBy(t) = {ForkLock}
    /\ \A u \in Threads \ {t} :
        HeldBy(u) = {} /\ (th[u].pc = "run" \/ th[u].lock = ForkLock)
    /\ forked' = TRUE /\ alive' = {t}
    /\ th' = [th EXCEPT ![t] = [pc |-> "child", lock |-> Nobody, ranks |-> @.ranks]]
    /\ UNCHANGED <<locked, holder>>

ChildReset(t) ==
    /\ th[t].pc = "child"
    /\ locked' = [locked EXCEPT ![ForkLock] = FALSE]
    /\ holder' = [holder EXCEPT ![ForkLock] = Nobody]
    /\ th' = [th EXCEPT ![t] = [pc |-> "run", lock |-> Nobody, ranks |-> <<>>]]
    /\ UNCHANGED <<alive, forked>>

----------------------------------------------------------------------------

Next ==
    \E t \in alive :
        \/ \E l \in Locks : Enter(t, l) \/ Release(t, l)
        \/ Exchange(t) \/ Watch(t) \/ Leave(t)
        \/ Fork(t) \/ ChildReset(t)

Spec == Init /\ [][Next]_vars

----------------------------------------------------------------------------
(* Properties.                                                             *)

TypeOK ==
    /\ ConstantsOK
    /\ locked \in [Locks -> BOOLEAN] /\ holder \in [Locks -> Threads \cup {Nobody}]
    /\ alive \subseteq Threads /\ alive # {} /\ forked \in BOOLEAN
    /\ \A t \in Threads :
        /\ th[t].pc \in {"run", "spin", "watch", "leave", "child", "stopped"}
        /\ th[t].lock \in Locks \cup {Nobody} /\ Len(th[t].ranks) <= MaxHeld

\* The flag of a lock is set exactly while one acquire of it has returned and
\* its release has not stored, in the parent and in a child.
HeldIsLocked == \A l \in Locks : locked[l] <=> holder[l] # Nobody

\* No set of threads waits for locks that only its own members hold, whatever
\* the order in which they release: the checker stops a thread before it
\* waits out of order, so nobody hangs.
Waiting(t) == t \in alive /\ th[t].pc \in {"spin", "watch"}
NoWaitCycle ==
    \A S \in (SUBSET Threads) \ {{}} :
        ~\A t \in S : Waiting(t) /\ holder[th[t].lock] \in S

\* The checker's record of a thread is the ranks of the locks it holds, waits
\* for or is leaving, no more and no fewer, in a child too: a lock taken
\* later is compared with each of them.
Busy(t) == HeldBy(t) \cup ({th[t].lock} \ {Nobody})
CheckerExact ==
    \A t \in alive :
        {th[t].ranks[i] : i \in DOMAIN th[t].ranks} = {Rank[l] : l \in Busy(t)}

\* The ranked locks as a whole: nobody waits in a circle, the checker's record is
\* exactly what a thread holds, and a held lock's flag is set.
LocksSound == TypeOK /\ HeldIsLocked /\ CheckerExact /\ NoWaitCycle
=============================================================================
