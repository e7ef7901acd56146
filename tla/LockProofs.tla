----------------------------- MODULE LockProofs -----------------------------
(***************************************************************************)
(* Proofs about RankedLocks: for any threads and any locks ranked by a u8  *)
(* the checker's record of a thread is exact, the flag of a lock is its    *)
(* holder's, and no threads wait for one another.  The last needs more     *)
(* than the record: that a thread waits only above everything it holds,    *)
(* which follows from the record being exact when the wait began, which    *)
(* needs its entries to be distinct, or a release would drop the wrong     *)
(* one.  That is the inductive invariant.                                  *)
(***************************************************************************)
EXTENDS RankedLocks, WellFoundedInduction, TLAPS

Distinct(s) == \A i, j \in DOMAIN s : s[i] = s[j] => i = j
Values(s) == {s[i] : i \in DOMAIN s}

Typed ==
    /\ locked \in [Locks -> BOOLEAN]
    /\ holder \in [Locks -> Threads \cup {Nobody}]
    /\ th \in [Threads -> [pc : {"run", "spin", "watch", "leave", "child", "stopped"},
                           lock : Locks \cup {Nobody}, ranks : Seq(Nat)]]
    /\ alive \subseteq Threads

\* Only a thread that waits or leaves has a lock in hand; what it leaves it no
\* longer holds; the child of a fork holds the fork lock alone.
Orderly(t) ==
    /\ th[t].pc \in {"spin", "watch", "leave"} <=> th[t].lock # Nobody
    /\ th[t].pc \in {"spin", "watch", "leave"} => holder[th[t].lock] # t
    /\ th[t].pc = "child" => HeldBy(t) = {ForkLock}

\* The record: its entries are distinct, they are the ranks of the locks held
\* or in hand, and no two of those share a rank.
Recorded(t) ==
    /\ Distinct(th[t].ranks)
    /\ Values(th[t].ranks) = {Rank[l] : l \in Busy(t)}
    /\ \A l, m \in Busy(t) : Rank[l] = Rank[m] => l = m

\* What a thread waits for ranks above all it holds.
Climbs(t) ==
    th[t].pc \in {"spin", "watch"} => \A l \in HeldBy(t) : Rank[l] < Rank[th[t].lock]

IInv ==
    /\ Typed
    /\ HeldIsLocked
    /\ \A l \in Locks : holder[l] # Nobody => holder[l] \in alive
    /\ \A t \in alive : Orderly(t) /\ Recorded(t) /\ Climbs(t)

----------------------------------------------------------------------------

\* A rank is a number.
LEMMA RanksAreNumbers == \A r \in 0..255 : r \in Nat
OBVIOUS

\* A nonempty set of numbers up to 255 has a largest one.
LEMMA Largest ==
    ASSUME NEW N, N \subseteq 0..255, N # {}
    PROVE  \E m \in N : \A n \in N : n <= m
<1> DEFINE T == {255 - n : n \in N}
<1>1. T \subseteq Nat /\ T # {}
  <2>1. PICK n \in N : TRUE
    BY Zenon
  <2>2. 255 - n \in T
    BY Zenon
  <2>3. \A k \in 0..255 : 255 - k \in Nat
    OBVIOUS
  <2> QED BY <2>2, <2>3
<1>2. \E x \in T : \A y \in T : ~(<<y, x>> \in OpToRel(<, Nat))
  <2> HIDE DEF T
  <2> QED BY Zenon, <1>1, NatLessThanWellFounded, WFMin
<1>3. PICK x \in T : \A y \in T : ~(y < x)
  BY Zenon, <1>1, <1>2 DEF OpToRel
<1>4. PICK m \in N : x = 255 - m
  BY Zenon, <1>3
<1>5. ASSUME NEW n \in N PROVE n <= m
  <2>1. 255 - n \in T
    BY ZenonT(30)
  <2>2. ~(255 - n < 255 - m)
    BY Zenon, <1>3, <1>4, <2>1
  <2> QED BY <2>2, n \in 0..255, m \in 0..255
<1> QED BY Zenon, <1>5

\* The waits of a state in which every thread climbs have no cycle: of the
\* locks a closed set of threads waits for, take the highest; its holder is in
\* the set and waits for a higher one.
LEMMA ClimbersDoNotCycle ==
    ASSUME ConstantsOK, IInv
    PROVE  NoWaitCycle
<1> SUFFICES ASSUME NEW S \in SUBSET Threads, S # {},
                    \A t \in S : Waiting(t) /\ holder[th[t].lock] \in S
             PROVE  FALSE
  BY Zenon DEF NoWaitCycle
<1> DEFINE N == {Rank[th[t].lock] : t \in S}
<1>1. ASSUME NEW t \in S
      PROVE  /\ t \in alive /\ t \in Threads
             /\ th[t].pc \in {"spin", "watch"}
             /\ th[t].lock \in Locks
             /\ Rank[th[t].lock] \in 0..255
  <2>1. t \in alive /\ th[t].pc \in {"spin", "watch"}
    BY Zenon DEF Waiting
  <2>2. th[t].lock # Nobody /\ th[t].lock \in Locks \cup {Nobody}
    BY Zenon, <2>1 DEF IInv, Typed, Orderly
  <2> QED BY Zenon, <2>1, <2>2 DEF ConstantsOK
<1>2. N \subseteq 0..255 /\ N # {}
  BY <1>1
<1>3. PICK m \in N : \A n \in N : n <= m
  <2> HIDE DEF N
  <2> QED BY Zenon, <1>2, Largest
<1>4. PICK t \in S : m = Rank[th[t].lock]
  BY Zenon, <1>3
<1> DEFINE u == holder[th[t].lock]
<1>5. u \in S /\ th[t].lock \in HeldBy(u)
  BY Zenon, <1>1, <1>4 DEF HeldBy
<1>6. Rank[th[t].lock] < Rank[th[u].lock]
  BY Zenon, <1>1, <1>5 DEF IInv, Climbs
<1>7. Rank[th[u].lock] <= m
  BY Zenon, <1>3, <1>5
<1>8. m \in 0..255 /\ Rank[th[u].lock] \in 0..255
  BY Zenon, <1>1, <1>2, <1>3, <1>5
<1> HIDE DEF N, u
<1>9. Rank[th[u].lock] <= Rank[th[t].lock] /\ Rank[th[t].lock] \in 0..255
  BY Zenon, <1>4, <1>7, <1>8
<1>10. \A a, b \in 0..255 : ~(a < b /\ b <= a)
  OBVIOUS
<1> QED BY Zenon, <1>6, <1>8, <1>9, <1>10

----------------------------------------------------------------------------

\* No lock is held at the start.
LEMMA InitIInv == ASSUME ConstantsOK, Init PROVE IInv
<1> USE DEF Init, ConstantsOK
<1>1. Typed
  BY DEF Typed
<1>2. HeldIsLocked /\ \A l \in Locks : holder[l] # Nobody => holder[l] \in alive
  BY Zenon DEF HeldIsLocked
<1>3. ASSUME NEW t \in alive PROVE Orderly(t) /\ Recorded(t) /\ Climbs(t)
  <2>1. HeldBy(t) = {} /\ Busy(t) = {}
    BY Zenon DEF HeldBy, Busy
  <2>2. Values(th[t].ranks) = {}
    BY DEF Values
  <2>3. Distinct(th[t].ranks)
    BY DEF Distinct
  <2> QED BY <2>1, <2>2, <2>3 DEF Orderly, Recorded, Climbs
<1> QED BY Zenon, <1>1, <1>2, <1>3 DEF IInv

----------------------------------------------------------------------------
(* The record, as a sequence.                                              *)

\* Entering a rank above the others adds it, and the entries stay distinct.
LEMMA EnterFacts ==
    ASSUME NEW s \in Seq(Nat), NEW r \in Nat, Distinct(s), AllBelow(s, r)
    PROVE  /\ Append(s, r) \in Seq(Nat) /\ Distinct(Append(s, r))
           /\ Values(Append(s, r)) = Values(s) \cup {r}
<1> DEFINE a == Append(s, r)  n == Len(s)
<1>1. a \in Seq(Nat) /\ Len(a) = n + 1 /\ n \in Nat
  OBVIOUS
<1>2. DOMAIN s = 1..n /\ DOMAIN a = 1..(n + 1)
  BY <1>1
<1>3. a[n + 1] = r /\ \A i \in 1..n : a[i] = s[i] /\ s[i] \in Nat
  OBVIOUS
<1>4. \A i \in 1..n : a[i] < r
  BY Zenon, <1>2, <1>3 DEF AllBelow
<1>5. \A i \in 1..(n + 1) : i \in 1..n \/ i = n + 1
  BY <1>1
<1> HIDE DEF a, n
<1>6. Distinct(a)
  <2> SUFFICES ASSUME NEW i \in 1..(n + 1), NEW j \in 1..(n + 1), a[i] = a[j] PROVE i = j
    BY Zenon, <1>2 DEF Distinct
  <2>1. CASE i \in 1..n /\ j \in 1..n
    BY Zenon, <2>1, <1>2, <1>3 DEF Distinct
  <2>2. CASE i = n + 1 /\ j = n + 1
    BY Zenon, <2>2
  <2>3. CASE i \in 1..n /\ j = n + 1
    BY <2>3, <1>3, <1>4
  <2>4. CASE i = n + 1 /\ j \in 1..n
    BY <2>4, <1>3, <1>4
  <2> QED BY Zenon, <1>5, <2>1, <2>2, <2>3, <2>4
<1>7. Values(a) = Values(s) \cup {r}
  <2>1. ASSUME NEW x \in Values(a) PROVE x \in Values(s) \cup {r}
    <3>1. PICK i \in 1..(n + 1) : x = a[i]
      BY Zenon, <1>2 DEF Values
    <3> QED BY Zenon, <3>1, <1>2, <1>3, <1>5 DEF Values
  <2>2. ASSUME NEW x \in Values(s) \cup {r} PROVE x \in Values(a)
    <3>1. CASE x = r
      BY <3>1, <1>1, <1>2, <1>3 DEF Values
    <3>2. CASE x \in Values(s)
      <4>1. PICK i \in 1..n : x = s[i]
        BY Zenon, <3>2, <1>2 DEF Values
      <4>2. i \in 1..(n + 1) /\ x = a[i]
        BY <4>1, <1>1, <1>3
      <4> QED BY Zenon, <4>2, <1>2 DEF Values
    <3> QED BY Zenon, <3>1, <3>2
  <2> QED BY Zenon, <2>1, <2>2
<1> QED BY Zenon, <1>1, <1>6, <1>7 DEF a

\* Leaving a rank drops it and nothing else, when the entries are distinct.
LEMMA LeaveFacts ==
    ASSUME NEW s \in Seq(Nat), NEW r \in Nat, Distinct(s), r \in Values(s)
    PROVE  /\ Left(s, r) \in Seq(Nat) /\ Distinct(Left(s, r))
           /\ Values(Left(s, r)) = Values(s) \ {r}
<1> DEFINE n == Len(s)
           at == {i \in 1..n : s[i] = r}
           k == CHOOSE i \in at : \A j \in at : j <= i
           d == [i \in 1..(n - 1) |-> IF i = k THEN s[n] ELSE s[i]]
<1>1. n \in Nat /\ DOMAIN s = 1..n /\ \A i \in 1..n : s[i] \in Nat
  OBVIOUS
<1>2. PICK p \in 1..n : s[p] = r
  BY Zenon, <1>1 DEF Values
<1>3. at = {p}
  BY Zenon, <1>1, <1>2 DEF Distinct
<1>4. k = p
  BY <1>2, <1>3
<1>5. Left(s, r) = d
  BY Zenon, <1>3 DEF Left
<1> HIDE DEF k, n
<1>6. n - 1 \in Nat /\ n \in 1..n
  BY <1>1, <1>2
<1>7. \A i \in 1..(n - 1) : i \in 1..n /\ i # n
  BY <1>1
<1>8. \A i \in 1..n : i \in 1..(n - 1) \/ i = n
  BY <1>1
<1>9. d \in Seq(Nat) /\ DOMAIN d = 1..(n - 1)
  BY <1>1, <1>6, <1>7
<1>10. \A i \in 1..(n - 1) : d[i] = IF i = p THEN s[n] ELSE s[i]
  BY Zenon, <1>4
<1> HIDE DEF d
<1>11. Distinct(d)
  <2> SUFFICES ASSUME NEW i \in 1..(n - 1), NEW j \in 1..(n - 1), d[i] = d[j] PROVE i = j
    BY Zenon, <1>9 DEF Distinct
  <2>1. s[IF i = p THEN n ELSE i] = s[IF j = p THEN n ELSE j]
    BY Zenon, <1>10
  <2>2. (IF i = p THEN n ELSE i) = (IF j = p THEN n ELSE j)
    BY Zenon, <2>1, <1>1, <1>6, <1>7 DEF Distinct
  <2> QED BY Zenon, <2>2, <1>7
<1>12. Values(d) = Values(s) \ {r}
  <2>1. ASSUME NEW x \in Values(d) PROVE x \in Values(s) \ {r}
    <3>1. PICK i \in 1..(n - 1) : x = d[i]
      BY Zenon, <1>9 DEF Values
    <3>2. PICK j \in 1..n : x = s[j] /\ j # p
      BY Zenon, <3>1, <1>6, <1>7, <1>10
    <3>3. s[j] # r
      BY Zenon, <3>2, <1>1, <1>2 DEF Distinct
    <3> QED BY Zenon, <3>2, <3>3, <1>1 DEF Values
  <2>2. ASSUME NEW x \in Values(s) \ {r} PROVE x \in Values(d)
    <3>1. PICK j \in 1..n : x = s[j]
      BY Zenon, <1>1 DEF Values
    <3>2. j # p
      BY Zenon, <3>1, <1>2
    <3>3. CASE j \in 1..(n - 1)
      BY Zenon, <3>1, <3>2, <3>3, <1>9, <1>10 DEF Values
    <3>4. CASE j = n
      <4>1. p \in 1..(n - 1)
        BY Zenon, <3>2, <3>4, <1>8
      <4>2. d[p] = x
        BY Zenon, <4>1, <3>1, <3>4, <1>10
      <4> QED BY Zenon, <4>1, <4>2, <1>9 DEF Values
    <3> QED BY Zenon, <3>3, <3>4, <1>8
  <2> QED BY Zenon, <2>1, <2>2
<1> QED BY Zenon, <1>5, <1>9, <1>11, <1>12

----------------------------------------------------------------------------
(* One lemma per action.  Each disturbs the thread that takes the step; the *)
(* others keep what they hold, unless the lock changes hands.               *)

\* A thread whose own record is unchanged and that holds the same locks keeps
\* its part of the invariant.
LEMMA Untouched ==
    ASSUME NEW t, HeldBy(t)' = HeldBy(t), th'[t] = th[t],
           th[t].lock # Nobody => (holder'[th[t].lock] = t <=> holder[th[t].lock] = t),
           Orderly(t), Recorded(t), Climbs(t)
    PROVE  Orderly(t)' /\ Recorded(t)' /\ Climbs(t)'
<1>1. Busy(t)' = Busy(t)
  BY Zenon DEF Busy
<1>2. Orderly(t)'
  BY Zenon DEF Orderly
<1>3. Recorded(t)'
  BY Zenon, <1>1 DEF Recorded
<1>4. Climbs(t)'
  BY Zenon DEF Climbs
<1> QED BY Zenon, <1>2, <1>3, <1>4

\* The checker lets a thread wait only above its record, which names every
\* lock it holds: the lock it is about to wait for is none of them.
LEMMA EnterKeeps ==
    ASSUME ConstantsOK, IInv, NEW t \in alive, NEW l \in Locks, Enter(t, l)
    PROVE  IInv'
<1>a. Rank[l] \in 0..255 /\ Nobody \notin Locks
  BY Zenon DEF ConstantsOK
<1>b. Rank[l] \in Nat
  BY <1>a
<1>c. Typed
  BY Zenon DEF IInv
<1>0. Typed /\ t \in Threads /\ th[t].ranks \in Seq(Nat) /\ Rank[l] \in Nat
  BY Zenon, <1>b, <1>c DEF Typed
<1>1. Orderly(t) /\ Recorded(t) /\ Climbs(t)
  BY Zenon DEF IInv
<1>2. th[t].pc = "run" /\ th[t].lock = Nobody
  BY Zenon, <1>1 DEF Enter, Orderly
<1>3. UNCHANGED <<locked, holder, alive>> /\ \A u : HeldBy(u)' = HeldBy(u)
  BY Zenon DEF Enter, HeldBy
<1>4. \A u \in Threads \ {t} : th'[u] = th[u]
  BY Zenon, <1>0 DEF Enter, Typed
<1>5. \A u \in alive \ {t} : Orderly(u)' /\ Recorded(u)' /\ Climbs(u)'
  BY Zenon, <1>0, <1>3, <1>4, Untouched DEF IInv, Typed
<1>6. HeldIsLocked' /\ \A m \in Locks : holder'[m] # Nobody => holder'[m] \in alive'
  BY Zenon, <1>3 DEF IInv, HeldIsLocked
<1> DEFINE ok == AllBelow(th[t].ranks, Rank[l]) /\ Len(th[t].ranks) < MaxHeld
<1>7. CASE ok
  <2>1. th'[t] = [pc |-> "spin", lock |-> l, ranks |-> Append(th[t].ranks, Rank[l])]
    BY Zenon, <1>0, <1>7 DEF Enter, Typed
  <2>2. /\ Append(th[t].ranks, Rank[l]) \in Seq(Nat)
        /\ Distinct(Append(th[t].ranks, Rank[l]))
        /\ Values(Append(th[t].ranks, Rank[l])) = Values(th[t].ranks) \cup {Rank[l]}
    BY Zenon, <1>0, <1>1, <1>7, EnterFacts DEF Recorded
  <2>3. Typed'
    BY Zenon, <1>0, <1>3, <1>7, <2>2 DEF Enter, Typed
  <2>4. Busy(t) = HeldBy(t) /\ Busy(t)' = HeldBy(t) \cup {l}
    BY <1>a, <1>2, <1>3, <2>1 DEF Busy
  <2>5. \A m \in HeldBy(t) : Rank[m] \in Values(th[t].ranks)
    BY Zenon, <1>1, <2>4 DEF Recorded
  <2>6. \A m \in HeldBy(t) : Rank[m] < Rank[l]
    BY Zenon, <1>7, <2>5 DEF AllBelow, Values
  <2>7. \A m \in HeldBy(t) : Rank[m] # Rank[l]
    <3>1. \A a \in Nat : ~(a < a)
      OBVIOUS
    <3> QED BY Zenon, <1>0, <2>6, <3>1
  <2>8. Orderly(t)'
    BY <1>a, <1>3, <2>1, <2>7 DEF Orderly, HeldBy
  <2>9. Recorded(t)'
    <3>1. Values(th[t].ranks)' = {Rank[m] : m \in Busy(t)'}
      BY <1>1, <2>1, <2>2, <2>4 DEF Recorded
    <3>2. \A m, k \in Busy(t)' : Rank[m] = Rank[k] => m = k
      BY Zenon, <1>1, <2>4, <2>7 DEF Recorded
    <3> QED BY <2>1, <2>2, <3>1, <3>2 DEF Recorded
  <2>10. Climbs(t)'
    BY <1>3, <2>1, <2>6 DEF Climbs
  <2> QED BY Zenon, <1>3, <1>5, <1>6, <2>3, <2>8, <2>9, <2>10 DEF IInv
<1>8. CASE ~ok
  <2>1. th'[t] = [th[t] EXCEPT !.pc = "stopped"]
    BY Zenon, <1>0, <1>8 DEF Enter, Typed
  <2>2. Typed'
    BY ZenonT(30), <1>0, <1>3, <1>8 DEF Enter, Typed
  <2>3. th'[t].pc = "stopped" /\ th'[t].lock = th[t].lock /\ th'[t].ranks = th[t].ranks
    BY <1>0, <2>1 DEF Typed
  <2>4. Busy(t)' = Busy(t)
    BY Zenon, <1>3, <2>3 DEF Busy
  <2>5. Orderly(t)' /\ Climbs(t)'
    BY Zenon, <1>2, <1>3, <2>3 DEF Orderly, Climbs
  <2>6. Recorded(t)'
    BY Zenon, <1>1, <2>3, <2>4 DEF Recorded
  <2> QED BY Zenon, <1>3, <1>5, <1>6, <2>2, <2>5, <2>6 DEF IInv
<1> QED BY Zenon, <1>7, <1>8

\* A thread that moves between the exchange and the test changes nothing else.
LEMMA SpinningKeeps ==
    ASSUME IInv, NEW t \in alive, th[t].pc \in {"spin", "watch"},
           NEW p \in {"spin", "watch"}, th' = [th EXCEPT ![t].pc = p],
           UNCHANGED <<locked, holder, alive>>
    PROVE  IInv'
<1>1. Typed /\ t \in Threads
  BY Zenon DEF IInv, Typed
<1>2. Typed' /\ \A u \in Threads \ {t} : th'[u] = th[u]
  BY Zenon, <1>1 DEF Typed
<1>3. th'[t].pc = p /\ th'[t].lock = th[t].lock /\ th'[t].ranks = th[t].ranks
  BY Zenon, <1>1 DEF Typed
<1>4. \A u : HeldBy(u)' = HeldBy(u)
  BY Zenon DEF HeldBy
<1>5. \A u \in alive \ {t} : Orderly(u)' /\ Recorded(u)' /\ Climbs(u)'
  BY Zenon, <1>1, <1>2, <1>4, Untouched DEF IInv, Typed
<1>6. Orderly(t) /\ Recorded(t) /\ Climbs(t)
  BY Zenon DEF IInv
<1>7. Busy(t)' = Busy(t)
  BY Zenon, <1>3, <1>4 DEF Busy
<1>8. Orderly(t)'
  BY Zenon, <1>3, <1>4, <1>6 DEF Orderly
<1>9. Recorded(t)'
  BY Zenon, <1>3, <1>6, <1>7 DEF Recorded
<1>10. Climbs(t)'
  BY Zenon, <1>3, <1>4, <1>6 DEF Climbs
<1>11. HeldIsLocked' /\ \A m \in Locks : holder'[m] # Nobody => holder'[m] \in alive'
  BY Zenon DEF IInv, HeldIsLocked
<1> QED BY Zenon, <1>2, <1>5, <1>8, <1>9, <1>10, <1>11 DEF IInv

\* The lock changes hands from nobody to the waiting thread.
LEMMA ExchangeKeeps ==
    ASSUME ConstantsOK, IInv, NEW t \in alive, Exchange(t)
    PROVE  IInv'
<1> DEFINE l == th[t].lock
<1>1. Typed /\ t \in Threads /\ Nobody \notin Threads /\ Nobody \notin Locks
  BY Zenon DEF IInv, Typed, ConstantsOK
<1>2. Orderly(t) /\ Recorded(t) /\ Climbs(t) /\ th[t].pc = "spin"
  BY Zenon DEF IInv, Exchange
<1>3. l \in Locks
  BY Zenon, <1>1, <1>2 DEF Orderly, Typed
<1>4. CASE th' = [th EXCEPT ![t].pc = "watch"] /\ UNCHANGED <<locked, holder>>
  BY Zenon, <1>2, <1>4, SpinningKeeps DEF Exchange
<1>5. CASE /\ ~locked[l]
           /\ locked' = [locked EXCEPT ![l] = TRUE]
           /\ holder' = [holder EXCEPT ![l] = t]
           /\ th' = [th EXCEPT ![t] = [pc |-> "run", lock |-> Nobody, ranks |-> @.ranks]]
  <2>1. holder[l] = Nobody /\ alive' = alive
    BY Zenon, <1>3, <1>5 DEF IInv, HeldIsLocked, Exchange
  <2>a. locked' \in [Locks -> BOOLEAN] /\ holder' \in [Locks -> Threads \cup {Nobody}]
    BY Zenon, <1>1, <1>5 DEF Typed
  <2>b. th' = [th EXCEPT ![t] = [pc |-> "run", lock |-> Nobody, ranks |-> @.ranks]]
    BY Zenon, <1>5
  <2>c. th' \in [Threads -> [pc : {"run", "spin", "watch", "leave", "child", "stopped"},
                             lock : Locks \cup {Nobody}, ranks : Seq(Nat)]]
    BY Zenon, <1>1, <2>b DEF Typed
  <2>2. Typed' /\ \A u \in Threads \ {t} : th'[u] = th[u]
    BY Zenon, <1>1, <2>1, <2>a, <2>b, <2>c DEF Typed
  <2>3. th'[t].pc = "run" /\ th'[t].lock = Nobody /\ th'[t].ranks = th[t].ranks
    BY Zenon, <1>1, <1>5 DEF Typed
  <2>4. holder'[l] = t /\ \A m \in Locks \ {l} : holder'[m] = holder[m]
    BY Zenon, <1>1, <1>3, <1>5 DEF Typed
  <2>5. HeldBy(t)' = HeldBy(t) \cup {l}
    BY Zenon, <1>3, <2>4 DEF HeldBy
  <2>6. \A u \in Threads \ {t} : HeldBy(u)' = HeldBy(u)
    BY Zenon, <1>1, <2>1, <2>4 DEF HeldBy
  <2>7. \A u \in alive \ {t} : Orderly(u)' /\ Recorded(u)' /\ Climbs(u)'
    <3> SUFFICES ASSUME NEW u \in alive \ {t} PROVE Orderly(u)' /\ Recorded(u)' /\ Climbs(u)'
      BY Zenon
    <3>1. u \in Threads \ {t} /\ Orderly(u) /\ Recorded(u) /\ Climbs(u)
      BY Zenon, <1>1 DEF IInv, Typed
    <3>2. th[u].lock # Nobody => (holder'[th[u].lock] = u <=> holder[th[u].lock] = u)
      BY Zenon, <1>1, <2>1, <2>4, <3>1 DEF Typed
    <3> QED BY Zenon, <2>2, <2>6, <3>1, <3>2, Untouched
  <2>8. Busy(t)' = Busy(t)
    BY Zenon, <1>1, <1>3, <2>3, <2>5 DEF Busy
  <2>9. Orderly(t)' /\ Climbs(t)'
    BY Zenon, <2>3 DEF Orderly, Climbs
  <2>10. Recorded(t)'
    BY Zenon, <1>2, <2>3, <2>8 DEF Recorded
  <2>11. HeldIsLocked'
    BY Zenon, <1>1, <1>3, <1>5, <2>4 DEF IInv, HeldIsLocked, Typed
  <2>12. \A m \in Locks : holder'[m] # Nobody => holder'[m] \in alive'
    BY Zenon, <2>1, <2>4 DEF IInv
  <2> QED BY Zenon, <2>1, <2>2, <2>7, <2>9, <2>10, <2>11, <2>12 DEF IInv
<1> QED BY Zenon, <1>4, <1>5 DEF Exchange

\* The lock changes hands from its holder to nobody, and stays in its record.
LEMMA ReleaseKeeps ==
    ASSUME ConstantsOK, IInv, NEW t \in alive, NEW l \in Locks, Release(t, l)
    PROVE  IInv'
<1>1. Typed /\ t \in Threads /\ Nobody \notin Threads /\ Nobody \notin Locks
  BY Zenon DEF IInv, Typed, ConstantsOK
<1>2. Orderly(t) /\ Recorded(t) /\ Climbs(t) /\ th[t].pc = "run" /\ th[t].lock = Nobody
  BY Zenon DEF IInv, Release, Orderly
<1>a. locked' \in [Locks -> BOOLEAN] /\ holder' \in [Locks -> Threads \cup {Nobody}]
  BY Zenon, <1>1 DEF Typed, Release
<1>b. th' = [th EXCEPT ![t] = [pc |-> "leave", lock |-> l, ranks |-> @.ranks]]
  BY Zenon DEF Release
<1>c. th' \in [Threads -> [pc : {"run", "spin", "watch", "leave", "child", "stopped"},
                           lock : Locks \cup {Nobody}, ranks : Seq(Nat)]]
  BY Zenon, <1>1, <1>b DEF Typed
<1>d. alive' = alive
  BY Zenon DEF Release
<1>3. Typed' /\ alive' = alive /\ \A u \in Threads \ {t} : th'[u] = th[u]
  BY Zenon, <1>1, <1>a, <1>b, <1>c, <1>d DEF Typed
<1>4. th'[t].pc = "leave" /\ th'[t].lock = l /\ th'[t].ranks = th[t].ranks
  BY Zenon, <1>1 DEF Typed, Release
<1>5. holder[l] = t /\ holder'[l] = Nobody /\ \A m \in Locks \ {l} : holder'[m] = holder[m]
  BY Zenon, <1>1 DEF Typed, Release
<1>6. HeldBy(t) = HeldBy(t)' \cup {l}
  BY Zenon, <1>1, <1>5 DEF HeldBy
<1>7. \A u \in Threads \ {t} : HeldBy(u)' = HeldBy(u)
  BY Zenon, <1>1, <1>5 DEF HeldBy
<1>8. \A u \in alive \ {t} : Orderly(u)' /\ Recorded(u)' /\ Climbs(u)'
  <2> SUFFICES ASSUME NEW u \in alive \ {t} PROVE Orderly(u)' /\ Recorded(u)' /\ Climbs(u)'
    BY Zenon
  <2>1. u \in Threads \ {t} /\ Orderly(u) /\ Recorded(u) /\ Climbs(u)
    BY Zenon, <1>1 DEF IInv, Typed
  <2>2. th[u].lock # Nobody => (holder'[th[u].lock] = u <=> holder[th[u].lock] = u)
    BY Zenon, <1>1, <1>5, <2>1 DEF Typed
  <2> QED BY Zenon, <1>3, <1>7, <2>1, <2>2, Untouched
<1>9. Busy(t)' = Busy(t)
  BY Zenon, <1>1, <1>2, <1>4, <1>6 DEF Busy
<1>10. Orderly(t)' /\ Climbs(t)'
  BY Zenon, <1>1, <1>4, <1>5 DEF Orderly, Climbs
<1>11. Recorded(t)'
  BY Zenon, <1>2, <1>4, <1>9 DEF Recorded
<1>12. HeldIsLocked'
  BY Zenon, <1>1, <1>5 DEF IInv, HeldIsLocked, Release, Typed
<1>13. \A m \in Locks : holder'[m] # Nobody => holder'[m] \in alive'
  BY Zenon, <1>3, <1>5 DEF IInv
<1> QED BY Zenon, <1>3, <1>8, <1>10, <1>11, <1>12, <1>13 DEF IInv

\* The rank dropped from the record is that of the lock just released: no
\* other lock the thread holds has it.
LEMMA LeaveKeeps ==
    ASSUME ConstantsOK, IInv, NEW t \in alive, Leave(t)
    PROVE  IInv'
<1> DEFINE l == th[t].lock
           r == Left(th[t].ranks, Rank[l])
<1>1. Typed /\ t \in Threads /\ Nobody \notin Threads /\ Nobody \notin Locks
  BY Zenon DEF IInv, Typed, ConstantsOK
<1>2. Orderly(t) /\ Recorded(t) /\ th[t].pc = "leave"
  BY Zenon DEF IInv, Leave
<1>3. l \in Locks /\ holder[l] # t
  BY Zenon, <1>1, <1>2 DEF Orderly, Typed
<1>4. Rank[l] \in 0..255
  BY ZenonT(30), <1>3 DEF ConstantsOK
<1>a. Rank[l] \in Nat
  BY Zenon, <1>4, RanksAreNumbers
<1>5. Rank[l] \in Nat /\ th[t].ranks \in Seq(Nat)
  BY Zenon, <1>1, <1>a DEF Typed
<1>6. Busy(t) = HeldBy(t) \cup {l} /\ l \notin HeldBy(t)
  BY Zenon, <1>1, <1>3 DEF Busy, HeldBy
<1>7. Rank[l] \in Values(th[t].ranks)
  BY Zenon, <1>2, <1>6 DEF Recorded
<1>8. r \in Seq(Nat) /\ Distinct(r) /\ Values(r) = Values(th[t].ranks) \ {Rank[l]}
  BY Zenon, <1>2, <1>5, <1>7, LeaveFacts DEF Recorded
<1>9. Values(r) = {Rank[m] : m \in HeldBy(t)}
  BY <1>2, <1>6, <1>8 DEF Recorded
<1> HIDE DEF r
<1>10. UNCHANGED <<locked, holder, alive>> /\ \A u : HeldBy(u)' = HeldBy(u)
  BY Zenon DEF Leave, HeldBy
<1>11. th' = [th EXCEPT ![t] = [pc |-> "run", lock |-> Nobody, ranks |-> r]]
  BY Zenon DEF Leave, r
<1>12. Typed' /\ \A u \in Threads \ {t} : th'[u] = th[u]
  BY Zenon, <1>1, <1>8, <1>10, <1>11 DEF Typed
<1>13. th'[t].pc = "run" /\ th'[t].lock = Nobody /\ th'[t].ranks = r
  BY Zenon, <1>1, <1>11 DEF Typed
<1>14. \A u \in alive \ {t} : Orderly(u)' /\ Recorded(u)' /\ Climbs(u)'
  BY Zenon, <1>1, <1>10, <1>12, Untouched DEF IInv, Typed
<1>15. Busy(t)' = HeldBy(t)
  BY Zenon, <1>10, <1>13 DEF Busy
<1>16. Orderly(t)' /\ Climbs(t)'
  BY Zenon, <1>13 DEF Orderly, Climbs
<1>17. Recorded(t)'
  BY <1>2, <1>6, <1>8, <1>9, <1>13, <1>15 DEF Recorded
<1>18. HeldIsLocked' /\ \A m \in Locks : holder'[m] # Nobody => holder'[m] \in alive'
  BY Zenon, <1>10 DEF IInv, HeldIsLocked
<1> QED BY Zenon, <1>10, <1>12, <1>14, <1>16, <1>17, <1>18 DEF IInv

\* Only the forking thread holds a lock, so the child's memory says nothing of
\* the threads it does not have.
LEMMA ForkKeeps ==
    ASSUME ConstantsOK, IInv, NEW t \in alive, Fork(t)
    PROVE  IInv'
<1>1. Typed /\ t \in Threads /\ Nobody \notin Threads
  BY Zenon DEF IInv, Typed, ConstantsOK
<1>2. Orderly(t) /\ Recorded(t) /\ th[t].pc = "run" /\ th[t].lock = Nobody
  BY Zenon DEF IInv, Fork, Orderly
<1>3. UNCHANGED <<locked, holder>> /\ alive' = {t} /\ HeldBy(t)' = HeldBy(t)
  BY Zenon DEF Fork, HeldBy
<1>4. Typed'
  BY Zenon, <1>1, <1>3 DEF Typed, Fork
<1>5. th'[t].pc = "child" /\ th'[t].lock = Nobody /\ th'[t].ranks = th[t].ranks
  BY Zenon, <1>1, <1>2 DEF Typed, Fork
<1>6. Busy(t)' = Busy(t)
  BY Zenon, <1>2, <1>3, <1>5 DEF Busy
<1>7. Orderly(t)' /\ Climbs(t)'
  BY Zenon, <1>3, <1>5 DEF Orderly, Climbs, Fork
<1>8. Recorded(t)'
  BY Zenon, <1>2, <1>5, <1>6 DEF Recorded
<1>9. HeldIsLocked'
  BY Zenon, <1>3 DEF IInv, HeldIsLocked
<1>10. \A m \in Locks : holder'[m] # Nobody => holder'[m] \in alive'
  <2>1. \A u \in Threads \ {t} : HeldBy(u) = {}
    BY Zenon DEF Fork
  <2> QED BY Zenon, <1>1, <1>3, <2>1 DEF HeldBy, Typed
<1> QED BY Zenon, <1>3, <1>4, <1>7, <1>8, <1>9, <1>10 DEF IInv

\* The child frees the one lock it inherited, with the one entry of its record.
LEMMA ChildResetKeeps ==
    ASSUME ConstantsOK, IInv, NEW t \in alive, ChildReset(t)
    PROVE  IInv'
<1>1. Typed /\ t \in Threads /\ Nobody \notin Threads /\ ForkLock \in Locks
  BY Zenon DEF IInv, Typed, ConstantsOK
<1>2. HeldBy(t) = {ForkLock}
  BY Zenon DEF IInv, Orderly, ChildReset
<1>3. holder[ForkLock] = t /\ \A m \in Locks \ {ForkLock} : holder[m] # t
  BY Zenon, <1>1, <1>2 DEF HeldBy
<1>4. alive' = alive /\ holder'[ForkLock] = Nobody
      /\ \A m \in Locks \ {ForkLock} : holder'[m] = holder[m]
  BY Zenon, <1>1 DEF Typed, ChildReset
<1>a. locked' \in [Locks -> BOOLEAN] /\ holder' \in [Locks -> Threads \cup {Nobody}]
  BY Zenon, <1>1 DEF Typed, ChildReset
<1>b. th' = [th EXCEPT ![t] = [pc |-> "run", lock |-> Nobody, ranks |-> <<>>]]
  BY Zenon DEF ChildReset
<1>c. <<>> \in Seq(Nat)
  OBVIOUS
<1>5. Typed' /\ \A u \in Threads \ {t} : th'[u] = th[u]
  BY Zenon, <1>1, <1>4, <1>a, <1>b, <1>c DEF Typed
<1>6. th'[t].pc = "run" /\ th'[t].lock = Nobody /\ th'[t].ranks = <<>>
  BY Zenon, <1>1, <1>b DEF Typed
<1>7. HeldBy(t)' = {} /\ \A u \in Threads \ {t} : HeldBy(u)' = HeldBy(u)
  BY Zenon, <1>1, <1>3, <1>4 DEF HeldBy
<1>8. \A u \in alive \ {t} : Orderly(u)' /\ Recorded(u)' /\ Climbs(u)'
  <2> SUFFICES ASSUME NEW u \in alive \ {t} PROVE Orderly(u)' /\ Recorded(u)' /\ Climbs(u)'
    BY Zenon
  <2>1. u \in Threads \ {t} /\ Orderly(u) /\ Recorded(u) /\ Climbs(u)
    BY Zenon, <1>1 DEF IInv, Typed
  <2>2. th[u].lock # Nobody => (holder'[th[u].lock] = u <=> holder[th[u].lock] = u)
    BY Zenon, <1>1, <1>3, <1>4, <2>1 DEF Typed
  <2> QED BY Zenon, <1>5, <1>7, <2>1, <2>2, Untouched
<1>9. Busy(t)' = {}
  BY Zenon, <1>6, <1>7 DEF Busy
<1>10. Orderly(t)' /\ Climbs(t)'
  BY Zenon, <1>6 DEF Orderly, Climbs
<1>11. Recorded(t)'
  BY <1>6, <1>9 DEF Recorded, Distinct, Values
<1>12. HeldIsLocked'
  BY Zenon, <1>1, <1>4 DEF IInv, HeldIsLocked, ChildReset, Typed
<1>13. \A m \in Locks : holder'[m] # Nobody => holder'[m] \in alive'
  BY Zenon, <1>4 DEF IInv
<1> QED BY Zenon, <1>4, <1>5, <1>8, <1>10, <1>11, <1>12, <1>13 DEF IInv

----------------------------------------------------------------------------
(* The theorems.                                                           *)

\* Every step of every thread keeps the invariant.
LEMMA StepIInv == ASSUME ConstantsOK, IInv, [Next]_vars PROVE IInv'
<1>1. CASE UNCHANGED vars
  <2>1. \A t : HeldBy(t)' = HeldBy(t) /\ Busy(t)' = Busy(t)
    BY Zenon, <1>1 DEF vars, HeldBy, Busy
  <2>2. \A t \in alive : Orderly(t)' /\ Recorded(t)' /\ Climbs(t)'
    BY Zenon, <1>1, <2>1, Untouched DEF vars, IInv
  <2> QED BY Zenon, <1>1, <2>2 DEF vars, IInv, Typed, HeldIsLocked
<1>2. ASSUME NEW t \in alive, NEW l \in Locks, Enter(t, l) \/ Release(t, l) PROVE IInv'
  BY Zenon, <1>2, EnterKeeps, ReleaseKeeps
<1>3. ASSUME NEW t \in alive, Exchange(t) PROVE IInv'
  BY Zenon, <1>3, ExchangeKeeps
<1>4. ASSUME NEW t \in alive, Watch(t) PROVE IInv'
  BY Zenon, <1>4, SpinningKeeps DEF Watch
<1>5. ASSUME NEW t \in alive, Leave(t) \/ Fork(t) \/ ChildReset(t) PROVE IInv'
  BY Zenon, <1>5, LeaveKeeps, ForkKeeps, ChildResetKeeps
<1> QED BY Zenon, <1>1, <1>2, <1>3, <1>4, <1>5 DEF Next

\* The invariant behind the three that follow: lock.rs keeps flags, holders and
\* the checker's records in step, for any threads, locks and ranks.
THEOREM Invariant == ASSUME ConstantsOK PROVE Spec => []IInv
BY InitIInv, StepIInv, PTL DEF Spec

\* acquire and release: the flag of a lock is set exactly while it has a
\* holder, for any threads and locks.
THEOREM FlagIsHeld == ASSUME ConstantsOK PROVE Spec => []HeldIsLocked
<1>1. IInv => HeldIsLocked
  BY Zenon DEF IInv
<1> QED BY <1>1, Invariant, PTL

\* checker::enter and leave: the record of a thread is the ranks of the locks
\* it holds, waits for or is leaving, in whatever order it releases them.
THEOREM RecordIsExact == ASSUME ConstantsOK PROVE Spec => []CheckerExact
<1>1. IInv => CheckerExact
  BY Zenon DEF IInv, CheckerExact, Recorded, Values
<1> QED BY <1>1, Invariant, PTL

\* The rank order: no threads, however many, wait for one another, whatever
\* locks they take in whatever order, because the checker stops the one that
\* would close the circle.
THEOREM NobodyWaitsInACircle == ASSUME ConstantsOK PROVE Spec => []NoWaitCycle
<1>1. IInv => NoWaitCycle
  BY Zenon, ClimbersDoNotCycle
<1> QED BY <1>1, Invariant, PTL

\* What TypeOK says beyond Typed: the record never outgrows its array, and somebody
\* is left after a fork.
Bounded ==
    /\ alive # {} /\ forked \in BOOLEAN
    /\ \A t \in Threads : Len(th[t].ranks) <= MaxHeld

\* checker::leave shortens the record or leaves it alone.
LEMMA LeftShortens ==
    ASSUME NEW ranks \in Seq(Nat), NEW r PROVE Len(Left(ranks, r)) <= Len(ranks)
<1>1. Len(ranks) \in Nat OBVIOUS
<1>2. CASE {i \in 1..Len(ranks) : ranks[i] = r} = {}
  BY <1>1, <1>2 DEF Left
<1>3. CASE {i \in 1..Len(ranks) : ranks[i] = r} # {}
  <2>1. PICK i \in 1..Len(ranks) : ranks[i] = r BY Zenon, <1>3
  <2>2. Len(ranks) - 1 \in Nat BY <1>1, <2>1
  <2>3. PICK k : Left(ranks, r) =
                   [j \in 1..(Len(ranks) - 1) |-> IF j = k THEN ranks[Len(ranks)] ELSE ranks[j]]
    BY Zenon, <1>3 DEF Left
  <2> QED BY <2>2, <2>3
<1> QED BY Zenon, <1>2, <1>3

\* The types of the locks, the holders and the records, for any instance: the array
\* of the checker holds MaxHeld ranks and is never overrun.
THEOREM LockTypes == ASSUME ConstantsOK PROVE Spec => []TypeOK
<1>1. ASSUME Init PROVE Bounded
  <2>1. \A t \in Threads : th[t].ranks = <<>> BY Zenon, <1>1 DEF Init
  <2>2. alive # {} BY Zenon, <1>1 DEF Init, ConstantsOK
  <2>3. forked \in BOOLEAN BY Zenon, <1>1 DEF Init
  <2>4. 0 <= MaxHeld BY DEF ConstantsOK
  <2> QED BY <2>1, <2>2, <2>3, <2>4 DEF Bounded
<1>2. ASSUME IInv, IInv', Bounded, [Next]_vars PROVE Bounded'
  <2> DEFINE R(u) == th[u].ranks
  <2>1. \A u \in Threads : R(u) \in Seq(Nat) /\ Len(R(u)) \in Nat /\ Len(R(u)) <= MaxHeld
    BY <1>2 DEF IInv, Typed, Bounded
  <2>2. MaxHeld \in Nat BY Zenon DEF ConstantsOK
  <2>3. CASE UNCHANGED vars
    BY Zenon, <1>2, <2>3 DEF vars, Bounded
  <2>4. CASE Next
    <3>1. PICK t \in alive :
              \/ \E l \in Locks : Enter(t, l) \/ Release(t, l)
              \/ Exchange(t) \/ Watch(t) \/ Leave(t) \/ Fork(t) \/ ChildReset(t)
      BY Zenon, <2>4 DEF Next
    <3>2. t \in Threads /\ th \in [Threads -> [pc : {"run", "spin", "watch", "leave", "child",
              "stopped"}, lock : Locks \cup {Nobody}, ranks : Seq(Nat)]]
      BY Zenon, <1>2 DEF IInv, Typed
    <3>3. alive' # {} /\ forked' \in BOOLEAN
      BY Zenon, <1>2, <3>1 DEF Bounded, Enter, Release, Exchange, Watch, Leave, Fork, ChildReset
    <3>4. \A u \in Threads \ {t} : R(u)' = R(u)
      BY Zenon, <3>1, <3>2 DEF Enter, Release, Exchange, Watch, Leave, Fork, ChildReset
    <3>5. \/ R(t)' = R(t) \/ R(t)' = <<>>
          \/ \E r : R(t)' = Left(R(t), r)
          \/ \E r : R(t)' = Append(R(t), r) /\ Len(R(t)) < MaxHeld
      <4>1. ASSUME NEW l \in Locks, Enter(t, l)
            PROVE  \/ R(t)' = R(t)
                   \/ R(t)' = Append(R(t), Rank[l]) /\ Len(R(t)) < MaxHeld
        BY Zenon, <3>2, <4>1 DEF Enter
      <4>2. CASE Leave(t) BY Zenon, <3>2, <4>2 DEF Leave
      <4>3. CASE Exchange(t) \/ Watch(t) BY <3>2, <4>3 DEF Exchange, Watch
      <4>4. CASE Fork(t) \/ ChildReset(t) BY <3>2, <4>4 DEF Fork, ChildReset
      <4>5. ASSUME NEW l \in Locks, Release(t, l) PROVE R(t)' = R(t)
        BY Zenon, <3>2, <4>5 DEF Release
      <4> HIDE DEF R
      <4> QED BY Zenon, <3>1, <4>1, <4>2, <4>3, <4>4, <4>5
    <3>6. Len(R(t)') <= MaxHeld
      <4>1. R(t) \in Seq(Nat) /\ Len(R(t)) \in Nat /\ Len(R(t)) <= MaxHeld
        BY Zenon, <2>1, <3>2
      <4>2. CASE R(t)' = R(t) \/ R(t)' = <<>> BY <2>2, <4>1, <4>2
      <4>3. ASSUME NEW r, R(t)' = Left(R(t), r) PROVE Len(R(t)') <= MaxHeld
        <5>1. R(t)' \in Seq(Nat) BY Zenon, <1>2, <3>2 DEF IInv, Typed
        <5>2. Len(R(t)') <= Len(R(t)) BY Zenon, <4>1, <4>3, LeftShortens
        <5> QED BY <2>2, <4>1, <5>1, <5>2
      <4>4. ASSUME NEW r, R(t)' = Append(R(t), r), Len(R(t)) < MaxHeld
            PROVE  Len(R(t)') <= MaxHeld
        BY <2>2, <4>1, <4>4
      <4> QED BY Zenon, <3>5, <4>2, <4>3, <4>4
    <3> QED BY Zenon, <2>1, <3>3, <3>4, <3>6 DEF Bounded
  <2> QED BY Zenon, <1>2, <2>3, <2>4
<1>3. IInv /\ Bounded => TypeOK
  BY Zenon DEF IInv, Typed, Bounded, TypeOK
<1> QED BY <1>1, <1>2, <1>3, Invariant, PTL DEF Spec

\* lock.rs as a whole: flags, holders and records agree and nobody waits in a
\* circle, for any threads, locks and ranks.
THEOREM LocksAreSound == ASSUME ConstantsOK PROVE Spec => []LocksSound
BY LockTypes, FlagIsHeld, RecordIsExact, NobodyWaitsInACircle, PTL DEF LocksSound

-----------------------------------------------------------------------------
(* The sequence lock of a descriptor (DescriptorSeqlock).  A snapshot is   *)
(* good because of what held when each of its fields was loaded: SeqInv    *)
(* says of every reader what its loads so far are worth as long as the     *)
(* version has not moved since the attempt began.                          *)

CONSTANTS Readers, Stores, Loads, Summed, Resizes, Checks, Retries, MaxWrites
VARIABLES seq, field, tag, todo, by, writes, stray, read

Sq == INSTANCE DescriptorSeqlock

\* The steps and the locals of a reader, and what an update has to store.
Pcs == {"idle", "start", "load", "tag", "sum", "some", "none", "corrupt"}
Locals == [pc : Pcs, s0 : Nat, first : Nat, tries : 0..Retries,
           got : Seq(Sq!Values), want : Seq(Sq!Values), sum : Seq(Sq!Values)]
Todos == [name : Sq!Fields, alt : BOOLEAN]
Sums == 1..Len(Summed)

\* The writer: outside an update every field is of the current incarnation and,
\* unless a stray write came, the tag describes the fields; during one, what is
\* of an older incarnation is still to be stored.
WriterInv ==
    /\ seq \in Nat /\ writes \in 0..MaxWrites /\ by \in 0..writes /\ stray \in BOOLEAN
    /\ seq <= 2 * writes /\ (Sq!Updating => seq < 2 * writes)
    /\ field \in [Sq!Fields -> Sq!Values] /\ tag \in [Sums -> Sq!Values]
    /\ todo \in Seq(Todos) /\ (todo # <<>> => Sq!Updating)
    /\ (~Sq!Updating /\ ~stray) => tag = Sq!ComputeIntegrity(field)
    /\ \A f \in Sq!Fields : field[f].by = by \/ \E i \in 1..Len(todo) : todo[i].name = f

\* A reader l at version n: its attempt began at an even version not before the
\* call, and an attempt behind it was spoilt by an update.
Paced(l, n) ==
    /\ l.pc \in {"load", "tag", "sum", "some"} =>
         l.first <= l.s0 /\ l.s0 <= n /\ l.s0 % 2 = 0
    /\ l.first <= n
    /\ l.tries > 0 => l.first % 2 = 1 \/ n # l.first
    /\ l.tries < Retries \/ l.pc = "none"
    /\ l.pc = "none" => l.tries > 0
    /\ l.pc = "start" => l.got = <<>> /\ l.sum = <<>>
    /\ l.pc \in {"load", "tag"} => l.sum = <<>>
    /\ l.pc = "load" => Len(l.got) <= Len(Loads)
    /\ l.pc \in {"tag", "sum", "some"} => Len(l.got) = Len(Loads)
    /\ l.pc = "sum" => Len(l.sum) <= Len(Summed)

\* Loads under the current version are of the current incarnation b; a snapshot is
\* of one incarnation.
OneLife(l, n, b) ==
    /\ l.pc = "load" /\ n = l.s0 => \A i \in 1..Len(l.got) : l.got[i].by = b
    /\ l.pc \in {"tag", "sum", "some"} =>
         \A i, j \in 1..Len(Loads) : l.got[i].by = l.got[j].by

\* A loaded value that the tag tg does not cover is the work of a stray write st,
\* and is still in the field.
Marked(l, n, st, fd, tg) ==
    l.pc \in {"load", "tag", "sum"} /\ n = l.s0 =>
        \A i \in 1..Len(l.got), j \in Sums : Loads[i] = Summed[j] =>
            l.got[i] = tg[j] \/ (st /\ fd[Summed[j]] # tg[j])

\* So it betrays itself in the sum; without a stray write the sum is the tag.
Betrayed(l, n, st, tg) ==
    l.pc = "sum" /\ n = l.s0 =>
        /\ l.want = tg
        /\ \A i \in 1..Len(Loads), j \in 1..Len(l.sum) :
              Loads[i] = Summed[j] => l.got[i] = tg[j] \/ l.sum[j] # tg[j]
        /\ ~st => \A j \in 1..Len(l.sum) : l.sum[j] = tg[j]

\* What is returned with debug-checks is what the tag covers.
Covered(l, n, tg) ==
    l.pc = "some" /\ Checks /\ n = l.s0 =>
        \A i \in 1..Len(Loads), j \in Sums : Loads[i] = Summed[j] => l.got[i] = tg[j]

LocalInv(l, n, b, st, fd, tg) ==
    /\ Paced(l, n) /\ OneLife(l, n, b)
    /\ Marked(l, n, st, fd, tg) /\ Betrayed(l, n, st, tg) /\ Covered(l, n, tg)

SeqInv ==
    /\ WriterInv
    /\ read \in [Readers -> Locals]
    /\ \A r \in Readers : LocalInv(read[r], seq, by, stray, field, tag)

\* The descriptor starts quiet.
LEMMA SeqBorn == ASSUME Sq!ConstantsOK, Sq!Init PROVE SeqInv
<1>1. Sq!Born \in [Sq!Fields -> Sq!Values] /\ \A f \in Sq!Fields : Sq!Born[f].by = 0
  BY DEF Sq!Born, Sq!Values, Sq!ConstantsOK
<1>2. \A i \in Sums : Summed[i] \in Sq!Fields BY DEF Sq!ConstantsOK, Sums
<1>3. tag \in [Sums -> Sq!Values]
  BY <1>1, <1>2 DEF Sq!Init, Sq!ComputeIntegrity, Sums
<1>a. todo \in Seq(Todos) BY DEF Sq!Init
<1>b. seq = 0 /\ writes = 0 /\ by = 0 /\ stray = FALSE /\ field = Sq!Born /\ todo = <<>>
      /\ tag = Sq!ComputeIntegrity(field) /\ MaxWrites \in Nat
  BY Zenon DEF Sq!Init, Sq!ConstantsOK
<1>c. ~Sq!Updating BY <1>b DEF Sq!Updating
<1>d. 0 \in 0..MaxWrites /\ 0 \in 0..0 /\ 0 <= 2 * 0 /\ 0 \in Nat BY <1>b
<1>4. WriterInv
  BY Zenon, <1>1, <1>3, <1>a, <1>b, <1>c, <1>d DEF WriterInv
<1>5. Sq!Idle \in Locals BY DEF Sq!Idle, Locals, Pcs, Sq!ConstantsOK
<1>6. LocalInv(Sq!Idle, seq, by, stray, field, tag)
  BY DEF LocalInv, Paced, OneLife, Marked, Betrayed, Covered, Sq!Idle, Sq!Init,
     Sq!ConstantsOK
<1>7. QED BY <1>4, <1>5, <1>6 DEF SeqInv, Sq!Init

\* A reader whose version is gone has nothing left to lose but its numbers.
LEMMA Overtaken ==
  ASSUME Sq!ConstantsOK, NEW l \in Locals, seq \in Nat, seq' = seq + 1,
         LocalInv(l, seq, by, stray, field, tag)
  PROVE  LocalInv(l, seq', by', stray', field', tag')
<1>1. l.s0 \in Nat /\ l.first \in Nat BY DEF Locals
<1>2. l.pc \in {"load", "tag", "sum", "some"} => seq' # l.s0
  BY <1>1 DEF LocalInv, Paced, OneLife, Marked, Betrayed, Covered
<1>3. QED BY <1>1, <1>2 DEF LocalInv, Paced, OneLife, Marked, Betrayed, Covered

\* Opening an update (recycle, shrink_usable, grow_usable) overtakes every reader, and
\* leaves whatever is of the incarnation before among the stores to do.
LEMMA BeginStep ==
  ASSUME Sq!ConstantsOK, SeqInv, NEW fs \in Seq(Sq!Fields), NEW alt \in BOOLEAN, Sq!Begin(fs, alt),
         ~alt => \A f \in Sq!Fields : \E i \in 1..Len(fs) : fs[i] = f
  PROVE  SeqInv'
<1>1. /\ seq \in Nat /\ writes \in Nat /\ by \in 0..writes /\ MaxWrites \in Nat
      /\ seq <= 2 * writes /\ writes < MaxWrites /\ seq' = seq + 1 /\ writes' = writes + 1
      /\ by' = IF alt THEN by ELSE by + 1
  BY DEF SeqInv, WriterInv, Sq!ConstantsOK, Sq!Begin
<1>2. /\ seq' \in Nat /\ writes' \in 0..MaxWrites /\ by' \in 0..writes'
      /\ seq' <= 2 * writes' /\ seq' < 2 * writes'
  BY <1>1
<1>a. Sq!Updating' BY SMTT(20), <1>1 DEF Sq!Begin, Sq!Updating
<1>3. todo' \in Seq(Todos) /\ Len(todo') = Len(fs)
      /\ \A i \in 1..Len(fs) : todo'[i].name = fs[i]
  BY DEF Sq!Begin, Todos
<1>4. \A f \in Sq!Fields : field'[f].by = by' \/ \E i \in 1..Len(todo') : todo'[i].name = f
  <2>1. CASE ~alt BY <1>3, <2>1
  <2>2. CASE alt BY <2>2 DEF SeqInv, WriterInv, Sq!Begin
  <2>3. QED BY <2>1, <2>2
<1>5. WriterInv' BY Zenon, <1>2, <1>3, <1>4, <1>a DEF SeqInv, WriterInv, Sq!Begin
<1>6. \A r \in Readers : LocalInv(read[r], seq', by', stray', field', tag')
  BY Zenon, <1>1, Overtaken DEF SeqInv
<1>7. QED BY Zenon, <1>5, <1>6 DEF SeqInv, Sq!Begin

\* The reader's fields stay what they are when a store of the update in flight,
\* a release or a stray write changes one: only the fields the tag covers count,
\* and only outside an update.
LEMMA Undisturbed ==
  ASSUME Sq!ConstantsOK, SeqInv, NEW r \in Readers, UNCHANGED <<seq, by, tag>>,
         \/ Sq!Updating /\ stray' = stray
         \/ stray' = stray /\ \A j \in Sums : field'[Summed[j]] = field[Summed[j]]
         \/ ~stray /\ stray'
  PROVE  LocalInv(read[r], seq', by', stray', field', tag')
<1> DEFINE l == read[r]
<1>1. l \in Locals /\ LocalInv(l, seq, by, stray, field, tag) /\ seq \in Nat
  BY Zenon DEF SeqInv, WriterInv
<1>2. CASE Sq!Updating /\ stray' = stray
  <2>1. l.pc \in {"load", "tag", "sum", "some"} => seq # l.s0
    BY <1>1, <1>2 DEF LocalInv, Paced, OneLife, Marked, Betrayed, Covered, Sq!Updating,
       Locals
  <2>2. QED
    BY Zenon, <1>1, <1>2, <2>1 DEF LocalInv, Paced, OneLife, Marked, Betrayed, Covered
<1>3. CASE stray' = stray /\ \A j \in Sums : field'[Summed[j]] = field[Summed[j]]
  BY SMTT(20), <1>1, <1>3 DEF LocalInv, Paced, OneLife, Marked, Betrayed, Covered
<1>4. CASE ~stray /\ stray'
  BY <1>1, <1>4 DEF LocalInv, Paced, OneLife, Marked, Betrayed, Covered
<1>5. QED BY Zenon, <1>2, <1>3, <1>4

\* A store of an update in flight.
LEMMA StoreStep == ASSUME Sq!ConstantsOK, SeqInv, Sq!Store PROVE SeqInv'
<1> DEFINE h == Head(todo)
<1>1. h \in Todos /\ Tail(todo) \in Seq(Todos) /\ todo \in Seq(Todos) /\ Sq!Updating
      /\ Len(todo) \in Nat \ {0} /\ Len(Tail(todo)) = Len(todo) - 1
      /\ h = todo[1] /\ \A i \in 1..Len(todo) - 1 : Tail(todo)[i] = todo[i + 1]
  BY DEF SeqInv, WriterInv, Sq!Store
<1>2. h.name \in Sq!Fields /\ h.alt \in BOOLEAN /\ by \in 0..MaxWrites
  BY <1>1 DEF Todos, SeqInv, WriterInv, Sq!ConstantsOK
<1>3. [by |-> by, alt |-> h.alt] \in Sq!Values BY <1>2 DEF Sq!Values
<1>4. field' \in [Sq!Fields -> Sq!Values]
  BY <1>2, <1>3 DEF Sq!Store, SeqInv, WriterInv
<1>5. \A f \in Sq!Fields : field'[f].by = by' \/ \E i \in 1..Len(todo') : todo'[i].name = f
  <2> TAKE f \in Sq!Fields
  <2>1. CASE f = h.name BY <1>2, <2>1 DEF Sq!Store, SeqInv, WriterInv
  <2>2. CASE f # h.name
    <3>1. field'[f] = field[f] BY <2>2 DEF Sq!Store, SeqInv, WriterInv
    <3>2. CASE field[f].by = by BY <3>1, <3>2 DEF Sq!Store
    <3>3. CASE \E i \in 1..Len(todo) : todo[i].name = f
      <4>1. PICK i \in 1..Len(todo) : todo[i].name = f BY <3>3
      <4>2. i # 1 BY <1>1, <2>2, <4>1
      <4>3. i - 1 \in 1..Len(todo) - 1 /\ Tail(todo)[i - 1] = todo[(i - 1) + 1] /\ (i - 1) + 1 = i
        BY <1>1, <4>2
      <4>4. QED BY Zenon, <1>1, <4>1, <4>3 DEF Sq!Store
    <3>4. QED BY <3>2, <3>3 DEF SeqInv, WriterInv
  <2>3. QED BY <2>1, <2>2
<1>6. Sq!Updating' /\ UNCHANGED <<seq, tag, by, writes, stray, read>> /\ todo' = Tail(todo)
  BY Zenon, <1>1 DEF Sq!Store, Sq!Updating
<1>7. WriterInv' BY Zenon, <1>1, <1>4, <1>5, <1>6 DEF SeqInv, WriterInv
<1>8. \A r \in Readers : LocalInv(read[r], seq', by', stray', field', tag')
  BY Zenon, <1>1, <1>6, Undisturbed
<1>9. QED BY Zenon, <1>6, <1>7, <1>8 DEF SeqInv

\* The end of an update: the tag is computed anew and the version is even again.
LEMMA EndStep == ASSUME Sq!ConstantsOK, SeqInv, Sq!End PROVE SeqInv'
<1>1. /\ seq \in Nat /\ writes \in Nat /\ seq < 2 * writes /\ seq' = seq + 1 /\ Sq!Updating
      /\ todo = <<>> /\ todo' = <<>>
  BY DEF SeqInv, WriterInv, Sq!End
<1>2. seq' \in Nat /\ seq' <= 2 * writes BY <1>1
<1>3. ~Sq!Updating' BY <1>1 DEF Sq!Updating
<1>4. tag' \in [Sums -> Sq!Values]
  BY DEF SeqInv, WriterInv, Sq!End, Sq!ComputeIntegrity, Sums, Sq!ConstantsOK
<1>5. UNCHANGED <<field, todo, by, writes, read>> /\ stray' = FALSE /\ tag' = Sq!ComputeIntegrity(field)
  BY Zenon DEF Sq!End
<1>6. tag' = Sq!ComputeIntegrity(field') BY Zenon, <1>5
<1>7. WriterInv' BY Zenon, <1>1, <1>2, <1>3, <1>4, <1>5, <1>6 DEF SeqInv, WriterInv
<1>8. \A r \in Readers : LocalInv(read[r], seq', by', stray', field', tag')
  BY Zenon, <1>1, Overtaken DEF SeqInv
<1>9. QED BY Zenon, <1>5, <1>7, <1>8 DEF SeqInv

\* set_state(Released) touches a field the tag does not cover.
LEMMA ReleaseStep == ASSUME Sq!ConstantsOK, SeqInv, Sq!Release PROVE SeqInv'
<1>1. field \in [Sq!Fields -> Sq!Values] /\ "state" \in Sq!Fields /\ ~Sq!Updating /\ todo = <<>>
      /\ field' = [field EXCEPT !["state"].alt = TRUE]
      /\ UNCHANGED <<seq, tag, todo, by, writes, stray, read>>
  BY Zenon DEF SeqInv, WriterInv, Sq!Release, Sq!ConstantsOK
<1>2. field' \in [Sq!Fields -> Sq!Values] /\ \A f \in Sq!Fields : field'[f].by = field[f].by
  BY Zenon, <1>1 DEF Sq!Values
<1>3. \A j \in Sums : Summed[j] \in Sq!Fields /\ Summed[j] # "state"
  BY DEF Sq!ConstantsOK, Sums
<1>4. \A j \in Sums : field'[Summed[j]] = field[Summed[j]] BY <1>1, <1>3
<1>5. Sq!ComputeIntegrity(field') = Sq!ComputeIntegrity(field)
  BY <1>4 DEF Sq!ComputeIntegrity, Sums
<1>6. ~Sq!Updating' BY Zenon, <1>1 DEF Sq!Updating
<1>7. WriterInv' BY Zenon, <1>1, <1>2, <1>5, <1>6 DEF SeqInv, WriterInv
<1>8. \A r \in Readers : LocalInv(read[r], seq', by', stray', field', tag')
  BY Zenon, <1>1, <1>4, Undisturbed
<1>9. QED BY Zenon, <1>1, <1>7, <1>8 DEF SeqInv

\* A stray write leaves the tag as it was.
LEMMA StrayStep ==
  ASSUME Sq!ConstantsOK, SeqInv, NEW f \in Sq!Tagged, Sq!StrayWrite(f) PROVE SeqInv'
<1>1. f \in Sq!Fields BY DEF Sq!ConstantsOK, Sq!Tagged
<1>2. /\ field \in [Sq!Fields -> Sq!Values] /\ ~Sq!Updating /\ todo = <<>> /\ ~stray /\ stray' = TRUE
      /\ field' = [field EXCEPT ![f].alt = ~@]
      /\ UNCHANGED <<seq, tag, todo, by, read>>
  BY Zenon DEF SeqInv, WriterInv, Sq!StrayWrite
<1>3. field' \in [Sq!Fields -> Sq!Values] /\ \A g \in Sq!Fields : field'[g].by = field[g].by
  BY Zenon, <1>1, <1>2 DEF Sq!Values
<1>4. ~Sq!Updating' BY Zenon, <1>2 DEF Sq!Updating
<1>5. writes' \in 0..MaxWrites /\ by' \in 0..writes' /\ seq' <= 2 * writes'
  BY <1>2 DEF SeqInv, WriterInv, Sq!StrayWrite, Sq!ConstantsOK
<1>a. \A g \in Sq!Fields : field'[g].by = by' \/ \E i \in 1..Len(todo') : todo'[i].name = g
  <2>1. \A g \in Sq!Fields : field[g].by = by \/ \E i \in 1..Len(todo) : todo[i].name = g
    BY Zenon DEF SeqInv, WriterInv
  <2>2. QED BY Zenon, <1>2, <1>3, <2>1
<1>b. seq' \in Nat /\ stray' \in BOOLEAN /\ tag' \in [Sums -> Sq!Values] /\ todo' \in Seq(Todos)
      /\ todo' = <<>>
  BY Zenon, <1>2 DEF SeqInv, WriterInv
<1>6. WriterInv' BY Zenon, <1>2, <1>3, <1>4, <1>5, <1>a, <1>b DEF WriterInv
<1>7. \A r \in Readers : LocalInv(read[r], seq', by', stray', field', tag')
  BY Zenon, <1>2, Undisturbed
<1>8. QED BY Zenon, <1>2, <1>6, <1>7 DEF SeqInv

\* A reader changes its own record only.
LEMMA ReaderGoes ==
  ASSUME SeqInv, NEW r \in Readers, NEW new \in Locals, Sq!Goes(r, new),
         LocalInv(new, seq, by, stray, field, tag)
  PROVE  SeqInv'
<1>1. UNCHANGED <<seq, field, tag, todo, by, writes, stray>>
      /\ read' = [read EXCEPT ![r] = new] /\ read \in [Readers -> Locals]
  BY Zenon DEF Sq!Goes, SeqInv
<1>2. read' \in [Readers -> Locals]
      /\ \A u \in Readers : read'[u] = IF u = r THEN new ELSE read[u]
  BY Zenon, <1>1
<1>3. WriterInv' BY Zenon, <1>1 DEF SeqInv, WriterInv, Sq!Updating
<1>4. \A u \in Readers : LocalInv(read'[u], seq', by', stray', field', tag')
  BY Zenon, <1>1, <1>2 DEF SeqInv
<1>5. QED BY Zenon, <1>2, <1>3, <1>4 DEF SeqInv

\* The values a fresh record of a reader is made of.
LEMMA Empties ==
  ASSUME Sq!ConstantsOK
  PROVE  <<>> \in Seq(Sq!Values) /\ 0 \in Nat /\ 0 \in 0..Retries /\ \A p \in {"idle", "start",
         "load", "tag", "sum", "some", "none", "corrupt"} : p \in Pcs
BY DEF Sq!ConstantsOK, Pcs

\* An attempt is given up only because of an update, which the version shows.
LEMMA AgainKeeps ==
  ASSUME Sq!ConstantsOK, WriterInv, NEW l \in Locals, LocalInv(l, seq, by, stray, field, tag),
         \/ l.pc = "start" /\ Sq!Updating
         \/ l.pc \in {"load", "sum"} /\ seq # l.s0
  PROVE  Sq!Again(l) \in Locals /\ LocalInv(Sq!Again(l), seq, by, stray, field, tag)
<1>0. Paced(l, seq) BY Zenon DEF LocalInv
<1>1. /\ l.tries \in Nat /\ l.tries < Retries /\ Retries \in Nat \ {0}
      /\ l.first \in Nat /\ l.s0 \in Nat /\ seq \in Nat /\ l.first <= seq
  BY SMTT(20), <1>0 DEF Locals, Paced, WriterInv, Sq!ConstantsOK
<1>2. l.first % 2 = 1 \/ seq # l.first
  BY <1>1 DEF LocalInv, Paced, OneLife, Marked, Betrayed, Covered, Sq!Updating
<1>3. PICK n \in 0..Retries : n = l.tries + 1 /\ n > 0 BY <1>1
<1>4. CASE n = Retries
  <2>1. Sq!Again(l) = [l EXCEPT !.pc = "none", !.tries = n]
    BY Zenon, <1>3, <1>4 DEF Sq!Again
  <2>2. Sq!Again(l) \in Locals BY Zenon, <2>1, Empties DEF Locals
  <2>3. LocalInv(Sq!Again(l), seq, by, stray, field, tag)
    BY <1>1, <1>2, <1>3, <2>1 DEF LocalInv, Paced, OneLife, Marked, Betrayed, Covered,
       Locals
  <2>4. QED BY <2>2, <2>3
<1>5. CASE n # Retries
  <2>1. Sq!Again(l) = [l EXCEPT !.pc = "start", !.tries = n, !.got = <<>>, !.sum = <<>>]
    BY Zenon, <1>3, <1>5 DEF Sq!Again
  <2>2. Sq!Again(l) \in Locals BY Zenon, <2>1, Empties DEF Locals
  <2>3. LocalInv(Sq!Again(l), seq, by, stray, field, tag)
    BY <1>1, <1>2, <1>3, <1>5, <2>1 DEF LocalInv, Paced, OneLife, Marked, Betrayed,
       Covered, Locals
  <2>4. QED BY <2>2, <2>3
<1>6. QED BY <1>4, <1>5

\* A read begins.
LEMMA CallStep == ASSUME Sq!ConstantsOK, SeqInv, NEW r \in Readers, Sq!Call(r) PROVE SeqInv'
<1> DEFINE new == [Sq!Idle EXCEPT !.pc = "start", !.first = seq]
<1>1. seq \in Nat /\ Sq!Goes(r, new) BY Zenon DEF SeqInv, WriterInv, Sq!Call
<1>a. Sq!Idle \in Locals BY DEF Sq!Idle, Locals, Pcs, Sq!ConstantsOK
<1>2. new \in Locals BY Zenon, <1>1, <1>a, Empties DEF Locals
<1>3. LocalInv(new, seq, by, stray, field, tag)
  BY <1>1 DEF LocalInv, Paced, OneLife, Marked, Betrayed, Covered, Sq!Idle,
     Sq!ConstantsOK
<1>4. QED BY Zenon, <1>1, <1>2, <1>3, ReaderGoes

\* An attempt begins at an even version.
LEMMA StartStep == ASSUME Sq!ConstantsOK, SeqInv, NEW r \in Readers, Sq!Start(r) PROVE SeqInv'
<1> DEFINE l == read[r]
           new == [l EXCEPT !.pc = "load", !.s0 = seq]
<1>1. /\ l \in Locals /\ LocalInv(l, seq, by, stray, field, tag) /\ seq \in Nat
      /\ l.pc = "start" /\ WriterInv
  BY Zenon DEF SeqInv, WriterInv, Sq!Start
<1>2. CASE Sq!Updating
  <2>1. Sq!Goes(r, Sq!Again(l)) BY Zenon, <1>2 DEF Sq!Start
  <2>2. QED BY Zenon, <1>1, <1>2, <2>1, AgainKeeps, ReaderGoes
<1>3. CASE ~Sq!Updating
  <2>1. Sq!Goes(r, new) BY Zenon, <1>3 DEF Sq!Start
  <2>2. new \in Locals BY Zenon, <1>1, Empties DEF Locals
  <2>3. LocalInv(new, seq, by, stray, field, tag)
    BY <1>1, <1>3 DEF LocalInv, Paced, OneLife, Marked, Betrayed, Covered, Locals,
       Sq!Updating
  <2>4. QED BY Zenon, <2>1, <2>2, <2>3, ReaderGoes
<1>4. QED BY <1>2, <1>3

\* A read ends.
LEMMA ReturnStep == ASSUME Sq!ConstantsOK, SeqInv, NEW r \in Readers, Sq!Return(r) PROVE SeqInv'
<1>1. seq \in Nat /\ Sq!Goes(r, Sq!Idle) BY Zenon DEF SeqInv, WriterInv, Sq!Return
<1>2. Sq!Idle \in Locals BY SMTT(20), <1>1 DEF Sq!Idle, Locals, Pcs, Sq!ConstantsOK
<1>3. LocalInv(Sq!Idle, seq, by, stray, field, tag)
  BY <1>1 DEF LocalInv, Paced, OneLife, Marked, Betrayed, Covered, Sq!Idle,
     Sq!ConstantsOK
<1>4. QED BY Zenon, <1>1, <1>2, <1>3, ReaderGoes

\* What is loaded under the version of the attempt is of the current incarnation,
\* and is what the tag covers unless a stray write came before it.
LEMMA LoadStep == ASSUME Sq!ConstantsOK, SeqInv, NEW r \in Readers, Sq!Load(r) PROVE SeqInv'
<1>0. PICK l : l = read[r] BY Zenon
<1>1. /\ l \in Locals /\ LocalInv(l, seq, by, stray, field, tag) /\ seq \in Nat
      /\ l.pc = "load" /\ WriterInv /\ Len(l.got) < Len(Loads)
  BY Zenon, <1>0 DEF SeqInv, WriterInv, Sq!Load
<1>2. l.got \in Seq(Sq!Values) /\ Loads \in Seq(Sq!Fields)
  BY Zenon, <1>1 DEF Locals, Sq!ConstantsOK
<1>3. PICK k \in 1..Len(Loads) : k = Len(l.got) + 1 BY <1>1, <1>2
<1>a. Loads[k] \in Sq!Fields /\ Len(l.got) \in Nat /\ k \in Nat BY <1>1, <1>2, <1>3
<1>4. PICK v \in Sq!Values : v = field[Loads[k]] BY Zenon, <1>1, <1>a DEF WriterInv
<1>5. PICK g \in Seq(Sq!Values) :
        /\ g = Append(l.got, v) /\ Len(g) = k
        /\ g[k] = v /\ \A i \in 1..Len(l.got) : g[i] = l.got[i]
  <2>1. /\ Append(l.got, v) \in Seq(Sq!Values) /\ Len(Append(l.got, v)) = k
        /\ Append(l.got, v)[k] = v
        /\ \A i \in 1..Len(l.got) : Append(l.got, v)[i] = l.got[i]
    BY <1>2, <1>3, <1>4
  <2>2. QED BY Zenon, <2>1
<1>b. PICK new : new = [l EXCEPT !.got = g] BY Zenon
<1>c. Sq!Goes(r, new) BY Zenon, <1>0, <1>3, <1>4, <1>5, <1>b DEF Sq!Load
<1>6. new \in Locals BY Zenon, <1>1, <1>5, <1>b DEF Locals
<1>7. /\ new.pc = "load" /\ new.s0 = l.s0 /\ new.first = l.first /\ new.tries = l.tries
      /\ new.sum = l.sum /\ new.want = l.want /\ new.got = g
  BY Zenon, <1>1, <1>b DEF Locals
<1>8. ASSUME seq = l.s0, NEW i \in 1..k
      PROVE  /\ g[i].by = by
             /\ \A j \in Sums : Loads[i] = Summed[j] =>
                  g[i] = tag[j] \/ (stray /\ field[Summed[j]] # tag[j])
  <2>1. CASE i \in 1..Len(l.got)
    <3>1. g[i] = l.got[i] BY Zenon, <1>5, <2>1
    <3>2. l.got[i].by = by BY Zenon, <1>1, <1>8, <2>1 DEF LocalInv, OneLife
    <3>3. \A j \in Sums : Loads[i] = Summed[j] =>
            l.got[i] = tag[j] \/ (stray /\ field[Summed[j]] # tag[j])
      BY Zenon, <1>1, <1>8, <2>1 DEF LocalInv, Marked
    <3>4. QED BY Zenon, <3>1, <3>2, <3>3
  <2>2. CASE i = k
    <3>0. l.s0 % 2 = 0 BY Zenon, <1>1 DEF LocalInv, Paced
    <3>1. ~Sq!Updating BY <3>0, <1>8 DEF Sq!Updating
    <3>a. g[i] = field[Loads[i]] BY Zenon, <1>4, <1>5, <2>2
    <3>2. field[Loads[i]].by = by
      <4>1. todo = <<>> BY Zenon, <1>1, <3>1 DEF WriterInv
      <4>2. ~ \E x \in 1..Len(todo) : todo[x].name = Loads[k] BY <4>1
      <4>3. QED BY Zenon, <1>1, <1>a, <2>2, <4>2 DEF WriterInv
    <3>3. \A j \in Sums : stray \/ tag[j] = field[Summed[j]]
      BY <1>1, <3>1 DEF WriterInv, Sq!ComputeIntegrity, Sums
    <3>4. QED BY Zenon, <3>a, <3>2, <3>3
  <2>3. QED BY <1>3, <1>a, <2>1, <2>2
<1>9. k <= Len(Loads) BY SMTT(20), <1>3, <1>2
<1>10. Paced(new, seq) BY <1>1, <1>5, <1>7, <1>9 DEF LocalInv, Paced
<1>11. OneLife(new, seq, by) BY Zenon, <1>5, <1>7, <1>8 DEF OneLife
<1>12. Marked(new, seq, stray, field, tag)
  <2>1. ASSUME seq = l.s0, NEW i \in 1..k, NEW j \in Sums, Loads[i] = Summed[j]
        PROVE  g[i] = tag[j] \/ (stray /\ field[Summed[j]] # tag[j])
    BY Zenon, <1>8, <2>1
  <2>2. SUFFICES ASSUME seq = l.s0, NEW i \in 1..k, NEW j \in Sums, Loads[i] = Summed[j]
                 PROVE  g[i] = tag[j] \/ (stray /\ field[Summed[j]] # tag[j])
    BY <1>5, <1>7 DEF Marked
  <2>3. QED BY Zenon, <2>1, <2>2
<1>d. Betrayed(new, seq, stray, tag) /\ Covered(new, seq, tag)
  BY Zenon, <1>7 DEF Betrayed, Covered
<1>13. QED BY Zenon, <1>c, <1>6, <1>10, <1>11, <1>12, <1>d, ReaderGoes DEF LocalInv

\* An unchanged version makes the loads one snapshot.
LEMMA RecheckStep == ASSUME Sq!ConstantsOK, SeqInv, NEW r \in Readers, Sq!Recheck(r) PROVE SeqInv'
<1>0. PICK l : l = read[r] BY Zenon
<1>1. /\ l \in Locals /\ LocalInv(l, seq, by, stray, field, tag) /\ seq \in Nat
      /\ l.pc = "load" /\ WriterInv /\ Len(l.got) = Len(Loads)
  BY Zenon, <1>0 DEF SeqInv, WriterInv, Sq!Recheck
<1>2. CASE seq # l.s0
  <2>1. Sq!Goes(r, Sq!Again(l)) BY Zenon, <1>0, <1>2 DEF Sq!Recheck
  <2>2. QED BY Zenon, <1>1, <1>2, <2>1, AgainKeeps, ReaderGoes
<1>3. CASE seq = l.s0
  <2>0. PICK p \in {"tag", "some"} : p = IF Checks THEN "tag" ELSE "some" BY Zenon
  <2>a. PICK new : new = [l EXCEPT !.pc = p] BY Zenon
  <2>1. Sq!Goes(r, new) BY Zenon, <1>0, <1>3, <2>0, <2>a DEF Sq!Recheck
  <2>2. new \in Locals BY Zenon, <1>1, <2>a, Empties DEF Locals
  <2>3. /\ new.pc = p /\ new.s0 = l.s0 /\ new.first = l.first /\ new.tries = l.tries
        /\ new.sum = l.sum /\ new.want = l.want /\ new.got = l.got
    BY Zenon, <1>1, <2>a DEF Locals
  <2>4. Paced(new, seq) BY <1>1, <2>0, <2>3 DEF LocalInv, Paced
  <2>5. OneLife(new, seq, by) BY Zenon, <1>1, <1>3, <2>0, <2>3 DEF LocalInv, OneLife
  <2>6. Marked(new, seq, stray, field, tag)
    BY ZenonT(30), <1>1, <1>3, <2>0, <2>3 DEF LocalInv, Marked
  <2>b. Betrayed(new, seq, stray, tag) /\ Covered(new, seq, tag)
    BY Zenon, <2>0, <2>3 DEF Betrayed, Covered
  <2>7. QED BY Zenon, <2>1, <2>2, <2>4, <2>5, <2>6, <2>b, ReaderGoes DEF LocalInv
<1>4. QED BY Zenon, <1>2, <1>3

\* The tag is loaded.
LEMMA LoadTagStep == ASSUME Sq!ConstantsOK, SeqInv, NEW r \in Readers, Sq!LoadTag(r) PROVE SeqInv'
<1>0. PICK l : l = read[r] BY Zenon
<1>1. /\ l \in Locals /\ LocalInv(l, seq, by, stray, field, tag) /\ seq \in Nat
      /\ l.pc = "tag" /\ WriterInv /\ l.sum = <<>>
  BY Zenon, <1>0 DEF SeqInv, WriterInv, Sq!LoadTag, LocalInv, Paced
<1>2. PICK new : new = [l EXCEPT !.pc = "sum", !.want = tag] BY Zenon
<1>3. Sq!Goes(r, new) BY Zenon, <1>0, <1>2 DEF Sq!LoadTag
<1>4. tag \in Seq(Sq!Values)
  <2>1. Len(Summed) \in Nat BY DEF Sq!ConstantsOK
  <2>2. tag \in [1..Len(Summed) -> Sq!Values] BY Zenon, <1>1 DEF WriterInv, Sums
  <2>3. QED BY <2>1, <2>2
<1>5. new \in Locals BY Zenon, <1>1, <1>2, <1>4, Empties DEF Locals
<1>6. /\ new.pc = "sum" /\ new.s0 = l.s0 /\ new.first = l.first /\ new.tries = l.tries
      /\ new.sum = <<>> /\ new.want = tag /\ new.got = l.got
  BY Zenon, <1>1, <1>2 DEF Locals
<1>7. Len(<<>>) = 0 /\ 1..0 = {} /\ 0 <= Len(Summed) BY DEF Sq!ConstantsOK
<1>8. Paced(new, seq) BY <1>1, <1>6, <1>7 DEF LocalInv, Paced
<1>9. OneLife(new, seq, by) BY Zenon, <1>1, <1>6 DEF LocalInv, OneLife
<1>10. Marked(new, seq, stray, field, tag) BY <1>1, <1>6 DEF LocalInv, Marked
<1>11. Betrayed(new, seq, stray, tag) BY Zenon, <1>6, <1>7 DEF Betrayed
<1>12. Covered(new, seq, tag) BY Zenon, <1>6 DEF Covered
<1>13. QED
  BY Zenon, <1>3, <1>5, <1>8, <1>9, <1>10, <1>11, <1>12, ReaderGoes DEF LocalInv

\* A field the stray write changed before the load is summed as it was loaded.
LEMMA SumStep == ASSUME Sq!ConstantsOK, SeqInv, NEW r \in Readers, Sq!Sum(r) PROVE SeqInv'
<1>0. PICK l : l = read[r] BY Zenon
<1>1. /\ l \in Locals /\ LocalInv(l, seq, by, stray, field, tag) /\ seq \in Nat
      /\ l.pc = "sum" /\ WriterInv /\ Len(l.sum) < Len(Summed)
  BY Zenon, <1>0 DEF SeqInv, WriterInv, Sq!Sum
<1>2. l.sum \in Seq(Sq!Values) /\ Summed \in Seq(Sq!Fields) /\ Len(l.got) = Len(Loads)
  <2>1. Summed \in Seq(Sq!Fields) BY DEF Sq!ConstantsOK
  <2>2. QED BY Zenon, <1>1, <2>1 DEF Locals, LocalInv, Paced
<1>3. PICK k \in Sums : k = Len(l.sum) + 1 BY <1>1, <1>2 DEF Sums
<1>a. Summed[k] \in Sq!Fields /\ Len(l.sum) \in Nat /\ k \in Nat /\ k <= Len(Summed)
  BY <1>1, <1>2, <1>3 DEF Sums
<1>4. PICK v \in Sq!Values : v = field[Summed[k]] BY Zenon, <1>1, <1>a DEF WriterInv
<1>5. PICK g \in Seq(Sq!Values) :
        /\ g = Append(l.sum, v) /\ Len(g) = k
        /\ g[k] = v /\ \A i \in 1..Len(l.sum) : g[i] = l.sum[i]
  <2>1. /\ Append(l.sum, v) \in Seq(Sq!Values) /\ Len(Append(l.sum, v)) = k
        /\ Append(l.sum, v)[k] = v
        /\ \A i \in 1..Len(l.sum) : Append(l.sum, v)[i] = l.sum[i]
    BY <1>2, <1>3, <1>4
  <2>2. QED BY Zenon, <2>1
<1>b. PICK new : new = [l EXCEPT !.sum = g] BY Zenon
<1>c. Sq!Goes(r, new) BY Zenon, <1>0, <1>3, <1>4, <1>5, <1>b DEF Sq!Sum
<1>6. new \in Locals BY Zenon, <1>1, <1>5, <1>b DEF Locals
<1>7. /\ new.pc = "sum" /\ new.s0 = l.s0 /\ new.first = l.first /\ new.tries = l.tries
      /\ new.sum = g /\ new.want = l.want /\ new.got = l.got
  BY Zenon, <1>1, <1>b DEF Locals
<1>8. ASSUME seq = l.s0, NEW j \in 1..k
      PROVE  /\ ~stray => g[j] = tag[j]
             /\ \A i \in 1..Len(Loads) :
                  Loads[i] = Summed[j] => l.got[i] = tag[j] \/ g[j] # tag[j]
  <2>1. CASE j \in 1..Len(l.sum)
    <3>1. g[j] = l.sum[j] BY Zenon, <1>5, <2>1
    <3>2. ~stray => l.sum[j] = tag[j] BY Zenon, <1>1, <1>8, <2>1 DEF LocalInv, Betrayed
    <3>3. \A i \in 1..Len(Loads) :
            Loads[i] = Summed[j] => l.got[i] = tag[j] \/ l.sum[j] # tag[j]
      BY Zenon, <1>1, <1>8, <2>1 DEF LocalInv, Betrayed
    <3>4. QED BY Zenon, <3>1, <3>2, <3>3
  <2>2. CASE j = k
    <3>0. l.s0 % 2 = 0 BY Zenon, <1>1 DEF LocalInv, Paced
    <3>1. ~Sq!Updating BY <3>0, <1>8 DEF Sq!Updating
    <3>2. g[j] = field[Summed[j]] BY Zenon, <1>4, <1>5, <2>2
    <3>3. stray \/ tag[k] = field[Summed[k]]
      BY SMTT(20), <1>1, <1>3, <3>1 DEF WriterInv, Sq!ComputeIntegrity, Sums
    <3>4. \A i \in 1..Len(Loads) : Loads[i] = Summed[k] =>
            l.got[i] = tag[k] \/ (stray /\ field[Summed[k]] # tag[k])
      BY Zenon, <1>1, <1>2, <1>3, <1>8 DEF LocalInv, Marked
    <3>5. QED BY Zenon, <2>2, <3>2, <3>3, <3>4
  <2>3. QED BY <1>3, <1>a, <2>1, <2>2
<1>10. Paced(new, seq) BY <1>1, <1>5, <1>7, <1>a DEF LocalInv, Paced
<1>11. OneLife(new, seq, by) BY Zenon, <1>1, <1>7 DEF LocalInv, OneLife
<1>12. Marked(new, seq, stray, field, tag) BY ZenonT(30), <1>1, <1>7 DEF LocalInv, Marked
<1>13. Betrayed(new, seq, stray, tag)
  <2>1. ASSUME seq = l.s0, NEW i \in 1..Len(Loads), NEW j \in 1..k, Loads[i] = Summed[j]
        PROVE  l.got[i] = tag[j] \/ g[j] # tag[j]
    BY Zenon, <1>8, <2>1
  <2>2. ASSUME seq = l.s0, NEW j \in 1..k, ~stray PROVE g[j] = tag[j]
    BY Zenon, <1>8, <2>2
  <2>3. seq = l.s0 => l.want = tag BY Zenon, <1>1 DEF LocalInv, Betrayed
  <2>4. QED BY ZenonT(30), <1>5, <1>7, <2>1, <2>2, <2>3 DEF Betrayed
<1>14. Covered(new, seq, tag) BY Zenon, <1>7 DEF Covered
<1>15. QED
  BY Zenon, <1>c, <1>6, <1>10, <1>11, <1>12, <1>13, <1>14, ReaderGoes DEF LocalInv

\* Sequences of one length that agree everywhere are the same.
LEMMA SameSum ==
  ASSUME Sq!ConstantsOK, NEW s \in Seq(Sq!Values), Len(s) = Len(Summed), NEW tg \in [Sums -> Sq!Values],
         \A j \in 1..Len(s) : s[j] = tg[j]
  PROVE  s = tg
<1>1. s \in [1..Len(s) -> Sq!Values] OBVIOUS
<1>2. QED BY <1>1 DEF Sums

\* A sum over the fields of an unchanged, unstrayed version is the tag.
LEMMA CleanSum ==
  ASSUME Sq!ConstantsOK, WriterInv, NEW l \in Locals, LocalInv(l, seq, by, stray, field, tag),
         l.pc = "sum", Len(l.sum) = Len(Summed), seq = l.s0, ~stray
  PROVE  l.sum = l.want
<1>1. l.want = tag /\ \A j \in 1..Len(l.sum) : l.sum[j] = tag[j]
  BY Zenon DEF LocalInv, Betrayed
<1>2. l.sum \in Seq(Sq!Values) /\ tag \in [Sums -> Sq!Values]
  BY Zenon DEF Locals, WriterInv
<1>3. QED BY Zenon, <1>1, <1>2, SameSum

\* An equal sum vouches for the loads, an unequal one under the same version for a
\* stray write.
LEMMA ValidateStep ==
  ASSUME Sq!ConstantsOK, SeqInv, NEW r \in Readers, Sq!Validate(r)
  PROVE  SeqInv' /\ (read'[r].pc = "corrupt" => stray)
<1>0. PICK l : l = read[r] BY Zenon
<1>1. /\ l \in Locals /\ LocalInv(l, seq, by, stray, field, tag) /\ seq \in Nat
      /\ l.pc = "sum" /\ WriterInv /\ Len(l.sum) = Len(Summed) /\ read \in [Readers -> Locals]
  BY Zenon, <1>0 DEF SeqInv, WriterInv, Sq!Validate
<1>2. CASE l.sum = l.want
  <2>1. PICK new : new = [l EXCEPT !.pc = "some"] BY Zenon
  <2>2. Sq!Goes(r, new) BY <1>0, <1>2, <2>1 DEF Sq!Validate
  <2>3. new \in Locals BY Zenon, <1>1, <2>1, Empties DEF Locals
  <2>4. /\ new.pc = "some" /\ new.s0 = l.s0 /\ new.first = l.first /\ new.tries = l.tries
        /\ new.sum = l.sum /\ new.want = l.want /\ new.got = l.got
    BY Zenon, <1>1, <2>1 DEF Locals
  <2>5. Paced(new, seq) BY <1>1, <2>4 DEF LocalInv, Paced
  <2>6. OneLife(new, seq, by) BY Zenon, <1>1, <2>4 DEF LocalInv, OneLife
  <2>7. Marked(new, seq, stray, field, tag) /\ Betrayed(new, seq, stray, tag)
    BY Zenon, <2>4 DEF Marked, Betrayed
  <2>8. Covered(new, seq, tag)
    <3>1. SUFFICES ASSUME seq = l.s0, NEW i \in 1..Len(Loads), NEW j \in Sums,
                          Loads[i] = Summed[j]
                   PROVE  l.got[i] = tag[j]
      BY <2>4 DEF Covered
    <3>2. l.sum[j] = tag[j] /\ j \in 1..Len(l.sum)
      BY Zenon, <1>1, <1>2, <3>1 DEF LocalInv, Betrayed, Sums
    <3>3. QED BY Zenon, <1>1, <3>1, <3>2 DEF LocalInv, Betrayed
  <2>9. read'[r] = new BY Zenon, <1>1, <2>2 DEF Sq!Goes
  <2>10. QED
    BY Zenon, <2>2, <2>3, <2>4, <2>5, <2>6, <2>7, <2>8, <2>9, ReaderGoes DEF LocalInv
<1>3. CASE l.sum # l.want /\ seq = l.s0
  <2>1. PICK new : new = [l EXCEPT !.pc = "corrupt"] BY Zenon
  <2>2. Sq!Goes(r, new) BY <1>0, <1>3, <2>1 DEF Sq!Validate
  <2>3. new \in Locals BY Zenon, <1>1, <2>1, Empties DEF Locals
  <2>4. /\ new.pc = "corrupt" /\ new.s0 = l.s0 /\ new.first = l.first /\ new.tries = l.tries
        /\ new.sum = l.sum /\ new.want = l.want /\ new.got = l.got
    BY Zenon, <1>1, <2>1 DEF Locals
  <2>5. Paced(new, seq) BY <1>1, <2>4 DEF LocalInv, Paced
  <2>6. OneLife(new, seq, by) BY Zenon, <2>4 DEF OneLife
  <2>7. /\ Marked(new, seq, stray, field, tag) /\ Betrayed(new, seq, stray, tag)
        /\ Covered(new, seq, tag)
    BY Zenon, <2>4 DEF Marked, Betrayed, Covered
  <2>8. stray BY Zenon, <1>1, <1>3, CleanSum
  <2>9. QED BY Zenon, <2>2, <2>3, <2>5, <2>6, <2>7, <2>8, ReaderGoes DEF LocalInv
<1>4. CASE l.sum # l.want /\ seq # l.s0
  <2>1. Sq!Goes(r, Sq!Again(l)) BY <1>0, <1>4 DEF Sq!Validate
  <2>2. read'[r] = Sq!Again(l) BY Zenon, <1>1, <2>1 DEF Sq!Goes
  <2>3. Sq!Again(l).pc \in {"none", "start"}
    BY <1>1 DEF Sq!Again, Locals
  <2>4. QED BY Zenon, <1>1, <1>4, <2>1, <2>2, <2>3, AgainKeeps, ReaderGoes
<1>5. QED BY Zenon, <1>2, <1>3, <1>4

\* Every step of the writer, of the readers and of the program keeps the invariant.
LEMMA SeqStep == ASSUME Sq!ConstantsOK, SeqInv, [Sq!Next]_Sq!vars PROVE SeqInv'
<1>1. CASE Sq!Write
  <2>1. CASE Sq!Recycle
    <3>1. Stores \in Seq(Sq!Fields) /\ \A f \in Sq!Fields : \E i \in 1..Len(Stores) : Stores[i] = f
      BY Zenon DEF Sq!ConstantsOK, Sq!Fields
    <3>2. QED BY Zenon, <2>1, <3>1, BeginStep DEF Sq!Recycle
  <2>2. CASE Sq!Resize BY Zenon, <2>2, BeginStep DEF Sq!Resize, Sq!ConstantsOK
  <2>3. QED BY Zenon, <1>1, <2>1, <2>2, StoreStep, EndStep, ReleaseStep DEF Sq!Write
<1>2. CASE UNCHANGED Sq!vars
  BY Zenon, <1>2 DEF Sq!vars, SeqInv, WriterInv, Sq!Updating
<1>3. QED
  BY Zenon, <1>1, <1>2, StrayStep, CallStep, StartStep, LoadStep, RecheckStep,
     LoadTagStep,
             SumStep, ValidateStep, ReturnStep DEF Sq!Next, Sq!ReadStep

\* The invariant of the sequence lock.
THEOREM SnapshotInvariant == ASSUME Sq!ConstantsOK PROVE Sq!Spec => []SeqInv
BY SeqBorn, SeqStep, PTL DEF Sq!Spec

\* For any fields, in any order, any number of readers and any length of the retry loop:
\* a snapshot that read_consistent_geometry or read_consistent returns is of one
\* incarnation, with debug-checks it is what the tag covers, and a reader gives up only
\* when an update interfered with it.
THEOREM SnapshotsAreSound == ASSUME Sq!ConstantsOK PROVE Sq!Spec => []Sq!SnapshotsSound
<1>1. SeqInv => Sq!SnapshotsSound
  <2> SUFFICES ASSUME SeqInv PROVE Sq!SnapshotsSound BY Zenon
  <2>1. WriterInv /\ \A r \in Readers : read[r] \in Locals /\ LocalInv(read[r], seq, by, stray, field, tag)
    BY Zenon DEF SeqInv
  <2>2. seq \in 0..(2 * MaxWrites) BY <2>1 DEF WriterInv, Sq!ConstantsOK
  <2>3. \A r \in Readers : read[r].pc \in Pcs /\ read[r].tries \in 0..Retries
    BY Zenon, <2>1 DEF Locals
  <2>4. Sq!TypeOK BY Zenon, <2>1, <2>2, <2>3 DEF Sq!TypeOK, WriterInv, Pcs
  <2>5. Sq!NoTornSnapshot
    BY <2>1 DEF Sq!NoTornSnapshot, Sq!Snapshot, LocalInv, OneLife
  <2>6. Sq!CorruptionCaught
    BY Zenon, <2>1 DEF Sq!CorruptionCaught, LocalInv, Covered, Sums
  <2>7. Sq!QuietReadAnswers BY Zenon, <2>1 DEF Sq!QuietReadAnswers, LocalInv, Paced
  <2>8. QED BY Zenon, <2>4, <2>5, <2>6, <2>7 DEF Sq!SnapshotsSound
<1>2. QED BY <1>1, SnapshotInvariant, PTL

\* No recycle and no resize that races the validation of the tag is ever reported as
\* corruption (read_consistent): only a stray write is.
THEOREM NeverFalselyCorrupt == ASSUME Sq!ConstantsOK PROVE Sq!Spec => Sq!NoFalseCorruption
<1>1. ASSUME SeqInv, Sq!Next, NEW r \in Readers, read[r].pc = "sum", read'[r].pc = "corrupt"
      PROVE  stray
  <2>1. read \in [Readers -> Locals] BY Zenon, <1>1 DEF SeqInv
  <2>2. CASE Sq!Validate(r) BY Zenon, <1>1, <2>2, ValidateStep
  <2>3. ASSUME NEW u \in Readers, Sq!ReadStep(u), u # r \/ ~Sq!Validate(r) PROVE FALSE
    <3>1. CASE u # r
      <4>1. read'[r] = read[r]
        BY Zenon, <2>1, <2>3, <3>1 DEF Sq!ReadStep, Sq!Call, Sq!Start, Sq!Load,
           Sq!Recheck, Sq!LoadTag, Sq!Sum, Sq!Validate, Sq!Return, Sq!Goes
      <4>2. QED BY Zenon, <1>1, <4>1
    <3>2. CASE u = r
      <4>1. Sq!Sum(r)
        BY <1>1, <2>3, <3>2 DEF Sq!ReadStep, Sq!Call, Sq!Start, Sq!Load, Sq!Recheck,
           Sq!LoadTag, Sq!Return, Sq!Done
      <4>2. read'[r].pc = read[r].pc BY <2>1, <4>1 DEF Sq!Sum, Sq!Goes, Locals
      <4>3. QED BY <1>1, <4>2
    <3>3. QED BY Zenon, <3>1, <3>2
  <2>4. ASSUME Sq!Write \/ \E f \in Sq!Tagged : Sq!StrayWrite(f) PROVE FALSE
    <3>1. read' = read
      BY Zenon, <2>4 DEF Sq!Write, Sq!Recycle, Sq!Resize, Sq!Begin, Sq!Store, Sq!End,
         Sq!Release, Sq!StrayWrite
    <3>2. QED BY Zenon, <1>1, <3>1
  <2>5. QED BY Zenon, <1>1, <2>2, <2>3, <2>4 DEF Sq!Next
<1>2. SeqInv /\ [Sq!Next]_Sq!vars => [Sq!NoFalseCorruptionStep]_Sq!vars
  BY Zenon, <1>1 DEF Sq!NoFalseCorruptionStep
<1>3. QED BY <1>2, SnapshotInvariant, PTL DEF Sq!Spec, Sq!NoFalseCorruption
=============================================================================
