-------------------------- MODULE ArenaTableProofs --------------------------
(***************************************************************************)
(* ArenaTable is correct for every number of threads, arenas and           *)
(* generations, and every quota: the laws of counting that                 *)
(* ArenaTableSteps takes as a hypothesis hold, every step preserves the    *)
(* inductive invariant IInv, and IInv implies the properties.              *)
(***************************************************************************)
EXTENDS ArenaTableSteps, FiniteSetTheorems

-----------------------------------------------------------------------------
(* Sums and numbers of elements. *)


Units(f) == {x \in (DOMAIN f) \X (1 .. U64Max) : x[2] <= f[x[1]]}
Others(f, d) == {x \in Units(f) : x[1] # d}

\* A sum is the value at one argument and the rest.
LEMMA TotalSplits ==
  ASSUME NEW D, IsFiniteSet(D), NEW f \in [D -> 0 .. U64Max], NEW d \in D
  PROVE  /\ Cardinality(Others(f, d)) \in Nat
         /\ Total(f) = Cardinality(Others(f, d)) + f[d]
<1> DEFINE O == Others(f, d)
           C == {d} \X (1 .. f[d])
<1>0. U64Max \in Nat /\ f[d] \in 0 .. U64Max /\ f[d] \in Nat BY ArenaTableAssumption
<1>1. IsFiniteSet(D \X (1 .. U64Max))
  <2>1. IsFiniteSet(1 .. U64Max) BY <1>0, FS_Interval
  <2> QED BY Zenon, <2>1, FS_Product
<1>2. IsFiniteSet(O) /\ Cardinality(O) \in Nat
  <2>1. O \subseteq D \X (1 .. U64Max) BY Zenon DEF Others, Units
  <2> HIDE DEF O
  <2>2. IsFiniteSet(O) BY Zenon, <2>1, <1>1, FS_Subset
  <2> QED BY Zenon, <2>2, FS_CardinalityType
<1>3. IsFiniteSet(C) /\ Cardinality(C) = f[d]
  <2>1. IsFiniteSet({d}) /\ Cardinality({d}) = 1 BY Zenon, FS_Singleton
  <2>2. IsFiniteSet(1 .. f[d]) /\ Cardinality(1 .. f[d]) = f[d] BY <1>0, FS_Interval
  <2>3. IsFiniteSet(C) /\ Cardinality(C) = Cardinality({d}) * Cardinality(1 .. f[d])
    BY Zenon, <2>1, <2>2, FS_Product
  <2> QED BY <2>1, <2>2, <2>3, <1>0
<1>4. O \cap C = {} /\ Cardinality(O \cap C) = 0
  <2>1. O \cap C = {} BY Zenon DEF Others
  <2> QED BY Zenon, <2>1, FS_EmptySet
<1>5. Units(f) = O \cup C
  <2>1. ASSUME NEW x \in Units(f) PROVE x \in O \cup C
    BY <2>1, <1>0 DEF Others, Units
  <2>2. ASSUME NEW x \in O \cup C PROVE x \in Units(f)
    <3>1. CASE x \in O BY Zenon, <3>1 DEF Others
    <3>2. CASE x \in C
      <4>1. x \in D \X (1 .. U64Max) /\ x[1] = d /\ x[2] <= f[d] BY <3>2, <1>0
      <4> QED BY Zenon, <4>1 DEF Units
    <3> QED BY Zenon, <3>1, <3>2
  <2> QED BY Zenon, <2>1, <2>2
<1>6. Total(f) = Cardinality(O \cup C) BY Zenon, <1>5 DEF Total, Units
<1> HIDE DEF O, C
<1>7. Cardinality(O \cup C) = Cardinality(O) + Cardinality(C) - Cardinality(O \cap C)
  BY Zenon, <1>2, <1>3, FS_Union
<1>8. Total(f) = Cardinality(O) + f[d] BY <1>0, <1>2, <1>3, <1>4, <1>6, <1>7
<1> QED BY Zenon, <1>2, <1>8 DEF O

\* Sums are natural numbers, at least as large as any of their terms.
LEMMA SumType ==
  ASSUME NEW D, IsFiniteSet(D), NEW f \in [D -> 0 .. U64Max]
  PROVE  Total(f) \in Nat /\ \A d \in D : f[d] <= Total(f)
<1>0. U64Max \in Nat BY Zenon, ArenaTableAssumption
<1>1. ASSUME NEW d \in D PROVE Total(f) \in Nat /\ f[d] <= Total(f)
  <2>1. f[d] \in Nat BY <1>0
  <2> QED BY <2>1, TotalSplits
<1>2. CASE D = {}
  <2>1. Units(f) = {} BY Zenon, <1>2 DEF Units
  <2>2. Total(f) = 0 BY Zenon, <2>1, FS_EmptySet DEF Total, Units
  <2> QED BY <2>2, <1>2
<1> QED BY Zenon, <1>1, <1>2

\* Changing one term changes the sum by as much.
LEMMA SumChanges ==
  ASSUME NEW D, IsFiniteSet(D), NEW f \in [D -> 0 .. U64Max], NEW g \in [D -> 0 .. U64Max],
         NEW d \in D, \A e \in D \ {d} : f[e] = g[e]
  PROVE  Total(g) = Total(f) - f[d] + g[d]
<1>0. U64Max \in Nat /\ f[d] \in Nat /\ g[d] \in Nat BY ArenaTableAssumption
<1>1. Others(f, d) = Others(g, d) BY Zenon DEF Others, Units
<1>2. Cardinality(Others(f, d)) \in Nat /\ Total(f) = Cardinality(Others(f, d)) + f[d]
  BY Zenon, TotalSplits
<1>3. Total(g) = Cardinality(Others(g, d)) + g[d] BY Zenon, TotalSplits
<1> QED BY <1>0, <1>1, <1>2, <1>3

\* A sum of zeros.
LEMMA SumZero ==
  ASSUME NEW D, NEW f \in [D -> 0 .. U64Max], \A d \in D : f[d] = 0
  PROVE  Total(f) = 0
<1>1. Units(f) = {} BY DEF Units
<1> QED BY Zenon, <1>1, FS_EmptySet DEF Total, Units

\* Sets of slots of the table are finite and have at most MaxArenas elements.
LEMMA ArenasCounted ==
  ASSUME NEW S, S \subseteq Arenas
  PROVE  /\ IsFiniteSet(Arenas)
         /\ Cardinality(S) \in 0 .. MaxArenas
         /\ Cardinality(S) = 0 <=> S = {}
         /\ \A c \in S : Cardinality(S \ {c}) = Cardinality(S) - 1
         /\ \A c \in Arenas \ S : Cardinality(S \cup {c}) = Cardinality(S) + 1
<1>0. MaxArenas \in Nat \ {0} BY Zenon, ArenaTableAssumption
<1>1. IsFiniteSet(Arenas) /\ Cardinality(Arenas) = MaxArenas
  BY <1>0, FS_Interval DEF Arenas
<1>2. IsFiniteSet(S) /\ Cardinality(S) <= Cardinality(Arenas) BY Zenon, <1>1, FS_Subset
<1>3. Cardinality(S) \in Nat BY Zenon, <1>2, FS_CardinalityType
<1>4. Cardinality(S) \in 0 .. MaxArenas BY <1>0, <1>1, <1>2, <1>3
<1>5. Cardinality(S) = 0 <=> S = {} BY Zenon, <1>2, FS_EmptySet
<1>6. ASSUME NEW c \in S PROVE Cardinality(S \ {c}) = Cardinality(S) - 1
  BY Zenon, <1>2, FS_RemoveElement
<1>7. ASSUME NEW c \in Arenas \ S PROVE Cardinality(S \cup {c}) = Cardinality(S) + 1
  BY Zenon, <1>2, FS_AddElement
<1> QED BY Zenon, <1>1, <1>4, <1>5, <1>6, <1>7

\* The laws that the steps count by.
LEMMA SumsAreLawful == SumLaws
<1>1. ASSUME NEW D, IsFiniteSet(D), NEW f \in [D -> 0 .. U64Max]
      PROVE  Total(f) \in Nat /\ \A d \in D : f[d] <= Total(f)
  BY Zenon, <1>1, SumType
<1>2. ASSUME NEW D, IsFiniteSet(D), NEW f \in [D -> 0 .. U64Max],
             NEW g \in [D -> 0 .. U64Max], NEW d \in D, \A e \in D \ {d} : f[e] = g[e]
      PROVE  Total(g) = Total(f) - f[d] + g[d]
  BY ZenonT(30), <1>2, SumChanges
<1>3. ASSUME NEW D, NEW f \in [D -> 0 .. U64Max], \A d \in D : f[d] = 0
      PROVE  Total(f) = 0
  BY Zenon, <1>3, SumZero
<1>4. ASSUME NEW S \in SUBSET Arenas
      PROVE  /\ Cardinality(S) \in 0 .. MaxArenas
             /\ Cardinality(S) = 0 <=> S = {}
             /\ \A c \in S : Cardinality(S \ {c}) = Cardinality(S) - 1
             /\ \A c \in Arenas \ S : Cardinality(S \cup {c}) = Cardinality(S) + 1
  BY Zenon, ArenasCounted
<1>5. IsFiniteSet(Arenas) BY Zenon, ArenasCounted
<1> QED BY Zenon, <1>1, <1>2, <1>3, <1>4, <1>5 DEF SumLaws

-----------------------------------------------------------------------------
(* The invariant. *)

\* The table as ArenaTable::new leaves it.
LEMMA InitStep == Init => IInv
<1> SUFFICES ASSUME Init PROVE IInv
  BY Zenon
<1>0. /\ U64Max \in Nat /\ MaxArenas \in Nat \ {0} /\ IsFiniteSet(Threads)
      /\ Nobody \notin Threads
  BY Zenon, ArenaTableAssumption
<1>1. TypeOK
  <2>1. Default \in Arenas /\ NoJob \in Job BY Zenon, JobType
  <2>2. /\ state \in [Arenas -> States] /\ rights \in [Arenas -> SUBSET Rights]
        /\ generation \in [Arenas -> Nat] /\ parent_generation \in [Arenas -> Nat]
    BY Zenon DEF Init, States
  <2>3. /\ committed \in [Arenas -> 0 .. U64Max] /\ reserved \in [Arenas -> 0 .. U64Max]
        /\ limit \in [Arenas -> 0 .. U64Max] /\ live_children \in [Arenas -> 0 .. MaxArenas]
        /\ parent_plus1 \in [Arenas -> 0 .. MaxArenas] /\ high_water \in 1 .. MaxArenas
    BY <1>0 DEF Init, Unlimited
  <2>4. lock \in Threads \cup {Nobody} /\ live \in [Arenas -> Nat] /\ stale \subseteq Arenas \X Nat
    BY Zenon DEF Init
  <2>5. job \in [Threads -> Job] BY Zenon, <2>1 DEF Init
  <2>6. pc \in [Threads -> {"idle"}] BY Zenon DEF Init
  <2> QED BY Zenon, <2>2, <2>3, <2>4, <2>5, <2>6 DEF TypeOK, Job
<1>2. LockInv BY Zenon, <1>0 DEF Init, LockInv, Locking
<1>3. SlotInv
  <2>1. Default \in Arenas /\ \A a \in Arenas : a \in Nat /\ (a >= 1 <=> a # Default)
    BY <1>0, JobType DEF Arenas, Default
  <2> QED BY <2>1 DEF Init, SlotInv
<1>4. WorkInv
  BY Zenon DEF Init, WorkInv, Working, Owning, TearingDown, Charging, Delegating
<1>5. \A a \in Arenas : Children(a) = {}
  BY <1>0 DEF Init, Children, Registered, Arenas
<1>6. TreeInv
  <2>1. \A a \in Arenas : Cardinality(Children(a) \ Uncounted) = 0 BY Zenon, <1>5, FS_EmptySet
  <2> QED BY Zenon, <2>1 DEF Init, TreeInv, Registered
<1>7. LedgerInv
  <2>1. ASSUME NEW a \in Arenas PROVE InFlight(a) = 0
    <3>1. Flight(a) \in [Threads -> 0 .. U64Max] /\ InFlight(a) = Total(Flight(a))
      BY Zenon, <1>1, FlightType, SumsAreLawful
    <3>2. \A u \in Threads : Flight(a)[u] = 0 BY Zenon DEF Flight, Init
    <3> QED BY Zenon, <3>1, <3>2, SumZero
  <2> QED BY <1>0, <2>1 DEF Init, LedgerInv, Unlimited
<1> QED BY Zenon, <1>1, <1>2, <1>3, <1>4, <1>6, <1>7 DEF IInv

\* The invariant is about the variables of the table.
LEMMA StutterStep == IInv /\ UNCHANGED vars => IInv'
<1> SUFFICES ASSUME IInv, UNCHANGED vars PROVE IInv'
  BY Zenon
<1>1. /\ UNCHANGED <<state, rights, generation, limit, parent_plus1, parent_generation>>
      /\ UNCHANGED <<high_water, committed, reserved, live_children, lock, live, stale>>
      /\ UNCHANGED <<pc, job>>
  BY Zenon DEF vars, slots, quota
<1>2. TypeOK' BY Zenon, <1>1 DEF IInv, TypeOK
<1>3. LockInv' /\ SlotInv' BY Zenon, <1>1 DEF IInv, LockInv, SlotInv
<1>4. WorkInv' BY Zenon, <1>1 DEF IInv, WorkInv, Working, Owning
<1>5. Uncounted' = Uncounted /\ Repaid' = Repaid BY Zenon, <1>1 DEF Uncounted, Repaid
<1>6. TreeInv' BY Zenon, <1>1, <1>5, TreeSame DEF IInv
<1>7. \A a : Budget(Children(a) \ Repaid)' = Budget(Children(a) \ Repaid)
  BY Zenon, <1>1, <1>5, BudgetSame
<1>8. \A a : InFlight(a)' = InFlight(a) BY Zenon, <1>1 DEF InFlight, Total
<1>9. \A a : Total(Hung(a))' = Total(Hung(a)) BY Zenon, <1>1 DEF Hung, Total
<1>10. LedgerInv' BY Zenon, <1>1, <1>7, <1>8, <1>9, LedgerSame DEF IInv
<1> QED BY Zenon, <1>2, <1>3, <1>4, <1>6, <1>10 DEF IInv

\* Every step of every thread keeps the invariant.
LEMMA NextStep == IInv /\ Next => IInv'
<1> SUFFICES ASSUME IInv, NEW t \in Threads, Calls(t) \/ Steps(t) PROVE IInv'
  BY Zenon DEF Next
<1> SumLaws BY Zenon, SumsAreLawful
<1>1. CASE Calls(t)
  <2>1. ASSUME NEW a \in Used, NEW n \in Sizes, TryCharge(t, a, n) \/ Free(t, a, n)
        PROVE  IInv'
    <3>1. a \in Arenas BY Zenon, ArenaTableAssumption DEF Arenas
    <3> QED BY Zenon, <2>1, <3>1, TryChargeStep, FreeStep
  <2>2. ASSUME NEW r \in Asked, NEW q \in Quotas, NEW id \in Arenas,
               CreateArena(t, id, r, q) \/ CreatePending(t, id, r, q)
        PROVE  IInv'
    BY Zenon, <2>2, CreateArenaStep, CreatePendingStep
  <2>3. ASSUME NEW r \in Asked, NEW q \in Quotas, NEW p \in Arenas, Delegate(t, p, r, q)
        PROVE  IInv'
    BY Zenon, <2>3, DelegateStep
  <2>4. ASSUME NEW a \in Arenas, BeginReset(t, a) \/ BeginDestroy(t, a) PROVE IInv'
    BY Zenon, <2>4, BeginStep
  <2> QED BY Zenon, <1>1, <2>1, <2>2, <2>3, <2>4 DEF Calls
<1>2. CASE ChargeExchange(t) \/ Serve(t) \/ StorageExhausted(t) \/ Credit(t)
  BY Zenon, <1>2, ChargeExchangeStep, ServeStep, StorageExhaustedStep, CreditStep
<1>3. CASE PublishArena(t) \/ AbandonPending(t)
  BY Zenon, <1>3, PublishArenaStep, AbandonPendingStep
<1>4. CASE Reserve(t) \/ DelegateCreate(t) \/ DelegateExhausted(t) \/ Unreserve(t)
  BY Zenon, <1>4, ReserveStep, DelegateCreateStep, DelegateExhaustedStep, UnreserveStep
<1>5. CASE DrainArena(t) \/ FinishReset(t) \/ QuarantineArena(t)
  BY Zenon, <1>5, DrainArenaStep, SettleStep
<1>6. CASE FinishDestroy(t) \/ ReturnReservation(t) \/ Retire(t)
  BY Zenon, <1>6, FinishDestroyStep, ReturnReservationStep, RetireStep
<1> QED BY Zenon, <1>1, <1>2, <1>3, <1>4, <1>5, <1>6 DEF Steps

\* The table, in every state, at every step of every call.
THEOREM TableInvariant == Spec => []IInv
<1>1. IInv /\ [Next]_vars => IInv' BY Zenon, NextStep, StutterStep
<1> QED BY <1>1, InitStep, PTL DEF Spec

-----------------------------------------------------------------------------
(* What follows from it. *)

\* begin_destroy, finish_destroy and delegate_locked: for any number of arenas and
\* threads, the parent of a registered arena is the incarnation that delegated it,
\* it is not going away, and whenever the lock is free it counts its children.
THEOREM TreeIsSound == Spec => []TreeSound
<1>1. IInv => NoOrphan
  <2> SUFFICES ASSUME IInv, NEW c \in Registered, parent_plus1[c] # 0
               PROVE  LET p == parent_plus1[c] - 1 IN
                      /\ state[p] \notin {"Initializing", "Draining", "Destroyed"}
                      /\ generation[p] = parent_generation[c]
                      /\ lock = Nobody => live_children[p] = Cardinality(Children(p))
    BY Zenon DEF NoOrphan
  <2> DEFINE p == parent_plus1[c] - 1
  <2>1. p \in Arenas BY Zenon, ParentSlot DEF IInv, Registered
  <2>2. /\ state[p] \in {"Active", "Resetting", "ErrorQuarantined"}
        /\ generation[p] = parent_generation[c]
    BY Zenon DEF IInv, TreeInv
  <2>3. ASSUME lock = Nobody PROVE live_children[p] = Cardinality(Children(p))
    <3>1. Uncounted = {} BY Zenon, <2>3, LockFree, SumsAreLawful
    <3>2. Children(p) \ Uncounted = Children(p) BY Zenon, <3>1
    <3> QED BY Zenon, <2>1, <3>2 DEF IInv, TreeInv
  <2> QED BY Zenon, <2>2, <2>3
<1>2. IInv => TreeSound BY Zenon, <1>1 DEF TreeSound, IInv
<1> QED BY <1>2, TableInvariant, PTL

\* resolve_handle: a handle to an incarnation that has been destroyed or abandoned
\* never resolves again, however often its slot is reused.
THEOREM HandlesStayStale == Spec => []StaleHandlesStayStale
<1>1. IInv => StaleHandlesStayStale
  <2> SUFFICES ASSUME IInv, NEW a \in Registered, <<a, generation[a]>> \in stale
               PROVE  FALSE
    BY Zenon DEF StaleHandlesStayStale
  <2>1. generation[a] < generation[a]
    <3>1. \A x \in stale : x[2] < generation[x[1]] BY Zenon DEF IInv, SlotInv
    <3> QED BY Zenon, <3>1
  <2>2. generation[a] \in Nat BY Zenon DEF IInv, TypeOK, Registered
  <2> QED BY <2>1, <2>2
<1> QED BY <1>1, TableInvariant, PTL

\* The ledger, one level of the tree at a time: try_charge, credit and the
\* reservations keep an arena's own bytes, its requests under way and the budget
\* set aside for its children within its quota, exactly; what is set aside is what
\* the children were given, and nothing once they are gone.
THEOREM LedgerIsSound == Spec => []LedgerSound
<1>1. IInv => Accounted BY Zenon DEF IInv, LedgerInv, Accounted
<1>2. IInv => NoBudgetLeaked
  <2> SUFFICES ASSUME IInv, lock = Nobody, NEW p \in Registered
               PROVE  reserved[p] = IF limit[p] = Unlimited THEN 0 ELSE Budget(Children(p))
    BY Zenon DEF NoBudgetLeaked
  <2>1. Repaid = {} /\ Total(Hung(p)) = 0 BY Zenon, LockFree, SumsAreLawful
  <2>2. Children(p) \ Repaid = Children(p) BY Zenon, <2>1
  <2>3. p \in Arenas BY Zenon DEF Registered
  <2>4. reserved[p] = IF limit[p] = Unlimited THEN 0 ELSE Budget(Children(p)) + Total(Hung(p))
    BY Zenon, <2>2, <2>3 DEF IInv, LedgerInv
  <2>5. Budget(Children(p)) \in Nat BY Zenon, BudgetIs, SumsAreLawful DEF IInv
  <2>6. Budget(Children(p)) + Total(Hung(p)) = Budget(Children(p)) BY <2>1, <2>5
  <2> QED BY Zenon, <2>4, <2>6
<1>3. IInv => OracleAccepts
  <2> SUFFICES ASSUME IInv PROVE CheckInvariants
    BY Zenon DEF OracleAccepts
  <2>1. /\ IsRegistered(Default) /\ MaxArenas \in Nat /\ high_water \in 1 .. MaxArenas
    BY Zenon, ArenaTableAssumption DEF IInv, SlotInv, TypeOK, IsRegistered
  <2>2. ASSUME NEW a \in 0 .. high_water - 1
        PROVE  /\ committed[a] <= limit[a]
               /\ state[a] \in Terminal => SaturatingSub(committed[a], reserved[a]) = 0
               /\ IsRegistered(a) => generation[a] # 0
    <3>1. a \in Arenas BY <2>1 DEF Arenas
    <3>2. committed[a] <= limit[a] /\ committed[a] \in Nat /\ reserved[a] \in Nat
      BY <3>1, LedgerAt, SumsAreLawful
    <3>3. ASSUME state[a] \in Terminal PROVE SaturatingSub(committed[a], reserved[a]) = 0
      <4>1. live[a] = 0 BY Zenon, <3>1, <3>3 DEF Terminal, IInv, SlotInv
      <4>2. \A u \in Threads : pc[u] \in Charging => job[u].arena # a
        BY Zenon, <3>3 DEF Terminal, IInv, WorkInv, Working
      <4>3. InFlight(a) = 0 BY Zenon, <4>2, NoFlight, SumsAreLawful
      <4>4. committed[a] = reserved[a] + live[a] + InFlight(a)
        BY Zenon, <3>1, <3>3 DEF Terminal, IInv, LedgerInv
      <4> QED BY <3>2, <4>1, <4>3, <4>4 DEF SaturatingSub
    <3>4. IsRegistered(a) => generation[a] > 0 /\ generation[a] \in Nat
      BY Zenon, <3>1 DEF IsRegistered, IInv, SlotInv, TypeOK
    <3> QED BY <3>2, <3>3, <3>4
  <2>3. high_water <= MaxArenas BY <2>1
  <2> QED BY Zenon, <2>1, <2>2, <2>3 DEF CheckInvariants
<1>4. IInv => LedgerSound BY Zenon, <1>1, <1>2, <1>3 DEF LedgerSound
<1> QED BY <1>4, TableInvariant, PTL
=============================================================================
