-------------------------- MODULE ArenaInvariant ----------------------------
(***************************************************************************)
(* The inductive invariant IInv of ArenaTable, and lemmas about the kinds  *)
(* of changes that preserve it.  ArenaTableSteps shows that each action    *)
(* makes such a change, ArenaTableProofs draws the conclusions.            *)
(*                                                                         *)
(* The properties speak of moments at which the table lock is free or the  *)
(* arena is in use.  IInv also says what holds in between: who holds the   *)
(* lock and at which step, which state the arena is in that a thread works *)
(* on, which child is on its way out and which budget is reserved for a    *)
(* child that does not exist yet.                                          *)
(***************************************************************************)
EXTENDS ArenaState, TLAPS

Locking == {"reserve", "create", "unreserve", "return", "retire"}
Charging == {"charge", "charged", "credit"}
Delegating == {"reserve", "create", "unreserve"}
TearingDown == {"reset", "destroy", "resetDrained", "destroyDrained", "failed",
                "return", "retire"}
Leaving == {"return", "retire"}

\* The lock is held by the thread that is at a step under it.
LockInv == \A t \in Threads : lock = t <=> pc[t] \in Locking

\* What each slot holds.
SlotInv ==
    /\ state[Default] = "Active"
    /\ \A a \in Arenas :
         /\ a >= high_water => state[a] = "Destroyed"
         /\ state[a] \in {"Destroyed", "Initializing"} =>
              committed[a] = 0 /\ reserved[a] = 0
         /\ state[a] \in {"Destroyed", "Initializing", "ErrorQuarantined"} => live[a] = 0
         /\ state[a] # "Destroyed" => generation[a] > 0
         /\ state[a] = "Initializing" => parent_plus1[a] = 0
    /\ \A x \in stale : x[2] < generation[x[1]]

\* The arena that t works on, at each step.
Working(t) ==
    LET a == job[t].arena IN
    /\ pc[t] \in Charging \cup Delegating => state[a] = "Active"
    /\ pc[t] \in {"charge"} \cup Delegating => job[t].lim = limit[a]
    /\ pc[t] \in {"reserve", "unreserve"} => limit[a] # Unlimited
    /\ pc[t] \in {"reset", "resetDrained"} => state[a] = "Resetting"
    /\ pc[t] \in {"destroy", "destroyDrained", "return", "retire"} => state[a] = "Draining"
    /\ pc[t] = "failed" => state[a] \in {"Resetting", "Draining"}
    /\ pc[t] = "pending" => state[a] = "Initializing"
    /\ pc[t] \in {"resetDrained", "destroyDrained", "failed", "return", "retire"} =>
         live[a] = 0
    /\ pc[t] = "return" =>
         parent_plus1[a] # 0 /\ limit[parent_plus1[a] - 1] # Unlimited

\* One thread tears an arena down, or has it unpublished, at a time.
Owning(t) == pc[t] \in TearingDown \cup {"pending"}
WorkInv ==
    /\ \A t \in Threads : Working(t)
    /\ \A t, u \in Threads :
         Owning(t) /\ Owning(u) /\ job[t].arena = job[u].arena => t = u

\* The children whose parent has already stopped counting them, those whose
\* budget has gone back, and the budget that no child has yet.
Uncounted == {job[t].arena : t \in {u \in Threads : pc[u] \in Leaving}}
Repaid == {job[t].arena : t \in {u \in Threads : pc[u] = "retire"}}
Hung(p) == [t \in Threads |-> IF pc[t] \in {"create", "unreserve"} /\ job[t].arena = p
                              THEN job[t].size ELSE 0]

\* The tree.
TreeInv ==
    /\ \A c \in Registered : parent_plus1[c] # 0 =>
         /\ state[parent_plus1[c] - 1] \in {"Active", "Resetting", "ErrorQuarantined"}
         /\ generation[parent_plus1[c] - 1] = parent_generation[c]
    /\ \A p \in Arenas :
         /\ live_children[p] = Cardinality(Children(p) \ Uncounted)
         /\ state[p] = "Draining" => live_children[p] = 0

\* The ledger.
LedgerInv ==
    \A a \in Arenas :
        /\ committed[a] <= limit[a]
        /\ state[a] \notin {"Resetting", "Draining"} =>
             committed[a] = reserved[a] + live[a] + InFlight(a)
        /\ state[a] \in {"Resetting", "Draining"} => reserved[a] + live[a] <= committed[a]
        /\ reserved[a] = IF limit[a] = Unlimited THEN 0
                         ELSE Budget(Children(a) \ Repaid) + Total(Hung(a))

IInv == TypeOK /\ LockInv /\ SlotInv /\ WorkInv /\ TreeInv /\ LedgerInv

-----------------------------------------------------------------------------
(* Sums and numbers of elements. *)

\* What the steps use of sums over threads and arenas and of the sizes of sets of
\* arenas.  ArenaTableProofs derives it from the theory of finite sets; here it is
\* a hypothesis of every lemma that counts.
SumLaws ==
    /\ \A D : IsFiniteSet(D) => \A f \in [D -> 0 .. U64Max] :
         Total(f) \in Nat /\ \A d \in D : f[d] <= Total(f)
    /\ \A D : IsFiniteSet(D) => \A f, g \in [D -> 0 .. U64Max] : \A d \in D :
         (\A e \in D \ {d} : f[e] = g[e]) => Total(g) = Total(f) - f[d] + g[d]
    /\ \A D : \A f \in [D -> 0 .. U64Max] : (\A d \in D : f[d] = 0) => Total(f) = 0
    /\ IsFiniteSet(Arenas)
    /\ \A S \in SUBSET Arenas :
         /\ Cardinality(S) \in 0 .. MaxArenas
         /\ Cardinality(S) = 0 <=> S = {}
         /\ \A c \in S : Cardinality(S \ {c}) = Cardinality(S) - 1
         /\ \A c \in Arenas \ S : Cardinality(S \cup {c}) = Cardinality(S) + 1

Quota(cs, f) == [c \in Arenas |-> IF c \in cs THEN f[c] ELSE 0]

\* The bytes that t has charged to a, and has not made an object or given back.
Flight(a) == [t \in Threads |-> IF pc[t] \in {"charged", "credit"} /\ job[t].arena = a
                                THEN job[t].size ELSE 0]

Charge(t) == IF pc[t] \in {"charged", "credit"} THEN job[t].size ELSE 0

Job == [arena : Arenas, size : 0 .. U64Max, cur : 0 .. U64Max, lim : 0 .. U64Max,
        rights : SUBSET Rights]

Hangs(t) == IF pc[t] \in {"create", "unreserve"} THEN job[t].size ELSE 0

\* What create_locked_inner does to the slots, field by field.
Made(id, q, pp, pg, st) ==
    /\ state' \in [Arenas -> States] /\ rights' \in [Arenas -> SUBSET Rights]
    /\ generation' \in [Arenas -> Nat] /\ parent_generation' \in [Arenas -> Nat]
    /\ committed' \in [Arenas -> 0 .. U64Max] /\ reserved' \in [Arenas -> 0 .. U64Max]
    /\ limit' \in [Arenas -> 0 .. U64Max] /\ parent_plus1' \in [Arenas -> 0 .. MaxArenas]
    /\ high_water' \in 1 .. MaxArenas
    /\ state'[id] = st /\ committed'[id] = 0 /\ reserved'[id] = 0 /\ limit'[id] = q
    /\ parent_plus1'[id] = pp /\ parent_generation'[id] = pg
    /\ generation[id] \in Nat /\ generation'[id] = generation[id] + 1
    /\ \A b \in Arenas \ {id} :
         /\ state'[b] = state[b] /\ committed'[b] = committed[b]
         /\ reserved'[b] = reserved[b] /\ limit'[b] = limit[b]
         /\ parent_plus1'[b] = parent_plus1[b] /\ generation'[b] = generation[b]
         /\ parent_generation'[b] = parent_generation[b]
    /\ \A b \in Arenas : b >= high_water' => b # id /\ state[b] = "Destroyed"
    /\ Registered' = Registered \cup {id}

\* The step of t that makes slot id; pp is the parent's number plus one.
Making(t, id, q, pp, pg, st) ==
    /\ id \in Claimable /\ Made(id, q, pp, pg, st)
    /\ st = "Initializing" => pp = 0
    /\ pp # 0 => state[pp - 1] = "Active" /\ generation[pp - 1] = pg
    /\ live_children' = IF pp = 0 THEN live_children
                        ELSE [live_children EXCEPT ![pp - 1] = @ + 1]
    /\ UNCHANGED <<live, stale>>
    /\ lock' = Nobody /\ LockInv' /\ Uncounted = {} /\ Repaid = {}
    /\ \A u \in Threads \ {t} : pc[u] \notin Locking
    /\ \A u \in Threads \ {t} : pc'[u] = pc[u] /\ job'[u] = job[u]
    /\ pc[t] \notin Charging /\ pc'[t] \notin Charging
    /\ pc' \in [Threads -> {"idle", "charge", "charged", "credit", "reserve",
                           "create", "unreserve", "pending", "reset", "destroy",
                           "resetDrained", "destroyDrained", "failed", "return",
                           "retire"}]
    /\ job' \in [Threads -> Job]
    /\ Working(t)' /\ (Owning(t)' => job'[t].arena = id)
    /\ \A b \in Arenas : limit[b] # Unlimited =>
         Total(Hung(b)) = IF pp = b + 1 THEN q ELSE 0

\* Sums are natural numbers, at least as large as any of their terms.
LEMMA TotalType ==
  ASSUME SumLaws, NEW D, IsFiniteSet(D), NEW f \in [D -> 0 .. U64Max]
  PROVE  Total(f) \in Nat /\ \A d \in D : f[d] <= Total(f)
BY Zenon DEF SumLaws

\* Changing one term changes the sum by as much.
LEMMA TotalChanges ==
  ASSUME SumLaws, NEW D, IsFiniteSet(D),
         NEW f \in [D -> 0 .. U64Max], NEW g \in [D -> 0 .. U64Max],
         NEW d \in D, \A e \in D \ {d} : f[e] = g[e]
  PROVE  Total(g) = Total(f) - f[d] + g[d]
BY DEF SumLaws

\* A sum of zeros.
LEMMA TotalZero ==
  ASSUME SumLaws, NEW D, NEW f \in [D -> 0 .. U64Max], \A d \in D : f[d] = 0
  PROVE  Total(f) = 0
BY Zenon DEF SumLaws

\* Sets of arenas are finite, and grow and shrink by one.
LEMMA Counted ==
  ASSUME SumLaws, NEW S, S \subseteq Arenas
  PROVE  /\ Cardinality(S) \in 0 .. MaxArenas
         /\ Cardinality(S) = 0 <=> S = {}
         /\ \A c \in S : Cardinality(S \ {c}) = Cardinality(S) - 1
         /\ \A c \in Arenas \ S : Cardinality(S \cup {c}) = Cardinality(S) + 1
<1>1. S \in SUBSET Arenas BY Zenon
<1> QED BY Zenon, <1>1 DEF SumLaws


\* The budget of a set of arenas, when one arena joins it.
LEMMA BudgetGrows ==
  ASSUME SumLaws, NEW f \in [Arenas -> 0 .. U64Max], NEW g \in [Arenas -> 0 .. U64Max],
         NEW cs, NEW d \in Arenas, d \notin cs, \A c \in cs : f[c] = g[c]
  PROVE  Total(Quota(cs \cup {d}, g)) = Total(Quota(cs, f)) + g[d]
<1>0. U64Max \in Nat /\ MaxArenas \in Nat BY Zenon, ArenaTableAssumption
<1>1. IsFiniteSet(Arenas) BY Zenon DEF SumLaws
<1> DEFINE F == Quota(cs, f)
           G == Quota(cs \cup {d}, g)
<1>2. F \in [Arenas -> 0 .. U64Max] /\ G \in [Arenas -> 0 .. U64Max]
  BY <1>0 DEF Quota
<1>3. F[d] = 0 /\ G[d] = g[d] /\ \A e \in Arenas \ {d} : F[e] = G[e] BY Zenon DEF Quota
<1> HIDE DEF F, G
<1>4. Total(G) = Total(F) - F[d] + G[d] BY <1>1, <1>2, <1>3, TotalChanges
<1>5. Total(F) \in Nat BY Zenon, <1>1, <1>2, TotalType
<1>6. g[d] \in Nat BY <1>0
<1>7. Total(G) = Total(F) + g[d] BY <1>3, <1>4, <1>5, <1>6
<1> QED BY Zenon, <1>7 DEF F, G

\* Budgets are natural numbers, at least as large as the quota of each member.
LEMMA BudgetType ==
  ASSUME SumLaws, NEW f \in [Arenas -> 0 .. U64Max], NEW cs
  PROVE  /\ Total(Quota(cs, f)) \in Nat
         /\ \A c \in cs \cap Arenas : f[c] <= Total(Quota(cs, f))
<1>0. U64Max \in Nat /\ MaxArenas \in Nat BY Zenon, ArenaTableAssumption
<1>1. IsFiniteSet(Arenas) BY Zenon DEF SumLaws
<1>2. Quota(cs, f) \in [Arenas -> 0 .. U64Max] BY <1>0 DEF Quota
<1>3. \A c \in cs \cap Arenas : Quota(cs, f)[c] = f[c] BY Zenon DEF Quota
<1> QED BY Zenon, <1>1, <1>2, <1>3, TotalType


\* Bytes on their way, summed over the threads.
LEMMA FlightType ==
  ASSUME SumLaws, TypeOK, NEW a
  PROVE  /\ Flight(a) \in [Threads -> 0 .. U64Max]
         /\ InFlight(a) = Total(Flight(a)) /\ InFlight(a) \in Nat
         /\ \A t \in Threads : Flight(a)[t] <= InFlight(a)
<1>0. U64Max \in Nat /\ IsFiniteSet(Threads) BY Zenon, ArenaTableAssumption
<1>1. \A t \in Threads : job[t].size \in 0 .. U64Max BY Zenon DEF TypeOK
<1>2. Flight(a) \in [Threads -> 0 .. U64Max] BY <1>0, <1>1 DEF Flight
<1>3. InFlight(a) = Total(Flight(a)) BY Zenon DEF InFlight, Flight
<1>4. Total(Flight(a)) \in Nat /\ \A t \in Threads : Flight(a)[t] <= Total(Flight(a))
  BY Zenon, <1>0, <1>2, TotalType
<1> QED BY Zenon, <1>2, <1>3, <1>4

\* Budgets on their way, summed over the threads.
LEMMA HungType ==
  ASSUME SumLaws, TypeOK, NEW a
  PROVE  /\ Hung(a) \in [Threads -> 0 .. U64Max]
         /\ Total(Hung(a)) \in Nat
         /\ \A t \in Threads : Hung(a)[t] <= Total(Hung(a))
<1>0. U64Max \in Nat /\ IsFiniteSet(Threads) BY Zenon, ArenaTableAssumption
<1>1. \A t \in Threads : job[t].size \in 0 .. U64Max BY Zenon DEF TypeOK
<1>2. Hung(a) \in [Threads -> 0 .. U64Max] BY <1>0, <1>1 DEF Hung
<1> QED BY Zenon, <1>0, <1>2, TotalType

\* A step of t changes these sums by what it changes at t.
LEMMA SumsChange ==
  ASSUME SumLaws, TypeOK, TypeOK', NEW t \in Threads, NEW a,
         \A u \in Threads \ {t} : pc'[u] = pc[u] /\ job'[u] = job[u]
  PROVE  /\ InFlight(a)' = InFlight(a) - Flight(a)[t] + Flight(a)'[t]
         /\ Total(Hung(a))' = Total(Hung(a)) - Hung(a)[t] + Hung(a)'[t]
<1>0. IsFiniteSet(Threads) BY Zenon, ArenaTableAssumption
<1>1. /\ Flight(a) \in [Threads -> 0 .. U64Max] /\ InFlight(a) = Total(Flight(a))
      /\ Hung(a) \in [Threads -> 0 .. U64Max]
  BY Zenon, FlightType, HungType
<1>2. /\ Flight(a)' \in [Threads -> 0 .. U64Max] /\ InFlight(a)' = Total(Flight(a)')
      /\ Hung(a)' \in [Threads -> 0 .. U64Max] /\ Total(Hung(a))' = Total(Hung(a)')
  <2>0. U64Max \in Nat BY Zenon, ArenaTableAssumption
  <2>1. \A u \in Threads : job'[u].size \in 0 .. U64Max BY Zenon DEF TypeOK
  <2>2. Flight(a)' \in [Threads -> 0 .. U64Max] /\ Hung(a)' \in [Threads -> 0 .. U64Max]
    BY <2>0, <2>1 DEF Flight, Hung
  <2>3. InFlight(a)' = Total(Flight(a)') BY Zenon DEF InFlight, Flight, Total
  <2>4. Total(Hung(a))' = Total(Hung(a)') BY Zenon DEF Total
  <2> QED BY Zenon, <2>2, <2>3, <2>4
<1>3. \A u \in Threads \ {t} : Flight(a)[u] = Flight(a)'[u] /\ Hung(a)[u] = Hung(a)'[u]
  BY Zenon DEF Flight, Hung
<1>4. Total(Flight(a)') = Total(Flight(a)) - Flight(a)[t] + Flight(a)'[t]
  BY <1>0, <1>1, <1>2, <1>3, TotalChanges
<1>5. Total(Hung(a)') = Total(Hung(a)) - Hung(a)[t] + Hung(a)'[t]
  BY Zenon, <1>0, <1>1, <1>2, <1>3, TotalChanges
<1> QED BY Zenon, <1>1, <1>2, <1>4, <1>5

-----------------------------------------------------------------------------
(* What a step leaves alone. *)

\* A step of a thread that is not, and does not come, under the lock.
LEMMA HoldersSame ==
  ASSUME NEW t \in Threads, pc[t] \notin Locking, pc'[t] \notin Locking,
         \A u \in Threads \ {t} : pc'[u] = pc[u] /\ job'[u] = job[u]
  PROVE  /\ Uncounted' = Uncounted /\ Repaid' = Repaid
         /\ \A a : Hung(a)' = Hung(a)
<1>1. Uncounted' = Uncounted BY Zenon DEF Uncounted, Locking, Leaving
<1>2. Repaid' = Repaid BY Zenon DEF Repaid, Locking
<1>3. \A a : Hung(a)' = Hung(a) BY Zenon DEF Hung, Locking
<1> QED BY Zenon, <1>1, <1>2, <1>3

\* The tree is a matter of states, parents and generations.
LEMMA TreeSame ==
  ASSUME TreeInv, Uncounted' = Uncounted,
         UNCHANGED <<state, generation, parent_plus1, parent_generation, live_children>>
  PROVE  TreeInv'
<1>1. Registered' = Registered BY Zenon DEF Registered, IsRegistered
<1>2. \A p \in Arenas : Children(p)' = Children(p) BY Zenon, <1>1 DEF Children
<1> QED BY Zenon, <1>1, <1>2 DEF TreeInv

\* The budget of the children is a matter of states, parents and quotas.
LEMMA BudgetSame ==
  ASSUME Repaid' = Repaid, UNCHANGED <<state, parent_plus1, limit>>, NEW a
  PROVE  Budget(Children(a) \ Repaid)' = Budget(Children(a) \ Repaid)
<1>1. Children(a)' = Children(a) BY Zenon DEF Children, Registered, IsRegistered
<1> QED BY Zenon, <1>1 DEF Budget, Total

-----------------------------------------------------------------------------
(* Accounting. *)


\* A step that charges or credits one arena in use, and no other, keeps the
\* balance of committed against the objects and the requests under way.
LEMMA AccountStep ==
  ASSUME SumLaws, IInv, TypeOK', NEW t \in Threads, NEW a \in Arenas, state[a] = "Active",
         UNCHANGED <<slots, reserved, live_children, lock, stale>>,
         \A u \in Threads \ {t} : pc'[u] = pc[u] /\ job'[u] = job[u],
         \A b \in Arenas \ {a} : committed'[b] = committed[b] /\ live'[b] = live[b],
         pc[t] \in {"idle"} \cup Charging, pc[t] \in Charging => job[t].arena = a,
         pc'[t] \in {"idle"} \cup Charging, pc'[t] \in Charging => job'[t].arena = a,
         pc'[t] = "charge" => job'[t].lim = limit[a],
         committed'[a] <= limit[a],
         committed'[a] - live'[a] - Charge(t)' = committed[a] - live[a] - Charge(t)
  PROVE  IInv'
<1>0. /\ UNCHANGED <<state, rights, generation, limit, parent_plus1, parent_generation,
                     high_water>>
      /\ pc[t] \notin Locking /\ pc'[t] \notin Locking
      /\ pc[t] \notin TearingDown \cup {"pending"} \cup Delegating
      /\ pc'[t] \notin TearingDown \cup {"pending"} \cup Delegating
  BY Zenon DEF slots, Locking, Charging, TearingDown, Delegating
<1>1. LockInv' BY Zenon, <1>0 DEF IInv, LockInv
<1>2. SlotInv' BY Zenon, <1>0 DEF IInv, SlotInv
<1>3. WorkInv'
  <2>1. ASSUME NEW u \in Threads, u # t PROVE Working(u)'
    <3>1. pc'[u] = pc[u] /\ job'[u] = job[u] /\ job[u].arena \in Arenas
      BY Zenon, <2>1 DEF IInv, TypeOK
    <3>2. pc[u] \in {"resetDrained", "destroyDrained", "failed", "return", "retire"} =>
            state[job[u].arena] # "Active"
      BY Zenon DEF IInv, WorkInv, Working
    <3>3. Working(u) BY Zenon DEF IInv, WorkInv
    <3> QED BY ZenonT(30), <1>0, <3>1, <3>2, <3>3 DEF Working
  <2>2. Working(t)' BY Zenon, <1>0 DEF Working, TearingDown, Charging, Delegating
  <2>3. ~Owning(t)' /\ \A u \in Threads \ {t} : Owning(u)' = Owning(u)
    BY Zenon, <1>0 DEF Owning
  <2> QED BY <2>1, <2>2, <2>3 DEF IInv, WorkInv
<1>4. /\ Uncounted' = Uncounted /\ Repaid' = Repaid
      /\ \A b : Hung(b)' = Hung(b)
  BY Zenon, <1>0, HoldersSame
<1>5. TreeInv' BY Zenon, <1>0, <1>4, TreeSame DEF IInv
<1>6. LedgerInv'
  <2> SUFFICES ASSUME NEW b \in Arenas
               PROVE  /\ committed'[b] <= limit[b]
                      /\ state[b] \notin {"Resetting", "Draining"} =>
                           committed'[b] = reserved[b] + live'[b] + InFlight(b)'
                      /\ state[b] \in {"Resetting", "Draining"} =>
                           reserved[b] + live'[b] <= committed'[b]
                      /\ reserved[b] = IF limit[b] = Unlimited THEN 0
                           ELSE Budget(Children(b) \ Repaid)' + Total(Hung(b))'
    BY Zenon, <1>0 DEF LedgerInv
  <2>1. Budget(Children(b) \ Repaid)' = Budget(Children(b) \ Repaid)
    BY Zenon, <1>0, <1>4, BudgetSame
  <2>2. Total(Hung(b))' = Total(Hung(b)) BY Zenon, <1>4 DEF Total
  <2>3. InFlight(b)' = InFlight(b) - Flight(b)[t] + Flight(b)'[t] /\ InFlight(b) \in Nat
    BY Zenon, SumsChange, FlightType DEF IInv
  <2>4. /\ Charge(t) \in Nat /\ Charge(t)' \in Nat
        /\ committed[b] \in Nat /\ committed'[b] \in Nat /\ reserved[b] \in Nat
        /\ live[b] \in Nat /\ live'[b] \in Nat
    BY ArenaTableAssumption DEF Charge, IInv, TypeOK
  <2>5. CASE b = a
    <3>1. Flight(b)[t] = Charge(t) /\ Flight(b)'[t] = Charge(t)'
      BY Zenon, <2>5 DEF Flight, Charge, Charging
    <3>2. /\ committed[b] = reserved[b] + live[b] + InFlight(b)
          /\ reserved[b] = IF limit[b] = Unlimited THEN 0
                           ELSE Budget(Children(b) \ Repaid) + Total(Hung(b))
      BY Zenon, <2>5 DEF IInv, LedgerInv
    <3>3. committed'[b] = reserved[b] + live'[b] + InFlight(b)'
      <4>1. committed'[b] - live'[b] - Charge(t)' = committed[b] - live[b] - Charge(t)
        BY Zenon, <2>5
      <4>2. InFlight(b)' = InFlight(b) - Charge(t) + Charge(t)' BY Zenon, <2>3, <3>1
      <4>3. committed[b] = reserved[b] + live[b] + InFlight(b) BY Zenon, <3>2
      <4> QED BY <4>1, <4>2, <4>3, <2>3, <2>4
    <3> QED BY Zenon, <3>2, <3>3, <2>1, <2>2, <2>5
  <2>6. CASE b # a
    <3>1. Flight(b)[t] = 0 /\ Flight(b)'[t] = 0 BY Zenon, <2>6 DEF Flight, Charging
    <3>2. InFlight(b)' = InFlight(b) BY <3>1, <2>3
    <3> QED BY Zenon, <3>2, <2>1, <2>2, <2>6 DEF IInv, LedgerInv
  <2> QED BY Zenon, <2>5, <2>6
<1> QED BY Zenon, <1>1, <1>2, <1>3, <1>5, <1>6 DEF IInv


\* What a thread carries along has its type.
LEMMA JobType ==
  /\ Default \in Arenas /\ NoJob \in Job
  /\ TypeOK => job \in [Threads -> Job]
<1>1. Default \in Arenas BY ArenaTableAssumption DEF Arenas, Default
<1>2. NoJob \in Job BY <1>1, ArenaTableAssumption DEF NoJob, Job
<1>3. TypeOK => job \in [Threads -> Job] BY Zenon DEF TypeOK, Job
<1> QED BY Zenon, <1>1, <1>2, <1>3

\* What a thread at work knows of its arena.
LEMMA AtWork ==
  ASSUME IInv, NEW t \in Threads
  PROVE  /\ job[t].arena \in Arenas /\ job[t].size \in 0 .. U64Max
         /\ job[t].lim \in 0 .. U64Max /\ U64Max \in Nat
         /\ committed[job[t].arena] \in 0 .. U64Max /\ live[job[t].arena] \in Nat
         /\ Working(t)
BY Zenon, ArenaTableAssumption DEF IInv, TypeOK, WorkInv

\* A step that changes only a charge keeps the types.
LEMMA ChargeTypes ==
  ASSUME TypeOK, UNCHANGED <<slots, reserved, live_children, lock, live, stale>>,
         committed' \in [Arenas -> 0 .. U64Max], job' \in [Threads -> Job],
         NEW t \in Threads, NEW l \in {"idle"} \cup Charging, pc' = [pc EXCEPT ![t] = l]
  PROVE  TypeOK'
BY Zenon DEF TypeOK, Job, Charging, slots

\* A delegating step that leaves the slots alone moves budget between the
\* parent's free quota and the reservation that is about to become a child's.
LEMMA DelegationStep ==
  ASSUME SumLaws, IInv, TypeOK', LockInv', NEW t \in Threads, NEW p \in Arenas, state[p] = "Active",
         UNCHANGED <<slots, live_children, live, stale>>,
         \A u \in Threads \ {t} : pc'[u] = pc[u] /\ job'[u] = job[u],
         \A b \in Arenas \ {p} : committed'[b] = committed[b] /\ reserved'[b] = reserved[b],
         pc[t] \in {"idle"} \cup Delegating, pc[t] \in Delegating => job[t].arena = p,
         pc'[t] \in {"idle"} \cup Delegating,
         pc'[t] \in Delegating => job'[t].arena = p /\ job'[t].lim = limit[p],
         pc'[t] \in {"reserve", "unreserve"} => limit[p] # Unlimited,
         committed'[p] <= limit[p],
         committed'[p] - reserved'[p] = committed[p] - reserved[p],
         IF limit[p] = Unlimited THEN reserved'[p] = reserved[p]
         ELSE reserved'[p] - Hangs(t)' = reserved[p] - Hangs(t)
  PROVE  IInv'
<1>0. /\ UNCHANGED <<state, rights, generation, limit, parent_plus1, parent_generation,
                     high_water>>
      /\ pc[t] \notin TearingDown \cup {"pending"} \cup Charging
      /\ pc'[t] \notin TearingDown \cup {"pending"} \cup Charging
  BY Zenon DEF slots, Locking, Charging, TearingDown, Delegating
<1>1. SlotInv' BY Zenon, <1>0 DEF IInv, SlotInv
<1>2. WorkInv'
  <2>1. ASSUME NEW u \in Threads, u # t PROVE Working(u)'
    <3>1. pc'[u] = pc[u] /\ job'[u] = job[u] BY Zenon, <2>1
    <3>2. Working(u) BY Zenon DEF IInv, WorkInv
    <3> QED BY Zenon, <1>0, <3>1, <3>2 DEF Working
  <2>2. Working(t)' BY Zenon, <1>0 DEF Working, TearingDown, Charging, Delegating
  <2>3. ~Owning(t)' /\ \A u \in Threads \ {t} : Owning(u)' = Owning(u)
    BY Zenon, <1>0 DEF Owning
  <2> QED BY <2>1, <2>2, <2>3 DEF IInv, WorkInv
<1>3. Uncounted' = Uncounted /\ Repaid' = Repaid
  <2>1. pc[t] \notin Leaving /\ pc'[t] \notin Leaving BY Zenon, <1>0 DEF TearingDown, Leaving
  <2>2. Uncounted' = Uncounted BY <2>1 DEF Uncounted
  <2>3. Repaid' = Repaid BY <2>1 DEF Repaid, Leaving
  <2> QED BY Zenon, <2>2, <2>3
<1>4. TreeInv' BY Zenon, <1>0, <1>3, TreeSame DEF IInv
<1>5. LedgerInv'
  <2> SUFFICES ASSUME NEW b \in Arenas
               PROVE  /\ committed'[b] <= limit[b]
                      /\ state[b] \notin {"Resetting", "Draining"} =>
                           committed'[b] = reserved'[b] + live[b] + InFlight(b)'
                      /\ state[b] \in {"Resetting", "Draining"} =>
                           reserved'[b] + live[b] <= committed'[b]
                      /\ reserved'[b] = IF limit[b] = Unlimited THEN 0
                           ELSE Budget(Children(b) \ Repaid)' + Total(Hung(b))'
    BY Zenon, <1>0 DEF LedgerInv
  <2>1. Budget(Children(b) \ Repaid)' = Budget(Children(b) \ Repaid)
    BY Zenon, <1>0, <1>3, BudgetSame
  <2>2. /\ InFlight(b)' = InFlight(b) - Flight(b)[t] + Flight(b)'[t] /\ InFlight(b) \in Nat
        /\ Total(Hung(b))' = Total(Hung(b)) - Hung(b)[t] + Hung(b)'[t]
        /\ Total(Hung(b)) \in Nat
    BY Zenon, SumsChange, FlightType, HungType DEF IInv
  <2>3. Flight(b)[t] = 0 /\ Flight(b)'[t] = 0 BY Zenon, <1>0 DEF Flight, Charging
  <2>4. InFlight(b)' = InFlight(b) BY <2>2, <2>3
  <2>5. /\ Hangs(t) \in Nat /\ Hangs(t)' \in Nat
        /\ committed[b] \in Nat /\ committed'[b] \in Nat /\ reserved[b] \in Nat
        /\ reserved'[b] \in Nat /\ live[b] \in Nat
    BY ArenaTableAssumption DEF Hangs, IInv, TypeOK
  <2>6. Budget(Children(b) \ Repaid) \in Nat
    <3>1. Budget(Children(b) \ Repaid) = Total(Quota(Children(b) \ Repaid, limit))
      BY Zenon DEF Budget, Quota
    <3>2. limit \in [Arenas -> 0 .. U64Max] BY Zenon DEF IInv, TypeOK
    <3> QED BY <3>1, <3>2, BudgetType
  <2>7. CASE b = p
    <3>1. Hung(b)[t] = Hangs(t) /\ Hung(b)'[t] = Hangs(t)'
      BY Zenon, <2>7 DEF Hung, Hangs, Delegating
    <3>2. /\ committed[b] = reserved[b] + live[b] + InFlight(b)
          /\ reserved[b] = IF limit[b] = Unlimited THEN 0
                           ELSE Budget(Children(b) \ Repaid) + Total(Hung(b))
      BY Zenon, <2>7 DEF IInv, LedgerInv
    <3>3. committed'[b] = reserved'[b] + live[b] + InFlight(b)'
      <4>1. committed'[b] - reserved'[b] = committed[b] - reserved[b] BY Zenon, <2>7
      <4>2. committed[b] = reserved[b] + live[b] + InFlight(b) BY Zenon, <3>2
      <4> QED BY <4>1, <4>2, <2>4, <2>2, <2>5
    <3>4. CASE limit[b] = Unlimited BY Zenon, <3>2, <3>3, <3>4, <2>7
    <3>5. CASE limit[b] # Unlimited
      <4>1. reserved'[b] - Hangs(t)' = reserved[b] - Hangs(t) BY Zenon, <2>7, <3>5
      <4>2. reserved[b] = Budget(Children(b) \ Repaid) + Total(Hung(b)) BY Zenon, <3>2, <3>5
      <4>3. Total(Hung(b))' = Total(Hung(b)) - Hangs(t) + Hangs(t)'
        BY Zenon, <2>2, <3>1
      <4>4. reserved'[b] = Budget(Children(b) \ Repaid) + Total(Hung(b))'
        BY <4>1, <4>2, <4>3, <2>2, <2>5, <2>6
      <4> QED BY Zenon, <4>4, <3>3, <3>5, <2>1, <2>7
    <3> QED BY Zenon, <3>4, <3>5
  <2>8. CASE b # p
    <3>1. Hung(b)[t] = 0 /\ Hung(b)'[t] = 0 BY Zenon, <2>8 DEF Hung, Delegating
    <3>2. Total(Hung(b))' = Total(Hung(b)) BY <3>1, <2>2
    <3> QED BY Zenon, <3>2, <2>1, <2>4, <2>8 DEF IInv, LedgerInv
  <2> QED BY Zenon, <2>7, <2>8
<1> QED BY Zenon, <1>1, <1>2, <1>4, <1>5 DEF IInv

\* Who holds the lock, when one thread takes it, keeps it or gives it back.
LEMMA LockStep ==
  ASSUME IInv, NEW t \in Threads,
         \A u \in Threads \ {t} : pc'[u] = pc[u],
         \/ lock = Nobody /\ lock' = t /\ pc'[t] \in Locking
         \/ lock = t /\ lock' = t /\ pc'[t] \in Locking
         \/ lock = t /\ lock' = Nobody /\ pc'[t] \notin Locking
         \/ lock' = lock /\ pc[t] \notin Locking /\ pc'[t] \notin Locking
  PROVE  LockInv'
<1>1. Nobody \notin Threads BY Zenon, ArenaTableAssumption
<1> QED BY <1>1 DEF IInv, LockInv

\* With the lock free, nothing is on its way between parent and child.
LEMMA LockFree ==
  ASSUME SumLaws, IInv, lock = Nobody
  PROVE  /\ \A u \in Threads : pc[u] \notin Locking
         /\ Uncounted = {} /\ Repaid = {} /\ \A p : Total(Hung(p)) = 0
<1>1. \A u \in Threads : pc[u] \notin Locking
  BY Zenon, ArenaTableAssumption DEF IInv, LockInv
<1>2. Uncounted = {} BY Zenon, <1>1 DEF Uncounted, Locking, Leaving
<1>3. Repaid = {} BY Zenon, <1>1 DEF Repaid, Locking
<1>4. ASSUME NEW p PROVE Total(Hung(p)) = 0
  <2>1. \A u \in Threads : Hung(p)[u] = 0 BY Zenon, <1>1 DEF Hung, Locking
  <2>2. Hung(p) \in [Threads -> 0 .. U64Max] BY Zenon, HungType DEF IInv
  <2> QED BY Zenon, <2>1, <2>2, TotalZero
<1> QED BY Zenon, <1>1, <1>2, <1>3, <1>4

\* Arenas and their children are finitely many.
LEMMA ChildrenFinite ==
  ASSUME SumLaws, NEW p
  PROVE  Children(p) \subseteq Arenas /\ Cardinality(Children(p)) \in Nat
<1>1. Children(p) \subseteq Arenas BY Zenon DEF Children, Registered
<1>2. Cardinality(Children(p)) \in 0 .. MaxArenas BY Zenon, <1>1, Counted
<1> QED BY <1>1, <1>2, ArenaTableAssumption

\* The slot of a parent, from the number that the child keeps.
LEMMA ParentSlot ==
  ASSUME TypeOK, NEW c \in Arenas, parent_plus1[c] # 0
  PROVE  /\ parent_plus1[c] - 1 \in Arenas
         /\ \A p \in Arenas : parent_plus1[c] - 1 = p <=> parent_plus1[c] = p + 1
<1>1. parent_plus1[c] \in 0 .. MaxArenas /\ MaxArenas \in Nat
  BY Zenon, ArenaTableAssumption DEF TypeOK
<1> QED BY <1>1 DEF Arenas

\* Registered arenas, their parents and their budgets stay; only the states, and
\* what the states promise, must be looked at.
LEMMA TransitionStep ==
  ASSUME SumLaws, IInv, TypeOK', NEW t \in Threads, NEW a \in Arenas, a # Default,
         state[a] # "Destroyed", state'[a] # "Destroyed",
         \A b \in Arenas \ {a} : state'[b] = state[b],
         UNCHANGED <<generation, limit, parent_plus1, parent_generation, high_water>>,
         UNCHANGED <<reserved, live_children, lock, stale>>,
         \A b \in Arenas \ {a} : committed'[b] = committed[b] /\ live'[b] = live[b],
         \A u \in Threads \ {t} : pc'[u] = pc[u] /\ job'[u] = job[u],
         pc[t] \notin Locking, pc'[t] \notin Locking,
         Working(t)', \A u \in Threads \ {t} : Working(u)',
         Owning(t)' => job'[t].arena = a,
         \A u \in Threads \ {t} : Owning(u) => job[u].arena # a,
         state'[a] = "Initializing" => state[a] = "Initializing",
         state'[a] \in {"Initializing", "ErrorQuarantined"} => live'[a] = 0,
         state'[a] = "Initializing" => committed'[a] = 0,
         state'[a] = "Draining" /\ state[a] # "Draining" =>
             live_children[a] = 0 /\ lock = Nobody,
         committed'[a] <= limit[a],
         \A b \in Arenas : InFlight(b)' = InFlight(b),
         IF state'[a] \in {"Resetting", "Draining"}
         THEN reserved[a] + live'[a] <= committed'[a]
         ELSE committed'[a] = reserved[a] + live'[a] + InFlight(a)
  PROVE  IInv'
<1>1. LockInv' BY Zenon DEF IInv, LockInv
<1>2. SlotInv'
  <2>1. state'[Default] = "Active" BY Zenon, JobType DEF IInv, SlotInv
  <2>2. ASSUME NEW b \in Arenas
        PROVE  /\ b >= high_water => state'[b] = "Destroyed"
               /\ state'[b] \in {"Destroyed", "Initializing"} =>
                    committed'[b] = 0 /\ reserved[b] = 0
               /\ state'[b] \in {"Destroyed", "Initializing", "ErrorQuarantined"} =>
                    live'[b] = 0
               /\ state'[b] # "Destroyed" => generation[b] > 0
               /\ state'[b] = "Initializing" => parent_plus1[b] = 0
    BY ZenonT(30) DEF IInv, SlotInv
  <2> QED BY Zenon, <2>1, <2>2 DEF IInv, SlotInv
<1>3. WorkInv'
  <2>1. \A u \in Threads \ {t} : Owning(u)' => Owning(u) /\ job'[u].arena = job[u].arena
    BY Zenon DEF Owning
  <2> QED BY <2>1 DEF IInv, WorkInv
<1>4. Uncounted' = Uncounted /\ Repaid' = Repaid /\ \A b : Hung(b)' = Hung(b)
  BY Zenon, HoldersSame
<1>5. Registered' = Registered BY Zenon DEF Registered, IsRegistered
<1>6. \A p \in Arenas : Children(p)' = Children(p) BY Zenon, <1>5 DEF Children
<1>7. TreeInv'
  <2>1. \A p \in Arenas : /\ live_children'[p] = Cardinality(Children(p)' \ Uncounted')
                          /\ state'[p] = "Draining" => live_children'[p] = 0
    BY <1>4, <1>6 DEF IInv, TreeInv
  <2>2. ASSUME NEW c \in Registered, parent_plus1[c] # 0
        PROVE  state'[parent_plus1[c] - 1] \in {"Active", "Resetting", "ErrorQuarantined"}
    <3> DEFINE p == parent_plus1[c] - 1
    <3>0. c \in Arenas BY Zenon DEF Registered
    <3>1. p \in Arenas /\ (p = a => c \in Children(a))
      BY Zenon, <2>2, <3>0, ParentSlot DEF IInv, Children
    <3>2. state[p] \in {"Active", "Resetting", "ErrorQuarantined"}
      BY Zenon, <2>2 DEF IInv, TreeInv
    <3>3. CASE p # a BY Zenon, <3>1, <3>2, <3>3
    <3>4. CASE p = a
      <4>1. state'[a] # "Draining"
        <5>1. SUFFICES ASSUME state'[a] = "Draining" PROVE FALSE BY Zenon
        <5>2. live_children[a] = 0 /\ lock = Nobody BY Zenon, <3>2, <3>4, <5>1
        <5>3. Children(a) \ Uncounted = Children(a) BY Zenon, <5>2, LockFree
        <5>4. Cardinality(Children(a)) = 0 BY <5>2, <5>3 DEF IInv, TreeInv
        <5>5. Children(a) = {} BY Zenon, <5>4, ChildrenFinite, Counted
        <5> QED BY Zenon, <3>1, <3>4, <5>5
      <4>2. state'[a] # "Initializing" BY Zenon, <3>2, <3>4
      <4>3. state'[a] \in States BY Zenon DEF TypeOK
      <4> QED BY Zenon, <3>4, <4>1, <4>2, <4>3 DEF States
    <3> QED BY Zenon, <3>3, <3>4
  <2> QED BY ZenonT(30), <1>5, <2>1, <2>2 DEF IInv, TreeInv
<1>8. LedgerInv'
  <2> SUFFICES ASSUME NEW b \in Arenas
               PROVE  /\ committed'[b] <= limit[b]
                      /\ state'[b] \notin {"Resetting", "Draining"} =>
                           committed'[b] = reserved[b] + live'[b] + InFlight(b)'
                      /\ state'[b] \in {"Resetting", "Draining"} =>
                           reserved[b] + live'[b] <= committed'[b]
                      /\ reserved[b] = IF limit[b] = Unlimited THEN 0
                           ELSE Budget(Children(b) \ Repaid)' + Total(Hung(b))'
    BY Zenon DEF LedgerInv
  <2>1. Budget(Children(b) \ Repaid)' = Budget(Children(b) \ Repaid)
    BY Zenon, <1>4, <1>6 DEF Budget, Total
  <2>2. Total(Hung(b))' = Total(Hung(b)) BY Zenon, <1>4 DEF Total
  <2>3. reserved[b] = IF limit[b] = Unlimited THEN 0
                      ELSE Budget(Children(b) \ Repaid) + Total(Hung(b))
    BY Zenon DEF IInv, LedgerInv
  <2>4. InFlight(b)' = InFlight(b) BY Zenon
  <2>5. CASE b = a BY Zenon, <2>1, <2>2, <2>3, <2>4, <2>5
  <2>6. CASE b # a BY ZenonT(30), <2>1, <2>2, <2>4, <2>6 DEF IInv, LedgerInv
  <2> QED BY Zenon, <2>5, <2>6
<1> QED BY Zenon, <1>1, <1>2, <1>3, <1>7, <1>8 DEF IInv

\* Nobody else is at work on an arena that one thread tears down or has not yet
\* published, nor on one that is quiescent while the lock is free.
LEMMA OthersAway ==
  ASSUME SumLaws, IInv, NEW t \in Threads, NEW a \in Arenas,
         \/ Owning(t) /\ job[t].arena = a
         \/ state[a] = "Active" /\ lock = Nobody /\ Quiesced(a)
  PROVE  \A u \in Threads \ {t} : pc[u] # "idle" => job[u].arena # a
<1> SUFFICES ASSUME NEW u \in Threads \ {t}, pc[u] # "idle", job[u].arena = a
             PROVE  FALSE
  BY Zenon
<1>1. pc[u] \in Charging \cup Delegating \/ Owning(u)
  BY Zenon DEF IInv, TypeOK, Charging, Delegating, Owning, TearingDown
<1>2. Working(u) /\ Working(t) BY Zenon DEF IInv, WorkInv
<1>3. Owning(u) => state[a] # "Active" BY Zenon, <1>2 DEF Working, Owning, TearingDown
<1>4. CASE Owning(t) /\ job[t].arena = a
  <2>1. ~Owning(u) BY Zenon, <1>4 DEF IInv, WorkInv
  <2>2. state[a] # "Active" BY Zenon, <1>2, <1>4 DEF Working, Owning, TearingDown
  <2> QED BY Zenon, <1>1, <1>2, <2>1, <2>2 DEF Working
<1>5. CASE state[a] = "Active" /\ lock = Nobody /\ Quiesced(a)
  <2>1. pc[u] \notin Charging BY Zenon, <1>5 DEF Quiesced, Charging
  <2>2. pc[u] \notin Delegating BY Zenon, <1>5, LockFree DEF Delegating, Locking
  <2> QED BY Zenon, <1>1, <1>3, <1>5, <2>1, <2>2
<1> QED BY Zenon, <1>4, <1>5

\* They go on as before whatever happens to that arena.
LEMMA OthersWork ==
  ASSUME IInv, NEW t \in Threads, NEW a \in Arenas,
         \A u \in Threads \ {t} : pc'[u] = pc[u] /\ job'[u] = job[u],
         \A u \in Threads \ {t} : pc[u] # "idle" => job[u].arena # a,
         \A b \in Arenas \ {a} : state'[b] = state[b] /\ live'[b] = live[b],
         UNCHANGED <<limit, parent_plus1>>
  PROVE  \A u \in Threads \ {t} : Working(u)'
<1> SUFFICES ASSUME NEW u \in Threads \ {t} PROVE Working(u)'
  BY Zenon
<1>1. Working(u) /\ job[u].arena \in Arenas BY Zenon, AtWork
<1>2. pc'[u] = pc[u] /\ job'[u] = job[u] BY Zenon
<1>3. CASE pc[u] = "idle"
  BY Zenon, <1>2, <1>3 DEF Working, Charging, Delegating
<1>4. CASE pc[u] # "idle"
  <2>1. state'[job[u].arena] = state[job[u].arena] /\ live'[job[u].arena] = live[job[u].arena]
    BY Zenon, <1>1, <1>4
  <2> QED BY Zenon, <1>1, <1>2, <2>1 DEF Working
<1> QED BY Zenon, <1>3, <1>4

\* A step of a thread with no charge under way leaves the charges alone.
LEMMA FlightSame ==
  ASSUME NEW t \in Threads,
         \A u \in Threads \ {t} : pc'[u] = pc[u] /\ job'[u] = job[u],
         pc[t] \notin Charging, pc'[t] \notin Charging
  PROVE  \A b : InFlight(b)' = InFlight(b)
<1> SUFFICES ASSUME NEW b PROVE InFlight(b)' = InFlight(b)
  BY Zenon
<1>1. Flight(b)' = Flight(b) BY Zenon DEF Flight, Charging
<1> QED BY Zenon, <1>1 DEF InFlight, Flight, Total

\* An arena that nobody charges or credits has nothing in flight.
LEMMA NoFlight ==
  ASSUME SumLaws, IInv, NEW a, \A u \in Threads : pc[u] \in Charging => job[u].arena # a
  PROVE  InFlight(a) = 0
<1>1. \A u \in Threads : Flight(a)[u] = 0 BY Zenon DEF Flight, Charging
<1>2. Flight(a) \in [Threads -> 0 .. U64Max] /\ InFlight(a) = Total(Flight(a))
  BY Zenon, FlightType DEF IInv
<1> QED BY Zenon, <1>1, <1>2, TotalZero

\* What the ledger says of one arena.
LEMMA LedgerAt ==
  ASSUME SumLaws, IInv, NEW a \in Arenas
  PROVE  /\ committed[a] \in 0 .. U64Max /\ reserved[a] \in 0 .. U64Max
         /\ limit[a] \in 0 .. U64Max /\ U64Max \in Nat /\ live[a] \in Nat
         /\ InFlight(a) \in Nat /\ committed[a] <= limit[a]
         /\ reserved[a] + live[a] <= committed[a]
<1>1. /\ committed[a] \in 0 .. U64Max /\ reserved[a] \in 0 .. U64Max
      /\ limit[a] \in 0 .. U64Max /\ U64Max \in Nat /\ live[a] \in Nat
  BY Zenon, ArenaTableAssumption DEF IInv, TypeOK
<1>2. InFlight(a) \in Nat BY Zenon, FlightType DEF IInv
<1>3. /\ committed[a] <= limit[a]
      /\ \/ committed[a] = reserved[a] + live[a] + InFlight(a)
         \/ reserved[a] + live[a] <= committed[a]
  BY Zenon DEF IInv, LedgerInv
<1> QED BY <1>1, <1>2, <1>3

\* The children that the holder of the lock has in hand, before and after a step.
LEMMA HandsNow ==
  ASSUME LockInv, NEW t \in Threads, \A u \in Threads \ {t} : lock # u
  PROVE  /\ Uncounted = (IF pc[t] \in Leaving THEN {job[t].arena} ELSE {})
         /\ Repaid = (IF pc[t] = "retire" THEN {job[t].arena} ELSE {})
<1>1. \A u \in Threads \ {t} : pc[u] \notin Locking BY Zenon DEF LockInv
<1>2. Uncounted = (IF pc[t] \in Leaving THEN {job[t].arena} ELSE {})
  BY Zenon, <1>1 DEF Uncounted, Locking, Leaving
<1>3. Repaid = (IF pc[t] = "retire" THEN {job[t].arena} ELSE {})
  BY Zenon, <1>1 DEF Repaid, Locking
<1> QED BY Zenon, <1>2, <1>3

\* The same after a step.
LEMMA HandsThen ==
  ASSUME LockInv', NEW t \in Threads, \A u \in Threads \ {t} : lock' # u
  PROVE  /\ Uncounted' = (IF pc'[t] \in Leaving THEN {job'[t].arena} ELSE {})
         /\ Repaid' = (IF pc'[t] = "retire" THEN {job'[t].arena} ELSE {})
<1>1. \A u \in Threads \ {t} : pc'[u] \notin Locking BY Zenon DEF LockInv
<1>2. Uncounted' = (IF pc'[t] \in Leaving THEN {job'[t].arena} ELSE {})
  BY Zenon, <1>1 DEF Uncounted, Locking, Leaving
<1>3. Repaid' = (IF pc'[t] = "retire" THEN {job'[t].arena} ELSE {})
  BY Zenon, <1>1 DEF Repaid, Locking
<1> QED BY Zenon, <1>2, <1>3

\* A child belongs to one parent.
LEMMA OneParent ==
  ASSUME TypeOK, NEW a \in Arenas, NEW q \in Arenas, a \in Children(q)
  PROVE  parent_plus1[a] # 0 /\ q = parent_plus1[a] - 1
<1>1. parent_plus1[a] = q + 1 /\ q \in Nat
  BY ArenaTableAssumption DEF Children, Arenas
<1> QED BY <1>1

\* The budget of a set of children is a sum.
LEMMA BudgetIs ==
  ASSUME SumLaws, TypeOK, NEW cs
  PROVE  Budget(cs) = Total(Quota(cs, limit)) /\ Budget(cs) \in Nat
         /\ \A c \in cs \cap Arenas : limit[c] <= Budget(cs)
<1>1. Budget(cs) = Total(Quota(cs, limit)) BY Zenon DEF Budget, Quota
<1>2. limit \in [Arenas -> 0 .. U64Max] BY Zenon DEF TypeOK
<1> QED BY Zenon, <1>1, <1>2, BudgetType

\* What an arena knows of its parent while it is being destroyed.
LEMMA ParentOf ==
  ASSUME IInv, NEW a \in Arenas, state[a] = "Draining", parent_plus1[a] # 0
  PROVE  LET p == parent_plus1[a] - 1 IN
         /\ p \in Arenas /\ p # a /\ a \in Children(p) /\ HasParent(a)
         /\ state[p] \in {"Active", "Resetting", "ErrorQuarantined"}
<1> DEFINE p == parent_plus1[a] - 1
<1>1. a \in Registered BY Zenon DEF Registered, IsRegistered
<1>2. /\ state[p] \in {"Active", "Resetting", "ErrorQuarantined"}
      /\ generation[p] = parent_generation[a]
  BY Zenon, <1>1 DEF IInv, TreeInv
<1>3. p \in Arenas /\ parent_plus1[a] = p + 1 BY Zenon, ParentSlot DEF IInv
<1>4. a \in Children(p) BY Zenon, <1>1, <1>3 DEF Children
<1> QED BY Zenon, <1>2, <1>3, <1>4 DEF HasParent

\* A subtraction that has enough to take from does not saturate.
LEMMA NoSaturation ==
  ASSUME NEW x \in Nat, NEW y \in Nat, y <= x
  PROVE  SaturatingSub(x, y) = x - y
BY DEF SaturatingSub

\* The child is no longer counted, and its budget is about to go back.
LEMMA LowerType ==
  ASSUME NEW D, NEW k \in Nat, NEW f \in [D -> 0 .. k], NEW d
  PROVE  Lower(f, d, 1) \in [D -> 0 .. k]
<1>1. \A x \in 0 .. k : SaturatingSub(x, 1) \in 0 .. k BY DEF SaturatingSub
<1> QED BY Zenon, <1>1 DEF Lower

\* The budget goes back to the parent, which holds at least as much.
LEMMA LedgerSame ==
  ASSUME LedgerInv, UNCHANGED <<state, limit, committed, reserved, live>>,
         \A b : InFlight(b)' = InFlight(b), \A b : Total(Hung(b))' = Total(Hung(b)),
         \A b : Budget(Children(b) \ Repaid)' = Budget(Children(b) \ Repaid)
  PROVE  LedgerInv'
BY Zenon DEF LedgerInv

\* A slot that nobody works on any longer, and that has no children, becomes
\* Destroyed; its parent has stopped counting it, or it never had one.
LEMMA VanishStep ==
  ASSUME SumLaws, IInv, TypeOK', LockInv', NEW t \in Threads, NEW a \in Arenas,
         Owning(t), job[t].arena = a, pc'[t] = "idle",
         state[a] \in {"Draining", "Initializing"}, live[a] = 0,
         \/ pc[t] = "retire" /\ lock = t
         \/ parent_plus1[a] = 0 /\ lock = Nobody,
         lock' = Nobody,
         \A u \in Threads \ {t} : pc'[u] = pc[u] /\ job'[u] = job[u],
         state' = [state EXCEPT ![a] = "Destroyed"],
         generation' = [generation EXCEPT ![a] = @ + 1],
         stale' = stale \cup {<<a, generation[a]>>},
         committed' = [committed EXCEPT ![a] = 0],
         reserved' = [reserved EXCEPT ![a] = 0],
         UNCHANGED <<limit, parent_plus1, parent_generation, high_water>>,
         UNCHANGED <<live_children, live>>
  PROVE  IInv'
<1>0. /\ a # Default /\ state'[a] = "Destroyed"
      /\ \A b \in Arenas \ {a} : state'[b] = state[b] /\ generation'[b] = generation[b]
      /\ generation[a] \in Nat /\ generation'[a] = generation[a] + 1
      /\ committed'[a] = 0 /\ reserved'[a] = 0
      /\ \A b \in Arenas \ {a} : committed'[b] = committed[b] /\ reserved'[b] = reserved[b]
  BY DEF IInv, TypeOK, SlotInv
<1>1. Uncounted' = {} /\ Repaid' = {} /\ \A q : Total(Hung(q))' = 0
  <2>1. \A u \in Threads : pc'[u] \notin Locking BY Zenon, ArenaTableAssumption DEF LockInv
  <2>2. Uncounted' = {} BY Zenon, <2>1 DEF Uncounted, Locking, Leaving
  <2>3. Repaid' = {} BY Zenon, <2>1 DEF Repaid, Locking
  <2>4. ASSUME NEW q PROVE Total(Hung(q))' = 0
    <3>0. U64Max \in Nat BY Zenon, ArenaTableAssumption
    <3>1. \A u \in Threads : Hung(q)'[u] = 0 BY Zenon, <2>1 DEF Hung, Locking
    <3>2. Hung(q)' \in [Threads -> 0 .. U64Max] BY <2>1, <3>0 DEF Hung, Locking
    <3>3. Total(Hung(q)') = 0 BY Zenon, <3>1, <3>2, TotalZero
    <3> QED BY Zenon, <3>3 DEF Total
  <2> QED BY Zenon, <2>2, <2>3, <2>4
<1>2. \A u \in Threads \ {t} : pc[u] # "idle" => job[u].arena # a BY Zenon, OthersAway
<1>3. Registered' = Registered \ {a} BY ZenonT(30), <1>0 DEF Registered, IsRegistered
<1>4. \A q : Children(q)' = Children(q) \ {a} BY Zenon, <1>3 DEF Children
<1>5. ASSUME NEW q \in Arenas
      PROVE  /\ (Children(q) \ Uncounted)' = Children(q) \ Uncounted
             /\ (Children(q) \ Repaid)' = Children(q) \ Repaid
  <2>1. CASE pc[t] = "retire" /\ lock = t
    <3>1. \A u \in Threads \ {t} : lock # u BY Zenon, <2>1
    <3>2. Uncounted = {a} /\ Repaid = {a} BY Zenon, <2>1, <3>1, HandsNow DEF IInv, Leaving
    <3> QED BY Zenon, <1>1, <1>4, <3>2
  <2>2. CASE parent_plus1[a] = 0 /\ lock = Nobody
    <3>1. Uncounted = {} /\ Repaid = {} BY Zenon, <2>2, LockFree
    <3>2. a \notin Children(q) BY Zenon, <2>2, OneParent DEF IInv
    <3> QED BY Zenon, <1>1, <1>4, <3>1, <3>2
  <2> QED BY Zenon, <2>1, <2>2
<1>6. \A c \in Registered : parent_plus1[c] # 0 => parent_plus1[c] - 1 # a
  BY Zenon DEF IInv, TreeInv
<1>7. Children(a) = {}
  <2> SUFFICES ASSUME NEW c \in Children(a) PROVE FALSE
    BY Zenon
  <2>1. c \in Registered /\ c \in Arenas BY Zenon DEF Children, Registered
  <2>2. parent_plus1[c] # 0 /\ a = parent_plus1[c] - 1 BY Zenon, <2>1, OneParent DEF IInv
  <2> QED BY Zenon, <1>6, <2>1, <2>2
<1>8. SlotInv'
  <2>1. state'[Default] = "Active" 
    <3>1. Default \in Arenas BY Zenon, JobType
    <3> QED BY Zenon, <1>0, <3>1 DEF IInv, SlotInv
  <2>2. ASSUME NEW b \in Arenas
        PROVE  /\ b >= high_water => state'[b] = "Destroyed"
               /\ state'[b] \in {"Destroyed", "Initializing"} =>
                    committed'[b] = 0 /\ reserved'[b] = 0
               /\ state'[b] \in {"Destroyed", "Initializing", "ErrorQuarantined"} =>
                    live[b] = 0
               /\ state'[b] # "Destroyed" => generation'[b] > 0
               /\ state'[b] = "Initializing" => parent_plus1[b] = 0
    <3>1. CASE b = a BY ZenonT(30), <1>0, <3>1
    <3>2. CASE b # a
      <4>1. /\ state'[b] = state[b] /\ generation'[b] = generation[b]
            /\ committed'[b] = committed[b] /\ reserved'[b] = reserved[b]
        BY Zenon, <1>0, <3>2
      <4> QED BY ZenonT(30), <4>1 DEF IInv, SlotInv
    <3> QED BY Zenon, <3>1, <3>2
  <2>3. ASSUME NEW x \in stale' PROVE x[2] < generation'[x[1]]
    <3>1. CASE x \in stale
      <4>1. x[1] \in Arenas /\ x[2] \in Nat /\ x[2] < generation[x[1]]
        BY ZenonT(30), <3>1 DEF IInv, TypeOK, SlotInv
      <4>2. generation[x[1]] \in Nat BY Zenon, <4>1 DEF IInv, TypeOK
      <4>3. generation'[x[1]] \in {generation[x[1]], generation[x[1]] + 1}
        BY ZenonT(30), <1>0, <4>1
      <4> QED BY <4>1, <4>2, <4>3
    <3>2. CASE x = <<a, generation[a]>> BY <1>0, <3>2
    <3> QED BY Zenon, <3>1, <3>2
  <2> QED BY Zenon, <2>1, <2>2, <2>3 DEF SlotInv
<1>9. WorkInv'
  <2>1. Working(t)' BY Zenon DEF Working, Charging, Delegating
  <2>2. \A u \in Threads \ {t} : Working(u)' BY <1>0, <1>2, OthersWork
  <2>3. \A u \in Threads : Owning(u)' => u # t /\ Owning(u)
    BY Zenon DEF Owning, TearingDown
  <2> QED BY Zenon, <2>1, <2>2, <2>3 DEF IInv, WorkInv
<1>10. TreeInv'
  <2>1. ASSUME NEW c \in Registered', parent_plus1[c] # 0
        PROVE  /\ state'[parent_plus1[c] - 1] \in {"Active", "Resetting", "ErrorQuarantined"}
               /\ generation'[parent_plus1[c] - 1] = parent_generation[c]
    <3>1. c \in Registered /\ c \in Arenas BY Zenon, <1>3, <2>1 DEF Registered
    <3>2. parent_plus1[c] - 1 \in Arenas BY Zenon, <2>1, <3>1, ParentSlot DEF IInv
    <3>3. parent_plus1[c] - 1 # a BY Zenon, <1>6, <2>1, <3>1
    <3> QED BY <1>0, <2>1, <3>1, <3>2, <3>3 DEF IInv, TreeInv
  <2>2. ASSUME NEW q \in Arenas
        PROVE  /\ live_children[q] = Cardinality(Children(q) \ Uncounted)'
               /\ state'[q] = "Draining" => live_children[q] = 0
    <3>1. Cardinality(Children(q) \ Uncounted)' = Cardinality(Children(q) \ Uncounted)
      BY Zenon, <1>5
    <3>2. state'[q] = "Draining" => state[q] = "Draining" BY Zenon, <1>0
    <3> QED BY Zenon, <3>1, <3>2 DEF IInv, TreeInv
  <2> QED BY ZenonT(30), <2>1, <2>2 DEF TreeInv
<1>11. LedgerInv'
  <2>1. \A b : InFlight(b)' = InFlight(b)
    BY Zenon, FlightSame DEF Charging, Owning, TearingDown
  <2>2. InFlight(a) = 0
    <3>1. \A u \in Threads : pc[u] \in Charging => job[u].arena # a
      BY Zenon, <1>2 DEF Charging, Owning, TearingDown
    <3> QED BY Zenon, <3>1, NoFlight
  <2>3. ASSUME NEW b \in Arenas \ {a}
        PROVE  /\ committed'[b] <= limit'[b]
               /\ state'[b] \notin {"Resetting", "Draining"} =>
                    committed'[b] = reserved'[b] + live'[b] + InFlight(b)'
               /\ state'[b] \in {"Resetting", "Draining"} =>
                    reserved'[b] + live'[b] <= committed'[b]
               /\ reserved'[b] = IF limit'[b] = Unlimited THEN 0
                                 ELSE Budget(Children(b) \ Repaid)' + Total(Hung(b))'
    <3>1. Budget(Children(b) \ Repaid)' = Budget(Children(b) \ Repaid)
      BY Zenon, <1>5 DEF Budget, Total
    <3>2. Total(Hung(b)) = 0
      <4>1. CASE lock = Nobody BY Zenon, <4>1, LockFree
      <4>2. CASE pc[t] = "retire" /\ lock = t
        <5>1. \A u \in Threads : pc[u] \notin {"create", "unreserve"}
          BY Zenon, <4>2 DEF IInv, LockInv, Locking
        <5>2. Hung(b) \in [Threads -> 0 .. U64Max] BY Zenon, HungType DEF IInv
        <5>3. \A u \in Threads : Hung(b)[u] = 0 BY Zenon, <5>1 DEF Hung
        <5> QED BY ZenonT(30), <5>2, <5>3, TotalZero
      <4> QED BY Zenon, <4>1, <4>2
    <3>3. Total(Hung(b))' = Total(Hung(b)) BY Zenon, <1>1, <3>2
    <3> QED BY <1>0, <2>1, <2>3, <3>1, <3>3 DEF IInv, LedgerInv
  <2>4. /\ committed'[a] <= limit'[a]
        /\ committed'[a] = reserved'[a] + live'[a] + InFlight(a)'
    <3>1. limit[a] \in Nat BY LedgerAt
    <3> QED BY SMTT(20), <1>0, <2>1, <2>2, <3>1
  <2>5. Budget(Children(a) \ Repaid)' = 0 /\ Total(Hung(a))' = 0
    <3>0. U64Max \in Nat BY Zenon, ArenaTableAssumption
    <3>1. (Children(a) \ Repaid)' = {} BY Zenon, <1>4, <1>7
    <3>2. Quota({}, limit') \in [Arenas -> 0 .. U64Max] BY <3>0 DEF Quota
    <3>3. \A c \in Arenas : Quota({}, limit')[c] = 0 BY Zenon DEF Quota
    <3>4. Total(Quota({}, limit')) = 0 BY Zenon, <3>2, <3>3, TotalZero
    <3>5. Budget(Children(a) \ Repaid)' = Total(Quota({}, limit'))
      BY Zenon, <3>1 DEF Budget, Quota, Total
    <3> QED BY Zenon, <1>1, <3>4, <3>5
  <2>6. /\ state'[a] \notin {"Resetting", "Draining"} /\ reserved'[a] = 0 BY Zenon, <1>0
  <2>7. reserved'[a] = IF limit'[a] = Unlimited THEN 0
                       ELSE Budget(Children(a) \ Repaid)' + Total(Hung(a))'
    BY <2>5, <2>6
  <2> QED BY Zenon, <2>3, <2>4, <2>6, <2>7 DEF LedgerInv
<1> QED BY Zenon, <1>8, <1>9, <1>10, <1>11 DEF IInv

\* A slot that can be claimed is nobody's.
LEMMA Unclaimed ==
  ASSUME SumLaws, IInv, NEW id \in Arenas, id \in Claimable
  PROVE  /\ state[id] = "Destroyed" /\ id # Default /\ live[id] = 0
         /\ Children(id) = {} /\ id \notin Registered
         /\ \A u \in Threads : pc[u] # "idle" => job[u].arena # id
         /\ InFlight(id) = 0
         /\ id = high_water \/ high_water >= MaxArenas
         /\ id = high_water => id < MaxArenas
<1>0. /\ MaxArenas \in Nat /\ high_water \in 1 .. MaxArenas /\ id \in Nat
      /\ state[Default] = "Active"
  BY ArenaTableAssumption DEF IInv, TypeOK, SlotInv, Arenas
<1>1. /\ state[id] = "Destroyed" /\ id # Default
      /\ id = high_water \/ high_water >= MaxArenas
      /\ id = high_water => id < MaxArenas
  <2>1. CASE high_water < MaxArenas
    <3>1. id = high_water BY Zenon, <2>1 DEF Claimable
    <3>2. state[id] = "Destroyed" BY <1>0, <3>1 DEF IInv, SlotInv
    <3> QED BY Zenon, <1>0, <2>1, <3>1, <3>2
  <2>2. CASE ~(high_water < MaxArenas)
    BY <1>0, <2>2 DEF Claimable, Arenas
  <2> QED BY Zenon, <2>1, <2>2
<1>2. live[id] = 0 BY Zenon, <1>1 DEF IInv, SlotInv
<1>3. id \notin Registered BY Zenon, <1>1 DEF Registered, IsRegistered
<1>4. Children(id) = {}
  <2> SUFFICES ASSUME NEW c \in Children(id) PROVE FALSE
    BY Zenon
  <2>1. c \in Registered /\ c \in Arenas BY Zenon DEF Children, Registered
  <2>2. parent_plus1[c] # 0 /\ id = parent_plus1[c] - 1 BY Zenon, <2>1, OneParent DEF IInv
  <2> QED BY Zenon, <1>1, <2>1, <2>2 DEF IInv, TreeInv
<1>5. ASSUME NEW u \in Threads, pc[u] # "idle" PROVE job[u].arena # id
  <2>1. Working(u) BY Zenon DEF IInv, WorkInv
  <2>2. state[job[u].arena] # "Destroyed"
    BY Zenon, <1>5, <2>1 DEF Working, Charging, Delegating, IInv, TypeOK
  <2> QED BY Zenon, <1>1, <2>2
<1>6. InFlight(id) = 0
  <2>1. \A u \in Threads : pc[u] \in Charging => job[u].arena # id
    BY Zenon, <1>5 DEF Charging
  <2> QED BY Zenon, <2>1, NoFlight
<1> QED BY Zenon, <1>1, <1>2, <1>3, <1>4, <1>5, <1>6


\* A new slot, with or without a parent: the budget that hung over the parent now
\* belongs to the child.
LEMMA CreateStep ==
  ASSUME SumLaws, IInv, NEW t \in Threads, NEW id \in Arenas,
         NEW q \in 0 .. U64Max, NEW pp \in 0 .. MaxArenas, NEW pg \in Nat,
         NEW st \in {"Active", "Initializing"}, Making(t, id, q, pp, pg, st)
  PROVE  IInv'
<1>a. id \in Claimable /\ Made(id, q, pp, pg, st) BY Zenon DEF Making
<1>b. /\ st = "Initializing" => pp = 0
      /\ pp # 0 => state[pp - 1] = "Active" /\ generation[pp - 1] = pg
      /\ live_children' = IF pp = 0 THEN live_children
                          ELSE [live_children EXCEPT ![pp - 1] = @ + 1]
  BY Zenon DEF Making
<1>c. /\ live' = live /\ stale' = stale /\ lock' = Nobody /\ LockInv'
      /\ Uncounted = {} /\ Repaid = {}
  BY Zenon DEF Making
<1>d. /\ \A u \in Threads \ {t} : pc[u] \notin Locking
      /\ \A u \in Threads \ {t} : pc'[u] = pc[u] /\ job'[u] = job[u]
  BY Zenon DEF Making
<1>e. Working(t)' /\ (Owning(t)' => job'[t].arena = id) BY Zenon DEF Making
<1>0. /\ U64Max \in Nat /\ MaxArenas \in Nat /\ Nobody \notin Threads
      /\ Arenas = 0 .. MaxArenas - 1
  BY Zenon, ArenaTableAssumption DEF Arenas
<1>1. /\ state[id] = "Destroyed" /\ id # Default /\ live[id] = 0
      /\ Children(id) = {} /\ id \notin Registered
      /\ \A u \in Threads : pc[u] # "idle" => job[u].arena # id
      /\ InFlight(id) = 0
  BY Zenon, <1>a, Unclaimed
<1>2. /\ state'[id] = st /\ committed'[id] = 0 /\ reserved'[id] = 0 /\ limit'[id] = q
      /\ parent_plus1'[id] = pp /\ parent_generation'[id] = pg
      /\ generation[id] \in Nat /\ generation'[id] = generation[id] + 1
      /\ Registered' = Registered \cup {id}
  BY Zenon, <1>a DEF Made
<1>3. \A b \in Arenas \ {id} :
              /\ state'[b] = state[b] /\ committed'[b] = committed[b]
              /\ reserved'[b] = reserved[b] /\ limit'[b] = limit[b]
              /\ parent_plus1'[b] = parent_plus1[b] /\ generation'[b] = generation[b]
              /\ parent_generation'[b] = parent_generation[b]
  BY Zenon, <1>a DEF Made
<1>4. Uncounted' = {} /\ Repaid' = {} /\ \A b : Total(Hung(b))' = 0
  <2>1. \A u \in Threads : pc'[u] \notin Locking BY Zenon, <1>0, <1>c DEF LockInv
  <2>2. Uncounted' = {} BY Zenon, <2>1 DEF Uncounted, Locking, Leaving
  <2>3. Repaid' = {} BY Zenon, <2>1 DEF Repaid, Locking
  <2>4. ASSUME NEW b PROVE Total(Hung(b))' = 0
    <3>1. \A u \in Threads : Hung(b)'[u] = 0 BY Zenon, <2>1 DEF Hung, Locking
    <3>2. Hung(b)' \in [Threads -> 0 .. U64Max] BY <1>0, <2>1 DEF Hung, Locking
    <3>3. Total(Hung(b)') = 0 BY Zenon, <3>1, <3>2, TotalZero
    <3> QED BY Zenon, <3>3 DEF Total
  <2> QED BY Zenon, <2>2, <2>3, <2>4
<1>5. \A b \in Arenas :
        Children(b)' = Children(b) \cup (IF pp = b + 1 THEN {id} ELSE {})
  <2>1. Registered \subseteq Arenas BY Zenon DEF Registered
  <2> QED BY ZenonT(30), <1>1, <1>2, <1>3, <2>1 DEF Children
<1>6. pp # 0 => pp - 1 \in Arenas /\ pp - 1 # id
  BY <1>0, <1>1, <1>b
<1>7. SlotInv'
  <2>1. state'[Default] = "Active"
    BY Zenon, <1>1, <1>3, JobType DEF IInv, SlotInv
  <2>2. ASSUME NEW b \in Arenas
        PROVE  /\ b >= high_water' => state'[b] = "Destroyed"
               /\ state'[b] \in {"Destroyed", "Initializing"} =>
                    committed'[b] = 0 /\ reserved'[b] = 0
               /\ state'[b] \in {"Destroyed", "Initializing", "ErrorQuarantined"} =>
                    live'[b] = 0
               /\ state'[b] # "Destroyed" => generation'[b] > 0
               /\ state'[b] = "Initializing" => parent_plus1'[b] = 0
    <3>1. b >= high_water' => b # id /\ state[b] = "Destroyed" BY Zenon, <1>a DEF Made
    <3>2. CASE b = id BY <1>1, <1>2, <1>b, <1>c, <3>1, <3>2
    <3>3. CASE b # id BY Zenon, <1>3, <1>c, <3>1, <3>3 DEF IInv, SlotInv
    <3> QED BY Zenon, <3>2, <3>3
  <2>3. ASSUME NEW x \in stale' PROVE x[2] < generation'[x[1]]
    <3>1. x[1] \in Arenas /\ x[2] \in Nat /\ x[2] < generation[x[1]]
      BY Zenon, <1>c DEF IInv, TypeOK, SlotInv
    <3>2. generation[x[1]] \in Nat BY Zenon, <3>1 DEF IInv, TypeOK
    <3>3. generation'[x[1]] \in {generation[x[1]], generation[x[1]] + 1}
      BY Zenon, <1>2, <1>3, <3>1
    <3> QED BY <3>1, <3>2, <3>3
  <2> QED BY Zenon, <2>1, <2>2, <2>3 DEF SlotInv
<1>8. WorkInv'
  <2>1. ASSUME NEW u \in Threads \ {t} PROVE Working(u)'
    <3>1. Working(u) /\ job[u].arena \in Arenas BY Zenon, AtWork
    <3>2. pc'[u] = pc[u] /\ job'[u] = job[u] /\ pc[u] \notin Locking BY Zenon, <1>d
    <3>3. CASE pc[u] = "idle" BY Zenon, <3>2, <3>3 DEF Working, Charging, Delegating
    <3>4. CASE pc[u] # "idle"
      <4>1. job[u].arena # id BY Zenon, <1>1, <3>4
      <4>2. /\ state'[job[u].arena] = state[job[u].arena]
            /\ limit'[job[u].arena] = limit[job[u].arena]
        BY Zenon, <1>3, <3>1, <4>1
      <4> QED BY Zenon, <1>c, <3>1, <3>2, <4>2 DEF Working, Locking
    <3> QED BY Zenon, <3>3, <3>4
  <2>2. \A u \in Threads \ {t} : Owning(u)' => Owning(u) /\ job'[u].arena # id
    BY Zenon, <1>1, <1>d DEF Owning, TearingDown
  <2>3. \A u, v \in Threads :
          Owning(u)' /\ Owning(v)' /\ job'[u].arena = job'[v].arena => u = v
    BY Zenon, <1>d, <1>e, <2>2 DEF IInv, WorkInv
  <2> QED BY Zenon, <1>e, <2>1, <2>3 DEF WorkInv
<1>9. TreeInv' /\ live_children' \in [Arenas -> 0 .. MaxArenas]
  <2>1. ASSUME NEW c \in Registered', parent_plus1'[c] # 0
        PROVE  /\ state'[parent_plus1'[c] - 1] \in {"Active", "Resetting", "ErrorQuarantined"}
               /\ generation'[parent_plus1'[c] - 1] = parent_generation'[c]
    <3>1. CASE c = id BY Zenon, <1>2, <1>3, <1>6, <1>b, <2>1, <3>1
    <3>2. CASE c # id
      <4>1. c \in Registered /\ c \in Arenas BY Zenon, <1>2, <2>1, <3>2 DEF Registered
      <4>2. parent_plus1'[c] = parent_plus1[c] /\ parent_generation'[c] = parent_generation[c]
        BY Zenon, <1>3, <3>2, <4>1
      <4>3. parent_plus1[c] - 1 \in Arenas BY Zenon, <2>1, <4>1, <4>2, ParentSlot DEF IInv
      <4>4. /\ state[parent_plus1[c] - 1] \in {"Active", "Resetting", "ErrorQuarantined"}
            /\ generation[parent_plus1[c] - 1] = parent_generation[c]
        BY Zenon, <2>1, <4>1, <4>2 DEF IInv, TreeInv
      <4>5. parent_plus1[c] - 1 # id BY Zenon, <1>1, <4>4
      <4> QED BY Zenon, <1>3, <4>2, <4>3, <4>4, <4>5
    <3> QED BY Zenon, <3>1, <3>2
  <2>2. ASSUME NEW b \in Arenas
        PROVE  live_children'[b] = Cardinality(Children(b)')
    <3>1. live_children[b] = Cardinality(Children(b))
      <4>1. Children(b) \ Uncounted = Children(b) BY Zenon, <1>c
      <4> QED BY Zenon, <4>1 DEF IInv, TreeInv
    <3>2. CASE pp = b + 1
      <4>1. live_children'[b] = live_children[b] + 1
        <5>1. pp # 0 /\ pp - 1 = b BY <1>0, <3>2
        <5> QED BY Zenon, <1>b, <5>1 DEF IInv, TypeOK
      <4>2. Children(b)' = Children(b) \cup {id} BY Zenon, <1>5, <3>2
      <4>3. id \notin Children(b) BY Zenon, <1>1 DEF Children
      <4>4. Cardinality(Children(b) \cup {id}) = Cardinality(Children(b)) + 1
        BY Zenon, <4>3, ChildrenFinite, Counted
      <4> QED BY Zenon, <3>1, <4>1, <4>2, <4>4
    <3>3. CASE pp # b + 1
      <4>1. live_children'[b] = live_children[b]
        <5>1. pp \in Int /\ b \in Int BY <1>0
        <5>2. pp # 0 => pp - 1 # b BY <3>3, <5>1
        <5> QED BY Zenon, <1>b, <5>2 DEF IInv, TypeOK
      <4>2. Children(b)' = Children(b) BY Zenon, <1>5, <3>3
      <4> QED BY Zenon, <3>1, <4>1, <4>2
    <3> QED BY Zenon, <3>2, <3>3
  <2>3. ASSUME NEW b \in Arenas
        PROVE  live_children'[b] = Cardinality(Children(b) \ Uncounted)'
    BY Zenon, <1>4, <2>2
  <2>4. ASSUME NEW b \in Arenas, state'[b] = "Draining" PROVE live_children'[b] = 0
    <3>1. b # id /\ state[b] = "Draining" BY Zenon, <1>2, <1>3, <2>4
    <3>2. live_children[b] = 0 BY Zenon, <3>1 DEF IInv, TreeInv
    <3>3. pp # 0 => pp - 1 # b BY Zenon, <1>b, <3>1
    <3> QED BY Zenon, <1>b, <3>2, <3>3 DEF IInv, TypeOK
  <2>5. TreeInv' BY Zenon, <2>1, <2>3, <2>4 DEF TreeInv
  <2>6. ASSUME NEW b \in Arenas PROVE live_children'[b] \in 0 .. MaxArenas
    <3>1. Children(b)' \subseteq Arenas BY Zenon, <1>2 DEF Children, Registered
    <3> QED BY <2>2, <3>1, Counted
  <2>7. DOMAIN live_children' = Arenas
        /\ live_children' = [b \in Arenas |-> live_children'[b]]
    BY Zenon, <1>b DEF IInv, TypeOK
  <2> QED BY Zenon, <2>5, <2>6, <2>7
<1>10. TypeOK'
  <2>1. /\ state' \in [Arenas -> States] /\ rights' \in [Arenas -> SUBSET Rights]
        /\ generation' \in [Arenas -> Nat] /\ parent_generation' \in [Arenas -> Nat]
        /\ committed' \in [Arenas -> 0 .. U64Max] /\ reserved' \in [Arenas -> 0 .. U64Max]
        /\ limit' \in [Arenas -> 0 .. U64Max] /\ parent_plus1' \in [Arenas -> 0 .. MaxArenas]
        /\ high_water' \in 1 .. MaxArenas
    BY Zenon, <1>a DEF Made
  <2>2. live' \in [Arenas -> Nat] /\ stale' \subseteq Arenas \X Nat BY Zenon, <1>c DEF IInv, TypeOK
  <2>3. /\ pc' \in [Threads -> {"idle", "charge", "charged", "credit", "reserve",
                           "create", "unreserve", "pending", "reset", "destroy",
                           "resetDrained", "destroyDrained", "failed", "return",
                           "retire"}]
        /\ job' \in [Threads -> Job] /\ lock' = Nobody
    BY Zenon DEF Making
  <2> QED BY Zenon, <1>9, <2>1, <2>2, <2>3 DEF TypeOK, Job
<1>11. q \in Nat /\ 0 <= q
  <2>1. U64Max \in Nat BY Zenon, <1>0
  <2>2. \A x \in 0 .. U64Max : x \in Nat /\ 0 <= x BY <2>1
  <2> QED BY Zenon, <2>2, Zenon
<1>12. LedgerInv'
  <2>1. \A b : InFlight(b)' = InFlight(b)
    <3>1. pc[t] \notin Charging /\ pc'[t] \notin Charging BY Zenon DEF Making
    <3> QED BY Zenon, <1>d, <3>1, FlightSame
  <2>2. limit \in [Arenas -> 0 .. U64Max] /\ limit' \in [Arenas -> 0 .. U64Max]
    BY Zenon, <1>10 DEF IInv, TypeOK
  <2>3. ASSUME NEW b \in Arenas
        PROVE  /\ pp = b + 1 => Budget(Children(b) \ Repaid)' = Budget(Children(b)) + q
               /\ pp # b + 1 => Budget(Children(b) \ Repaid)' = Budget(Children(b))
    <3>1. Children(b) \subseteq Arenas \ {id} BY Zenon, <1>1 DEF Children, Registered
    <3>2. \A c \in Children(b) : limit[c] = limit'[c] BY Zenon, <1>3, <3>1
    <3>3. (Children(b) \ Repaid)' = Children(b)' BY Zenon, <1>4
    <3>4. CASE pp = b + 1
      <4>1. Children(b)' = Children(b) \cup {id} BY Zenon, <1>5, <3>4
      <4>2. Total(Quota(Children(b) \cup {id}, limit'))
              = Total(Quota(Children(b), limit)) + limit'[id]
        BY <2>2, <3>1, <3>2, BudgetGrows
      <4>3. Budget(Children(b) \ Repaid)' = Total(Quota(Children(b) \cup {id}, limit'))
        BY Zenon, <3>3, <4>1 DEF Budget, Quota, Total
      <4>4. Budget(Children(b)) = Total(Quota(Children(b), limit)) BY Zenon DEF Budget, Quota
      <4> QED BY Zenon, <1>2, <3>4, <4>2, <4>3, <4>4
    <3>5. CASE pp # b + 1
      <4>1. Children(b)' = Children(b) BY Zenon, <1>5, <3>5
      <4>2. Quota(Children(b), limit') = Quota(Children(b), limit) BY Zenon, <3>2 DEF Quota
      <4>3. Budget(Children(b) \ Repaid)' = Total(Quota(Children(b), limit'))
        BY Zenon, <3>3, <4>1 DEF Budget, Quota, Total
      <4>4. Budget(Children(b)) = Total(Quota(Children(b), limit)) BY Zenon DEF Budget, Quota
      <4> QED BY Zenon, <3>5, <4>2, <4>3, <4>4
    <3> QED BY Zenon, <3>4, <3>5
  <2>4. ASSUME NEW b \in Arenas \ {id}
        PROVE  reserved'[b] = IF limit'[b] = Unlimited THEN 0
                              ELSE Budget(Children(b) \ Repaid)' + Total(Hung(b))'
    <3>1. reserved'[b] = reserved[b] /\ limit'[b] = limit[b] BY Zenon, <1>3
    <3>2. CASE limit[b] = Unlimited BY Zenon, <3>1, <3>2 DEF IInv, LedgerInv
    <3>3. CASE limit[b] # Unlimited
      <4>1. Children(b) \ Repaid = Children(b) BY Zenon, <1>c
      <4>2. reserved[b] = Budget(Children(b)) + Total(Hung(b))
        BY Zenon, <3>3, <4>1 DEF IInv, LedgerInv
      <4>3. Total(Hung(b)) = IF pp = b + 1 THEN q ELSE 0 BY Zenon, <3>3 DEF Making
      <4>4. Budget(Children(b)) \in Nat BY Zenon, BudgetIs DEF IInv
      <4>5. Total(Hung(b))' = 0 BY Zenon, <1>4
      <4>6. CASE pp = b + 1
        <5>1. Total(Hung(b)) = q /\ Budget(Children(b) \ Repaid)' = Budget(Children(b)) + q
          BY Zenon, <2>3, <4>3, <4>6
        <5> QED BY <1>11, <3>1, <3>3, <4>2, <4>4, <4>5, <5>1
      <4>7. CASE pp # b + 1
        <5>1. Total(Hung(b)) = 0 /\ Budget(Children(b) \ Repaid)' = Budget(Children(b))
          BY Zenon, <2>3, <4>3, <4>7
        <5> QED BY Zenon, <3>1, <3>3, <4>2, <4>4, <4>5, <5>1
      <4> QED BY Zenon, <4>6, <4>7
    <3> QED BY Zenon, <3>2, <3>3
  <2>5. ASSUME NEW b \in Arenas \ {id}
        PROVE  /\ committed'[b] <= limit'[b]
               /\ state'[b] \notin {"Resetting", "Draining"} =>
                    committed'[b] = reserved'[b] + live'[b] + InFlight(b)'
               /\ state'[b] \in {"Resetting", "Draining"} =>
                    reserved'[b] + live'[b] <= committed'[b]
    BY ZenonT(30), <1>3, <1>c, <2>1, <2>5 DEF IInv, LedgerInv
  <2>6. /\ committed'[id] <= limit'[id] /\ state'[id] \notin {"Resetting", "Draining"}
        /\ committed'[id] = reserved'[id] + live'[id] + InFlight(id)'
    <3>1. committed'[id] <= limit'[id] BY Zenon, <1>2, <1>11
    <3>2. live'[id] = 0 /\ InFlight(id)' = 0 BY Zenon, <1>1, <1>c, <2>1
    <3> QED BY <1>2, <3>1, <3>2
  <2>7. reserved'[id] = IF limit'[id] = Unlimited THEN 0
                        ELSE Budget(Children(id) \ Repaid)' + Total(Hung(id))'
    <3>1. pp # id + 1
      <4>1. id \in Nat BY <1>0
      <4> QED BY <1>6, <4>1
    <3>2. Budget(Children(id) \ Repaid)' = Budget({}) BY Zenon, <1>1, <2>3, <3>1
    <3>3. Budget({}) = 0
      <4>1. Quota({}, limit) \in [Arenas -> 0 .. U64Max] BY <1>0 DEF Quota
      <4>2. \A c \in Arenas : Quota({}, limit)[c] = 0 BY Zenon DEF Quota
      <4>3. Total(Quota({}, limit)) = 0 BY Zenon, <4>1, <4>2, TotalZero
      <4> QED BY Zenon, <4>3 DEF Budget, Quota
    <3>4. Total(Hung(id))' = 0 BY Zenon, <1>4
    <3>5. Budget(Children(id) \ Repaid)' + Total(Hung(id))' = 0 BY <3>2, <3>3, <3>4
    <3> QED BY Zenon, <1>2, <3>5
  <2> QED BY Zenon, <2>4, <2>5, <2>6, <2>7 DEF LedgerInv
<1> QED BY Zenon, <1>c, <1>7, <1>8, <1>9, <1>10, <1>12 DEF IInv

=============================================================================
