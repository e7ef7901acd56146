-------------------------- MODULE ArenaTableSteps ---------------------------
(***************************************************************************)
(* Every action of ArenaTable preserves the inductive invariant IInv of    *)
(* ArenaInvariant.  SumLaws, what the lemmas take as known about sums over *)
(* the arenas, is shown in ArenaTableProofs.                               *)
(***************************************************************************)
EXTENDS ArenaTable, ArenaInvariant

\* try_charge: an arena in use is found and its limit read.
LEMMA TryChargeStep ==
  ASSUME SumLaws, IInv, NEW t \in Threads, NEW a \in Arenas, NEW n \in Sizes, TryCharge(t, a, n)
  PROVE  IInv'
<1>1. /\ pc[t] = "idle" /\ pc'[t] = "charge" /\ state[a] = "Active"
      /\ job'[t] = [arena |-> a, size |-> n, cur |-> committed[a], lim |-> limit[a],
                    rights |-> {}]
      /\ \A u \in Threads \ {t} : pc'[u] = pc[u] /\ job'[u] = job[u]
      /\ UNCHANGED <<slots, quota, live_children, lock, live, stale>>
  BY Zenon DEF TryCharge, Work, Goto, IsActive, IInv, TypeOK
<1>2. TypeOK'
  <2>1. n \in 0 .. U64Max BY ArenaTableAssumption
  <2>2. job'[t] \in Job
    BY <1>1, <2>1 DEF Job, IInv, TypeOK
  <2> QED BY Zenon, <1>1, <2>2 DEF TryCharge, Work, Goto, Job, IInv, TypeOK, slots, quota
<1>3. committed[a] <= limit[a] BY Zenon DEF IInv, LedgerInv
<1>4. Charge(t) = 0 /\ Charge(t)' = 0 BY Zenon, <1>1 DEF Charge
<1> QED BY <1>1, <1>2, <1>3, <1>4, AccountStep DEF Charging, quota

\* The exchange on committed.
LEMMA ChargeExchangeStep ==
  ASSUME SumLaws, IInv, NEW t \in Threads, ChargeExchange(t)
  PROVE  IInv'
<1> DEFINE a == job[t].arena
<1>0. /\ a \in Arenas /\ job[t].size \in 0 .. U64Max /\ job[t].lim \in 0 .. U64Max
      /\ U64Max \in Nat /\ committed[a] \in 0 .. U64Max /\ live[a] \in Nat /\ Working(t)
  BY Zenon, AtWork
<1>1. /\ pc[t] = "charge" /\ UNCHANGED <<slots, reserved, live_children, lock, live, stale>>
      /\ \A u \in Threads \ {t} : pc'[u] = pc[u] /\ job'[u] = job[u]
      /\ \A b \in Arenas \ {a} : committed'[b] = committed[b]
  BY Zenon DEF ChargeExchange, Return, Goto, LooksAgain, IInv, TypeOK
<1>2. state[a] = "Active" /\ job[t].lim = limit[a] /\ committed[a] <= limit[a]
  BY Zenon, <1>0, <1>1 DEF Working, Charging, IInv, LedgerInv
<1>3. /\ pc'[t] \in {"idle", "charge", "charged"} /\ (pc'[t] # "idle" => job'[t].arena = a)
      /\ pc'[t] = "charge" => job'[t].lim = limit[a]
      /\ job'[t] \in Job
      /\ committed'[a] = committed[a] + IF pc'[t] = "charged" THEN job'[t].size ELSE 0
      /\ committed'[a] <= limit[a]
  <2>0. job[t] \in Job /\ NoJob \in Job /\ t \in DOMAIN job /\ t \in DOMAIN pc
    BY Zenon, JobType DEF IInv, TypeOK
  <2>1. CASE ~Fits(t) /\ Return(t) /\ UNCHANGED committed
    BY <1>0, <1>2, <2>0, <2>1 DEF Return, Goto
  <2>2. CASE /\ Fits(t) /\ Swaps(t, a)
             /\ committed' = [committed EXCEPT ![a] = @ + job[t].size]
             /\ Goto(t, "charged") /\ UNCHANGED job
    BY Zenon, <1>0, <1>2, <2>0, <2>2 DEF Goto, Fits, Swaps, Job, IInv, TypeOK
  <2>3. CASE Fits(t) /\ LooksAgain(t, a) /\ UNCHANGED <<committed, pc>>
    BY <1>0, <1>1, <1>2, <2>0, <2>3 DEF LooksAgain, Job
  <2> QED BY Zenon, <2>1, <2>2, <2>3 DEF ChargeExchange
<1>4. TypeOK'
  <2>1. committed'[a] \in 0 .. U64Max BY <1>0, <1>2, <1>3 DEF Job
  <2>2. pc' = [pc EXCEPT ![t] = pc'[t]] /\ job' = [job EXCEPT ![t] = job'[t]]
        /\ committed' = [committed EXCEPT ![a] = committed'[a]]
    BY <1>0, <1>1 DEF ChargeExchange, Return, Goto, LooksAgain, IInv, TypeOK
  <2>3. job' \in [Threads -> Job] BY Zenon, <1>3, <2>2, JobType DEF IInv
  <2>4. committed' \in [Arenas -> 0 .. U64Max] BY Zenon, <1>0, <2>1, <2>2 DEF IInv, TypeOK
  <2>5. pc'[t] \in {"idle"} \cup Charging BY Zenon, <1>3 DEF Charging
  <2> QED BY Zenon, <1>1, <2>2, <2>3, <2>4, <2>5, ChargeTypes DEF IInv
<1>5. Charge(t) = 0 /\ committed'[a] = committed[a] + Charge(t)' /\ Charge(t)' \in Nat
  BY <1>0, <1>1, <1>3 DEF Charge, Job
<1>6. committed'[a] - live'[a] - Charge(t)' = committed[a] - live[a] - Charge(t)
  BY <1>0, <1>1, <1>5
<1> HIDE DEF a
<1>7. /\ pc[t] \in Charging => a = job[t].arena
      /\ pc'[t] \in Charging => job'[t].arena = a
      /\ pc[t] \in {"idle"} \cup Charging /\ pc'[t] \in {"idle"} \cup Charging
  BY Zenon, <1>1, <1>3 DEF Charging, a
<1> QED BY Zenon, <1>0, <1>1, <1>2, <1>3, <1>4, <1>6, <1>7, AccountStep

\* The charge is followed by storage ...
LEMMA ServeStep ==
  ASSUME SumLaws, IInv, NEW t \in Threads, Serve(t)
  PROVE  IInv'
<1> DEFINE a == job[t].arena
<1>0. /\ a \in Arenas /\ job[t].size \in 0 .. U64Max
      /\ U64Max \in Nat /\ committed[a] \in 0 .. U64Max /\ live[a] \in Nat /\ Working(t)
  BY Zenon, AtWork
<1>1. /\ pc[t] = "charged" /\ pc'[t] = "idle" /\ live'[a] = live[a] + job[t].size
      /\ UNCHANGED <<slots, quota, live_children, lock, stale>>
      /\ \A u \in Threads \ {t} : pc'[u] = pc[u] /\ job'[u] = job[u]
      /\ \A b \in Arenas \ {a} : live'[b] = live[b]
  BY Zenon, <1>0 DEF Serve, Return, Goto, IInv, TypeOK
<1>2. state[a] = "Active" /\ committed[a] <= limit[a]
  BY Zenon, <1>0, <1>1 DEF Working, Charging, IInv, LedgerInv
<1>3. TypeOK'
  <2>1. live' \in [Arenas -> Nat] BY <1>0 DEF Serve, IInv, TypeOK
  <2>2. job' \in [Threads -> Job] BY Zenon, JobType DEF Serve, Return, IInv
  <2> QED BY <1>1, <2>1, <2>2 DEF Serve, Return, Goto, Job, IInv, TypeOK, slots, quota
<1>4. Charge(t) = job[t].size /\ Charge(t)' = 0 BY Zenon, <1>1 DEF Charge
<1>5. committed'[a] = committed[a] BY Zenon, <1>1 DEF quota
<1>6. committed'[a] - live'[a] - Charge(t)' = committed[a] - live[a] - Charge(t)
  BY <1>0, <1>1, <1>4, <1>5
<1>7. pc[t] \in Charging => a = job[t].arena BY Zenon
<1> HIDE DEF a
<1> QED BY Zenon, <1>0, <1>1, <1>2, <1>3, <1>5, <1>6, <1>7, AccountStep DEF Charging, quota

\* ... or by the credit that takes it back.
LEMMA StorageExhaustedStep ==
  ASSUME SumLaws, IInv, NEW t \in Threads, StorageExhausted(t)
  PROVE  IInv'
<1> DEFINE a == job[t].arena
<1>0. /\ a \in Arenas /\ job[t].size \in 0 .. U64Max
      /\ U64Max \in Nat /\ committed[a] \in 0 .. U64Max /\ live[a] \in Nat /\ Working(t)
  BY Zenon, AtWork
<1>1. /\ pc[t] = "charged" /\ pc'[t] = "credit"
      /\ job'[t] = [arena |-> a, size |-> job[t].size, cur |-> committed[a],
                    lim |-> limit[a], rights |-> {}]
      /\ UNCHANGED <<slots, quota, live_children, lock, live, stale>>
      /\ \A u \in Threads \ {t} : pc'[u] = pc[u] /\ job'[u] = job[u]
  BY Zenon, <1>0 DEF StorageExhausted, Work, Goto, IInv, TypeOK
<1>2. state[a] = "Active" /\ committed[a] <= limit[a]
  BY Zenon, <1>0, <1>1 DEF Working, Charging, IInv, LedgerInv
<1>3. TypeOK'
  <2>1. job'[t] \in Job BY <1>0, <1>1 DEF Job, IInv, TypeOK
  <2>2. job' \in [Threads -> Job] BY Zenon, <1>1, <2>1, JobType DEF StorageExhausted, Work, IInv
  <2> QED BY Zenon, <1>1, <2>2 DEF StorageExhausted, Goto, Job, IInv, TypeOK, slots, quota
<1>4. Charge(t) = job[t].size /\ Charge(t)' = job[t].size BY <1>1 DEF Charge
<1>5. committed'[a] - live'[a] - Charge(t)' = committed[a] - live[a] - Charge(t)
  BY Zenon, <1>0, <1>1, <1>4 DEF quota
<1>7. pc[t] \in Charging => a = job[t].arena BY Zenon
<1> HIDE DEF a
<1> QED BY <1>0, <1>1, <1>2, <1>3, <1>5, <1>7, AccountStep DEF Charging, quota

\* A free takes the object out before its bytes are credited.
LEMMA FreeStep ==
  ASSUME SumLaws, IInv, NEW t \in Threads, NEW a \in Arenas, NEW n \in Sizes, Free(t, a, n)
  PROVE  IInv'
<1>0. n \in 0 .. U64Max /\ U64Max \in Nat /\ committed[a] \in 0 .. U64Max /\ live[a] \in Nat
  BY ArenaTableAssumption DEF IInv, TypeOK
<1>1. /\ pc[t] = "idle" /\ pc'[t] = "credit" /\ state[a] = "Active"
      /\ n <= live[a] /\ live'[a] = live[a] - n
      /\ job'[t] = [arena |-> a, size |-> n, cur |-> committed[a], lim |-> limit[a],
                    rights |-> {}]
      /\ \A u \in Threads \ {t} : pc'[u] = pc[u] /\ job'[u] = job[u]
      /\ \A b \in Arenas \ {a} : live'[b] = live[b]
      /\ UNCHANGED <<slots, quota, live_children, lock, stale>>
  BY Zenon DEF Free, Work, Goto, IInv, TypeOK
<1>2. TypeOK'
  <2>1. job'[t] \in Job BY <1>0, <1>1 DEF Job, IInv, TypeOK
  <2>2. job' \in [Threads -> Job] BY Zenon, <1>1, <2>1, JobType DEF Free, Work, IInv
  <2>3. live' \in [Arenas -> Nat] BY <1>0, <1>1 DEF Free, IInv, TypeOK
  <2> QED BY Zenon, <1>1, <2>2, <2>3 DEF Free, Goto, Job, IInv, TypeOK, slots, quota
<1>3. committed[a] <= limit[a] BY Zenon DEF IInv, LedgerInv
<1>4. Charge(t) = 0 /\ Charge(t)' = n BY <1>1 DEF Charge
<1>5. committed'[a] - live'[a] - Charge(t)' = committed[a] - live[a] - Charge(t)
  BY <1>0, <1>1, <1>4 DEF quota
<1> QED BY <1>1, <1>2, <1>3, <1>5, AccountStep DEF Charging, quota

\* The subtraction of credit never saturates.
LEMMA CreditStep ==
  ASSUME SumLaws, IInv, NEW t \in Threads, Credit(t)
  PROVE  IInv'
<1> DEFINE a == job[t].arena
<1>0. /\ a \in Arenas /\ job[t].size \in 0 .. U64Max
      /\ U64Max \in Nat /\ committed[a] \in 0 .. U64Max /\ live[a] \in Nat /\ Working(t)
  BY Zenon, AtWork
<1>1. /\ pc[t] = "credit" /\ UNCHANGED <<slots, reserved, live_children, lock, live, stale>>
      /\ \A u \in Threads \ {t} : pc'[u] = pc[u] /\ job'[u] = job[u]
      /\ \A b \in Arenas \ {a} : committed'[b] = committed[b]
  BY Zenon, <1>0 DEF Credit, Return, Goto, LooksAgain, Lower, IInv, TypeOK
<1>2. state[a] = "Active" /\ committed[a] <= limit[a]
  BY Zenon, <1>0, <1>1 DEF Working, Charging, IInv, LedgerInv
<1>3. job[t].size <= committed[a]
  <2>1. Flight(a)[t] = job[t].size BY Zenon, <1>1 DEF Flight
  <2>2. Flight(a)[t] <= InFlight(a) /\ InFlight(a) \in Nat BY Zenon, FlightType DEF IInv
  <2>3. committed[a] = reserved[a] + live[a] + InFlight(a)
    BY Zenon, <1>0, <1>2 DEF IInv, LedgerInv
  <2>4. reserved[a] \in Nat BY <1>0 DEF IInv, TypeOK
  <2> QED BY <1>0, <2>1, <2>2, <2>3, <2>4
<1>4. \/ /\ pc'[t] = "idle" /\ job'[t] = NoJob
         /\ committed'[a] = committed[a] - job[t].size
      \/ /\ pc'[t] = "credit" /\ job'[t] = [job[t] EXCEPT !.cur = committed[a]]
         /\ committed' = committed
  <2>1. CASE Swaps(t, a) /\ committed' = Lower(committed, a, job[t].size) /\ Return(t)
    BY <1>0, <1>3, <2>1 DEF Return, Goto, Lower, SaturatingSub, IInv, TypeOK
  <2>2. CASE LooksAgain(t, a) /\ UNCHANGED <<committed, pc>>
    BY Zenon, <1>1, <2>2 DEF LooksAgain, IInv, TypeOK
  <2> QED BY Zenon, <2>1, <2>2 DEF Credit
<1>5. TypeOK'
  <2>1. job[t] \in Job /\ NoJob \in Job BY Zenon, JobType DEF IInv
  <2>2. job'[t] \in Job /\ pc'[t] \in {"idle", "credit"} /\ committed'[a] \in 0 .. U64Max
    <3>1. job'[t] \in Job BY Zenon, <1>0, <1>4, <2>1 DEF Job
    <3>2. committed'[a] \in 0 .. U64Max BY <1>0, <1>3, <1>4
    <3> QED BY Zenon, <1>4, <3>1, <3>2
  <2>3. pc' = [pc EXCEPT ![t] = pc'[t]] /\ job' = [job EXCEPT ![t] = job'[t]]
        /\ committed' = [committed EXCEPT ![a] = committed'[a]]
    BY Zenon, <1>0, <1>1 DEF Credit, Return, Goto, LooksAgain, Lower, IInv, TypeOK
  <2>4. job' \in [Threads -> Job] BY Zenon, <2>2, <2>3, JobType DEF IInv
  <2>5. committed' \in [Arenas -> 0 .. U64Max] BY Zenon, <1>0, <2>2, <2>3 DEF IInv, TypeOK
  <2>6. pc'[t] \in {"idle"} \cup Charging BY Zenon, <2>2 DEF Charging
  <2> QED BY Zenon, <1>1, <2>3, <2>4, <2>5, <2>6, ChargeTypes DEF IInv
<1>6. committed'[a] - live'[a] - Charge(t)' = committed[a] - live[a] - Charge(t)
      /\ committed'[a] <= limit[a]
  <2>1. limit[a] \in Nat BY <1>0 DEF IInv, TypeOK
  <2>2. job[t] \in Job BY Zenon, JobType DEF IInv
  <2>3. CASE pc'[t] = "idle" /\ committed'[a] = committed[a] - job[t].size
    BY <1>0, <1>1, <1>2, <2>1, <2>3 DEF Charge
  <2>4. CASE pc'[t] = "credit" /\ job'[t] = [job[t] EXCEPT !.cur = committed[a]]
             /\ committed' = committed
    <3>1. job'[t].size = job[t].size BY Zenon, <2>2, <2>4 DEF Job
    <3> QED BY Zenon, <1>0, <1>1, <1>2, <2>4, <3>1 DEF Charge
  <2> QED BY Zenon, <1>4, <2>3, <2>4
<1>7. /\ pc[t] \in Charging => a = job[t].arena
      /\ pc'[t] \in Charging => job'[t].arena = a
      /\ pc[t] \in {"idle"} \cup Charging /\ pc'[t] \in {"idle"} \cup Charging
      /\ pc'[t] # "charge"
  <2>1. job[t] \in Job BY Zenon, JobType DEF IInv
  <2> QED BY Zenon, <1>1, <1>4, <2>1 DEF Charging, Job
<1> HIDE DEF a
<1> QED BY Zenon, <1>0, <1>1, <1>2, <1>5, <1>6, <1>7, AccountStep

-----------------------------------------------------------------------------
(* Delegation, up to the creation of the child. *)


\* delegate begins, under the lock.
LEMMA DelegateStep ==
  ASSUME SumLaws, IInv, NEW t \in Threads, NEW p \in Arenas, NEW r \in Asked, NEW q \in Quotas,
         Delegate(t, p, r, q)
  PROVE  IInv'
<1>0. q \in 0 .. U64Max /\ r \in SUBSET Rights /\ U64Max \in Nat BY Zenon, ArenaTableAssumption
<1>1. /\ pc[t] = "idle" /\ lock = Nobody /\ lock' = t /\ state[p] = "Active"
      /\ pc'[t] = (IF limit[p] = Unlimited THEN "create" ELSE "reserve")
      /\ job'[t] = [arena |-> p, size |-> q, cur |-> committed[p], lim |-> limit[p],
                    rights |-> r]
      /\ \A u \in Threads \ {t} : pc'[u] = pc[u] /\ job'[u] = job[u]
      /\ UNCHANGED <<slots, quota, live_children, live, stale>>
  BY Zenon DEF Delegate, Goto, IsActive, IInv, TypeOK
<1>2. TypeOK'
  <2>1. job'[t] \in Job BY <1>0, <1>1 DEF Job, IInv, TypeOK
  <2>2. job' \in [Threads -> Job] BY Zenon, <1>1, <2>1, JobType DEF Delegate, IInv
  <2> QED BY Zenon, <1>1, <2>2 DEF Delegate, Goto, Job, IInv, TypeOK, slots, quota
<1>3. LockInv' BY Zenon, <1>1, LockStep DEF Locking
<1>4. committed[p] <= limit[p] BY Zenon DEF IInv, LedgerInv
<1>5. Hangs(t) = 0 /\ (limit[p] # Unlimited => Hangs(t)' = 0) BY Zenon, <1>1 DEF Hangs
<1> QED BY <1>1, <1>2, <1>3, <1>4, <1>5, DelegationStep DEF Delegating, quota

\* The parent's reservation fits its quota, as the gate checked it.
LEMMA ReserveStep ==
  ASSUME SumLaws, IInv, NEW t \in Threads, Reserve(t)
  PROVE  IInv'
<1> DEFINE p == job[t].arena
           n == job[t].size
<1>0. /\ p \in Arenas /\ n \in 0 .. U64Max /\ job[t].lim \in 0 .. U64Max /\ U64Max \in Nat
      /\ committed[p] \in 0 .. U64Max /\ Working(t)
  BY Zenon, AtWork
<1>1. /\ pc[t] = "reserve" /\ UNCHANGED <<slots, live_children, live, stale>>
      /\ \A u \in Threads \ {t} : pc'[u] = pc[u] /\ job'[u] = job[u]
      /\ \A b \in Arenas \ {p} : committed'[b] = committed[b] /\ reserved'[b] = reserved[b]
  BY ZenonT(30), <1>0 DEF Reserve, Return, Goto, LooksAgain, quota, IInv, TypeOK
<1>2. /\ state[p] = "Active" /\ job[t].lim = limit[p] /\ limit[p] # Unlimited
      /\ lock = t /\ reserved[p] \in 0 .. U64Max
  BY Zenon, <1>0, <1>1 DEF Working, Delegating, Locking, IInv, LockInv, TypeOK
<1>3. reserved[p] <= committed[p] /\ committed[p] <= limit[p]
  <2>1. committed[p] = reserved[p] + live[p] + InFlight(p) /\ committed[p] <= limit[p]
    BY Zenon, <1>0, <1>2 DEF IInv, LedgerInv
  <2>2. InFlight(p) \in Nat /\ live[p] \in Nat BY Zenon, <1>0, FlightType, AtWork DEF IInv
  <2> QED BY <1>0, <1>2, <2>1, <2>2
<1>4. \/ /\ pc'[t] = "idle" /\ job'[t] = NoJob /\ lock' = Nobody
         /\ committed' = committed /\ reserved' = reserved
      \/ /\ pc'[t] = "create" /\ job'[t] = job[t] /\ lock' = lock
         /\ committed'[p] = committed[p] + n /\ reserved'[p] = reserved[p] + n
         /\ committed[p] + n <= limit[p]
      \/ /\ pc'[t] = "reserve" /\ job'[t] = [job[t] EXCEPT !.cur = committed[p]]
         /\ lock' = lock /\ committed' = committed /\ reserved' = reserved
  <2>0. t \in DOMAIN pc /\ t \in DOMAIN job /\ p \in DOMAIN committed /\ p \in DOMAIN reserved
    BY Zenon, <1>0 DEF IInv, TypeOK
  <2>1. CASE /\ ~Fits(t)
             /\ lock' = Nobody /\ Return(t) /\ UNCHANGED quota
    BY Zenon, <2>0, <2>1 DEF Return, Goto, quota
  <2>2. CASE /\ Fits(t) /\ Swaps(t, p)
             /\ committed' = [committed EXCEPT ![p] = @ + n]
             /\ reserved' = [reserved EXCEPT ![p] = @ + n]
             /\ Goto(t, "create") /\ UNCHANGED <<lock, job>>
    BY Zenon, <1>0, <1>2, <2>0, <2>2 DEF Goto, Fits, Swaps
  <2>3. CASE Fits(t) /\ LooksAgain(t, p) /\ UNCHANGED <<quota, lock, pc>>
    BY Zenon, <1>1, <2>0, <2>3 DEF LooksAgain, quota
  <2> QED BY Zenon, <2>1, <2>2, <2>3 DEF Reserve
<1>5. TypeOK'
  <2>1. job[t] \in Job /\ NoJob \in Job BY Zenon, JobType DEF IInv
  <2>2. /\ job'[t] \in Job /\ pc'[t] \in {"idle", "create", "reserve"}
        /\ committed'[p] \in 0 .. U64Max /\ reserved'[p] \in 0 .. U64Max
        /\ lock' \in Threads \cup {Nobody}
    <3>1. job'[t] \in Job BY Zenon, <1>0, <1>4, <2>1 DEF Job
    <3>2. committed'[p] \in 0 .. U64Max /\ reserved'[p] \in 0 .. U64Max
      BY <1>0, <1>2, <1>3, <1>4
    <3> QED BY Zenon, <1>2, <1>4, <3>1, <3>2
  <2>3. pc' = [pc EXCEPT ![t] = pc'[t]] /\ job' = [job EXCEPT ![t] = job'[t]]
        /\ committed' = [committed EXCEPT ![p] = committed'[p]]
        /\ reserved' = [reserved EXCEPT ![p] = reserved'[p]]
    BY <1>0, <1>1 DEF Reserve, Return, Goto, LooksAgain, quota, IInv, TypeOK
  <2>4. job' \in [Threads -> Job] BY Zenon, <2>2, <2>3, JobType DEF IInv
  <2>5. committed' \in [Arenas -> 0 .. U64Max] /\ reserved' \in [Arenas -> 0 .. U64Max]
    BY Zenon, <1>0, <2>2, <2>3 DEF IInv, TypeOK
  <2> QED BY <1>1, <2>2, <2>3, <2>4, <2>5 DEF Job, IInv, TypeOK, slots
<1>6. LockInv'
  BY Zenon, <1>1, <1>2, <1>4, LockStep DEF Locking
<1>7. /\ pc'[t] \in Delegating => job'[t].arena = p /\ job'[t].lim = limit[p]
      /\ Hangs(t) = 0 /\ Hangs(t)' = IF pc'[t] = "create" THEN n ELSE 0
  <2>1. job[t] \in Job BY Zenon, JobType DEF IInv
  <2> QED BY Zenon, <1>1, <1>2, <1>4, <2>1 DEF Delegating, Hangs, Job
<1>8. /\ committed'[p] <= limit[p]
      /\ committed'[p] - reserved'[p] = committed[p] - reserved[p]
      /\ reserved'[p] - Hangs(t)' = reserved[p] - Hangs(t)
  BY <1>0, <1>2, <1>3, <1>4, <1>7
<1>9. /\ pc[t] \in {"idle"} \cup Delegating /\ pc'[t] \in {"idle"} \cup Delegating
      /\ pc[t] \in Delegating => job[t].arena = p
  BY Zenon, <1>1, <1>4 DEF Delegating
<1> HIDE DEF p, n
<1> QED BY Zenon, <1>0, <1>1, <1>2, <1>5, <1>6, <1>7, <1>8, <1>9, DelegationStep

\* No slot is left for the child.
LEMMA DelegateExhaustedStep ==
  ASSUME SumLaws, IInv, NEW t \in Threads, DelegateExhausted(t)
  PROVE  IInv'
<1> DEFINE p == job[t].arena
<1>0. /\ p \in Arenas /\ committed[p] \in 0 .. U64Max /\ Working(t) BY Zenon, AtWork
<1>1. /\ pc[t] = "create" /\ UNCHANGED <<slots, quota, live_children, live, stale>>
      /\ \A u \in Threads \ {t} : pc'[u] = pc[u] /\ job'[u] = job[u]
      /\ \/ limit[p] = Unlimited /\ lock' = Nobody /\ pc'[t] = "idle" /\ job'[t] = NoJob
         \/ /\ limit[p] # Unlimited /\ lock' = lock /\ pc'[t] = "unreserve"
            /\ job'[t] = [job[t] EXCEPT !.cur = committed[p]]
  BY Zenon, <1>0 DEF DelegateExhausted, Return, Goto, IInv, TypeOK
<1>2. state[p] = "Active" /\ job[t].lim = limit[p] /\ lock = t
  BY Zenon, <1>0, <1>1 DEF Working, Delegating, Locking, IInv, LockInv, TypeOK
<1>3. committed[p] <= limit[p] BY Zenon, <1>0 DEF IInv, LedgerInv
<1>4. TypeOK'
  <2>1. job[t] \in Job /\ NoJob \in Job BY Zenon, JobType DEF IInv
  <2>2. job'[t] \in Job /\ lock' \in Threads \cup {Nobody}
    BY Zenon, <1>0, <1>1, <1>2, <2>1 DEF Job
  <2>3. job' \in [Threads -> Job]
    <3>1. job' = [job EXCEPT ![t] = job'[t]]
      BY Zenon DEF DelegateExhausted, Return, IInv, TypeOK
    <3> QED BY Zenon, <2>2, <3>1, JobType DEF IInv
  <2>4. pc' = [pc EXCEPT ![t] = pc'[t]]
    BY Zenon DEF DelegateExhausted, Return, Goto, IInv, TypeOK
  <2> QED BY <1>1, <2>2, <2>3, <2>4 DEF Job, IInv, TypeOK, slots, quota
<1>5. LockInv' BY Zenon, <1>1, <1>2, LockStep DEF Locking
<1>6. /\ pc'[t] \in Delegating => job'[t].arena = p /\ job'[t].lim = limit[p]
      /\ limit[p] # Unlimited => Hangs(t)' = Hangs(t)
  <2>1. job[t] \in Job BY Zenon, JobType DEF IInv
  <2> QED BY Zenon, <1>1, <1>2, <2>1 DEF Delegating, Hangs, Job
<1>7. /\ pc[t] \in {"idle"} \cup Delegating /\ pc'[t] \in {"idle"} \cup Delegating
      /\ pc[t] \in Delegating => job[t].arena = p
      /\ pc'[t] \in {"reserve", "unreserve"} => limit[p] # Unlimited
  BY Zenon, <1>1 DEF Delegating
<1> HIDE DEF p
<1> QED BY Zenon, <1>0, <1>1, <1>2, <1>3, <1>4, <1>5, <1>6, <1>7, DelegationStep DEF quota

\* The reservation is there to be rolled back: the subtraction never saturates.
LEMMA UnreserveStep ==
  ASSUME SumLaws, IInv, NEW t \in Threads, Unreserve(t)
  PROVE  IInv'
<1> DEFINE p == job[t].arena
           n == job[t].size
<1>0. /\ p \in Arenas /\ n \in 0 .. U64Max /\ U64Max \in Nat
      /\ committed[p] \in 0 .. U64Max /\ Working(t)
  BY Zenon, AtWork
<1>1. /\ pc[t] = "unreserve" /\ UNCHANGED <<slots, live_children, live, stale>>
      /\ \A u \in Threads \ {t} : pc'[u] = pc[u] /\ job'[u] = job[u]
      /\ \A b \in Arenas \ {p} : committed'[b] = committed[b] /\ reserved'[b] = reserved[b]
  BY <1>0 DEF Unreserve, Release, Lower, Return, Goto, LooksAgain, quota, IInv, TypeOK
<1>2. /\ state[p] = "Active" /\ job[t].lim = limit[p] /\ limit[p] # Unlimited
      /\ lock = t /\ reserved[p] \in 0 .. U64Max
  BY Zenon, <1>0, <1>1 DEF Working, Delegating, Locking, IInv, LockInv, TypeOK
<1>3. n <= reserved[p] /\ reserved[p] <= committed[p] /\ committed[p] <= limit[p]
  <2>1. committed[p] = reserved[p] + live[p] + InFlight(p) /\ committed[p] <= limit[p]
    BY Zenon, <1>0, <1>2 DEF IInv, LedgerInv
  <2>2. InFlight(p) \in Nat /\ live[p] \in Nat BY Zenon, <1>0, FlightType, AtWork DEF IInv
  <2>3. reserved[p] = Budget(Children(p) \ Repaid) + Total(Hung(p))
    BY Zenon, <1>0, <1>2 DEF IInv, LedgerInv
  <2>4. Hung(p)[t] = n BY Zenon, <1>1 DEF Hung
  <2>5. Hung(p)[t] <= Total(Hung(p)) /\ Total(Hung(p)) \in Nat BY Zenon, HungType DEF IInv
  <2>6. Budget(Children(p) \ Repaid) \in Nat
    <3>1. Budget(Children(p) \ Repaid) = Total(Quota(Children(p) \ Repaid, limit))
      BY Zenon DEF Budget, Quota
    <3>2. limit \in [Arenas -> 0 .. U64Max] BY Zenon DEF IInv, TypeOK
    <3> QED BY Zenon, <3>1, <3>2, BudgetType
  <2> HIDE DEF p, n
  <2> QED BY <1>0, <1>2, <2>1, <2>2, <2>3, <2>4, <2>5, <2>6
<1>4. \/ /\ pc'[t] = "idle" /\ job'[t] = NoJob /\ lock' = Nobody
         /\ committed'[p] = committed[p] - n /\ reserved'[p] = reserved[p] - n
      \/ /\ pc'[t] = "unreserve" /\ job'[t] = [job[t] EXCEPT !.cur = committed[p]]
         /\ lock' = lock /\ committed' = committed /\ reserved' = reserved
  <2>0. t \in DOMAIN pc /\ t \in DOMAIN job /\ p \in DOMAIN committed /\ p \in DOMAIN reserved
    BY Zenon, <1>0 DEF IInv, TypeOK
  <2>1. CASE /\ Swaps(t, p) /\ Release(p, n)
             /\ lock' = Nobody /\ Return(t)
    <3>1. committed'[p] = SaturatingSub(committed[p], n)
          /\ reserved'[p] = SaturatingSub(reserved[p], n)
      BY Zenon, <2>0, <2>1 DEF Release, Lower
    <3>2. committed'[p] = committed[p] - n /\ reserved'[p] = reserved[p] - n
      BY <1>0, <1>2, <1>3, <3>1 DEF SaturatingSub
    <3> QED BY Zenon, <2>0, <2>1, <3>2 DEF Return, Goto
  <2>2. CASE LooksAgain(t, p) /\ UNCHANGED <<quota, lock, pc>>
    BY Zenon, <1>1, <2>0, <2>2 DEF LooksAgain, quota
  <2> QED BY Zenon, <2>1, <2>2 DEF Unreserve
<1>5. TypeOK'
  <2>1. job[t] \in Job /\ NoJob \in Job BY Zenon, JobType DEF IInv
  <2>2. /\ job'[t] \in Job /\ pc'[t] \in {"idle", "unreserve"}
        /\ committed'[p] \in 0 .. U64Max /\ reserved'[p] \in 0 .. U64Max
        /\ lock' \in Threads \cup {Nobody}
    <3>1. job'[t] \in Job BY Zenon, <1>0, <1>4, <2>1 DEF Job
    <3>2. committed'[p] \in 0 .. U64Max /\ reserved'[p] \in 0 .. U64Max
      BY <1>0, <1>2, <1>3, <1>4
    <3> QED BY Zenon, <1>2, <1>4, <3>1, <3>2
  <2>3. pc' = [pc EXCEPT ![t] = pc'[t]] /\ job' = [job EXCEPT ![t] = job'[t]]
        /\ committed' = [committed EXCEPT ![p] = committed'[p]]
        /\ reserved' = [reserved EXCEPT ![p] = reserved'[p]]
    BY <1>0, <1>1 DEF Unreserve, Release, Lower, Return, Goto, LooksAgain, quota, IInv, TypeOK
  <2>4. job' \in [Threads -> Job] BY Zenon, <2>2, <2>3, JobType DEF IInv
  <2>5. committed' \in [Arenas -> 0 .. U64Max] /\ reserved' \in [Arenas -> 0 .. U64Max]
    BY Zenon, <1>0, <2>2, <2>3 DEF IInv, TypeOK
  <2> QED BY SMTT(20), <1>1, <2>2, <2>3, <2>4, <2>5 DEF Job, IInv, TypeOK, slots
<1>6. LockInv'
  BY Zenon, <1>1, <1>2, <1>4, LockStep DEF Locking
<1>7. /\ pc'[t] \in Delegating => job'[t].arena = p /\ job'[t].lim = limit[p]
      /\ Hangs(t) = n /\ Hangs(t)' = IF pc'[t] = "unreserve" THEN n ELSE 0
  <2>1. job[t] \in Job BY Zenon, JobType DEF IInv
  <2> QED BY Zenon, <1>1, <1>2, <1>4, <2>1 DEF Delegating, Hangs, Job
<1>8. /\ committed'[p] <= limit[p]
      /\ committed'[p] - reserved'[p] = committed[p] - reserved[p]
      /\ reserved'[p] - Hangs(t)' = reserved[p] - Hangs(t)
  <2>1. limit[p] \in Nat BY <1>0 DEF IInv, TypeOK
  <2> QED BY <1>0, <1>2, <1>3, <1>4, <1>7, <2>1
<1>9. /\ pc[t] \in {"idle"} \cup Delegating /\ pc'[t] \in {"idle"} \cup Delegating
      /\ pc[t] \in Delegating => job[t].arena = p
  BY Zenon, <1>1, <1>4 DEF Delegating
<1> HIDE DEF p, n
<1> QED BY Zenon, <1>0, <1>1, <1>2, <1>5, <1>6, <1>7, <1>8, <1>9, DelegationStep

-----------------------------------------------------------------------------
(* Steps that move one arena from one state in use to another. *)

\* The owner of a pending arena publishes it.
LEMMA PublishArenaStep ==
  ASSUME SumLaws, IInv, NEW t \in Threads, PublishArena(t)
  PROVE  IInv'
<1> DEFINE a == job[t].arena
<1>0. a \in Arenas BY Zenon, AtWork
<1>1. /\ pc[t] = "pending" /\ state[a] = "Initializing" /\ state'[a] = "Active"
      /\ \A b \in Arenas \ {a} : state'[b] = state[b]
      /\ pc'[t] = "idle"
      /\ \A u \in Threads \ {t} : pc'[u] = pc[u] /\ job'[u] = job[u]
      /\ UNCHANGED <<generation, limit, parent_plus1, parent_generation, high_water>>
      /\ UNCHANGED <<rights, committed, reserved, live_children, lock, live, stale>>
  BY Zenon, <1>0 DEF PublishArena, Return, Goto, quota, IInv, TypeOK
<1>2. TypeOK'
  <2>1. job' \in [Threads -> Job] BY Zenon, JobType DEF PublishArena, Return, IInv
  <2>2. state' \in [Arenas -> States] BY Zenon, <1>0 DEF PublishArena, IInv, TypeOK, States
  <2>3. pc' = [pc EXCEPT ![t] = "idle"] BY Zenon DEF PublishArena, Return, Goto
  <2> QED BY Zenon, <1>1, <2>1, <2>2, <2>3 DEF Job, IInv, TypeOK
<1>3. Owning(t) BY Zenon, <1>1 DEF Owning
<1>4. \A u \in Threads \ {t} : pc[u] # "idle" => job[u].arena # a
  BY Zenon, <1>0, <1>3, OthersAway
<1>5. Working(t)' /\ ~Owning(t)' BY Zenon, <1>1 DEF Working, Owning, Charging, Delegating, TearingDown
<1>6. a # Default BY Zenon, <1>1 DEF IInv, SlotInv
<1>7. committed[a] = reserved[a] + live[a] + InFlight(a) /\ committed[a] <= limit[a]
  BY Zenon, <1>0, <1>1 DEF IInv, LedgerInv
<1>8. pc[t] \notin Charging \cup Locking /\ pc'[t] \notin Charging \cup Locking
  BY Zenon, <1>1 DEF Charging, Locking
<1> HIDE DEF a
<1>9. \A u \in Threads \ {t} : Working(u)' BY Zenon, <1>0, <1>1, <1>4, OthersWork
<1>10. \A u \in Threads \ {t} : Owning(u) => job[u].arena # a
  BY Zenon, <1>4 DEF Owning, TearingDown
<1>11. \A b \in Arenas : InFlight(b)' = InFlight(b) BY ZenonT(30), <1>1, <1>8, FlightSame
<1> QED BY Zenon, <1>0, <1>1, <1>2, <1>5, <1>6, <1>7, <1>8, <1>9, <1>10, <1>11, TransitionStep

\* begin_reset and begin_destroy.
LEMMA BeginStep ==
  ASSUME SumLaws, IInv, NEW t \in Threads, NEW a \in Arenas, BeginReset(t, a) \/ BeginDestroy(t, a)
  PROVE  IInv'
<1>1. /\ pc[t] = "idle" /\ lock = Nobody /\ a # Default /\ Quiesced(a)
      /\ state[a] = "Active"
      /\ \/ pc'[t] = "reset" /\ state'[a] = "Resetting"
         \/ pc'[t] = "destroy" /\ state'[a] = "Draining" /\ live_children[a] = 0
      /\ job'[t] = [arena |-> a, size |-> 0, cur |-> committed[a], lim |-> limit[a],
                    rights |-> {}]
      /\ \A b \in Arenas \ {a} : state'[b] = state[b]
      /\ \A u \in Threads \ {t} : pc'[u] = pc[u] /\ job'[u] = job[u]
      /\ UNCHANGED <<generation, limit, parent_plus1, parent_generation, high_water>>
      /\ UNCHANGED <<rights, committed, reserved, live_children, lock, live, stale>>
  BY Zenon DEF BeginReset, BeginDestroy, Transition, CanTransition, Work, Goto, quota, IInv, TypeOK
<1>2. TypeOK'
  <2>1. job'[t] \in Job BY <1>1, LedgerAt DEF Job
  <2>2. job' \in [Threads -> Job]
    BY Zenon, <1>1, <2>1, JobType DEF BeginReset, BeginDestroy, Work, IInv
  <2>3. state' \in [Arenas -> States]
    BY Zenon DEF BeginReset, BeginDestroy, Transition, IInv, TypeOK, States
  <2>4. pc' = [pc EXCEPT ![t] = pc'[t]]
    BY Zenon DEF BeginReset, BeginDestroy, Goto, IInv, TypeOK
  <2> QED BY SMTT(20), <1>1, <2>2, <2>3, <2>4 DEF Job, IInv, TypeOK
<1>3. \A u \in Threads \ {t} : pc[u] # "idle" => job[u].arena # a BY Zenon, <1>1, OthersAway
<1>4. Working(t)' BY <1>1 DEF Working, Charging, Delegating
<1>5. pc[t] \notin Charging \cup Locking /\ pc'[t] \notin Charging \cup Locking
  BY Zenon, <1>1 DEF Charging, Locking
<1>6. \A u \in Threads \ {t} : Working(u)' BY Zenon, <1>1, <1>3, OthersWork
<1>7. \A u \in Threads \ {t} : Owning(u) => job[u].arena # a
  BY Zenon, <1>3 DEF Owning, TearingDown
<1>8. \A b \in Arenas : InFlight(b)' = InFlight(b) BY Zenon, <1>1, <1>5, FlightSame
<1>9. reserved[a] + live[a] <= committed[a] /\ committed[a] <= limit[a] BY Zenon, LedgerAt
<1> QED BY <1>1, <1>2, <1>4, <1>5, <1>6, <1>7, <1>8, <1>9, TransitionStep

\* drain_arena, under either.
LEMMA DrainArenaStep ==
  ASSUME SumLaws, IInv, NEW t \in Threads, DrainArena(t)
  PROVE  IInv'
<1> DEFINE a == job[t].arena
<1>0. a \in Arenas /\ Working(t) BY Zenon, AtWork
<1>1. /\ pc[t] \in {"reset", "destroy"} /\ live'[a] = 0 /\ job' = job
      /\ pc'[t] \in {IF pc[t] = "reset" THEN "resetDrained" ELSE "destroyDrained", "failed"}
      /\ \A b \in Arenas \ {a} : live'[b] = live[b]
      /\ \A u \in Threads \ {t} : pc'[u] = pc[u]
      /\ UNCHANGED <<state, generation, limit, parent_plus1, parent_generation, high_water>>
      /\ UNCHANGED <<rights, committed, reserved, live_children, lock, stale>>
  BY Zenon, <1>0 DEF DrainArena, Goto, slots, quota, IInv, TypeOK
<1>2. TypeOK'
  <2>1. live' \in [Arenas -> Nat] BY Zenon, <1>0 DEF DrainArena, IInv, TypeOK
  <2>2. pc' = [pc EXCEPT ![t] = pc'[t]] BY Zenon DEF DrainArena, Goto, IInv, TypeOK
  <2> QED BY <1>1, <2>1, <2>2 DEF IInv, TypeOK
<1>3. Owning(t) BY Zenon, <1>1 DEF Owning, TearingDown
<1>4. \A u \in Threads \ {t} : pc[u] # "idle" => job[u].arena # a
  BY Zenon, <1>0, <1>3, OthersAway
<1>5. Working(t)' BY Zenon, <1>0, <1>1 DEF Working, Charging, Delegating
<1>6. /\ state[a] \in {"Resetting", "Draining"} /\ a # Default
      /\ state[a] = "Draining" => live_children[a] = 0
  BY Zenon, <1>0, <1>1 DEF Working, IInv, SlotInv, TreeInv
<1>7. /\ pc[t] \notin Charging \cup Locking /\ pc'[t] \notin Charging \cup Locking
  BY Zenon, <1>1 DEF Charging, Locking
<1>8. reserved[a] + live'[a] <= committed[a] /\ committed[a] <= limit[a]
  BY <1>0, <1>1, LedgerAt
<1>9. job'[t].arena = a BY Zenon, <1>1
<1> HIDE DEF a
<1>10. \A u \in Threads \ {t} : Working(u)' BY Zenon, <1>0, <1>1, <1>4, OthersWork
<1>11. \A u \in Threads \ {t} : Owning(u) => job[u].arena # a
  BY Zenon, <1>4 DEF Owning, TearingDown
<1>12. \A b \in Arenas : InFlight(b)' = InFlight(b) BY Zenon, <1>1, <1>7, FlightSame
<1> QED BY Zenon, <1>0, <1>1, <1>2, <1>5, <1>6, <1>7, <1>8, <1>9, <1>10, <1>11, <1>12, TransitionStep

\* finish_reset and quarantine: what stays on the account is the children's.
LEMMA SettleStep ==
  ASSUME SumLaws, IInv, NEW t \in Threads, FinishReset(t) \/ QuarantineArena(t)
  PROVE  IInv'
<1> DEFINE a == job[t].arena
<1>0. a \in Arenas /\ Working(t) BY Zenon, AtWork
<1>1. /\ pc[t] \in {"resetDrained", "failed"} /\ pc'[t] = "idle" /\ lock = Nobody
      /\ state'[a] \in {"Active", "ErrorQuarantined"} /\ state[a] \in {"Resetting", "Draining"}
      /\ committed'[a] = reserved[a]
      /\ \A b \in Arenas \ {a} : state'[b] = state[b] /\ committed'[b] = committed[b]
      /\ \A u \in Threads \ {t} : pc'[u] = pc[u] /\ job'[u] = job[u]
      /\ UNCHANGED <<generation, limit, parent_plus1, parent_generation, high_water>>
      /\ UNCHANGED <<rights, reserved, live_children, lock, live, stale>>
  <2>1. /\ pc[t] \in {"resetDrained", "failed"} /\ lock = Nobody /\ Return(t)
        /\ Transition(a, "Active") \/ Transition(a, "ErrorQuarantined")
        /\ committed' = [committed EXCEPT ![a] = reserved[a]]
        /\ UNCHANGED <<reserved, live_children, lock, live, stale>>
    BY Zenon DEF FinishReset, QuarantineArena
  <2>2. state[a] \in {"Resetting", "Draining"} BY Zenon, <1>0, <2>1 DEF Working
  <2> QED BY <1>0, <2>1, <2>2 DEF Transition, Return, Goto, IInv, TypeOK
<1>2. TypeOK'
  <2>1. job' \in [Threads -> Job]
    BY Zenon, JobType DEF FinishReset, QuarantineArena, Return, IInv
  <2>2. state' \in [Arenas -> States]
    BY Zenon, <1>0 DEF FinishReset, QuarantineArena, Transition, IInv, TypeOK, States
  <2>3. pc' = [pc EXCEPT ![t] = "idle"] BY Zenon DEF FinishReset, QuarantineArena, Return, Goto
  <2>4. committed' \in [Arenas -> 0 .. U64Max]
    BY Zenon, <1>0 DEF FinishReset, QuarantineArena, IInv, TypeOK
  <2> QED BY Zenon, <1>1, <2>1, <2>2, <2>3, <2>4 DEF Job, IInv, TypeOK
<1>3. Owning(t) BY Zenon, <1>1 DEF Owning, TearingDown
<1>4. \A u \in Threads \ {t} : pc[u] # "idle" => job[u].arena # a
  BY Zenon, <1>0, <1>3, OthersAway
<1>5. Working(t)' /\ ~Owning(t)' BY Zenon, <1>1 DEF Working, Owning, Charging, Delegating, TearingDown
<1>6. a # Default /\ live[a] = 0 BY Zenon, <1>0, <1>1 DEF Working, IInv, SlotInv
<1>7. /\ pc[t] \notin Charging \cup Locking /\ pc'[t] \notin Charging \cup Locking
  BY Zenon, <1>1 DEF Charging, Locking
<1>8. InFlight(a) = 0
  <2>1. \A u \in Threads : pc[u] \in Charging => job[u].arena # a
    BY Zenon, <1>4, <1>7 DEF Charging
  <2> QED BY Zenon, <2>1, NoFlight
<1>9. committed'[a] = reserved[a] + live'[a] + InFlight(a) /\ committed'[a] <= limit[a]
  BY <1>0, <1>1, <1>6, <1>8, LedgerAt
<1> HIDE DEF a
<1>10. \A u \in Threads \ {t} : Working(u)' BY Zenon, <1>0, <1>1, <1>4, OthersWork
<1>11. \A u \in Threads \ {t} : Owning(u) => job[u].arena # a
  BY Zenon, <1>4 DEF Owning, TearingDown
<1>12. \A b \in Arenas : InFlight(b)' = InFlight(b) BY Zenon, <1>1, <1>7, FlightSame
<1> QED BY Zenon, <1>0, <1>1, <1>2, <1>5, <1>6, <1>7, <1>9, <1>10, <1>11, <1>12, TransitionStep

-----------------------------------------------------------------------------
(* The end of an arena. *)

\* finish_destroy, up to the exchange: the parent no longer counts its child.
LEMMA FinishDestroyStep ==
  ASSUME SumLaws, IInv, NEW t \in Threads, FinishDestroy(t)
  PROVE  IInv'
<1> DEFINE a == job[t].arena
           p == parent_plus1[a] - 1
<1>0. a \in Arenas /\ Working(t) BY Zenon, AtWork
<1>1. /\ pc[t] = "destroyDrained" /\ lock = Nobody /\ lock' = t
      /\ pc'[t] \in Leaving /\ job'[t].arena = a /\ job'[t].lim = job[t].lim
      /\ pc'[t] = "return" => HasParent(a) /\ limit[p] # Unlimited /\ limit[a] # Unlimited
      /\ pc'[t] = "retire" =>
           ~HasParent(a) \/ limit[p] = Unlimited \/ limit[a] = Unlimited
      /\ IF HasParent(a) THEN live_children' = Lower(live_children, p, 1)
         ELSE live_children' = live_children
      /\ \A u \in Threads \ {t} : pc'[u] = pc[u] /\ job'[u] = job[u]
      /\ UNCHANGED <<state, generation, limit, parent_plus1, parent_generation, high_water>>
      /\ UNCHANGED <<rights, committed, reserved, live, stale>>
  BY <1>0, JobType DEF FinishDestroy, Goto, slots, quota, IInv, TypeOK, Leaving, Job
<1>2. state[a] = "Draining" /\ live[a] = 0 /\ a # Default
  BY Zenon, <1>0, <1>1 DEF Working, IInv, SlotInv
<1>3. HasParent(a) <=> parent_plus1[a] # 0 BY Zenon, <1>0, <1>2, ParentOf DEF HasParent
<1>4. LockInv' BY Zenon, <1>1, LockStep DEF Locking, Leaving
<1>5. Uncounted = {} /\ Repaid = {} BY Zenon, <1>1, LockFree
<1>6. Uncounted' = {a} /\ Repaid' = (IF pc'[t] = "retire" THEN {a} ELSE {})
  BY Zenon, <1>1, <1>4, HandsThen
<1>7. \A q : Children(q)' = Children(q) BY Zenon, <1>1 DEF Children, Registered, IsRegistered
<1>8. \A q \in Arenas : live_children'[q] = Cardinality(Children(q) \ {a})
  <2> SUFFICES ASSUME NEW q \in Arenas
               PROVE  live_children'[q] = Cardinality(Children(q) \ {a})
    BY Zenon
  <2>0. live_children[q] = Cardinality(Children(q)) BY Zenon, <1>5 DEF IInv, TreeInv
  <2>1. CASE parent_plus1[a] # 0 /\ q = p
    <3>1. a \in Children(q) BY Zenon, <1>0, <1>2, <2>1, ParentOf
    <3>2. Children(q) \subseteq Arenas /\ Cardinality(Children(q)) \in Nat BY Zenon, ChildrenFinite
    <3>3. Cardinality(Children(q) \ {a}) = Cardinality(Children(q)) - 1
      BY Zenon, <3>1, <3>2, Counted
    <3>4. Cardinality(Children(q)) # 0 BY Zenon, <3>1, <3>2, Counted
    <3>5. live_children'[q] = SaturatingSub(live_children[q], 1)
      BY ZenonT(30), <1>1, <1>3, <2>1 DEF Lower, IInv, TypeOK
    <3> QED BY <2>0, <3>2, <3>3, <3>4, <3>5 DEF SaturatingSub
  <2>2. CASE ~(parent_plus1[a] # 0 /\ q = p)
    <3>1. Children(q) \ {a} = Children(q) BY Zenon, <1>0, <2>2, OneParent DEF IInv
    <3>2. live_children'[q] = live_children[q] BY Zenon, <1>1, <1>3, <2>2 DEF Lower, IInv, TypeOK
    <3> QED BY Zenon, <2>0, <3>1, <3>2
  <2> QED BY Zenon, <2>1, <2>2
<1>9. TypeOK'
  <2>1. live_children' \in [Arenas -> 0 .. MaxArenas]
    <3>1. MaxArenas \in Nat BY Zenon, ArenaTableAssumption
    <3>2. live_children \in [Arenas -> 0 .. MaxArenas] BY Zenon DEF IInv, TypeOK
    <3>3. Lower(live_children, p, 1) \in [Arenas -> 0 .. MaxArenas]
      BY Zenon, <3>1, <3>2, LowerType
    <3> QED BY Zenon, <1>1, <3>2, <3>3
  <2>2. job' \in [Threads -> Job]
    <3>1. parent_plus1[a] # 0 => committed[p] \in 0 .. U64Max
      BY Zenon, <1>0, <1>2, ParentOf DEF IInv, TypeOK
    <3>2. job[t] \in Job /\ job \in [Threads -> Job] BY Zenon, JobType DEF IInv
    <3>3. job' = job \/ (parent_plus1[a] # 0 /\ job' = [job EXCEPT ![t].cur = committed[p]])
      BY Zenon, <1>3 DEF FinishDestroy
    <3> QED BY <3>1, <3>2, <3>3 DEF Job
  <2>3. pc' = [pc EXCEPT ![t] = pc'[t]] BY Zenon DEF FinishDestroy, Goto, IInv, TypeOK
  <2> QED BY <1>1, <2>1, <2>2, <2>3 DEF Job, IInv, TypeOK, Leaving
<1>10. SlotInv' BY Zenon, <1>1 DEF IInv, SlotInv
<1>11. WorkInv'
  <2>1. Owning(t) /\ Owning(t)' BY Zenon, <1>1 DEF Owning, TearingDown, Leaving
  <2>2. \A u \in Threads \ {t} : pc[u] # "idle" => job[u].arena # a
    BY Zenon, <1>0, <2>1, OthersAway
  <2>3. Working(t)'
    BY Zenon, <1>1, <1>2, <1>3 DEF Working, Charging, Delegating, Leaving
  <2> HIDE DEF a
  <2>4. \A u \in Threads \ {t} : Working(u)' BY Zenon, <1>0, <1>1, <2>2, OthersWork
  <2>5. \A u \in Threads \ {t} : Owning(u)' => Owning(u) /\ job'[u].arena # a
    BY Zenon, <1>1, <2>2 DEF Owning, TearingDown
  <2>6. \A u, v \in Threads : Owning(u)' /\ Owning(v)' /\ job'[u].arena = job'[v].arena => u = v
    BY Zenon, <1>1, <2>5 DEF IInv, WorkInv
  <2> QED BY Zenon, <2>3, <2>4, <2>6 DEF WorkInv
<1>12. TreeInv'
  <2>1. Registered' = Registered BY Zenon, <1>1 DEF Registered, IsRegistered
  <2>2. \A q \in Arenas : live_children'[q] = Cardinality(Children(q)' \ Uncounted')
    BY Zenon, <1>6, <1>7, <1>8
  <2>3. ASSUME NEW q \in Arenas, state[q] = "Draining" PROVE live_children'[q] = 0
    <3>1. live_children[q] = 0 BY Zenon, <2>3 DEF IInv, TreeInv
    <3>2. Cardinality(Children(q)) = 0 BY Zenon, <3>1, <1>5 DEF IInv, TreeInv
    <3>3. Children(q) = {} BY Zenon, <3>2, ChildrenFinite, Counted
    <3>4. Children(q) \ {a} = {} BY Zenon, <3>3
    <3> QED BY Zenon, <1>8, <3>2, <3>3, <3>4
  <2> QED BY Zenon, <1>1, <2>1, <2>2, <2>3 DEF IInv, TreeInv
<1>13. LedgerInv'
  <2>1. \A b : InFlight(b)' = InFlight(b)
    BY Zenon, <1>1, FlightSame DEF Charging, Leaving
  <2>2. \A b : Hung(b)' = Hung(b) BY Zenon, <1>1 DEF Hung, Leaving
  <2>3. ASSUME NEW b \in Arenas, limit[b] # Unlimited
        PROVE  Children(b) \ Repaid' = Children(b)
    <3>1. SUFFICES ASSUME pc'[t] = "retire", a \in Children(b) PROVE FALSE
      BY Zenon, <1>6
    <3>2. parent_plus1[a] # 0 /\ b = p BY Zenon, <1>0, <3>1, OneParent DEF IInv
    <3>3. limit[a] = Unlimited BY Zenon, <1>1, <1>3, <2>3, <3>1, <3>2
    <3>4. limit[a] <= Budget(Children(b)) /\ Budget(Children(b)) \in Nat
      BY Zenon, <1>0, <3>1, BudgetIs DEF IInv
    <3>5. reserved[b] = Budget(Children(b)) + Total(Hung(b))
      <4>1. Children(b) \ Repaid = Children(b) BY Zenon, <1>5
      <4> QED BY Zenon, <2>3, <4>1 DEF IInv, LedgerInv
    <3>6. Total(Hung(b)) = 0 BY Zenon, <1>1, LockFree
    <3>7. /\ reserved[b] <= committed[b] /\ committed[b] <= limit[b]
          /\ limit[b] \in 0 .. U64Max /\ U64Max \in Nat
          /\ reserved[b] \in Nat /\ committed[b] \in Nat
      BY LedgerAt
    <3> QED BY <2>3, <3>3, <3>4, <3>5, <3>6, <3>7 DEF Unlimited
  <2>4. ASSUME NEW b \in Arenas
        PROVE  reserved[b] = IF limit[b] = Unlimited THEN 0
                 ELSE Budget(Children(b) \ Repaid)' + Total(Hung(b))'
    <3>1. Total(Hung(b))' = Total(Hung(b)) BY Zenon, <2>2 DEF Total
    <3>2. limit[b] # Unlimited =>
            Budget(Children(b) \ Repaid)' = Budget(Children(b) \ Repaid)
      BY Zenon, <1>1, <1>5, <1>7, <2>3 DEF Budget, Total
    <3> QED BY Zenon, <3>1, <3>2 DEF IInv, LedgerInv
  <2> QED BY Zenon, <1>1, <2>1, <2>4 DEF IInv, LedgerInv
<1> QED BY Zenon, <1>4, <1>9, <1>10, <1>11, <1>12, <1>13 DEF IInv

\* return_reservation_to_parent_locked: the exchange on the parent.
LEMMA ReturnReservationStep ==
  ASSUME SumLaws, IInv, NEW t \in Threads, ReturnReservation(t)
  PROVE  IInv'
<1> DEFINE a == job[t].arena
           p == parent_plus1[a] - 1
<1>0. a \in Arenas /\ Working(t) BY Zenon, AtWork
<1>1. /\ pc[t] = "return" /\ pc'[t] \in Leaving /\ job'[t].arena = a
      /\ \/ /\ pc'[t] = "retire" /\ job' = job
            /\ committed' = Lower(committed, p, limit[a])
            /\ reserved' = Lower(reserved, p, limit[a])
         \/ /\ pc'[t] = "return" /\ UNCHANGED quota
            /\ job' = [job EXCEPT ![t].cur = committed[p]]
      /\ \A u \in Threads \ {t} : pc'[u] = pc[u] /\ job'[u] = job[u]
      /\ UNCHANGED <<state, generation, limit, parent_plus1, parent_generation, high_water>>
      /\ UNCHANGED <<rights, live_children, lock, live, stale>>
  BY <1>0, JobType DEF ReturnReservation, Release, LooksAgain, Goto, slots, quota, IInv,
                       TypeOK, Leaving, Job
<1>2. /\ state[a] = "Draining" /\ live[a] = 0
      /\ parent_plus1[a] # 0 /\ limit[p] # Unlimited
  BY Zenon, <1>0, <1>1 DEF Working
<1>3. /\ p \in Arenas /\ p # a /\ a \in Children(p)
      /\ state[p] \in {"Active", "Resetting", "ErrorQuarantined"}
  BY Zenon, <1>0, <1>2, ParentOf
<1>4. lock = t BY Zenon, <1>1 DEF IInv, LockInv, Locking
<1>5. LockInv' BY Zenon, <1>1, <1>4, LockStep DEF Locking, Leaving
<1>6. /\ Uncounted = {a} /\ Repaid = {}
      /\ Uncounted' = {a} /\ Repaid' = (IF pc'[t] = "retire" THEN {a} ELSE {})
  <2>1. \A u \in Threads \ {t} : lock # u /\ lock' # u BY Zenon, <1>1, <1>4
  <2>2. Uncounted = {a} /\ Repaid = {}
    BY Zenon, <1>1, <2>1, HandsNow DEF Leaving, IInv
  <2>3. Uncounted' = {a} /\ Repaid' = (IF pc'[t] = "retire" THEN {a} ELSE {})
    BY Zenon, <1>1, <1>5, <2>1, HandsThen
  <2> QED BY Zenon, <2>2, <2>3
<1>7. \A q : Children(q)' = Children(q) BY Zenon, <1>1 DEF Children, Registered, IsRegistered
<1>8. \A b : InFlight(b)' = InFlight(b) BY Zenon, <1>1, FlightSame DEF Charging, Leaving
<1>9. \A b : Hung(b)' = Hung(b) /\ Total(Hung(b))' = Total(Hung(b))
  <2>1. \A b : Hung(b)' = Hung(b) BY Zenon, <1>1 DEF Hung, Leaving
  <2> QED BY Zenon, <2>1 DEF Total
<1>10. reserved[p] = Budget(Children(p) \ {a}) + limit[a] + Total(Hung(p))
       /\ Budget(Children(p) \ {a}) \in Nat /\ Total(Hung(p)) \in Nat
       /\ limit[a] \in Nat
  <2>1. limit \in [Arenas -> 0 .. U64Max] /\ U64Max \in Nat
    BY Zenon, ArenaTableAssumption DEF IInv, TypeOK
  <2>2. (Children(p) \ {a}) \cup {a} = Children(p) BY Zenon, <1>3
  <2> HIDE DEF a, p
  <2>3. Total(Quota((Children(p) \ {a}) \cup {a}, limit))
          = Total(Quota(Children(p) \ {a}, limit)) + limit[a]
    BY <1>0, <2>1, BudgetGrows
  <2>4. Budget(Children(p)) = Budget(Children(p) \ {a}) + limit[a]
    BY Zenon, <2>2, <2>3 DEF Budget, Quota
  <2>5. Children(p) \ Repaid = Children(p) BY Zenon, <1>6
  <2>6. reserved[p] = Budget(Children(p)) + Total(Hung(p))
    BY Zenon, <1>2, <1>3, <2>5 DEF IInv, LedgerInv
  <2>7. Budget(Children(p) \ {a}) \in Nat BY Zenon, BudgetIs DEF IInv
  <2>8. Total(Hung(p)) \in Nat
    <3>1. Hung(p) \in [Threads -> 0 .. U64Max] BY Zenon, HungType DEF IInv
    <3> QED BY Zenon, <3>1, ArenaTableAssumption, TotalType
  <2>9. limit[a] \in Nat BY <1>0, <2>1
  <2> QED BY Zenon, <2>4, <2>6, <2>7, <2>8, <2>9
<1>11. CASE pc'[t] = "return"
  <2>1. TypeOK'
    <3>1. committed[p] \in 0 .. U64Max BY Zenon, <1>3 DEF IInv, TypeOK
    <3>2. job[t] \in Job /\ job \in [Threads -> Job] BY Zenon, JobType DEF IInv
    <3>3. job' \in [Threads -> Job] BY <1>1, <1>11, <3>1, <3>2 DEF Job
    <3>4. pc' = pc BY Zenon, <1>1, <1>11 DEF ReturnReservation, Goto, IInv, TypeOK
    <3> QED BY Zenon, <1>1, <1>11, <3>3, <3>4 DEF Job, quota, IInv, TypeOK
  <2>2. SlotInv' BY Zenon, <1>1, <1>11 DEF IInv, SlotInv, quota
  <2>3. \A u \in Threads : pc'[u] = pc[u] /\ job'[u].arena = job[u].arena
                           /\ (u # t => job'[u] = job[u])
    BY Zenon, <1>1, <1>11
  <2>4. \A u \in Threads : Working(u)'
    <3>1. Working(t)' BY Zenon, <1>0, <1>1, <1>11 DEF Working, Charging, Delegating
    <3>2. \A u \in Threads \ {t} : Working(u) BY Zenon DEF IInv, WorkInv
    <3>3. \A u \in Threads \ {t} : Working(u)' BY <1>1, <3>2 DEF Working
    <3> QED BY Zenon, <3>1, <3>3
  <2>5. WorkInv' BY Zenon, <2>3, <2>4 DEF IInv, WorkInv, Owning
  <2>6. TreeInv'
    <3>1. Uncounted' = Uncounted BY Zenon, <1>6
    <3> QED BY Zenon, <1>1, <1>7, <3>1, TreeSame DEF IInv
  <2>7. \A b : Budget(Children(b) \ Repaid)' = Budget(Children(b) \ Repaid)
    BY Zenon, <1>1, <1>6, <1>11, BudgetSame
  <2>8. UNCHANGED <<state, limit, committed, reserved, live>> BY Zenon, <1>1, <1>11 DEF quota
  <2>9. LedgerInv' BY ZenonT(30), <1>8, <1>9, <2>7, <2>8, LedgerSame DEF IInv
  <2> QED BY Zenon, <1>5, <2>1, <2>2, <2>5, <2>6, <2>9 DEF IInv
<1>12. CASE pc'[t] = "retire"
  <2>0. /\ limit[a] <= reserved[p] /\ reserved[p] <= committed[p]
        /\ committed[p] \in Nat /\ reserved[p] \in Nat
    BY <1>3, <1>10, LedgerAt
  <2>1. /\ committed'[p] = committed[p] - limit[a] /\ reserved'[p] = reserved[p] - limit[a]
        /\ \A b \in Arenas \ {p} : committed'[b] = committed[b] /\ reserved'[b] = reserved[b]
    <3>1. /\ committed'[p] = SaturatingSub(committed[p], limit[a])
          /\ reserved'[p] = SaturatingSub(reserved[p], limit[a])
          /\ \A b \in Arenas \ {p} : committed'[b] = committed[b] /\ reserved'[b] = reserved[b]
      BY Zenon, <1>1, <1>3, <1>12 DEF Lower, IInv, TypeOK
    <3>2. limit[a] <= committed[p] BY <2>0, <1>10
    <3>3. /\ SaturatingSub(committed[p], limit[a]) = committed[p] - limit[a]
          /\ SaturatingSub(reserved[p], limit[a]) = reserved[p] - limit[a]
      BY Zenon, <3>2, <2>0, <1>10, NoSaturation
    <3> QED BY Zenon, <3>1, <3>3
  <2>2. TypeOK'
    <3>1. /\ committed' \in [Arenas -> 0 .. U64Max]
          /\ reserved' \in [Arenas -> 0 .. U64Max]
      <4>1. /\ committed'[p] \in 0 .. U64Max /\ reserved'[p] \in 0 .. U64Max
        <5>1. /\ committed[p] \in 0 .. U64Max /\ reserved[p] \in 0 .. U64Max
              /\ U64Max \in Nat
          BY Zenon, <1>3, ArenaTableAssumption DEF IInv, TypeOK
        <5> HIDE DEF a, p
        <5>2. limit[a] \in Nat BY Zenon, <1>10
        <5> QED BY <5>1, <5>2, <2>0, <2>1
      <4>2. /\ committed' = [committed EXCEPT ![p] = committed'[p]]
            /\ reserved' = [reserved EXCEPT ![p] = reserved'[p]]
        BY Zenon, <1>1, <1>3, <1>12 DEF Lower, IInv, TypeOK
      <4> QED BY Zenon, <4>1, <4>2 DEF IInv, TypeOK
    <3>2. pc' = [pc EXCEPT ![t] = "retire"]
      BY Zenon, <1>1, <1>12 DEF ReturnReservation, Goto, IInv, TypeOK
    <3> QED BY Zenon, <1>1, <1>12, <3>1, <3>2 DEF Job, IInv, TypeOK
  <2>3. SlotInv'
    BY <1>1, <1>3, <2>1 DEF IInv, SlotInv
  <2>4. WorkInv'
    <3>1. Working(t)' BY Zenon, <1>1, <1>2, <1>12 DEF Working, Charging, Delegating
    <3>2. \A u \in Threads \ {t} : Working(u) BY Zenon DEF IInv, WorkInv
    <3>3. \A u \in Threads \ {t} : Working(u)' BY <1>1, <3>2 DEF Working
    <3>4. \A u \in Threads : Owning(u)' => Owning(u) /\ job'[u].arena = job[u].arena
      BY Zenon, <1>1 DEF Owning, TearingDown
    <3> QED BY Zenon, <3>1, <3>3, <3>4 DEF IInv, WorkInv
  <2>5. TreeInv'
    <3>1. Uncounted' = Uncounted BY Zenon, <1>6
    <3> QED BY Zenon, <1>1, <1>7, <3>1, TreeSame DEF IInv
  <2>6. LedgerInv'
    <3>1. ASSUME NEW b \in Arenas \ {p}
          PROVE  Budget(Children(b) \ Repaid)' = Budget(Children(b) \ Repaid)
      <4>1. a \notin Children(b) BY Zenon, <1>0, <3>1, OneParent DEF IInv
      <4>2. (Children(b) \ Repaid)' = Children(b) \ Repaid BY Zenon, <1>6, <1>7, <4>1
      <4> QED BY Zenon, <1>1, <4>2 DEF Budget, Total
    <3>2. PICK q \in Arenas : q = p BY Zenon, <1>3
    <3>3. Budget(Children(q) \ Repaid)' = Budget(Children(q) \ {a})
      <4>1. (Children(q) \ Repaid)' = Children(q) \ {a} BY Zenon, <1>1, <1>6, <1>7, <1>12
      <4> QED BY Zenon, <1>1, <4>1 DEF Budget, Total
    <3>4. ASSUME NEW b \in Arenas \ {q}
          PROVE  /\ committed'[b] <= limit'[b]
                 /\ state'[b] \notin {"Resetting", "Draining"} =>
                      committed'[b] = reserved'[b] + live'[b] + InFlight(b)'
                 /\ state'[b] \in {"Resetting", "Draining"} =>
                      reserved'[b] + live'[b] <= committed'[b]
                 /\ reserved'[b] = IF limit'[b] = Unlimited THEN 0
                                   ELSE Budget(Children(b) \ Repaid)' + Total(Hung(b))'
      BY Zenon, <1>1, <1>8, <1>9, <2>1, <3>1, <3>2 DEF IInv, LedgerInv
    <3>5. /\ committed[q] <= limit[q] /\ limit[q] \in Nat
          /\ live[q] \in Nat /\ InFlight(q) \in Nat
      BY LedgerAt
    <3>6. /\ state[q] \notin {"Resetting", "Draining"} =>
               committed[q] = reserved[q] + live[q] + InFlight(q)
          /\ state[q] \in {"Resetting", "Draining"} => reserved[q] + live[q] <= committed[q]
      BY Zenon DEF IInv, LedgerInv
    <3>7. limit'[q] = limit[q] /\ state'[q] = state[q] /\ live'[q] = live[q]
          /\ InFlight(q)' = InFlight(q) /\ Total(Hung(q))' = Total(Hung(q))
      BY Zenon, <1>1, <1>8, <1>9
    <3>8. limit'[q] # Unlimited BY Zenon, <1>1, <1>2, <3>2
    <3> HIDE DEF a, p
    <3>9. /\ committed'[q] <= limit'[q]
          /\ state'[q] \notin {"Resetting", "Draining"} =>
               committed'[q] = reserved'[q] + live'[q] + InFlight(q)'
          /\ state'[q] \in {"Resetting", "Draining"} =>
               reserved'[q] + live'[q] <= committed'[q]
      BY SMTT(20), <1>10, <2>0, <2>1, <3>2, <3>5, <3>6, <3>7
    <3>10. reserved'[q] = Budget(Children(q) \ Repaid)' + Total(Hung(q))'
      BY SMTT(20), <1>10, <2>0, <2>1, <3>2, <3>3, <3>7
    <3> QED BY Zenon, <3>4, <3>8, <3>9, <3>10 DEF LedgerInv
  <2> QED BY Zenon, <1>5, <2>2, <2>3, <2>4, <2>5, <2>6 DEF IInv
<1> QED BY Zenon, <1>1, <1>11, <1>12 DEF Leaving

\* Then its slot is free again.
LEMMA RetireStep ==
  ASSUME SumLaws, IInv, NEW t \in Threads, Retire(t)
  PROVE  IInv'
<1>0. PICK a \in Arenas : a = job[t].arena BY Zenon, AtWork
<1>1. /\ pc[t] = "retire" /\ lock' = Nobody /\ pc'[t] = "idle" /\ job'[t] = NoJob
      /\ \A u \in Threads \ {t} : pc'[u] = pc[u] /\ job'[u] = job[u]
      /\ committed' = [committed EXCEPT ![a] = 0]
      /\ reserved' = [reserved EXCEPT ![a] = 0]
      /\ rights' = [rights EXCEPT ![a] = {}]
      /\ stale' = stale \cup {<<a, generation[a]>>}
      /\ generation' = [generation EXCEPT ![a] = @ + 1]
      /\ state' = [state EXCEPT ![a] = "Destroyed"]
      /\ UNCHANGED <<limit, parent_plus1, parent_generation, high_water>>
      /\ UNCHANGED <<live_children, live>>
  BY Zenon, <1>0 DEF Retire, NextGeneration, Return, Goto, IInv, TypeOK
<1>2. state[a] = "Draining" /\ live[a] = 0 /\ lock = t /\ Owning(t)
  <2>1. Working(t) BY Zenon, AtWork
  <2> QED BY Zenon, <1>0, <1>1, <2>1 DEF Working, IInv, LockInv, Locking, Owning, TearingDown
<1>3. LockInv' BY Zenon, <1>1, <1>2, LockStep DEF Locking
<1>4. TypeOK'
  <2>0. U64Max \in Nat /\ "Destroyed" \in States /\ generation[a] \in Nat
    BY Zenon, ArenaTableAssumption DEF States, IInv, TypeOK
  <2>1. /\ committed' \in [Arenas -> 0 .. U64Max] /\ reserved' \in [Arenas -> 0 .. U64Max]
        /\ state' \in [Arenas -> States] /\ rights' \in [Arenas -> SUBSET Rights]
    BY SMTT(20), <1>1, <2>0 DEF IInv, TypeOK
  <2>2. generation' \in [Arenas -> Nat] /\ stale' \subseteq Arenas \X Nat
    BY <1>1, <2>0 DEF IInv, TypeOK
  <2>3. /\ pc' = [pc EXCEPT ![t] = "idle"] /\ job' = [job EXCEPT ![t] = NoJob]
    BY Zenon DEF Retire, Return, Goto
  <2>4. job' \in [Threads -> Job] BY Zenon, <2>3, JobType DEF IInv
  <2> QED BY Zenon, <1>1, <2>1, <2>2, <2>3, <2>4 DEF Job, IInv, TypeOK
<1> QED BY Zenon, <1>0, <1>1, <1>2, <1>3, <1>4, VanishStep

\* A pending arena that is given up.
LEMMA AbandonPendingStep ==
  ASSUME SumLaws, IInv, NEW t \in Threads, AbandonPending(t)
  PROVE  IInv'
<1>0. PICK a \in Arenas : a = job[t].arena BY Zenon, AtWork
<1>1. /\ pc[t] = "pending" /\ lock = Nobody /\ lock' = Nobody
      /\ state[a] = "Initializing" /\ pc'[t] = "idle" /\ job'[t] = NoJob
      /\ \A u \in Threads \ {t} : pc'[u] = pc[u] /\ job'[u] = job[u]
      /\ rights' = [rights EXCEPT ![a] = {}]
      /\ stale' = stale \cup {<<a, generation[a]>>}
      /\ generation' = [generation EXCEPT ![a] = @ + 1]
      /\ state' = [state EXCEPT ![a] = "Destroyed"]
      /\ UNCHANGED <<limit, parent_plus1, parent_generation, high_water>>
      /\ UNCHANGED <<committed, reserved, live_children, live>>
  BY Zenon, <1>0 DEF AbandonPending, NextGeneration, Return, Goto, quota, IInv, TypeOK
<1>2. /\ live[a] = 0 /\ parent_plus1[a] = 0 /\ Owning(t)
      /\ committed[a] = 0 /\ reserved[a] = 0
  BY Zenon, <1>0, <1>1 DEF IInv, SlotInv, Owning
<1>3. /\ committed' = [committed EXCEPT ![a] = 0]
      /\ reserved' = [reserved EXCEPT ![a] = 0]
  BY Zenon, <1>1, <1>2 DEF IInv, TypeOK
<1>4. LockInv' BY Zenon, <1>1, LockStep DEF Locking
<1>5. TypeOK'
  <2>0. "Destroyed" \in States /\ generation[a] \in Nat
    BY Zenon DEF States, IInv, TypeOK
  <2>1. /\ state' \in [Arenas -> States] /\ rights' \in [Arenas -> SUBSET Rights]
    BY Zenon, <1>1, <2>0 DEF IInv, TypeOK
  <2>2. generation' \in [Arenas -> Nat] /\ stale' \subseteq Arenas \X Nat
    BY <1>1, <2>0 DEF IInv, TypeOK
  <2>3. /\ pc' = [pc EXCEPT ![t] = "idle"] /\ job' = [job EXCEPT ![t] = NoJob]
    BY Zenon DEF AbandonPending, Return, Goto
  <2>4. job' \in [Threads -> Job] BY Zenon, <2>3, JobType DEF IInv
  <2> QED BY Zenon, <1>1, <2>1, <2>2, <2>3, <2>4 DEF Job, IInv, TypeOK
<1> QED BY Zenon, <1>0, <1>1, <1>2, <1>3, <1>4, <1>5, VanishStep

-----------------------------------------------------------------------------
(* Creation. *)

\* What create writes into a slot.
LEMMA CreateSlots ==
  ASSUME SumLaws, IInv, NEW id \in Arenas, NEW r \in SUBSET Rights, NEW q \in 0 .. U64Max,
         NEW pp \in 0 .. MaxArenas, NEW pg \in Nat, NEW st \in {"Active", "Initializing"},
         Create(id, r, q, pp, pg, st)
  PROVE  Made(id, q, pp, pg, st)
<1>0. /\ U64Max \in Nat /\ MaxArenas \in Nat /\ id \in Nat /\ id < MaxArenas
      /\ high_water \in 1 .. MaxArenas /\ generation[id] \in Nat /\ st \in States
  BY ArenaTableAssumption DEF IInv, TypeOK, States, Arenas
<1>1. /\ id \in Claimable
      /\ high_water' = (IF id = high_water THEN high_water + 1 ELSE high_water)
      /\ generation' = [generation EXCEPT ![id] = @ + 1]
      /\ rights' = [rights EXCEPT ![id] = r]
      /\ committed' = [committed EXCEPT ![id] = 0]
      /\ reserved' = [reserved EXCEPT ![id] = 0]
      /\ limit' = [limit EXCEPT ![id] = q]
      /\ parent_plus1' = [parent_plus1 EXCEPT ![id] = pp]
      /\ parent_generation' = [parent_generation EXCEPT ![id] = pg]
      /\ state' = [state EXCEPT ![id] = st]
  BY Zenon DEF Create, NextGeneration
<1>2. /\ state' \in [Arenas -> States] /\ rights' \in [Arenas -> SUBSET Rights]
      /\ generation' \in [Arenas -> Nat] /\ parent_generation' \in [Arenas -> Nat]
  BY SMTT(20), <1>0, <1>1 DEF IInv, TypeOK
<1>3. /\ committed' \in [Arenas -> 0 .. U64Max] /\ reserved' \in [Arenas -> 0 .. U64Max]
      /\ limit' \in [Arenas -> 0 .. U64Max] /\ parent_plus1' \in [Arenas -> 0 .. MaxArenas]
  BY <1>0, <1>1 DEF IInv, TypeOK
<1>4. /\ state'[id] = st /\ committed'[id] = 0 /\ reserved'[id] = 0 /\ limit'[id] = q
      /\ parent_plus1'[id] = pp /\ parent_generation'[id] = pg
      /\ generation'[id] = generation[id] + 1
  BY Zenon, <1>1 DEF IInv, TypeOK
<1>5. \A b \in Arenas \ {id} :
              /\ state'[b] = state[b] /\ committed'[b] = committed[b]
              /\ reserved'[b] = reserved[b] /\ limit'[b] = limit[b]
              /\ parent_plus1'[b] = parent_plus1[b] /\ generation'[b] = generation[b]
              /\ parent_generation'[b] = parent_generation[b]
  BY Zenon, <1>1 DEF IInv, TypeOK
<1>6. high_water' \in 1 .. MaxArenas BY <1>0, <1>1
<1>7. ASSUME NEW b \in Arenas, b >= high_water' PROVE b # id /\ state[b] = "Destroyed"
  <2>1. b \in Nat /\ b < MaxArenas BY <1>0 DEF Arenas
  <2>2. id = high_water \/ high_water >= MaxArenas BY Zenon, <1>1, Unclaimed
  <2>3. b # id /\ b >= high_water BY SMTT(20), <1>0, <1>1, <1>7, <2>1, <2>2
  <2> QED BY Zenon, <2>3 DEF IInv, SlotInv
<1>8. Registered' = Registered \cup {id}
  BY Zenon, <1>4, <1>5 DEF Registered, IsRegistered
<1> QED BY Zenon, <1>0, <1>2, <1>3, <1>4, <1>5, <1>6, <1>7, <1>8 DEF Made


\* create: a root, in use at once.
LEMMA CreateArenaStep ==
  ASSUME SumLaws, IInv, NEW t \in Threads, NEW id \in Arenas, NEW r \in Asked, NEW q \in Quotas,
         CreateArena(t, id, r, q)
  PROVE  IInv'
<1>1. /\ pc[t] = "idle" /\ lock = Nobody /\ lock' = Nobody
      /\ Create(id, r, q, 0, 0, "Active") /\ id \in Claimable
      /\ pc' = pc /\ job' = job /\ UNCHANGED <<live_children, live, stale>>
  BY Zenon DEF CreateArena, Create
<1>2. r \in SUBSET Rights /\ q \in 0 .. U64Max /\ 0 \in 0 .. MaxArenas /\ 0 \in Nat
  BY ArenaTableAssumption
<1>3. Made(id, q, 0, 0, "Active") BY Zenon, <1>1, <1>2, CreateSlots
<1>4. /\ \A u \in Threads : pc[u] \notin Locking
      /\ Uncounted = {} /\ Repaid = {} /\ \A b : Total(Hung(b)) = 0
  BY Zenon, <1>1, LockFree
<1>5. LockInv' BY Zenon, <1>1 DEF IInv, LockInv
<1>6. /\ pc' \in [Threads -> {"idle", "charge", "charged", "credit", "reserve",
                           "create", "unreserve", "pending", "reset", "destroy",
                           "resetDrained", "destroyDrained", "failed", "return",
                           "retire"}]
      /\ job' \in [Threads -> Job]
  BY Zenon, <1>1, JobType DEF IInv, TypeOK
<1>7. Working(t)' /\ ~Owning(t)' BY Zenon, <1>1 DEF Working, Charging, Delegating, Owning, TearingDown
<1>8. \A b \in Arenas : 0 # b + 1 BY ArenaTableAssumption DEF Arenas
<1>9. pc[t] \notin Charging /\ pc'[t] \notin Charging BY Zenon, <1>1 DEF Charging
<1>10. Making(t, id, q, 0, 0, "Active")
  BY Zenon, <1>1, <1>2, <1>3, <1>4, <1>5, <1>6, <1>7, <1>8, <1>9 DEF Making
<1> QED BY Zenon, <1>2, <1>10, CreateStep

\* create_pending: a root that its owner publishes later.
LEMMA CreatePendingStep ==
  ASSUME SumLaws, IInv, NEW t \in Threads, NEW id \in Arenas, NEW r \in Asked, NEW q \in Quotas,
         CreatePending(t, id, r, q)
  PROVE  IInv'
<1>1. /\ pc[t] = "idle" /\ lock = Nobody /\ lock' = Nobody
      /\ Create(id, r, q, 0, 0, "Initializing") /\ id \in Claimable
      /\ pc' = [pc EXCEPT ![t] = "pending"]
      /\ job' = [job EXCEPT ![t] = [NoJob EXCEPT !.arena = id]]
      /\ UNCHANGED <<live_children, live, stale>>
  BY Zenon DEF CreatePending, Create, Goto
<1>2. r \in SUBSET Rights /\ q \in 0 .. U64Max /\ 0 \in 0 .. MaxArenas /\ 0 \in Nat
  BY ArenaTableAssumption
<1>3. Made(id, q, 0, 0, "Initializing") BY Zenon, <1>1, <1>2, CreateSlots
<1>4. /\ \A u \in Threads : pc[u] \notin Locking
      /\ Uncounted = {} /\ Repaid = {} /\ \A b : Total(Hung(b)) = 0
  BY Zenon, <1>1, LockFree
<1>5. /\ \A u \in Threads \ {t} : pc'[u] = pc[u] /\ job'[u] = job[u]
      /\ pc'[t] = "pending" /\ job'[t].arena = id
  BY Zenon, <1>1 DEF NoJob, IInv, TypeOK
<1>6. LockInv' BY Zenon, <1>1, <1>5, LockStep DEF Locking
<1>7. /\ pc' \in [Threads -> {"idle", "charge", "charged", "credit", "reserve",
                           "create", "unreserve", "pending", "reset", "destroy",
                           "resetDrained", "destroyDrained", "failed", "return",
                           "retire"}]
      /\ job' \in [Threads -> Job]
  <2>1. [NoJob EXCEPT !.arena = id] \in Job BY Zenon, JobType DEF Job
  <2> QED BY Zenon, <1>1, <2>1, JobType DEF IInv, TypeOK
<1>8. state'[id] = "Initializing" BY Zenon, <1>3 DEF Made
<1>9. Working(t)' BY Zenon, <1>5, <1>8 DEF Working, Charging, Delegating
<1>10. \A b \in Arenas : 0 # b + 1 BY ArenaTableAssumption DEF Arenas
<1>11. pc[t] \notin Charging /\ pc'[t] \notin Charging BY Zenon, <1>1, <1>5 DEF Charging
<1>12. Making(t, id, q, 0, 0, "Initializing")
  BY Zenon, <1>1, <1>2, <1>3, <1>4, <1>5, <1>6, <1>7, <1>9, <1>10, <1>11 DEF Making
<1> QED BY Zenon, <1>2, <1>12, CreateStep

\* The reservation made before the slot was looked for is now the child's.
LEMMA DelegateCreateStep ==
  ASSUME SumLaws, IInv, NEW t \in Threads, DelegateCreate(t)
  PROVE  IInv'
<1>0. PICK p \in Arenas : p = job[t].arena BY Zenon, AtWork
<1>1. PICK id \in Arenas :
        Create(id, job[t].rights, job[t].size, p + 1, generation[p], "Active")
  BY Zenon, <1>0 DEF DelegateCreate
<1>2. /\ pc[t] = "create" /\ lock' = Nobody
      /\ live_children' = [live_children EXCEPT ![p] = @ + 1]
      /\ pc' = [pc EXCEPT ![t] = "idle"] /\ job' = [job EXCEPT ![t] = NoJob]
      /\ UNCHANGED <<live, stale>>
  BY Zenon, <1>0 DEF DelegateCreate, Return, Goto
<1>3. PICK r \in SUBSET Rights, q \in 0 .. U64Max, pp \in 0 .. MaxArenas, pg \in Nat :
        r = job[t].rights /\ q = job[t].size /\ pp = p + 1 /\ pg = generation[p]
  <2>1. job[t] \in Job /\ generation[p] \in Nat BY Zenon, JobType DEF IInv, TypeOK
  <2>2. p + 1 \in 0 .. MaxArenas BY ArenaTableAssumption DEF Arenas
  <2> QED BY Zenon, <2>1, <2>2 DEF Job
<1>4. Made(id, q, pp, pg, "Active") /\ id \in Claimable
  <2>1. Create(id, r, q, pp, pg, "Active") BY Zenon, <1>1, <1>3
  <2>2. id \in Claimable BY Zenon, <2>1 DEF Create
  <2> QED BY Zenon, <2>1, <2>2, CreateSlots
<1>5. lock = t /\ state[p] = "Active" /\ \A u \in Threads \ {t} : pc[u] \notin Locking
  <2>1. Working(t) BY Zenon, AtWork
  <2>2. lock = t BY Zenon, <1>2 DEF IInv, LockInv, Locking
  <2> QED BY Zenon, <1>0, <1>2, <2>1, <2>2 DEF Working, Delegating, IInv, LockInv
<1>6. Uncounted = {} /\ Repaid = {}
  <2>1. \A u \in Threads \ {t} : lock # u BY Zenon, <1>5
  <2> QED BY Zenon, <1>2, <2>1, HandsNow DEF IInv, Leaving
<1>7. /\ \A u \in Threads \ {t} : pc'[u] = pc[u] /\ job'[u] = job[u]
      /\ pc'[t] = "idle" /\ job'[t] = NoJob
  BY Zenon, <1>2 DEF IInv, TypeOK
<1>8. LockInv' BY Zenon, <1>2, <1>5, <1>7, LockStep DEF Locking
<1>9. /\ pc' \in [Threads -> {"idle", "charge", "charged", "credit", "reserve",
                           "create", "unreserve", "pending", "reset", "destroy",
                           "resetDrained", "destroyDrained", "failed", "return",
                           "retire"}]
      /\ job' \in [Threads -> Job]
  BY Zenon, <1>2, JobType DEF IInv, TypeOK
<1>10. Working(t)' /\ ~Owning(t)'
  BY Zenon, <1>7 DEF Working, Charging, Delegating, Owning, TearingDown
<1>11. pc[t] \notin Charging /\ pc'[t] \notin Charging BY Zenon, <1>2, <1>7 DEF Charging
<1>12. p \in Int /\ pp # 0 /\ pp - 1 = p /\ \A b \in Arenas : pp = b + 1 <=> b = p
  BY <1>3, ArenaTableAssumption DEF Arenas
<1>13. ASSUME NEW b \in Arenas
       PROVE  Total(Hung(b)) = IF pp = b + 1 THEN q ELSE 0
  <2>0. U64Max \in Nat /\ IsFiniteSet(Threads) /\ q \in Nat BY ArenaTableAssumption
  <2>1. Hung(b) \in [Threads -> 0 .. U64Max] BY Zenon, HungType DEF IInv
  <2>2. \A u \in Threads \ {t} : Hung(b)[u] = 0 BY Zenon, <1>5 DEF Hung, Locking
  <2>3. Hung(b)[t] = IF b = p THEN q ELSE 0 BY Zenon, <1>0, <1>2, <1>3 DEF Hung
  <2> DEFINE Z == [u \in Threads |-> 0]
  <2>4. Z \in [Threads -> 0 .. U64Max] /\ \A u \in Threads : Z[u] = 0 BY <2>0
  <2> HIDE DEF Z
  <2>5. Total(Z) = 0 BY Zenon, <2>4, TotalZero
  <2>6. Total(Hung(b)) = Total(Z) - Z[t] + Hung(b)[t]
    BY <2>0, <2>1, <2>2, <2>4, TotalChanges
  <2>7. Total(Hung(b)) = Hung(b)[t]
    <3>1. Hung(b)[t] \in Nat BY <2>0, <2>1
    <3> QED BY <2>4, <2>5, <2>6, <3>1
  <2> QED BY Zenon, <1>12, <2>3, <2>7
<1>14. live_children' = IF pp = 0 THEN live_children
                        ELSE [live_children EXCEPT ![pp - 1] = @ + 1]
  BY Zenon, <1>2, <1>12
<1>15. pp # 0 => state[pp - 1] = "Active" /\ generation[pp - 1] = pg
  BY Zenon, <1>3, <1>5, <1>12
<1>16. Making(t, id, q, pp, pg, "Active")
  BY Zenon, <1>2, <1>4, <1>5, <1>6, <1>7, <1>8, <1>9, <1>10, <1>11, <1>13, <1>14, <1>15 DEF Making
<1> QED BY Zenon, <1>16, CreateStep
=============================================================================
