--------------------------- MODULE FrontEndProofs ---------------------------
(***************************************************************************)
(* Proofs about FrontEnd, for every set of threads, cores and objects and  *)
(* every size of the caches.  Whoever is past the lock and the fence of a  *)
(* core's slot works on it alone, although the thread that runs on the     *)
(* core takes no lock in its restartable sequence.  OwnInv adds what that  *)
(* rests on: a core runs one thread, a sequence about to commit is on its  *)
(* own core, and the latch covers every sequence that can still start.     *)
(***************************************************************************)
EXTENDS FrontEnd, TLAPS

\* The steps and the operations of a thread.
Pcs == {"idle", "section", "commit", "pinned", "lock", "body", "xget", "cget", "xput",
        "cput", "central", "any", "xlast", "cfree", "look", "loop", "xdrain"}
Jobs == {"none", "pop", "repop", "push", "repush", "refill", "flush", "drain", "empty"}

\* At these steps an operation works on the slot of a core.
OnSlot(p, j) ==
    \/ p \in {"commit", "pinned", "lock", "body", "xget", "cget", "look", "loop"}
    \/ p \in {"xput", "cput"} /\ j # "empty"

\* A thread runs on one core, a core runs one thread.  Who is past the fence
\* holds the lock of the slot, a sequence about to commit runs on its own core,
\* and the latch covers every sequence and every way to start one.
OwnInv ==
    /\ on \in [Threads -> Cpus \cup {None}]
    /\ \A t, u \in Threads : on[t] = on[u] /\ on[t] # None => t = u
    /\ lock \in [Cpus -> Threads \cup {None}]
    /\ pc \in [Threads -> Pcs] /\ job \in [Threads -> Jobs]
    /\ at \in [Threads -> Cpus \cup {None}] /\ cores \in [Threads -> SUBSET Cpus]
    /\ \A t \in Threads :
         /\ OnSlot(pc[t], job[t]) => at[t] \in Cpus
         /\ pc[t] = "body" => lock[at[t]] = t
         /\ pc[t] = "commit" => on[t] = at[t]
         /\ pc[t] \in {"section", "commit"} => latch
    /\ mode = "rseq" \/ arming => latch
    /\ OwnerExcluded

\* The thread goes on to a step outside both the sequence and the locked access.
Goes(t) ==
    /\ \E p \in Pcs \ {"body", "commit"}, j \in Jobs, c \in Cpus \cup {None} :
         /\ OnSlot(p, j) => c \in Cpus
         /\ p = "section" => latch
         /\ pc' = [pc EXCEPT ![t] = p] /\ job' = [job EXCEPT ![t] = j]
         /\ at' = [at EXCEPT ![t] = c]
    /\ cores' = cores \/ \E S \in SUBSET Cpus : cores' = [cores EXCEPT ![t] = S]

\* Such a step keeps OwnInv, be it that the thread unlocks the slot on its way.
LEMMA GoesStep ==
  ASSUME ConstantsOK, OwnInv, NEW t \in Threads, Goes(t), on' = on,
         UNCHANGED <<mode, latch, arming>>,
         \/ lock' = lock
         \/ pc[t] = "body" /\ lock' = [lock EXCEPT ![at[t]] = None]
  PROVE  OwnInv'
<1>1. PICK p \in Pcs \ {"body", "commit"}, j \in Jobs, c \in Cpus \cup {None} :
         /\ OnSlot(p, j) => c \in Cpus
         /\ p = "section" => latch
         /\ pc' = [pc EXCEPT ![t] = p] /\ job' = [job EXCEPT ![t] = j]
         /\ at' = [at EXCEPT ![t] = c]
  BY Zenon DEF Goes
<1>2. /\ pc' \in [Threads -> Pcs] /\ job' \in [Threads -> Jobs]
      /\ at' \in [Threads -> Cpus \cup {None}] /\ cores' \in [Threads -> SUBSET Cpus]
  BY <1>1 DEF OwnInv, Goes
<1>3. /\ pc'[t] = p /\ job'[t] = j /\ at'[t] = c
      /\ \A u \in Threads : u # t => pc'[u] = pc[u] /\ job'[u] = job[u] /\ at'[u] = at[u]
  BY <1>1 DEF OwnInv
<1>4. lock' \in [Cpus -> Threads \cup {None}]
  BY DEF OwnInv
<1>5. ASSUME NEW u \in Threads, pc'[u] = "body" PROVE lock'[at'[u]] = u
  <2>1. u # t /\ at'[u] = at[u] /\ lock[at[u]] = u /\ at[u] \in Cpus
    BY SMTT(20), <1>1, <1>3, <1>5 DEF OwnInv, OnSlot
  <2>2. CASE pc[t] = "body" /\ lock' = [lock EXCEPT ![at[t]] = None]
    <3>1. lock[at[t]] = t BY <2>2 DEF OwnInv
    <3>2. at[u] # at[t] BY <2>1, <3>1
    <3>3. QED BY <2>1, <2>2, <3>2 DEF OwnInv
  <2>3. QED BY <2>1, <2>2
<1>6. ASSUME NEW u \in Threads
      PROVE  /\ OnSlot(pc'[u], job'[u]) => at'[u] \in Cpus
             /\ pc'[u] = "commit" => on[u] = at'[u]
             /\ pc'[u] \in {"section", "commit"} => latch
  BY <1>1, <1>3 DEF OwnInv
<1>7. OwnerExcluded'
  BY <1>1, <1>3 DEF OwnInv, OwnerExcluded
<1>8. QED BY SMTT(20), <1>2, <1>4, <1>5, <1>6, <1>7 DEF OwnInv

-----------------------------------------------------------------------------
(* Where an operation goes next. *)

Calm == Pcs \ {"body", "commit"}

\* The names of the steps and of the operations.
LEMMA Names ==
  /\ "idle" \in Calm /\ "section" \in Calm /\ "pinned" \in Calm /\ "lock" \in Calm
  /\ "xget" \in Calm /\ "cget" \in Calm /\ "xput" \in Calm /\ "cput" \in Calm
  /\ "central" \in Calm /\ "any" \in Calm /\ "xlast" \in Calm /\ "cfree" \in Calm
  /\ "look" \in Calm /\ "loop" \in Calm /\ "xdrain" \in Calm
  /\ "none" \in Jobs /\ "pop" \in Jobs /\ "repop" \in Jobs /\ "push" \in Jobs
  /\ "repush" \in Jobs /\ "refill" \in Jobs /\ "flush" \in Jobs /\ "drain" \in Jobs
  /\ "empty" \in Jobs
BY Zenon DEF Calm, Pcs, Jobs

\* To, for a step outside the two critical ones.
LEMMA GoesTo ==
  ASSUME OwnInv, NEW t \in Threads, NEW p \in Calm, NEW j \in Jobs,
         NEW c \in Cpus \cup {None}, To(t, p, j, c), OnSlot(p, j) => c \in Cpus,
         p = "section" => latch,
         cores' = cores \/ \E S \in SUBSET Cpus : cores' = [cores EXCEPT ![t] = S]
  PROVE  Goes(t)
BY Zenon DEF Goes, Calm, To, Goto

\* Goto, which stays on the core.
LEMMA GoesOn ==
  ASSUME OwnInv, NEW t \in Threads, NEW p \in Calm, NEW j \in Jobs,
         Goto(t, p, j), at' = at, OnSlot(p, j) => at[t] \in Cpus,
         p # "section", cores' = cores
  PROVE  Goes(t)
<1>1. at' = [at EXCEPT ![t] = at[t]] /\ at[t] \in Cpus \cup {None} BY DEF OwnInv
<1>2. QED BY Zenon, <1>1 DEF Goes, Calm, Goto

\* The end of an operation.
LEMMA GoesHome ==
  ASSUME OwnInv, NEW t \in Threads, Finish(t)
  PROVE  Goes(t)
<1>1. To(t, "idle", "none", None) /\ cores' = [cores EXCEPT ![t] = {}]
  BY Zenon DEF Finish
<1>2. "idle" \in Calm /\ "none" \in Jobs /\ ~OnSlot("idle", "none")
  BY Zenon, Names DEF OnSlot
<1>3. QED BY Zenon, <1>1, <1>2, GoesTo, Names

\* The mode decides how an access begins.
LEMMA GoesDispatch ==
  ASSUME OwnInv, NEW t \in Threads, on[t] # None, NEW j \in Jobs \ {"empty"},
         Dispatch(t, j), cores' = cores
  PROVE  Goes(t)
<1>1. CASE mode = "rseq" /\ To(t, "section", j, None)
  <2>1. latch /\ "section" \in Calm /\ ~OnSlot("section", j)
    BY Zenon, <1>1, Names DEF OnSlot, OwnInv
  <2>2. QED BY Zenon, <1>1, <2>1, GoesTo, Names
<1>2. CASE To(t, "pinned", j, on[t])
  <2>1. on[t] \in Cpus BY DEF OwnInv
  <2>2. QED BY Zenon, <1>2, <2>1, GoesTo, Names
<1>3. CASE \E c \in Cpus : To(t, "lock", j, c)
  <2>1. "lock" \in Calm BY Zenon, Names
  <2>2. QED BY Zenon, <1>3, <2>1, GoesTo, Names
<1>4. QED BY Zenon, <1>1, <1>2, <1>3 DEF Dispatch, CurrentCore

\* An empty pop and a full push.
LEMMA GoesAfter ==
  ASSUME OwnInv, NEW t \in Threads, on[t] # None, NEW c \in Cpus,
         AfterEmpty(t, c) \/ AfterFull(t, c)
  PROVE  Goes(t)
<1>1. cores' = cores BY Zenon DEF AfterEmpty, AfterFull, Stay
<1>2. CASE To(t, "xget", "refill", c) BY Zenon, <1>1, <1>2, GoesTo, Names
<1>3. CASE Dispatch(t, "pop") BY Zenon, <1>1, <1>3, GoesDispatch, Names
<1>4. CASE To(t, "central", "none", None) BY Zenon, <1>1, <1>4, GoesTo, Names DEF OnSlot
<1>5. CASE To(t, "lock", "flush", c) BY Zenon, <1>1, <1>5, GoesTo, Names
<1>6. CASE To(t, "cfree", "none", None) BY Zenon, <1>1, <1>6, GoesTo, Names DEF OnSlot
<1>7. QED BY Zenon, <1>2, <1>3, <1>4, <1>5, <1>6 DEF AfterEmpty, AfterFull

\* A drain turns to another core, or to the transfer bin.
LEMMA GoesNextCore ==
  ASSUME OwnInv, NEW t \in Threads, NEW S \in SUBSET Cpus, NextCore(t, S)
  PROVE  Goes(t)
<1>1. ASSUME NEW c \in S, To(t, "look", "drain", c), cores' = [cores EXCEPT ![t] = S \ {c}]
      PROVE  Goes(t)
  <2>1. c \in Cpus /\ S \ {c} \in SUBSET Cpus BY Zenon
  <2>2. QED BY Zenon, <1>1, <2>1, GoesTo, Names
<1>2. CASE To(t, "xdrain", "empty", None) /\ cores' = cores
  BY Zenon, <1>2, GoesTo, Names DEF OnSlot
<1>3. QED BY Zenon, <1>1, <1>2 DEF NextCore

\* A declined access.
LEMMA GoesDeclined ==
  ASSUME OwnInv, NEW t \in Threads, on[t] # None, at[t] \in Cpus, Declined(t)
  PROVE  Goes(t)
<1>1. CASE AfterEmpty(t, at[t]) \/ AfterFull(t, at[t]) BY Zenon, <1>1, GoesAfter
<1>2. CASE To(t, "xput", "refill", at[t]) /\ Stay(t)
  BY Zenon, <1>2, GoesTo, Names DEF Stay
<1>3. CASE Dispatch(t, "repush") /\ Stay(t) BY Zenon, <1>3, GoesDispatch, Names DEF Stay
<1>4. CASE NextCore(t, cores[t])
  <2>1. cores[t] \in SUBSET Cpus BY Zenon DEF OwnInv
  <2>2. QED BY Zenon, <1>4, <2>1, GoesNextCore
<1>5. QED BY Zenon, <1>1, <1>2, <1>3, <1>4 DEF Declined

\* A stored batch.
LEMMA GoesContinue ==
  ASSUME OwnInv, NEW t \in Threads, on[t] # None, pc[t] \in {"xput", "cput"},
         Continue(t), cores' = cores
  PROVE  Goes(t)
<1>1. job[t] # "empty" => at[t] \in Cpus BY Zenon DEF OwnInv, OnSlot
<1>2. CASE job[t] = "refill" /\ PopOnCore(t)
  BY Zenon, <1>1, <1>2, GoesTo, Names DEF PopOnCore
<1>3. CASE job[t] = "flush" /\ Dispatch(t, "repush") BY Zenon, <1>3, GoesDispatch, Names
<1>4. CASE job[t] = "drain" /\ To(t, "loop", "drain", at[t])
  BY Zenon, <1>1, <1>4, GoesTo, Names
<1>5. CASE job[t] = "empty" /\ To(t, "xdrain", "empty", None)
  BY Zenon, <1>5, GoesTo, Names DEF OnSlot
<1>6. QED BY Zenon, <1>2, <1>3, <1>4, <1>5 DEF Continue

-----------------------------------------------------------------------------
(* The actions. *)

Framed(t) ==
    /\ UNCHANGED <<on, mode, latch, arming>>
    /\ \/ lock' = lock
       \/ pc[t] = "body" /\ lock' = [lock EXCEPT ![at[t]] = None]

\* The calls begin.
LEMMA StartsStep ==
  ASSUME OwnInv, NEW t \in Threads, on[t] # None, on' = on, Starts(t)
  PROVE  Goes(t) /\ Framed(t)
<1>1. Framed(t)
  BY Zenon DEF Framed, Starts, AllocSmall, FreeSmall, FlushFrontEndAll, modeVars
<1>2. CASE AllocSmall(t)
  <2>1. Dispatch(t, "pop") /\ cores' = cores BY Zenon, <1>2 DEF AllocSmall
  <2>2. QED BY Zenon, <1>1, <2>1, GoesDispatch, Names
<1>3. CASE FreeSmall(t)
  <2>1. Dispatch(t, "push") /\ cores' = cores BY Zenon, <1>3 DEF FreeSmall
  <2>2. QED BY Zenon, <1>1, <2>1, GoesDispatch, Names
<1>4. CASE FlushFrontEndAll(t)
  <2>1. NextCore(t, Cpus) /\ Cpus \in SUBSET Cpus BY Zenon, <1>4 DEF FlushFrontEndAll
  <2>2. QED BY Zenon, <1>1, <2>1, GoesNextCore
<1>5. QED BY Zenon, <1>2, <1>3, <1>4 DEF Starts

\* The transfer cache and the central free list.
LEMMA MiddleStep ==
  ASSUME OwnInv, NEW t \in Threads, on[t] # None, on' = on, Middle(t)
  PROVE  Goes(t) /\ Framed(t)
<1>1. Framed(t)
  BY Zenon DEF Framed, Middle, RefillFromTransfer, RefillFromCentral, ToTransfer,
     ToCentral, FreeToCentral, AllocFromCentral, AllocAnyClass,
     AllocFromTransfer, modeVars
<1>2. CASE RefillFromTransfer(t)
  <2>1. /\ pc[t] = "xget" /\ at' = at /\ cores' = cores
        /\ Goto(t, "lock", "refill") \/ Goto(t, "cget", "refill")
    BY Zenon, <1>2 DEF RefillFromTransfer
  <2>2. at[t] \in Cpus BY Zenon, <2>1 DEF OwnInv, OnSlot
  <2>3. QED BY Zenon, <1>1, <2>1, <2>2, GoesOn, Names
<1>3. CASE RefillFromCentral(t)
  <2>1. /\ pc[t] = "cget" /\ cores' = cores
        /\ To(t, "central", "none", None) \/ To(t, "lock", "refill", at[t])
    BY Zenon, <1>3 DEF RefillFromCentral
  <2>2. at[t] \in Cpus BY Zenon, <2>1 DEF OwnInv, OnSlot
  <2>3. CASE To(t, "central", "none", None)
    BY Zenon, <1>1, <2>1, <2>3, GoesTo, Names DEF OnSlot
  <2>4. CASE To(t, "lock", "refill", at[t]) BY Zenon, <1>1, <2>1, <2>2, <2>4, GoesTo, Names
  <2>5. QED BY Zenon, <2>1, <2>3, <2>4
<1>4. CASE ToTransfer(t)
  <2>1. /\ pc[t] = "xput" /\ cores' = cores
        /\ Continue(t) \/ To(t, "cput", job[t], at[t])
    BY Zenon, <1>4 DEF ToTransfer
  <2>2. /\ job[t] \in Jobs /\ at[t] \in Cpus \cup {None}
        /\ OnSlot("cput", job[t]) => at[t] \in Cpus
    BY ZenonT(30), <2>1 DEF OwnInv, OnSlot
  <2>3. CASE To(t, "cput", job[t], at[t]) BY Zenon, <1>1, <2>1, <2>2, <2>3, GoesTo, Names
  <2>4. QED BY Zenon, <1>1, <2>1, <2>3, GoesContinue
<1>5. CASE ToCentral(t)
  <2>1. pc[t] = "cput" /\ cores' = cores /\ Continue(t) BY Zenon, <1>5 DEF ToCentral
  <2>2. QED BY Zenon, <1>1, <2>1, GoesContinue
<1>6. CASE FreeToCentral(t) BY Zenon, <1>1, <1>6, GoesHome DEF FreeToCentral
<1>7. CASE AllocFromCentral(t)
  <2>1. \/ Finish(t) \/ UNCHANGED <<pc, job, at, cores>>
        \/ To(t, "any", "none", None) /\ cores' = cores
    BY Zenon, <1>7 DEF AllocFromCentral, Vend, Stay
  <2>2. CASE UNCHANGED <<pc, job, at, cores>>
    <3>1. /\ pc[t] = "central" /\ job[t] \in Jobs /\ at[t] \in Cpus \cup {None}
          /\ pc' = [pc EXCEPT ![t] = "central"] /\ job' = [job EXCEPT ![t] = job[t]]
      BY SMTT(20), <1>7, <2>2 DEF AllocFromCentral, OwnInv
    <3>2. Goto(t, "central", job[t]) BY Zenon, <3>1 DEF Goto
    <3>3. QED BY Zenon, <1>1, <2>2, <3>1, <3>2, GoesOn, Names DEF OnSlot
  <2>3. CASE To(t, "any", "none", None) /\ cores' = cores
    BY Zenon, <1>1, <2>3, GoesTo, Names DEF OnSlot
  <2>4. QED BY Zenon, <1>1, <2>1, <2>2, <2>3, GoesHome
<1>8. CASE AllocAnyClass(t)
  <2>1. Finish(t) \/ (To(t, "xlast", "none", None) /\ cores' = cores)
    BY Zenon, <1>8 DEF AllocAnyClass, Vend, Stay
  <2>2. CASE To(t, "xlast", "none", None) /\ cores' = cores
    BY ZenonT(30), <1>1, <2>2, GoesTo, Names DEF OnSlot
  <2>3. QED BY Zenon, <1>1, <2>1, <2>2, GoesHome
<1>9. CASE AllocFromTransfer(t)
  BY Zenon, <1>1, <1>9, GoesHome DEF AllocFromTransfer, Vend
<1>10. QED BY Zenon, <1>2, <1>3, <1>4, <1>5, <1>6, <1>7, <1>8, <1>9 DEF Middle

\* The drains.
LEMMA DrainsStep ==
  ASSUME OwnInv, NEW t \in Threads, on[t] # None, on' = on, Drains(t)
  PROVE  Goes(t) /\ Framed(t)
<1>1. Framed(t)
  BY Zenon DEF Framed, Drains, DrainLook, DrainLoop, DrainTransfer, modeVars
<1>2. CASE DrainLook(t) \/ DrainLoop(t)
  <2>1. /\ pc[t] \in {"look", "loop"}
        /\ \/ NextCore(t, cores[t])
           \/ Goto(t, "lock", "drain") /\ at' = at /\ cores' = cores
    BY Zenon, <1>2 DEF DrainLook, DrainLoop
  <2>2. at[t] \in Cpus /\ cores[t] \in SUBSET Cpus BY Zenon, <2>1 DEF OwnInv, OnSlot
  <2>3. QED BY Zenon, <1>1, <2>1, <2>2, GoesNextCore, GoesOn, Names
<1>3. CASE DrainTransfer(t)
  <2>1. Finish(t) \/ (To(t, "cput", "empty", None) /\ cores' = cores)
    BY Zenon, <1>3 DEF DrainTransfer
  <2>2. CASE To(t, "cput", "empty", None) /\ cores' = cores
    BY Zenon, <1>1, <2>2, GoesTo, Names DEF OnSlot
  <2>3. QED BY Zenon, <1>1, <2>1, <2>2, GoesHome
<1>4. QED BY Zenon, <1>2, <1>3 DEF Drains

\* The accesses that keep out of the two critical steps, or leave them.
LEMMA PlainAccessStep ==
  ASSUME OwnInv, NEW t \in Threads, on[t] # None, on' = on,
         \/ SectionFallback(t) \/ SectionCommit(t) \/ PinnedAccess(t)
         \/ PinnedUnknown(t) \/ PopLocked(t) \/ PushLocked(t) \/ PopBatch(t)
         \/ PushBatch(t)
  PROVE  Goes(t) /\ Framed(t)
<1>0. pc[t] \in {"pinned", "body"} => at[t] \in Cpus BY Zenon DEF OwnInv, OnSlot
<1>1. CASE SectionFallback(t)
  <2>1. Framed(t) BY ZenonT(30), <1>1 DEF SectionFallback, Framed, modeVars
  <2>2. PICK c \in Cpus : To(t, "lock", job[t], c)
    BY Zenon, <1>1 DEF SectionFallback, CurrentCore
  <2>3. cores' = cores /\ job[t] \in Jobs
    BY Zenon, <1>1 DEF SectionFallback, Stay, OwnInv
  <2>4. QED BY Zenon, <2>1, <2>2, <2>3, GoesTo, Names
<1>2. CASE SectionCommit(t)
  <2>1. Framed(t) BY Zenon, <1>2 DEF SectionCommit, Framed, modeVars
  <2>2. Finish(t) BY Zenon, <1>2 DEF SectionCommit, Vend
  <2>3. QED BY Zenon, <2>1, <2>2, GoesHome
<1>3. CASE PinnedAccess(t)
  <2>1. Framed(t) BY Zenon, <1>3 DEF PinnedAccess, Framed, modeVars
  <2>2. /\ pc[t] = "pinned"
        /\ Finish(t) \/ AfterEmpty(t, at[t]) \/ AfterFull(t, at[t])
    BY Zenon, <1>3 DEF PinnedAccess, Vend
  <2>3. QED BY Zenon, <1>0, <2>1, <2>2, GoesHome, GoesAfter
<1>4. CASE PinnedUnknown(t)
  <2>1. Framed(t) BY Zenon, <1>4 DEF PinnedUnknown, Framed, modeVars
  <2>2. /\ cores' = cores
        /\ To(t, "central", "none", None) \/ To(t, "cfree", "none", None)
    BY Zenon, <1>4 DEF PinnedUnknown, Stay
  <2>3. CASE To(t, "central", "none", None)
    BY Zenon, <2>1, <2>2, <2>3, GoesTo, Names DEF OnSlot
  <2>4. CASE To(t, "cfree", "none", None)
    BY Zenon, <2>1, <2>2, <2>4, GoesTo, Names DEF OnSlot
  <2>5. QED BY Zenon, <2>2, <2>3, <2>4
<1>5. CASE PopLocked(t) \/ PushLocked(t)
  <2>1. Framed(t)
    BY Zenon, <1>5 DEF PopLocked, PushLocked, Unlock, Framed, modeVars
  <2>2. pc[t] = "body" /\ (Finish(t) \/ Declined(t))
    BY Zenon, <1>5 DEF PopLocked, PushLocked, Vend
  <2>3. QED BY Zenon, <1>0, <2>1, <2>2, GoesHome, GoesDeclined
<1>6. CASE PopBatch(t)
  <2>1. Framed(t) BY Zenon, <1>6 DEF PopBatch, Unlock, Framed, modeVars
  <2>2. /\ pc[t] = "body" /\ job[t] \in Jobs
        /\ Declined(t) \/ (To(t, "xput", job[t], at[t]) /\ cores' = cores)
    BY Zenon, <1>6 DEF PopBatch, OwnInv
  <2>3. CASE To(t, "xput", job[t], at[t]) /\ cores' = cores
    BY Zenon, <1>0, <2>1, <2>2, <2>3, GoesTo, Names
  <2>4. QED BY Zenon, <1>0, <2>1, <2>2, <2>3, GoesDeclined
<1>7. CASE PushBatch(t)
  <2>1. Framed(t) BY Zenon, <1>7 DEF PushBatch, Unlock, Framed, modeVars
  <2>2. /\ pc[t] = "body" /\ at' = at /\ cores' = cores
        /\ Goto(t, "lock", "repop") \/ Goto(t, "xput", "refill")
    BY Zenon, <1>7 DEF PushBatch
  <2>3. QED BY Zenon, <1>0, <2>1, <2>2, GoesOn, Names
<1>8. QED BY Zenon, <1>1, <1>2, <1>3, <1>4, <1>5, <1>6, <1>7

\* The reads of a sequence: it may go on to commit only where no lock is held, so
\* nobody is past the fence there.
LEMMA SectionReadStep ==
  ASSUME ConstantsOK, OwnInv, NEW t \in Threads, on[t] # None, on' = on, SectionRead(t)
  PROVE  OwnInv'
<1>1. Framed(t) BY Zenon DEF SectionRead, Framed, modeVars
<1>2. CASE \E d \in Cpus : AfterEmpty(t, d) \/ AfterFull(t, d)
  BY Zenon, <1>1, <1>2, GoesAfter, GoesStep DEF Framed
<1>3. CASE To(t, "commit", job[t], on[t]) /\ Stay(t)
  <2>1. /\ pc[t] = "section" /\ lock[on[t]] = None /\ lock' = lock /\ latch
        /\ UNCHANGED <<mode, latch, arming, cores>>
    BY Zenon, <1>3 DEF SectionRead, MayEnter, modeVars, Stay, OwnInv
  <2>2. /\ pc' = [pc EXCEPT ![t] = "commit"] /\ job' = [job EXCEPT ![t] = job[t]]
        /\ at' = [at EXCEPT ![t] = on[t]]
    BY Zenon, <1>3 DEF To, Goto
  <2>3. on[t] \in Cpus BY DEF OwnInv
  <2>4. /\ pc' \in [Threads -> Pcs] /\ job' \in [Threads -> Jobs]
        /\ at' \in [Threads -> Cpus \cup {None}]
    BY SMTT(20), <2>2, <2>3 DEF OwnInv, Pcs
  <2>5. /\ pc'[t] = "commit" /\ at'[t] = on[t]
        /\ \A u \in Threads : job'[u] = job[u]
        /\ \A u \in Threads : u # t => pc'[u] = pc[u] /\ at'[u] = at[u]
    BY <2>2 DEF OwnInv
  <2>6. ASSUME NEW u \in Threads, pc[u] = "body" PROVE u # t /\ at[u] # on[t]
    <3>1. lock[at[u]] = u /\ u # None BY Zenon, <2>6 DEF OwnInv, ConstantsOK
    <3>2. QED BY Zenon, <2>1, <2>6, <3>1
  <2>7. OwnerExcluded'
    <3>1. SUFFICES ASSUME NEW u \in Threads, NEW v \in Threads, pc'[u] = "body",
                          pc'[v] = "commit"
                   PROVE  at'[u] # at'[v]
      BY Zenon DEF OwnerExcluded
    <3>2. u # t /\ pc[u] = "body" /\ at'[u] = at[u] BY Zenon, <2>5, <3>1
    <3>3. CASE v = t BY Zenon, <2>5, <2>6, <3>2, <3>3
    <3>4. CASE v # t
      <4>1. OwnerExcluded BY Zenon DEF OwnInv
      <4>2. pc[v] = "commit" /\ at'[v] = at[v] BY Zenon, <2>5, <3>1, <3>4
      <4>3. QED BY Zenon, <3>2, <4>1, <4>2 DEF OwnerExcluded
    <3>5. QED BY Zenon, <3>3, <3>4
  <2>8. ASSUME NEW u \in Threads
        PROVE  /\ OnSlot(pc'[u], job'[u]) => at'[u] \in Cpus
               /\ pc'[u] = "body" => lock[at'[u]] = u
               /\ pc'[u] = "commit" => on[u] = at'[u]
               /\ pc'[u] \in {"section", "commit"} => latch
    BY SMTT(20), <2>1, <2>3, <2>5 DEF OwnInv
  <2>9. QED BY Zenon, <2>1, <2>4, <2>7, <2>8 DEF OwnInv
<1>4. QED BY Zenon, <1>2, <1>3 DEF SectionRead

\* A thread takes the lock of a slot on which no sequence can commit any more.
LEMMA TakesLock ==
  ASSUME ConstantsOK, OwnInv, NEW t \in Threads, at[t] \in Cpus, lock[at[t]] = None,
         lock' = [lock EXCEPT ![at[t]] = t], UNCHANGED <<on, mode, latch, arming, job, cores>>,
         pc' \in [Threads -> Pcs], at' \in [Threads -> Cpus \cup {None}],
         pc'[t] = "body", at'[t] = at[t],
         \A u \in Threads : u # t =>
             /\ \/ pc'[u] = pc[u] /\ at'[u] = at[u]
                \/ pc[u] = "commit" /\ pc'[u] = "section"
             /\ pc'[u] = "commit" => at'[u] # at[t]
  PROVE  OwnInv'
<1>1. lock' \in [Cpus -> Threads \cup {None}] /\ lock'[at[t]] = t BY DEF OwnInv
<1>2. ASSUME NEW u \in Threads, u # t, pc'[u] = "body"
      PROVE  at'[u] = at[u] /\ at[u] \in Cpus /\ at[u] # at[t] /\ lock'[at[u]] = u
  <2>1. pc[u] = "body" /\ at'[u] = at[u] BY Zenon, <1>2
  <2>2. lock[at[u]] = u /\ at[u] \in Cpus /\ u # None
    BY Zenon, <2>1 DEF OwnInv, OnSlot, ConstantsOK
  <2>3. at[u] # at[t] BY Zenon, <2>2
  <2>4. QED BY <2>1, <2>2, <2>3 DEF OwnInv
<1>3. OwnerExcluded'
  <2>1. SUFFICES ASSUME NEW u \in Threads, NEW v \in Threads, pc'[u] = "body",
                        pc'[v] = "commit"
                 PROVE  at'[u] # at'[v]
    BY Zenon DEF OwnerExcluded
  <2>2. v # t /\ pc[v] = "commit" /\ at'[v] = at[v] BY Zenon, <2>1
  <2>3. CASE u = t BY Zenon, <2>1, <2>2, <2>3
  <2>4. CASE u # t
    <3>1. pc[u] = "body" /\ at'[u] = at[u] BY Zenon, <2>1, <2>4
    <3>2. OwnerExcluded BY Zenon DEF OwnInv
    <3>3. QED BY ZenonT(30), <2>2, <3>1, <3>2 DEF OwnerExcluded
  <2>5. QED BY Zenon, <2>3, <2>4
<1>4. ASSUME NEW u \in Threads
      PROVE  /\ OnSlot(pc'[u], job[u]) => at'[u] \in Cpus
             /\ pc'[u] = "body" => lock'[at'[u]] = u
             /\ pc'[u] = "commit" => on[u] = at'[u]
             /\ pc'[u] \in {"section", "commit"} => latch
  <2>1. CASE u = t BY Zenon, <1>1, <2>1
  <2>2. CASE u # t
    <3>1. CASE pc'[u] = pc[u] /\ at'[u] = at[u]
      <4>1. /\ OnSlot(pc[u], job[u]) => at[u] \in Cpus
            /\ pc[u] = "commit" => on[u] = at[u]
            /\ pc[u] \in {"section", "commit"} => latch
        BY Zenon DEF OwnInv
      <4>2. QED BY Zenon, <1>2, <2>2, <3>1, <4>1
    <3>2. CASE pc[u] = "commit" /\ pc'[u] = "section" BY Zenon, <3>2 DEF OwnInv, OnSlot
    <3>3. QED BY Zenon, <2>2, <3>1, <3>2
  <2>3. QED BY Zenon, <2>1, <2>2
<1>5. QED BY ZenonT(30), <1>1, <1>3, <1>4 DEF OwnInv

\* lock_core and fence_if_non_owner: the thread has ended every sequence, or none
\* can be running, or it stands on the core itself.
LEMMA LockAndFenceStep ==
  ASSUME ConstantsOK, OwnInv, NEW t \in Threads, on[t] # None, on' = on, LockAndFence(t)
  PROVE  OwnInv'
<1>1. /\ pc[t] = "lock" /\ at[t] \in Cpus /\ lock[at[t]] = None
      /\ UNCHANGED <<mode, latch, arming>>
  BY Zenon DEF LockAndFence, modeVars, OwnInv, OnSlot
<1>2. CASE Declined(t) /\ lock' = lock
  BY Zenon, <1>1, <1>2, GoesDeclined, GoesStep
<1>3. CASE ~MustFence(t) /\ Lock(t) /\ Goto(t, "body", job[t]) /\ Stay(t) /\ at' = at
  <2>1. /\ pc' = [pc EXCEPT ![t] = "body"] /\ job' = [job EXCEPT ![t] = job[t]]
        /\ lock' = [lock EXCEPT ![at[t]] = t] /\ cores' = cores
    BY Zenon, <1>3 DEF Goto, Lock, Stay
  <2>2. job' = job /\ pc' \in [Threads -> Pcs] /\ pc'[t] = "body"
        /\ at' \in [Threads -> Cpus \cup {None}] /\ \A u \in Threads : u # t => pc'[u] = pc[u]
    BY SMTT(20), <1>3, <2>1 DEF OwnInv, Pcs
  <2>3. ASSUME NEW u \in Threads, u # t, pc[u] = "commit" PROVE at[u] # at[t]
    <3>1. latch /\ on[u] = at[u] BY Zenon, <2>3 DEF OwnInv
    <3>2. at[t] = on[t] BY Zenon, <1>3, <3>1 DEF MustFence
    <3>3. QED BY Zenon, <2>3, <3>1, <3>2 DEF OwnInv
  <2>4. QED BY Zenon, <1>1, <1>3, <2>1, <2>2, <2>3, TakesLock
<1>4. CASE /\ Lock(t) /\ Abort(Threads, [pc EXCEPT ![t] = "body"])
           /\ Stay(t) /\ job' = job
  <2>1. /\ pc' = [u \in Threads |-> IF pc[u] = "commit" THEN "section"
                                    ELSE [pc EXCEPT ![t] = "body"][u]]
        /\ at' = [u \in Threads |-> IF pc[u] = "commit" THEN None ELSE at[u]]
        /\ lock' = [lock EXCEPT ![at[t]] = t] /\ cores' = cores
    BY <1>4 DEF Abort, Hit, Lock, Stay
  <2>2. /\ pc' \in [Threads -> Pcs] /\ at' \in [Threads -> Cpus \cup {None}]
    BY SMTT(20), <2>1 DEF OwnInv, Pcs
  <2>3. /\ pc'[t] = "body" /\ at'[t] = at[t]
        /\ \A u \in Threads : u # t =>
              /\ \/ pc'[u] = pc[u] /\ at'[u] = at[u]
                 \/ pc[u] = "commit" /\ pc'[u] = "section"
              /\ pc'[u] # "commit"
    BY SMTT(20), <1>1, <2>1 DEF OwnInv
  <2>4. QED BY Zenon, <1>1, <1>4, <2>1, <2>2, <2>3, TakesLock
<1>5. QED BY Zenon, <1>2, <1>3, <1>4 DEF LockAndFence

\* The scheduler: who is moved or switched out has its sequence ended.
LEMMA ScheduleStep ==
  ASSUME ConstantsOK, OwnInv, NEW t \in Threads, NEW c \in Cpus, Schedule(t, c)
  PROVE  OwnInv'
<1>0. c # None BY Zenon DEF ConstantsOK
<1>1. /\ on' = [u \in Threads |-> IF u = t THEN c ELSE IF on[u] = c THEN None ELSE on[u]]
      /\ UNCHANGED <<mode, latch, arming, lock, job, cores>>
  BY Zenon DEF Schedule, modeVars
<1>2. /\ pc' = [u \in Threads |-> IF (u = t \/ on[u] = c) /\ pc[u] = "commit" THEN "section"
                                  ELSE pc[u]]
      /\ at' = [u \in Threads |-> IF (u = t \/ on[u] = c) /\ pc[u] = "commit" THEN None
                                  ELSE at[u]]
  BY DEF Schedule, Abort, Hit
<1>3. /\ pc' \in [Threads -> Pcs] /\ at' \in [Threads -> Cpus \cup {None}]
      /\ on' \in [Threads -> Cpus \cup {None}]
  BY SMTT(20), <1>1, <1>2 DEF OwnInv, Pcs
<1>4. \A u, v \in Threads : on'[u] = on'[v] /\ on'[u] # None => u = v
  BY SMTT(20), <1>0, <1>1 DEF OwnInv
<1>5. ASSUME NEW u \in Threads
      PROVE  \/ pc'[u] = pc[u] /\ at'[u] = at[u] /\ (pc[u] = "commit" => on'[u] = on[u])
             \/ pc[u] = "commit" /\ pc'[u] = "section"
  BY SMTT(20), <1>1, <1>2
<1>6. ASSUME NEW u \in Threads
      PROVE  /\ OnSlot(pc'[u], job[u]) => at'[u] \in Cpus
             /\ pc'[u] = "body" => lock[at'[u]] = u
             /\ pc'[u] = "commit" => on'[u] = at'[u]
             /\ pc'[u] \in {"section", "commit"} => latch
  <2>1. CASE pc'[u] = pc[u] /\ at'[u] = at[u] /\ (pc[u] = "commit" => on'[u] = on[u])
    BY Zenon, <2>1 DEF OwnInv
  <2>2. CASE pc[u] = "commit" /\ pc'[u] = "section" BY Zenon, <2>2 DEF OwnInv, OnSlot
  <2>3. QED BY Zenon, <1>5, <2>1, <2>2
<1>7. OwnerExcluded'
  <2>1. ASSUME NEW u \in Threads, pc'[u] \in {"body", "commit"}
        PROVE  pc'[u] = pc[u] /\ at'[u] = at[u]
    BY Zenon, <1>5, <2>1
  <2>2. OwnerExcluded BY Zenon DEF OwnInv
  <2>3. QED BY Zenon, <2>1, <2>2 DEF OwnerExcluded
<1>8. QED BY ZenonT(30), <1>1, <1>3, <1>4, <1>6, <1>7 DEF OwnInv

\* The mode switches arm the latch first.
LEMMA ModesStep ==
  ASSUME OwnInv, Modes
  PROVE  OwnInv'
<1>1. UNCHANGED <<on, lock, pc, job, at, cores>> BY Zenon DEF Modes, threadVars
<1>2. (latch => latch') /\ (mode' = "rseq" \/ arming' => latch')
  BY DEF Modes, EnableArm, EnableSwitch, DisableRseq, EnablePinned,
     DisablePinned, OwnInv
<1>3. QED BY Zenon, <1>1, <1>2 DEF OwnInv, OwnerExcluded

\* Whatever the scheduler, the mode switches and the threads do, for any number of
\* threads and cores: while a locked access is past its fence, no restartable
\* sequence of that core can still commit (fence_if_non_owner, enable_rseq).
THEOREM OwnersExcluded == ASSUME ConstantsOK PROVE Spec => []OwnerExcluded
<1>1. Init => OwnInv
  <2>1. ASSUME Init PROVE OwnInv
    <3>1. PICK t \in Threads, c \in Cpus : on = [u \in Threads |-> IF u = t THEN c ELSE None]
      BY Zenon, <2>1 DEF Init
    <3>2. /\ on \in [Threads -> Cpus \cup {None}]
          /\ \A u, v \in Threads : on[u] = on[v] /\ on[u] # None => u = v
      BY <3>1
    <3>3. /\ lock \in [Cpus -> Threads \cup {None}] /\ pc \in [Threads -> Pcs]
          /\ job \in [Threads -> Jobs] /\ at \in [Threads -> Cpus \cup {None}]
          /\ cores \in [Threads -> SUBSET Cpus] /\ \A u \in Threads : pc[u] = "idle"
      BY <2>1 DEF Init, Pcs, Jobs
    <3>4. mode = "rseq" \/ arming => latch BY Zenon, <2>1 DEF Init
    <3>5. QED BY Zenon, <3>2, <3>3, <3>4 DEF OwnInv, OnSlot, OwnerExcluded
  <2>2. QED BY Zenon, <2>1
<1>2. OwnInv /\ [Next]_vars => OwnInv'
  <2>1. ASSUME OwnInv, NEW t \in Threads, Runs(t) PROVE OwnInv'
    <3>1. on[t] # None /\ on' = on BY Zenon, <2>1 DEF Runs
    <3>2. CASE Goes(t) /\ Framed(t) BY Zenon, <2>1, <3>2, GoesStep DEF Framed
    <3>3. CASE SectionRead(t) BY Zenon, <2>1, <3>1, <3>3, SectionReadStep
    <3>4. CASE LockAndFence(t) BY Zenon, <2>1, <3>1, <3>4, LockAndFenceStep
    <3>5. QED BY Zenon, <2>1, <3>1, <3>2, <3>3, <3>4, StartsStep, MiddleStep, DrainsStep,
                 PlainAccessStep DEF Runs, Works, Access
  <2>2. ASSUME OwnInv, NEW c \in Cpus, SetSoftCapacity(c) PROVE OwnInv'
    BY Zenon, <2>2 DEF SetSoftCapacity, modeVars, threadVars, OwnInv, OwnerExcluded
  <2>3. ASSUME OwnInv, UNCHANGED vars PROVE OwnInv'
    BY Zenon, <2>3 DEF vars, modeVars, threadVars, OwnInv, OwnerExcluded
  <2>4. QED BY Zenon, <2>1, <2>2, <2>3, ScheduleStep, ModesStep DEF Next
<1>3. OwnInv => OwnerExcluded BY Zenon DEF OwnInv
<1>4. QED BY <1>1, <1>2, <1>3, PTL DEF Spec
=============================================================================
