--------------------------- MODULE StartupProofs ---------------------------
(***************************************************************************)
(* Proofs about start-up: about Bringup, for every set of threads, every   *)
(* load-time outcome and every number of failing registrations and forks;  *)
(* about Bootstrap, for every region and every request; and about          *)
(* RseqMode, for every host.                                               *)
(*                                                                         *)
(* The properties of the first call say little about the threads that are  *)
(* on their way.  IInv adds what each of them relies on: one thread        *)
(* registers at a time and the word of ATFORK says so; who waited, or has  *)
(* an attempt behind it, has seen it succeed or fail since its call began; *)
(* and, until a fork runs without handlers, a thread that may build the    *)
(* engine is counted by the gate or owns the window.                       *)
(***************************************************************************)
EXTENDS MCStartup, TLAPS

-----------------------------------------------------------------------------
(* The metadata allocator.  Its properties speak of blocks and of what was *)
(* read.  BootInv adds who may write a cell in which state, that every     *)
(* block ends at or below the cursor, and that an exchange under way read  *)
(* a cursor at which its block fits.                                       *)

\* The steps of a thread.
Pcs == {"idle", "init", "write", "publish", "wait", "succeed", "pass", "load", "cas"}

\* The cell of the arena: one thread writes it, before anyone may read it.
ArenaInv ==
    /\ state < 2 => blocks = {} /\ cursor = 0
    /\ state >= 2 => arena = "written"
    /\ \A t \in Threads :
         /\ th[t].pc \in {"write", "publish"} => state = 1
         /\ th[t].pc = "publish" => arena = "written"
         /\ th[t].pc \in {"load", "cas", "succeed", "pass"} => state >= 2
         /\ th[t].pc \in {"load", "pass"} => th[t].got = "written"
    /\ \A t, u \in Threads :
         th[t].pc \in {"write", "publish"} /\ th[u].pc \in {"write", "publish"} => t = u

\* The cell of the successor: written by the one thread that took the state to
\* HandingOff.
SuccessorInv ==
    /\ state < 3 => successor = Nothing
    /\ state = 4 => successor \in {Nothing, "written"}
    /\ \A t \in Threads : th[t].pc = "succeed" => state = 3
    /\ \A t, u \in Threads : th[t].pc = "succeed" /\ th[u].pc = "succeed" => t = u

\* The blocks lie below the cursor, and an exchange under way read a cursor at
\* which its block fits.
CursorInv ==
    /\ \A t \in Threads :
         /\ th[t].pc \in {"load", "cas"} =>
              th[t].size \in Nat \ {0} /\ th[t].align \in Nat \ {0}
         /\ th[t].pc = "cas" =>
              th[t].cur \in Nat /\ Boot!Fits(th[t].cur, th[t].size, th[t].align)
    /\ \A b \in blocks :
         /\ b.at \in Nat /\ b.size \in Nat \ {0} /\ b.at + b.size <= cursor
         /\ (Base + b.at) % b.align = 0
    /\ \A b, c \in blocks :
         b # c => b.at + b.size <= c.at \/ c.at + c.size <= b.at

BootInv ==
    /\ state \in 0 .. 4 /\ cursor \in 0 .. Capacity
    /\ th = [t \in Threads |-> th[t]] /\ \A t \in Threads : th[t].pc \in Pcs
    /\ ArenaInv /\ SuccessorInv /\ CursorInv

\* What AlignUp computes.
LEMMA AlignUpLaw ==
  ASSUME NEW x \in Nat, NEW a \in Nat \ {0}
  PROVE  /\ Boot!AlignUp(x, a) \in Nat /\ Boot!AlignUp(x, a) >= x
         /\ Boot!AlignUp(x, a) % a = 0
<1> DEFINE q == (x + a - 1) \div a
<1>1. q \in Nat /\ x + a - 1 = a * q + ((x + a - 1) % a) /\ (x + a - 1) % a \in 0 .. a - 1
  OBVIOUS
<1>2. PICK m \in Nat : m = q * a BY <1>1
<1>3. m >= x BY <1>1, <1>2
<1>4. (q * a) % a = 0 BY <1>1
<1>5. QED BY Zenon, <1>2, <1>3, <1>4 DEF Boot!AlignUp

\* The offset of a block is at or above the cursor, and aligned.
LEMMA OffsetLaw ==
  ASSUME NEW c \in Nat, NEW a \in Nat \ {0}
  PROVE  /\ Boot!Offset(c, a) \in Nat /\ Boot!Offset(c, a) >= c
         /\ (Base + Boot!Offset(c, a)) % a = 0
<1>1. Base + c \in Nat BY BootstrapAssumption
<1>2. PICK m \in Nat : m = Boot!AlignUp(Base + c, a) /\ m >= Base + c /\ m % a = 0
  BY Zenon, <1>1, AlignUpLaw
<1>3. Boot!Offset(c, a) = m - Base BY Zenon, <1>2 DEF Boot!Offset
<1>4. QED BY <1>2, <1>3, BootstrapAssumption

-----------------------------------------------------------------------------
\* Init establishes it.
LEMMA BootInit == Boot!Init => BootInv
  BY BootstrapAssumption
     DEF Boot!Init, Boot!Idle, Boot!Uninit, BootInv, Pcs, ArenaInv, SuccessorInv, CursorInv

\* A step of one thread replaces its own record.
LEMMA ThreadGoes ==
  ASSUME BootInv, NEW t \in Threads, NEW l, l.pc \in Pcs, Boot!Goto(t, l)
  PROVE  /\ th' = [u \in Threads |-> th'[u]] /\ th'[t] = l
         /\ \A u \in Threads : u # t => th'[u] = th[u]
         /\ \A u \in Threads : th'[u].pc \in Pcs
  BY Zenon DEF BootInv, Boot!Goto

\* The steps of init: one caller writes the arena and publishes it.
LEMMA InitSteps ==
  ASSUME BootInv, NEW t \in Threads,
         Boot!Global(t) \/ Boot!Claim(t) \/ Boot!WriteArena(t) \/ Boot!PublishArena(t) \/ Boot!Spun(t)
  PROVE  BootInv'
<1> USE DEF Pcs, Boot!At, Boot!IsInitialized, Boot!Uninit, Boot!Initializing, Boot!Active,
            Boot!HandingOff, Boot!HandedOff, Boot!Idle
<1>1. CASE Boot!Global(t)
  <2>1. Boot!Goto(t, [pc |-> "init"]) BY Zenon, <1>1 DEF Boot!Global
  <2>2. QED
    BY <1>1, <2>1, ThreadGoes DEF Boot!Global, BootInv, ArenaInv, SuccessorInv,
       CursorInv
<1>2. CASE Boot!Claim(t) /\ state = 0
  <2>1. Boot!Goto(t, [pc |-> "write"]) BY Zenon, <1>2 DEF Boot!Claim
  <2>2. QED
    BY <1>2, <2>1, ThreadGoes DEF Boot!Claim, BootInv, ArenaInv, SuccessorInv, CursorInv
<1>3. CASE Boot!Claim(t) /\ state # 0
  <2>1. Boot!Goto(t, [pc |-> "wait"]) BY Zenon, <1>3 DEF Boot!Claim
  <2>2. QED
    BY SMTT(20), <1>3, <2>1, ThreadGoes DEF Boot!Claim, BootInv, ArenaInv, SuccessorInv, CursorInv
<1>4. CASE Boot!WriteArena(t)
  <2>1. Boot!Goto(t, [pc |-> "publish"]) BY Zenon, <1>4 DEF Boot!WriteArena
  <2>2. QED
    BY SMTT(20), <1>4, <2>1, ThreadGoes DEF Boot!WriteArena, BootInv, ArenaInv, SuccessorInv,
       CursorInv
<1>5. CASE Boot!PublishArena(t)
  <2>1. Boot!Goto(t, [pc |-> "wait"]) BY Zenon, <1>5 DEF Boot!PublishArena
  <2>2. QED
    BY SMTT(20), <1>5, <2>1, ThreadGoes DEF Boot!PublishArena, BootInv, ArenaInv, SuccessorInv,
       CursorInv
<1>6. CASE Boot!Spun(t)
  <2>1. Boot!Goto(t, [pc |-> "idle"]) BY Zenon, <1>6 DEF Boot!Spun
  <2>2. QED
    BY <1>6, <2>1, ThreadGoes DEF Boot!Spun, BootInv, ArenaInv, SuccessorInv, CursorInv
<1>7. QED BY Zenon, <1>1, <1>2, <1>3, <1>4, <1>5, <1>6

\* The hand-off: to nobody in one step, to a successor in two.
LEMMA HandOffSteps ==
  ASSUME BootInv, NEW t \in Threads,
         Boot!HandOff(t) \/ Boot!BeginHandOffTo(t) \/ Boot!EndHandOffTo(t) \/ Boot!Pass(t)
  PROVE  BootInv'
<1> USE DEF Pcs, Boot!At, Boot!IsInitialized, Boot!Uninit, Boot!Initializing, Boot!Active,
            Boot!HandingOff, Boot!HandedOff, Boot!Idle
<1>1. CASE Boot!HandOff(t)
  BY <1>1 DEF Boot!HandOff, BootInv, ArenaInv, SuccessorInv, CursorInv
<1>2. CASE Boot!BeginHandOffTo(t)
  <2>1. Boot!Goto(t, [pc |-> "succeed"]) BY Zenon, <1>2 DEF Boot!BeginHandOffTo
  <2>2. QED
    BY <1>2, <2>1, ThreadGoes DEF Boot!BeginHandOffTo, BootInv, ArenaInv, SuccessorInv,
       CursorInv
<1>3. CASE Boot!EndHandOffTo(t)
  <2>1. Boot!Goto(t, [pc |-> "idle"]) BY Zenon, <1>3 DEF Boot!EndHandOffTo
  <2>2. QED
    BY <1>3, <2>1, ThreadGoes DEF Boot!EndHandOffTo, BootInv, ArenaInv, SuccessorInv,
       CursorInv
<1>4. CASE Boot!Pass(t)
  <2>1. Boot!Goto(t, [pc |-> "idle"]) BY Zenon, <1>4 DEF Boot!Pass
  <2>2. QED
    BY <1>4, <2>1, ThreadGoes DEF Boot!Pass, BootInv, ArenaInv, SuccessorInv, CursorInv
<1>5. QED BY Zenon, <1>1, <1>2, <1>3, <1>4

\* alloc, up to the exchange: what it read is published, and a cursor it goes on
\* with leaves room for the block.
LEMMA AllocSteps ==
  ASSUME BootInv, NEW t \in Threads,
         (\E n \in Sizes, a \in Aligns : Boot!Alloc(t, n, a)) \/ Boot!LoadCursor(t)
  PROVE  BootInv'
<1> USE DEF Pcs, Boot!At, Boot!IsInitialized, Boot!Uninit, Boot!Initializing, Boot!Active,
            Boot!HandingOff, Boot!HandedOff, Boot!Idle
<1>1. ASSUME NEW n \in Sizes, NEW a \in Aligns, Boot!Alloc(t, n, a)
      PROVE  BootInv'
  <2>1. n \in Nat /\ a \in Nat \ {0} BY Zenon, BootstrapAssumption
  <2>2. Boot!Length(n) \in Nat \ {0} BY SMTT(20), <2>1 DEF Boot!Length
  <2>3. CASE state = 4 /\ successor # Nothing
    <3>1. Boot!Goto(t, [pc |-> "pass", got |-> successor])
      BY Zenon, <1>1, <2>3 DEF Boot!Alloc
    <3>2. QED BY SMTT(20), <1>1, <2>3, <3>1, ThreadGoes
              DEF Boot!Alloc, BootInv, ArenaInv, SuccessorInv, CursorInv
  <2>4. CASE ~(state = 4 /\ successor # Nothing) /\ state >= 2
    <3>1. PICK k \in Nat \ {0} : k = Boot!Length(n) BY Zenon, <2>2
    <3>2. Boot!Goto(t, [pc |-> "load", size |-> k, align |-> a, got |-> arena])
      BY Zenon, <1>1, <2>4, <3>1 DEF Boot!Alloc
    <3>3. QED BY <1>1, <2>1, <2>4, <3>2, ThreadGoes
              DEF Boot!Alloc, BootInv, ArenaInv, SuccessorInv, CursorInv
  <2>5. CASE ~(state = 4 /\ successor # Nothing) /\ ~(state >= 2)
    <3>1. Boot!Goto(t, [pc |-> "idle"]) BY Zenon, <1>1, <2>5 DEF Boot!Alloc
    <3>2. QED BY SMTT(20), <1>1, <2>5, <3>1, ThreadGoes
              DEF Boot!Alloc, BootInv, ArenaInv, SuccessorInv, CursorInv
  <2>6. QED BY Zenon, <2>3, <2>4, <2>5
<1>2. CASE Boot!LoadCursor(t)
  <2> DEFINE room == Boot!Fits(cursor, th[t].size, th[t].align)
  <2>1. CASE room
    <3>1. Boot!Goto(t, [pc |-> "cas", size |-> th[t].size, align |-> th[t].align,
                        cur |-> cursor])
      BY Zenon, <1>2, <2>1 DEF Boot!LoadCursor
    <3>2. QED BY SMTT(20), <1>2, <2>1, <3>1, ThreadGoes
              DEF Boot!LoadCursor, BootInv, ArenaInv, SuccessorInv, CursorInv
  <2>2. CASE ~room
    <3>1. Boot!Goto(t, [pc |-> "idle"]) BY Zenon, <1>2, <2>2 DEF Boot!LoadCursor
    <3>2. QED BY <1>2, <2>2, <3>1, ThreadGoes
              DEF Boot!LoadCursor, BootInv, ArenaInv, SuccessorInv, CursorInv
  <2>3. QED BY Zenon, <2>1, <2>2
<1>3. QED BY Zenon, <1>1, <1>2

\* The exchange: a block begins at or above the cursor that the thread read, so
\* as long as nobody moved it, above every block there is.
LEMMA BumpStep ==
  ASSUME BootInv, NEW t \in Threads, Boot!Bump(t)
  PROVE  BootInv'
<1> USE DEF Pcs, Boot!At, Boot!IsInitialized, Boot!Uninit, Boot!Initializing, Boot!Active,
            Boot!HandingOff, Boot!HandedOff, Boot!Idle
<1>1. CASE ~Boot!Unmoved(t)
  <2>1. Boot!Goto(t, [pc |-> "load", size |-> th[t].size, align |-> th[t].align,
                      got |-> arena])
    BY Zenon, <1>1 DEF Boot!Bump
  <2>2. QED BY SMTT(20), <1>1, <2>1, ThreadGoes
            DEF Boot!Bump, BootInv, ArenaInv, SuccessorInv, CursorInv
<1>2. CASE Boot!Unmoved(t)
  <2>1. PICK k \in Nat \ {0}, a \in Nat \ {0}, at \in Nat :
          /\ k = th[t].size /\ a = th[t].align /\ at = Boot!Offset(cursor, a)
          /\ at >= cursor /\ (Base + at) % a = 0 /\ at + k <= Capacity
    BY Zenon, <1>2, OffsetLaw DEF Boot!Bump, Boot!Unmoved, BootInv, CursorInv, Boot!Fits
  <2>2. PICK new : new = [at |-> at, size |-> k, align |-> a, by |-> t] BY Zenon
  <2>3. /\ cursor' = at + k /\ blocks' = blocks \cup {new} /\ Boot!Goto(t, [pc |-> "idle"])
        /\ UNCHANGED <<state, arena, successor>> /\ th[t].pc = "cas"
    BY Zenon, <1>2, <2>1, <2>2 DEF Boot!Bump, Boot!Unmoved
  <2>4. /\ new.at = at /\ new.size = k /\ new.align = a BY Zenon, <2>2
  <2>5. \A b \in blocks' :
          /\ b.at \in Nat /\ b.size \in Nat \ {0} /\ b.at + b.size <= cursor'
          /\ (Base + b.at) % b.align = 0
    <3>1. ASSUME NEW b \in blocks PROVE b.at \in Nat /\ b.size \in Nat \ {0}
             /\ b.at + b.size <= cursor /\ (Base + b.at) % b.align = 0
      BY Zenon DEF BootInv, CursorInv
    <3>2. cursor \in Nat /\ cursor <= cursor'
      BY <2>1, <2>3, BootstrapAssumption DEF BootInv
    <3>3. ASSUME NEW b \in blocks PROVE b.at + b.size <= cursor'
      BY <2>1, <2>3, <3>1, <3>2
    <3>4. QED BY <2>1, <2>3, <2>4, <3>1, <3>3
  <2>6. \A b, c \in blocks' :
          b # c => b.at + b.size <= c.at \/ c.at + c.size <= b.at
    <3>1. ASSUME NEW b \in blocks PROVE b.at + b.size <= new.at
      BY <2>1, <2>4, BootstrapAssumption DEF BootInv, CursorInv
    <3>2. QED BY Zenon, <2>3, <3>1 DEF BootInv, CursorInv
  <2>7. state \in 0 .. 4 /\ cursor' \in 0 .. Capacity /\ state >= 2
    BY <2>1, <2>3, BootstrapAssumption DEF BootInv, ArenaInv
  <2>8. QED BY <2>3, <2>5, <2>6, <2>7, ThreadGoes
            DEF BootInv, ArenaInv, SuccessorInv, CursorInv
<1>3. QED BY ZenonT(30), <1>1, <1>2

\* The same invariant, for the run in which the first call and the allocator
\* under it are looked at in turn.
THEOREM BootInvariant == MCSpec => []BootInv
<1>1. MCInit => BootInv BY Zenon, BootInit DEF MCInit
<1>2. BootInv /\ [MCNext]_<<part, vars, bootVars, rseqVars>> => BootInv'
  <2>1. ASSUME BootInv, UNCHANGED bootVars PROVE BootInv'
    BY Zenon, <2>1 DEF bootVars, BootInv, ArenaInv, SuccessorInv, CursorInv
  <2>2. ASSUME BootInv, Boot!Next PROVE BootInv'
    BY Zenon, <2>2, InitSteps, HandOffSteps, AllocSteps, BumpStep
       DEF Boot!Next, Boot!Start, Boot!Step
  <2>3. QED BY Zenon, <2>1, <2>2 DEF MCNext
<1>3. QED BY <1>1, <1>2, PTL DEF MCSpec

\* For every number of threads, every region and every mix of sizes and
\* alignments: the blocks of the bump arena lie in it, aligned and apart, and
\* nobody allocates from a cell that is still being written (BumpArena::alloc,
\* Bootstrap::init, hand_off_to).
THEOREM BootstrapIsSafe == MCSpec => []BootstrapSafe
<1>1. BootInv => Boot!TypeOK
  BY Zenon DEF BootInv, Boot!TypeOK, Pcs, Boot!Uninit, Boot!HandedOff
<1>2. BootInv => Boot!BlocksDisjoint
  <2>1. ASSUME BootInv, NEW b \in blocks PROVE b.at + b.size <= Capacity
    BY <2>1, BootstrapAssumption DEF BootInv, CursorInv
  <2>2. QED BY Zenon, <2>1 DEF BootInv, CursorInv, Boot!BlocksDisjoint
<1>3. BootInv => Boot!ReadsPublished BY Zenon DEF BootInv, ArenaInv, Boot!ReadsPublished
<1>4. QED BY <1>1, <1>2, <1>3, BootInvariant, PTL DEF BootstrapSafe

-----------------------------------------------------------------------------
(* Whether restartable sequences may run.  The properties speak of what a  *)
(* thread runs on and of what was answered.  RseqInv adds what a decision  *)
(* under way has established, and that an area which reads as a CPU is     *)
(* tracked unless the thread is in a fork child that has not registered    *)
(* again.                                                                  *)

\* The steps and the decisions of a thread.
RseqPcs == {"idle", "intent", "fence", "area", "publish", "section", "child"}
Decisions == {"unavailable", "glibc", "selfreg"}

Locals == [pc : RseqPcs, decided : Decisions \cup {Nothing},
           area : {"glibc", "own", Nothing}]

RseqTypes ==
    /\ host \in Hosts /\ mode \in Decisions \cup {"unknown"}
    /\ intent \in BOOLEAN /\ forked \in BOOLEAN
    /\ running \subseteq Probers /\ running # {}
    /\ tracked \in [Probers -> {"glibc", "own", "foreign", Nothing}]
    /\ cpu \in [Probers -> [glibc : BOOLEAN, own : BOOLEAN]]
    /\ said \in [Probers -> {"usable", "unusable", Nothing}]
    /\ prober \in [Probers -> Locals]

\* What holds of a thread with locals l that the kernel tracks on tr, whose areas
\* read c and that was answered s, on host h, with mode m, intent i and fork f.
\* An area that reads as a CPU is tracked, except in a child that has not decided
\* yet; whoever decided that sequences may run has seen the fence work, under an
\* intent that only a fork takes back; no answer was given before the mode.
Armed(m) == m \in {"glibc", "selfreg"}
ThreadInv(l, tr, c, s, h, m, i, f) ==
    /\ h.glibc => tr = "glibc"
    /\ c.glibc => h.glibc
    /\ l.pc = "section" => l.area = tr
    /\ c.own /\ tr # "own" =>
         f /\ tr = Nothing /\ (l.pc = "child" \/ (m # "selfreg" /\ l.decided # "selfreg"))
    /\ Armed(m) /\ l.pc # "child" => i /\ h.fence
    /\ l.pc = "area" \/ Armed(l.decided) => i /\ h.fence
    /\ IF l.pc = "publish" THEN l.decided \in Decisions ELSE l.decided = Nothing
    /\ l.pc = "child" => f
    /\ s # Nothing /\ l.pc # "child" => (s = "usable" <=> Armed(m)) /\ m # "unknown"

Of(t, m, i, f) == ThreadInv(prober[t], tracked[t], cpu[t], said[t], host, m, i, f)

RseqInv ==
    /\ RseqTypes
    /\ \A t \in running : Of(t, mode, intent, forked)
    /\ forked => \A t, u \in running : t = u

\* A process that has probed nothing.
LEMMA RseqStart == ASSUME Rseq!Init PROVE RseqInv
<1>1. RseqTypes
  BY Zenon, RseqAssumption
     DEF Rseq!Init, RseqTypes, Locals, Rseq!ConstantsOK, Rseq!Idle, Rseq!Zeroed, RseqPcs,
         Decisions
<1>2. ASSUME NEW t \in running PROVE Of(t, mode, intent, forked)
  <2>1. /\ prober[t] = Rseq!Idle /\ said[t] = Nothing
        /\ cpu[t] = [glibc |-> host.glibc, own |-> FALSE]
        /\ host.glibc => tracked[t] = "glibc"
        /\ mode = "unknown"
    BY <1>2 DEF Rseq!Init, Rseq!Zeroed
  <2>2. QED
    BY <2>1, RseqAssumption DEF Of, ThreadInv, Armed, Rseq!Idle, Rseq!ConstantsOK
<1>3. QED BY <1>1, <1>2 DEF RseqInv, Rseq!Init

\* The thread goes on to step p, with the decision d and the area a.
Moved(t, p, d, a) ==
    /\ prober' \in [Probers -> Locals]
    /\ prober'[t].pc = p /\ prober'[t].decided = d /\ prober'[t].area = a
    /\ \A u \in Probers : u # t => prober'[u] = prober[u]

\* What Goto, Decide, a return to Idle and an armed sequence do to the locals.
LEMMA GotoMoves ==
  ASSUME prober \in [Probers -> Locals], NEW t \in Probers, NEW p \in RseqPcs,
         Rseq!Goto(t, p)
  PROVE  Moved(t, p, prober[t].decided, prober[t].area)
BY DEF Moved, Locals, Rseq!Goto

\* A decision is still to be published.
LEMMA DecideMoves ==
  ASSUME prober \in [Probers -> Locals], NEW t \in Probers, NEW m \in Decisions,
         Rseq!Decide(t, m)
  PROVE  Moved(t, "publish", m, prober[t].area)
BY Zenon DEF Moved, Locals, RseqPcs, Rseq!Decide

\* A call that ends forgets its locals.
LEMMA IdleMoves ==
  ASSUME prober \in [Probers -> Locals], NEW t \in Probers,
         prober' = [prober EXCEPT ![t] = Rseq!Idle]
  PROVE  Moved(t, "idle", Nothing, Nothing)
BY DEF Moved, Locals, RseqPcs, Rseq!Idle

\* A sequence remembers the area it began on.
LEMMA ArmMoves ==
  ASSUME prober \in [Probers -> Locals], NEW t \in Probers,
         NEW a \in {"glibc", "own", Nothing},
         prober' = [prober EXCEPT ![t] = [@ EXCEPT !.pc = "section", !.area = a]]
  PROVE  Moved(t, "section", prober[t].decided, a)
BY Zenon DEF Moved, Locals, RseqPcs

\* A step of one thread leaves the others where they were.
Beside(t) ==
    \A u \in Probers : u # t =>
        /\ prober'[u] = prober[u] /\ tracked'[u] = tracked[u] /\ cpu'[u] = cpu[u]
        /\ said'[u] = said[u]

\* It keeps RseqInv when it does so for its own thread and what it changes of
\* the mode and of the intent does for the others.
LEMMA OneMoves ==
  ASSUME RseqInv, NEW t \in running, RseqTypes', Beside(t), host' = host,
         running' = running, forked' = forked,
         ThreadInv(prober'[t], tracked'[t], cpu'[t], said'[t], host, mode', intent', forked),
         \A u \in running : u # t => Of(u, mode', intent', forked)
  PROVE  RseqInv'
<1>1. ASSUME NEW u \in running, u # t PROVE Of(u, mode, intent, forked)'
  <2>1. u \in Probers BY DEF RseqInv, RseqTypes
  <2>2. QED BY Zenon, <1>1, <2>1 DEF Beside, Of
<1>2. Of(t, mode, intent, forked)' BY Zenon DEF Of
<1>3. QED BY Zenon, <1>1, <1>2 DEF RseqInv

\* In a child there is one thread.
LEMMA LastMoves ==
  ASSUME NEW t \in running, RseqTypes', running' = {t},
         ThreadInv(prober'[t], tracked'[t], cpu'[t], said'[t], host', mode', intent', forked')
  PROVE  RseqInv'
BY Zenon DEF RseqInv, Of

\* What rseq(2) does to a thread.
LEMMA Registers ==
  ASSUME RseqTypes, NEW t \in Probers, Rseq!SysRegister(t) \/ Rseq!SysUnregister(t)
  PROVE  /\ tracked' \in [Probers -> {"glibc", "own", "foreign", Nothing}]
         /\ cpu' \in [Probers -> [glibc : BOOLEAN, own : BOOLEAN]]
         /\ \A u \in Probers : u # t => tracked'[u] = tracked[u] /\ cpu'[u] = cpu[u]
         /\ cpu'[t].glibc = cpu[t].glibc
         /\ \/ tracked'[t] = tracked[t] /\ cpu'[t].own = cpu[t].own
            \/ tracked[t] = Nothing /\ tracked'[t] = "own"
            \/ tracked[t] = "own" /\ tracked'[t] = Nothing /\ ~cpu'[t].own
         /\ Rseq!SysRegister(t) => tracked'[t] # Nothing
<1>0. /\ tracked \in [Probers -> {"glibc", "own", "foreign", Nothing}]
      /\ cpu \in [Probers -> [glibc : BOOLEAN, own : BOOLEAN]]
      /\ Nothing # "own"
  BY RseqAssumption DEF RseqTypes, Rseq!ConstantsOK
<1>1. CASE tracked' = tracked /\ cpu' = cpu /\ (Rseq!SysRegister(t) => tracked[t] # Nothing)
  BY Zenon, <1>0, <1>1
<1>2. CASE /\ tracked[t] = Nothing /\ tracked' = [tracked EXCEPT ![t] = "own"]
           /\ cpu' = [cpu EXCEPT ![t].own = TRUE]
  BY Zenon, <1>0, <1>2
<1>3. CASE /\ tracked[t] = "own" /\ tracked' = [tracked EXCEPT ![t] = Nothing]
           /\ cpu' = [cpu EXCEPT ![t].own = FALSE] /\ ~Rseq!SysRegister(t)
  BY Zenon, <1>0, <1>3
<1>4. QED
  <2>1. ASSUME Rseq!SysRegister(t), tracked[t] # Nothing PROVE tracked' = tracked /\ cpu' = cpu
    BY Zenon, <2>1 DEF Rseq!SysRegister
  <2>2. ASSUME Rseq!SysUnregister(t), tracked[t] = "own" PROVE ~Rseq!SysRegister(t)
    BY <1>0, <2>2 DEF Rseq!SysRegister, Rseq!SysUnregister
  <2>3. QED
    BY <1>0, <1>1, <1>2, <1>3, <2>1, <2>2 DEF Rseq!SysRegister, Rseq!SysUnregister

\* The intent to fence (decide_mode, the first membarrier).
LEMMA RseqRegisterIntent ==
  ASSUME RseqInv, NEW t \in running, Rseq!RegisterIntent(t) PROVE RseqInv'
<1>0. /\ t \in Probers /\ prober \in [Probers -> Locals] /\ prober[t] \in Locals
      /\ RseqTypes /\ Of(t, mode, intent, forked)
  BY DEF RseqInv, RseqTypes
<1>1. \/ host.intent /\ Moved(t, "fence", prober[t].decided, prober[t].area)
      \/ ~host.intent /\ Moved(t, "publish", "unavailable", prober[t].area)
  BY <1>0, GotoMoves, DecideMoves DEF Rseq!RegisterIntent, RseqPcs, Decisions
<1>2. RseqTypes' BY <1>0, <1>1 DEF Rseq!RegisterIntent, RseqTypes, Moved
<1>3. Beside(t) BY <1>0, <1>1 DEF Rseq!RegisterIntent, RseqTypes, Moved, Beside
<1>4. ThreadInv(prober'[t], tracked'[t], cpu'[t], said'[t], host, mode', intent', forked)
  BY <1>0, <1>1 DEF Rseq!RegisterIntent, Of, ThreadInv, Armed, Moved, RseqTypes,
     Decisions
<1>5. ASSUME NEW u \in running, u # t PROVE Of(u, mode', intent', forked)
  BY Zenon, <1>0, <1>5 DEF RseqInv, Of, ThreadInv, Rseq!RegisterIntent
<1>6. host' = host /\ running' = running /\ forked' = forked
  BY Zenon DEF Rseq!RegisterIntent
<1>7. QED BY Zenon, <1>2, <1>3, <1>4, <1>5, <1>6, OneMoves

\* The fence (decide_mode, the second membarrier).
LEMMA RseqProbeFence ==
  ASSUME RseqInv, NEW t \in running, Rseq!ProbeFence(t) PROVE RseqInv'
<1>0. /\ t \in Probers /\ prober \in [Probers -> Locals] /\ prober[t] \in Locals
      /\ RseqTypes /\ Of(t, mode, intent, forked)
  BY DEF RseqInv, RseqTypes
<1>1. \/ host.fence /\ intent /\ Moved(t, "area", prober[t].decided, prober[t].area)
      \/ Moved(t, "publish", "unavailable", prober[t].area)
  BY <1>0, GotoMoves, DecideMoves DEF Rseq!ProbeFence, RseqPcs, Decisions
<1>2. RseqTypes' BY <1>0, <1>1 DEF Rseq!ProbeFence, RseqTypes, Moved
<1>3. Beside(t) BY <1>0, <1>1 DEF Rseq!ProbeFence, RseqTypes, Moved, Beside
<1>4. ThreadInv(prober'[t], tracked'[t], cpu'[t], said'[t], host, mode', intent', forked)
  BY <1>0, <1>1 DEF Rseq!ProbeFence, Of, ThreadInv, Armed, Moved, RseqTypes, Decisions
<1>5. ASSUME NEW u \in running, u # t PROVE Of(u, mode', intent', forked)
  BY <1>0, <1>5 DEF RseqInv, Rseq!ProbeFence
<1>6. host' = host /\ running' = running /\ forked' = forked
  BY Zenon DEF Rseq!ProbeFence
<1>7. QED BY Zenon, <1>2, <1>3, <1>4, <1>5, <1>6, OneMoves

\* The end of a sequence.
LEMMA RseqCommit == ASSUME RseqInv, NEW t \in running, Rseq!Commit(t) PROVE RseqInv'
<1>0. /\ t \in Probers /\ prober \in [Probers -> Locals] /\ prober[t] \in Locals
      /\ RseqTypes /\ Of(t, mode, intent, forked)
  BY DEF RseqInv, RseqTypes
<1>1. Moved(t, "idle", Nothing, Nothing)
  BY Zenon, <1>0, IdleMoves DEF Rseq!Commit
<1>2. RseqTypes' BY <1>0, <1>1 DEF Rseq!Commit, RseqTypes, Moved
<1>3. Beside(t) BY <1>0, <1>1 DEF Rseq!Commit, RseqTypes, Moved, Beside
<1>4. ThreadInv(prober'[t], tracked'[t], cpu'[t], said'[t], host, mode', intent', forked)
  BY <1>0, <1>1 DEF Rseq!Commit, Of, ThreadInv, Armed, Moved, RseqTypes, Decisions
<1>5. ASSUME NEW u \in running, u # t PROVE Of(u, mode', intent', forked)
  BY <1>0, <1>5 DEF RseqInv, Rseq!Commit
<1>6. host' = host /\ running' = running /\ forked' = forked BY Zenon DEF Rseq!Commit
<1>7. QED BY Zenon, <1>2, <1>3, <1>4, <1>5, <1>6, OneMoves

\* One decision becomes the mode, and whoever comes later takes it (enable).
LEMMA RseqPublish == ASSUME RseqInv, NEW t \in running, Rseq!Publish(t) PROVE RseqInv'
<1>0. /\ t \in Probers /\ prober \in [Probers -> Locals] /\ prober[t] \in Locals
      /\ RseqTypes /\ Of(t, mode, intent, forked)
  BY DEF RseqInv, RseqTypes
<1>1. Moved(t, "idle", Nothing, Nothing)
  BY Zenon, <1>0, IdleMoves DEF Rseq!Publish
<1>2. RseqTypes'
  BY <1>0, <1>1 DEF Rseq!Publish, RseqTypes, Moved, Rseq!Answer, Of, ThreadInv
<1>3. Beside(t)
  BY <1>0, <1>1 DEF Rseq!Publish, RseqTypes, Moved, Beside, Rseq!Answer, Of, ThreadInv
<1>4. ThreadInv(prober'[t], tracked'[t], cpu'[t], said'[t], host, mode', intent', forked)
  <2>1. /\ mode' \in Decisions
        /\ Armed(mode') => intent /\ host.fence
        /\ mode' = "selfreg" => mode = "selfreg" \/ prober[t].decided = "selfreg"
        /\ prober[t].pc = "publish"
    BY <1>0 DEF Rseq!Publish, Of, ThreadInv, Armed, RseqTypes, Decisions
  <2>2. said'[t] = (IF Armed(mode') THEN "usable" ELSE "unusable")
    BY <1>0 DEF Rseq!Publish, Rseq!Answer, Rseq!Usable, Armed, RseqTypes
  <2>3. prober'[t].pc = "idle" /\ prober'[t].decided = Nothing
    BY <1>1 DEF Moved
  <2>4. tracked'[t] = tracked[t] /\ cpu'[t] = cpu[t] /\ intent' = intent
    BY DEF Rseq!Publish
  <2>5. /\ cpu[t].own /\ tracked[t] # "own" =>
             /\ forked /\ tracked[t] = Nothing /\ mode' # "selfreg"
        /\ host.glibc => tracked[t] = "glibc"
        /\ cpu[t].glibc => host.glibc
    BY <1>0, <2>1 DEF Of, ThreadInv
  <2>6. /\ ~Armed(Nothing) /\ Nothing # "selfreg"
        /\ "idle" \notin {"section", "area", "publish", "child"}
    BY RseqAssumption DEF Armed, Rseq!ConstantsOK
  <2>7. (said'[t] = "usable" <=> Armed(mode')) /\ mode' # "unknown"
    BY <2>1, <2>2 DEF Decisions, Armed
  <2>8. QED BY Zenon, <2>1, <2>3, <2>4, <2>5, <2>6, <2>7 DEF ThreadInv
<1>5. ASSUME NEW u \in running, u # t PROVE Of(u, mode', intent', forked)
  BY <1>0, <1>5 DEF RseqInv, Of, ThreadInv, Armed, Rseq!Publish, Decisions
<1>6. host' = host /\ running' = running /\ forked' = forked BY Zenon DEF Rseq!Publish
<1>7. QED BY Zenon, <1>2, <1>3, <1>4, <1>5, <1>6, OneMoves

\* A fork keeps one thread, whose handler is still to run.
LEMMA RseqFork == ASSUME RseqInv, NEW t \in running, Rseq!Fork(t) PROVE RseqInv'
<1>0. /\ t \in Probers /\ prober \in [Probers -> Locals] /\ prober[t] \in Locals
      /\ RseqTypes /\ Of(t, mode, intent, forked)
  BY DEF RseqInv, RseqTypes
<1>1. Moved(t, "child", prober[t].decided, prober[t].area)
  BY <1>0, GotoMoves DEF Rseq!Fork, RseqPcs
<1>2. RseqTypes' BY SMTT(20), <1>0, <1>1 DEF Rseq!Fork, RseqTypes, Moved
<1>3. ThreadInv(prober'[t], tracked'[t], cpu'[t], said'[t], host', mode', intent', forked')
  BY SMTT(20), <1>0, <1>1, RseqAssumption DEF Rseq!Fork, Of, ThreadInv, Armed, Moved, RseqTypes,
     Decisions, Rseq!ConstantsOK
<1>4. running' = {t} BY <1>0 DEF Rseq!Fork, RseqInv, Of, ThreadInv
<1>5. QED BY Zenon, <1>2, <1>3, <1>4, LastMoves

\* The handler of the child drops the mode (reset_after_fork).
LEMMA RseqResetAfterFork ==
  ASSUME RseqInv, NEW t \in running, Rseq!ResetAfterFork(t) PROVE RseqInv'
<1>0. /\ t \in Probers /\ prober \in [Probers -> Locals] /\ prober[t] \in Locals
      /\ RseqTypes /\ Of(t, mode, intent, forked)
  BY DEF RseqInv, RseqTypes
<1>1. Moved(t, "idle", Nothing, Nothing)
  BY Zenon, <1>0, IdleMoves DEF Rseq!ResetAfterFork
<1>2. RseqTypes' BY SMTT(20), <1>0, <1>1 DEF Rseq!ResetAfterFork, RseqTypes, Moved
<1>3. ThreadInv(prober'[t], tracked'[t], cpu'[t], said'[t], host', mode', intent', forked')
  BY SMTT(20), <1>0, <1>1, RseqAssumption DEF Rseq!ResetAfterFork, Of, ThreadInv, Armed, Moved,
     RseqTypes, Decisions, Rseq!ConstantsOK
<1>4. running' = {t} BY <1>0 DEF Rseq!ResetAfterFork, RseqInv, Of, ThreadInv
<1>5. QED BY Zenon, <1>2, <1>3, <1>4, LastMoves

\* A call of enable begins, or is answered at once.
LEMMA RseqEnable == ASSUME RseqInv, NEW t \in running, Rseq!Enable(t) PROVE RseqInv'
<1>0. /\ t \in Probers /\ prober \in [Probers -> Locals] /\ prober[t] \in Locals
      /\ RseqTypes /\ Of(t, mode, intent, forked)
  BY DEF RseqInv, RseqTypes
<1>1. \/ /\ mode = "unknown" /\ said' = said
         /\ Moved(t, "intent", prober[t].decided, prober[t].area)
      \/ /\ mode # "unknown" /\ prober' = prober
         /\ said' = [said EXCEPT ![t] = IF Armed(mode) THEN "usable" ELSE "unusable"]
  BY <1>0, GotoMoves DEF Rseq!Enable, Rseq!Answer, Rseq!Usable, Armed, RseqPcs
<1>2. RseqTypes' BY <1>0, <1>1 DEF Rseq!Enable, RseqTypes, Moved
<1>3. Beside(t) BY <1>0, <1>1 DEF Rseq!Enable, RseqTypes, Moved, Beside
<1>4. ThreadInv(prober'[t], tracked'[t], cpu'[t], said'[t], host, mode', intent', forked)
  BY SMTT(20), <1>0, <1>1, RseqAssumption DEF Rseq!Enable, Of, ThreadInv, Armed, Moved, RseqTypes,
     Rseq!ConstantsOK
<1>5. ASSUME NEW u \in running, u # t PROVE Of(u, mode', intent', forked)
  BY <1>5 DEF RseqInv, Rseq!Enable
<1>6. host' = host /\ running' = running /\ forked' = forked BY Zenon DEF Rseq!Enable
<1>7. QED BY Zenon, <1>2, <1>3, <1>4, <1>5, <1>6, OneMoves

\* A sequence begins on the tracked area, since the area reads as a CPU.
LEMMA RseqArm == ASSUME RseqInv, NEW t \in running, Rseq!Arm(t) PROVE RseqInv'
<1>0. /\ t \in Probers /\ prober \in [Probers -> Locals] /\ prober[t] \in Locals
      /\ RseqTypes /\ Of(t, mode, intent, forked)
  BY DEF RseqInv, RseqTypes
<1>1. /\ Moved(t, "section", prober[t].decided, tracked[t])
  <2>1. Rseq!AreaOf(mode) \in {"glibc", "own", Nothing}
    BY DEF Rseq!AreaOf, Rseq!GlibcArea, Rseq!SelfregArea
  <2>2. Rseq!AreaOf(mode) = tracked[t]
    BY <1>0, RseqAssumption DEF Rseq!Arm, Rseq!AreaOf, Rseq!GlibcArea, Rseq!SelfregArea,
       Rseq!CpuOf, Of, ThreadInv, RseqTypes, Rseq!ConstantsOK
  <2>3. QED BY Zenon, <1>0, <2>1, <2>2, ArmMoves DEF Rseq!Arm
<1>2. RseqTypes' BY <1>0, <1>1 DEF Rseq!Arm, RseqTypes, Moved
<1>3. Beside(t) BY <1>0, <1>1 DEF Rseq!Arm, RseqTypes, Moved, Beside
<1>4. ThreadInv(prober'[t], tracked'[t], cpu'[t], said'[t], host, mode', intent', forked)
  BY <1>0, <1>1, RseqAssumption DEF Rseq!Arm, Of, ThreadInv, Armed, Moved, RseqTypes,
     Rseq!ConstantsOK
<1>5. ASSUME NEW u \in running, u # t PROVE Of(u, mode', intent', forked)
  BY <1>5 DEF RseqInv, Rseq!Arm
<1>6. host' = host /\ running' = running /\ forked' = forked BY Zenon DEF Rseq!Arm
<1>7. QED BY Zenon, <1>2, <1>3, <1>4, <1>5, <1>6, OneMoves

\* A thread registers its own area.
LEMMA RseqRegisterCurrentThread ==
  ASSUME RseqInv, NEW t \in running, Rseq!RegisterCurrentThread(t) PROVE RseqInv'
<1>0. t \in Probers /\ RseqTypes /\ Of(t, mode, intent, forked)
  BY DEF RseqInv, RseqTypes
<1>1. /\ prober[t].pc = "idle" /\ mode = "selfreg" /\ Rseq!SysRegister(t)
      /\ UNCHANGED <<host, mode, intent, prober, said, running, forked>>
  BY DEF Rseq!RegisterCurrentThread
<1>2. RseqTypes' BY <1>0, <1>1, Registers DEF RseqTypes
<1>3. Beside(t) BY SMTT(20), <1>0, <1>1, Registers DEF Beside
<1>4. ThreadInv(prober'[t], tracked'[t], cpu'[t], said'[t], host, mode', intent', forked)
  BY SMTT(20), <1>0, <1>1, Registers, RseqAssumption DEF Of, ThreadInv, Armed, Rseq!ConstantsOK
<1>5. ASSUME NEW u \in running, u # t PROVE Of(u, mode', intent', forked)
  BY <1>1, <1>5 DEF RseqInv
<1>6. QED BY Zenon, <1>1, <1>2, <1>3, <1>4, <1>5, OneMoves

\* A thread takes its own area back.
LEMMA RseqUnregisterCurrentThread ==
  ASSUME RseqInv, NEW t \in running, Rseq!UnregisterCurrentThread(t) PROVE RseqInv'
<1>0. t \in Probers /\ RseqTypes /\ Of(t, mode, intent, forked)
  BY DEF RseqInv, RseqTypes
<1>1. /\ prober[t].pc = "idle" /\ mode = "selfreg" /\ Rseq!SysUnregister(t)
      /\ UNCHANGED <<host, mode, intent, prober, said, running, forked>>
  BY DEF Rseq!UnregisterCurrentThread
<1>2. RseqTypes' BY SMTT(20), <1>0, <1>1, Registers DEF RseqTypes
<1>3. Beside(t) BY SMTT(20), <1>0, <1>1, Registers DEF Beside
<1>4. ThreadInv(prober'[t], tracked'[t], cpu'[t], said'[t], host, mode', intent', forked)
  BY <1>0, <1>1, Registers, RseqAssumption DEF Of, ThreadInv, Armed, Rseq!ConstantsOK
<1>5. ASSUME NEW u \in running, u # t PROVE Of(u, mode', intent', forked)
  BY <1>1, <1>5 DEF RseqInv
<1>6. QED BY Zenon, <1>1, <1>2, <1>3, <1>4, <1>5, OneMoves

\* The choice of the area (decide_mode), with a registration on the way.
LEMMA RseqPickArea ==
  ASSUME RseqInv, NEW t \in running, Rseq!PickArea(t) PROVE RseqInv'
<1>0. /\ t \in Probers /\ prober \in [Probers -> Locals] /\ prober[t] \in Locals
      /\ RseqTypes /\ Of(t, mode, intent, forked)
  BY DEF RseqInv, RseqTypes
<1>1. /\ prober[t].pc = "area"
      /\ UNCHANGED <<host, mode, intent, said, running, forked>>
  BY DEF Rseq!PickArea
<1>2. PICK m \in Decisions :
        /\ Rseq!Decide(t, m)
        /\ \/ m # "selfreg" /\ UNCHANGED <<tracked, cpu>>
           \/ Rseq!SysRegister(t)
  BY DEF Rseq!PickArea, Decisions
<1>3. Moved(t, "publish", m, prober[t].area) BY Zenon, <1>0, <1>2, DecideMoves
<1>4. RseqTypes' BY <1>0, <1>1, <1>2, <1>3, Registers DEF RseqTypes, Moved
<1>5. Beside(t) BY SMTT(20), <1>0, <1>1, <1>2, <1>3, Registers DEF Beside, Moved
<1>6. ThreadInv(prober'[t], tracked'[t], cpu'[t], said'[t], host, mode', intent', forked)
  BY <1>0, <1>1, <1>2, <1>3, Registers, RseqAssumption
     DEF Of, ThreadInv, Armed, Moved, Rseq!ConstantsOK
<1>7. ASSUME NEW u \in running, u # t PROVE Of(u, mode', intent', forked)
  BY <1>1, <1>7 DEF RseqInv
<1>8. QED BY Zenon, <1>1, <1>4, <1>5, <1>6, <1>7, OneMoves

\* RseqInv holds in every state of the part about rseq.
LEMMA RseqInvariant == MCSpec => [](part = "rseq" => RseqInv)
<1>1. MCInit => (part = "rseq" => RseqInv) BY Zenon, RseqStart DEF MCInit
<1>2. (part = "rseq" => RseqInv) /\ [MCNext]_<<part, vars, bootVars, rseqVars>>
      => (part = "rseq" => RseqInv)'
  <2>1. ASSUME RseqInv, UNCHANGED rseqVars PROVE RseqInv'
    BY Zenon, <2>1 DEF rseqVars, RseqInv, RseqTypes, Of
  <2>2. ASSUME RseqInv, Rseq!Next PROVE RseqInv'
    BY Zenon, <2>2, RseqEnable, RseqRegisterIntent, RseqProbeFence, RseqPickArea,
       RseqPublish, RseqRegisterCurrentThread, RseqUnregisterCurrentThread, RseqArm,
       RseqCommit, RseqFork, RseqResetAfterFork
       DEF Rseq!Next
  <2>3. QED BY Zenon, <2>1, <2>2 DEF MCNext
<1>3. QED BY <1>1, <1>2, PTL DEF MCSpec

\* For every set of threads and every host: a sequence runs only on the area the
\* kernel tracks, the fence works while sequences may run, and every enable of a
\* process gets one answer, across unregistering and a fork (rseq/mod.rs: enable,
\* decide_mode, reset_after_fork).
THEOREM RseqIsSound == MCSpec => []RseqSound
<1>1. RseqInv => Rseq!TypeOK
  BY DEF RseqInv, RseqTypes, Rseq!TypeOK, Rseq!Areas, Locals, RseqPcs, Decisions
<1>2. RseqInv => Rseq!ArmedIsTracked
  BY DEF RseqInv, Of, ThreadInv, Rseq!ArmedIsTracked
<1>3. RseqInv => Rseq!FenceReliable
  BY SMTT(20) DEF RseqInv, RseqTypes, Of, ThreadInv, Armed, Rseq!FenceReliable, Rseq!Usable
<1>4. RseqInv => Rseq!OneAnswer
  BY DEF RseqInv, Of, ThreadInv, Armed, Rseq!OneAnswer, Rseq!Usable
<1>5. QED BY <1>1, <1>2, <1>3, <1>4, RseqInvariant, PTL DEF RseqSound

-----------------------------------------------------------------------------
(* The first call.                                                         *)

Registering(t) == pc[t] \in {"install", "installed", "declined"}

\* The registration that a call may rely on.
Settled(t) == installs = 1 \/ failures > seen[t]

\* The word of ATFORK and the handlers.
WordInv ==
    /\ installs \in {0, 1}
    /\ guard = "idle" => installs = 0
    /\ guard = "done" => installs = 1
    /\ \A t \in Threads : Registering(t) =>
         /\ guard = "inProgress"
         /\ installs = IF pc[t] = "installed" THEN 1 ELSE 0
         /\ pc[t] = "declined" => failures < MaxFailures
    /\ \A t, u \in Threads : Registering(t) /\ Registering(u) => t = u

\* What a call of global() has seen.
CallInv ==
    /\ \A t \in Threads :
         /\ seen[t] <= failures
         /\ pc[t] = "await" => guard # "idle" \/ failures > seen[t]
         /\ pc[t] \in {"enter", "once", "build", "exit"} => Settled(t)
         /\ pc[t] # "idle" => t \in alive
         /\ fork[t] # "none" => t \in alive
    /\ AttemptBeforeInit

\* The gate keeps builders and windows apart, as long as every fork ran the
\* handlers.
GateInv ==
    ~unhandled =>
        /\ \A t \in Threads :
             /\ fork[t] = "window" <=> owner = t
             /\ pc[t] \in {"once", "build", "exit"} => t \in inside \/ owner = t
        /\ owner # Nobody => inside = {}
        /\ engine = "building" => builder \in Threads /\ pc[builder] = "build"

IInv == TypeOK /\ WordInv /\ CallInv /\ GateInv

-----------------------------------------------------------------------------
\* Init establishes it.
LEMMA InvInit == Init => IInv
<1>1. SUFFICES ASSUME Init PROVE IInv BY Zenon
<1>2. installs \in {0, 1} /\ guard \in {"idle", "done"}
      /\ (guard = "idle" => installs = 0) /\ (guard = "done" => installs = 1)
  BY Zenon, <1>1, BringupAssumption DEF Init
<1>3. TypeOK
  <2>1. unhandled \in BOOLEAN BY Zenon, <1>1 DEF Init
  <2>2. seen \in [Threads -> 0 .. MaxFailures] /\ 0 \in 0 .. Operational
    BY <1>1, BringupAssumption DEF Init, Operational
  <2>3. QED BY <1>1, <1>2, <2>1, <2>2, BringupAssumption DEF Init, TypeOK
<1>4. WordInv BY Zenon, <1>1, <1>2 DEF Init, WordInv, Registering
<1>5. CallInv BY <1>1 DEF Init, CallInv, Settled, AttemptBeforeInit
<1>6. GateInv BY Zenon, <1>1, BringupAssumption DEF Init, GateInv
<1>7. QED BY Zenon, <1>3, <1>4, <1>5, <1>6 DEF IInv

\* Types.
LEMMA TypeStep == ASSUME IInv, Next PROVE TypeOK'
<1> USE BringupAssumption DEF IInv, TypeOK, Operational
<1>1. PICK t \in alive : \/ Global(t) \/ CallStep(t) \/ Prefork(t) \/ ForkStep(t)
  BY Zenon DEF Next
<1>2. t \in Threads BY Zenon
<1>3. CASE Global(t) BY <1>2, <1>3 DEF Global, Goto, word, once, gate, process
<1>4. CASE Check(t) BY <1>2, <1>4 DEF Check, Goto, Return, word, once, gate, process
<1>5. CASE TryClaim(t) BY Zenon, <1>2, <1>5 DEF TryClaim, Goto, once, gate, process
<1>6. CASE Await(t)
  BY <1>2, <1>6 DEF Await, AfterAttempt, Goto, Return, word, once, gate, process
<1>7. CASE Install(t) BY <1>2, <1>7 DEF Install, Goto, once, gate, process
<1>8. CASE Publish(t)
  <2>1. failures' \in 0 .. MaxFailures
    BY <1>2, <1>8 DEF Publish, WordInv, Registering
  <2>2. QED
    BY <1>2, <1>8, <2>1 DEF Publish, AfterAttempt, Goto, Return, once, gate, process
<1>9. CASE Enter(t) BY Zenon, <1>2, <1>9 DEF Enter, Goto, word, once, process
<1>10. CASE GetOrInit(t) BY Zenon, <1>2, <1>10 DEF GetOrInit, Goto, word, gate, process
<1>11. CASE Build(t) BY <1>2, <1>11 DEF Build, Goto, word, gate, process, OsDiscovery
<1>12. CASE Exit(t) BY <1>2, <1>12 DEF Exit, Goto, Return, word, once, process
<1>13. CASE Prefork(t) BY <1>2, <1>13 DEF Prefork, word, once, gate, call
<1>14. CASE OpenWindow(t) BY Zenon, <1>2, <1>14 DEF OpenWindow, word, once, call
<1>15. CASE ForkParent(t) BY Zenon, <1>2, <1>15 DEF ForkParent, word, once, call
<1>16. CASE ForkChild(t)
  <2>1. unhandled' \in BOOLEAN BY Zenon, <1>16 DEF ForkChild
  <2>2. seen' \in [Threads -> 0 .. MaxFailures] BY <1>16 DEF ForkChild
  <2>3. inside' \subseteq Threads /\ owner' \in Threads \cup {Nobody}
    BY Zenon, <1>16 DEF ForkChild, gate
  <2>4. QED BY Zenon, <1>2, <1>16, <2>1, <2>2, <2>3 DEF ForkChild, word, once
<1>17. QED
  BY Zenon, <1>1, <1>3, <1>4, <1>5, <1>6, <1>7, <1>8, <1>9, <1>10, <1>11, <1>12, <1>13,
     <1>14, <1>15, <1>16 DEF CallStep, ForkStep

\* One thread registers at a time, and the word says where it got to.
LEMMA WordStep == ASSUME IInv, Next PROVE WordInv'
<1> USE DEF IInv, TypeOK, WordInv, Registering
<1>1. PICK t \in alive : \/ Global(t) \/ CallStep(t) \/ Prefork(t) \/ ForkStep(t)
  BY Zenon DEF Next
<1>2. t \in Threads BY Zenon
<1>3. CASE Global(t) BY <1>2, <1>3 DEF Global, Goto, word
<1>4. CASE Check(t) BY <1>2, <1>4 DEF Check, Goto, Return, word
<1>5. CASE TryClaim(t) BY <1>2, <1>5 DEF TryClaim, Goto
<1>6. CASE Await(t) BY <1>2, <1>6 DEF Await, AfterAttempt, Goto, Return, word
<1>7. CASE Install(t) BY <1>2, <1>7 DEF Install, Goto
<1>8. CASE Publish(t) BY SMTT(20), <1>2, <1>8 DEF Publish, AfterAttempt, Goto, Return
<1>9. CASE Enter(t) BY <1>2, <1>9 DEF Enter, Goto, word
<1>10. CASE GetOrInit(t) BY SMTT(20), <1>2, <1>10 DEF GetOrInit, Goto, word
<1>11. CASE Build(t) BY SMTT(20), <1>2, <1>11 DEF Build, Goto, word
<1>12. CASE Exit(t) BY <1>2, <1>12 DEF Exit, Goto, Return, word
<1>13. CASE Prefork(t) BY Zenon, <1>13 DEF Prefork, word, call
<1>14. CASE OpenWindow(t) BY Zenon, <1>14 DEF OpenWindow, word, call
<1>15. CASE ForkParent(t) BY Zenon, <1>15 DEF ForkParent, word, call
<1>16. CASE ForkChild(t) BY Zenon, <1>16 DEF ForkChild, word
<1>17. QED
  BY Zenon, <1>1, <1>3, <1>4, <1>5, <1>6, <1>7, <1>8, <1>9, <1>10, <1>11, <1>12, <1>13,
     <1>14, <1>15, <1>16 DEF CallStep, ForkStep

\* A call never goes past an attempt that it did not see end.
LEMMA CallsStep == ASSUME IInv, Next PROVE CallInv'
<1> USE DEF IInv, TypeOK, CallInv, Settled, AttemptBeforeInit
<1>1. PICK t \in alive : \/ Global(t) \/ CallStep(t) \/ Prefork(t) \/ ForkStep(t)
  BY Zenon DEF Next
<1>2. t \in Threads BY Zenon
<1>3. CASE Global(t) BY SMTT(20), <1>2, <1>3 DEF Global, Goto, word, once, process
<1>4. CASE Check(t) BY <1>2, <1>4 DEF Check, Goto, Return, word, once, process
<1>5. CASE TryClaim(t) BY Zenon, <1>2, <1>5 DEF TryClaim, Goto, once, process
<1>6. CASE Await(t)
  BY <1>2, <1>6 DEF Await, AfterAttempt, Goto, Return, word, once, process, WordInv
<1>7. CASE Install(t)
  BY SMTT(20), <1>2, <1>7 DEF Install, Goto, once, process, WordInv, Registering
<1>8. CASE Publish(t)
  <2>1. installs' = installs /\ failures' >= failures
        /\ (pc[t] = "declined" => failures' = failures + 1)
        /\ (pc[t] = "installed" => installs = 1)
    BY <1>2, <1>8 DEF Publish, WordInv, Registering
  <2>2. QED
    BY <1>2, <1>8, <2>1 DEF Publish, AfterAttempt, Goto, Return, once, process
<1>9. CASE Enter(t) BY Zenon, <1>2, <1>9 DEF Enter, Goto, word, once, process
<1>10. CASE GetOrInit(t) BY SMTT(20), <1>2, <1>10 DEF GetOrInit, Goto, word, process
<1>11. CASE Build(t) BY <1>2, <1>11 DEF Build, Goto, word, process
<1>12. CASE Exit(t) BY <1>2, <1>12 DEF Exit, Goto, Return, word, once, process
<1>13. CASE Prefork(t) BY Zenon, <1>2, <1>13 DEF Prefork, word, once, call
<1>14. CASE OpenWindow(t) BY Zenon, <1>2, <1>14 DEF OpenWindow, word, once, call
<1>15. CASE ForkParent(t) BY Zenon, <1>2, <1>15 DEF ForkParent, word, once, call
<1>16. CASE ForkChild(t) BY <1>2, <1>16 DEF ForkChild, word, once
<1>17. QED
  BY Zenon, <1>1, <1>3, <1>4, <1>5, <1>6, <1>7, <1>8, <1>9, <1>10, <1>11, <1>12, <1>13,
     <1>14, <1>15, <1>16 DEF CallStep, ForkStep

\* Nobody is at the engine while a window is open, but its owner.
LEMMA GateStep == ASSUME IInv, Next PROVE GateInv'
<1> USE BringupAssumption DEF IInv, TypeOK, GateInv
<1>1. PICK t \in alive : \/ Global(t) \/ CallStep(t) \/ Prefork(t) \/ ForkStep(t)
  BY Zenon DEF Next
<1>2. t \in Threads BY Zenon
<1>3. CASE Global(t) BY <1>2, <1>3 DEF Global, Goto, once, gate, process
<1>4. CASE Check(t) BY SMTT(20), <1>2, <1>4 DEF Check, Goto, Return, once, gate, process
<1>5. CASE TryClaim(t) BY SMTT(20), <1>2, <1>5 DEF TryClaim, Goto, once, gate, process
<1>6. CASE Await(t)
  BY <1>2, <1>6 DEF Await, AfterAttempt, Goto, Return, once, gate, process
<1>7. CASE Install(t) BY SMTT(20), <1>2, <1>7 DEF Install, Goto, once, gate, process
<1>8. CASE Publish(t)
  BY <1>2, <1>8 DEF Publish, AfterAttempt, Goto, Return, once, gate, process
<1>9. CASE Enter(t) BY Zenon, <1>2, <1>9 DEF Enter, Goto, once, process
<1>10. CASE GetOrInit(t) BY <1>2, <1>10 DEF GetOrInit, Goto, gate, process
<1>11. CASE Build(t) BY Zenon, <1>2, <1>11 DEF Build, Goto, gate, process
<1>12. CASE Exit(t) BY Zenon, <1>2, <1>12 DEF Exit, Goto, Return, once, process
<1>13. CASE Prefork(t) BY Zenon, <1>2, <1>13 DEF Prefork, once, gate, call
<1>14. CASE OpenWindow(t) BY Zenon, <1>2, <1>14 DEF OpenWindow, once, call
<1>15. CASE ForkParent(t) BY <1>2, <1>15 DEF ForkParent, once, call
<1>16. CASE ForkChild(t) BY <1>2, <1>16 DEF ForkChild, once, gate
<1>17. QED
  BY Zenon, <1>1, <1>3, <1>4, <1>5, <1>6, <1>7, <1>8, <1>9, <1>10, <1>11, <1>12, <1>13,
     <1>14, <1>15, <1>16 DEF CallStep, ForkStep

\* IInv is an invariant of the first calls.
THEOREM BringupInvariant == Spec => []IInv
<1>1. IInv /\ UNCHANGED vars => IInv'
  BY DEF vars, word, once, gate, call, process, IInv, TypeOK, WordInv, CallInv,
     GateInv, Registering, Settled, AttemptBeforeInit
<1>2. IInv /\ [Next]_vars => IInv'
  BY Zenon, <1>1, TypeStep, WordStep, CallsStep, GateStep DEF IInv
<1>3. QED BY InvInit, <1>2, PTL DEF Spec

\* For any number of threads, failures and forks: the handlers are installed at
\* most once, the engine is built after an attempt to install them, and a child
\* of a handled fork never inherits an engine that a lost thread was building
\* (register_atfork_handlers, global).
THEOREM FirstCallIsSafe == Spec => []FirstCallSafe
<1>1. IInv => FirstCallSafe
  BY DEF IInv, TypeOK, WordInv, CallInv, GateInv, FirstCallSafe, InstalledOnce,
     NoHalfBuiltChild
<1>2. QED BY <1>1, BringupInvariant, PTL

\* No call of global() returns on the strength of a registration that nobody
\* completed: it saw one completed, or an attempt fail meanwhile (AtforkGuard).
THEOREM NeverReturnsBlind == Spec => NoBlindReturn
<1> DEFINE Seen == \A t \in alive' : (pc[t] # "idle" /\ pc'[t] = "idle") =>
                      installs = 1 \/ failures' > seen[t]
<1>1. ASSUME IInv, Next PROVE Seen
  <2> USE <1>1 DEF IInv, TypeOK
  <2>1. PICK u \in alive : \/ Global(u) \/ CallStep(u) \/ Prefork(u) \/ ForkStep(u)
    BY Zenon DEF Next
  <2>2. SUFFICES ASSUME NEW t \in alive', pc[t] # "idle", pc'[t] = "idle"
                 PROVE  installs = 1 \/ failures' > seen[t]
    BY Zenon
  <2>3. u \in Threads /\ t \in Threads BY Zenon, TypeStep
  <2>4. CASE ForkChild(u) BY Zenon, <2>2, <2>4 DEF ForkChild
  <2>5. CASE Check(u) BY Zenon, <2>2, <2>3, <2>5 DEF Check, Goto, Return, WordInv
  <2>6. CASE Await(u)
    BY Zenon, <2>2, <2>3, <2>6 DEF Await, AfterAttempt, Goto, Return, WordInv, CallInv,
       word
  <2>7. CASE Publish(u)
    BY <2>2, <2>3, <2>7 DEF Publish, AfterAttempt, Goto, Return, WordInv, CallInv,
       Registering
  <2>8. CASE Exit(u)
    BY Zenon, <2>2, <2>3, <2>8 DEF Exit, Goto, Return, CallInv, Settled, word
  <2>9. CASE Global(u) BY Zenon, <2>2, <2>3, <2>9 DEF Global, Goto
  <2>10. CASE TryClaim(u) \/ Install(u)
    BY Zenon, <2>2, <2>3, <2>10 DEF TryClaim, Install, Goto
  <2>11. CASE Enter(u) \/ GetOrInit(u) \/ Build(u)
    BY Zenon, <2>2, <2>3, <2>11 DEF Enter, GetOrInit, Build, Goto
  <2>12. CASE Prefork(u) \/ OpenWindow(u) \/ ForkParent(u)
    BY Zenon, <2>2, <2>12 DEF Prefork, OpenWindow, ForkParent, call
  <2>13. QED
    BY Zenon, <2>1, <2>4, <2>5, <2>6, <2>7, <2>8, <2>9, <2>10, <2>11, <2>12
       DEF CallStep, ForkStep
<1>2. IInv /\ [Next]_vars => [Seen]_vars BY Zenon, <1>1
<1>3. QED BY <1>2, BringupInvariant, PTL DEF Spec, NoBlindReturn
=============================================================================
