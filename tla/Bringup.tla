------------------------------- MODULE Bringup -------------------------------
(***************************************************************************)
(* The first calls into the allocator: topo-abi/src/lib.rs, global(), and  *)
(* topo-abi/src/fork_api.rs, the registration of the pthread_atfork        *)
(* handlers.  global() must build the engine once, with the handlers       *)
(* installed before, although pthread_atfork may fail for want of memory,  *)
(* several threads may come first, and any thread may call fork().         *)
(*                                                                         *)
(* The operation gate appears as its promise (QuiesceGate): inside and     *)
(* owner.  The load-time constructor has run, or was elided, before the    *)
(* first step.  The allocations that pthread_atfork or the initialiser     *)
(* make are served by the system allocator and change nothing here.        *)
(***************************************************************************)
EXTENDS Naturals, FiniteSets

CONSTANTS
    Threads,
    Nobody,
    LoadOutcomes,   \* did the load-time constructor register the handlers?
    MaxFailures,    \* bound: failing pthread_atfork calls
    MaxForks        \* bound: forks

ASSUME BringupAssumption ==
    /\ Nobody \notin Threads
    /\ LoadOutcomes \subseteq BOOLEAN /\ LoadOutcomes # {}
    /\ MaxFailures \in Nat /\ MaxForks \in Nat

VARIABLES
    guard,          \* the word of ATFORK
    installs,       \* how often pthread_atfork recorded the handlers
    failures,       \* how often it failed
    engine,         \* GLOBAL, a OnceLock
    builder,        \* the thread that runs its initialiser
    phase,          \* INIT_PHASE
    inside, owner,  \* the operation gate
    alive,          \* threads of the process that is followed
    unhandled,      \* history: some fork on the way here ran no handlers
    pc, route,      \* per thread: step of global(), and which path it is on
    seen,           \* history, per thread: failures when its call began
    fork, forks     \* per thread: step of fork(); number of forks

word == <<guard, installs, failures>>
once == <<engine, builder, phase>>
gate == <<inside, owner>>
call == <<pc, route, seen>>
process == <<alive, unhandled, fork, forks>>
vars == <<word, once, gate, call, process>>

\* InitPhase: the engine exists from ArenaRegistry on.
OsDiscovery == 2
Operational == 6

Init ==
    /\ \E ok \in LoadOutcomes : /\ guard = IF ok THEN "done" ELSE "idle"
                                /\ installs = IF ok THEN 1 ELSE 0
    /\ failures = 0
    /\ engine = "absent" /\ builder = Nobody /\ phase = 0
    /\ inside = {} /\ owner = Nobody
    /\ alive = Threads /\ unhandled = FALSE
    /\ pc = [t \in Threads |-> "idle"]
    /\ route = [t \in Threads |-> "fast"]
    /\ seen = [t \in Threads |-> 0]
    /\ fork = [t \in Threads |-> "none"]
    /\ forks = 0

\* One type invariant for the module.
TypeOK ==
    /\ guard \in {"idle", "inProgress", "done"}
    /\ installs \in Nat /\ failures \in 0 .. MaxFailures
    /\ engine \in {"absent", "building", "built", "failed"}
    /\ builder \in Threads \cup {Nobody}
    /\ phase \in 0 .. Operational
    /\ inside \subseteq Threads /\ owner \in Threads \cup {Nobody}
    /\ alive \subseteq Threads /\ unhandled \in BOOLEAN
    /\ pc \in [Threads -> {"idle", "check", "claim", "await", "install",
                           "installed", "declined", "enter", "once", "build",
                           "exit"}]
    /\ route \in [Threads -> {"fast", "slow"}]
    /\ seen \in [Threads -> 0 .. MaxFailures]
    /\ fork \in [Threads -> {"none", "prepare", "window", "bare"}]
    /\ forks \in 0 .. MaxForks

Goto(t, l) == pc' = [pc EXCEPT ![t] = l]
Return(t) == /\ Goto(t, "idle")
             /\ route' = [route EXCEPT ![t] = "fast"]
             /\ seen' = [seen EXCEPT ![t] = 0]

\* What follows an attempt to register: the fast path returns the engine, the
\* slow path goes on to the gated initialisation.
AfterAttempt(t) ==
    IF route[t] = "fast" THEN Return(t)
    ELSE Goto(t, "enter") /\ UNCHANGED <<route, seen>>

-----------------------------------------------------------------------------
(* global() and register_atfork_handlers *)

\* The forking thread may come here too, from another library's handler.
Global(t) ==
    /\ pc[t] = "idle" /\ fork[t] \in {"none", "window"}
    /\ seen' = [seen EXCEPT ![t] = failures]
    /\ IF engine \in {"built", "failed"}
       THEN Goto(t, "check") /\ route' = [route EXCEPT ![t] = "fast"]
       ELSE Goto(t, "claim") /\ route' = [route EXCEPT ![t] = "slow"]
    /\ UNCHANGED <<word, once, gate, process>>

\* Mutant: a flag of two states, which an attempt sets when it starts.
ChecksForAttempt(t) ==
    /\ pc[t] = "check"
    /\ IF guard # "idle" THEN Return(t)
       ELSE Goto(t, "claim") /\ UNCHANGED <<route, seen>>
    /\ UNCHANGED <<word, once, gate, process>>

\* atfork_registered: only a completed registration counts.
Check(t) ==
    /\ pc[t] = "check"
    /\ IF guard = "done" THEN Return(t)
       ELSE Goto(t, "claim") /\ UNCHANGED <<route, seen>>
    /\ UNCHANGED <<word, once, gate, process>>

\* Mutant: a load and a store instead of a compare-exchange.
ClaimsAnyway(t) ==
    /\ pc[t] = "claim"
    /\ IF guard # "done"
       THEN guard' = "inProgress" /\ Goto(t, "install")
       ELSE UNCHANGED guard /\ Goto(t, "await")
    /\ UNCHANGED <<installs, failures, once, gate, route, seen, process>>

TryClaim(t) ==
    /\ pc[t] = "claim"
    /\ IF guard = "idle"
       THEN guard' = "inProgress" /\ Goto(t, "install")
       ELSE UNCHANGED guard /\ Goto(t, "await")
    /\ UNCHANGED <<installs, failures, once, gate, route, seen, process>>

\* Mutant: the wait ends on success only.
AwaitsDone(t) ==
    /\ pc[t] = "await"
    /\ guard = "done"
    /\ AfterAttempt(t)
    /\ UNCHANGED <<word, once, gate, process>>

\* await_attempt: another thread's attempt is waited out, whatever its outcome.
Await(t) ==
    /\ pc[t] = "await"
    /\ guard # "inProgress"
    /\ AfterAttempt(t)
    /\ UNCHANGED <<word, once, gate, process>>

\* pthread_atfork (external) records the handlers or fails.
Install(t) ==
    /\ pc[t] = "install"
    /\ \/ installs' = installs + 1 /\ Goto(t, "installed")
       \/ failures < MaxFailures /\ UNCHANGED installs /\ Goto(t, "declined")
    /\ UNCHANGED <<guard, failures, once, gate, route, seen, process>>

Publish(t) ==
    /\ pc[t] \in {"installed", "declined"}
    /\ guard' = IF pc[t] = "installed" THEN "done" ELSE "idle"
    /\ failures' = IF pc[t] = "installed" THEN failures ELSE failures + 1
    /\ AfterAttempt(t)
    /\ UNCHANGED <<installs, once, gate, process>>

\* operation_guard; the thread that owns the window nests.
Enter(t) ==
    /\ pc[t] = "enter"
    /\ owner \in {Nobody, t}
    /\ inside' = IF owner = t THEN inside ELSE inside \cup {t}
    /\ Goto(t, "once")
    /\ UNCHANGED <<word, once, owner, route, seen, process>>

\* OnceLock::get_or_init (external): one thread runs the initialiser, the others
\* wait for it.
GetOrInit(t) ==
    /\ pc[t] = "once"
    /\ \/ /\ engine = "absent"
          /\ engine' = "building" /\ builder' = t /\ Goto(t, "build")
       \/ /\ engine \in {"built", "failed"}
          /\ UNCHANGED <<engine, builder>> /\ Goto(t, "exit")
    /\ UNCHANGED <<word, phase, gate, route, seen, process>>

\* The initialiser advances through the phases; after OS discovery no backend
\* may be available, and that outcome is kept for good.
Build(t) ==
    /\ pc[t] = "build"
    /\ \/ /\ phase < Operational
          /\ phase' = phase + 1
          /\ UNCHANGED <<engine, builder, pc>>
       \/ /\ phase \in {OsDiscovery, Operational}
          /\ engine' = IF phase = Operational THEN "built" ELSE "failed"
          /\ builder' = Nobody /\ Goto(t, "exit")
          /\ UNCHANGED phase
    /\ UNCHANGED <<word, gate, route, seen, process>>

Exit(t) ==
    /\ pc[t] = "exit"
    /\ inside' = inside \ {t}
    /\ Return(t)
    /\ UNCHANGED <<word, once, owner, process>>

-----------------------------------------------------------------------------
(* fork(): the handlers that are installed when it starts run around it *)

Prefork(t) ==
    /\ pc[t] = "idle" /\ fork[t] = "none"
    /\ forks < MaxForks
    /\ forks' = forks + 1
    /\ fork' = [fork EXCEPT ![t] = IF installs > 0 THEN "prepare" ELSE "bare"]
    /\ UNCHANGED <<word, once, gate, call, alive, unhandled>>

\* prefork waits until nobody is inside.
OpenWindow(t) ==
    /\ fork[t] = "prepare"
    /\ inside = {} /\ owner = Nobody
    /\ owner' = t
    /\ fork' = [fork EXCEPT ![t] = "window"]
    /\ UNCHANGED <<word, once, inside, call, alive, unhandled, forks>>

\* postfork_parent, if there are handlers.
ForkParent(t) ==
    /\ pc[t] = "idle" /\ fork[t] \in {"window", "bare"}
    /\ owner' = IF fork[t] = "window" THEN Nobody ELSE owner
    /\ fork' = [fork EXCEPT ![t] = "none"]
    /\ UNCHANGED <<word, once, inside, call, alive, unhandled, forks>>

\* atfork_child resets the gate; without handlers everything is inherited.
ForkChild(t) ==
    /\ pc[t] = "idle" /\ fork[t] \in {"window", "bare"}
    /\ alive' = {t}
    /\ pc' = [s \in Threads |-> "idle"] /\ route' = [s \in Threads |-> "fast"]
    /\ seen' = [s \in Threads |-> 0]
    /\ IF fork[t] = "window"
       THEN inside' = {} /\ owner' = Nobody /\ UNCHANGED unhandled
       ELSE unhandled' = TRUE /\ UNCHANGED gate
    /\ fork' = [s \in Threads |-> "none"]
    /\ UNCHANGED <<word, once, forks>>

-----------------------------------------------------------------------------
CallStep(t) ==
    \/ Check(t) \/ TryClaim(t) \/ Await(t) \/ Install(t) \/ Publish(t)
    \/ Enter(t) \/ GetOrInit(t) \/ Build(t) \/ Exit(t)

ForkStep(t) == OpenWindow(t) \/ ForkParent(t) \/ ForkChild(t)

Next == \E t \in alive : \/ Global(t) \/ CallStep(t)
                         \/ Prefork(t) \/ ForkStep(t)

Spec == Init /\ [][Next]_vars

\* A thread inside global() or fork() goes on; nobody has to call either.  A
\* window opens although other threads keep calling (ForkGate: DrainEnds), and
\* the handlers in it return although they call global() (hence strong).
Fairness ==
    \A t \in Threads : /\ WF_vars(t \in alive /\ CallStep(t))
                       /\ SF_vars(t \in alive /\ ForkStep(t))

FairSpec == Spec /\ Fairness

-----------------------------------------------------------------------------
(* Properties *)

\* register_atfork_handlers installs the handlers "exactly once": a second entry
\* would run prefork twice around one fork and wait on its own lock.
InstalledOnce == installs <= 1

\* AtforkGuard: no call of global() returns on the strength of a registration
\* that nobody completed; it saw one completed, or an attempt fail meanwhile.
NoBlindReturn ==
    [][\A t \in alive' : (pc[t] # "idle" /\ pc'[t] = "idle") =>
          installs = 1 \/ failures' > seen[t]]_vars

\* RegisteringWindow and await_attempt: the engine is not built before some
\* pthread_atfork call has returned, however many threads come first.
AttemptBeforeInit ==
    engine # "absent" => installs > 0 \/ failures > 0

\* fork_api.rs, "The three handlers": if every fork ran them, no process is left
\* with an engine that a thread of another process was building.
NoHalfBuiltChild ==
    ~unhandled /\ engine = "building" => builder \in alive

\* The process was forked off while a thread it does not have was registering,
\* or without the handlers.
Stranded ==
    \/ unhandled
    \/ /\ guard = "inProgress"
       /\ \A t \in alive : pc[t] \notin {"install", "installed", "declined"}

\* Every call of global() returns, whether the registration it waits for succeeds
\* or fails, and whoever forks meanwhile, unless the process is stranded: again and
\* again every thread of it is outside.
CallsReturn ==
    \A t \in Threads : []<>(pc[t] = "idle" \/ t \notin alive \/ Stranded)

\* The first call as a whole: one engine, built once, after the attempt to bring
\* the services up, and never inherited half built.
FirstCallSafe == TypeOK /\ InstalledOnce /\ AttemptBeforeInit /\ NoHalfBuiltChild
=============================================================================
