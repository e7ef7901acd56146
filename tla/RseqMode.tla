------------------------------ MODULE RseqMode ------------------------------
(***************************************************************************)
(* How a process decides whether it may run restartable sequences, and on  *)
(* which area (rseq/mod.rs, imp_linux.rs): enable probes the fence and the *)
(* areas and publishes one mode; a thread registers its own area where     *)
(* glibc has not; a fork child decides again.                              *)
(*                                                                         *)
(* The kernel is a register per thread (the area it tracks) and one per    *)
(* process (the intent to fence).  FrontEnd models the sequences.          *)
(***************************************************************************)
EXTENDS Naturals

CONSTANTS Threads,
          Hosts,    \* [glibc, std, intent, fence, foreign, kept, cleared]
          None

VARIABLES host,     \* the machine and the runtime this process met
          mode,     \* MODE
          intent,   \* the process registered its intent to fence
          tracked,  \* thread -> the area the kernel keeps, or None
          cpu,      \* thread -> area -> its cpu_id reads as a CPU
          th,       \* thread -> [pc, decided, area]
          said,     \* thread -> what enable last answered it, or None
          alive, forked

vars == <<host, mode, intent, tracked, cpu, th, said, alive, forked>>

\* What the model takes of its constants: a runtime that knows rseq registers the
\* thread of a fork child again.
ConstantsOK ==
    /\ Threads # {}
    /\ None \notin {"glibc", "own", "foreign", "usable", "unusable", "unavailable",
                    "selfreg"}
    /\ \A h \in Hosts :
         /\ {h.glibc, h.std, h.intent, h.fence, h.kept, h.cleared} \subseteq BOOLEAN
         /\ h.glibc => ~h.cleared

Idle == [pc |-> "idle", decided |-> None, area |-> None]

\* The area of a thread that nobody registered: cpu_id says so, it is not zero.
Zeroed == FALSE

\* A runtime that knows rseq registered its threads before the allocator ran:
\* glibc all of them, another one those in foreign.
Init ==
    /\ host \in Hosts
    /\ mode = "unknown" /\ intent = FALSE
    /\ tracked = [t \in Threads |-> IF host.glibc THEN "glibc"
                                    ELSE IF t \in host.foreign THEN "foreign" ELSE None]
    /\ cpu = [t \in Threads |-> [glibc |-> host.glibc, own |-> Zeroed]]
    /\ th = [t \in Threads |-> Idle] /\ said = [t \in Threads |-> None]
    /\ alive = Threads /\ forked = FALSE

----------------------------------------------------------------------------
(* The kernel.                                                             *)

\* rseq(2): a thread that has an area keeps it (EBUSY), whoever's it is.
SysRegister(t) ==
    IF tracked[t] = None
    THEN /\ tracked' = [tracked EXCEPT ![t] = "own"]
         /\ cpu' = [cpu EXCEPT ![t].own = TRUE]
    ELSE UNCHANGED <<tracked, cpu>>

SysUnregister(t) ==
    IF tracked[t] = "own"
    THEN /\ tracked' = [tracked EXCEPT ![t] = None]
         /\ cpu' = [cpu EXCEPT ![t].own = FALSE]
    ELSE UNCHANGED <<tracked, cpu>>

----------------------------------------------------------------------------
(* The mode.                                                               *)

Usable(m) == m \in {"glibc", "selfreg"}
GlibcArea == IF host.glibc THEN "glibc" ELSE None
SelfregArea == IF host.std THEN "own" ELSE None
AreaOf(m) == CASE m = "glibc" -> GlibcArea [] m = "selfreg" -> SelfregArea [] OTHER -> None
CpuOf(c, a) == a # None /\ c[a]

Decide(t, m) == th' = [th EXCEPT ![t] = [@ EXCEPT !.pc = "publish", !.decided = m]]
Goto(t, p) == th' = [th EXCEPT ![t].pc = p]
Answer(t, m) == said' = [said EXCEPT ![t] = IF Usable(m) THEN "usable" ELSE "unusable"]

Enable(t) ==
    /\ th[t].pc = "idle"
    /\ \/ mode = "unknown" /\ Goto(t, "intent") /\ UNCHANGED said
       \/ mode # "unknown" /\ Answer(t, mode) /\ UNCHANGED th
    /\ UNCHANGED <<host, mode, intent, tracked, cpu, alive, forked>>

\* decide_mode: both membarrier calls, then the areas.
RegisterIntent(t) ==
    /\ th[t].pc = "intent"
    /\ intent' = (intent \/ host.intent)
    /\ IF host.intent THEN Goto(t, "fence") ELSE Decide(t, "unavailable")
    /\ UNCHANGED <<host, mode, tracked, cpu, said, alive, forked>>

ProbeFence(t) ==
    /\ th[t].pc = "fence"
    /\ IF host.fence /\ intent THEN Goto(t, "area") ELSE Decide(t, "unavailable")
    /\ UNCHANGED <<host, mode, intent, tracked, cpu, said, alive, forked>>

PickArea(t) ==
    /\ th[t].pc = "area"
    /\ CASE GlibcArea # None -> Decide(t, "glibc") /\ UNCHANGED <<tracked, cpu>>
         [] GlibcArea = None /\ SelfregArea = None ->
              Decide(t, "unavailable") /\ UNCHANGED <<tracked, cpu>>
         [] OTHER ->
              /\ SysRegister(t)
              /\ Decide(t, IF CpuOf(cpu'[t], SelfregArea) THEN "selfreg" ELSE "unavailable")
    /\ UNCHANGED <<host, mode, intent, said, alive, forked>>

Publish(t) ==
    /\ th[t].pc = "publish"
    /\ mode' = IF mode = "unknown" THEN th[t].decided ELSE mode
    /\ Answer(t, mode')
    /\ th' = [th EXCEPT ![t] = Idle]
    /\ UNCHANGED <<host, intent, tracked, cpu, alive, forked>>

----------------------------------------------------------------------------
(* A thread's area.                                                        *)

RegisterCurrentThread(t) ==
    /\ th[t].pc = "idle" /\ mode = "selfreg" /\ SelfregArea # None /\ SysRegister(t)
    /\ UNCHANGED <<host, mode, intent, th, said, alive, forked>>

UnregisterCurrentThread(t) ==
    /\ th[t].pc = "idle" /\ mode = "selfreg" /\ SelfregArea # None /\ SysUnregister(t)
    /\ UNCHANGED <<host, mode, intent, th, said, alive, forked>>

\* The front end resolves the area once, and runs a sequence on it when it
\* reads a CPU there.
Arm(t) ==
    /\ th[t].pc = "idle" /\ CpuOf(cpu[t], AreaOf(mode))
    /\ th' = [th EXCEPT ![t] = [@ EXCEPT !.pc = "section", !.area = AreaOf(mode)]]
    /\ UNCHANGED <<host, mode, intent, tracked, cpu, said, alive, forked>>

Commit(t) ==
    /\ th[t].pc = "section" /\ th' = [th EXCEPT ![t] = Idle]
    /\ UNCHANGED <<host, mode, intent, tracked, cpu, said, alive, forked>>

----------------------------------------------------------------------------
(* A fork: the child is the calling thread.  Its handler drops the mode    *)
(* before the allocator runs again.                                        *)

Fork(t) ==
    /\ ~forked /\ th[t].pc = "idle"
    /\ forked' = TRUE /\ alive' = {t} /\ Goto(t, "child")
    /\ intent' = (intent /\ host.kept)
    /\ tracked' = IF host.cleared THEN [tracked EXCEPT ![t] = None] ELSE tracked
    /\ UNCHANGED <<host, mode, cpu, said>>

\* Mutant: the child keeps the mode its parent decided.
KeepsMode(t) ==
    /\ th[t].pc = "child" /\ th' = [th EXCEPT ![t] = Idle]
    /\ UNCHANGED <<host, mode, intent, tracked, cpu, said, alive, forked>>

ResetAfterFork(t) ==
    /\ th[t].pc = "child"
    /\ mode' = "unknown" /\ th' = [th EXCEPT ![t] = Idle]
    /\ said' = [u \in Threads |-> None]
    /\ UNCHANGED <<host, intent, tracked, cpu, alive, forked>>

----------------------------------------------------------------------------

Next ==
    \E t \in alive :
        \/ Enable(t) \/ RegisterIntent(t) \/ ProbeFence(t) \/ PickArea(t) \/ Publish(t)
        \/ RegisterCurrentThread(t) \/ UnregisterCurrentThread(t)
        \/ Arm(t) \/ Commit(t) \/ Fork(t) \/ ResetAfterFork(t)

Spec == Init /\ [][Next]_vars

----------------------------------------------------------------------------
(* Properties.                                                             *)

Areas == {"glibc", "own"}

TypeOK ==
    /\ host \in Hosts /\ mode \in {"unknown", "unavailable", "glibc", "selfreg"}
    /\ intent \in BOOLEAN /\ forked \in BOOLEAN /\ alive \subseteq Threads /\ alive # {}
    /\ tracked \in [Threads -> Areas \cup {"foreign", None}]
    /\ cpu \in [Threads -> [Areas -> BOOLEAN]]
    /\ said \in [Threads -> {"usable", "unusable", None}]
    /\ \A t \in Threads :
        /\ th[t].pc \in {"idle", "intent", "fence", "area", "publish", "section", "child"}
        /\ th[t].decided \in {"unavailable", "glibc", "selfreg", None}
        /\ th[t].area \in Areas \cup {None}

\* A thread runs a sequence only on the area the kernel tracks for it, with a
\* foreign runtime's area in the way, across unregistering and a fork: on any
\* other area a preemption would not abort the sequence.
ArmedIsTracked == \A t \in alive : th[t].pc = "section" => th[t].area = tracked[t]

\* Once the mode says sequences may run, the fence of a non-owner works: the
\* intent behind it is registered in this process, the child's included.
FenceReliable ==
    Usable(mode) /\ (\A t \in alive : th[t].pc # "child") => intent /\ host.fence

\* Every enable of a process gets one answer, the mode's, however the threads
\* that probed disagreed.
OneAnswer ==
    \A t \in alive :
        said[t] # None /\ th[t].pc # "child" => (said[t] = "usable" <=> Usable(mode))

=============================================================================
