----------------------------- MODULE MCStartup -----------------------------
(***************************************************************************)
(* Three questions about start-up in one run: the first call of the        *)
(* library (Bringup), the metadata allocator under it (Bootstrap), and     *)
(* whether restartable sequences may run (RseqMode).  part says which of   *)
(* them a behaviour is about; the first two stand still in their initial   *)
(* state in other parts, where none of their fair actions is enabled, and  *)
(* the variables of the third are Nothing.                                 *)
(***************************************************************************)
EXTENDS Bringup

CONSTANTS Base, Capacity, Sizes, Aligns, MaxBlocks, Nothing, Probers, Hosts

ASSUME BootstrapAssumption ==
    /\ Base \in Nat /\ Capacity \in Nat
    /\ Sizes \subseteq Nat /\ Aligns \subseteq Nat \ {0}
    /\ Nothing # "written"

VARIABLES part, state, arena, cursor, successor, blocks, passed, asked, th,
          host, mode, intent, tracked, cpu, prober, said, running, forked

Boot == INSTANCE Bootstrap
Rseq == INSTANCE RseqMode WITH
    Threads <- Probers, None <- Nothing, th <- prober, alive <- running

ASSUME RseqAssumption == Rseq!ConstantsOK

bootVars == <<state, arena, cursor, successor, blocks, passed, asked, th>>
rseqVars == <<host, mode, intent, tracked, cpu, prober, said, running, forked>>

NoRseq ==
    /\ host = Nothing /\ mode = Nothing /\ intent = Nothing /\ tracked = Nothing
    /\ cpu = Nothing /\ prober = Nothing /\ said = Nothing /\ running = Nothing
    /\ forked = Nothing

\* Hosts of the restartable sequences.
Host(glibc, std, registers, fences, foreign, kept, cleared) ==
    [glibc |-> glibc, std |-> std, intent |-> registers, fence |-> fences,
     foreign |-> foreign, kept |-> kept, cleared |-> cleared]
MCHosts ==
    {Host(TRUE, s, i, f, {}, k, FALSE) : s, i, f, k \in BOOLEAN}
    \cup {Host(FALSE, s, TRUE, f, g, k, c) :
            s, f, k, c \in BOOLEAN, g \in SUBSET Probers}

MCInit ==
    /\ Init /\ Boot!Init
    /\ \/ part \in {"bringup", "bootstrap"} /\ NoRseq
       \/ part = "rseq" /\ Rseq!Init

MCNext ==
    \/ part = "bringup" /\ Next /\ UNCHANGED <<part, bootVars, rseqVars>>
    \/ part = "bootstrap" /\ Boot!Next /\ UNCHANGED <<part, vars, rseqVars>>
    \/ part = "rseq" /\ Rseq!Next /\ UNCHANGED <<part, vars, bootVars>>

MCSpec ==
    /\ MCInit /\ [][MCNext]_<<part, vars, bootVars, rseqVars>>
    /\ Fairness /\ Boot!Fairness

\* The metadata allocator under the first call: blocks of the bump arena lie in
\* its region, aligned, and never overlap (BumpArena::alloc), and no allocation
\* uses the arena or its successor while it is being written (Bootstrap::alloc).
BootstrapSafe == Boot!TypeOK /\ Boot!BlocksDisjoint /\ Boot!ReadsPublished

\* rseq: a sequence runs only on the area the kernel tracks for the thread; while
\* the mode lets sequences run, a non-owner's fence works; every enable of a
\* process gets one answer.
RseqSound ==
    part = "rseq" =>
        Rseq!TypeOK /\ Rseq!ArmedIsTracked /\ Rseq!FenceReliable /\ Rseq!OneAnswer

\* Every first call returns, and so does every call of Bootstrap::global and
\* Bootstrap::alloc.
EveryCallEnds == CallsReturn /\ Boot!CallsEnd
=============================================================================
