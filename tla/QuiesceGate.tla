---------------------------- MODULE QuiesceGate ----------------------------
(***************************************************************************)
(* What the fork gate promises, without bits, counts or shards: a thread   *)
(* may be inside an allocator operation or the process may be in a fork    *)
(* window, but never both, and one window at a time.  The forking thread's *)
(* own allocations in the window are not operations of this gate.          *)
(***************************************************************************)
CONSTANTS Workers, Nobody

VARIABLES
    inside,     \* workers executing an admitted operation
    owner       \* the worker that owns the fork window, or Nobody

gateVars == <<inside, owner>>

GateInit == inside = {} /\ owner = Nobody

Admit(w) ==
    /\ owner = Nobody /\ w \notin inside
    /\ inside' = inside \cup {w}
    /\ UNCHANGED owner

Retire(w) ==
    /\ w \in inside
    /\ inside' = inside \ {w}
    /\ UNCHANGED owner

\* The window opens on a quiescent allocator.
Open(w) ==
    /\ owner = Nobody /\ inside = {}
    /\ owner' = w
    /\ UNCHANGED inside

Close(w) ==
    /\ owner = w
    /\ owner' = Nobody
    /\ UNCHANGED inside

GateNext == \E w \in Workers : Admit(w) \/ Retire(w) \/ Open(w) \/ Close(w)

GateSpec == GateInit /\ [][GateNext]_gateVars
=============================================================================
