--------------------------- MODULE MCFrontEnd ---------------------------
(***************************************************************************)
(* Instance of FrontEnd for TLC.  A span of two objects while the process  *)
(* switches between the locked and the rseq mode; a span of one object     *)
(* while it drains and adapts capacities, or uses pinned cores.            *)
(***************************************************************************)
EXTENDS FrontEnd

ASSUME FrontEndAssumption == ConstantsOK

MCConfigs ==
    {[does |-> {"switch"}, span |-> Objs]}
    \cup [does : {{"drain", "tick"}, {"pinned"}}, span : {{o} : o \in Objs}]

Symmetry == Permutations(Threads) \cup Permutations(Objs) \cup Permutations(Cpus)
=============================================================================
