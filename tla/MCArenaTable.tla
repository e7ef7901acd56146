---------------------------- MODULE MCArenaTable ----------------------------
(* Small instances of ArenaTable. *)
EXTENDS ArenaTable, TLC

ThreadSymmetry == Permutations(Threads)
=============================================================================
