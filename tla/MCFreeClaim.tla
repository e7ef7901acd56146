----------------------------- MODULE MCFreeClaim -----------------------------
(* Small instances of FreeClaim for TLC. *)
EXTENDS FreeClaim, TLC

CONSTANTS t1, t2, t3, s1, s2, a, b, c

\* One span of two objects: the first span that empties stays on the empty list.
OneSpan == a :> s1 @@ b :> s1

\* A span of two objects and a span of one.
UnevenSpans == a :> s1 @@ b :> s1 @@ c :> s2

ThreadSymmetry == Permutations(Threads)
=============================================================================
