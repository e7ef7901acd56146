---------------------------- MODULE MCForkGate ----------------------------
(* Instances of ForkGate for TLC. *)
EXTENDS ForkGate
=============================================================================
