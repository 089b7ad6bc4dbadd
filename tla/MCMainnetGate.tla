---------------------------- MODULE MCMainnetGate ----------------------------
(* An instance of MainnetGate for TLC. *)
EXTENDS MainnetGate, TLC

CONSTANTS t1, t2, c1, c2

Symmetry == Permutations(Tokens) \cup Permutations(Calls)
==============================================================================
