---------------------------- MODULE MCOrderEngine ----------------------------
(* Instances of OrderEngine for TLC. *)
EXTENDS OrderEngine, TLC

CONSTANTS r1, r2, w1, w2, k1, k2, k3, perp, junk

\* All the workers in one replica, or one worker in each of two.
OneReplica  == [w \in Workers |-> r1]
TwoReplicas == (w1 :> r1) @@ (w2 :> r2)

\* All the orders in one (account, mode, symbol) group.
OneBook == [k \in Keys |-> perp]

Symmetry     == Permutations(Workers) \cup Permutations(Keys)
SymmetryKeys == Permutations(Keys)
==============================================================================
