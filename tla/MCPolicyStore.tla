---------------------------- MODULE MCPolicyStore -----------------------------
(***************************************************************************)
(* Instance of PolicyStore for TLC: two of the three versions collide, and *)
(* are interchangeable.                                                    *)
(***************************************************************************)
EXTENDS PolicyStore, TLC

CONSTANTS v1, v2, v3

MCNumber == v1 :> 1000000 @@ v2 :> 1000000 @@ v3 :> 1000001

Symmetry ==
  Permutations(Replicas) \cup Permutations(PolicyIds) \cup Permutations({v1, v2})
=============================================================================
