---------------------------- MODULE MCRedisCounter ----------------------------
(* Instance of RedisCounter for TLC. *)
EXTENDS RedisCounter, TLC

Symmetry == Permutations(Requests)
=============================================================================
