---------------------------- MODULE MCKeyManager ----------------------------
(* KeyManager for TLC: requests and replicas are interchangeable. *)
EXTENDS KeyManager, TLC

Symmetry == Permutations(Requests) \cup Permutations(Replicas)
=============================================================================
