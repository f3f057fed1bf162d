---------------------------- MODULE MCJwksCache ----------------------------
(* JwksCache for TLC: requests are interchangeable, and so are key ids. *)
EXTENDS JwksCache, TLC

Symmetry == Permutations(Requests) \cup Permutations(Kids)
=============================================================================
