-------------------------- MODULE MCTokenService --------------------------
(* TokenService for TLC: requests are interchangeable, and so are subjects. *)
EXTENDS TokenService, TLC

Symmetry == Permutations(Requests) \cup Permutations(Subjects)
=============================================================================
