-------------------------- MODULE MCAccessControl --------------------------
(* AccessControl for TLC: requests and replicas are interchangeable. *)
EXTENDS AccessControl, TLC

CONSTANTS s1, s2

(* A rotation of the TOTP secret in its three stages, and environments with
   which a replica does not start. *)
Rotation ==
    {[proxy |-> TRUE, metrics |-> FALSE, totp |-> s1, next |-> None],
     [proxy |-> TRUE, metrics |-> TRUE, totp |-> s1, next |-> s2],
     [proxy |-> TRUE, metrics |-> FALSE, totp |-> s2, next |-> None],
     [proxy |-> TRUE, metrics |-> FALSE, totp |-> Malformed, next |-> s1],
     [proxy |-> FALSE, metrics |-> TRUE, totp |-> s1, next |-> None],
     [proxy |-> TRUE, metrics |-> TRUE, totp |-> None, next |-> None]}

Symmetry == Permutations(Requests) \cup Permutations(Replicas)
=============================================================================
