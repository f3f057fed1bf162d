---------------------------- MODULE TokenBucket ----------------------------
(***************************************************************************)
(* What a rate limit promises: per key a bucket of Burst[k] tokens that    *)
(* regains one every Period[k] units of time.  A request takes a token or  *)
(* is refused, and it is refused only when there is no whole token.        *)
(*                                                                         *)
(* The contents of a bucket are counted in units of time.                  *)
(***************************************************************************)
EXTENDS Naturals

CONSTANTS Keys, Requests, Period, Burst

VARIABLES
    credit,     \* per key, what its bucket holds
    ruling      \* per request: "none", "admitted" or "refused"

Full(k) == Burst[k] * Period[k]

Init ==
    /\ credit = [k \in Keys |-> Full(k)]
    /\ ruling = [r \in Requests |-> "none"]

Refill ==
    /\ credit' = [k \in Keys |-> IF credit[k] < Full(k) THEN credit[k] + 1 ELSE credit[k]]
    /\ UNCHANGED ruling

Admit(r, k) ==
    /\ ruling[r] = "none"
    /\ credit[k] >= Period[k]
    /\ credit' = [credit EXCEPT ![k] = @ - Period[k]]
    /\ ruling' = [ruling EXCEPT ![r] = "admitted"]

Refuse(r, k) ==
    /\ ruling[r] = "none"
    /\ credit[k] < Period[k]
    /\ ruling' = [ruling EXCEPT ![r] = "refused"]
    /\ UNCHANGED credit

Next == Refill \/ \E r \in Requests, k \in Keys : Admit(r, k) \/ Refuse(r, k)

Spec == Init /\ [][Next]_<<credit, ruling>>
=============================================================================
