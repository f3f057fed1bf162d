----------------------------- MODULE KeyManager -----------------------------
(***************************************************************************)
(* The signing key of a replica (key.rs and the private half of jwk.rs):   *)
(* the identifier of the current key is read before the trip to the key    *)
(* service and written after it, while other requests do the same.         *)
(*                                                                         *)
(* A request creates at most one key; the key is named after it.           *)
(***************************************************************************)
EXTENDS Naturals

CONSTANTS
    Requests,
    Replicas,
    Algorithms,     \* values of TOKEN_ALGORITHM, which nothing checks
    None            \* an absent value

ASSUME KeyAssumption ==
    /\ None \notin Requests \cup Replicas \cup Algorithms \cup {"Ed25519"}
    /\ "404" \notin Requests \cup {None}

VARIABLES
    \* the key service (external)
    live,       \* the keys it has
    key_alg,    \* the name a key was asked for with, None when never created
    \* KeyManager, per replica
    algorithm,
    current_key_id,
    \* requests that issue a token
    pc, replica,
    id,         \* the identifier it read
    reply,      \* the answer of the key service on its way back
    token,      \* the header of the token it signed, None when there is none
    \* history
    gone,       \* keys that were withdrawn
    before,     \* the keys that were gone when it arrived
    signed,     \* the requests a replica signed for since it was started
    earlier     \* those of them that had been answered when it arrived

serviceVars == <<live, key_alg, gone>>
managerVars == <<algorithm, current_key_id, signed>>
requestVars == <<pc, replica, id, reply, token, before, earlier>>
vars == <<serviceVars, managerVars, requestVars>>

-----------------------------------------------------------------------------
(* What the algorithms stand for *)

SUPPORTED_ALGORITHMS ==
    {"RS256", "RS384", "RS512", "ES256", "ES384", "ES512", "EdDSA"}

(* The kind of key get_public_key assembles for the `alg' of a JWK. *)
PublicKeyKind(alg) ==
    CASE alg \in {"RS256", "RS384", "RS512"} -> "RSA"
      [] alg = "ES256" -> "P-256"
      [] alg = "ES384" -> "P-384"
      [] alg = "ES512" -> "P-521"
      [] alg = "EdDSA" -> "Edwards"
      [] OTHER -> "unsupported"

(* What create_key asks the key service for. *)
RequestedAlg(alg) == IF alg = "EdDSA" THEN "Ed25519" ELSE alg

(* The `alg' of the JWK the key service publishes for a key asked for with that
   name: it takes names of curves, and a JWK has names of algorithms. *)
JwkAlg(asked) == IF asked = "Ed25519" THEN "EdDSA" ELSE asked

-----------------------------------------------------------------------------
TokenType == [kid : Requests, alg : Algorithms]

TypeOK ==
    /\ live \subseteq Requests
    /\ key_alg \in [Requests -> Algorithms \cup {"Ed25519", None}]
    /\ algorithm \in [Replicas -> Algorithms]
    /\ current_key_id \in [Replicas -> Requests \cup {None}]
    /\ pc \in [Requests -> {"idle", "get", "create", "done"}]
    /\ replica \in [Requests -> Replicas \cup {None}]
    /\ id \in [Requests -> Requests \cup {None}]
    /\ reply \in [Requests -> Requests \cup {"404", None}]
    /\ token \in [Requests -> TokenType \cup {None}]
    /\ gone \subseteq Requests
    /\ before \in [Requests -> SUBSET Requests]
    /\ signed \in [Replicas -> SUBSET Requests]
    /\ earlier \in [Requests -> SUBSET Requests]

Init ==
    /\ live = {}
    /\ key_alg = [r \in Requests |-> None]
    /\ algorithm \in [Replicas -> Algorithms]
    /\ current_key_id = [p \in Replicas |-> None]
    /\ pc = [r \in Requests |-> "idle"]
    /\ replica = [r \in Requests |-> None]
    /\ id = [r \in Requests |-> None]
    /\ reply = [r \in Requests |-> None]
    /\ token = [r \in Requests |-> None]
    /\ gone = {}
    /\ before = [r \in Requests |-> {}]
    /\ signed = [p \in Replicas |-> {}]
    /\ earlier = [r \in Requests |-> {}]

-----------------------------------------------------------------------------
(* Mutated: the last answer is used again without asking. *)
GetPrivateKey_Cached(r) ==
    /\ pc[r] = "idle"
    /\ \E p \in Replicas :
         /\ replica' = [replica EXCEPT ![r] = p]
         /\ id' = [id EXCEPT ![r] = current_key_id[p]]
         /\ pc' = [pc EXCEPT ![r] = IF current_key_id[p] = None THEN "create" ELSE "get"]
         /\ reply' = [reply EXCEPT ![r] = current_key_id[p]]
         /\ earlier' = [earlier EXCEPT ![r] = signed[p]]
    /\ before' = [before EXCEPT ![r] = gone]
    /\ UNCHANGED <<serviceVars, managerVars, token>>

(* get_jwk_data reads the identifier and private_key decides what to ask. *)
GetPrivateKey(r) ==
    /\ pc[r] = "idle"
    /\ \E p \in Replicas :
         /\ replica' = [replica EXCEPT ![r] = p]
         /\ id' = [id EXCEPT ![r] = current_key_id[p]]
         /\ pc' = [pc EXCEPT ![r] = IF current_key_id[p] = None THEN "create" ELSE "get"]
         /\ earlier' = [earlier EXCEPT ![r] = signed[p]]
    /\ before' = [before EXCEPT ![r] = gone]
    /\ UNCHANGED <<serviceVars, managerVars, reply, token>>

(* Mutated: any error of get_key leads to a new key. *)
KeyMissing_AnyError(r) ==
    /\ pc[r] = "get"
    /\ pc' = [pc EXCEPT ![r] = "create"]
    /\ reply' = [reply EXCEPT ![r] = None]
    /\ UNCHANGED <<serviceVars, managerVars, replica, id, token, before, earlier>>

(* Only a 404 leads to a new key. *)
KeyMissing(r) ==
    /\ pc[r] = "get"
    /\ reply[r] = "404"
    /\ pc' = [pc EXCEPT ![r] = "create"]
    /\ reply' = [reply EXCEPT ![r] = None]
    /\ UNCHANGED <<serviceVars, managerVars, replica, id, token, before, earlier>>

Done(r) ==
    /\ pc' = [pc EXCEPT ![r] = "done"]
    /\ reply' = [reply EXCEPT ![r] = None]

(* Mutated: the manager does not remember the key. *)
KeyArrived_Forgotten(r) ==
    /\ reply[r] \in Requests
    /\ Done(r)
    /\ LET p == replica[r] IN
       \/ UNCHANGED <<token, signed>>
       \/ /\ token' = [token EXCEPT ![r] = [kid |-> reply[r], alg |-> algorithm[p]]]
          /\ signed' = [signed EXCEPT ![p] = @ \cup {r}]
    /\ UNCHANGED <<serviceVars, algorithm, current_key_id, replica, id, before, earlier>>

(* get_jwk_data remembers the key, get_private_key decodes it; when it does not
   decode, or when a later step of issuing fails, nothing is signed.  The
   header of the token names TOKEN_ALGORITHM, not the algorithm of the key. *)
KeyArrived(r) ==
    /\ reply[r] \in Requests
    /\ Done(r)
    /\ LET p == replica[r] IN
       /\ current_key_id' = [current_key_id EXCEPT ![p] = reply[r]]
       /\ \/ UNCHANGED <<token, signed>>
          \/ /\ token' = [token EXCEPT ![r] = [kid |-> reply[r], alg |-> algorithm[p]]]
             /\ signed' = [signed EXCEPT ![p] = @ \cup {r}]
    /\ UNCHANGED <<serviceVars, algorithm, replica, id, before, earlier>>

(* No connection, a timeout, an unsuccessful status or an unreadable answer,
   whatever the key service did: the request ends without a key. *)
TripFailed(r) ==
    /\ pc[r] \in {"get", "create"}
    /\ Done(r)
    /\ UNCHANGED <<serviceVars, managerVars, replica, id, token, before, earlier>>

-----------------------------------------------------------------------------
(* Mutated: a replica starts with the key it used last. *)
New_Persisted(p) == current_key_id[p]

(* Mutated: an empty identifier that is not told from a key. *)
New_Empty(p) == "none"

(* KeyManager::new *)
New(p) == None

(* A replica is drained and started again, with any algorithm. *)
Restart(p) ==
    /\ \A r \in Requests : replica[r] = p => pc[r] \in {"idle", "done"}
    /\ \E a \in Algorithms : algorithm' = [algorithm EXCEPT ![p] = a]
    /\ current_key_id' = [current_key_id EXCEPT ![p] = New(p)]
    /\ signed' = [signed EXCEPT ![p] = {}]
    /\ UNCHANGED <<serviceVars, requestVars>>

(* The key service *)
ServeGet(r) ==
    /\ pc[r] = "get"
    /\ reply[r] = None
    /\ reply' = [reply EXCEPT ![r] = IF id[r] \in live THEN id[r] ELSE "404"]
    /\ UNCHANGED <<serviceVars, managerVars, pc, replica, id, token, before, earlier>>

(* It makes a key for the name it is given, or refuses (TripFailed). *)
ServeCreate(r) ==
    /\ pc[r] = "create"
    /\ reply[r] = None
    /\ key_alg[r] = None
    /\ key_alg' = [key_alg EXCEPT ![r] = RequestedAlg(algorithm[replica[r]])]
    /\ live' = live \cup {r}
    /\ reply' = [reply EXCEPT ![r] = r]
    /\ UNCHANGED <<gone, managerVars, pc, replica, id, token, before, earlier>>

Withdraw(k) ==
    /\ k \in live
    /\ live' = live \ {k}
    /\ gone' = gone \cup {k}
    /\ UNCHANGED <<key_alg, managerVars, requestVars>>

Next ==
    \/ \E p \in Replicas : Restart(p)
    \/ \E k \in Requests : Withdraw(k)
    \/ \E r \in Requests :
         \/ GetPrivateKey(r) \/ KeyMissing(r) \/ KeyArrived(r) \/ TripFailed(r)
         \/ ServeGet(r) \/ ServeCreate(r)

Spec == Init /\ [][Next]_vars
-----------------------------------------------------------------------------
(***************************************************************************)
(* The inductive invariant the proofs rest on                              *)
(***************************************************************************)
(* Keys are created once and withdrawn once. *)
ServiceOK ==
    /\ live \cap gone = {}
    /\ \A k \in Requests : key_alg[k] # None <=> k \in live \cup gone

(* A replica knows a key from the first one it signed with on, and the key was
   asked for under the algorithm it was started with. *)
ManagerOK(p) ==
    /\ signed[p] # {} => current_key_id[p] # None
    /\ current_key_id[p] # None => key_alg[current_key_id[p]] = RequestedAlg(algorithm[p])

InFlight(r) == pc[r] \in {"get", "create"}

RequestOK(r) ==
    LET p == replica[r] IN
    /\ pc[r] = "idle" => token[r] = None
    /\ pc[r] \in {"idle", "get"} => key_alg[r] = None
    /\ ~InFlight(r) => reply[r] = None
    /\ InFlight(r) => p \in Replicas /\ token[r] = None /\ before[r] \subseteq gone
    /\ pc[r] = "get" => id[r] # None
    /\ InFlight(r) /\ id[r] # None => key_alg[id[r]] = RequestedAlg(algorithm[p])
    /\ reply[r] = "404" => id[r] \in gone
    /\ reply[r] \in Requests =>
         key_alg[reply[r]] = RequestedAlg(algorithm[p]) /\ reply[r] \notin before[r]
    /\ pc[r] = "create" => id[r] \in gone \/ (id[r] = None /\ earlier[r] = {})

(* The key of a token was asked for under the algorithm its header names. *)
TokenAlg ==
    \A r \in Requests : token[r] # None =>
      key_alg[token[r].kid] = RequestedAlg(token[r].alg) /\ token[r] \in TokenType

KeyInv ==
    /\ TypeOK
    /\ ServiceOK
    /\ \A p \in Replicas : ManagerOK(p)
    /\ \A r \in Requests : RequestOK(r)

-----------------------------------------------------------------------------
(***************************************************************************)
(* Properties                                                              *)
(***************************************************************************)
(* "one key is reused across requests" (key.rs): a new key is created only by
   a request that found its replica without a key, before the replica signed
   anything, or whose key had been withdrawn - never because the key service
   was out of reach, and never for want of remembering a key. *)
OneKeyReused ==
    \A r \in Requests : key_alg[r] # None =>
      id[r] \in gone \/ (id[r] = None /\ earlier[r] = {})

(* No token is signed with a key that had been withdrawn when its request
   arrived, although the identifier may be cached for the life of a replica and
   overwritten by slower requests. *)
NoWithdrawnKeyUsed ==
    \A r \in Requests : token[r] # None => token[r].kid \notin before[r]

(* "an issued token would fail its own verification" (to_string): the header
   takes `alg' from the environment of the process that signs, verification
   assembles the key from the `alg' of the JWK, and the two are never compared.
   Under a TOKEN_ALGORITHM that verification supports, every token names a
   published key that can be assembled and whose JWK has the algorithm of the
   header - through concurrent creations, withdrawals and restarts with another
   TOKEN_ALGORITHM.  (A token issued under any other name is never accepted:
   TokenHeaders::is_verify.) *)
IssuedVerifies ==
    \A r \in Requests :
      token[r] # None /\ token[r].kid \in live /\ token[r].alg \in SUPPORTED_ALGORITHMS =>
        LET jwk_alg == JwkAlg(key_alg[token[r].kid]) IN
        PublicKeyKind(jwk_alg) # "unsupported" /\ jwk_alg = token[r].alg
=============================================================================
