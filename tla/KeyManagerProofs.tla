------------------------- MODULE KeyManagerProofs -------------------------
(***************************************************************************)
(* Proofs about KeyManager: KeyInv is inductive, and the three guarantees  *)
(* about signing keys follow, for any number of replicas and requests.     *)
(***************************************************************************)
EXTENDS KeyManager, TLAPS

(* create_key and the key service translate names there and back: the JWK of a
   key asked for under a supported algorithm has that algorithm, and
   get_public_key assembles it. *)
LEMMA NamesAgree ==
    ASSUME NEW a \in SUPPORTED_ALGORITHMS
    PROVE  JwkAlg(RequestedAlg(a)) = a /\ PublicKeyKind(a) # "unsupported"
BY DEF JwkAlg, RequestedAlg, SUPPORTED_ALGORITHMS, PublicKeyKind

(* The name create_key sends is a name, whatever TOKEN_ALGORITHM is. *)
LEMMA AskedType ==
    ASSUME NEW a \in Algorithms
    PROVE  RequestedAlg(a) \in Algorithms \cup {"Ed25519"} /\ RequestedAlg(a) # None
BY KeyAssumption DEF RequestedAlg

(* KeyManager::new: a fresh replica satisfies the invariant. *)
LEMMA KeyInit == Init => KeyInv /\ OneKeyReused /\ NoWithdrawnKeyUsed /\ TokenAlg
<1> SUFFICES ASSUME Init PROVE KeyInv /\ OneKeyReused /\ NoWithdrawnKeyUsed /\ TokenAlg
  OBVIOUS
<1> USE KeyAssumption DEF Init
<1>1. TypeOK
  BY DEF TypeOK
<1>2. ServiceOK
  BY DEF ServiceOK
<1>3. ASSUME NEW p \in Replicas PROVE ManagerOK(p)
  BY DEF ManagerOK
<1>4. ASSUME NEW r \in Requests PROVE RequestOK(r)
  BY DEF RequestOK, InFlight
<1>5. OneKeyReused /\ NoWithdrawnKeyUsed /\ TokenAlg
  BY DEF OneKeyReused, NoWithdrawnKeyUsed, TokenAlg
<1> QED BY <1>1, <1>2, <1>3, <1>4, <1>5 DEF KeyInv

(* Reading the identifier keeps the invariant. *)
LEMMA GetPrivateKeyInv ==
    ASSUME KeyInv, NEW r \in Requests, GetPrivateKey(r)
    PROVE  KeyInv'
<1> USE KeyAssumption DEF KeyInv, serviceVars, managerVars, requestVars
<1>1. TypeOK'
  BY DEF TypeOK, GetPrivateKey
<1>2. ServiceOK'
  BY DEF TypeOK, ServiceOK, RequestOK, InFlight, GetPrivateKey
<1>3. ASSUME NEW q \in Replicas PROVE ManagerOK(q)'
  BY DEF TypeOK, ServiceOK, ManagerOK, RequestOK, InFlight, GetPrivateKey
<1>4. ASSUME NEW q \in Requests PROVE RequestOK(q)'
  <2>1. CASE q = r
    BY <2>1 DEF TypeOK, ServiceOK, ManagerOK, RequestOK, InFlight, GetPrivateKey
  <2>2. CASE q # r
    BY <2>2 DEF TypeOK, ServiceOK, RequestOK, InFlight, GetPrivateKey
  <2> QED BY <2>1, <2>2
<1> QED BY <1>1, <1>2, <1>3, <1>4

(* Turning to create_key after a 404 keeps the invariant. *)
LEMMA KeyMissingInv ==
    ASSUME KeyInv, NEW r \in Requests, KeyMissing(r)
    PROVE  KeyInv'
<1> USE KeyAssumption DEF KeyInv, serviceVars, managerVars, requestVars
<1>1. TypeOK'
  BY DEF TypeOK, KeyMissing
<1>2. ServiceOK'
  BY DEF TypeOK, ServiceOK, RequestOK, InFlight, KeyMissing
<1>3. ASSUME NEW q \in Replicas PROVE ManagerOK(q)'
  BY DEF TypeOK, ServiceOK, ManagerOK, RequestOK, InFlight, KeyMissing
<1>4. ASSUME NEW q \in Requests PROVE RequestOK(q)'
  BY DEF TypeOK, ServiceOK, ManagerOK, RequestOK, InFlight, KeyMissing
<1> QED BY <1>1, <1>2, <1>3, <1>4

(* Remembering the key and signing keeps the invariant. *)
LEMMA KeyArrivedInv ==
    ASSUME KeyInv, NEW r \in Requests, KeyArrived(r)
    PROVE  KeyInv'
<1> USE KeyAssumption DEF KeyInv, serviceVars, managerVars, requestVars
<1>1. TypeOK'
  <2>1. InFlight(r) /\ replica[r] \in Replicas /\ reply[r] \in Requests
    BY DEF TypeOK, RequestOK, InFlight, KeyArrived
  <2>2. [kid |-> reply[r], alg |-> algorithm[replica[r]]] \in TokenType
    BY <2>1 DEF TypeOK, TokenType
  <2>3. token' \in [Requests -> TokenType \cup {None}]
    BY <2>2 DEF TypeOK, KeyArrived
  <2>4. signed' \in [Replicas -> SUBSET Requests]
    BY <2>1 DEF TypeOK, KeyArrived
  <2> QED BY <2>1, <2>3, <2>4 DEF TypeOK, KeyArrived, Done
<1>2. ServiceOK'
  BY DEF TypeOK, ServiceOK, RequestOK, InFlight, KeyArrived, Done, TokenType
<1>3. ASSUME NEW q \in Replicas PROVE ManagerOK(q)'
  BY DEF TypeOK, ServiceOK, ManagerOK, RequestOK, InFlight, KeyArrived, Done, TokenType
<1>4. ASSUME NEW q \in Requests PROVE RequestOK(q)'
  <2>1. CASE q = r
    BY <2>1 DEF TypeOK, ServiceOK, ManagerOK, RequestOK, InFlight, KeyArrived, Done
  <2>2. CASE q # r
    BY <2>2 DEF TypeOK, ServiceOK, RequestOK, InFlight, KeyArrived, Done
  <2> QED BY <2>1, <2>2
<1> QED BY <1>1, <1>2, <1>3, <1>4

(* Giving up after a failed trip keeps the invariant. *)
LEMMA TripFailedInv ==
    ASSUME KeyInv, NEW r \in Requests, TripFailed(r)
    PROVE  KeyInv'
<1> USE KeyAssumption DEF KeyInv, serviceVars, managerVars, requestVars
<1>1. TypeOK'
  BY DEF TypeOK, TripFailed, Done
<1>2. ServiceOK'
  BY DEF TypeOK, ServiceOK, RequestOK, InFlight, TripFailed, Done
<1>3. ASSUME NEW q \in Replicas PROVE ManagerOK(q)'
  BY DEF TypeOK, ServiceOK, ManagerOK, RequestOK, InFlight, TripFailed, Done
<1>4. ASSUME NEW q \in Requests PROVE RequestOK(q)'
  <2>1. CASE q = r
    BY <2>1 DEF TypeOK, ServiceOK, ManagerOK, RequestOK, InFlight, TripFailed, Done
  <2>2. CASE q # r
    BY <2>2 DEF TypeOK, ServiceOK, RequestOK, InFlight, TripFailed, Done
  <2> QED BY <2>1, <2>2
<1> QED BY <1>1, <1>2, <1>3, <1>4

(* An answer of the key service to get_key keeps the invariant. *)
LEMMA ServeGetInv ==
    ASSUME KeyInv, NEW r \in Requests, ServeGet(r)
    PROVE  KeyInv'
<1> USE KeyAssumption DEF KeyInv, serviceVars, managerVars, requestVars
<1>1. TypeOK'
  BY DEF TypeOK, ServeGet
<1>2. ServiceOK'
  BY DEF TypeOK, ServiceOK, RequestOK, InFlight, ServeGet
<1>3. ASSUME NEW q \in Replicas PROVE ManagerOK(q)'
  BY DEF TypeOK, ServiceOK, ManagerOK, RequestOK, InFlight, ServeGet
<1>4. ASSUME NEW q \in Requests PROVE RequestOK(q)'
  <2>1. CASE q = r
    <3>1. id[r] \in Requests /\ key_alg[id[r]] = RequestedAlg(algorithm[replica[r]])
      BY DEF TypeOK, RequestOK, InFlight, ServeGet
    <3>2. key_alg[id[r]] # None
      BY <3>1, AskedType DEF TypeOK, RequestOK, InFlight, ServeGet
    <3> QED BY <2>1, <3>1, <3>2 DEF TypeOK, ServiceOK, RequestOK, InFlight, ServeGet
  <2>2. CASE q # r
    BY <2>2 DEF TypeOK, ServiceOK, RequestOK, InFlight, ServeGet
  <2> QED BY <2>1, <2>2
<1> QED BY <1>1, <1>2, <1>3, <1>4

(* A key created by the key service keeps the invariant. *)
LEMMA ServeCreateInv ==
    ASSUME KeyInv, NEW r \in Requests, ServeCreate(r)
    PROVE  KeyInv'
<1> USE KeyAssumption DEF KeyInv, serviceVars, managerVars, requestVars
<1> DEFINE asked == RequestedAlg(algorithm[replica[r]])
<1>1. replica[r] \in Replicas /\ algorithm[replica[r]] \in Algorithms
  BY DEF TypeOK, RequestOK, InFlight, ServeCreate
<1>2. asked \in Algorithms \cup {"Ed25519"} /\ asked # None
  BY <1>1, AskedType
<1>3. key_alg[r] = None /\ key_alg' = [key_alg EXCEPT ![r] = asked]
  BY DEF ServeCreate
<1> HIDE DEF asked
<1>4. TypeOK'
  BY <1>2, <1>3 DEF TypeOK, ServeCreate
<1>5. ServiceOK'
  BY <1>2, <1>3 DEF TypeOK, ServiceOK, RequestOK, InFlight, ServeCreate
<1>6. ASSUME NEW q \in Replicas PROVE ManagerOK(q)'
  <2>1. RequestedAlg(algorithm[q]) # None
    BY AskedType DEF TypeOK
  <2> QED BY <1>2, <1>3, <2>1 DEF TypeOK, ManagerOK, ServeCreate
<1>7. ASSUME NEW q \in Requests PROVE RequestOK(q)'
  <2>1. CASE q = r
    BY <1>1, <1>2, <1>3, <2>1
    DEF TypeOK, ServiceOK, ManagerOK, RequestOK, InFlight, ServeCreate, asked
  <2>2. CASE q # r
    <3>1. InFlight(q) => RequestedAlg(algorithm[replica[q]]) # None
      BY AskedType DEF TypeOK, RequestOK
    <3> QED BY <1>2, <1>3, <2>2, <3>1 DEF TypeOK, RequestOK, InFlight, ServeCreate
  <2> QED BY <2>1, <2>2
<1> QED BY <1>4, <1>5, <1>6, <1>7

(* A withdrawn key keeps the invariant. *)
LEMMA WithdrawInv ==
    ASSUME KeyInv, NEW k \in Requests, Withdraw(k)
    PROVE  KeyInv'
<1> USE KeyAssumption DEF KeyInv, serviceVars, managerVars, requestVars
<1>1. TypeOK'
  BY DEF TypeOK, Withdraw
<1>2. ServiceOK'
  BY DEF TypeOK, ServiceOK, RequestOK, InFlight, Withdraw
<1>3. ASSUME NEW q \in Replicas PROVE ManagerOK(q)'
  BY DEF TypeOK, ServiceOK, ManagerOK, RequestOK, InFlight, Withdraw
<1>4. ASSUME NEW q \in Requests PROVE RequestOK(q)'
  BY DEF TypeOK, ServiceOK, ManagerOK, RequestOK, InFlight, Withdraw
<1> QED BY <1>1, <1>2, <1>3, <1>4

(* A restart with another algorithm keeps the invariant. *)
LEMMA RestartInv ==
    ASSUME KeyInv, NEW p \in Replicas, Restart(p)
    PROVE  KeyInv'
<1> USE KeyAssumption DEF KeyInv, serviceVars, managerVars, requestVars
<1>1. TypeOK'
  BY DEF TypeOK, Restart, New
<1>2. ServiceOK'
  BY DEF TypeOK, ServiceOK, RequestOK, InFlight, Restart, New
<1>3. ASSUME NEW q \in Replicas PROVE ManagerOK(q)'
  BY DEF TypeOK, ServiceOK, ManagerOK, RequestOK, InFlight, Restart, New
<1>4. ASSUME NEW q \in Requests PROVE RequestOK(q)'
  BY DEF TypeOK, ServiceOK, ManagerOK, RequestOK, InFlight, Restart, New
<1> QED BY <1>1, <1>2, <1>3, <1>4

(* The three guarantees next to the inductive invariant. *)
Guarantees == OneKeyReused /\ NoWithdrawnKeyUsed /\ TokenAlg

(* KeyInv is inductive. *)
LEMMA KeyStep ==
    ASSUME KeyInv, [Next]_vars
    PROVE  KeyInv'
<1>1. CASE UNCHANGED vars
  BY <1>1 DEF vars, serviceVars, managerVars, requestVars, KeyInv, TypeOK, ServiceOK,
              ManagerOK, RequestOK, InFlight
<1>2. ASSUME NEW r \in Requests,
             GetPrivateKey(r) \/ KeyMissing(r) \/ KeyArrived(r) \/ TripFailed(r)
               \/ ServeGet(r) \/ ServeCreate(r)
      PROVE KeyInv'
  BY <1>2, GetPrivateKeyInv, KeyMissingInv, KeyArrivedInv, TripFailedInv, ServeGetInv,
     ServeCreateInv
<1> QED BY <1>1, <1>2, WithdrawInv, RestartInv DEF Next

(* The service never forgets which algorithm a key was created for. *)
LEMMA KeyAlgKept ==
    ASSUME KeyInv, [Next]_vars, NEW k \in Requests, key_alg[k] # None
    PROVE  key_alg'[k] = key_alg[k]
<1>1. CASE UNCHANGED vars
  BY <1>1 DEF vars, serviceVars
<1>2. ASSUME NEW r \in Requests, ServeCreate(r) PROVE key_alg'[k] = key_alg[k]
  BY <1>2 DEF ServeCreate, KeyInv, TypeOK
<1>3. ASSUME NEW r \in Requests,
             GetPrivateKey(r) \/ KeyMissing(r) \/ KeyArrived(r) \/ TripFailed(r) \/ ServeGet(r)
      PROVE key_alg'[k] = key_alg[k]
  BY <1>3 DEF GetPrivateKey, KeyMissing, KeyArrived, TripFailed, ServeGet, serviceVars
<1>4. ASSUME NEW p \in Requests, Withdraw(p) PROVE key_alg'[k] = key_alg[k]
  BY <1>4 DEF Withdraw
<1>5. ASSUME NEW p \in Replicas, Restart(p) PROVE key_alg'[k] = key_alg[k]
  BY <1>5 DEF Restart, serviceVars
<1> QED BY <1>1, <1>2, <1>3, <1>4, <1>5 DEF Next

(* No step creates a key without need. *)
LEMMA ReuseStep ==
    ASSUME KeyInv, [Next]_vars, OneKeyReused
    PROVE  OneKeyReused'
<1> USE DEF KeyInv, serviceVars, managerVars, requestVars, OneKeyReused
<1>1. CASE UNCHANGED vars
  BY <1>1 DEF vars
<1>2. ASSUME NEW r \in Requests, GetPrivateKey(r) PROVE OneKeyReused'
  <2>1. key_alg[r] = None
    BY <1>2 DEF RequestOK, GetPrivateKey
  <2> QED BY <1>2, <2>1 DEF TypeOK, GetPrivateKey
<1>3. ASSUME NEW r \in Requests, ServeCreate(r) PROVE OneKeyReused'
  <2>1. id[r] \in gone \/ (id[r] = None /\ earlier[r] = {})
    BY <1>3 DEF RequestOK, ServeCreate
  <2> QED BY <1>3, <2>1 DEF TypeOK, ServeCreate
<1>4. ASSUME NEW r \in Requests,
             KeyMissing(r) \/ KeyArrived(r) \/ TripFailed(r) \/ ServeGet(r)
      PROVE OneKeyReused'
  BY <1>4 DEF KeyMissing, KeyArrived, TripFailed, ServeGet
<1>5. ASSUME NEW k \in Requests, Withdraw(k) PROVE OneKeyReused'
  BY <1>5 DEF Withdraw
<1>6. ASSUME NEW p \in Replicas, Restart(p) PROVE OneKeyReused'
  BY <1>6 DEF Restart
<1> QED BY <1>1, <1>2, <1>3, <1>4, <1>5, <1>6 DEF Next

(* What a step does to the tokens: it keeps them, or it signs one for a request
   that had none. *)
LEMMA TokenStep ==
    ASSUME KeyInv, [Next]_vars, NEW q \in Requests, token'[q] # None
    PROVE  \/ token'[q] = token[q] /\ before'[q] = before[q]
           \/ /\ token'[q] = [kid |-> reply[q], alg |-> algorithm[replica[q]]]
              /\ reply[q] \in Requests /\ before'[q] = before[q]
<1> USE DEF KeyInv, serviceVars, managerVars, requestVars
<1> DEFINE Goal ==
      \/ token'[q] = token[q] /\ before'[q] = before[q]
      \/ /\ token'[q] = [kid |-> reply[q], alg |-> algorithm[replica[q]]]
         /\ reply[q] \in Requests /\ before'[q] = before[q]
<1>1. CASE UNCHANGED vars
  BY <1>1 DEF vars
<1>2. ASSUME NEW r \in Requests, GetPrivateKey(r) PROVE Goal
  BY <1>2 DEF TypeOK, RequestOK, GetPrivateKey
<1>3. ASSUME NEW r \in Requests, KeyArrived(r) PROVE Goal
  BY <1>3 DEF TypeOK, KeyArrived
<1>4. ASSUME NEW r \in Requests,
             KeyMissing(r) \/ TripFailed(r) \/ ServeGet(r) \/ ServeCreate(r)
      PROVE Goal
  BY <1>4 DEF KeyMissing, TripFailed, ServeGet, ServeCreate
<1>5. ASSUME NEW k \in Requests, Withdraw(k) PROVE Goal
  BY <1>5 DEF Withdraw
<1>6. ASSUME NEW p \in Replicas, Restart(p) PROVE Goal
  BY <1>6 DEF Restart
<1> QED BY <1>1, <1>2, <1>3, <1>4, <1>5, <1>6 DEF Next

(* A new token has a key that was not withdrawn before and its algorithm. *)
LEMMA SignedStep ==
    ASSUME KeyInv, [Next]_vars, NoWithdrawnKeyUsed, TokenAlg
    PROVE  NoWithdrawnKeyUsed' /\ TokenAlg'
<1>1. SUFFICES ASSUME NEW q \in Requests, token'[q] # None
      PROVE  /\ token'[q].kid \notin before'[q]
             /\ key_alg'[token'[q].kid] = RequestedAlg(token'[q].alg)
             /\ token'[q] \in TokenType
  BY DEF NoWithdrawnKeyUsed, TokenAlg
<1>2. CASE token'[q] = token[q] /\ before'[q] = before[q]
  <2>1. token[q] \in TokenType /\ key_alg[token[q].kid] = RequestedAlg(token[q].alg)
    BY <1>1, <1>2 DEF TokenAlg
  <2>2. token[q].kid \in Requests /\ key_alg[token[q].kid] # None
    BY <2>1, AskedType DEF TokenType
  <2>3. key_alg'[token[q].kid] = key_alg[token[q].kid]
    BY <2>2, KeyAlgKept
  <2> QED BY <1>1, <1>2, <2>1, <2>3 DEF NoWithdrawnKeyUsed
<1>3. CASE /\ token'[q] = [kid |-> reply[q], alg |-> algorithm[replica[q]]]
           /\ reply[q] \in Requests /\ before'[q] = before[q]
  <2>1. InFlight(q) /\ replica[q] \in Replicas /\ reply[q] \notin before[q]
          /\ key_alg[reply[q]] = RequestedAlg(algorithm[replica[q]])
    BY <1>3, KeyAssumption DEF KeyInv, RequestOK
  <2>2. algorithm[replica[q]] \in Algorithms
    BY <2>1 DEF KeyInv, TypeOK
  <2>3. key_alg'[reply[q]] = key_alg[reply[q]]
    BY <1>3, <2>1, <2>2, KeyAlgKept, AskedType
  <2> QED BY <1>3, <2>1, <2>2, <2>3 DEF TokenType
<1> QED BY <1>1, <1>2, <1>3, TokenStep

(* The invariant and the guarantees hold throughout. *)
LEMMA KeyCorrect == Spec => [](KeyInv /\ Guarantees)
<1>1. Init => KeyInv /\ Guarantees
  BY KeyInit DEF Guarantees
<1>2. KeyInv /\ Guarantees /\ [Next]_vars => (KeyInv /\ Guarantees)'
  BY KeyStep, ReuseStep, SignedStep DEF Guarantees
<1> QED BY <1>1, <1>2, PTL DEF Spec

(* private_key and get_jwk_data: a new key is created only by a request that
   found its replica without a key before anything was signed, or whose key had
   been withdrawn, with any number of concurrent requests, failing trips,
   withdrawals and restarts. *)
THEOREM KeysReused == Spec => []OneKeyReused
<1>1. KeyInv /\ Guarantees => OneKeyReused
  BY DEF Guarantees
<1> QED BY <1>1, KeyCorrect, PTL

(* get_private_key asks the key service on every issue: no token is signed with
   a key that had been withdrawn when the request arrived. *)
THEOREM NoDeadKey == Spec => []NoWithdrawnKeyUsed
<1>1. KeyInv /\ Guarantees => NoWithdrawnKeyUsed
  BY DEF Guarantees
<1> QED BY <1>1, KeyCorrect, PTL

(* create_key, TokenHeaders::create_new and get_public_key agree: a token of a
   supported algorithm names a published key of that algorithm, whatever
   TOKEN_ALGORITHM the replicas are restarted with. *)
THEOREM TokensVerify == Spec => []IssuedVerifies
<1>1. KeyInv /\ Guarantees => IssuedVerifies
  <2> SUFFICES ASSUME Guarantees, NEW r \in Requests, token[r] # None,
                      token[r].alg \in SUPPORTED_ALGORITHMS
               PROVE  LET jwk_alg == JwkAlg(key_alg[token[r].kid]) IN
                      PublicKeyKind(jwk_alg) # "unsupported" /\ jwk_alg = token[r].alg
    BY DEF IssuedVerifies
  <2>1. key_alg[token[r].kid] = RequestedAlg(token[r].alg)
    BY DEF Guarantees, TokenAlg
  <2> QED BY <2>1, NamesAgree
<1> QED BY <1>1, KeyCorrect, PTL

(* The keys, the replicas and the requests stay what their types say. *)
THEOREM KeyTypes == Spec => []TypeOK
<1>1. KeyInv => TypeOK
  BY DEF KeyInv
<1> QED BY <1>1, KeyCorrect, PTL
=============================================================================
