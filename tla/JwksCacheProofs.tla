-------------------------- MODULE JwksCacheProofs --------------------------
(***************************************************************************)
(* Proofs about JwksCache: CacheInv is inductive, and the guarantees of    *)
(* the cache follow from it step by step, for any number of requests and   *)
(* keys and any TTL, throttle interval, grace and timeout.  Then, about    *)
(* Readiness: a probe beside the cache disturbs none of them, and what it  *)
(* says about the snapshot is what the verifications find.                 *)
(***************************************************************************)
EXTENDS Readiness, TLAPS

(* A service that was just started has an empty cache and nobody at its lock. *)
LEMMA CacheInit == Init => CacheInv
<1> SUFFICES ASSUME Init PROVE CacheInv
  OBVIOUS
<1> USE CacheAssumption
<1>1. TypeOK
  BY DEF Init, TypeOK
<1>2. ClockOK /\ SnapshotOK /\ SettledOK
  BY DEF Init, ClockOK, SnapshotOK, SettledOK
<1>3. ASSUME NEW r \in Requests PROVE TripOK(r)
  BY DEF Init, TripOK
<1> QED
  BY <1>1, <1>2, <1>3 DEF CacheInv

LEMMA PublicKeyInv ==
    ASSUME CacheInv, NEW r \in Requests, PublicKey(r)
    PROVE  CacheInv'
<1> USE CacheAssumption DEF serviceVars, cacheVars
<1>1. TypeOK'
  <2>1. queue' \in Seq(Requests)
    <3>1. queue' = queue \/ queue' = Append(queue, r)
      BY DEF PublicKey
    <3>2. queue \in Seq(Requests)
      BY DEF CacheInv, TypeOK
    <3> QED BY <3>1, <3>2
  <2>2. PICK k \in Kids :
          /\ kid' = [kid EXCEPT ![r] = k]
          /\ \/ Answer(r, "hit")
             \/ pc' = [pc EXCEPT ![r] = "wait"] /\ UNCHANGED result
    BY DEF PublicKey
  <2>3. kid' \in [Requests -> Kids \cup {None}]
    BY <2>2 DEF CacheInv, TypeOK
  <2>4. pc' \in [Requests -> {"idle", "wait", "trip", "done"}]
    BY <2>2 DEF CacheInv, TypeOK, Answer
  <2>5. result' \in [Requests -> Served \cup Refused \cup {"none"}]
    BY <2>2 DEF CacheInv, TypeOK, Answer, Served
  <2> QED
    BY <2>1, <2>3, <2>4, <2>5 DEF CacheInv, TypeOK, PublicKey
<1>2. ClockOK' /\ SnapshotOK' /\ SettledOK'
  BY DEF CacheInv, ClockOK, SnapshotOK, SettledOK, PublicKey
<1>3. ASSUME NEW p \in Requests PROVE TripOK(p)'
  BY DEF CacheInv, TypeOK, TripOK, PublicKey, Answer
<1> QED
  BY <1>1, <1>2, <1>3 DEF CacheInv

LEMMA LockGrantedInv ==
    ASSUME CacheInv, NEW r \in Requests, LockGranted(r)
    PROVE  CacheInv'
<1> USE CacheAssumption DEF serviceVars, cacheVars
<1>1. TypeOK'
  <2>1. Outcome(kid[r]) \in {"hit", "stale", "not_found", "trip"}
    BY DEF Outcome
  <2>2. queue' \in Seq(Requests)
    BY DEF CacheInv, TypeOK, LockGranted
  <2>3. pc' \in [Requests -> {"idle", "wait", "trip", "done"}]
        /\ result' \in [Requests -> Served \cup Refused \cup {"none"}]
    <3>1. \/ pc' = [pc EXCEPT ![r] = "trip"] /\ result' = result
          \/ /\ pc' = [pc EXCEPT ![r] = "done"] /\ Outcome(kid[r]) # "trip"
             /\ result' = [result EXCEPT ![r] = Outcome(kid[r])]
      BY DEF LockGranted, Answer
    <3> QED
      BY <2>1, <3>1 DEF CacheInv, TypeOK, Served, Refused
  <2>4. holder' \in Requests \cup {None} /\ last_attempt' \in Nat \cup {None}
        /\ sent' \in [Requests -> Nat]
    BY DEF CacheInv, TypeOK, LockGranted
  <2> QED
    BY <2>2, <2>3, <2>4 DEF CacheInv, TypeOK, LockGranted
<1>2. ClockOK' /\ SnapshotOK'
  BY DEF CacheInv, TypeOK, ClockOK, SnapshotOK, LockGranted
<1>3. SettledOK'
  BY DEF CacheInv, SettledOK, LockGranted
<1>4. ASSUME NEW p \in Requests PROVE TripOK(p)'
  <2>1. pc[p] # "trip" /\ body[p] = None
    BY DEF CacheInv, TripOK, LockGranted
  <2> QED
    BY <2>1 DEF CacheInv, TypeOK, TripOK, LockGranted, Answer
<1> QED
  BY <1>1, <1>2, <1>3, <1>4 DEF CacheInv

(* While one request is on a trip, no other is. *)
LEMMA OneTrip ==
    ASSUME CacheInv, NEW r \in Requests, pc[r] = "trip",
           NEW p \in Requests, p # r
    PROVE  pc[p] # "trip"
  BY DEF CacheInv, TripOK

LEMMA FetchStoredInv ==
    ASSUME CacheInv, NEW r \in Requests, FetchStored(r)
    PROVE  CacheInv'
<1> USE CacheAssumption DEF serviceVars
<1>1. TypeOK'
  BY DEF CacheInv, TypeOK, FetchStored, Answer, EndTrip, Snapshots, Served, Refused
<1>2. /\ TripOK(r) /\ ClockOK /\ pc[r] = "trip" /\ body[r] # None /\ now \in Nat
      /\ sent[r] \in Nat /\ lastSeen \in [Kids -> Nat] /\ body[r] \subseteq Kids
  BY DEF CacheInv, FetchStored, TypeOK
<1>3. ClockOK'
  BY <1>2 DEF ClockOK, FetchStored
<1>4. entry'.keys = body[r] /\ entry'.at = now /\ entry' # None
  <2>1. entry' = [keys |-> body[r], at |-> now]
    BY DEF FetchStored
  <2>2. entry' \in [keys : SUBSET Kids, at : Nat]
    BY <1>2, <2>1
  <2> QED BY <2>1, <2>2
<1>5. SnapshotOK'
  BY <1>2, <1>4 DEF SnapshotOK, TripOK, FetchStored
<1>6. SettledOK'
  BY <1>2, <1>4 DEF SettledOK, TripOK, ClockOK, FetchStored
<1>7. ASSUME NEW p \in Requests PROVE TripOK(p)'
  BY <1>2, OneTrip DEF CacheInv, TypeOK, TripOK, FetchStored, Answer, EndTrip
<1> QED
  BY <1>1, <1>3, <1>5, <1>6, <1>7 DEF CacheInv

LEMMA FetchFailedInv ==
    ASSUME CacheInv, NEW r \in Requests, FetchFailed(r)
    PROVE  CacheInv'
<1> USE CacheAssumption DEF serviceVars
<1>1. TypeOK'
  BY DEF CacheInv, TypeOK, FetchFailed, Answer, EndTrip, Served, Refused
<1>2. ClockOK' /\ SnapshotOK'
  BY DEF CacheInv, ClockOK, SnapshotOK, FetchFailed
<1>3. SettledOK'
  BY DEF CacheInv, TypeOK, SettledOK, FetchFailed
<1>4. ASSUME NEW p \in Requests PROVE TripOK(p)'
  BY OneTrip DEF CacheInv, TypeOK, TripOK, FetchFailed, Answer, EndTrip
<1> QED
  BY <1>1, <1>2, <1>3, <1>4 DEF CacheInv

LEMMA ReplyInv ==
    ASSUME CacheInv, NEW r \in Requests, Reply(r)
    PROVE  CacheInv'
<1> USE CacheAssumption DEF serviceVars, cacheVars
<1>1. TypeOK'
  BY DEF CacheInv, TypeOK, Reply
<1>2. ClockOK' /\ SnapshotOK' /\ SettledOK'
  BY DEF CacheInv, ClockOK, SnapshotOK, SettledOK, Reply
<1>3. ASSUME NEW p \in Requests PROVE TripOK(p)'
  BY DEF CacheInv, TypeOK, ClockOK, TripOK, Reply
<1> QED
  BY <1>1, <1>2, <1>3 DEF CacheInv

LEMMA PublishInv ==
    ASSUME CacheInv, NEW k \in Kids, Publish(k)
    PROVE  CacheInv'
<1> USE CacheAssumption DEF serviceVars, cacheVars
<1>1. TypeOK'
  BY DEF CacheInv, TypeOK, Publish
<1>2. /\ \A j \in Kids : lastSeen'[j] = IF j = k THEN now ELSE lastSeen[j]
      /\ \A j \in Kids : since'[j] = IF j = k THEN now ELSE since[j]
      /\ now' = now /\ now # 0 /\ published' = published \cup {k}
  BY DEF CacheInv, TypeOK, ClockOK, Publish
<1>3. ClockOK'
  BY <1>2 DEF CacheInv, TypeOK, ClockOK, Publish
<1>4. SnapshotOK'
  BY <1>2 DEF CacheInv, TypeOK, Snapshots, SnapshotOK, Publish
<1>5. SettledOK'
  BY <1>2 DEF CacheInv, TypeOK, Snapshots, ClockOK, SettledOK, Publish
<1>6. ASSUME NEW p \in Requests PROVE TripOK(p)'
  BY <1>2 DEF CacheInv, TypeOK, ClockOK, TripOK, Publish
<1> QED
  BY <1>1, <1>3, <1>4, <1>5, <1>6 DEF CacheInv

LEMMA WithdrawInv ==
    ASSUME CacheInv, NEW k \in Kids, Withdraw(k)
    PROVE  CacheInv'
<1> USE CacheAssumption DEF serviceVars, cacheVars
<1>1. TypeOK'
  BY DEF CacheInv, TypeOK, Withdraw
<1>2. \A j \in Kids : j # k => since'[j] = since[j]
  BY DEF CacheInv, TypeOK, Withdraw
<1>3. ClockOK' /\ SnapshotOK'
  BY DEF CacheInv, ClockOK, SnapshotOK, Withdraw
<1>4. SettledOK'
  BY <1>2 DEF CacheInv, TypeOK, SettledOK, Withdraw
<1>5. ASSUME NEW p \in Requests PROVE TripOK(p)'
  BY <1>2 DEF CacheInv, TypeOK, TripOK, Withdraw
<1> QED
  BY <1>1, <1>3, <1>4, <1>5 DEF CacheInv

LEMMA TickInv ==
    ASSUME CacheInv, Tick
    PROVE  CacheInv'
<1> USE CacheAssumption DEF serviceVars, cacheVars
<1>1. TypeOK'
  BY DEF CacheInv, TypeOK, Tick
<1>2. /\ now' = now + 1 /\ now \in Nat /\ lastSeen \in [Kids -> Nat]
      /\ \A j \in Kids : lastSeen'[j] = IF j \in published THEN now + 1 ELSE lastSeen[j]
      /\ \A j \in published : lastSeen[j] = now
      /\ published \subseteq Kids /\ now # 0
  BY DEF CacheInv, TypeOK, ClockOK, Tick
<1>3. \A j \in Kids : lastSeen[j] <= lastSeen'[j] /\ (lastSeen[j] # 0 => lastSeen'[j] # 0)
  BY <1>2
<1>4. ClockOK'
  BY <1>2 DEF CacheInv, TypeOK, ClockOK, Tick
<1>5. SnapshotOK'
  BY <1>1, <1>2, <1>3 DEF CacheInv, TypeOK, Snapshots, SnapshotOK, Tick
<1>6. SettledOK'
  BY DEF CacheInv, SettledOK, Tick
<1>7. ASSUME NEW p \in Requests PROVE TripOK(p)'
  BY <1>1, <1>2, <1>3 DEF CacheInv, TypeOK, TripOK, Tick
<1> QED
  BY <1>1, <1>4, <1>5, <1>6, <1>7 DEF CacheInv

LEMMA CacheStep == CacheInv /\ [Next]_vars => CacheInv'
<1> SUFFICES ASSUME CacheInv, [Next]_vars PROVE CacheInv'
  OBVIOUS
<1>1. CASE UNCHANGED vars
  BY <1>1 DEF CacheInv, TypeOK, ClockOK, SnapshotOK, TripOK, SettledOK, vars,
              serviceVars, cacheVars
<1> QED
  BY <1>1, PublicKeyInv, LockGrantedInv, FetchStoredInv, FetchFailedInv, ReplyInv,
     PublishInv, WithdrawInv, TickInv
  DEF Next, Step

(* The bookkeeping of the cache: one trip at a time under refresh_lock, and
   what the snapshot and an answer in flight say about the key service. *)
THEOREM CacheCorrect == Spec => []CacheInv
  BY CacheInit, CacheStep, PTL DEF Spec

-----------------------------------------------------------------------------
(* What a step may do to the requests.  A request is answered by a hit, with
   the lock or at the end of its trip. *)

LEMMA WhoAnswers ==
    ASSUME CacheInv, [Next]_vars, NEW r \in Requests, Answered(r)
    PROVE  PublicKey(r) \/ LockGranted(r) \/ FetchStored(r) \/ FetchFailed(r)
<1>1. result'[r] # result[r]
  BY DEF Answered
<1>2. ASSUME NEW p \in Requests, p # r
      PROVE  ~(PublicKey(p) \/ LockGranted(p) \/ FetchStored(p) \/ FetchFailed(p))
  BY <1>1, <1>2 DEF CacheInv, TypeOK, PublicKey, LockGranted, FetchStored, FetchFailed, Answer
<1>3. ~Tick /\ ~UNCHANGED vars
      /\ (\A k \in Kids : ~Publish(k) /\ ~Withdraw(k))
      /\ (\A p \in Requests : ~Reply(p))
  BY <1>1 DEF Tick, vars, Publish, Withdraw, Reply
<1> QED
  BY <1>2, <1>3 DEF Next, Step

(* A snapshot from which a key is served is not older than servable_max_age. *)
LEMMA ServedFromSnapshot ==
    ASSUME CacheInv, NEW k, lookup_fresh(k) \/ lookup_stale(k)
    PROVE  /\ lastSeen[k] # 0
           /\ now < lastSeen[k] + Timeout + servable_max_age
<1> USE CacheAssumption
<1>1. /\ entry # None /\ entry \in Snapshots /\ k \in entry.keys /\ now \in Nat
      /\ lastSeen[k] \in Nat /\ entry.at <= now
      /\ lastSeen[k] # 0 /\ entry.at <= lastSeen[k] + Timeout
  BY DEF CacheInv, TypeOK, SnapshotOK, Snapshots, lookup_fresh, lookup_stale, cache_is_fresh
<1>2. now < entry.at + servable_max_age /\ entry.at \in Nat /\ servable_max_age \in Nat
  BY <1>1 DEF lookup_fresh, lookup_stale, cache_is_fresh, Elapsed, servable_max_age, Snapshots
<1> QED
  BY <1>1, <1>2

(* The bound on how long a withdrawn key is accepted. *)
THEOREM Staleness == Spec => StalenessBounded
<1> DEFINE Bound(r) ==
      LET seen == lastSeen[kid'[r]] + Timeout IN
      seen # Timeout /\ (now <= seen \/ now < seen + servable_max_age)
<1>1. ASSUME CacheInv, [Next]_vars, NEW r \in Requests, Answered(r), result'[r] \in Served
      PROVE  Bound(r)
  <2> USE CacheAssumption
  <2>1. CASE PublicKey(r)
    <3>1. PICK k \in Kids : kid' = [kid EXCEPT ![r] = k]
                            /\ (lookup_fresh(k) \/ result' = result)
      BY <2>1 DEF PublicKey
    <3>2. kid'[r] = k /\ lookup_fresh(k)
      BY <1>1, <3>1 DEF CacheInv, TypeOK, Answered
    <3> QED
      BY <3>2, ServedFromSnapshot, <1>1 DEF CacheInv, TypeOK
  <2>2. CASE LockGranted(r)
    <3>1. kid' = kid /\ Outcome(kid[r]) \in {"hit", "stale"}
      BY <1>1, <2>2 DEF LockGranted, Answer, Answered, CacheInv, TypeOK, Served, Outcome
    <3>2. lookup_fresh(kid[r]) \/ lookup_stale(kid[r])
      BY <3>1 DEF Outcome, ServedThrottled
    <3> QED
      BY <1>1, <3>1, <3>2, ServedFromSnapshot
         DEF CacheInv, TypeOK, lookup_fresh, lookup_stale, cache_is_fresh, Snapshots
  <2>3. CASE FetchStored(r)
    <3>1. kid' = kid /\ kid[r] \in body[r] /\ pc[r] = "trip" /\ body[r] # None
      BY <1>1, <2>3 DEF FetchStored, Answer, CacheInv, TypeOK, Served
    <3>2. lastSeen[kid[r]] # 0 /\ sent[r] <= lastSeen[kid[r]] /\ now <= sent[r] + Timeout
          /\ kid[r] \in Kids
      BY <1>1, <3>1 DEF CacheInv, TripOK, TypeOK
    <3> QED
      BY <1>1, <3>1, <3>2 DEF CacheInv, TypeOK
  <2>4. CASE FetchFailed(r)
    <3>1. kid' = kid /\ lookup_stale(kid[r])
      BY <1>1, <2>4 DEF FetchFailed, Answer, CacheInv, TypeOK, Served
    <3> QED
      BY <1>1, <3>1, ServedFromSnapshot DEF CacheInv, TypeOK, lookup_stale, Snapshots
  <2> QED
    BY <1>1, <2>1, <2>2, <2>3, <2>4, WhoAnswers
<1>2. CacheInv /\ [Next]_vars =>
        [\A r \in Requests : Answered(r) /\ result'[r] \in Served => Bound(r)]_vars
  BY <1>1
<1> QED
  BY <1>2, CacheCorrect, PTL DEF Spec, StalenessBounded

(* A key in memory is never refused. *)
THEOREM NoKeyLost == Spec => NoNeedlessRefusal
<1>1. ASSUME CacheInv, [Next]_vars, NEW r \in Requests, Answered(r), result'[r] \in Refused
      PROVE  ~lookup_stale(kid[r])'
  <2> USE CacheAssumption DEF Refused
  <2>1. CASE PublicKey(r)
    <3>1. result'[r] = "hit" \/ result' = result
      BY <1>1, <2>1 DEF PublicKey, Answer, CacheInv, TypeOK
    <3> QED
      BY <1>1, <3>1 DEF Answered
  <2>2. CASE LockGranted(r)
    <3>1. kid' = kid /\ entry' = entry /\ Outcome(kid[r]) = "not_found"
      BY <1>1, <2>2 DEF LockGranted, Answer, Answered, CacheInv, TypeOK, Outcome
    <3>2. cache_is_fresh /\ ~lookup_fresh(kid[r])
      BY <3>1 DEF Outcome, RefusedThrottled
    <3> QED
      BY <3>1, <3>2 DEF lookup_fresh, lookup_stale
  <2>3. CASE FetchStored(r)
    <3>1. kid' = kid /\ entry'.keys = body[r] /\ kid[r] \notin body[r]
      BY <1>1, <2>3 DEF FetchStored, Answer, CacheInv, TypeOK
    <3> QED
      BY <3>1 DEF lookup_stale
  <2>4. CASE FetchFailed(r)
    <3>1. kid' = kid /\ entry' = entry /\ now' = now /\ ~lookup_stale(kid[r])
      BY <1>1, <2>4 DEF FetchFailed, Answer, CacheInv, TypeOK
    <3> QED
      BY <3>1 DEF lookup_stale, Elapsed
  <2> QED
    BY <1>1, <2>1, <2>2, <2>3, <2>4, WhoAnswers
<1>2. CacheInv /\ [Next]_vars =>
        [\A r \in Requests : Answered(r) /\ result'[r] \in Refused =>
           ~lookup_stale(kid[r])']_vars
  BY <1>1
<1> QED
  BY <1>2, CacheCorrect, PTL DEF Spec, NoNeedlessRefusal

(* How long a newly published key can be refused. *)
THEOREM NewKeys == Spec => NewKeyFound
<1> DEFINE Excused(r) == LET k == kid[r] IN
             \/ k \notin published
             \/ now < since[k] + MissRefresh
             \/ now <= since[k] + Timeout
<1>1. ASSUME CacheInv, [Next]_vars, NEW r \in Requests, Answered(r),
             result'[r] = "not_found", last_failure' = None
      PROVE  Excused(r)
  <2> USE CacheAssumption
  <2>1. CASE PublicKey(r)
    <3>1. result'[r] = "hit" \/ result' = result
      BY <1>1, <2>1 DEF PublicKey, Answer, CacheInv, TypeOK
    <3> QED
      BY <1>1, <3>1 DEF Answered
  <2>2. CASE LockGranted(r)
    <3>1. Outcome(kid[r]) = "not_found" /\ holder = None /\ last_failure = None
      BY <1>1, <2>2 DEF LockGranted, Answer, Answered, CacheInv, TypeOK, Outcome
    <3>2. /\ last_attempt # None /\ now - last_attempt < MissRefresh
          /\ cache_is_fresh /\ ~lookup_fresh(kid[r])
      BY <1>1, <3>1
      DEF Outcome, RefusedThrottled, allow_refresh_on_miss, Elapsed, CacheInv, TypeOK
    <3>3. kid[r] \notin entry.keys
      BY <3>2 DEF lookup_fresh
    <3>4. \A k \in published \ entry.keys : last_attempt <= since[k]
      BY <1>1, <3>1, <3>2 DEF CacheInv, SettledOK
    <3>5. kid[r] \in published => since[kid[r]] \in Nat /\ last_attempt <= since[kid[r]]
      BY <1>1, <3>3, <3>4 DEF CacheInv, TypeOK
    <3>6. last_attempt \in Nat /\ now \in Nat
      BY <1>1, <3>2 DEF CacheInv, TypeOK
    <3> QED
      BY <3>2, <3>5, <3>6
  <2>3. CASE FetchStored(r)
    <3>1. kid[r] \notin body[r] /\ pc[r] = "trip" /\ body[r] # None
      BY <1>1, <2>3 DEF FetchStored, Answer, CacheInv, TypeOK
    <3>2. /\ now <= sent[r] + Timeout
          /\ \A k \in published \ body[r] : sent[r] <= since[k]
      BY <1>1, <3>1 DEF CacheInv, TripOK
    <3> QED
      BY <1>1, <3>1, <3>2 DEF CacheInv, TypeOK
  <2>4. CASE FetchFailed(r)
    BY <1>1, <2>4 DEF FetchFailed, CacheInv, TypeOK
  <2> QED
    BY <1>1, <2>1, <2>2, <2>3, <2>4, WhoAnswers
<1>2. CacheInv /\ [Next]_vars =>
        [\A r \in Requests :
           Answered(r) /\ result'[r] = "not_found" /\ last_failure' = None => Excused(r)]_vars
  BY <1>1
<1> QED
  BY <1>2, CacheCorrect, PTL DEF Spec, NewKeyFound

(* How often the key service is asked while it answers. *)
THEOREM Spacing == Spec => TripsSpaced
<1> DEFINE Spaced == now >= last_attempt + MissRefresh \/ now >= last_attempt + Ttl
<1>1. ASSUME CacheInv, [Next]_vars, NEW r \in Requests, pc[r] # "trip", pc'[r] = "trip",
             last_attempt # None, last_failure = None
      PROVE  Spaced
  <2> USE CacheAssumption
  <2>1. LockGranted(r)
    <3>1. ASSUME NEW p \in Requests, p # r
          PROVE  ~(PublicKey(p) \/ LockGranted(p) \/ FetchStored(p) \/ FetchFailed(p))
      BY <1>1, <3>1
      DEF CacheInv, TypeOK, PublicKey, LockGranted, FetchStored, FetchFailed, Answer
    <3>2. ~(PublicKey(r) \/ FetchStored(r) \/ FetchFailed(r))
      BY <1>1 DEF CacheInv, TypeOK, PublicKey, FetchStored, FetchFailed, Answer
    <3>3. ~Tick /\ ~UNCHANGED vars
          /\ (\A k \in Kids : ~Publish(k) /\ ~Withdraw(k))
          /\ (\A p \in Requests : ~Reply(p))
      BY <1>1 DEF Tick, vars, Publish, Withdraw, Reply
    <3> QED
      BY <1>1, <3>1, <3>2, <3>3 DEF Next, Step
  <2>2. Outcome(kid[r]) = "trip" /\ holder = None
    BY <1>1, <2>1 DEF LockGranted, Answer, CacheInv, TypeOK
  <2>3. allow_refresh_on_miss \/ ~cache_is_fresh
    BY <2>2 DEF Outcome, RefusedThrottled
  <2>4. entry # None /\ last_attempt <= entry.at /\ entry.at \in Nat
    BY <1>1, <2>2 DEF CacheInv, TypeOK, SettledOK, Snapshots
  <2>5. last_attempt \in Nat /\ now \in Nat
    BY <1>1 DEF CacheInv, TypeOK
  <2> QED
    BY <1>1, <2>3, <2>4, <2>5 DEF allow_refresh_on_miss, cache_is_fresh, Elapsed
<1>2. CacheInv /\ [Next]_vars =>
        [\A r \in Requests :
           pc[r] # "trip" /\ pc'[r] = "trip" /\ last_attempt # None /\ last_failure = None =>
             Spaced]_vars
  BY <1>1
<1> QED
  BY <1>2, CacheCorrect, PTL DEF Spec, TripsSpaced

(* The cache, the lock and the requests stay what their types say. *)
THEOREM CacheTypes == Spec => []TypeOK
<1>1. CacheInv => TypeOK
  BY DEF CacheInv
<1> QED BY <1>1, CacheCorrect, PTL

-----------------------------------------------------------------------------
(***************************************************************************)
(* The probe                                                               *)
(***************************************************************************)
(* Seen from the cache, a step of the probe is none. *)
LEMMA CacheUndisturbed == [ReadyNext]_readyVars => [Next]_vars
BY DEF ReadyNext, ProbeStep, ProbeArrives, Connect, Ping, CheckEnds, Beside, StoreTurns, readyVars

(* A snapshot that was too old or empty does not become usable again by
   waiting. *)
DismissedOK == dismissed => ~has_servable_snapshot

LEMMA DismissedStep ==
    ASSUME CacheInv, DismissedOK, [ReadyNext]_readyVars
    PROVE  DismissedOK'
<1> USE CacheAssumption
<1>1. now \in Nat /\ entry \in Snapshots \cup {None} /\ None \notin Snapshots
  BY DEF CacheInv, TypeOK, Snapshots
<1>2. ASSUME entry' = entry, now' = now \/ now' = now + 1, has_servable_snapshot'
      PROVE  has_servable_snapshot
  <2>1. /\ entry # None /\ entry.keys # {} /\ now' - entry.at < servable_max_age
        /\ entry.at \in Nat /\ servable_max_age \in Nat
    BY <1>1, <1>2 DEF has_servable_snapshot, Elapsed, servable_max_age, Snapshots
  <2>2. now - entry.at < servable_max_age
    BY <1>1, <1>2, <2>1
  <2> QED BY <2>1, <2>2 DEF has_servable_snapshot, Elapsed
<1>3. CASE CheckEnds
  <2>1. entry' = entry /\ now' = now
    BY <1>3 DEF CheckEnds, vars, cacheVars
  <2>2. dismissed' => ~has_servable_snapshot
    BY <1>3 DEF CheckEnds, Conclude
  <2> QED BY <1>2, <2>1, <2>2 DEF DismissedOK
<1>4. CASE Beside
  <2>1. dismissed' => dismissed /\ entry' = entry
    BY <1>4 DEF Beside
  <2>2. now' = now \/ now' = now + 1
    BY <1>4 DEF Beside, Next, Tick, Publish, Withdraw, PublicKey, Reply, Step, LockGranted,
                FetchStored, FetchFailed
  <2> QED BY <1>2, <2>1, <2>2 DEF DismissedOK
<1>5. CASE ~CheckEnds /\ ~Beside
  <2>1. dismissed' = dismissed /\ entry' = entry /\ now' = now
    BY <1>5 DEF ReadyNext, ProbeStep, ProbeArrives, Connect, Ping, StoreTurns, readyVars,
                probeVars, vars, cacheVars
  <2> QED BY <1>2, <2>1 DEF DismissedOK
<1> QED BY <1>3, <1>4, <1>5

(* The guarantees of the cache hold with a probe running beside it, and a
   dismissed snapshot stays unusable. *)
THEOREM ReadyCorrect == ReadySpec => [](CacheInv /\ DismissedOK)
<1>1. ReadyInit => CacheInv /\ DismissedOK
  BY CacheInit DEF ReadyInit, DismissedOK
<1>2. CacheInv /\ DismissedOK /\ [ReadyNext]_readyVars => (CacheInv /\ DismissedOK)'
  BY CacheUndisturbed, CacheStep, DismissedStep
<1> QED BY <1>1, <1>2, PTL DEF ReadySpec

(* readyz and public_key judge the snapshot by one age: no verification is
   served from a snapshot that a probe called unusable. *)
THEOREM DismissalHolds == ReadySpec => DismissedForGood
<1>1. ASSUME CacheInv, DismissedOK, [ReadyNext]_readyVars, NEW r \in Requests,
             Answered(r), result'[r] \in {"hit", "stale"}
      PROVE  ~dismissed
  <2> USE CacheAssumption
  <2>0. result \in [Requests -> Served \cup Refused \cup {"none"}]
    BY <1>1 DEF CacheInv, TypeOK
  <2>1. PublicKey(r) \/ LockGranted(r) \/ FetchStored(r) \/ FetchFailed(r)
    BY <1>1, CacheUndisturbed, WhoAnswers
  <2>2. \E k \in Kids \cup {None} : lookup_fresh(k) \/ lookup_stale(k)
    <3>0. kid \in [Requests -> Kids \cup {None}]
      BY <1>1 DEF CacheInv, TypeOK
    <3>1. CASE PublicKey(r)
      BY <1>1, <2>0, <3>1 DEF PublicKey, Answer, Answered
    <3>2. CASE LockGranted(r)
      <4>1. Outcome(kid[r]) # "trip" /\ result'[r] = Outcome(kid[r])
        BY <1>1, <2>0, <3>2 DEF LockGranted, Answer, Answered
      <4>2. lookup_fresh(kid[r]) \/ lookup_stale(kid[r])
        BY <1>1, <4>1 DEF Outcome, ServedThrottled
      <4> QED BY <3>0, <4>2
    <3>3. CASE FetchStored(r)
      BY <1>1, <2>0, <3>3 DEF FetchStored, Answer
    <3>4. CASE FetchFailed(r)
      BY <1>1, <2>0, <3>0, <3>4 DEF FetchFailed, Answer
    <3> QED BY <2>1, <3>1, <3>2, <3>3, <3>4
  <2>3. ASSUME NEW k, lookup_fresh(k) \/ lookup_stale(k) PROVE has_servable_snapshot
    <3>1. entry # None /\ k \in entry.keys /\ entry.at \in Nat /\ now \in Nat
      BY <1>1, <2>3 DEF CacheInv, TypeOK, Snapshots, lookup_fresh, lookup_stale, cache_is_fresh
    <3>2. now - entry.at < servable_max_age
      BY <1>1, <2>3, <3>1 DEF lookup_fresh, lookup_stale, cache_is_fresh, Elapsed,
                              servable_max_age, CacheInv, SnapshotOK
    <3> QED BY <3>1, <3>2 DEF has_servable_snapshot, Elapsed
  <2> QED BY <1>1, <2>2, <2>3 DEF DismissedOK
<1>2. CacheInv /\ DismissedOK /\ [ReadyNext]_readyVars =>
        [\A r \in Requests : Answered(r) /\ result'[r] \in {"hit", "stale"} => ~dismissed]_readyVars
  BY <1>1
<1> QED BY <1>2, ReadyCorrect, PTL DEF ReadySpec, DismissedForGood

(* How long a pod may call itself ready on the strength of its memory. *)
THEOREM DegradedBounded == ReadySpec => OutageReadinessBounded
<1>1. ASSUME CacheInv, [ReadyNext]_readyVars, SaysDegraded
      PROVE  \E k \in Kids : SeenLately(k)
  <2>1. CASE CheckEnds
    <3>1. has_servable_snapshot
      BY <1>1, <2>1 DEF CheckEnds, Conclude, SaysDegraded
    <3>2. PICK k \in entry.keys : TRUE
      BY <3>1 DEF has_servable_snapshot
    <3>3. k \in Kids /\ lookup_stale(k)
      BY <1>1, <3>1, <3>2, CacheAssumption
      DEF has_servable_snapshot, lookup_stale, CacheInv, TypeOK, Snapshots
    <3>4. lastSeen[k] # 0 /\ now < lastSeen[k] + Timeout + servable_max_age
      BY <1>1, <3>3, ServedFromSnapshot
    <3> QED BY <3>3, <3>4 DEF SeenLately
  <2>2. CASE ~CheckEnds
    BY <1>1, <2>2 DEF ReadyNext, ProbeStep, ProbeArrives, Connect, Ping, PingEnds, Beside,
                      StoreTurns, readyVars, probeVars, SaysDegraded
  <2> QED BY <2>1, <2>2
<1>2. CacheInv /\ [ReadyNext]_readyVars =>
        [SaysDegraded => \E k \in Kids : SeenLately(k)]_readyVars
  BY <1>1
<1> QED BY <1>2, ReadyCorrect, PTL DEF ReadySpec, OutageReadinessBounded
=============================================================================
