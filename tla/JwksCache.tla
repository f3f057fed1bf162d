----------------------------- MODULE JwksCache -----------------------------
(***************************************************************************)
(* The public key cache of the key service client (jwk.rs) under           *)
(* concurrent verifications: a snapshot with a TTL, single-flight refresh  *)
(* behind a lock, throttling of refreshes, and stale snapshots during an   *)
(* outage.                                                                 *)
(*                                                                         *)
(* Only the holder of refresh_lock writes the cache, and the code between  *)
(* two awaits is far shorter than a second: one action is the code from    *)
(* one await to the next, at one reading of the clock.                     *)
(***************************************************************************)
EXTENDS Naturals, Sequences

CONSTANTS
    Requests,       \* calls of public_key
    Kids,           \* key ids
    Ttl,            \* JWKS_CACHE_TTL_SECONDS
    MissRefresh,    \* JWKS_CACHE_MISS_REFRESH_SECONDS
    StaleGrace,     \* JWKS_CACHE_STALE_GRACE_SECONDS
    Timeout,        \* JWKS_REQUEST_TIMEOUT_MS, in seconds
    MaxTime,        \* bound on the clock
    None            \* an absent value

ASSUME CacheAssumption ==
    /\ Ttl \in Nat
    /\ MissRefresh \in Nat
    /\ StaleGrace \in Nat
    /\ Timeout \in Nat
    /\ MaxTime \in Nat
    /\ None \notin Requests
    /\ None \notin Nat
    /\ None \notin [keys : SUBSET Kids, at : Nat]

VARIABLES
    now,            \* the monotonic clock, in seconds
    \* the key service (external)
    published,      \* the kids it publishes
    \* CacheState
    entry,          \* the last snapshot [keys, at], or None
    last_attempt,   \* the last trip, or None
    last_failure,   \* the last failed trip, None after a successful one
    \* refresh_lock: a fair asynchronous mutex
    holder,         \* who holds it, or None
    queue,          \* who waits for it, in order
    \* the requests
    pc, kid,
    sent,           \* when its trip to the key service began
    body,           \* the answer to that trip on its way back
    result,
    \* history
    lastSeen,       \* when a kid was last published
    since           \* since when it has been published, 0 when it is not

cacheVars   == <<entry, last_attempt, last_failure>>
serviceVars == <<published, lastSeen, since>>
vars == <<now, serviceVars, cacheVars, holder, queue, pc, kid, sent, body, result>>

Snapshots == [keys : SUBSET Kids, at : Nat]
Served    == {"hit", "stale", "fetched"}
Refused   == {"not_found", "error"}

TypeOK ==
    /\ now \in Nat
    /\ published \subseteq Kids
    /\ entry \in Snapshots \cup {None}
    /\ last_attempt \in Nat \cup {None}
    /\ last_failure \in Nat \cup {None}
    /\ holder \in Requests \cup {None}
    /\ queue \in Seq(Requests)
    /\ pc \in [Requests -> {"idle", "wait", "trip", "done"}]
    /\ kid \in [Requests -> Kids \cup {None}]
    /\ sent \in [Requests -> Nat]
    /\ body \in [Requests -> (SUBSET Kids) \cup {None}]
    /\ result \in [Requests -> Served \cup Refused \cup {"none"}]
    /\ lastSeen \in [Kids -> Nat]
    /\ since \in [Kids -> Nat]

Init ==
    /\ now = 1
    /\ published \in SUBSET Kids
    /\ entry = None
    /\ last_attempt = None
    /\ last_failure = None
    /\ holder = None
    /\ queue = <<>>
    /\ pc = [r \in Requests |-> "idle"]
    /\ kid = [r \in Requests |-> None]
    /\ sent = [r \in Requests |-> 0]
    /\ body = [r \in Requests |-> None]
    /\ result = [r \in Requests |-> "none"]
    /\ lastSeen = [k \in Kids |-> IF k \in published THEN 1 ELSE 0]
    /\ since = [k \in Kids |-> IF k \in published THEN 1 ELSE 0]

-----------------------------------------------------------------------------
(* Reading the cache *)

Elapsed(at) == now - at

(* With a zero TTL the cache is off, the grace included. *)
servable_max_age == IF Ttl = 0 THEN 0 ELSE Ttl + StaleGrace

(* Mutated: the grace is not bounded. *)
lookup_stale_NoLimit(k) == entry # None /\ k \in entry.keys

(* Mutated: the throttle never ends. *)
allow_refresh_on_miss_Never == last_attempt = None

cache_is_fresh      == entry # None /\ Elapsed(entry.at) < Ttl
lookup_fresh(k)     == cache_is_fresh /\ k \in entry.keys
lookup_stale(k)     == /\ entry # None
                       /\ Elapsed(entry.at) < servable_max_age
                       /\ k \in entry.keys

refresh_recently_failed == last_failure # None /\ Elapsed(last_failure) < MissRefresh
allow_refresh_on_miss   == last_attempt = None \/ Elapsed(last_attempt) >= MissRefresh

-----------------------------------------------------------------------------
Answer(r, res) ==
    /\ pc' = [pc EXCEPT ![r] = "done"]
    /\ result' = [result EXCEPT ![r] = res]

(* What a trip kept in flight is gone when it ends. *)
EndTrip(r) ==
    /\ sent' = [sent EXCEPT ![r] = 0]
    /\ body' = [body EXCEPT ![r] = None]

(* A verification asks for the key k: a hit never touches the lock. *)
PublicKey(r) ==
    /\ pc[r] = "idle"
    /\ \E k \in Kids :
         /\ kid' = [kid EXCEPT ![r] = k]
         /\ \/ /\ lookup_fresh(k)
               /\ Answer(r, "hit")
               /\ UNCHANGED queue
            \/ /\ ~lookup_fresh(k)
               /\ pc' = [pc EXCEPT ![r] = "wait"]
               /\ queue' = Append(queue, r)
               /\ UNCHANGED result
    /\ UNCHANGED <<now, serviceVars, cacheVars, holder, sent, body>>

(* What the holder of the lock decides before any trip. *)
ServedThrottled(k) == ~allow_refresh_on_miss /\ refresh_recently_failed /\ lookup_stale(k)
RefusedThrottled(k) ==
    ~allow_refresh_on_miss /\ ~ServedThrottled(k) /\ cache_is_fresh

(* Mutated: the label of the metric is returned. *)
Outcome_Label(k) ==
    IF lookup_fresh(k) THEN "hit"
    ELSE IF ServedThrottled(k) THEN "stale"
    ELSE IF RefusedThrottled(k) THEN "throttled" ELSE "trip"

(* Mutated: no second look at the cache once the lock is there. *)
Outcome_NoRecheck(k) ==
    IF ServedThrottled(k) THEN "stale"
    ELSE IF RefusedThrottled(k) THEN "not_found" ELSE "trip"

Outcome(k) ==
    IF lookup_fresh(k) THEN "hit"
    ELSE IF ServedThrottled(k) THEN "stale"
    ELSE IF RefusedThrottled(k) THEN "not_found" ELSE "trip"

(* Mutated: misses do not wait for each other. *)
LockGranted_NotHeld(r) ==
    /\ queue # <<>> /\ r = Head(queue)
    /\ queue' = Tail(queue)
    /\ LET out == Outcome(kid[r]) IN
       \/ /\ out = "trip"
          /\ last_attempt' = now
          /\ pc' = [pc EXCEPT ![r] = "trip"]
          /\ sent' = [sent EXCEPT ![r] = now]
          /\ UNCHANGED result
       \/ /\ out # "trip"
          /\ Answer(r, out)
          /\ UNCHANGED <<last_attempt, sent>>
    /\ UNCHANGED <<now, serviceVars, entry, last_failure, holder, kid, body>>

(* The lock is granted to the first in line.  It is released at once unless a
   trip is needed; allow_refresh_on_miss and fetch_and_store both record the
   attempt before the request leaves. *)
LockGranted(r) ==
    /\ holder = None
    /\ queue # <<>> /\ r = Head(queue)
    /\ queue' = Tail(queue)
    /\ LET out == Outcome(kid[r]) IN
       \/ /\ out = "trip"
          /\ holder' = r
          /\ last_attempt' = now
          /\ pc' = [pc EXCEPT ![r] = "trip"]
          /\ sent' = [sent EXCEPT ![r] = now]
          /\ UNCHANGED result
       \/ /\ out # "trip"
          /\ Answer(r, out)
          /\ UNCHANGED <<holder, last_attempt, sent>>
    /\ UNCHANGED <<now, serviceVars, entry, last_failure, kid, body>>

(* fetch_and_store got the list: the snapshot is dated when it is stored. *)
FetchStored(r) ==
    /\ pc[r] = "trip"
    /\ body[r] # None
    /\ entry' = [keys |-> body[r], at |-> now]
    /\ last_failure' = None
    /\ holder' = None
    /\ Answer(r, IF kid[r] \in body[r] THEN "fetched" ELSE "not_found")
    /\ EndTrip(r)
    /\ UNCHANGED <<now, serviceVars, last_attempt, queue, kid>>

(* Mutated: the lock is not given back. *)
FetchFailed_LockKept(r) ==
    /\ pc[r] = "trip"
    /\ last_failure' = now
    /\ Answer(r, IF lookup_stale(kid[r]) THEN "stale" ELSE "error")
    /\ EndTrip(r)
    /\ UNCHANGED <<now, serviceVars, entry, last_attempt, holder, queue, kid>>

(* The trip failed - no connection, a timeout, an unreadable answer. *)
FetchFailed(r) ==
    /\ pc[r] = "trip"
    /\ last_failure' = now
    /\ holder' = None
    /\ Answer(r, IF lookup_stale(kid[r]) THEN "stale" ELSE "error")
    /\ EndTrip(r)
    /\ UNCHANGED <<now, serviceVars, entry, last_attempt, queue, kid>>

-----------------------------------------------------------------------------
(* The key service, and time *)

(* The key service reads its list; the answer is on its way. *)
Reply(r) ==
    /\ pc[r] = "trip"
    /\ body[r] = None
    /\ body' = [body EXCEPT ![r] = published]
    /\ UNCHANGED <<now, serviceVars, cacheVars, holder, queue, pc, kid, sent, result>>

Publish(k) ==
    /\ k \notin published
    /\ published' = published \cup {k}
    /\ since' = [since EXCEPT ![k] = now]
    /\ lastSeen' = [lastSeen EXCEPT ![k] = now]
    /\ UNCHANGED <<now, cacheVars, holder, queue, pc, kid, sent, body, result>>

Withdraw(k) ==
    /\ k \in published
    /\ published' = published \ {k}
    /\ since' = [since EXCEPT ![k] = 0]
    /\ UNCHANGED <<now, lastSeen, cacheVars, holder, queue, pc, kid, sent, body, result>>

(* A second passes; no trip outlives its timeout. *)
Tick ==
    /\ now < MaxTime
    /\ \A r \in Requests : pc[r] = "trip" => now < sent[r] + Timeout
    /\ now' = now + 1
    /\ lastSeen' = [k \in Kids |-> IF k \in published THEN now + 1 ELSE lastSeen[k]]
    /\ UNCHANGED <<published, since, cacheVars, holder, queue, pc, kid, sent, body, result>>

Step(r) == LockGranted(r) \/ FetchStored(r) \/ FetchFailed(r)

Next ==
    \/ Tick
    \/ \E k \in Kids : Publish(k) \/ Withdraw(k)
    \/ \E r \in Requests : PublicKey(r) \/ Reply(r) \/ Step(r)

Spec == Init /\ [][Next]_vars

(* Handlers are polled until they end, the lock is fair, and a trip ends at
   the latest with its timeout. *)
FairSpec == Spec /\ \A r \in Requests : WF_vars(Step(r))

-----------------------------------------------------------------------------
(***************************************************************************)
(* The inductive invariant the proofs rest on                              *)
(***************************************************************************)
ClockOK ==
    /\ now # 0
    /\ \A k \in published : lastSeen[k] = now
    /\ last_attempt # None => last_attempt <= now

(* The keys of a snapshot were published not longer than a trip before it was
   stored. *)
SnapshotOK ==
    entry # None =>
      /\ entry.at <= now
      /\ \A k \in entry.keys : lastSeen[k] # 0 /\ entry.at <= lastSeen[k] + Timeout

(* There is one trip at a time, and the answer on its way back is what was
   published at some moment since it began. *)
TripOK(r) ==
    /\ pc[r] # "trip" => body[r] = None
    /\ pc[r] = "trip" =>
         /\ holder = r
         /\ last_attempt = sent[r]
         /\ now <= sent[r] + Timeout
         /\ body[r] # None =>
              /\ \A k \in body[r] : lastSeen[k] # 0 /\ sent[r] <= lastSeen[k]
              /\ \A k \in published \ body[r] : sent[r] <= since[k]

(* Between trips, if the last one succeeded, the snapshot is its answer. *)
SettledOK ==
    holder = None /\ last_failure = None /\ last_attempt # None =>
      /\ entry # None
      /\ last_attempt <= entry.at
      /\ \A k \in published \ entry.keys : last_attempt <= since[k]

CacheInv ==
    TypeOK /\ ClockOK /\ SnapshotOK /\ (\A r \in Requests : TripOK(r)) /\ SettledOK

-----------------------------------------------------------------------------
(***************************************************************************)
(* Properties                                                              *)
(***************************************************************************)
Answered(r) == result[r] = "none" /\ result'[r] # "none"

(* A key that is handed to a verification was still published not longer ago
   than one trip plus the servable age of a snapshot: the price of the cache
   and of its grace for a withdrawn key is bounded, whatever trips fail. *)
StalenessBounded ==
    [][\A r \in Requests : Answered(r) /\ result'[r] \in Served =>
         LET seen == lastSeen[kid'[r]] + Timeout IN
         seen # Timeout /\ (now <= seen \/ now < seen + servable_max_age)]_vars

(* No verification is refused for want of a key that a servable snapshot
   holds: neither a failed trip, nor the throttle, nor waiting for the lock
   loses a key that is in memory. *)
NoNeedlessRefusal ==
    [][\A r \in Requests : Answered(r) /\ result'[r] \in Refused =>
         ~lookup_stale(kid[r])']_vars

(* A key that has been published for longer than one throttle interval (or one
   trip) is refused only while the last trip is a failed one. *)
NewKeyFound ==
    [][\A r \in Requests :
         Answered(r) /\ result'[r] = "not_found" /\ last_failure' = None =>
           LET k == kid[r] IN
           \/ k \notin published
           \/ now < since[k] + MissRefresh
           \/ now <= since[k] + Timeout]_vars

(* As long as trips succeed, two of them begin at least a throttle interval,
   or the TTL if that is shorter, apart - however many requests miss. *)
TripsSpaced ==
    [][\A r \in Requests :
         pc[r] # "trip" /\ pc'[r] = "trip" /\ last_attempt # None /\ last_failure = None =>
           now >= last_attempt + MissRefresh \/ now >= last_attempt + Ttl]_vars

(* Every lookup is answered: nobody waits for the lock forever. *)
EveryLookupAnswered == \A r \in Requests : pc[r] # "idle" ~> pc[r] = "done"
=============================================================================
