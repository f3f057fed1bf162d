----------------------------- MODULE FrontDoor -----------------------------
(***************************************************************************)
(* What a request meets before its handler: the middleware configure_api   *)
(* (main.rs) wraps around each endpoint - CORS, the limits of              *)
(* rate_limit.rs, the access levels of auth.rs - in the order it wraps     *)
(* them.                                                                   *)
(*                                                                         *)
(* Between two awaits the layers run as one step.  Only the claim of a     *)
(* one-time code is awaited, so a call of an internal endpoint is two      *)
(* steps and any other call is one.  How a code is computed and accepted   *)
(* is in AccessControl; here a code is good while it has not been claimed. *)
(***************************************************************************)
EXTENDS ClientAddress, FiniteSets

CONSTANTS
    Requests,
    Shapes,             \* the requests clients send
    Codes,              \* valid one-time codes
    Trusted,            \* RATE_LIMIT_TRUSTED_PROXIES, parsed
    Settings,           \* which optional parts an installation turns on
    VerifyPerSecond, VerifyBurst,       \* RATE_LIMIT_VERIFY_*
    InternalPerSecond, InternalBurst,   \* RATE_LIMIT_INTERNAL_*
    Second,             \* units of time in a second (10^9)
    MaxTime,            \* bound on the clock
    Cap                 \* the key of the one bucket of the internal endpoints

Internal  == {"/tokens", "/tokens/refresh", "/tokens/{jti}", "/subjects/{sub}/tokens"}
Open      == {"/livez", "/readyz", "/api-docs/openapi.json"}
Paths     == Internal \cup Open \cup {"/tokens/verify", "/metrics"}
Creds     == Codes \cup {"right", "wrong"}
ShapeType == [path : Paths, preflight : BOOLEAN, peer : Addresses \cup {NoAddr},
              xff : Seq([form : Forms, addr : Addresses]), cred : Creds]

(* A request that has not been sent. *)
NoShape == [path |-> "none", preflight |-> FALSE, peer |-> NoAddr, xff |-> <<>>,
            cred |-> "wrong"]

ClientKeys == {group_v6(canonical(a)) : a \in Addresses}
Keys       == ClientKeys \cup {Cap}

AtLeastOne(n) == IF n = 0 THEN 1 ELSE n

(* quota: both values are raised to 1.  More refills in a second than units of
   time would make the period zero, and build_verify or build_internal panic. *)
quota(per_second, burst) ==
    [period |-> Second \div AtLeastOne(per_second), burst |-> AtLeastOne(burst)]

VerifyQuota   == quota(VerifyPerSecond, VerifyBurst)
InternalQuota == quota(InternalPerSecond, InternalBurst)
QuotaOf(k)    == IF k = Cap THEN InternalQuota ELSE VerifyQuota
Period        == [k \in Keys |-> QuotaOf(k).period]
Burst         == [k \in Keys |-> QuotaOf(k).burst]
Full(k)       == Burst[k] * Period[k]

ASSUME DoorAssumption ==
    /\ Second \in Nat \ {0}
    /\ VerifyPerSecond \in 0 .. Second /\ InternalPerSecond \in 0 .. Second
    /\ VerifyBurst \in Nat /\ InternalBurst \in Nat
    /\ MaxTime \in Nat
    /\ Shapes \subseteq ShapeType
    /\ Settings \subseteq [verify : BOOLEAN, internal : BOOLEAN, metrics : BOOLEAN,
                           replay : BOOLEAN]
    /\ Cap \notin ClientKeys \cup {NoAddr}
    /\ "right" \notin Codes /\ "wrong" \notin Codes

VARIABLES
    now,        \* the monotonic clock of the limiters
    setting,    \* RATE_LIMIT_VERIFY_ENABLED, RATE_LIMIT_INTERNAL_ENABLED,
                \* AUTH_METRICS_TOKEN, AUTH_TOTP_REPLAY_PROTECTION
    tat,        \* the state of the limiters: per key when its bucket is full
                \* again; 0 when there is no entry
    claimed,    \* the codes claimed in the store
    pc,
    shape,      \* what a request is
    answer,     \* "none", "429", "401", "404", "cors" or "handled"
    retry,      \* Retry-After of a 429
    \* history
    bucket,     \* the key a request was charged to or refused by, or NoAddr
    checked,    \* its credential was compared with a secret
    at          \* when its limiter decided

requestVars == <<pc, shape, answer, retry, bucket, checked, at>>
vars == <<now, setting, tat, claimed, requestVars>>

TypeOK ==
    /\ now \in Nat \ {0}
    /\ setting \in Settings
    /\ tat \in [Keys -> Nat]
    /\ claimed \subseteq Codes
    /\ pc \in [Requests -> {"idle", "claim", "done"}]
    /\ shape \in [Requests -> Shapes \cup {NoShape}]
    /\ answer \in [Requests -> {"none", "429", "401", "404", "cors", "handled"}]
    /\ retry \in [Requests -> Nat]
    /\ bucket \in [Requests -> Keys \cup {NoAddr}]
    /\ checked \in [Requests -> BOOLEAN]
    /\ at \in [Requests -> Nat]

Init ==
    /\ now = 1
    /\ setting \in Settings
    /\ tat = [k \in Keys |-> 0]
    /\ claimed = {}
    /\ pc = [r \in Requests |-> "idle"]
    /\ shape = [r \in Requests |-> NoShape]
    /\ answer = [r \in Requests |-> "none"]
    /\ retry = [r \in Requests |-> 0]
    /\ bucket = [r \in Requests |-> NoAddr]
    /\ checked = [r \in Requests |-> FALSE]
    /\ at = [r \in Requests |-> 0]

-----------------------------------------------------------------------------
(* The limiters *)

Later(a, b) == IF a < b THEN b ELSE a

(* governor: the bucket of k holds a token. *)
Allowed(k) == Later(tat[k], now) + Period[k] <= now + Full(k)

TakeToken(k) == tat' = [tat EXCEPT ![k] = Later(@, now) + Period[k]]

(* Mutated: whole seconds, and zero is a value like any other. *)
retry_after_secs_Zero(k) == (tat[k] + Period[k] - Full(k) - now) \div Second

(* Mutated: the two instants are swapped. *)
retry_after_secs_Swapped(k) == AtLeastOne((now + Full(k) - tat[k] - Period[k]) \div Second)

(* What is left of the wait in whole seconds, but at least one. *)
retry_after_secs(k) == AtLeastOne((tat[k] + Period[k] - Full(k) - now) \div Second)

Conclude(r, a) ==
    /\ pc' = [pc EXCEPT ![r] = "done"]
    /\ answer' = [answer EXCEPT ![r] = a]

NotLimited == UNCHANGED <<tat, retry, bucket, at>>

(* Strategy::check and the middleware around it: 429 with Retry-After, or what
   the service inside answers. *)
Limit(r, k, inner) ==
    /\ bucket' = [bucket EXCEPT ![r] = k]
    /\ at' = [at EXCEPT ![r] = now]
    /\ \/ /\ Allowed(k)
          /\ TakeToken(k)
          /\ Conclude(r, inner)
          /\ UNCHANGED retry
       \/ /\ ~Allowed(k)
          /\ Conclude(r, "429")
          /\ retry' = [retry EXCEPT ![r] = retry_after_secs(k)]
          /\ UNCHANGED tat

(* Mutated: everything older than half a refill of the bucket is dropped. *)
Sweep_Early ==
    /\ setting.verify
    /\ tat' = [k \in Keys |-> IF k # Cap /\ tat[k] <= now + Full(k) \div 2 THEN 0 ELSE tat[k]]
    /\ UNCHANGED <<now, setting, claimed, requestVars>>

(* spawn_cleanup: retain_recent drops the addresses whose bucket is full, some
   time or other. *)
Sweep ==
    /\ setting.verify
    /\ tat' = [k \in Keys |-> IF k # Cap /\ tat[k] <= now THEN 0 ELSE tat[k]]
    /\ UNCHANGED <<now, setting, claimed, requestVars>>

-----------------------------------------------------------------------------
(* The endpoints, from the outermost layer in *)

(* CORS answers a preflight before any limit or credential is looked at. *)
Preflight(r, sh) ==
    /\ pc[r] = "idle" /\ sh.preflight
    /\ shape' = [shape EXCEPT ![r] = sh]
    /\ Conclude(r, "cors")
    /\ NotLimited
    /\ UNCHANGED <<now, setting, claimed, checked>>

(* The call sh arrives at an endpoint of the group g. *)
Arrives(r, sh, g) ==
    /\ pc[r] = "idle" /\ ~sh.preflight /\ sh.path \in g
    /\ shape' = [shape EXCEPT ![r] = sh]

ClientKey(sh) == resolve_key_ip(sh.peer, sh.xff, Trusted)

Admission(sh) == IF sh.cred = "right" THEN "handled" ELSE "401"

(* /tokens/verify: the limit of the address, then the proxy secret.  Without a
   peer address the limit lets everything through. *)
CallVerify(r, sh) ==
    /\ Arrives(r, sh, {"/tokens/verify"})
    /\ IF setting.verify /\ ClientKey(sh) # NoAddr
       THEN /\ Limit(r, ClientKey(sh), Admission(sh))
            /\ checked' = [checked EXCEPT ![r] = Allowed(ClientKey(sh))]
       ELSE /\ Conclude(r, Admission(sh))
            /\ NotLimited
            /\ checked' = [checked EXCEPT ![r] = TRUE]
    /\ UNCHANGED <<now, setting, claimed>>

(* The cap, when it is on, and the handler. *)
Capped(r) ==
    IF setting.internal THEN Limit(r, Cap, "handled")
    ELSE Conclude(r, "handled") /\ NotLimited

(* Mutated: the cap is outside of the one-time code. *)
CallInternal_CapFirst(r, sh) ==
    /\ Arrives(r, sh, Internal)
    /\ checked' = [checked EXCEPT ![r] = TRUE]
    /\ \/ sh.cred \notin Codes /\ setting.internal /\ Limit(r, Cap, "401")
       \/ sh.cred \notin Codes /\ ~setting.internal /\ Conclude(r, "401") /\ NotLimited
       \/ sh.cred \in Codes /\ Capped(r)
    /\ UNCHANGED <<now, setting, claimed>>

(* An internal endpoint: the one-time code first; a code that does not validate
   is neither claimed nor charged to the cap. *)
CallInternal(r, sh) ==
    /\ Arrives(r, sh, Internal)
    /\ checked' = [checked EXCEPT ![r] = TRUE]
    /\ \/ sh.cred \notin Codes /\ Conclude(r, "401") /\ NotLimited
       \/ sh.cred \in Codes /\ ~setting.replay /\ Capped(r)
       \/ /\ sh.cred \in Codes /\ setting.replay
          /\ pc' = [pc EXCEPT ![r] = "claim"]
          /\ UNCHANGED answer
          /\ NotLimited
    /\ UNCHANGED <<now, setting, claimed>>

(* claim_totp_code is answered: a replay is turned away, a store error lets
   through, and the cap decides about the rest - the code stays claimed when it
   refuses. *)
Claimed(r) ==
    /\ pc[r] = "claim"
    /\ \/ /\ shape[r].cred \in claimed
          /\ Conclude(r, "401") /\ NotLimited
          /\ UNCHANGED claimed
       \/ /\ shape[r].cred \notin claimed
          /\ claimed' = claimed \cup {shape[r].cred}
          /\ Capped(r)
       \/ Capped(r) /\ UNCHANGED claimed
    /\ UNCHANGED <<now, setting, shape, checked>>

(* /metrics is there only with a token; otherwise the open scope answers. *)
CallMetrics(r, sh) ==
    /\ Arrives(r, sh, {"/metrics"})
    /\ Conclude(r, IF setting.metrics THEN Admission(sh) ELSE "404")
    /\ checked' = [checked EXCEPT ![r] = setting.metrics]
    /\ NotLimited
    /\ UNCHANGED <<now, setting, claimed>>

CallOpen(r, sh) ==
    /\ Arrives(r, sh, Open)
    /\ Conclude(r, "handled")
    /\ NotLimited
    /\ UNCHANGED <<now, setting, claimed, checked>>

Tick ==
    /\ now < MaxTime
    /\ now' = now + 1
    /\ UNCHANGED <<setting, tat, claimed, requestVars>>

Next ==
    \/ Tick \/ Sweep
    \/ \E r \in Requests :
         \/ Claimed(r)
         \/ \E sh \in Shapes :
              \/ Preflight(r, sh) \/ CallVerify(r, sh) \/ CallInternal(r, sh)
              \/ CallMetrics(r, sh) \/ CallOpen(r, sh)

Spec == Init /\ [][Next]_vars

-----------------------------------------------------------------------------
(***************************************************************************)
(* The limiters implement the token bucket                                 *)
(***************************************************************************)
Owed(k) == IF now < tat[k] THEN tat[k] - now ELSE 0

RulingOf(r) == IF answer[r] = "429" THEN "refused"
               ELSE IF bucket[r] # NoAddr THEN "admitted" ELSE "none"

Credit == [k \in Keys |-> Full(k) - Owed(k)]
Ruling == [r \in Requests |-> RulingOf(r)]

Bucket == INSTANCE TokenBucket WITH credit <- Credit, ruling <- Ruling

(* Every limiter is a token bucket ("a token bucket (GCRA)", rate_limit.rs):
   arrival times that are swept out of memory, and one table for all addresses,
   change no decision. *)
LimiterIsTokenBucket == Bucket!Spec

(* No bucket owes more than it holds. *)
DebtOK == \A k \in Keys : tat[k] <= now + Full(k)

(* A request meets one limiter, and its answer is the last it hears. *)
DoneOK(r) ==
    /\ pc[r] # "done" => answer[r] = "none"
    /\ answer[r] = "none" => bucket[r] = NoAddr

(* As long as nothing is taken after a refusal, what the bucket owed then is all
   it owes. *)
RefusedOK(r) ==
    answer[r] = "429" =>
      /\ bucket[r] \in Keys /\ at[r] <= now /\ retry[r] # 0
      /\ \/ tat[bucket[r]] <= at[r] + Full(bucket[r])
         \/ \E q \in Requests : bucket[q] = bucket[r] /\ answer[q] # "429" /\ at[q] > at[r]

(* Only a valid code is claimed. *)
ClaimOK == \A r \in Requests : pc[r] = "claim" => shape[r].cred \in Codes

DoorInv == TypeOK /\ DebtOK /\ \A r \in Requests : DoneOK(r) /\ RefusedOK(r)

-----------------------------------------------------------------------------
(***************************************************************************)
(* Properties                                                              *)
(***************************************************************************)
(* Requests that reached the proxy secret of /tokens/verify from one untrusted
   peer, decided upon between s and t. *)
Guesses(p, s, t) ==
    {r \in Requests :
       /\ shape[r].path = "/tokens/verify" /\ checked[r]
       /\ shape[r].peer # NoAddr /\ ~ip_is_trusted(canonical(shape[r].peer), Trusted)
       /\ group_v6(canonical(shape[r].peer)) = p
       /\ at[r] \in s .. t}

Untrusted == {a \in {canonical(sh.peer) : sh \in {x \in Shapes : x.peer # NoAddr}} :
                ~ip_is_trusted(a, Trusted)}

(* "a flood is cut off before the secret is checked" (rate_limit.rs): in no
   stretch of time does a peer that is no trusted proxy get more tries at the
   secret than the burst and the refill allow, whatever it writes into the
   forwarding header. *)
GuessesBounded ==
    setting.verify =>
      \A p \in {group_v6(a) : a \in Untrusted} : \A s, t \in 1 .. now : s <= t =>
        Cardinality(Guesses(p, s, t)) * Period[p] <= Full(p) + (t - s)

(* "an unauthenticated flood cannot drain the cap" (configure_api): when the
   cap refuses a request, a whole burst of requests with valid codes has been
   let through since the bucket could last have been full. *)
CapSpentByValidCodes ==
    \A r \in Requests : answer[r] = "429" /\ bucket[r] = Cap =>
      Cardinality({q \in Requests :
         /\ bucket[q] = Cap /\ answer[q] = "handled" /\ shape[q].cred \in Codes
         /\ at[q] <= at[r] /\ at[r] < at[q] + Full(Cap)}) >= Burst[Cap]

(* "Seconds until the next allowed request" (retry_after_secs): a client that
   waits as long as Retry-After says finds a token, unless another request of
   its bucket took one after the refusal. *)
RetryAfterSuffices ==
    \A r \in Requests :
      /\ answer[r] = "429"
      /\ now >= at[r] + retry[r] * Second
      /\ \A q \in Requests : bucket[q] = bucket[r] /\ answer[q] # "429" => at[q] <= at[r]
      => Allowed(bucket[r])
=============================================================================
