--------------------------- MODULE AccessControl ---------------------------
(***************************************************************************)
(* The access levels of the endpoints (auth.rs): what a replica accepts    *)
(* with the secrets it was started with, and the replay guard of one-time  *)
(* codes in the store that all replicas share.                             *)
(*                                                                         *)
(* A one-time code is named by the secret and the counter it was computed  *)
(* from; a fingerprint is a keyed hash, so two of them are equal when key  *)
(* and code are.  A code is checked when the request arrives and claimed   *)
(* in the store some time later.                                           *)
(***************************************************************************)
EXTENDS Integers, Sequences

CONSTANTS
    Requests,
    Replicas,
    Secrets,            \* TOTP secrets
    Envs,               \* environments replicas are started with
    Step,               \* AUTH_TOTP_STEP_SECONDS, raised to 1
    Skew,               \* AUTH_TOTP_SKEW_STEPS
    ReplayProtection,   \* AUTH_TOTP_REPLAY_PROTECTION
    Outcomes,           \* the outcomes a Redis command can have
    Timeout,            \* REDIS_RESPONSE_TIMEOUT_MS, in seconds
    MaxTime,            \* bound on the clock
    Malformed,          \* the value of a variable that is not base32
    None                \* an absent value

(* proxy, metrics: AUTH_PROXY_SECRET and AUTH_METRICS_TOKEN are set and not
   empty. *)
EnvType == [proxy : BOOLEAN, metrics : BOOLEAN,
            totp : Secrets \cup {Malformed, None}, next : Secrets \cup {Malformed, None}]

ASSUME AccessAssumption ==
    /\ Step \in Nat \ {0}
    /\ Skew \in Nat
    /\ Timeout \in Nat
    /\ MaxTime \in Nat
    /\ ReplayProtection \in BOOLEAN
    /\ Envs \subseteq EnvType
    /\ Outcomes \subseteq {"ok", "lost", "late"}
    /\ None \notin Secrets \cup Replicas /\ Malformed \notin Secrets

Levels   == {"open", "proxy_secret", "totp", "metrics_token"}
Counters == 0 .. (MaxTime \div Step) + Skew
Codes    == [secret : Secrets, counter : Counters]

(* What a request shows: nothing, the configured static secret of its level,
   another one, or a one-time code. *)
Right == [secret |-> None, counter |-> 1]
Wrong == [secret |-> None, counter |-> 0]
Blank == [secret |-> None, counter |-> -1]
Shown(l) == {Blank} \cup CASE l = "open" -> {}
                           [] l = "totp" -> Codes
                           [] OTHER -> {Right, Wrong}

Fingerprints == Secrets \X Codes

VARIABLES
    now,        \* wall-clock seconds
    config,     \* the AuthConfig of a replica; secrets is empty while it is down
    claimed,    \* totp:used:<fingerprint> -> the second it expires, 0 when absent
    pc,
    replica,    \* where a request is handled, None when it is not
    calledAt,   \* when its code was checked
    level,      \* the level of the route it calls
    cred,       \* what it shows
    hash,       \* the secret its fingerprint is keyed with
    verdict,    \* "none", "pass" or "401"
    \* history
    claimedAt,  \* when its claim was answered
    failedOpen  \* its claim failed and it was let through

requestVars == <<pc, replica, calledAt, level, cred, hash, verdict, claimedAt, failedOpen>>
vars == <<now, config, claimed, requestVars>>

ConfigType == [secrets : Seq(Secrets), metrics : BOOLEAN]

TypeOK ==
    /\ now \in Nat
    /\ config \in [Replicas -> ConfigType]
    /\ claimed \in [Fingerprints -> Nat]
    /\ pc \in [Requests -> {"idle", "claim", "done"}]
    /\ replica \in [Requests -> Replicas \cup {None}]
    /\ calledAt \in [Requests -> Nat]
    /\ level \in [Requests -> Levels]
    /\ cred \in [Requests -> Codes \cup {Right, Wrong, Blank}]
    /\ hash \in [Requests -> Secrets \cup {None}]
    /\ verdict \in [Requests -> {"none", "pass", "401"}]
    /\ claimedAt \in [Requests -> Nat]
    /\ failedOpen \in [Requests -> BOOLEAN]

-----------------------------------------------------------------------------
(* Starting a replica: AuthConfig::from_env *)

Down == [secrets |-> <<>>, metrics |-> FALSE]

Decoded(v)       == IF v \in Secrets THEN <<v>> ELSE <<>>
ActiveSecrets(e) == Decoded(e.totp) \o Decoded(e.next)

(* Mutated: a TOTP variable is used as it is. *)
from_env_Lenient(e) ==
    IF e.proxy /\ e.totp # None
    THEN [secrets |-> <<e.totp>>, metrics |-> e.metrics]
    ELSE Down

(* The process ends at once unless level 2 and level 3 are configured and no
   TOTP variable is malformed; the metrics token is optional. *)
from_env(e) ==
    IF e.proxy /\ Malformed \notin {e.totp, e.next} /\ ActiveSecrets(e) # <<>>
    THEN [secrets |-> ActiveSecrets(e), metrics |-> e.metrics]
    ELSE Down

Up(p) == config[p].secrets # <<>>

Init ==
    /\ now = 0
    /\ config \in [Replicas -> {from_env(e) : e \in Envs}]
    /\ claimed = [f \in Fingerprints |-> 0]
    /\ pc = [r \in Requests |-> "idle"]
    /\ replica = [r \in Requests |-> None]
    /\ calledAt = [r \in Requests |-> 0]
    /\ level = [r \in Requests |-> "open"]
    /\ cred = [r \in Requests |-> Blank]
    /\ hash = [r \in Requests |-> None]
    /\ verdict = [r \in Requests |-> "none"]
    /\ claimedAt = [r \in Requests |-> 0]
    /\ failedOpen = [r \in Requests |-> FALSE]

(* A replica is drained and started with another environment, as in a rotation
   of the secrets. *)
Restart(p) ==
    /\ \A r \in Requests : replica[r] # p
    /\ \E e \in Envs : config' = [config EXCEPT ![p] = from_env(e)]
    /\ UNCHANGED <<now, claimed, requestVars>>

-----------------------------------------------------------------------------
(* Checking a request: AuthConfig::authorize *)

(* TotpValidator::validate: the code of any active secret and of a counter not
   farther than Skew from the current one. *)
ValidateTotp(p, c) ==
    /\ \E i \in 1 .. Len(config[p].secrets) : c.secret = config[p].secrets[i]
    /\ now \div Step <= c.counter + Skew
    /\ c.counter <= now \div Step + Skew

(* Mutated: the shown token is compared with the configured Option. *)
ValidateMetrics_Option(p, c) ==
    IF config[p].metrics THEN c = Right ELSE c = Blank

ValidateMetrics(p, c) == config[p].metrics /\ c = Right

Authorize(p, l, c) ==
    CASE l = "open" -> TRUE
      [] l = "proxy_secret" -> c = Right
      [] l = "totp" -> c \in Codes /\ ValidateTotp(p, c)
      [] l = "metrics_token" -> ValidateMetrics(p, c)

(* TotpValidator::code_fingerprint: keyed with the first active secret. *)
FingerprintKey(p) == Head(config[p].secrets)

(* Mutated: the tolerance is counted in one direction only. *)
replay_window_seconds_OneSided == Step * (Skew + 1)

replay_window_seconds == Step * (2 * Skew + 1)

(* AuthMiddleware::call up to the first await: a code that does not validate is
   never claimed. *)
Call(r) ==
    /\ pc[r] = "idle"
    /\ \E p \in Replicas, l \in Levels : \E c \in Shown(l) :
         /\ Up(p)
         /\ level' = [level EXCEPT ![r] = l]
         /\ cred' = [cred EXCEPT ![r] = c]
         /\ LET authorized == Authorize(p, l, c)
                guarded    == authorized /\ l = "totp" /\ ReplayProtection IN
            \/ /\ guarded
               /\ pc' = [pc EXCEPT ![r] = "claim"]
               /\ replica' = [replica EXCEPT ![r] = p]
               /\ calledAt' = [calledAt EXCEPT ![r] = now]
               /\ hash' = [hash EXCEPT ![r] = FingerprintKey(p)]
               /\ UNCHANGED verdict
            \/ /\ ~guarded
               /\ pc' = [pc EXCEPT ![r] = "done"]
               /\ verdict' = [verdict EXCEPT ![r] = IF authorized THEN "pass" ELSE "401"]
               /\ UNCHANGED <<replica, calledAt, hash>>
    /\ UNCHANGED <<now, config, claimed, claimedAt, failedOpen>>

Fingerprint(r) == <<hash[r], cred[r]>>

(* SET NX EX of the fingerprint. *)
SetNX(f) ==
    claimed' = [claimed EXCEPT ![f] = IF @ = 0 THEN now + replay_window_seconds ELSE @]

Finish(r, v, open) ==
    /\ pc' = [pc EXCEPT ![r] = "done"]
    /\ replica' = [replica EXCEPT ![r] = None]
    /\ calledAt' = [calledAt EXCEPT ![r] = 0]
    /\ verdict' = [verdict EXCEPT ![r] = v]
    /\ claimedAt' = [claimedAt EXCEPT ![r] = now]
    /\ failedOpen' = [failedOpen EXCEPT ![r] = open]

(* Mutated: a store error closes the door. *)
ClaimTotpCode_FailClosed(r, o) ==
    /\ pc[r] = "claim"
    /\ LET f == Fingerprint(r) IN
       \/ o = "lost" /\ UNCHANGED claimed /\ Finish(r, "401", FALSE)
       \/ o = "late" /\ SetNX(f) /\ Finish(r, "401", FALSE)
       \/ /\ o = "ok" /\ SetNX(f)
          /\ Finish(r, IF claimed[f] = 0 THEN "pass" ELSE "401", FALSE)
    /\ UNCHANGED <<now, config, level, cred, hash>>

(* AuthMiddleware::call from claim_totp_code on; a store error lets the request
   through, whether Redis executed the command or not. *)
ClaimTotpCode(r, o) ==
    /\ pc[r] = "claim"
    /\ LET f == Fingerprint(r) IN
       \/ o = "lost" /\ UNCHANGED claimed /\ Finish(r, "pass", TRUE)
       \/ o = "late" /\ SetNX(f) /\ Finish(r, "pass", TRUE)
       \/ /\ o = "ok" /\ SetNX(f)
          /\ Finish(r, IF claimed[f] = 0 THEN "pass" ELSE "401", FALSE)
    /\ UNCHANGED <<now, config, level, cred, hash>>

(* A second passes; no claim outlives the response timeout. *)
Tick ==
    /\ now < MaxTime
    /\ \A r \in Requests : pc[r] = "claim" => now < calledAt[r] + Timeout
    /\ now' = now + 1
    /\ claimed' = [f \in Fingerprints |-> IF claimed[f] <= now + 1 THEN 0 ELSE claimed[f]]
    /\ UNCHANGED <<config, requestVars>>

Next ==
    \/ Tick
    \/ \E p \in Replicas : Restart(p)
    \/ \E r \in Requests : Call(r) \/ \E o \in Outcomes : ClaimTotpCode(r, o)

Spec == Init /\ [][Next]_vars
-----------------------------------------------------------------------------
(***************************************************************************)
(* The inductive invariant the proofs rest on                              *)
(***************************************************************************)
(* The first second in which the code c is not accepted any more. *)
WindowEnd(c) == Step * (c.counter + Skew + 1)

RequestOK(r) ==
    /\ pc[r] # "done" => verdict[r] = "none" /\ ~failedOpen[r]
    /\ pc[r] = "idle" => hash[r] = None
    /\ hash[r] # None => cred[r] \in Codes /\ level[r] = "totp"
    /\ pc[r] = "claim" =>
         hash[r] # None /\ Step * cred[r].counter <= now + Step * Skew

(* A claim that let its request in keeps the key until the code is worthless;
   a key that is there was left by a request that was let in. *)
ClaimOK ==
    /\ \A r \in Requests :
         hash[r] # None /\ verdict[r] = "pass" /\ ~failedOpen[r] =>
           WindowEnd(cred[r]) <= now \/ WindowEnd(cred[r]) <= claimed[Fingerprint(r)]
    /\ \A f \in Fingerprints : claimed[f] # 0 =>
         \E r \in Requests : hash[r] # None /\ Fingerprint(r) = f /\ verdict[r] = "pass"

AccessInv == TypeOK /\ (\A r \in Requests : RequestOK(r)) /\ ClaimOK

-----------------------------------------------------------------------------
(***************************************************************************)
(* Properties                                                              *)
(***************************************************************************)
(* With the guard on, no two requests get in with one code, whatever replicas
   they reach, unless the claim of one of them failed, the key of the
   fingerprint was changed between them by a rotation, or the claim of one was
   executed when the code was no longer acceptable. *)
ReplayRefused ==
    \A r, q \in Requests :
      /\ r # q /\ cred[r] = cred[q] /\ hash[r] # None /\ hash[r] = hash[q]
      /\ verdict[r] = "pass" /\ ~failedOpen[r]
      /\ verdict[q] = "pass" /\ ~failedOpen[q]
      => WindowEnd(cred[r]) <= claimedAt[r] \/ WindowEnd(cred[r]) <= claimedAt[q]

(* The guard turns away a valid code only when another request got in with that
   same code: a store failure of its own never costs a client its code. *)
NoFalseReplay ==
    \A r \in Requests : hash[r] # None /\ verdict[r] = "401" =>
      \E q \in Requests \ {r} : cred[q] = cred[r] /\ verdict[q] = "pass"

(* "a missing secret must never mean open access" (auth.rs): in no environment
   a replica runs with does a protected route let in a request that shows no
   credential. *)
NoCredentialNoEntry ==
    \A r \in Requests : cred[r] = Blank /\ level[r] # "open" => verdict[r] # "pass"
=============================================================================
