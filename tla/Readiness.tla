----------------------------- MODULE Readiness -----------------------------
(***************************************************************************)
(* The readiness probe (readyz of handlers.rs) beside the verifications    *)
(* whose keys it answers for: the public key cache of JwksCache goes on    *)
(* working while a probe waits for the store, then for the key service,    *)
(* and only then looks at the snapshot in memory.                          *)
(*                                                                         *)
(* The orchestrator sends one probe after the other.                       *)
(***************************************************************************)
EXTENDS JwksCache

VARIABLES
    storeUp,    \* the store answers (external)
    manager,    \* RedisClient::manager: "empty" or "made"
    stage,      \* of the probe: "idle", "connect", "ping" or "check"
    store_ok,
    checkSent,  \* when the live check of the key service began
    report,     \* the last answer of the probe
    dismissed   \* history: it said that no snapshot is usable, and none has been
                \* stored since

probeVars == <<storeUp, manager, stage, store_ok, checkSent, report, dismissed>>
readyVars == <<vars, probeVars>>

Reports == [status : {"none", "ok", "degraded", "unavailable"}, redis : BOOLEAN, jwks : BOOLEAN]

ProbeTypeOK ==
    /\ storeUp \in BOOLEAN
    /\ manager \in {"empty", "made"}
    /\ stage \in {"idle", "connect", "ping", "check"}
    /\ store_ok \in BOOLEAN
    /\ checkSent \in Nat
    /\ report \in Reports
    /\ dismissed \in BOOLEAN

ReadyInit ==
    /\ Init
    /\ storeUp \in BOOLEAN
    /\ manager = "empty"
    /\ stage = "idle"
    /\ store_ok = FALSE
    /\ checkSent = 0
    /\ report = [status |-> "none", redis |-> FALSE, jwks |-> FALSE]
    /\ dismissed = FALSE

-----------------------------------------------------------------------------
(* Redis *)

(* Mutated: the outcome of the first attempt is kept, whatever it was. *)
connection_Once == IF manager = "empty" THEN (IF storeUp THEN "made" ELSE "failed") ELSE manager

(* The manager is made on first use; a failed attempt leaves the cell empty. *)
connection == IF manager = "empty" /\ storeUp THEN "made" ELSE manager

(* The ping is over; the key service is asked next, whatever came of it. *)
PingEnds(ok) ==
    /\ stage' = "check"
    /\ store_ok' = ok
    /\ checkSent' = now

ProbeArrives ==
    /\ stage = "idle"
    /\ stage' = "connect"
    /\ UNCHANGED <<vars, storeUp, manager, store_ok, checkSent, report, dismissed>>

Connect ==
    /\ stage = "connect"
    /\ manager' = connection
    /\ \/ /\ connection = "made"
          /\ stage' = "ping"
          /\ UNCHANGED <<store_ok, checkSent>>
       \/ connection # "made" /\ PingEnds(FALSE)
    /\ UNCHANGED <<vars, storeUp, report, dismissed>>

Ping ==
    /\ stage = "ping"
    /\ PingEnds(storeUp)
    /\ UNCHANGED <<vars, storeUp, manager, report, dismissed>>

-----------------------------------------------------------------------------
(* The key service, and the answer *)

(* Mutated: any snapshot will do, however old. *)
has_servable_snapshot_AnyAge == entry # None /\ entry.keys # {}

(* Mutated: the grace is left out. *)
has_servable_snapshot_TtlOnly ==
    entry # None /\ entry.keys # {} /\ Elapsed(entry.at) < Ttl

has_servable_snapshot ==
    entry # None /\ entry.keys # {} /\ Elapsed(entry.at) < servable_max_age

Conclude(jwks_live) ==
    LET jwks_stale == ~jwks_live /\ has_servable_snapshot
        jwks_ok    == jwks_live \/ jwks_stale
        ready      == store_ok /\ jwks_ok IN
    /\ report' = [status |-> IF ~ready THEN "unavailable"
                             ELSE IF jwks_stale THEN "degraded" ELSE "ok",
                  redis |-> store_ok, jwks |-> jwks_ok]
    /\ dismissed' = ~jwks_ok
    /\ stage' = "idle"
    /\ store_ok' = FALSE
    /\ checkSent' = 0

(* health_check is a trip of its own: it neither takes the lock nor writes the
   cache.  It is answered, or fails at the latest with its timeout. *)
CheckEnds ==
    /\ stage = "check"
    /\ \E live \in BOOLEAN : Conclude(live)
    /\ UNCHANGED <<vars, storeUp, manager>>

-----------------------------------------------------------------------------
(* What goes on beside the probe: a step of the cache, or the store comes and
   goes. *)
Beside ==
    /\ Next
    /\ Tick /\ stage = "check" => now < checkSent + Timeout
    /\ dismissed' = (dismissed /\ entry' = entry)
    /\ UNCHANGED <<storeUp, manager, stage, store_ok, checkSent, report>>

StoreTurns ==
    /\ storeUp' = ~storeUp
    /\ UNCHANGED <<vars, manager, stage, store_ok, checkSent, report, dismissed>>

ProbeStep == ProbeArrives \/ Connect \/ Ping \/ CheckEnds

ReadyNext == ProbeStep \/ Beside \/ StoreTurns

ReadySpec == ReadyInit /\ [][ReadyNext]_readyVars

(* The orchestrator goes on probing, and a probe is polled to its end. *)
ReadyFairSpec == ReadySpec /\ WF_readyVars(ProbeStep)

-----------------------------------------------------------------------------
(***************************************************************************)
(* Properties                                                              *)
(***************************************************************************)
(* "The probe asks [...] can we answer" (readyz): once it has called the keys
   unavailable, no verification is served from the snapshot it dismissed -
   a pod is not taken out of service while its memory would still do. *)
DismissedForGood ==
    [][\A r \in Requests :
         Answered(r) /\ result'[r] \in {"hit", "stale"} => ~dismissed]_readyVars

SaysDegraded  == stage = "check" /\ stage' = "idle" /\ report'.status = "degraded"
SeenLately(k) == lastSeen[k] # 0 /\ now < lastSeen[k] + Timeout + servable_max_age

(* "once the snapshot stops being usable the pod leaves the load balancer on
   its own" (readyz): a pod calls itself ready without the key service only
   while some key was published within the timeout of a trip plus the servable
   age of a snapshot. *)
OutageReadinessBounded == [][SaysDegraded => \E k \in Kids : SeenLately(k)]_readyVars

(* "once the store appears the connection establishes itself without a restart"
   (RedisClient::connection): when the store stays up, the probe ends up
   reporting it as up. *)
StoreNoticed == <>[]storeUp => <>[]report.redis
=============================================================================
