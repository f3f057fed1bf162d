----------------------------- MODULE Lifecycle -----------------------------
(***************************************************************************)
(* A process of the service from its start to its end: main of main.rs     *)
(* with the configuration of server.rs, and what becomes of the telemetry  *)
(* recorded on the way (logging.rs, tracing_otel.rs, sentry_glitchtip.rs). *)
(*                                                                         *)
(* Spans, log lines and issues are queued and sent in batches in the       *)
(* background; what is still queued when the process is told to stop is    *)
(* flushed after the requests in flight have been drained.                 *)
(***************************************************************************)
EXTENDS ServerConfig

CONSTANTS
    Requests,
    Environments,   \* what the process may find in its environment
    Listens,        \* where the collector of each channel takes data
    ExportTimeout,  \* EXPORT_TIMEOUT
    GuardTimeout    \* how long the guard of GlitchTip flushes (external)

Channels   == {"traces", "logs", "issues"}
BootStages == {"telemetry", "port", "redis", "auth", "limits", "server", "bind"}
Stages     == BootStages \cup {"serving", "draining", "flush", "exited", "killed",
                               "dead", "terminated"}
EnvType ==
    [port : BOOLEAN, redis_url : BOOLEAN, auth : BOOLEAN,
     periods : BOOLEAN, free_port : BOOLEAN, builds : BOOLEAN, logs_enabled : BOOLEAN,
     workers : Var, drain : Var, v2 : Cgroup, v1 : Cgroup, cores : Nat,
     traces : Text, logs : Text, base : Text, dsn : Dsn, dsn_alt : Dsn, rust_log : Filters]
Lines == {"completed", "failed"} \X Requests \cup {<<"warning", "traces">>, <<"warning", "logs">>}

ASSUME LifecycleAssumption ==
    /\ Environments \subseteq EnvType
    /\ Listens \in [Channels -> Url \ {NoUrl}]
    /\ ExportTimeout \in Nat /\ GuardTimeout \in Nat

VARIABLES
    env,
    stage,
    server,     \* the ServerConfig, once it is read
    target,     \* per channel where it is sent, NoUrl when it is off
    queue, out, \* per channel: what waits to be sent, and what arrived
    req,        \* per request: "idle", "running", "finished", "untraced" or "cut"
    elapsed,    \* seconds since SIGTERM
    pos, began, \* which flush is running, and since when
    up,         \* the channels whose collector answers (external)
    \* history
    failed,     \* the channels that lost a batch because theirs did not
    lines       \* what was written to the log

telemetryVars == <<target, queue, out, failed>>
stopVars      == <<elapsed, pos, began>>
vars == <<env, stage, server, telemetryVars, req, stopVars, up, lines>>

(* What a channel carries. *)
Items(ch) == IF ch = "traces" THEN Requests ELSE Lines

TypeOK ==
    /\ env \in Environments
    /\ stage \in Stages
    /\ server \in [workers : Nat, shutdown_timeout : Nat]
    /\ target \in [Channels -> Url]
    /\ queue \in [Channels -> SUBSET (Requests \cup Lines)]
    /\ out \in [Channels -> SUBSET (Requests \cup Lines)]
    /\ \A ch \in Channels : queue[ch] \subseteq Items(ch) /\ out[ch] \subseteq Items(ch)
    /\ req \in [Requests -> {"idle", "running", "finished", "untraced", "cut"}]
    /\ elapsed \in 0 .. Grace /\ began \in 0 .. elapsed /\ pos \in 0 .. 3
    /\ up \subseteq Channels /\ failed \subseteq Channels
    /\ lines \subseteq Lines

Init ==
    /\ env \in Environments
    /\ stage = "telemetry"
    /\ server = [workers |-> 0, shutdown_timeout |-> 0]
    /\ target = [ch \in Channels |-> NoUrl]
    /\ queue = [ch \in Channels |-> {}]
    /\ out = [ch \in Channels |-> {}]
    /\ req = [r \in Requests |-> "idle"]
    /\ elapsed = 0 /\ pos = 0 /\ began = 0
    /\ up = Channels
    /\ failed = {}
    /\ lines = {}

-----------------------------------------------------------------------------
(* Start, in the order of main *)

(* Telemetry is set up, and installed.  A DSN that does not parse is passed on as
   it is; sentry::init (external) panics over it, and nobody catches that - or it
   ignores the DSN, and nothing is said of it. *)
InitSubscriber ==
    /\ stage = "telemetry"
    /\ \/ /\ stage' = "port"
          /\ target' = [ch \in Channels |->
               CASE ch = "traces" -> init_tracer_provider(env)
                 [] ch = "logs" -> init_logger_provider(env)
                 [] OTHER -> init_glitchtip(env, Listens[ch])]
       \/ /\ read_dsn(env) = "junk"
          /\ stage' = "dead"
          /\ UNCHANGED target
    /\ UNCHANGED <<env, server, queue, out, failed, req, stopVars, up, lines>>

(* A step of the start that panics, or ends main, unless ok. *)
Boot(from, ok, to) ==
    /\ stage = from
    /\ stage' = IF ok THEN to ELSE "dead"
    /\ UNCHANGED <<env, server, telemetryVars, req, stopVars, up, lines>>

ReadPort == Boot("port", env.port, "redis")

(* REDIS_URL is parsed; no connection is made. *)
OpenRedis == Boot("redis", env.redis_url, "auth")

ReadAuth == Boot("auth", env.auth, "limits")

(* Nothing is fatal in the rate limits but a refill period that comes out as
   zero (FrontDoor, quota). *)
BuildLimits == Boot("limits", env.periods, "server")

(* The configuration of the server; actix refuses to run without workers. *)
ConfigureServer ==
    /\ stage = "server"
    /\ server' = ServerFromEnv(env)
    /\ stage' = IF ServerFromEnv(env).workers = 0 THEN "dead" ELSE "bind"
    /\ UNCHANGED <<env, telemetryVars, req, stopVars, up, lines>>

(* A failure to bind ends main at once, past the flushes. *)
Bind == Boot("bind", env.free_port, "serving")

BootStep == \/ InitSubscriber \/ ReadPort \/ OpenRedis \/ ReadAuth
            \/ BuildLimits \/ ConfigureServer \/ Bind

-----------------------------------------------------------------------------
(* Requests, and the telemetry they leave behind *)

Accept(r) ==
    /\ stage = "serving" /\ req[r] = "idle"
    /\ req' = [req EXCEPT ![r] = "running"]
    /\ UNCHANGED <<env, stage, server, telemetryVars, stopVars, up, lines>>

On(ch) == target[ch] # NoUrl

(* New data of a channel; a channel that is off, or shut down, keeps nothing. *)
Queued(new) == [ch \in Channels |-> IF On(ch) THEN queue[ch] \cup new[ch] ELSE queue[ch]]

Passes(level) == level \in env.rust_log

(* The span of the request ends and its line is written; an error of a
   dependency is a line of its own, and an issue.  RUST_LOG filters all of them:
   the span and its line are INFO.  No span is recorded either for a request
   whose caller decided against it (traceparent). *)
Finish(r) ==
    /\ stage \in {"serving", "draining"} /\ req[r] = "running"
    /\ \E sampled \in BOOLEAN, error \in BOOLEAN :
         LET traced  == sampled /\ Passes("INFO")
             errors  == IF error /\ Passes("ERROR") THEN {<<"failed", r>>} ELSE {}
             written == (IF Passes("INFO") THEN {<<"completed", r>>} ELSE {}) \cup errors IN
         /\ req' = [req EXCEPT ![r] = IF traced THEN "finished" ELSE "untraced"]
         /\ lines' = lines \cup written
         /\ queue' = Queued([traces |-> IF traced THEN {r} ELSE {}, logs |-> written,
              issues |-> IF "issue" \in EventFilter("ERROR", FALSE) THEN errors ELSE {}])
    /\ UNCHANGED <<env, stage, server, target, out, failed, stopVars, up>>

(* What is queued leaves: it arrives if the collector is there and the address
   is the one it listens to, and is dropped otherwise. *)
Sent(ch) ==
    /\ out' = [out EXCEPT ![ch] = IF ch \in up /\ target[ch] = Listens[ch]
                                  THEN @ \cup queue[ch] ELSE @]
    /\ failed' = IF ch \in up THEN failed ELSE failed \cup {ch}

Export(ch) ==
    /\ stage \in {"serving", "draining"} /\ queue[ch] # {}
    /\ Sent(ch)
    /\ queue' = [queue EXCEPT ![ch] = {}]
    /\ UNCHANGED <<env, stage, server, target, req, stopVars, up, lines>>

CollectorTurns(ch) ==
    /\ up' = IF ch \in up THEN up \ {ch} ELSE up \cup {ch}
    /\ UNCHANGED <<env, stage, server, telemetryVars, req, stopVars, lines>>

-----------------------------------------------------------------------------
(* Stop *)

(* SIGTERM: before the server runs nobody handles it. *)
Sigterm ==
    /\ stage \in BootStages \cup {"serving"}
    /\ stage' = IF stage = "serving" THEN "draining" ELSE "terminated"
    /\ UNCHANGED <<env, server, telemetryVars, req, stopVars, up, lines>>

(* run() returns when no request is left, or when the time is up; requests that
   are still running are cut. *)
DrainEnds ==
    /\ stage = "draining"
    /\ \/ \A r \in Requests : req[r] # "running"
       \/ elapsed >= server.shutdown_timeout
    /\ req' = [r \in Requests |-> IF req[r] = "running" THEN "cut" ELSE req[r]]
    /\ stage' = "flush"
    /\ pos' = 1 /\ began' = elapsed
    /\ UNCHANGED <<env, server, telemetryVars, elapsed, up, lines>>

(* Mutated: the logs are closed first. *)
FlushOrder_LogsFirst == <<"logs", "traces", "issues">>

(* The end of main: the spans, the logs, and last the guard of GlitchTip. *)
FlushOrder == <<"traces", "logs", "issues">>

FlushTimeout(ch) ==
    IF ~On(ch) THEN 0 ELSE IF ch = "issues" THEN GuardTimeout ELSE ExportTimeout

(* Mutated: the guard of GlitchTip reports like the others. *)
Warning_Any(ch) == IF ch \in up THEN {} ELSE {<<"warning", ch>>}

(* shutdown and shutdown_logs warn of a failure; the guard is silent. *)
Warning(ch) == IF ch \in up \/ ch = "issues" THEN {} ELSE {<<"warning", ch>>}

(* The last batch of a channel leaves and the channel is closed; a warning
   still finds its way to the logs if they are open. *)
Flush ==
    LET ch   == FlushOrder[pos]
        warn == IF On(ch) /\ Passes("WARN") THEN Warning(ch) ELSE {} IN
    /\ stage = "flush"
    /\ pos' = IF pos = 3 THEN 0 ELSE pos + 1
    /\ stage' = IF pos = 3 THEN "exited" ELSE "flush"
    /\ began' = elapsed
    /\ IF On(ch) THEN Sent(ch) ELSE UNCHANGED <<out, failed>>
    /\ lines' = lines \cup warn
    /\ queue' = [c \in Channels |->
         IF c = ch THEN {} ELSE IF c = "logs" /\ On(c) THEN queue[c] \cup warn ELSE queue[c]]
    /\ target' = [target EXCEPT ![ch] = NoUrl]
    /\ UNCHANGED <<env, server, req, elapsed, up>>

(* SIGKILL, when the grace period is over. *)
Kill ==
    /\ stage \in {"draining", "flush"} /\ elapsed = Grace
    /\ stage' = "killed"
    /\ UNCHANGED <<env, server, telemetryVars, req, stopVars, up, lines>>

(* A second of the stop; the drain and the flushes keep to their time. *)
Tick ==
    /\ \/ stage = "draining" /\ elapsed < server.shutdown_timeout
       \/ stage = "flush" /\ elapsed < began + FlushTimeout(FlushOrder[pos])
    /\ elapsed < Grace
    /\ elapsed' = elapsed + 1
    /\ UNCHANGED <<env, stage, server, telemetryVars, req, pos, began, up, lines>>

Next ==
    \/ BootStep \/ Sigterm \/ DrainEnds \/ Flush \/ Kill \/ Tick
    \/ \E r \in Requests : Accept(r) \/ Finish(r)
    \/ \E ch \in Channels : Export(ch) \/ CollectorTurns(ch)

Spec == Init /\ [][Next]_vars

-----------------------------------------------------------------------------
(***************************************************************************)
(* Properties                                                              *)
(***************************************************************************)
(* "Call it when the service stops, or the last traces are lost" (shutdown): a
   process that ends by itself has delivered every span, line and issue it
   recorded, the warnings of the stop itself included - on every channel that is
   on and whose collector was there whenever it was needed. *)
NothingLost ==
    stage = "exited" =>
      /\ init_tracer_provider(env) # NoUrl /\ "traces" \notin failed =>
           {r \in Requests : req[r] = "finished"} \subseteq out["traces"]
      /\ init_logger_provider(env) # NoUrl /\ "logs" \notin failed =>
           lines \subseteq out["logs"]
      /\ read_dsn(env) = "good" /\ "issues" \notin failed =>
           {l \in lines : l[1] = "failed"} \subseteq out["issues"]

(* "Why shutdown_timeout is smaller than the grace period" (server.rs): SIGKILL
   never meets a request in flight, and comes only if the drain and the flushes
   together may take the whole grace period. *)
KillSparesRequests ==
    stage = "killed" /\ (env.drain.kind = "number" => env.drain.n < Grace) =>
      /\ \A r \in Requests : req[r] # "running"
      /\ server.shutdown_timeout + 2 * ExportTimeout + GuardTimeout >= Grace

(* SERVER_WORKERS gives a number. *)
Asked == env.workers.kind = "number" /\ env.workers.n # 0

(* "the default is computed from the quota, not from the core count"
   (server.rs): unless a number is asked for, there is one worker for every whole
   core of the quota, but at least one and no more than the cores; without a
   quota no more than the default ceiling.  (The same comment says the quota is
   rounded up.  It is, by auto_workers, and then cut to a parallelism that has
   been rounded down.) *)
WorkersFit ==
    stage = "serving" =>
      LET w == server.workers
          q == cpu_quota(env.v2, env.v1) IN
      /\ w >= 1
      /\ ~Asked =>
           /\ w = 1 \/ w <= env.cores
           /\ q = NoQuota => w <= DEFAULT_MAX_WORKERS
           /\ q # NoQuota => /\ w = 1 \/ w * q.period <= q.quota
                             /\ (w + 1) * q.period > q.quota \/ w >= env.cores
=============================================================================
