-------------------------- MODULE LifecycleProofs --------------------------
(***************************************************************************)
(* Proofs about Lifecycle: for any environment, any number of requests and *)
(* any timeouts, what the worker count comes out as, whom SIGKILL can      *)
(* meet, and what has been delivered when the process ends by itself.      *)
(***************************************************************************)
EXTENDS Lifecycle, TLAPS

-----------------------------------------------------------------------------
(***************************************************************************)
(* The configuration                                                       *)
(***************************************************************************)
(* Rounding up: the least number of whole periods that covers the quota. *)
LEMMA Ceiling ==
    ASSUME NEW a \in Nat, a > 0, NEW b \in Nat, b > 0
    PROVE  LET c == (a + b - 1) \div b IN
           /\ c \in Nat /\ c >= 1
           /\ (c - 1) * b < a
           /\ a <= c * b
<1> DEFINE c == (a + b - 1) \div b
           m == (a + b - 1) % b
<1>1. a + b - 1 \in Int /\ a + b - 1 >= 0
  OBVIOUS
<1>2. /\ c \in Int /\ m \in Int /\ 0 <= m /\ m < b
      /\ a + b - 1 = b * c + m
  BY <1>1, SMT
<1>3. c >= 1
  <2>1. b * c >= a
    BY <1>2
  <2> HIDE DEF c, m
  <2>2. ASSUME c <= 0 PROVE b * c <= 0
    BY <1>2, <2>2, SMT
  <2> QED BY <1>2, <2>1, <2>2
<1> HIDE DEF c, m
<1>4. (c - 1) * b = b * c - b /\ c * b = b * c
  BY <1>2, SMT
<1>5. c \in Nat /\ (c - 1) * b < a /\ a <= c * b
  <2>1. PICK p \in Int : p = b * c
    BY <1>2, SMT
  <2> QED BY <1>2, <1>3, <1>4, <2>1
<1> QED BY <1>3, <1>5 DEF c

(* Products grow with a factor. *)
LEMMA ProductGrows ==
    ASSUME NEW m \in Int, NEW n \in Int, m <= n, NEW b \in Nat
    PROVE  m * b <= n * b
  BY SMT

(* A factor that grows by one. *)
LEMMA OneMore ==
    ASSUME NEW n \in Int, NEW b \in Int
    PROVE  (n + 1) * b = n * b + b
  BY SMT

(* A quota that is one is a positive fraction. *)
LEMMA QuotaType ==
    ASSUME NEW e \in EnvType
    PROVE  LET q == cpu_quota(e.v2, e.v1) IN
           q = NoQuota \/ (q.quota \in Nat /\ q.quota > 0 /\ q.period \in Nat /\ q.period > 0)
<1>1. e.v2 \in Cgroup /\ e.v1 \in Cgroup
  BY DEF EnvType
<1>2. ASSUME NEW a \in Int, NEW b \in Int
      PROVE  LET q == parse_cfs_quota(a, b) IN
             q = NoQuota \/ (q.quota \in Nat /\ q.quota > 0 /\ q.period \in Nat /\ q.period > 0)
  BY DEF parse_cfs_quota
<1>3. e.v2.quota \in Int /\ e.v2.period \in Int /\ e.v1.quota \in Int /\ e.v1.period \in Int
  BY <1>1 DEF Cgroup
<1> QED BY <1>2, <1>3 DEF cpu_quota, parse_cpu_max

(* Rounding down: the greatest number of whole periods within the quota. *)
LEMMA Floor ==
    ASSUME NEW a \in Nat, NEW b \in Nat, b > 0
    PROVE  LET d == a \div b IN
           /\ d \in Nat
           /\ d * b <= a
           /\ a < (d + 1) * b
<1> DEFINE d == a \div b
           m == a % b
<1>1. /\ d \in Int /\ m \in Int /\ 0 <= m /\ m < b
      /\ a = b * d + m
  BY SMT
<1>2. d >= 0
  <2>1. b * d > 0 - b
    BY <1>1
  <2> HIDE DEF d, m
  <2>2. ASSUME d <= 0 - 1 PROVE b * d <= 0 - b
    BY <1>1, <2>2, SMT
  <2> QED BY <1>1, <2>1, <2>2
<1> HIDE DEF d, m
<1>3. (d + 1) * b = b * d + b /\ d * b = b * d
  BY <1>1, SMT
<1>4. d \in Nat /\ d * b <= a /\ a < (d + 1) * b
  <2>1. PICK p \in Int : p = b * d
    BY <1>1, SMT
  <2> QED BY <1>1, <1>2, <1>3, <2>1
<1> QED BY <1>4 DEF d

(* available_parallelism: the cores, or fewer under a quota. *)
LEMMA Parallelism ==
    ASSUME NEW e \in EnvType
    PROVE  LET q == cpu_quota(e.v2, e.v1)
               p == available_parallelism(q, e.cores) IN
           /\ p \in Nat /\ p >= 1
           /\ p = 1 \/ p <= e.cores
           /\ q = NoQuota => p >= e.cores
           /\ q # NoQuota => /\ p = 1 \/ p <= (q.quota \div q.period)
                             /\ p >= e.cores \/ p >= (q.quota \div q.period)
<1> DEFINE q == cpu_quota(e.v2, e.v1)
           d == q.quota \div q.period
           p == available_parallelism(q, e.cores)
<1>1. e.cores \in Nat
  BY DEF EnvType
<1>2. q = NoQuota \/ (q.quota \in Nat /\ q.quota > 0 /\ q.period \in Nat /\ q.period > 0)
  BY QuotaType
<1>3. CASE q = NoQuota
  <2>1. ~(q.quota > 0)
    BY <1>3 DEF NoQuota
  <2>2. p = AtLeast(1, e.cores)
    BY <2>1 DEF available_parallelism
  <2> HIDE DEF q, p
  <2> QED BY <1>1, <1>3, <2>2 DEF AtLeast, p, q
<1>4. CASE q # NoQuota
  <2>1. d \in Nat
    BY <1>2, <1>4, Floor
  <2>2. p = AtLeast(1, AtMost(e.cores, AtLeast(1, d)))
    BY <1>2, <1>4 DEF available_parallelism
  <2> HIDE DEF q, p, d
  <2>3. p \in Nat /\ p >= 1 /\ (p = 1 \/ p <= e.cores) /\ (p = 1 \/ p <= d)
        /\ (p >= e.cores \/ p >= d)
    BY <1>1, <2>1, <2>2 DEF AtLeast, AtMost
  <2> QED BY <1>4, <2>3 DEF p, q, d
<1> QED BY <1>3, <1>4

(* auto_workers: as many workers as the quota has whole cores, within the cores;
   without a quota no more than the default ceiling. *)
LEMMA AutoWorkers ==
    ASSUME NEW e \in EnvType
    PROVE  LET q == cpu_quota(e.v2, e.v1)
               w == AutoFromEnv(e) IN
           /\ w \in Nat /\ w >= 1
           /\ w = 1 \/ w <= e.cores
           /\ q = NoQuota => w <= DEFAULT_MAX_WORKERS
           /\ q # NoQuota => /\ w = 1 \/ w * q.period <= q.quota
                             /\ (w + 1) * q.period > q.quota \/ w >= e.cores
<1> DEFINE q == cpu_quota(e.v2, e.v1)
           p == available_parallelism(q, e.cores)
           c == (q.quota + q.period - 1) \div q.period
           d == q.quota \div q.period
           w == AutoFromEnv(e)
<1>1. e.cores \in Nat
  BY DEF EnvType
<1>2. /\ p \in Nat /\ p >= 1 /\ (p = 1 \/ p <= e.cores)
      /\ q # NoQuota => (p = 1 \/ p <= d) /\ (p >= e.cores \/ p >= d)
  BY Parallelism
<1>3. q = NoQuota \/ (q.quota \in Nat /\ q.quota > 0 /\ q.period \in Nat /\ q.period > 0)
  BY QuotaType
<1>4. w = auto_workers(q, p)
  BY DEF AutoFromEnv
<1>5. AtLeast(1, p) = p
  <2> HIDE DEF p
  <2> QED BY <1>2 DEF AtLeast
<1>6. CASE q = NoQuota
  <2>1. ~(q.quota > 0)
    BY <1>6 DEF NoQuota
  <2> HIDE DEF w, p, q
  <2>2. w = AtMost(DEFAULT_MAX_WORKERS, p)
    BY <1>4, <1>5, <2>1 DEF auto_workers
  <2>3. w \in Nat /\ w >= 1 /\ w <= p /\ w <= DEFAULT_MAX_WORKERS
    BY <1>2, <2>2, ServerAssumption DEF AtMost
  <2> QED BY <1>1, <1>2, <1>6, <2>3 DEF w, q
<1>7. CASE q # NoQuota
  <2>1. q.quota \in Nat /\ q.quota > 0 /\ q.period \in Nat /\ q.period > 0
    BY <1>3, <1>7
  <2>2. c \in Nat /\ c >= 1 /\ q.quota <= c * q.period
    BY <2>1, Ceiling
  <2>3. d \in Nat /\ d * q.period <= q.quota /\ q.quota < (d + 1) * q.period
    BY <2>1, Floor
  <2> HIDE DEF w, p, q
  <2>4. w = AtMost(p, AtLeast(1, c))
    BY <1>4, <1>5, <2>1 DEF auto_workers
  <2> HIDE DEF c, d
  <2>5. w \in Nat /\ w >= 1 /\ w <= p /\ (w = p \/ w = c)
    BY <1>2, <2>2, <2>4 DEF AtMost, AtLeast
  <2>6. w = 1 \/ w * q.period <= q.quota
    <3>1. ASSUME w # 1 PROVE w * q.period <= d * q.period
      <4>1. w <= d
        BY <1>2, <1>7, <2>3, <2>5, <3>1
      <4> QED BY <2>1, <2>3, <2>5, <4>1, ProductGrows
    <3>2. PICK x \in Int, y \in Int : x = w * q.period /\ y = d * q.period
      BY <2>1, <2>3, <2>5, SMT
    <3> QED BY <2>1, <2>3, <3>1, <3>2
  <2>7. (w + 1) * q.period > q.quota \/ w >= e.cores
    <3> SUFFICES ASSUME ~(w >= e.cores) PROVE (w + 1) * q.period > q.quota
      OBVIOUS
    <3>1. CASE w = p
      <4>1. d + 1 <= w + 1 /\ d + 1 \in Int /\ w + 1 \in Int
        BY <1>1, <1>2, <1>7, <2>3, <2>5, <3>1
      <4>2. (d + 1) * q.period <= (w + 1) * q.period
        BY <2>1, <4>1, ProductGrows
      <4>3. PICK x \in Int, y \in Int : x = (w + 1) * q.period /\ y = (d + 1) * q.period
        BY <2>1, <2>3, <2>5, SMT
      <4> QED BY <2>1, <2>3, <4>2, <4>3
    <3>2. CASE w = c
      <4>1. (c + 1) * q.period = c * q.period + q.period
        <5>1. c \in Int /\ q.period \in Int
          BY <2>1, <2>2
        <5> QED BY <5>1, OneMore, ZenonT(60)
      <4>2. PICK x \in Int : x = c * q.period
        BY <2>1, <2>2, SMT
      <4> QED BY <2>1, <2>2, <3>2, <4>1, <4>2
    <3> QED BY <2>5, <3>1, <3>2
  <2> QED BY <1>1, <1>2, <1>7, <2>5, <2>6, <2>7 DEF w, q
<1> QED BY <1>6, <1>7

(* ServerConfig::from_env is total: there is a worker in every environment. *)
LEMMA ServerType ==
    ASSUME NEW e \in EnvType
    PROVE  /\ ServerFromEnv(e) \in [workers : Nat, shutdown_timeout : Nat]
           /\ ServerFromEnv(e).workers # 0
<1>1. e.workers \in Var /\ e.drain \in Var
  BY DEF EnvType
<1>2. AutoFromEnv(e) \in Nat /\ AutoFromEnv(e) # 0
  BY AutoWorkers
<1>3. /\ parse_workers(e.workers, AutoFromEnv(e)) \in Nat
      /\ parse_workers(e.workers, AutoFromEnv(e)) # 0
  BY <1>1, <1>2 DEF parse_workers, Var
<1>4. parse_u64(e.drain, DEFAULT_SHUTDOWN_TIMEOUT_SECONDS) \in Nat
  BY <1>1, ServerAssumption DEF parse_u64, Var
<1> QED BY <1>3, <1>4 DEF ServerFromEnv

(* Where a channel is sent. *)
Dest(ch) ==
    CASE ch = "traces" -> init_tracer_provider(env)
      [] ch = "logs" -> init_logger_provider(env)
      [] OTHER -> init_glitchtip(env, Listens[ch])

(* Where a channel sends to. *)
LEMMA DestType ==
    ASSUME env \in EnvType, NEW ch \in Channels
    PROVE  Dest(ch) \in Url
<1>1. NoUrl \in Url
  <2>1. <<>> \in Seq(Words)
    OBVIOUS
  <2>2. "none" \in Words
    BY ServerAssumption
  <2> QED BY <2>1, <2>2 DEF NoUrl, Url
<1>2. ASSUME NEW s \in Text, NEW b \in Text, NEW p \in Words
      PROVE  signal_endpoint(s, b, p) \in Url
  <2>1. s.url \in Url /\ b.url \in Url
    BY DEF Text
  <2>2. b.url.host \in Words /\ b.url.path \in Seq(Words)
    BY <2>1 DEF Url
  <2>3. Append(b.url.path, p) \in Seq(Words)
    BY <2>2
  <2>4. [host |-> b.url.host, path |-> Append(b.url.path, p), slashes |-> 0] \in Url
    BY <2>2, <2>3 DEF Url
  <2> QED BY <1>1, <2>1, <2>4 DEF signal_endpoint
<1>3. env.traces \in Text /\ env.logs \in Text /\ env.base \in Text
  BY DEF EnvType
<1>4. init_tracer_provider(env) \in Url /\ init_logger_provider(env) \in Url
  <2>1. "v1/traces" \in Words /\ "v1/logs" \in Words
    BY ServerAssumption
  <2>2. /\ signal_endpoint(env.traces, env.base, "v1/traces") \in Url
        /\ signal_endpoint(env.logs, env.base, "v1/logs") \in Url
    BY <1>2, <1>3, <2>1
  <2> QED BY <1>1, <2>2 DEF init_tracer_provider, init_logger_provider
<1>5. init_glitchtip(env, Listens[ch]) \in Url
  BY <1>1, LifecycleAssumption DEF init_glitchtip
<1> QED BY <1>4, <1>5 DEF Dest

-----------------------------------------------------------------------------
(***************************************************************************)
(* The inductive invariant                                                 *)
(***************************************************************************)
(* What a channel has to deliver. *)
Data(ch) ==
    IF ch = "traces" THEN {r \in Requests : req[r] = "finished"}
    ELSE IF ch = "logs" THEN lines
    ELSE {l \in lines : l[1] = "failed"}

Place(ch) == IF ch = "traces" THEN 1 ELSE IF ch = "logs" THEN 2 ELSE 3

(* Its last batch has left. *)
Closed(ch) == stage = "exited" \/ (stage = "flush" /\ Place(ch) < pos)

(* Every channel that is on is sent to where its collector listens. *)
WellAddressed == \A ch \in Channels : Dest(ch) \in {NoUrl, Listens[ch]}

(* Before it serves, a process has nothing to tell. *)
BootInv == stage \in BootStages => lines = {} /\ \A r \in Requests : req[r] = "idle"

ServerInv ==
    stage \in {"bind", "serving", "draining", "flush", "exited", "killed"} =>
      server = ServerFromEnv(env)

(* A channel is open until its flush, and has nothing left after it. *)
OpenInv ==
    \A ch \in Channels :
      /\ stage \notin {"telemetry", "dead", "terminated", "killed"} /\ ~Closed(ch) =>
           target[ch] = Dest(ch)
      /\ Closed(ch) => queue[ch] = {}

(* What a channel has to deliver has arrived or is queued. *)
KeptInv ==
    WellAddressed =>
      \A ch \in Channels :
        Dest(ch) # NoUrl /\ ch \notin failed => Data(ch) \subseteq out[ch] \cup queue[ch]

(* When the flush at a place may begin at the latest, counted from the end of the
   drain. *)
Before(n) == IF n = 1 THEN 0 ELSE IF n = 2 THEN ExportTimeout ELSE 2 * ExportTimeout

(* The drain and the flushes keep to their time. *)
StopInv ==
    /\ stage \in BootStages \cup {"serving"} => elapsed = 0
    /\ stage = "draining" => elapsed <= server.shutdown_timeout
    /\ stage = "flush" =>
         /\ pos \in 1 .. 3 /\ \A r \in Requests : req[r] # "running"
         /\ began <= server.shutdown_timeout + Before(pos)
         /\ elapsed <= began + FlushTimeout(FlushOrder[pos])

LifeInv ==
    /\ TypeOK /\ BootInv /\ ServerInv /\ OpenInv /\ KeptInv /\ StopInv
    /\ KillSparesRequests

(* FlushOrder: who is flushed at which place, and for how long at most. *)
LEMMA FlushPlaces ==
    /\ FlushOrder[1] = "traces" /\ FlushOrder[2] = "logs" /\ FlushOrder[3] = "issues"
    /\ \A n \in 1 .. 3 : FlushOrder[n] \in Channels /\ Place(FlushOrder[n]) = n
    /\ \A ch \in Channels : Place(ch) \in 1 .. 3 /\ FlushOrder[Place(ch)] = ch
<1>1. FlushOrder[1] = "traces" /\ FlushOrder[2] = "logs" /\ FlushOrder[3] = "issues"
  BY DEF FlushOrder
<1>2. ASSUME NEW n \in 1 .. 3 PROVE FlushOrder[n] \in Channels /\ Place(FlushOrder[n]) = n
  BY <1>1 DEF Channels, Place
<1>3. ASSUME NEW ch \in Channels PROVE Place(ch) \in 1 .. 3 /\ FlushOrder[Place(ch)] = ch
  BY <1>1 DEF Channels, Place
<1> QED BY <1>1, <1>2, <1>3

(* No channel waits longer than its own limit. *)
LEMMA FlushTimes ==
    ASSUME NEW ch
    PROVE  /\ FlushTimeout(ch) \in Nat
           /\ ch # "issues" => FlushTimeout(ch) <= ExportTimeout
           /\ ch = "issues" => FlushTimeout(ch) <= GuardTimeout
<1>1. ExportTimeout \in Nat /\ GuardTimeout \in Nat
  BY LifecycleAssumption
<1> QED BY <1>1 DEF FlushTimeout

(* ServerConfig::from_env: the drain as asked for, or the default. *)
LEMMA DrainTime ==
    ASSUME env \in EnvType, env.drain.kind = "number" => env.drain.n < Grace
    PROVE  ServerFromEnv(env).shutdown_timeout < Grace
  BY ServerAssumption DEF ServerFromEnv, parse_u64

(* LifeInv before the start. *)
LEMMA InitLife == Init => LifeInv
<1> SUFFICES ASSUME Init PROVE LifeInv
  OBVIOUS
<1>1. NoUrl \in Url
  <2>1. <<>> \in Seq(Words)
    OBVIOUS
  <2>2. "none" \in Words
    BY ServerAssumption
  <2> QED BY <2>1, <2>2 DEF NoUrl, Url
<1>2. stage = "telemetry" /\ stage \in BootStages /\ stage \in Stages
  BY DEF Init, BootStages, Stages
<1>3. TypeOK
  BY <1>1, <1>2, ServerAssumption DEF Init, TypeOK
<1>4. BootInv /\ ServerInv /\ KillSparesRequests /\ StopInv
  BY <1>2 DEF Init, BootInv, ServerInv, KillSparesRequests, StopInv
<1>5. OpenInv
  BY <1>2 DEF OpenInv, Closed
<1>6. KeptInv
  <2>1. \A ch : Data(ch) = {}
    BY DEF Init, Data
  <2> QED BY <2>1 DEF KeptInv
<1> QED BY <1>3, <1>4, <1>5, <1>6 DEF LifeInv

(* A step that leaves requests and telemetry alone. *)
LEMMA StillKept ==
    ASSUME KeptInv, UNCHANGED <<env, queue, out, failed, req, lines>>
    PROVE  KeptInv'
<1>1. \A ch : Dest(ch)' = Dest(ch) /\ Data(ch)' = Data(ch)
  BY DEF Dest, Data
<1> QED BY <1>1 DEF KeptInv, WellAddressed

(* A step of the start. *)
LEMMA BootLife ==
    ASSUME LifeInv, NEW from \in BootStages \ {"telemetry", "server"}, NEW ok, NEW to,
           \/ <<from, to>> \in {<<"port", "redis">>, <<"redis", "auth">>, <<"auth", "limits">>,
                                <<"limits", "server">>}
           \/ <<from, to>> = <<"bind", "serving">>,
           Boot(from, ok, to)
    PROVE  LifeInv'
<1>1. /\ stage = from /\ (stage' = to \/ stage' = "dead")
      /\ UNCHANGED <<env, server, telemetryVars, req, stopVars, up, lines>>
  BY DEF Boot
<1>2. /\ stage' \in Stages
      /\ stage' \in {"redis", "auth", "limits", "server", "serving", "dead"}
      /\ stage' = "serving" => stage = "bind"
      /\ stage \in BootStages /\ stage # "telemetry"
  BY <1>1 DEF Stages, BootStages
<1>3. UNCHANGED <<env, server, target, queue, out, failed, req, elapsed, pos, began, up, lines>>
  BY <1>1 DEF telemetryVars, stopVars
<1>4. TypeOK' /\ BootInv'
  BY <1>2, <1>3 DEF LifeInv, TypeOK, BootInv, Items
<1>5. ServerInv'
  BY <1>2, <1>3 DEF LifeInv, ServerInv
<1>6. OpenInv'
  <2>1. \A ch : Dest(ch)' = Dest(ch)
    BY <1>3 DEF Dest
  <2> QED BY <1>2, <1>3, <2>1 DEF LifeInv, OpenInv, Closed, BootStages
<1>7. StopInv'
  BY <1>2, <1>3 DEF LifeInv, StopInv
<1>8. KillSparesRequests'
  BY <1>2 DEF KillSparesRequests
<1> QED BY <1>3, <1>4, <1>5, <1>6, <1>7, <1>8, StillKept DEF LifeInv

(* Logging is set up, or the process dies of its DSN. *)
LEMMA SubscriberLife ==
    ASSUME LifeInv, InitSubscriber
    PROVE  LifeInv'
<1>1. /\ stage = "telemetry" /\ stage' \in {"port", "dead"}
      /\ UNCHANGED <<env, server, queue, out, failed, req, elapsed, pos, began, up, lines>>
  BY DEF InitSubscriber, stopVars
<1>2. \/ stage' = "port" /\ target' = [ch \in Channels |-> Dest(ch)]
      \/ stage' = "dead" /\ target' = target
  BY Zenon DEF InitSubscriber, Dest
<1>3. target' \in [Channels -> Url]
  BY <1>2, DestType, LifecycleAssumption DEF LifeInv, TypeOK
<1>4. TypeOK' /\ BootInv'
  BY <1>1, <1>3 DEF LifeInv, TypeOK, BootInv, Items, Stages, BootStages
<1>5. OpenInv'
  <2>1. \A ch \in Channels : Dest(ch)' = Dest(ch) /\ (stage' = "port" => target'[ch] = Dest(ch))
    BY <1>1, <1>2 DEF Dest
  <2> QED BY <1>1, <2>1 DEF OpenInv, Closed
<1>6. ServerInv' /\ StopInv' /\ KillSparesRequests'
  BY <1>1 DEF LifeInv, ServerInv, StopInv, KillSparesRequests, BootStages
<1> QED BY <1>1, <1>4, <1>5, <1>6, StillKept DEF LifeInv

(* The server is configured. *)
LEMMA ConfigureLife ==
    ASSUME LifeInv, ConfigureServer
    PROVE  LifeInv'
<1>1. /\ stage = "server" /\ stage' \in {"dead", "bind"} /\ server' = ServerFromEnv(env)
      /\ UNCHANGED <<env, target, queue, out, failed, req, elapsed, pos, began, up, lines>>
  BY DEF ConfigureServer, telemetryVars, stopVars
<1>2. server' \in [workers : Nat, shutdown_timeout : Nat]
  BY <1>1, ServerType, LifecycleAssumption DEF LifeInv, TypeOK
<1>3. TypeOK' /\ BootInv'
  BY <1>1, <1>2 DEF LifeInv, TypeOK, BootInv, Items, Stages, BootStages
<1>4. ServerInv'
  BY <1>1 DEF ServerInv
<1>5. OpenInv'
  <2>1. \A ch : Dest(ch)' = Dest(ch)
    BY <1>1 DEF Dest
  <2> QED BY <1>1, <2>1 DEF LifeInv, OpenInv, Closed
<1>6. StopInv' /\ KillSparesRequests'
  BY <1>1 DEF LifeInv, StopInv, KillSparesRequests, BootStages
<1> QED BY <1>1, <1>3, <1>4, <1>5, <1>6, StillKept DEF LifeInv

(* SIGTERM, SIGKILL, a second of the stop, a collector that comes or goes. *)
LEMMA SignalLife ==
    ASSUME LifeInv, Sigterm
    PROVE  LifeInv'
<1>1. UNCHANGED <<env, server, target, queue, out, failed, req, elapsed, pos, began, up, lines>>
  BY DEF Sigterm, telemetryVars, stopVars
<1>2. \/ stage = "serving" /\ stage' = "draining"
      \/ stage \in BootStages /\ stage' = "terminated"
  BY DEF Sigterm
<1>3. TypeOK' /\ BootInv'
  BY <1>1, <1>2 DEF LifeInv, TypeOK, BootInv, Items, Stages, BootStages
<1>4. ServerInv' /\ KillSparesRequests'
  BY <1>1, <1>2 DEF LifeInv, ServerInv, KillSparesRequests
<1>5. OpenInv'
  <2>1. \A ch : Dest(ch)' = Dest(ch)
    BY <1>1 DEF Dest
  <2> QED BY <1>1, <1>2, <2>1 DEF LifeInv, OpenInv, Closed
<1>6. StopInv'
  <2>1. server.shutdown_timeout \in Nat
    BY DEF LifeInv, TypeOK
  <2> QED BY <1>1, <1>2, <2>1 DEF LifeInv, StopInv, BootStages
<1> QED BY <1>1, <1>3, <1>4, <1>5, <1>6, StillKept DEF LifeInv

(* A collector comes or goes. *)
LEMMA CollectorLife ==
    ASSUME LifeInv, NEW ch \in Channels, CollectorTurns(ch)
    PROVE  LifeInv'
<1>1. /\ UNCHANGED <<env, stage, server, target, queue, out, failed, req, elapsed, pos, began, lines>>
      /\ up' \subseteq up \cup {ch}
  BY DEF CollectorTurns, telemetryVars, stopVars
<1>2. TypeOK' /\ BootInv'
  BY <1>1 DEF LifeInv, TypeOK, BootInv, Items
<1>3. ServerInv' /\ KillSparesRequests'
  BY <1>1 DEF LifeInv, ServerInv, KillSparesRequests
<1>4. OpenInv'
  <2>1. \A c : Dest(c)' = Dest(c)
    BY <1>1 DEF Dest
  <2> QED BY <1>1, <2>1 DEF LifeInv, OpenInv, Closed
<1>5. StopInv'
  <2>1. FlushTimeout(FlushOrder[pos])' = FlushTimeout(FlushOrder[pos])
    BY <1>1 DEF FlushTimeout, FlushOrder, On
  <2> QED BY <1>1, <2>1 DEF LifeInv, StopInv, Before
<1> QED BY <1>1, <1>2, <1>3, <1>4, <1>5, StillKept DEF LifeInv

(* SIGKILL during the flushes: they have had their time. *)
LEMMA KillLife ==
    ASSUME LifeInv, Kill
    PROVE  LifeInv'
<1>1. UNCHANGED <<env, server, target, queue, out, failed, req, elapsed, pos, began, up, lines>>
  BY DEF Kill, telemetryVars, stopVars
<1>2. stage \in {"draining", "flush"} /\ elapsed = Grace /\ stage' = "killed"
  BY DEF Kill
<1>3. TypeOK' /\ BootInv' /\ StopInv'
  BY <1>1, <1>2 DEF LifeInv, TypeOK, BootInv, StopInv, Items, Stages, BootStages
<1>4. ServerInv' /\ server = ServerFromEnv(env)
  BY <1>1, <1>2 DEF LifeInv, ServerInv
<1>5. OpenInv'
  BY <1>2 DEF OpenInv, Closed
<1>6. KillSparesRequests'
  <2> SUFFICES ASSUME env.drain.kind = "number" => env.drain.n < Grace
               PROVE  /\ \A r \in Requests : req[r] # "running"
                      /\ server.shutdown_timeout + 2 * ExportTimeout + GuardTimeout >= Grace
    BY <1>1 DEF KillSparesRequests
  <2>1. server.shutdown_timeout < Grace
    BY <1>4, DrainTime, LifecycleAssumption DEF LifeInv, TypeOK
  <2>2. /\ Grace \in Nat /\ server.shutdown_timeout \in Nat /\ began \in Nat
        /\ ExportTimeout \in Nat /\ GuardTimeout \in Nat
    BY ServerAssumption, LifecycleAssumption DEF LifeInv, TypeOK
  <2>3. stage = "flush"
    BY <1>2, <2>1, <2>2 DEF LifeInv, StopInv
  <2>4. /\ pos \in 1 .. 3 /\ \A r \in Requests : req[r] # "running"
        /\ began <= server.shutdown_timeout + Before(pos)
        /\ Grace <= began + FlushTimeout(FlushOrder[pos])
    BY <1>2, <2>3 DEF LifeInv, StopInv
  <2>5. \A n \in 1 .. 3 : /\ FlushTimeout(FlushOrder[n]) \in Nat
                          /\ n # 3 => FlushTimeout(FlushOrder[n]) <= ExportTimeout
                          /\ n = 3 => FlushTimeout(FlushOrder[n]) <= GuardTimeout
    BY FlushPlaces, FlushTimes
  <2>6. PICK f \in Nat : f = FlushTimeout(FlushOrder[pos])
    BY <2>4, <2>5
  <2>7. Before(pos) + f <= 2 * ExportTimeout + GuardTimeout /\ Before(pos) \in Nat
    BY <2>2, <2>4, <2>5, <2>6 DEF Before
  <2> QED BY <2>2, <2>4, <2>6, <2>7
<1> QED BY <1>1, <1>3, <1>4, <1>5, <1>6, StillKept DEF LifeInv

(* Time passes. *)
LEMMA TickLife ==
    ASSUME LifeInv, Tick
    PROVE  LifeInv'
<1>1. /\ UNCHANGED <<env, stage, server, target, queue, out, failed, req, pos, began, up, lines>>
      /\ elapsed < Grace /\ elapsed' = elapsed + 1
  BY DEF Tick, telemetryVars
<1>2. \/ stage = "draining" /\ elapsed < server.shutdown_timeout
      \/ stage = "flush" /\ elapsed < began + FlushTimeout(FlushOrder[pos])
  BY DEF Tick
<1>3. Grace \in Nat /\ elapsed \in Nat /\ began \in 0 .. elapsed /\ server.shutdown_timeout \in Nat
  BY ServerAssumption DEF LifeInv, TypeOK
<1>4. elapsed' \in 0 .. Grace /\ began' \in 0 .. elapsed'
  BY <1>1, <1>3
<1>5. TypeOK' /\ BootInv'
  BY <1>1, <1>4 DEF LifeInv, TypeOK, BootInv, Items
<1>6. ServerInv' /\ KillSparesRequests'
  BY <1>1 DEF LifeInv, ServerInv, KillSparesRequests
<1>7. OpenInv'
  <2>1. \A c : Dest(c)' = Dest(c)
    BY <1>1 DEF Dest
  <2> QED BY <1>1, <2>1 DEF LifeInv, OpenInv, Closed
<1>8. StopInv'
  <2>1. /\ FlushTimeout(FlushOrder[pos])' = FlushTimeout(FlushOrder[pos])
        /\ FlushTimeout(FlushOrder[pos]) \in Nat
    BY <1>1, FlushTimes DEF FlushTimeout, FlushOrder, On
  <2>2. CASE stage = "draining"
    BY <1>1, <1>2, <1>3, <2>2 DEF StopInv, BootStages
  <2>3. CASE stage = "flush"
    <3>1. PICK f \in Nat : f = FlushTimeout(FlushOrder[pos])
      BY <2>1
    <3>2. elapsed' <= began' + f
      BY <1>1, <1>2, <1>3, <2>3, <3>1
    <3> QED BY <1>1, <2>1, <2>3, <3>1, <3>2 DEF LifeInv, StopInv, Before, BootStages
  <2> QED BY <1>2, <2>2, <2>3
<1> QED BY <1>1, <1>5, <1>6, <1>7, <1>8, StillKept DEF LifeInv

(* A request is accepted. *)
LEMMA AcceptLife ==
    ASSUME LifeInv, NEW r \in Requests, Accept(r)
    PROVE  LifeInv'
<1>1. /\ UNCHANGED <<env, stage, server, target, queue, out, failed, elapsed, pos, began, up, lines>>
      /\ stage = "serving" /\ req[r] = "idle" /\ req' = [req EXCEPT ![r] = "running"]
  BY DEF Accept, telemetryVars, stopVars
<1>2. TypeOK' /\ BootInv' /\ StopInv'
  BY <1>1 DEF LifeInv, TypeOK, BootInv, StopInv, Items, Stages, BootStages
<1>3. ServerInv' /\ KillSparesRequests'
  BY <1>1 DEF LifeInv, ServerInv, KillSparesRequests
<1>4. \A c : Dest(c)' = Dest(c)
  BY <1>1 DEF Dest
<1>5. OpenInv'
  BY <1>1, <1>4 DEF LifeInv, OpenInv, Closed
<1>6. KeptInv'
  <2>1. \A c : Data(c)' = Data(c)
    <3>1. \A q \in Requests : req'[q] = "finished" <=> req[q] = "finished"
      BY <1>1 DEF LifeInv, TypeOK
    <3> QED BY <1>1, <3>1 DEF Data
  <2> QED BY <1>1, <1>4, <2>1 DEF LifeInv, KeptInv, WellAddressed
<1> QED BY <1>2, <1>3, <1>5, <1>6 DEF LifeInv

(* A batch is sent. *)
LEMMA ExportLife ==
    ASSUME LifeInv, NEW ch \in Channels, Export(ch)
    PROVE  LifeInv'
<1>1. /\ UNCHANGED <<env, stage, server, target, req, elapsed, pos, began, up, lines>>
      /\ stage \in {"serving", "draining"} /\ queue' = [queue EXCEPT ![ch] = {}]
  BY DEF Export, stopVars
<1>2. /\ out' = [out EXCEPT ![ch] = IF ch \in up /\ target[ch] = Listens[ch]
                                    THEN out[ch] \cup queue[ch] ELSE out[ch]]
      /\ failed' = IF ch \in up THEN failed ELSE failed \cup {ch}
  BY DEF Export, Sent
<1>3. /\ queue \in [Channels -> SUBSET (Requests \cup Lines)]
      /\ out \in [Channels -> SUBSET (Requests \cup Lines)]
      /\ \A c \in Channels : queue[c] \subseteq Items(c) /\ out[c] \subseteq Items(c)
  BY DEF LifeInv, TypeOK
<1>4. \A c \in Channels : /\ queue'[c] = IF c = ch THEN {} ELSE queue[c]
                          /\ out[c] \subseteq out'[c] /\ out'[c] \subseteq out[c] \cup queue[c]
                          /\ c # ch => out'[c] = out[c]
  BY <1>1, <1>2, <1>3
<1>5. /\ queue' \in [Channels -> SUBSET (Requests \cup Lines)]
      /\ out' \in [Channels -> SUBSET (Requests \cup Lines)]
  BY <1>1, <1>2, <1>3
<1>6. \A c \in Channels : queue'[c] \subseteq Items(c) /\ out'[c] \subseteq Items(c)
  BY <1>3, <1>4
<1>7. TypeOK'
  BY <1>1, <1>2, <1>5, <1>6 DEF LifeInv, TypeOK, Items
<1>8. BootInv' /\ StopInv' /\ ServerInv' /\ KillSparesRequests'
  BY <1>1 DEF LifeInv, BootInv, StopInv, ServerInv, KillSparesRequests, BootStages
<1>9. \A c : Dest(c)' = Dest(c) /\ Data(c)' = Data(c)
  BY <1>1 DEF Dest, Data
<1>10. OpenInv'
  BY <1>1, <1>9 DEF LifeInv, OpenInv, Closed
<1>11. KeptInv'
  <2> SUFFICES ASSUME WellAddressed, NEW c \in Channels, Dest(c) # NoUrl, c \notin failed'
               PROVE  Data(c) \subseteq out'[c] \cup queue'[c]
    BY <1>1, <1>9 DEF KeptInv, WellAddressed
  <2>1. Data(c) \subseteq out[c] \cup queue[c]
    BY <1>2 DEF LifeInv, KeptInv
  <2>2. CASE c = ch
    <3>1. ch \in up /\ target[ch] = Listens[ch]
      BY <1>1, <1>2, <2>2 DEF LifeInv, OpenInv, Closed, WellAddressed
    <3>2. out'[ch] = out[ch] \cup queue[ch]
      BY <1>2, <1>3, <3>1
    <3> QED BY <2>1, <2>2, <3>2
  <2>3. CASE c # ch
    BY <1>4, <2>1, <2>3
  <2> QED BY <2>2, <2>3
<1> QED BY <1>7, <1>8, <1>10, <1>11 DEF LifeInv

(* The drain is over: what is still running is cut off. *)
LEMMA DrainLife ==
    ASSUME LifeInv, DrainEnds
    PROVE  LifeInv'
<1>1. /\ UNCHANGED <<env, server, target, queue, out, failed, elapsed, up, lines>>
      /\ stage = "draining" /\ stage' = "flush" /\ pos' = 1 /\ began' = elapsed
      /\ req' = [r \in Requests |-> IF req[r] = "running" THEN "cut" ELSE req[r]]
  BY DEF DrainEnds, telemetryVars
<1>2. elapsed \in Nat /\ server.shutdown_timeout \in Nat /\ elapsed <= server.shutdown_timeout
  BY <1>1, ServerAssumption DEF LifeInv, TypeOK, StopInv
<1>3. TypeOK' /\ BootInv'
  BY <1>1, <1>2 DEF LifeInv, TypeOK, BootInv, Items, Stages, BootStages
<1>4. ServerInv' /\ KillSparesRequests'
  BY <1>1 DEF LifeInv, ServerInv, KillSparesRequests
<1>5. \A c : Dest(c)' = Dest(c)
  BY <1>1 DEF Dest
<1>6. OpenInv'
  <2>1. \A c \in Channels : ~Closed(c)' /\ ~Closed(c)
    BY <1>1 DEF Closed, Place
  <2> QED BY <1>1, <1>5, <2>1 DEF LifeInv, OpenInv
<1>7. StopInv'
  <2>1. FlushTimeout(FlushOrder[pos])' \in Nat
    BY LifecycleAssumption DEF FlushTimeout
  <2>2. PICK f \in Nat : f = FlushTimeout(FlushOrder[pos])'
    BY <2>1
  <2>3. elapsed <= elapsed + f /\ elapsed <= server.shutdown_timeout + 0
    BY <1>2, <2>2
  <2>4. \A r \in Requests : req'[r] # "running"
    BY <1>1
  <2> QED BY <1>1, <2>2, <2>3, <2>4 DEF StopInv, Before, BootStages
<1>8. KeptInv'
  <2>1. \A c : Data(c)' = Data(c)
    <3>1. \A q \in Requests : req'[q] = "finished" <=> req[q] = "finished"
      BY <1>1
    <3> QED BY <1>1, <3>1 DEF Data
  <2> QED BY <1>1, <1>5, <2>1 DEF LifeInv, KeptInv, WellAddressed
<1> QED BY <1>3, <1>4, <1>6, <1>7, <1>8 DEF LifeInv

(* An ERROR is an issue (event_filter). *)
LEMMA ErrorsAreIssues == "issue" \in EventFilter("ERROR", FALSE)
  BY DEF EventFilter

(* What a request leaves behind reaches the queue of every channel that is on. *)
LEMMA FinishLife ==
    ASSUME LifeInv, NEW r \in Requests, Finish(r)
    PROVE  LifeInv'
<1>1. /\ UNCHANGED <<env, stage, server, target, out, failed, elapsed, pos, began, up>>
      /\ stage \in {"serving", "draining"} /\ req[r] = "running"
  BY DEF Finish, stopVars
<1>2. PICK span \in {{}, {r}}, done \in {{}, {<<"completed", r>>}},
           errors \in {{}, {<<"failed", r>>}} :
        /\ req' = [req EXCEPT ![r] = IF span = {r} THEN "finished" ELSE "untraced"]
        /\ lines' = lines \cup (done \cup errors)
        /\ queue' = Queued([traces |-> span, logs |-> done \cup errors, issues |-> errors])
  <2>1. PICK sampled \in BOOLEAN, error \in BOOLEAN :
          LET traced  == sampled /\ Passes("INFO")
              errors  == IF error /\ Passes("ERROR") THEN {<<"failed", r>>} ELSE {}
              written == (IF Passes("INFO") THEN {<<"completed", r>>} ELSE {}) \cup errors IN
          /\ req' = [req EXCEPT ![r] = IF traced THEN "finished" ELSE "untraced"]
          /\ lines' = lines \cup written
          /\ queue' = Queued([traces |-> IF traced THEN {r} ELSE {}, logs |-> written,
                              issues |-> errors])
    BY ErrorsAreIssues DEF Finish
  <2> DEFINE traced == sampled /\ Passes("INFO")
             span   == IF traced THEN {r} ELSE {}
             done   == IF Passes("INFO") THEN {<<"completed", r>>} ELSE {}
             errors == IF error /\ Passes("ERROR") THEN {<<"failed", r>>} ELSE {}
  <2>2. span \in {{}, {r}} /\ done \in {{}, {<<"completed", r>>}} /\ errors \in {{}, {<<"failed", r>>}}
    OBVIOUS
  <2>3. traced <=> span = {r}
    OBVIOUS
  <2>4. /\ req' = [req EXCEPT ![r] = IF traced THEN "finished" ELSE "untraced"]
        /\ lines' = lines \cup (done \cup errors)
        /\ queue' = Queued([traces |-> span, logs |-> done \cup errors, issues |-> errors])
    BY <2>1
  <2> HIDE DEF span, done, errors
  <2>5. req' = [req EXCEPT ![r] = IF span = {r} THEN "finished" ELSE "untraced"]
    BY <2>3, <2>4
  <2> QED BY <2>2, <2>4, <2>5
<1> DEFINE new == [traces |-> span, logs |-> done \cup errors, issues |-> errors]
<1>3. /\ queue \in [Channels -> SUBSET (Requests \cup Lines)]
      /\ \A c \in Channels : queue[c] \subseteq Items(c) /\ out[c] \subseteq Items(c)
      /\ req \in [Requests -> {"idle", "running", "finished", "untraced", "cut"}]
      /\ lines \subseteq Lines
  BY DEF LifeInv, TypeOK
<1>4. done \cup errors \subseteq Lines /\ errors \subseteq Lines /\ span \subseteq Requests
  BY DEF Lines
<1>5. \A c \in Channels : new[c] \subseteq Items(c)
  BY <1>4 DEF Channels, Items
<1>6. \A c \in Channels : Items(c) \subseteq Requests \cup Lines
  BY DEF Items
<1> HIDE DEF new
<1>7. queue' = [c \in Channels |-> IF On(c) THEN queue[c] \cup new[c] ELSE queue[c]]
  BY <1>2 DEF Queued, new
<1>8. \A c \in Channels : /\ queue'[c] \subseteq Items(c) /\ queue[c] \subseteq queue'[c]
                          /\ On(c) => queue'[c] = queue[c] \cup new[c]
  BY <1>3, <1>5, <1>7
<1>9. queue' \in [Channels -> SUBSET (Requests \cup Lines)]
  BY <1>6, <1>7, <1>8
<1>10. TypeOK'
  <2>1. lines' \subseteq Lines
    BY <1>2, <1>3, <1>4
  <2>2. req' \in [Requests -> {"idle", "running", "finished", "untraced", "cut"}]
    BY <1>2, <1>3
  <2> QED BY <1>1, <1>3, <1>8, <1>9, <2>1, <2>2 DEF LifeInv, TypeOK, Items
<1>11. BootInv' /\ StopInv' /\ ServerInv' /\ KillSparesRequests'
  BY <1>1 DEF LifeInv, BootInv, StopInv, ServerInv, KillSparesRequests, BootStages
<1>12. \A c : Dest(c)' = Dest(c)
  BY <1>1 DEF Dest
<1>13. \A c \in Channels : ~Closed(c) /\ ~Closed(c)' /\ target[c] = Dest(c)
  BY <1>1 DEF LifeInv, OpenInv, Closed
<1>14. OpenInv'
  BY <1>1, <1>12, <1>13 DEF OpenInv
<1>15. \A c \in Channels : Data(c)' \subseteq Data(c) \cup new[c]
  <2>1. Data("traces")' \subseteq Data("traces") \cup new["traces"]
    <3>1. \A q \in Requests : req'[q] = "finished" => req[q] = "finished" \/ (q = r /\ span = {r})
      BY <1>2, <1>3
    <3>2. /\ Data("traces")' = {q \in Requests : req'[q] = "finished"}
          /\ Data("traces") = {q \in Requests : req[q] = "finished"}
      BY DEF Data
    <3> QED BY <3>1, <3>2 DEF new
  <2>2. Data("logs")' \subseteq Data("logs") \cup new["logs"]
    BY <1>2 DEF Data, new
  <2>3. Data("issues")' \subseteq Data("issues") \cup new["issues"]
    <3>1. \A l \in done : l[1] # "failed"
      OBVIOUS
    <3>2. Data("issues")' = {l \in lines' : l[1] = "failed"} /\ Data("issues") = {l \in lines : l[1] = "failed"}
      BY DEF Data
    <3> QED BY <1>2, <3>1, <3>2 DEF new
  <2> QED BY <2>1, <2>2, <2>3 DEF Channels
<1>16. KeptInv'
  <2> SUFFICES ASSUME WellAddressed, NEW c \in Channels, Dest(c) # NoUrl, c \notin failed
               PROVE  Data(c)' \subseteq out[c] \cup queue'[c]
    BY <1>1, <1>12 DEF KeptInv, WellAddressed
  <2>1. Data(c) \subseteq out[c] \cup queue[c]
    BY DEF LifeInv, KeptInv
  <2>2. On(c)
    BY <1>13 DEF On
  <2> QED BY <1>8, <1>15, <2>1, <2>2
<1> QED BY <1>10, <1>11, <1>14, <1>16 DEF LifeInv

(* A flush empties its channel: the last batch arrives, or the channel has
   failed; a warning of the flush of the spans is queued with the logs. *)
LEMMA FlushLife ==
    ASSUME LifeInv, Flush
    PROVE  LifeInv'
<1> DEFINE ch   == FlushOrder[pos]
           warn == IF On(ch) /\ Passes("WARN") THEN Warning(ch) ELSE {}
<1>1. /\ UNCHANGED <<env, server, req, elapsed, up>>
      /\ stage = "flush" /\ began' = elapsed
      /\ pos' = IF pos = 3 THEN 0 ELSE pos + 1
      /\ stage' = IF pos = 3 THEN "exited" ELSE "flush"
  BY DEF Flush
<1>2. /\ lines' = lines \cup warn
      /\ target' = [target EXCEPT ![ch] = NoUrl]
      /\ queue' = [c \in Channels |->
           IF c = ch THEN {} ELSE IF c = "logs" /\ On(c) THEN queue[c] \cup warn ELSE queue[c]]
  BY DEF Flush
<1>3. \/ On(ch) /\ Sent(ch)
      \/ ~On(ch) /\ UNCHANGED <<out, failed>>
  BY DEF Flush
<1>4. pos \in 1 .. 3 /\ \A r \in Requests : req[r] # "running"
  BY <1>1 DEF LifeInv, StopInv
<1>5. ch \in Channels /\ Place(ch) = pos
  BY <1>4, FlushPlaces
<1>6. /\ target \in [Channels -> Url]
      /\ queue \in [Channels -> SUBSET (Requests \cup Lines)]
      /\ out \in [Channels -> SUBSET (Requests \cup Lines)]
      /\ \A c \in Channels : queue[c] \subseteq Items(c) /\ out[c] \subseteq Items(c)
      /\ lines \subseteq Lines /\ failed \subseteq Channels /\ up \subseteq Channels
  BY DEF LifeInv, TypeOK
<1>7. /\ warn \subseteq Lines /\ \A l \in warn : l[1] # "failed"
      /\ warn # {} => ch \notin up /\ ch # "issues"
  <2>1. CASE warn = {}
    BY <2>1
  <2>2. CASE warn # {}
    <3>1. warn = {<<"warning", ch>>} /\ ch # "issues" /\ ch \notin up
      BY <2>2 DEF Warning
    <3>2. ch \in {"traces", "logs"}
      BY <1>5, <3>1 DEF Channels
    <3>3. <<"warning", ch>> \in Lines /\ <<"warning", ch>>[1] # "failed"
      BY <3>2 DEF Lines
    <3> QED BY <3>1, <3>3
  <2> QED BY <2>1, <2>2
<1> HIDE DEF ch, warn
<1>8. /\ out' \in [Channels -> SUBSET (Requests \cup Lines)] /\ failed' \subseteq Channels
      /\ failed \subseteq failed' /\ (On(ch) /\ ch \notin up => ch \in failed')
      /\ \A c \in Channels : /\ out[c] \subseteq out'[c] /\ out'[c] \subseteq out[c] \cup queue[c]
                             /\ c # ch => out'[c] = out[c]
      /\ On(ch) /\ ch \in up /\ target[ch] = Listens[ch] => out'[ch] = out[ch] \cup queue[ch]
  BY <1>3, <1>5, <1>6 DEF Sent
<1>9. \A c \in Channels : Items(c) \subseteq Requests \cup Lines /\ (c = "logs" => Items(c) = Lines)
  BY DEF Items
<1>10. \A c \in Channels : /\ queue'[c] = IF c = ch THEN {}
                                          ELSE IF c = "logs" /\ On(c) THEN queue[c] \cup warn
                                          ELSE queue[c]
                           /\ queue'[c] \subseteq Items(c)
  BY <1>2, <1>6, <1>7, <1>9
<1>11. queue' \in [Channels -> SUBSET (Requests \cup Lines)]
  <2>1. \A c \in Channels : queue'[c] \in SUBSET (Requests \cup Lines)
    BY <1>9, <1>10
  <2> QED BY <1>2, <2>1
<1>12. TypeOK'
  <2>1. NoUrl \in Url
    <3>1. <<>> \in Seq(Words)
      OBVIOUS
    <3>2. "none" \in Words
      BY ServerAssumption
    <3> QED BY <3>1, <3>2 DEF NoUrl, Url
  <2>2. target' \in [Channels -> Url] /\ lines' \subseteq Lines
    BY <1>2, <1>5, <1>6, <1>7, <2>1
  <2>3. \A c \in Channels : queue'[c] \subseteq Items(c) /\ out'[c] \subseteq Items(c)
    BY <1>6, <1>8, <1>10
  <2>4. elapsed' \in 0 .. Grace /\ began' \in 0 .. elapsed' /\ pos' \in 0 .. 3
    BY <1>1, <1>4, ServerAssumption DEF LifeInv, TypeOK
  <2>5. stage' \in Stages
    BY <1>1 DEF Stages
  <2> QED BY <1>1, <1>8, <1>11, <2>2, <2>3, <2>4, <2>5 DEF LifeInv, TypeOK, Items
<1>13. BootInv' /\ ServerInv' /\ KillSparesRequests'
  BY <1>1 DEF LifeInv, BootInv, ServerInv, KillSparesRequests, BootStages
<1>14. \A c : Dest(c)' = Dest(c)
  BY <1>1 DEF Dest
<1>15. \A c \in Channels : Closed(c)' <=> Closed(c) \/ c = ch
  <2> SUFFICES ASSUME NEW c \in Channels PROVE Closed(c)' <=> Closed(c) \/ c = ch
    OBVIOUS
  <2>1. Place(c) \in 1 .. 3 /\ (c = ch <=> Place(c) = pos)
    BY <1>5, FlushPlaces DEF ch
  <2>2. Closed(c) <=> Place(c) < pos
    BY <1>1 DEF Closed
  <2>3. Closed(c)' <=> pos = 3 \/ Place(c) < pos + 1
    BY <1>1, <1>4 DEF Closed, Place
  <2> QED BY <1>4, <2>1, <2>2, <2>3
<1>16. target[ch] = Dest(ch) /\ \A c \in Channels : ~Closed(c) => target[c] = Dest(c)
  <2>1. ~Closed(ch)
    BY <1>1, <1>4, <1>5 DEF Closed
  <2> QED BY <1>1, <1>5, <2>1 DEF LifeInv, OpenInv
<1>17. OpenInv'
  <2> SUFFICES ASSUME NEW c \in Channels
               PROVE  /\ ~Closed(c)' => target'[c] = Dest(c)
                      /\ Closed(c)' => queue'[c] = {}
    BY <1>14 DEF OpenInv
  <2>1. ~Closed(c)' => target'[c] = Dest(c)
    BY <1>2, <1>6, <1>15, <1>16
  <2>2. ASSUME Closed(c), c # ch PROVE queue'[c] = {}
    <3>1. queue[c] = {}
      BY <2>2 DEF LifeInv, OpenInv
    <3>2. CASE c = "logs"
      <4>1. ch = "issues"
        BY <1>1, <1>4, <1>5, <2>2, <3>2 DEF Closed, Place, Channels
      <4> QED BY <1>7, <1>10, <3>1, <4>1
    <3>3. CASE c # "logs"
      BY <1>10, <3>1, <3>3, <2>2
    <3> QED BY <3>2, <3>3
  <2> QED BY <1>5, <1>10, <1>15, <2>1, <2>2
<1>18. StopInv'
  <2> DEFINE f == FlushTimeout(ch)
  <2>1. /\ server.shutdown_timeout \in Nat /\ elapsed \in Nat /\ began \in Nat
        /\ ExportTimeout \in Nat
    BY ServerAssumption, LifecycleAssumption DEF LifeInv, TypeOK
  <2>2. began <= server.shutdown_timeout + Before(pos) /\ elapsed <= began + f
    BY <1>1 DEF LifeInv, StopInv, ch
  <2>3. f \in Nat /\ (pos # 3 => f <= ExportTimeout)
    BY <1>4, FlushPlaces, FlushTimes DEF ch
  <2>4. PICK g \in Nat : g = FlushTimeout(FlushOrder[pos])'
    BY LifecycleAssumption DEF FlushTimeout
  <2> HIDE DEF f
  <2>5. ASSUME pos # 3 PROVE elapsed <= server.shutdown_timeout + Before(pos + 1)
    <3>1. CASE pos = 1
      BY <2>1, <2>2, <2>3, <3>1 DEF Before
    <3>2. CASE pos = 2
      BY <2>1, <2>2, <2>3, <3>2 DEF Before
    <3> QED BY <1>4, <2>5, <3>1, <3>2
  <2>6. CASE pos = 3
    BY <1>1, <2>6 DEF StopInv, BootStages
  <2>7. CASE pos # 3
    <3>1. pos' \in 1 .. 3 /\ pos' = pos + 1 /\ stage' = "flush"
      BY <1>1, <1>4, <2>7
    <3>2. Before(pos)' = Before(pos + 1)
      BY <3>1 DEF Before
    <3>3. elapsed <= elapsed + g
      BY <2>1
    <3> QED BY <1>1, <1>4, <2>4, <2>5, <2>7, <3>1, <3>2, <3>3 DEF StopInv, BootStages
  <2> QED BY <2>6, <2>7
<1>19. KeptInv'
  <2> SUFFICES ASSUME WellAddressed, NEW c \in Channels, Dest(c) # NoUrl, c \notin failed'
               PROVE  Data(c)' \subseteq out'[c] \cup queue'[c]
    BY <1>1, <1>14 DEF KeptInv, WellAddressed
  <2>1. Data(c) \subseteq out[c] \cup queue[c]
    BY <1>8 DEF LifeInv, KeptInv
  <2>2. Data(c)' \subseteq IF c = "logs" THEN Data(c) \cup warn ELSE Data(c)
    BY <1>1, <1>2, <1>7 DEF Data
  <2>3. CASE c = ch
    <3>1. On(ch) /\ ch \in up /\ target[ch] = Listens[ch]
      BY <1>8, <1>16, <2>3 DEF On, WellAddressed
    <3>2. warn = {}
      BY <1>7, <3>1
    <3> QED BY <1>8, <2>1, <2>2, <2>3, <3>1, <3>2
  <2>4. CASE c # ch
    <3>1. CASE c # "logs"
      BY <1>8, <1>10, <2>1, <2>2, <2>4, <3>1
    <3>2. CASE c = "logs" /\ warn = {}
      BY <1>8, <1>10, <2>1, <2>2, <2>4, <3>2
    <3>3. CASE c = "logs" /\ warn # {}
      <4>1. ~Closed(c)
        BY <1>1, <1>4, <1>5, <1>7, <2>4, <3>3 DEF Closed, Place, Channels
      <4>2. On(c)
        BY <1>16, <4>1 DEF On
      <4> QED BY <1>8, <1>10, <2>1, <2>2, <2>4, <3>3, <4>2
    <3> QED BY <3>1, <3>2, <3>3
  <2> QED BY <2>3, <2>4
<1> QED BY <1>12, <1>13, <1>17, <1>18, <1>19 DEF LifeInv

(* LifeInv is inductive. *)
LEMMA StepLife ==
    ASSUME LifeInv, [Next]_vars
    PROVE  LifeInv'
<1>1. CASE UNCHANGED vars
  <2>1. UNCHANGED <<env, stage, server, target, queue, out, failed, req, elapsed, pos, began, up,
                    lines>>
    BY <1>1 DEF vars, telemetryVars, stopVars
  <2>2. TypeOK' /\ BootInv' /\ ServerInv' /\ KillSparesRequests'
    BY <2>1 DEF LifeInv, TypeOK, Items, BootInv, ServerInv, KillSparesRequests
  <2>3. OpenInv'
    <3>1. \A c : Dest(c)' = Dest(c)
      BY <2>1 DEF Dest
    <3> QED BY <2>1, <3>1 DEF LifeInv, OpenInv, Closed
  <2>4. StopInv'
    <3>1. FlushTimeout(FlushOrder[pos])' = FlushTimeout(FlushOrder[pos])
      BY <2>1 DEF FlushTimeout, FlushOrder, On
    <3> QED BY <2>1, <3>1 DEF LifeInv, StopInv, Before
  <2> QED BY <2>1, <2>2, <2>3, <2>4, StillKept DEF LifeInv
<1>2. CASE BootStep
  <2>1. {"port", "redis", "auth", "limits", "bind"} \subseteq BootStages \ {"telemetry", "server"}
    BY DEF BootStages
  <2>2. CASE ReadPort
    BY <2>1, <2>2, BootLife DEF ReadPort
  <2>3. CASE OpenRedis
    BY <2>1, <2>3, BootLife DEF OpenRedis
  <2>4. CASE ReadAuth
    BY <2>1, <2>4, BootLife DEF ReadAuth
  <2>5. CASE BuildLimits
    BY <2>1, <2>5, BootLife DEF BuildLimits
  <2>6. CASE Bind
    BY <2>1, <2>6, BootLife DEF Bind
  <2> QED BY <1>2, <2>2, <2>3, <2>4, <2>5, <2>6, SubscriberLife, ConfigureLife DEF BootStep
<1>3. ASSUME NEW r \in Requests, Accept(r) \/ Finish(r) PROVE LifeInv'
  BY <1>3, AcceptLife, FinishLife
<1>4. ASSUME NEW ch \in Channels, Export(ch) \/ CollectorTurns(ch) PROVE LifeInv'
  BY <1>4, ExportLife, CollectorLife
<1> QED BY <1>1, <1>2, <1>3, <1>4, SignalLife, DrainLife, FlushLife, KillLife, TickLife DEF Next

-----------------------------------------------------------------------------
(***************************************************************************)
(* The theorems                                                            *)
(***************************************************************************)
(* The invariant holds of every process, in every environment. *)
THEOREM LifeCorrect == Spec => []LifeInv
<1>1. Init => LifeInv
  BY InitLife
<1>2. LifeInv /\ [Next]_vars => LifeInv'
  BY StepLife
<1> QED BY <1>1, <1>2, PTL DEF Spec

(* The state of a process has its type. *)
THEOREM LifeTypeCorrect == Spec => []TypeOK
<1>1. LifeInv => TypeOK
  BY DEF LifeInv
<1> QED BY <1>1, LifeCorrect, PTL

(* SIGKILL never meets a request in flight, whatever the timeouts, as long as the
   drain that is asked for (shutdown_timeout) is shorter than the grace period. *)
THEOREM KillSparesRequestsHolds == Spec => []KillSparesRequests
<1>1. LifeInv => KillSparesRequests
  BY DEF LifeInv
<1> QED BY <1>1, LifeCorrect, PTL

(* The worker count of ServerConfig::from_env fits the quota and the cores, for
   every quota, period and number of cores - given a parallelism that is already
   limited by the quota. *)
THEOREM WorkersFitHolds == Spec => []WorkersFit
<1>1. LifeInv => WorkersFit
  <2> SUFFICES ASSUME LifeInv, stage = "serving" PROVE WorkersFit
    BY DEF WorkersFit
  <2> DEFINE auto == AutoFromEnv(env)
  <2>1. env \in EnvType /\ server = ServerFromEnv(env)
    BY LifecycleAssumption DEF LifeInv, TypeOK, ServerInv
  <2>2. server.workers \in Nat /\ server.workers >= 1
    BY <2>1, ServerType
  <2>3. ~Asked => server.workers = auto
    BY <2>1 DEF ServerFromEnv, parse_workers, Asked
  <2>4. LET q == cpu_quota(env.v2, env.v1) IN
        /\ auto = 1 \/ auto <= env.cores
        /\ q = NoQuota => auto <= DEFAULT_MAX_WORKERS
        /\ q # NoQuota => /\ auto = 1 \/ auto * q.period <= q.quota
                          /\ (auto + 1) * q.period > q.quota \/ auto >= env.cores
    BY <2>1, AutoWorkers
  <2> HIDE DEF auto
  <2> QED BY <2>2, <2>3, <2>4 DEF WorkersFit
<1> QED BY <1>1, LifeCorrect, PTL

(* A process that ends by itself has delivered what it was to deliver, on every
   channel that is on and whose collector was there whenever it was needed -
   given that the addresses of its environment are those of the collectors. *)
THEOREM NothingLostHolds == Spec => [](WellAddressed => NothingLost)
<1>1. LifeInv => (WellAddressed => NothingLost)
  <2> SUFFICES ASSUME LifeInv, WellAddressed, stage = "exited" PROVE NothingLost
    BY DEF NothingLost
  <2>1. \A ch \in Channels : Closed(ch) /\ queue[ch] = {}
    BY DEF LifeInv, OpenInv, Closed
  <2>2. \A ch \in Channels : Dest(ch) # NoUrl /\ ch \notin failed => Data(ch) \subseteq out[ch]
    BY <2>1 DEF LifeInv, KeptInv
  <2>3. "traces" \in Channels /\ "logs" \in Channels /\ "issues" \in Channels
    BY DEF Channels
  <2>4. Dest("traces") = init_tracer_provider(env) /\ Dest("logs") = init_logger_provider(env)
    BY Zenon DEF Dest
  <2>5. Dest("issues") = init_glitchtip(env, Listens["issues"])
    BY Zenon DEF Dest
  <2>6. read_dsn(env) = "good" => Dest("issues") # NoUrl
    BY <2>3, <2>5, LifecycleAssumption DEF init_glitchtip
  <2>7. /\ Data("traces") = {r \in Requests : req[r] = "finished"} /\ Data("logs") = lines
        /\ Data("issues") = {l \in lines : l[1] = "failed"}
    BY DEF Data
  <2> QED BY <2>2, <2>3, <2>4, <2>6, <2>7 DEF NothingLost
<1> QED BY <1>1, LifeCorrect, PTL
=============================================================================
