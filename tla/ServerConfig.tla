---------------------------- MODULE ServerConfig ----------------------------
(***************************************************************************)
(* What the process makes of its environment before it serves: the worker  *)
(* count and timeouts of server.rs, and the addresses telemetry is sent to *)
(* (tracing_otel.rs, sentry_glitchtip.rs).                                 *)
(*                                                                         *)
(* A variable that holds a number, or does not, is a record; a CPU quota   *)
(* is a fraction, quota microseconds of every period.                      *)
(***************************************************************************)
EXTENDS Integers, Sequences

CONSTANTS
    DEFAULT_MAX_WORKERS,
    DEFAULT_SHUTDOWN_TIMEOUT_SECONDS,
    Grace,      \* terminationGracePeriodSeconds of the deployment
    Words       \* hosts, and segments of paths, of the addresses of collectors

ASSUME ServerAssumption ==
    /\ DEFAULT_MAX_WORKERS \in Nat \ {0}
    /\ DEFAULT_SHUTDOWN_TIMEOUT_SECONDS \in Nat
    /\ Grace \in Nat
    /\ DEFAULT_SHUTDOWN_TIMEOUT_SECONDS < Grace
    /\ {"none", "v1/traces", "v1/logs"} \subseteq Words

Var    == [kind : {"unset", "blank", "auto", "junk", "number"}, n : Nat]
Cgroup == [kind : {"absent", "junk", "max", "pair"}, quota : Int, period : Int]
Url    == [host : Words, path : Seq(Words), slashes : Nat]
Text   == [kind : {"unset", "blank", "url"}, url : Url]

(* A DSN that parses, and one that does not. *)
SomeDsn == {"good", "junk"}
Dsn     == {"unset", "blank"} \cup SomeDsn

(* What RUST_LOG lets through: the levels down to the one it names. *)
Filters == {{}, {"ERROR"}, {"ERROR", "WARN"}, {"ERROR", "WARN", "INFO"}}

-----------------------------------------------------------------------------
(* The server *)

parse_u64(v, default) == IF v.kind = "number" THEN v.n ELSE default

(* No quota; as None of the code. *)
NoQuota == [quota |-> 0, period |-> 1]

parse_cfs_quota(quota, period) ==
    IF quota <= 0 \/ period <= 0 THEN NoQuota ELSE [quota |-> quota, period |-> period]

parse_cpu_max(file) ==
    IF file.kind = "pair" THEN parse_cfs_quota(file.quota, file.period) ELSE NoQuota

(* cgroup v2, then v1; "max" is a word only v2 knows. *)
cpu_quota(v2, v1) ==
    IF parse_cpu_max(v2) # NoQuota THEN parse_cpu_max(v2)
    ELSE IF v1.kind = "pair" THEN parse_cfs_quota(v1.quota, v1.period)
    ELSE NoQuota

AtLeast(least, n) == IF n < least THEN least ELSE n
AtMost(most, n)   == IF n > most THEN most ELSE n

(* std::thread::available_parallelism (external): the cores the process may run
   on, and no more than the whole cores of its CPU quota - but at least one.
   The standard library reads the quota itself, from the same files. *)
available_parallelism(quota, cores) ==
    AtLeast(1, IF quota.quota > 0
               THEN AtMost(cores, AtLeast(1, quota.quota \div quota.period)) ELSE cores)

(* Mutated: without a quota as many workers as there are cores. *)
auto_workers_EveryCore(quota, parallelism) ==
    LET cores == AtLeast(1, parallelism)
        ceil  == (quota.quota + quota.period - 1) \div quota.period IN
    IF quota.quota > 0 THEN AtMost(cores, AtLeast(1, ceil)) ELSE cores

(* The quota rounded up, never more than the parallelism. *)
auto_workers(quota, parallelism) ==
    LET cores == AtLeast(1, parallelism)
        ceil  == (quota.quota + quota.period - 1) \div quota.period IN
    IF quota.quota > 0 THEN AtMost(cores, AtLeast(1, ceil))
    ELSE AtMost(DEFAULT_MAX_WORKERS, cores)

(* A positive number is taken, anything else means auto. *)
parse_workers(v, auto) == IF v.kind = "number" /\ v.n # 0 THEN v.n ELSE auto

(* auto_workers(cpu_quota(), available_parallelism()). *)
AutoFromEnv(e) ==
    LET quota == cpu_quota(e.v2, e.v1) IN
    auto_workers(quota, available_parallelism(quota, e.cores))

(* Mutated: the drain of actix. *)
ServerFromEnv_ActixDrain(e) ==
    [workers |-> parse_workers(e.workers, AutoFromEnv(e)),
     shutdown_timeout |-> parse_u64(e.drain, Grace)]

(* ServerConfig::from_env.  The timeouts of a connection are left out. *)
ServerFromEnv(e) ==
    [workers |-> parse_workers(e.workers, AutoFromEnv(e)),
     shutdown_timeout |-> parse_u64(e.drain, DEFAULT_SHUTDOWN_TIMEOUT_SECONDS)]

-----------------------------------------------------------------------------
(* Telemetry *)

NoUrl == [host |-> "none", path |-> <<>>, slashes |-> 0]

(* The address of a signal is complete; the path of the signal is appended to a
   base address, less its trailing slashes. *)
signal_endpoint(signal, base, path) ==
    IF signal.kind = "url" THEN signal.url
    ELSE IF base.kind = "url"
    THEN [host |-> base.url.host, path |-> Append(base.url.path, path), slashes |-> 0]
    ELSE NoUrl

(* Where a signal goes, NoUrl when it is off: no address, not enabled, or no
   exporter could be built - none of these is fatal. *)
init_tracer_provider(e) ==
    IF e.builds THEN signal_endpoint(e.traces, e.base, "v1/traces") ELSE NoUrl

init_logger_provider(e) ==
    IF e.logs_enabled /\ e.builds THEN signal_endpoint(e.logs, e.base, "v1/logs") ELSE NoUrl

(* GLITCHTIP_DSN, or SENTRY_DSN in its place: the first that is not blank,
   whether it parses or not. *)
read_dsn(e) ==
    IF e.dsn \in SomeDsn THEN e.dsn ELSE IF e.dsn_alt \in SomeDsn THEN e.dsn_alt ELSE "unset"

(* init of sentry_glitchtip.rs: the client sends to url, where the DSN points. *)
init_glitchtip(e, url) == IF read_dsn(e) = "good" THEN url ELSE NoUrl

(* Where GlitchTip puts an event of a level. *)
EventFilter(level, logs) ==
    CASE level = "ERROR" -> {"issue"}
      [] level \in {"WARN", "INFO"} -> IF logs THEN {"log", "breadcrumb"} ELSE {"breadcrumb"}
      [] level = "DEBUG" -> IF logs THEN {"log"} ELSE {}
      [] OTHER -> {}
=============================================================================
