---------------------------- MODULE MCLifecycle ----------------------------
(* Lifecycle for TLC: environments that differ in what each step of the start
   makes of them. *)
EXTENDS Lifecycle

num(n)    == [kind |-> "number", n |-> n]
word(k)   == [kind |-> k, n |-> 0]
unset     == [kind |-> "unset", url |-> NoUrl]
blank     == [kind |-> "blank", url |-> NoUrl]
url(p, s) == [kind |-> "url", url |-> [host |-> "collector", path |-> p, slashes |-> s]]
file(k, q, p) == [kind |-> k, quota |-> q, period |-> p]

Collectors ==
    [ch \in Channels |-> [host |-> "collector",
                          path |-> CASE ch = "traces" -> <<"v1/traces">>
                                     [] ch = "logs" -> <<"v1/logs">>
                                     [] OTHER -> <<"store">>,
                          slashes |-> 0]]

(* Everything on, one base address with a slash at its end. *)
Full ==
    [port |-> TRUE, redis_url |-> TRUE, auth |-> TRUE,
     periods |-> TRUE, free_port |-> TRUE, builds |-> TRUE, logs_enabled |-> TRUE,
     workers |-> word("unset"), drain |-> word("unset"),
     v2 |-> file("pair", 5, 2), v1 |-> file("absent", 0, 1), cores |-> 4,
     traces |-> unset, logs |-> unset, base |-> url(<<>>, 1),
     dsn |-> "blank", dsn_alt |-> "good", rust_log |-> {"ERROR", "WARN", "INFO"}]

(* Nothing on, and nothing said. *)
Bare == [Full EXCEPT !.logs_enabled = FALSE, !.base = unset, !.dsn_alt = "unset",
                     !.v2 = file("max", 0, 1)]

AllEnvironments ==
    {Full,
     [Full EXCEPT !.base = blank, !.traces = url(<<"v1/traces">>, 0), !.dsn_alt = "unset",
                  !.drain = num(0), !.workers = num(0)],
     [Full EXCEPT !.builds = FALSE, !.drain = word("junk"),
                  !.v2 = file("junk", 0, 1), !.v1 = file("pair", 1, 2)],
     [Bare EXCEPT !.v1 = file("pair", -1, 2), !.workers = word("auto"), !.cores = 8],
     [Bare EXCEPT !.workers = num(3), !.drain = num(3), !.cores = 0],
     [Bare EXCEPT !.v2 = file("pair", 20, 2)],
     [Bare EXCEPT !.drain = num(5)],
     [Bare EXCEPT !.port = FALSE], [Bare EXCEPT !.redis_url = FALSE],
     [Bare EXCEPT !.auth = FALSE], [Bare EXCEPT !.periods = FALSE],
     [Full EXCEPT !.free_port = FALSE],
     [Full EXCEPT !.dsn = "good", !.dsn_alt = "junk", !.rust_log = {"ERROR"}],
     [Full EXCEPT !.rust_log = {"ERROR", "WARN"}],
     [Bare EXCEPT !.dsn = "junk", !.dsn_alt = "good", !.rust_log = {}]}
=============================================================================
