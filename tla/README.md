# A verification of the JWT service

TLA+ models of the token service in `src/` (Rust, actix-web, Redis, an external
key service `jwks-service-app`), checked with TLC on small instances and, for
the results listed in section 4, proved with TLAPS for all values of the
parameters.

## 1. The system

The service issues, verifies and revokes JSON Web Tokens. It runs as several
identical replicas; what they share is Redis and the key service.

| part | state it keeps | operations | hard about it |
|---|---|---|---|
| Redis store client (`redis.rs`, trait `JtiStore` in `models/jwt.rs`) | in Redis: a key per live `jti` (TTL), a ZSET per subject and per refresh family (scores are `exp`), a HASH per refresh token | `store_jti`, `check_jti`, `delete_jti`, `add_to_group`, `revoke_group`, `store_refresh`, `get_refresh`, `mark_refresh_used`, `claim_totp_code` | several operations are two to four commands, none of them a transaction; a command may fail after it took effect |
| Issuing and verification (`models/jwt.rs`, `jwt.rs`) | none of its own | `generate_token` / `create_new`, `is_verify`, `from_string`, `to_string` | up to twelve awaits per request; clock readings of different age |
| Refresh rotation (`jwt.rs`) | refresh HASH, family ZSET | `refresh_token_pair`, `register_access_in_family`, `issue_refresh` | two exchanges of one token; winner and loser run on at the same time |
| Revocation (`handlers.rs`, `redis.rs`) | subject and family ZSETs | `revoke_token`, `revoke_subject_tokens`, reuse detection | races with issuing, partial failure |
| HTTP handlers (`handlers.rs`) | – | the five token endpoints, `/livez`, `/readyz`, `/metrics` | early returns and status codes; the probe judges a snapshot that others refresh |
| Issuer allowlist (`issuer.rs`) | – | `is_allowed` | an empty list allows everything |
| Public key cache (`jwk.rs`) | snapshot, last attempt, last failure, `refresh_lock` | `public_key` | cache read before a lock, written after a network trip; outages; key rotation |
| Private keys (`key.rs`, `jwk.rs`) | `current_key_id` per replica | `get_private_key`, `private_key`, `create_key`, `get_key` | identifier read before a trip, written after it |
| Access levels (`auth.rs`) | configuration; `totp:used:*` in Redis | `from_env`, `authorize`, middleware `call` | validated before an await, claimed after it; secret rotation; fail-open |
| Rate limits (`rate_limit.rs`) | a bucket per client address and one for the internal endpoints (crate `governor`), trusted proxies | middleware `call`, `spawn_cleanup`, `resolve_key_ip`, `Cidr` | what a client may forge, rounding, a sweep beside the requests |
| Order of the layers (`configure_api` in `main.rs`) | – | CORS, limit, access level around each endpoint | the layer added last is the outermost |
| Start and stop (`main.rs`, `server.rs`) | worker count, drain time | the steps of `main`, `auto_workers`, `cpu_quota`, drain, flushes | what may fail a start; drain and flushes against the grace period |
| Telemetry (`logging.rs`, `tracing_otel.rs`, `sentry_glitchtip.rs`, `metrics.rs`) | queues of spans, log lines and issues | `init_*`, batches, `shutdown*` | what is queued when the process stops |
| Request bodies, OpenAPI | – | – | none: data types and a static document |

Interaction: `handlers` call `JwtManager` (`jwt.rs`), which calls
`TokenClaims::create_new` / `is_verify`, which call the store; signing asks
`KeyManager` for the private key and verification asks it for the public key,
both through `JwkService`. The `auth.rs` and `rate_limit.rs` middlewares wrap
the routes and come first; `auth.rs` shares the store with the handlers.
Between two awaits any other request may run, in this process or in another
replica. Redis executes one command at a time.

What makes each part correct:

* **Revocation.** Whatever was handed out and still works can be revoked, an
  acknowledged revocation is final, and nothing dies that no revocation was
  aimed at.
* **Refresh rotation.** A refresh token is exchanged at most once, and a
  detected reuse kills what the family had.
* **Key cache.** A withdrawn key is used for a bounded time, no key in memory is
  refused, a new key is found soon, the key service is not flooded, nobody waits
  for the lock forever.
* **Signing keys.** One key is reused until it is withdrawn, a withdrawn key is
  not used by later requests, and a token under a supported algorithm has a key it
  can be verified with.
* **Limits.** No client gets more tries than its bucket allows, whatever it puts
  into a header; the shared cap is spent by valid codes only; Retry-After is
  honest.
* **Readiness.** The probe and the verifications agree on what a snapshot is good
  for, and a store that returns is noticed.
* **Start and stop.** A stop drains: requests that still run when the drain ends are
  cut, but SIGKILL meets none of them, and telemetry that had a receiver is
  delivered. The number of workers fits the CPU quota.
* **Token format.** What was issued is accepted as it was issued, and nothing else.
* **Access.** A one-time code gets in once, a code is never burnt without a
  success, no configuration opens a protected route.

## 2. The modules

| module | models | state and actions |
|---|---|---|
| `RedisStore` | the part of Redis the tokens live in (external, from how `redis.rs` uses it) | `jtis`, `zset`, `zttl`, `hash` and the clock; one operator per command; `ClockTick` expires keys |
| `TokenService` (extends `RedisStore`) | the five token endpoints | one handler per request: `pc`, `stage` (which `add_to_group` call), `req`, `exp`, `asOf`, `list`, `resp`. One action is one Redis command together with the synchronous code around it; `CreateToken`, `RefreshToken`, `VerifyToken`, `RevokeToken`, `RevokeSubjectTokens` are the entry points with their early returns |
| `JwksCache` | `public_key` of `jwk.rs` | `entry`, `last_attempt`, `last_failure`, the fair lock (`holder`, `queue`), and per lookup its `pc`, trip and result. `PublicKey` is the code up to the lock, `LockGranted` the re-check under the lock and the throttle, `FetchStored` / `FetchFailed` the two ends of a trip; `Reply`, `Publish`, `Withdraw` are the key service |
| `KeyManager` | `key.rs` and the private half of `jwk.rs` | `current_key_id` and `algorithm` per replica, and per request what it read and what is on its way back. `GetPrivateKey`, `KeyMissing` (404), `KeyArrived`, `TripFailed`; `ServeGet`, `ServeCreate`, `Withdraw` are the key service, `Restart` is a deployment |
| `AccessControl` | `auth.rs` and `claim_totp_code` | `config` per replica, `claimed` in the shared store, and per request level, credential, verdict. `Call` is the middleware up to its first await, `ClaimTotpCode` the rest |
| `ClientAddress` | the address arithmetic of `rate_limit.rs`: `canonical`, `group_v6`, `Cidr`, `client_from_forwarded`, `resolve_key_ip` | operators; octets of `OctetBits` bits, so that the same definitions run on small addresses |
| `TokenBucket` | abstract: what a limiter promises. A bucket per key that refills with time; a request is admitted against a token or refused for want of one | `credit`, `ruling` |
| `FrontDoor` (extends `ClientAddress`) | the layers `configure_api` wraps around the endpoints, both limits, the sweep | `tat` (the arrival time GCRA keeps per key), `claimed`, and per request shape and answer. `CallVerify`, `CallInternal`, `CallMetrics`, `CallOpen`, `Preflight` are the endpoints from the outermost layer in, `Claimed` is what follows the await of the claim |
| `Readiness` (extends `JwksCache`) | `/readyz`, the lazily made Redis connection, beside the lookups | `stage` of the probe, `manager`, `report`; `Beside` is any step of the cache |
| `ServerConfig` | what the process makes of its environment: `ServerConfig::from_env`, `auto_workers`, `cpu_quota`, `signal_endpoint`, the providers, `read_dsn`; the parallelism the standard library reports (external) | operators |
| `Lifecycle` (extends `ServerConfig`) | `main` from start to end, SIGTERM, drain, flushes, SIGKILL | `stage`, `queue` and `out` per telemetry channel, `req`, `elapsed`; one action per step of `main` |
| `TokenFormat` | the token on the wire: custom claims, header and claims objects, signature, `from_string` | operators; a segment is a list of members or does not decode |
| `Rules` (extends `ClientAddress`, `TokenFormat`) | the two as questions and answers for TLC | `asked`, `tokens`, `config` |
| `TokenServiceProofs`, `RevocationProofs` (extends it), `JwksCacheProofs` (with `Readiness`), `KeyManagerProofs`, `AccessControlProofs`, `FrontDoorProofs`, `LifecycleProofs`, `RulesProofs` | the theorems | |
| `MC...` | symmetry sets, shapes of requests, environments and other inputs for TLC | |

`TokenService` composes `RedisStore` with the handlers, `Readiness` composes the
probe with the key cache, and `FrontDoor` composes the limits with the access
levels and instantiates `TokenBucket` with the mapping of section 4.
`JwksCache`, `KeyManager` and `AccessControl` stand alone: they meet the token handlers only
through "a key was obtained or not" (`SignFails`, `Genuine`) and "the request
was let through or not". Definitions named `X_Something` with the comment
"Mutated" are deliberately wrong variants of `X`; they are used by no
specification and document which mistake each property would catch.

### What the models abstract

* *Redis failures.* A command is answered (`"ok"`), never executed (`"lost"`), or
  executed although the caller sees an error (`"late"`). A command that is
  executed after the caller gave up is folded into `"late"`. A handler that is
  dropped between two awaits (a crash, a client that hung up) leaves the store
  as a lost command does.
* *Time.* One second is the unit; the service and Redis share a clock. The
  clock reading of `issue_refresh` is taken at its `EXPIRE`.
* *Tokens.* UUIDs are unique: tokens and families are named after the request
  that made them. In `TokenService` signatures are trusted, tokens that were
  never handed out are refused, and the verdict of `validate_custom_claims` and
  an unreadable `TOKEN_EXPIRATION_SECONDS` are one nondeterministic choice;
  `TokenFormat` is about those. There a signature names the key, the digest and
  what was signed, and only the holder of the key makes one.
* *Hosts.* The case-insensitive comparison of the allowlist is equality.
* *Key cache.* The code between two awaits runs at one clock reading. Every
  trip ends at the latest with the timeout of the HTTP client. Lookups are not
  cancelled in the middle of a trip.
* *Revoking one token.* `DELETE /tokens/{jti}` passes its path to `DEL` as it is, so
  `RevokeToken` takes any key a caller can name: a jti, a refresh record behind its
  prefix, the index of a subject. The names of families are never handed out. The
  reservations of one-time codes are keys of the same database, behind a hash that
  no caller knows; `AccessControl` leaves their deletion out.
* *Signing keys.* Decoding a key, and everything after it, succeeds or fails
  nondeterministically. A replica is drained before it is restarted. The key
  service makes a key under any name it is given, or refuses; `TOKEN_ALGORITHM` is
  any string, the curve name `Ed25519` included. The JWK of a key asked for as
  `Ed25519` has the `alg` `EdDSA`, any other the name it was asked for with: that is
  how `create_key` and `get_public_key` use the service.
* *Access.* A code is named by its secret and counter, so two different codes
  never coincide and fingerprints do not collide. The `/metrics` route that is
  not registered without a token answers 401 in `AccessControl`; `FrontDoor`
  has the 404.
* *Limits.* The crate `governor` is not part of the repository: `Allowed`, `TakeToken`
  and the sweep's idea of an idle entry model its GCRA as `rate_limit.rs` relies on
  it, and the bounds on bursts rest on that. A decision is atomic. In `FrontDoor` a code is good until
  it is claimed; its window is the subject of `AccessControl`. A preflight is
  answered by CORS; how `actix-cors` treats the origin of other calls is left
  out. Several lines of the forwarding header are one list; each proxy writes its
  caller bare, with a port, or in brackets with a port.
* *Probe.* The orchestrator sends one probe after the other. `health_check` is
  answered or fails, at any moment up to its timeout.
* *Process.* Environment variables are "not set", "blank", "a number" and so on;
  the address of a collector is a host and path segments out of `Words`.
  An exporter gives up with its timeout; a collector that is there receives all
  that is queued. The queues of the exporters are unbounded in the model; what a
  full queue drops inside the libraries is left out, and `NothingLost` is about
  what was queued. `RUST_LOG` is a level. A request whose caller decided against
  sampling leaves no span. A DSN that does not parse makes `sentry::init` panic, or
  is ignored by it: the library is external and the model allows both.
  `available_parallelism` of the standard library is the cores the process may run
  on, cut to the whole cores of the quota it reads from the same cgroup files.

## 3. The runs

| run | bounds | what it shows |
|---|---|---|
| `revocation` | 3 requests, 2 subjects, 3 lifetimes, clock to 2, all command outcomes | `TypeOK`, `IndexCovers`, `BulkRevokeComplete`, `VerifyAfterRevocation`, `LivesUntilRevoked` |
| `exchange` | 4 requests, 1 subject, clock to 2 | `OneWinnerPerRecord`, `FamilyKillComplete`, `LivesUntilRevoked` |
| `exchange_faults` | 3 requests, 1 subject, clock to 2, pairs, exchanges and `DELETE /tokens`, all command outcomes, allowlist | `OneWinnerPerRecord`, `IndexCovers` |
| `key_cache` | 3 lookups, TTL, throttle and grace 2, timeout 1, clock to 7, weak fairness | `TypeOK`, `StalenessBounded`, `NoNeedlessRefusal`, `NewKeyFound`, `TripsSpaced`, `EveryLookupAnswered` |
| `signing_keys` | 4 requests, 1 replica, two supported algorithms and the curve name `Ed25519` | `TypeOK`, `OneKeyReused`, `NoWithdrawnKeyUsed`, `IssuedVerifies` |
| `replay` | 2 requests, 2 replicas, 2 secrets, six environments, step 2, tolerance 1, clock to 7, all command outcomes | `TypeOK`, `ReplayRefused`, `NoFalseReplay`, `NoCredentialNoEntry` |
| `front_door` | 4 requests of nine shapes, four installations, a second of two units, bursts 2 and 1, clock to 5 | `TypeOK`, `GuessesBounded`, `CapSpentByValidCodes`, `RetryAfterSuffices`, `LimiterIsTokenBucket` |
| `readiness` | 2 lookups of 1 key beside the probe, TTL 1, grace 2, timeout 1, clock to 5, weak fairness of the probe; deadlock checked | `DismissedForGood`, `OutageReadinessBounded`, `StoreNoticed` |
| `lifecycle` | 2 requests, fifteen environments, drain 2 of a grace period of 4, flushes of 1 | `TypeOK`, `NothingLost`, `KillSparesRequests`, `WorkersFit` |
| `rules` | all addresses of 2-bit octets (IPv4 one octet, IPv6 three), eleven ranges, chains of up to three proxies in all three notations, 2 tokens, four configurations | `RangeIsBitPrefix`, `ChainNamesClient`, `IssuedIsAccepted`, `AcceptedWasIssued` |
| `short_index_ttl`, `family_survivor` | the smallest instance that shows the case | violations, see section 5 |

Why the bounds are enough. A race over one token needs the token's issuer and
two more requests; `revocation` has the three, and three lifetimes (1, 2 and
one out of range) on two subjects, with the clock running past the shorter one,
let an index key expire under a live token. Reuse of a refresh token needs the
start of a family, the winner, the loser and one bystander: four requests. With
failing commands, `exchange_faults`, it is the start, an exchange whose mark takes
effect unseen, and a second exchange or a `DELETE` beside it. The clock of `key_cache` covers TTL plus grace (4) plus two trips; `replay` covers
the whole window of a code (step 2, tolerance 1: six seconds) and a second
after it. `signing_keys` has a request for the first key, one that meets its
withdrawal, one that overtakes it and one after a restart. Four requests in
`front_door` empty a burst of two, are refused and come back after Retry-After;
the clock passes two seconds. `readiness` outlives TTL plus grace (3) and a trip
on either side. In `lifecycle` the drain fits into the grace
period and the drain with all three flushes does not, as with the defaults (25 + 5 + 5 + 2
seconds against 30); the environments have a whole, a fractional, a too large
and no CPU quota, a DSN that parses and one that does not, and filters that let
everything, errors or nothing through. In `rules` prefixes end inside and between octets, ranges and
hosts are written as mapped addresses, and two tokens are what mixing takes.
Apart from `readiness`, where the probe never ends, deadlock is not checked: a
behaviour in which all requests are answered and the clock is at
its bound has rightly ended. Requests (and, where they are interchangeable,
subjects or replicas) are symmetric except in runs that check liveness.

Fairness. `StoreNoticed` assumes that the orchestrator goes on probing and that a
probe is polled to its end (`WF(ProbeStep)`): readiness probes are periodic, and
both its awaits end with a timeout at the latest. `key_cache` assumes weak fairness of
the steps of each started lookup: actix polls a task until it ends, every HTTP call
ends with its timeout at the latest (`FetchFailed`), and tokio's mutex is first
come, first served. Nothing is assumed about the
arrival of requests, the clock, or the success of any command.

### The exceptions the properties spell out

The code does not keep some stronger statements, and the properties say exactly
where:

* `IndexCovers` and what builds on it except tokens whose index entry was *lost*:
  the index key expired before the token, a concurrent `revoke_group` deleted the
  index after listing it and before the new entry could be listed, or
  `DELETE /tokens/{jti}` was called with the key of the index.
* `OneWinnerPerRecord` is about a record that is in the store. When the record
  expires or is deleted between `HGETALL` and `HSETNX`, the mark creates a new
  HASH and wins; that exchange issues a pair.
* A revocation that answers 500 may have been half done; the properties speak of
  acknowledged ones (200, 204, 401).
* `ReplayRefused` excepts a failed claim (fail-open by design), two replicas that
  key the fingerprint differently during a rotation, and a claim executed after
  the window.
* `IssuedVerifies` speaks of supported values of `TOKEN_ALGORITHM`. Under any other
  name a key is asked for and a token signed all the same, which
  `TokenHeaders::is_verify` never accepts.
* `WorkersFit` gives one worker per *whole* core of the quota: the code does not
  achieve the rounding up it describes (section 5).
* `NothingLost` is about what was recorded: a filtered event and an unsampled span are
  not, and what a channel lost because its collector was away is excepted.
* `KillSparesRequests` supposes that `SERVER_SHUTDOWN_TIMEOUT_SECONDS`, if it is a
  number, is below the grace period: the code does not compare the two. It allows
  a SIGKILL in the middle of the flushes when they may take the whole rest. Requests
  that run when the drain ends are cut by the drain itself.
* `ChainNamesClient` speaks of a client that is not itself in the list of trusted
  proxies; one that is chooses its bucket through the header. And it supposes that the
  first proxy of the chain, which writes the client's address, does not write it as
  `[v6]:port`: that entry is skipped, and one the client forged decides.
* `GuessesBounded` counts the tries of peers that are no trusted proxies. An IPv6
  proxy whose /56 also holds other hosts is not counted among them: what it passes
  on is charged to the clients it names.

## 4. The proofs

All theorems are `Spec => []P` (or an action property of `Spec`) for arbitrary
finite or infinite sets of requests, replicas, subjects and keys, and any
natural numbers as lifetimes, intervals and bounds. The assumptions are the
`ASSUME`s in the modules: types of the constants, and that `None` and the other
markers are not members of the sets they are used with. `PowersOfTwo` of `Rules`
is of another kind: it states that `2^(n+1)` is `2 * 2^n` up to the width of an
octet, arithmetic that the provers have no rule for; TLC evaluates it. Two
theorems have a hypothesis about the environment, because the property is false
without it: `WellAddressed` for `NothingLost` and `SupportedConfigs` for
`IssuedIsAccepted` (below).

Every invariant and every action property of the passing runs is a theorem, and
so is the refinement; only the liveness properties are left to TLC. The
inductive invariants were checked with TLC before they were proved.

* `TypeCorrect` (`TokenService`): `TypeOK` together with `HandlerInv`, which
  relates the place of a handler to its request, targets, stage and answer.
  `TypeOK` alone is not inductive: what a step writes is typed only because,
  for example, a handler at `"hset"` has a subject and a family.
* `OneWinner`: `OneWinnerPerRecord` is inductive relative to those two. A step
  either leaves the winners and at most removes records (`StepKeepsWinners`,
  `StepKeepsRecords`, `WinnerKept`), or it is the `HSETNX`, which wins only if the
  record was unmarked, and then by the invariant there was no winner.
* `StoreCorrect`, and from it `IndexCoversHolds`, `BulkRevokeCompleteHolds`,
  `VerifyAfterRevocationHolds`, `LivesUntilRevokedHolds`, `FamilyKillCompleteHolds`
  (`RevocationProofs`). None of the five is inductive: they speak of tokens that
  were handed out and of revocations that have answered, and what they say is
  brought about by handlers that have done neither yet. `StoreInv` follows a token
  through its life instead. A stored jti outlives `exp` although it is written
  with a relative TTL at a later clock reading (`JtiInv`, from `ClockInv`), and a
  refresh record lives as long as it should (`RecordInv`); once a handler is past
  its `ZADD`, the entry is there with the score of the expiry, or it is lost
  (`CoverInv`); an index, and the list a revocation has read from it, hold
  nothing foreign (`MemberInv`), which is why nothing else dies; what was handed
  out before a revocation arrived is gone or on its list until the list is
  deleted, and gone then (`DeletedInv`, `RevokedInv`); and a verification in the
  middle of its check is not ahead of that (`VerifiedInv`). A step is classified
  once - a handler answers at once, arrives, computes, or sends a command
  (`NextForm`) - and what it may do to each part of the store is stated once
  (`StoreMoves`); the parts of the invariant are then proved from that alone.
* `CacheCorrect`, and from it `Staleness`, `NoKeyLost`, `NewKeys`, `Spacing`
  (`JwksCache`): `CacheInv` says that there is one trip at a time, that its
  answer was published since it began, that the keys of a snapshot were
  published at most a trip before it was stored, and that between successful
  trips the snapshot lacks only keys published since. Each action property
  follows from it case by case on who answers.
* `KeysReused`, `NoDeadKey`, `TokensVerify` (`KeyManager`): `KeyInv` says that keys
  are created and withdrawn once, that the identifier of a replica and those in
  flight name keys of its own algorithm, and that an answer on its way back was
  not withdrawn when its request arrived. `TokensVerify` adds `TokenAlg`, that the key
  of a token was asked for under the algorithm its header names: the header is
  written after the trip from the environment of the process, and it is the restart
  without a key (`KeyManager::new`) that keeps the two together.
* `ReplayGuard`, `NoCodeLost` (`AccessControl`): `AccessInv` keeps, for every
  request let in by its claim, that the reservation lasts to the end of the
  code's window or the window is over. The arithmetic (`ClaimLasts`) is that a
  code accepted now stays acceptable for at most `replay_window_seconds` from
  its first acceptable second on.
* `ClosedByDefault` (`AccessControl`): a replica is up only with both mandatory
  secrets, and a request is let in only by the branch of `Authorize` for its
  level; `NoCredentialNoEntry` follows from that and the type invariant.
* `DoorCorrect` (`FrontDoor`): `DoorInv` says that no bucket owes more than it
  holds (`DebtOK`), that a request meets one limiter and hears one answer
  (`DoneOK`), and that after a refusal the bucket owes no more than then, unless
  a later request took a token (`RefusedOK`). `RetryAfterSuffices` is not
  inductive by itself because it does not say what the bucket owes; `RetryHonest`
  follows from `RefusedOK` and the floor of one: a bucket is never further than a
  period from its next token, and a period is at most a second.
* `CountCorrect`, and from it `GuessesBoundedHolds` and `CapSpentHolds` (`FrontDoor`).
  A bound on the charges of every past stretch of time is not inductive: it does
  not say what the next charge will find. `CountInv` ties the counts to the
  arrival time the limiter keeps: the charges since `s` have moved it on to at
  least `s` plus their periods (`RunOK`), and it is not further on than what was
  taken since the bucket could last be full accounts for (`SpentOK`). `DebtOK`
  bounds the arrival time, so `RunOK` yields the bound for the stretch that ends
  now, and `StretchOK` keeps it for those that ended earlier. `CallerOK` says
  whom a charge was made for; only for peers that are no proxies is that the peer
  itself. The sets that are counted grow by one request at a time, and the
  cardinality theorems of the library do the counting.
* `LimiterRefines`: `Spec` implements `TokenBucket` under
  `credit = Full - Owed` and `ruling` read off answer and bucket. A charge is a
  `Admit`, a refusal a `Refuse`, a tick a `Refill`, and everything else - the sweep
  above all - leaves `credit` and `ruling` alone: an entry that is swept owes
  nothing.
* `ReadyCorrect`, `DismissalHolds`, `DegradedBounded` (`Readiness`): the probe changes
  nothing of the cache, so `CacheInv` is kept by the steps of `JwksCache` (its
  lemmas are cited). `DismissedOK` adds that a dismissed snapshot stays unusable;
  it holds because age only grows, and it is what makes the verdict of the probe
  and a later lookup comparable. `DegradedBounded` is the dating of snapshots in
  `CacheInv` read from the probe.
* `LifeCorrect`, and from it `LifeTypeCorrect`, `KillSparesRequestsHolds`,
  `WorkersFitHolds`, `NothingLostHolds` (`Lifecycle`): `LifeInv` says that a channel is
  open until its place in the flush order and has nothing queued after it
  (`OpenInv`), that whatever a channel has to deliver has arrived or is queued
  unless its collector failed it (`KeptInv`), and by when each flush has begun and
  must end (`StopInv`). `KeptInv`, and with it `NothingLost`, supposes
  `WellAddressed`: with an address that is not the collector's, an exporter
  reports success to somebody else, and the model loses the batch as the process
  would. `WorkersFit` is arithmetic about `auto_workers` applied to a parallelism
  that was rounded down: the two agree on the whole cores of the quota, for every
  quota and period.
* `RangeIsBitPrefixHolds` (`Rules`): `prefix_match` compares whole octets and shifts
  the next ones; that this is comparing the first bits is shown for octets of any
  width, by least counterexample on the number of bits (`LeadingBits`), and then
  for addresses of any length (`OctetsThenBits`).
* `ChainNamesClientHolds` (`Rules`): from the right, the proxies of the chain are
  passed over, or skipped where they are written in brackets, and the entry the first
  of them wrote is the client, so that whatever stands left of it is never looked at.
* `IssuedIsAcceptedHolds`, `AcceptedWasIssuedHolds` (`Rules`): `TokensOK` says that every token
  around came out of `to_string` for claims that were accepted. Header and claims
  are read as they were written (`HeaderRoundTrip`, `ClaimsRoundTrip`), the latter
  because `validate_custom_claims` keeps the registered names out: each name then
  stands in the object once. The theorem supposes `SupportedConfigs`, that
  `TOKEN_ALGORITHM` is a supported one; nothing checks this at the start, and
  `to_string` signs under any name while `is_verify` refuses the others. Nothing else is
  accepted because the signature names header and claims and nobody else makes it.
* `KeyTypes`, `CacheTypes`, `AccessTypes`, `DoorTypes`: the type invariants, each a
  part of the inductive invariant of its module.

Only model-checked: `EveryLookupAnswered` and `StoreNoticed`, which rest on fairness
and are out of the prover's reach.

## 5. Where code and documentation disagree

* `short_index_ttl`: a token with a short `ttl` shortens the TTL of the subject
  index (`EXPIREAT` without `GT`), which then disappears under a longer-lived
  token; the next bulk revocation answers 200 and misses it. `redis.rs` says the
  TTL is extended to the longest-lived token.
* `family_survivor`: the winner of an exchange registers its new pair after the
  loser has killed the family; the pair survives.

Met while modelling, without a run of their own:

* Refresh tokens are in the family index only (`jwt.rs:237`): a bulk revocation of
  the subject leaves them, and they can be exchanged afterwards, while the
  repository's README speaks of "every token of a subject at once".
* In an outage, a lookup of a key that the stale snapshot lacks passes the
  throttle and goes on a trip of its own (`jwk.rs:299`), while the comment on
  `allow_refresh_on_miss` says that it throttles repeated trips to an unavailable
  service too.
* A code can get in twice if it is presented at the very start and in the last
  second of its window and the second claim is a second late (`auth.rs:566`).
* `main` is documented to panic "when Redis cannot be reached" (`main.rs:206`,
  `216`); it parses `REDIS_URL` and makes no connection (`main.rs:240`), and so does
  `OpenRedis`.
* `server.rs:18` and `211` say that the CPU quota is rounded up. `auto_workers` does, and
  then clamps the result to the parallelism of `server.rs:118`, which the standard
  library has cut to the quota rounded *down*: 2.5 cores of quota on a host of four give
  two workers, not three. Only below one core does rounding up remain.
* `sentry_glitchtip.rs:21` says that an invalid DSN gives a warning and no more. `init`
  hands it to `sentry::init` as a string (`sentry_glitchtip.rs:152`) without checking it;
  the library, which is not under `src/`, converts it and is known to panic when it does
  not parse. Nobody catches that, so the process does not start, and no path logs such
  a warning.
* `DELETE /tokens/{jti}` deletes any key: named `group:sub:<sub>` it removes the index of
  a subject and leaves its tokens working, beyond the reach of a bulk revocation. The
  comment at `models/jwt.rs:121` says that the prefix separates groups from flat `jti`
  keys; it does for keys the service writes.
* Errors in the rate limits are called "not fatal" (`main.rs:264`); more than 10^9
  refills a second make the period zero, and `quota` panics. The model keeps this
  as an assumption of `FrontDoor` and as `periods` of `Lifecycle`.
* `GlobalLimiter` is called "a single bucket per endpoint" (`rate_limit.rs:391`); the
  clones share one bucket for all internal endpoints.
* An entry `[v6]:port` of the forwarding header does not parse and is skipped
  (`rate_limit.rs:190`): behind a proxy that writes its caller so, the bucket is that of
  the next entry to the left, which the client may have written, or of the proxy.
* A one-time code is claimed before the cap decides: a request that is refused
  with 429 has used up its code.
* A token with a fourth segment is read as its first three.
* With collectors that hang, the default drain and the flushes add up to more
  than the grace period (25 + 5 + 5 + 2 > 30), so the last flush may be killed.
* `TOKEN_ALGORITHM` is not compared with the supported algorithms at the start
  (`main.rs:222`). With a name the key service knows and the list does not - the
  curve name `Ed25519` is one (`jwk.rs:519`) - a key is made and tokens are issued that
  fail their own verification (`models/jwt.rs:486`, `is_verify` of the header).
* `AUTH_TOTP_SECRET_NEXT` alone lets the service start although `from_env`
  documents `AUTH_TOTP_SECRET` as mandatory.

## 6. What is left

Done: every component that keeps state or decides about requests, their
composition where they meet at run time (store and handlers, cache and probe,
limits and access levels), one refinement, and theorems for every safety
property of the passing runs. What could come next:

1. An abstract store of revocable tokens that `TokenService` implements as long as
   no index entry is lost; `StoreInv` is most of what the step needs.
2. `KeyManager` with `JwksCache`: a token just issued by one replica, verified by
   another whose snapshot is older than the key.

Not modelled, and not planned: JSON and base64 syntax and the cryptography
(trusted libraries); request identifiers, trace propagation and metric counters,
which nothing reads back; the parsing of the numbers of the rate limits; origins
in CORS; the request bodies and the OpenAPI document, which have no behaviour.
