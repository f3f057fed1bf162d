--------------------------- MODULE TokenService ---------------------------
(***************************************************************************)
(* The token endpoints of the service over the shared store: issuing (with *)
(* and without a refresh token), the refresh exchange with its reuse       *)
(* detector, verification, revocation of one token and of a subject.       *)
(*                                                                         *)
(* Every request is an asynchronous handler; between two awaits any other  *)
(* request may run, in this process or in another replica.  One action is  *)
(* one Redis command together with the synchronous code around it.  A      *)
(* command is answered ("ok"), never reaches Redis ("lost"), or takes      *)
(* effect although the caller sees an error ("late", a response timeout).  *)
(* A handler dropped between two awaits (a crash, a client that hung up)   *)
(* leaves the same store behind as a lost command does.                    *)
(***************************************************************************)
EXTENDS RedisStore

CONSTANTS
    Hosts,          \* values of the Host header, and so of `iss'
    Allowlist,      \* TOKEN_ISSUER_ALLOWLIST; empty allows every issuer
    Audiences,      \* elements of `aud'
    CustomTtls,     \* the values clients send in `ttl'
    TtlMin,         \* TOKEN_TTL_MIN_SECONDS
    TtlMax,         \* TOKEN_TTL_MAX_SECONDS
    DefaultTtl,     \* TOKEN_EXPIRATION_SECONDS
    RefreshTtl,     \* REFRESH_TOKEN_TTL_SECONDS
    Kinds,          \* the endpoints that are called
    Outcomes,       \* the outcomes a Redis command can have
    None            \* an absent optional value

AllKinds == {"create", "pair", "refresh", "verify", "revoke", "bulk"}

ASSUME TtlAssumption ==
    /\ CustomTtls \subseteq Nat
    /\ TtlMin \in Nat
    /\ TtlMax \in Nat
    /\ DefaultTtl \in Nat
    /\ RefreshTtl \in Nat

ASSUME KindsAssumption == Kinds \subseteq AllKinds

ASSUME OutcomesAssumption == Outcomes \subseteq {"ok", "lost", "late"}

ASSUME NoneAssumption == None \notin Requests /\ None \notin Nat

VARIABLES
    pc,     \* where each handler is
    stage,  \* which call of add_to_group is running: "sub", "fam" or "ref"
    req,    \* what the request is about
    exp,    \* the `exp' claim of the access token it builds, 0 before that
    asOf,   \* the clock reading of revoke_group, or of issue_refresh
    list,   \* what ZRANGE returned to revoke_group
    resp,   \* the HTTP status it answered with
    \* History, never read by the code:
    hb,     \* the requests that had been answered when it arrived
    killer, \* the revocation that deleted a key
    lost    \* index entries dropped without being listed by a revocation

handlerVars == <<pc, stage, req, exp, asOf, list, resp>>
history     == <<hb, killer, lost>>
vars        == <<now, storeVars, handlerVars, history>>

NoReq == [kind |-> "none", sub |-> None, host |-> None, aud |-> {},
          ttl |-> 0, tgt |-> None, fam |-> None, key |-> None]

Labels == {"idle", "claims", "storeJti", "zadd", "expireAt", "clock", "exists",
           "hset", "hexpire", "getRefresh", "mark", "delJti", "purge", "zrange",
           "delKeys", "delGroup", "done"}

Statuses == {"none", "200", "204", "400", "401", "403", "422", "500"}

ReqType == [kind : AllKinds \cup {"none"}, sub : Subjects \cup {None},
            host : Hosts \cup {None}, aud : SUBSET Audiences, ttl : Nat,
            tgt : Requests \cup {None}, fam : Requests \cup {None},
            key : Members \cup Groups \cup {None}]

TypeOK ==
    /\ StoreTypeOK
    /\ pc \in [Requests -> Labels]
    /\ stage \in [Requests -> {"sub", "fam", "ref"}]
    /\ req \in [Requests -> ReqType]
    /\ exp \in [Requests -> Nat]
    /\ asOf \in [Requests -> Nat]
    /\ list \in [Requests -> SUBSET Members]
    /\ resp \in [Requests -> Statuses]
    /\ hb \in [Requests -> SUBSET Requests]
    /\ killer \in [Members -> Requests \cup {None}]
    /\ lost \subseteq Groups \X Members

Init ==
    /\ StoreInit
    /\ pc = [r \in Requests |-> "idle"]
    /\ stage = [r \in Requests |-> "sub"]
    /\ req = [r \in Requests |-> NoReq]
    /\ exp = [r \in Requests |-> 0]
    /\ asOf = [r \in Requests |-> 0]
    /\ list = [r \in Requests |-> {}]
    /\ resp = [r \in Requests |-> "none"]
    /\ hb = [r \in Requests |-> {}]
    /\ killer = [m \in Members |-> None]
    /\ lost = {}

-----------------------------------------------------------------------------
Issues(r) == req[r].kind \in {"create", "pair", "refresh"}

(* The response carried an access token / a refresh token of request t. *)
HandedOut(t)        == Issues(t) /\ resp[t] = "200"
HandedOutRefresh(t) == req[t].kind \in {"pair", "refresh"} /\ resp[t] = "200"

(* The Host header is there and, on the issuing endpoints, on the allowlist;
   an empty allowlist forbids nothing. *)
IsAllowed(h) == h # None /\ (Allowlist = {} \/ h \in Allowlist)
HostRefusal(h) == IF h = None THEN "400" ELSE "403"

Goto(r, label) ==
    /\ pc' = [pc EXCEPT ![r] = label]
    /\ UNCHANGED resp

Answer(r, status) ==
    /\ pc' = [pc EXCEPT ![r] = "done"]
    /\ resp' = [resp EXCEPT ![r] = status]

(* The handler goes on when the command was answered and gives up with a 500
   otherwise. *)
Continue(r, o, label) == IF o = "ok" THEN Goto(r, label) ELSE Answer(r, "500")

(* A request arrives and gets past the checks of its handler. *)
Arrive(r, q) ==
    /\ req' = [req EXCEPT ![r] = q]
    /\ hb' = [hb EXCEPT ![r] = {p \in Requests : pc[p] = "done"}]
    /\ UNCHANGED <<killer, lost>>

(* A request turned away by its handler before it touches anything. *)
TurnAway(r, status) ==
    /\ Answer(r, status)
    /\ UNCHANGED <<now, storeVars, stage, req, exp, asOf, list, history>>

-----------------------------------------------------------------------------
(* Issuing an access token: JwtManager::generate_token *)

TtlAccepted(ttl) == ttl # None => TtlMin <= ttl /\ ttl <= TtlMax
Lifetime(ttl)    == IF ttl = None THEN DefaultTtl ELSE ttl

(* The clock is read and `exp' fixed before the first store command. *)
StartClaims(r) == exp' = [exp EXCEPT ![r] = now + req'[r].ttl]

(* POST /tokens up to the first store command.  The private key is fetched
   before the claims are validated; claimsOk is the verdict of
   validate_custom_claims. *)
CreateToken(r) ==
    /\ pc[r] = "idle"
    /\ \E k \in Kinds \cap {"create", "pair"}, s \in Subjects, h \in Hosts \cup {None},
          aud \in SUBSET Audiences, ttl \in CustomTtls \cup {None},
          keyOk \in BOOLEAN, claimsOk \in BOOLEAN :
         LET accepted == claimsOk /\ TtlAccepted(ttl) /\ aud # {} IN
         \/ ~IsAllowed(h) /\ TurnAway(r, HostRefusal(h))
         \/ IsAllowed(h) /\ ~keyOk /\ TurnAway(r, "500")
         \/ IsAllowed(h) /\ keyOk /\ ~accepted /\ TurnAway(r, "422")
         \/ /\ IsAllowed(h) /\ keyOk /\ accepted
            /\ Arrive(r, [kind |-> k, sub |-> s, host |-> h, aud |-> aud,
                          ttl |-> Lifetime(ttl), tgt |-> None, fam |-> r, key |-> None])
            /\ StartClaims(r)
            /\ Goto(r, "storeJti")
            /\ UNCHANGED <<now, storeVars, stage, asOf, list>>

(* The same for a refresh exchange that won: no custom ttl, no custom claims. *)
BuildClaims(r) ==
    /\ pc[r] = "claims"
    /\ \/ Answer(r, "500") /\ UNCHANGED <<req, exp>>
       \/ /\ req' = [req EXCEPT ![r].ttl = DefaultTtl]
          /\ StartClaims(r)
          /\ Goto(r, "storeJti")
    /\ UNCHANGED <<now, storeVars, stage, asOf, list, history>>

(* Mutated: the key gets the default lifetime instead of the token's own. *)
StoreJti_DefaultTtl(r, o) ==
    /\ pc[r] = "storeJti"
    /\ \/ o = "lost" /\ UNCHANGED storeVars
       \/ o # "lost" /\ SetEx(r, DefaultTtl)
    /\ Continue(r, o, "zadd")
    /\ UNCHANGED <<now, stage, req, exp, asOf, list, history>>

(* store_jti.  Redis refuses SETEX with a zero TTL. *)
StoreJti(r, o) ==
    /\ pc[r] = "storeJti"
    /\ IF req[r].ttl = 0
       THEN Answer(r, "500") /\ UNCHANGED storeVars
       ELSE /\ \/ o = "lost" /\ UNCHANGED storeVars
               \/ o # "lost" /\ SetEx(r, req[r].ttl)
            /\ Continue(r, o, "zadd")
    /\ UNCHANGED <<now, stage, req, exp, asOf, list, history>>

-----------------------------------------------------------------------------
(* add_to_group, called with the arguments of the current stage. *)

CallGroup(r)  == IF stage[r] = "sub" THEN subject_group(req[r].sub)
                                     ELSE family_group(req[r].fam)
CallMember_AccessOnly(r) == jti_key(r)   \* mutated: refresh keys not registered
CallMember(r) == IF stage[r] = "ref" THEN refresh_key(r) ELSE jti_key(r)

(* asOf holds the clock reading of issue_refresh when the stage is "ref". *)
CallScore(r)  == IF stage[r] = "ref" THEN asOf[r] + RefreshTtl ELSE exp[r]

(* Mutated: the index is best effort. *)
AddToGroup_BestEffort(r, o) ==
    /\ pc[r] = "zadd"
    /\ \/ o = "lost" /\ UNCHANGED storeVars
       \/ o # "lost" /\ ZAdd(CallGroup(r), CallMember(r), CallScore(r))
    /\ Goto(r, "expireAt")
    /\ UNCHANGED <<now, stage, req, exp, asOf, list, history>>

AddToGroup(r, o) ==
    /\ pc[r] = "zadd"
    /\ \/ o = "lost" /\ UNCHANGED storeVars
       \/ o # "lost" /\ ZAdd(CallGroup(r), CallMember(r), CallScore(r))
    /\ Continue(r, o, "expireAt")
    /\ UNCHANGED <<now, stage, req, exp, asOf, list, history>>

(* History: entries of g that are dropped although their time has not come. *)
Unexpired(g, t) == {<<g, m>> : m \in {m \in Members : zset[g][m] > t}}

ExpireGroup(r, o) ==
    /\ pc[r] = "expireAt"
    /\ \/ o = "lost" /\ UNCHANGED <<storeVars, lost>>
       \/ /\ o # "lost"
          /\ ExpireAtKey(CallGroup(r), CallScore(r))
          /\ lost' = IF CallScore(r) <= now
                     THEN lost \cup Unexpired(CallGroup(r), now) ELSE lost
    /\ CASE stage[r] = "sub" -> Continue(r, o, "clock")
         [] stage[r] = "fam" -> Continue(r, o, "hset")
         [] stage[r] = "ref" -> Answer(r, IF o = "ok" THEN "200" ELSE "500")
    /\ UNCHANGED <<now, stage, req, exp, asOf, list, hb, killer>>

-----------------------------------------------------------------------------
(* TokenClaims::is_verify, on a presented token and on the one just built. *)

(* The token whose claims are checked. *)
Subject(r) == IF Issues(r) THEN r ELSE req[r].tgt

(* What a failed check means to the caller: create_new turns it into a store
   error, from_string into an invalid token. *)
Invalid_NotFound(r) == "404"   \* mutated: a status no endpoint documents
Invalid(r) == IF Issues(r) THEN "500" ELSE "401"

(* iss, aud and the time bounds.  iat and nbf are the issuing second, which
   no later reading of the clock can precede. *)
CheckClaims(r) ==
    /\ pc[r] = "clock"
    /\ LET t == Subject(r) IN
       IF /\ req[t].host = req[r].host
          /\ req[r].aud \cap req[t].aud # {}
          /\ exp[t] > now
       THEN Goto(r, "exists")
       ELSE Answer(r, Invalid(r))
    /\ UNCHANGED <<now, storeVars, stage, req, exp, asOf, list, history>>

(* A token that was just built is signed last (JsonWebToken::to_string), which
   fails when the key does not fit TOKEN_ALGORITHM. *)
SignFails(r) == Issues(r) /\ Answer(r, "500")

(* check_jti: a store error counts as not valid.  A plain create is finished
   here; the pair flows go on to register_access_in_family. *)
CheckJti(r, o) ==
    /\ pc[r] = "exists"
    /\ LET passed == o = "ok" /\ Exists(Subject(r)) IN
       \/ ~passed /\ Answer(r, Invalid(r)) /\ UNCHANGED stage
       \/ passed /\ SignFails(r) /\ UNCHANGED stage
       \/ /\ passed /\ req[r].kind \in {"create", "verify"}
          /\ Answer(r, "200") /\ UNCHANGED stage
       \/ /\ passed /\ req[r].kind \in {"pair", "refresh"}
          /\ Goto(r, "zadd") /\ stage' = [stage EXCEPT ![r] = "fam"]
    /\ UNCHANGED <<now, storeVars, req, exp, asOf, list, history>>

-----------------------------------------------------------------------------
(* issue_refresh: HSET, EXPIRE, then the clock, then add_to_group. *)

StoreRefresh(r, o) ==
    /\ pc[r] = "hset"
    /\ \/ o = "lost" /\ UNCHANGED storeVars
       \/ o # "lost" /\ HSet(r)
    /\ Continue(r, o, "hexpire")
    /\ UNCHANGED <<now, stage, req, exp, asOf, list, history>>

(* Mutated: the record gets the lifetime of the access token. *)
ExpireRefresh_AccessTtl(r, o) ==
    /\ pc[r] = "hexpire"
    /\ \/ o = "lost" /\ UNCHANGED storeVars
       \/ o # "lost" /\ HExpire(r, DefaultTtl)
    /\ Continue(r, o, "zadd")
    /\ stage' = [stage EXCEPT ![r] = "ref"]
    /\ asOf' = [asOf EXCEPT ![r] = now]
    /\ UNCHANGED <<now, req, exp, list, history>>

ExpireRefresh(r, o) ==
    /\ pc[r] = "hexpire"
    /\ \/ o = "lost" /\ UNCHANGED storeVars
       \/ o # "lost" /\ HExpire(r, RefreshTtl)
    /\ Continue(r, o, "zadd")
    /\ stage' = [stage EXCEPT ![r] = "ref"]
    /\ asOf' = [asOf EXCEPT ![r] = now]
    /\ UNCHANGED <<now, req, exp, list, history>>

-----------------------------------------------------------------------------
(* POST /tokens/refresh: JwtManager::refresh_token_pair *)

RefreshToken(r) ==
    /\ pc[r] = "idle"
    /\ "refresh" \in Kinds
    /\ \E h \in Hosts \cup {None}, t \in Requests :
         /\ HandedOutRefresh(t)
         /\ \/ ~IsAllowed(h) /\ TurnAway(r, HostRefusal(h))
            \/ /\ IsAllowed(h)
               /\ Arrive(r, [NoReq EXCEPT !.kind = "refresh", !.host = h, !.tgt = t])
               /\ Goto(r, "getRefresh")
               /\ UNCHANGED <<now, storeVars, stage, exp, asOf, list>>

(* An absent and an incomplete record both read as an unknown token. *)
GetRefresh(r, o) ==
    /\ pc[r] = "getRefresh"
    /\ LET t == req[r].tgt IN
       \/ o # "ok" /\ Answer(r, "500") /\ UNCHANGED req
       \/ o = "ok" /\ ~HasRec(t) /\ Answer(r, "401") /\ UNCHANGED req
       \/ /\ o = "ok" /\ HasRec(t)
          /\ req' = [req EXCEPT ![r].sub = req[t].sub, ![r].aud = req[t].aud,
                                ![r].fam = req[t].fam]
          /\ Goto(r, "mark")
    /\ UNCHANGED <<now, storeVars, stage, exp, asOf, list, history>>

(* Mutated: the reply of HSETNX is ignored. *)
MarkRefreshUsed_Ignored(r, o) ==
    /\ pc[r] = "mark"
    /\ \/ o = "lost" /\ UNCHANGED storeVars
       \/ o # "lost" /\ HSetNX(req[r].tgt)
    /\ Continue(r, o, "claims")
    /\ UNCHANGED <<now, stage, req, exp, asOf, list, history>>

(* Mutated: an error of the store counts as a mark that was set. *)
MarkRefreshUsed_FailOpen(r, o) ==
    /\ pc[r] = "mark"
    /\ LET t == req[r].tgt IN
       /\ \/ o = "lost" /\ UNCHANGED storeVars
          \/ o # "lost" /\ HSetNX(t)
       /\ Goto(r, IF o = "ok" /\ hash[t].used THEN "purge" ELSE "claims")
       /\ asOf' = [asOf EXCEPT ![r] = IF o = "ok" /\ hash[t].used THEN now ELSE @]
    /\ UNCHANGED <<now, stage, req, exp, list, history>>

(* refresh_token_pair goes on with a new pair when it set the mark, and enters
   revoke_group of the family when the mark was there. *)
AfterMark(t) == IF hash[t].used THEN "purge" ELSE "claims"

MarkRefreshUsed(r, o) ==
    /\ pc[r] = "mark"
    /\ LET t == req[r].tgt IN
       /\ \/ o = "lost" /\ UNCHANGED storeVars
          \/ o # "lost" /\ HSetNX(t)
       /\ Continue(r, o, AfterMark(t))
       /\ asOf' = [asOf EXCEPT ![r] = IF o = "ok" /\ hash[t].used THEN now ELSE @]
    /\ UNCHANGED <<now, stage, req, exp, list, history>>

-----------------------------------------------------------------------------
(* What from_string checks before the claims: the issuer is allowed, and the
   token (one the service signed) is readable - its public key could be
   obtained and it was presented unaltered. *)
Genuine(h, readable) == IsAllowed(h) /\ readable

(* POST /tokens/verify *)
VerifyToken(r) ==
    /\ pc[r] = "idle"
    /\ "verify" \in Kinds
    /\ \E h \in Hosts \cup {None}, a \in Audiences, t \in Requests,
          readable \in BOOLEAN :
         /\ HandedOut(t)
         /\ \/ h = None /\ TurnAway(r, "400")
            \/ h # None /\ ~Genuine(h, readable) /\ TurnAway(r, "401")
            \/ /\ Genuine(h, readable)
               /\ Arrive(r, [NoReq EXCEPT !.kind = "verify", !.host = h,
                                          !.aud = {a}, !.tgt = t])
               /\ Goto(r, "clock")
               /\ UNCHANGED <<now, storeVars, stage, exp, asOf, list>>

-----------------------------------------------------------------------------
(* The keys a caller can name: a jti it was given, a refresh token it was given
   behind the prefix of its key, and the index of a subject.  The name of a
   family never leaves the store. *)
Nameable(key) ==
    \/ \E t \in Requests : HandedOut(t) /\ key = jti_key(t)
    \/ \E t \in Requests : HandedOutRefresh(t) /\ key = refresh_key(t)
    \/ \E s \in Subjects : key = subject_group(s)

(* DELETE /tokens/{jti}: the path is passed on as a key, whatever it says. *)
RevokeToken(r) ==
    /\ pc[r] = "idle"
    /\ "revoke" \in Kinds
    /\ \E key \in Members \cup Groups :
         /\ Nameable(key)
         /\ Arrive(r, [NoReq EXCEPT !.kind = "revoke", !.key = key])
    /\ Goto(r, "delJti")
    /\ UNCHANGED <<now, storeVars, stage, exp, asOf, list>>

(* History: r deletes those of the keys ms that are there. *)
Kill(r, ms) ==
    killer' = [m \in Members |->
                 IF m \in ms /\ \E t \in Requests : \/ m = jti_key(t) /\ Exists(t)
                                                    \/ m = refresh_key(t) /\ HasRec(t)
                 THEN r ELSE killer[m]]

(* DEL of the key; an index is deleted with all its entries. *)
DelNamed(r, key) ==
    \/ key \in Members /\ DelKeys({key}) /\ Kill(r, {key}) /\ UNCHANGED lost
    \/ /\ key \in Groups /\ DelGroupKey(key) /\ UNCHANGED killer
       /\ lost' = lost \cup {<<key, m>> : m \in ZRange(key)}

(* Mutated: a store error is swallowed and 204 goes out. *)
DeleteJti_Swallowed(r, o) ==
    /\ pc[r] = "delJti"
    /\ \/ o = "lost" /\ UNCHANGED <<storeVars, killer, lost>>
       \/ o # "lost" /\ DelNamed(r, req[r].key)
    /\ Answer(r, "204")
    /\ UNCHANGED <<now, stage, req, exp, asOf, list, hb>>

DeleteJti(r, o) ==
    /\ pc[r] = "delJti"
    /\ \/ o = "lost" /\ UNCHANGED <<storeVars, killer, lost>>
       \/ o # "lost" /\ DelNamed(r, req[r].key)
    /\ Answer(r, IF o = "ok" THEN "204" ELSE "500")
    /\ UNCHANGED <<now, stage, req, exp, asOf, list, hb>>

-----------------------------------------------------------------------------
(* DELETE /subjects/{sub}/tokens *)
RevokeSubjectTokens(r) ==
    /\ pc[r] = "idle"
    /\ "bulk" \in Kinds
    /\ \E s \in Subjects : Arrive(r, [NoReq EXCEPT !.kind = "bulk", !.sub = s])
    /\ asOf' = [asOf EXCEPT ![r] = now]
    /\ Goto(r, "purge")
    /\ UNCHANGED <<now, storeVars, stage, exp, list>>

(* revoke_group, run by a bulk revocation and by a reuse detection. *)
RevokedGroup(r) == IF req[r].kind = "bulk" THEN subject_group(req[r].sub)
                                           ELSE family_group(req[r].fam)
RevokedStatus(r) == IF req[r].kind = "bulk" THEN "200" ELSE "401"

PurgeExpired(r, o) ==
    /\ pc[r] = "purge"
    /\ \/ o = "lost" /\ UNCHANGED storeVars
       \/ o # "lost" /\ ZRemRangeByScore(RevokedGroup(r), asOf[r])
    /\ Continue(r, o, "zrange")
    /\ UNCHANGED <<now, stage, req, exp, asOf, list, history>>

ListGroup(r, o) ==
    /\ pc[r] = "zrange"
    /\ LET ms == ZRange(RevokedGroup(r)) IN
       /\ list' = [list EXCEPT ![r] = IF o = "ok" THEN ms ELSE @]
       /\ Continue(r, o, IF ms = {} THEN "delGroup" ELSE "delKeys")
    /\ UNCHANGED <<now, storeVars, stage, req, exp, asOf, history>>

(* Mutated: a failed DEL of the members is reported as a success. *)
DeleteListed_Swallowed(r, o) ==
    /\ pc[r] = "delKeys"
    /\ \/ o = "lost" /\ UNCHANGED <<storeVars, killer>>
       \/ o # "lost" /\ DelKeys(list[r]) /\ Kill(r, list[r])
    /\ IF o = "ok" THEN Goto(r, "delGroup") ELSE Answer(r, RevokedStatus(r))
    /\ UNCHANGED <<now, stage, req, exp, asOf, list, hb, lost>>

DeleteListed(r, o) ==
    /\ pc[r] = "delKeys"
    /\ \/ o = "lost" /\ UNCHANGED <<storeVars, killer>>
       \/ o # "lost" /\ DelKeys(list[r]) /\ Kill(r, list[r])
    /\ Continue(r, o, "delGroup")
    /\ UNCHANGED <<now, stage, req, exp, asOf, list, hb, lost>>

DeleteGroup(r, o) ==
    /\ pc[r] = "delGroup"
    /\ LET g == RevokedGroup(r) IN
       \/ o = "lost" /\ UNCHANGED <<storeVars, lost>>
       \/ /\ o # "lost"
          /\ DelGroupKey(g)
          /\ lost' = lost \cup {<<g, m>> : m \in ZRange(g) \ list[r]}
    /\ Answer(r, IF o = "ok" THEN RevokedStatus(r) ELSE "500")
    /\ UNCHANGED <<now, stage, req, exp, asOf, list, hb, killer>>

-----------------------------------------------------------------------------
Tick ==
    /\ ClockTick
    /\ lost' = lost \cup UNION {Unexpired(g, now + 1) : g \in ExpiringGroups(now + 1)}
    /\ UNCHANGED <<handlerVars, hb, killer>>

(* A step of the handler of an arrived request. *)
Step(r) ==
    \/ BuildClaims(r)
    \/ CheckClaims(r)
    \/ \E o \in Outcomes :
         \/ StoreJti(r, o)     \/ AddToGroup(r, o)      \/ ExpireGroup(r, o)
         \/ CheckJti(r, o)     \/ StoreRefresh(r, o)    \/ ExpireRefresh(r, o)
         \/ GetRefresh(r, o)   \/ MarkRefreshUsed(r, o) \/ DeleteJti(r, o)
         \/ PurgeExpired(r, o) \/ ListGroup(r, o)       \/ DeleteListed(r, o)
         \/ DeleteGroup(r, o)

Next ==
    \/ Tick
    \/ \E r \in Requests :
         \/ CreateToken(r) \/ RefreshToken(r) \/ VerifyToken(r)
         \/ RevokeToken(r) \/ RevokeSubjectTokens(r)
         \/ Step(r)

Spec == Init /\ [][Next]_vars

-----------------------------------------------------------------------------
(***************************************************************************)
(* Inductive invariants the proofs rest on                                 *)
(***************************************************************************)

(* How the place a handler has reached, its kind of request, the tokens it
   names and its answer fit together. *)
HandlerOK(r) ==
    LET q == req[r] IN
    /\ pc[r] = "idle" =>
         q = NoReq /\ resp[r] = "none" /\ stage[r] = "sub" /\ asOf[r] = 0
    /\ resp[r] = "none" <=> pc[r] # "done"
    /\ pc[r] \in {"getRefresh", "mark", "claims"} => q.kind = "refresh" /\ stage[r] = "sub"
    /\ pc[r] \in {"storeJti", "zadd", "expireAt", "hset", "hexpire"} =>
         q.kind \in {"create", "pair", "refresh"}
    /\ pc[r] \in {"clock", "exists"} =>
         q.kind \in {"create", "pair", "refresh", "verify"}
    /\ pc[r] = "delJti" => q.kind = "revoke"
    /\ pc[r] \in {"purge", "zrange", "delKeys", "delGroup"} => q.kind \in {"bulk", "refresh"}
    /\ q.kind = "refresh" => q.tgt \in Requests /\ HandedOutRefresh(q.tgt)
    /\ q.kind = "verify" => q.tgt \in Requests /\ HandedOut(q.tgt)
    /\ q.kind = "revoke" => q.key \in Members \cup Groups /\ Nameable(q.key)
    /\ q.kind \in {"create", "pair"} => q.sub \in Subjects /\ q.fam = r
    /\ q.kind = "bulk" => q.sub \in Subjects
    /\ q.kind = "refresh" /\ (pc[r] \notin {"getRefresh", "done"} \/ resp[r] = "200") =>
         q.sub \in Subjects /\ q.fam \in Requests
    /\ pc[r] \in {"storeJti", "clock", "exists"} => stage[r] = "sub"
    /\ pc[r] \in {"hset", "hexpire"} => stage[r] = "fam"
    /\ stage[r] # "sub" => q.kind \in {"pair", "refresh"}
    /\ HandedOutRefresh(r) => stage[r] = "ref"

HandlerInv == \A r \in Requests : HandlerOK(r)

-----------------------------------------------------------------------------
(***************************************************************************)
(* Properties                                                              *)
(***************************************************************************)
Valid(t) == HandedOut(t) /\ now < exp[t] /\ Exists(t)

(* Revocation k was aimed at the access (or refresh) token of request t. *)
AimedAt(k, t) ==
    \/ req[k].kind = "revoke" /\ req[k].key = jti_key(t)
    \/ req[k].kind = "bulk" /\ req[k].sub = req[t].sub
    \/ req[k].kind = "refresh" /\ req[k].fam = req[t].fam
RefreshAimedAt(k, t) ==
    \/ req[k].kind = "revoke" /\ req[k].key = refresh_key(t)
    \/ req[k].kind = "refresh" /\ req[k].fam = req[t].fam

(* A token that was handed out works until its `exp' unless a revocation aimed
   at it deleted its jti: the key is written with a relative TTL some time
   after `exp' was computed, and neither the purge of expired index entries
   nor somebody else's revocation takes it away.  The same for a refresh
   record, which only a reuse detection in its own family deletes, or a
   revocation that names its key. *)
LivesUntilRevoked ==
    \A t \in Requests :
      /\ HandedOut(t) /\ now < exp[t] /\ ~Exists(t) =>
           \E k \in Requests : killer[jti_key(t)] = k /\ AimedAt(k, t)
      /\ HandedOutRefresh(t) /\ now < asOf[t] + RefreshTtl /\ ~HasRec(t) =>
           \E k \in Requests : killer[refresh_key(t)] = k /\ RefreshAimedAt(k, t)

Indexed(g, m) == m \in ZRange(g) \/ <<g, m>> \in lost

(* Issuing is fail-fast: whatever was handed out and still works is in the
   index that revokes it - the jti under its subject and, for a pair, both
   keys under the family - and only three events take it out: the index key
   expired before the token, a concurrent revoke_group deleted the index
   without having listed the token, or DELETE /tokens named the index. *)
IndexCovers ==
    \A t \in Requests :
      /\ Valid(t) => Indexed(subject_group(req[t].sub), jti_key(t))
      /\ Valid(t) /\ HandedOutRefresh(t) =>
           Indexed(family_group(req[t].fam), jti_key(t))
      /\ HandedOutRefresh(t) /\ HasRec(t) =>
           Indexed(family_group(req[t].fam), refresh_key(t))

(* A bulk revocation that answered 200 leaves no working token of the subject
   that had been handed out before it arrived, except one whose index entry
   was lost in one of those three ways. *)
BulkRevokeComplete ==
    \A b \in Requests : req[b].kind = "bulk" /\ resp[b] = "200" =>
      \A t \in hb[b] : Valid(t) /\ req[t].sub = req[b].sub =>
        <<subject_group(req[t].sub), jti_key(t)>> \in lost

(* A verification that arrives after a 204 for the token, or after a 200 for
   its subject (the token having been handed out before that), never accepts
   it, whatever other requests are doing to the store. *)
VerifyAfterRevocation ==
    \A v \in Requests : req[v].kind = "verify" /\ resp[v] = "200" =>
      LET t == req[v].tgt IN
      \A k \in hb[v] :
        /\ ~(req[k].kind = "revoke" /\ resp[k] = "204" /\ req[k].key = jti_key(t))
        /\ req[k].kind = "bulk" /\ resp[k] = "200" /\ t \in hb[k]
             /\ req[k].sub = req[t].sub =>
               <<subject_group(req[t].sub), jti_key(t)>> \in lost

(* The exchange of r won the mark and is issuing, or has issued, a pair. *)
Won(r) ==
    /\ req[r].kind = "refresh"
    /\ \/ resp[r] = "200"
       \/ pc[r] \in {"claims", "storeJti", "zadd", "expireAt", "clock", "exists",
                     "hset", "hexpire"}

(* As long as the record of a refresh token is in the store, it has at most
   one winner, and a winner leaves the record marked. *)
OneWinnerPerRecord ==
    \A t \in Requests : HasRec(t) =>
      \A r \in Requests : Won(r) /\ req[r].tgt = t =>
        /\ hash[t].used
        /\ \A p \in Requests : Won(p) /\ req[p].tgt = t => p = r

(* The exchange of k met a used refresh token and finished killing the family. *)
KilledFamily(k) == req[k].kind = "refresh" /\ resp[k] = "401" /\ asOf[k] # 0

(* After a finished reuse detection nothing of the family that had been handed
   out before it arrived works any more - neither access nor refresh token -
   except what the family index had lost. *)
FamilyKillComplete ==
    \A k \in Requests : KilledFamily(k) =>
      \A t \in hb[k] : HandedOutRefresh(t) /\ req[t].fam = req[k].fam =>
        /\ Valid(t) => <<family_group(req[t].fam), jti_key(t)>> \in lost
        /\ HasRec(t) => <<family_group(req[t].fam), refresh_key(t)>> \in lost

-----------------------------------------------------------------------------
(***************************************************************************)
(* What comments and docs of the repository say and the code does not do.  *)
(***************************************************************************)

(* "Revokes every active token of a subject" (handlers.rs): once a bulk
   revocation answered 200, no token of the subject handed out before it
   arrived works.  Stated for the first revocation of the subject, so that no
   other one can have raced with the issuing. *)
RevokesEveryActiveToken ==
    \A b \in Requests :
      /\ req[b].kind = "bulk" /\ resp[b] = "200"
      /\ \A k \in Requests \ {b} : req[k].kind = "bulk" => req[k].sub # req[b].sub
      => \A t \in hb[b] : req[t].sub = req[b].sub => ~Valid(t)

(* "we kill the whole family - the access tokens issued through it and the
   remaining refresh tokens" (jwt.rs): once a reuse detection is finished, no
   refresh token of the family can be exchanged. *)
KilledFamilyStaysDead ==
    \A k, t \in Requests :
      KilledFamily(k) /\ HandedOutRefresh(t) /\ req[t].fam = req[k].fam =>
        ~HasRec(t) \/ hash[t].used
=============================================================================
