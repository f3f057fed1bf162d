---------------------------- MODULE RedisStore ----------------------------
(***************************************************************************)
(* The part of Redis the service keeps its token state in, one operator    *)
(* per command that redis.rs sends.  Redis executes one command at a time, *)
(* so every command is atomic; what is NOT atomic is a JtiStore operation  *)
(* made of several of them (see TokenService).                             *)
(*                                                                         *)
(* A request issues at most one access token and at most one refresh       *)
(* token, each named by a fresh UUID; the model names both after the       *)
(* request that issues them.  A refresh token family is named after the    *)
(* request that started it.                                                *)
(***************************************************************************)
EXTENDS Naturals

CONSTANTS
    Requests,   \* the HTTP requests of a behaviour
    Subjects,   \* values of the `sub' claim
    MaxTime     \* bound on the clock

ASSUME MaxTimeAssumption == MaxTime \in Nat

VARIABLES
    now,    \* wall-clock seconds, shared by the service and by Redis
    jtis,   \* jti key -> the second it expires, 0 when there is no key
    zset,   \* group key -> (member -> score), score 0 when not a member
    zttl,   \* group key -> the second it expires, 0 when it has no TTL
    hash    \* refresh key -> its HASH fields and the second it expires

storeVars == <<jtis, zset, zttl, hash>>

(***************************************************************************)
(* Key names.  refresh:, group:sub: and group:family: are prefixes of the  *)
(* code; a jti key is the bare UUID, so what keeps it apart from the others *)
(* is that it is one, and a path of DELETE /tokens may name any of them.   *)
(***************************************************************************)
jti_key(r)       == <<"jti", r>>
refresh_key(r)   == <<"refresh", r>>
subject_group(s) == <<"group:sub", s>>
family_group(f)  == <<"group:family", f>>

Members == {jti_key(r) : r \in Requests} \cup {refresh_key(r) : r \in Requests}
Groups  == {subject_group(s) : s \in Subjects}
             \cup {family_group(r) : r \in Requests}

(***************************************************************************)
(* rec: the fields sub, aud and family are there (their values are those   *)
(* of the request that wrote them); used: the field `used' is there;       *)
(* exp: the expiry of the key, 0 when it has none.  A HASH without fields  *)
(* does not exist.                                                         *)
(***************************************************************************)
NoHash == [rec |-> FALSE, used |-> FALSE, exp |-> 0]

StoreTypeOK ==
    /\ now \in Nat
    /\ jtis \in [Requests -> Nat]
    /\ zset \in [Groups -> [Members -> Nat]]
    /\ zttl \in [Groups -> Nat]
    /\ hash \in [Requests -> [rec : BOOLEAN, used : BOOLEAN, exp : Nat]]

StoreInit ==
    /\ now = 1
    /\ jtis = [r \in Requests |-> 0]
    /\ zset = [g \in Groups |-> [m \in Members |-> 0]]
    /\ zttl = [g \in Groups |-> 0]
    /\ hash = [r \in Requests |-> NoHash]

-----------------------------------------------------------------------------
(* Reading commands: EXISTS, ZRANGE 0 -1, HGETALL. *)

Exists(r)  == jtis[r] # 0
ZRange(g)  == {m \in Members : zset[g][m] # 0}
HasRec(r)  == hash[r].rec

(* SETEX jti ttl 1 (an error for ttl = 0). *)
SetEx(r, ttl) ==
    /\ jtis' = [jtis EXCEPT ![r] = now + ttl]
    /\ UNCHANGED <<zset, zttl, hash>>

(* ZADD group score member: a group it creates has no TTL. *)
ZAdd(g, m, score) ==
    /\ zset' = [zset EXCEPT ![g] = [@ EXCEPT ![m] = score]]
    /\ UNCHANGED <<jtis, zttl, hash>>

NoMembers == [m \in Members |-> 0]

(* DEL group. *)
DelGroupKey(g) ==
    /\ zset' = [zset EXCEPT ![g] = NoMembers]
    /\ zttl' = [zttl EXCEPT ![g] = 0]
    /\ UNCHANGED <<jtis, hash>>

(* EXPIREAT group t: sets the TTL whatever it was; a moment that is not in
   the future deletes the key; nothing happens when there is no key. *)
ExpireAtKey(g, t) ==
    \/ ZRange(g) = {} /\ UNCHANGED storeVars
    \/ ZRange(g) # {} /\ t <= now /\ DelGroupKey(g)
    \/ ZRange(g) # {} /\ t > now
       /\ zttl' = [zttl EXCEPT ![g] = t]
       /\ UNCHANGED <<jtis, zset, hash>>

(* ZREMRANGEBYSCORE group -inf upto: an emptied ZSET is deleted with its TTL. *)
ZRemRangeByScore(g, upto) ==
    /\ zset' = [zset EXCEPT ![g] =
                  [m \in Members |-> IF @[m] <= upto THEN 0 ELSE @[m]]]
    /\ zttl' = [zttl EXCEPT ![g] =
                  IF \A m \in Members : zset[g][m] <= upto THEN 0 ELSE @]
    /\ UNCHANGED <<jtis, hash>>

(* DEL of a batch of jti and refresh keys. *)
DelKeys(ms) ==
    /\ jtis' = [r \in Requests |-> IF jti_key(r) \in ms THEN 0 ELSE jtis[r]]
    /\ hash' = [r \in Requests |-> IF refresh_key(r) \in ms THEN NoHash ELSE hash[r]]
    /\ UNCHANGED <<zset, zttl>>

(* HSET refresh sub aud family: keeps the other fields and the TTL. *)
HSet(r) ==
    /\ hash' = [hash EXCEPT ![r].rec = TRUE]
    /\ UNCHANGED <<jtis, zset, zttl>>

(* EXPIRE refresh ttl: a zero ttl deletes the key. *)
HExpire(r, ttl) ==
    /\ hash' = [hash EXCEPT ![r] =
                  IF @ = NoHash \/ ttl = 0 THEN NoHash ELSE [@ EXCEPT !.exp = now + ttl]]
    /\ UNCHANGED <<jtis, zset, zttl>>

(* HSETNX refresh used 1: creates the HASH when there is none. *)
HSetNX(r) ==
    /\ hash' = [hash EXCEPT ![r].used = TRUE]
    /\ UNCHANGED <<jtis, zset, zttl>>

-----------------------------------------------------------------------------
(* Groups whose TTL runs out when the clock moves to t. *)
ExpiringGroups(t) == {g \in Groups : zttl[g] # 0 /\ zttl[g] <= t}

(* One second passes and Redis drops the keys whose time has come. *)
ClockTick ==
    /\ now < MaxTime
    /\ now' = now + 1
    /\ jtis' = [r \in Requests |-> IF jtis[r] <= now + 1 THEN 0 ELSE jtis[r]]
    /\ zset' = [g \in Groups |-> IF g \in ExpiringGroups(now + 1)
                                 THEN NoMembers ELSE zset[g]]
    /\ zttl' = [g \in Groups |-> IF g \in ExpiringGroups(now + 1)
                                 THEN 0 ELSE zttl[g]]
    /\ hash' = [r \in Requests |-> IF hash[r].exp # 0 /\ hash[r].exp <= now + 1
                                   THEN NoHash ELSE hash[r]]
=============================================================================
