------------------------ MODULE TokenServiceProofs ------------------------
(* Machine-checked proofs about TokenService, for every value of its
   constants. *)
EXTENDS TokenService, TLAPS

(* Every command the code sends leaves the store well typed. *)
LEMMA CommandTypes ==
    ASSUME StoreTypeOK, UNCHANGED now
    PROVE  /\ \A r \in Requests, n \in Nat : SetEx(r, n) => StoreTypeOK'
           /\ \A g, m : \A n \in Nat : ZAdd(g, m, n) => StoreTypeOK'
           /\ \A g : DelGroupKey(g) => StoreTypeOK'
           /\ \A g : \A t \in Nat : ExpireAtKey(g, t) => StoreTypeOK'
           /\ \A g : \A t \in Nat : ZRemRangeByScore(g, t) => StoreTypeOK'
           /\ \A ms : DelKeys(ms) => StoreTypeOK'
           /\ \A r : HSet(r) => StoreTypeOK'
           /\ \A r : \A n \in Nat : HExpire(r, n) => StoreTypeOK'
           /\ \A r : HSetNX(r) => StoreTypeOK'
<1>a. NoMembers \in [Members -> Nat]
  BY DEF NoMembers
<1>b. NoHash \in [rec : BOOLEAN, used : BOOLEAN, exp : Nat]
  BY DEF NoHash
<1>1. \A r \in Requests, n \in Nat : SetEx(r, n) => StoreTypeOK'
  BY DEF StoreTypeOK, SetEx
<1>2. \A g, m : \A n \in Nat : ZAdd(g, m, n) => StoreTypeOK'
  <2> SUFFICES ASSUME NEW g, NEW m, NEW n \in Nat, ZAdd(g, m, n)
               PROVE  StoreTypeOK'
    OBVIOUS
  <2>1. g \in Groups => [zset[g] EXCEPT ![m] = n] \in [Members -> Nat]
    BY DEF StoreTypeOK
  <2>2. zset' = [zset EXCEPT ![g] = [zset[g] EXCEPT ![m] = n]]
    BY DEF ZAdd
  <2>3. zset' \in [Groups -> [Members -> Nat]]
    BY <2>1, <2>2 DEF StoreTypeOK
  <2> QED BY <2>3 DEF StoreTypeOK, ZAdd
<1>3. \A g : DelGroupKey(g) => StoreTypeOK'
  <2> SUFFICES ASSUME NEW g, DelGroupKey(g) PROVE StoreTypeOK'
    OBVIOUS
  <2>1. zset' \in [Groups -> [Members -> Nat]]
    BY <1>a DEF StoreTypeOK, DelGroupKey
  <2> QED BY <2>1 DEF StoreTypeOK, DelGroupKey
<1>4. \A g : \A t \in Nat : ExpireAtKey(g, t) => StoreTypeOK'
  BY <1>3 DEF StoreTypeOK, ExpireAtKey, storeVars
<1>5. \A g : \A t \in Nat : ZRemRangeByScore(g, t) => StoreTypeOK'
  <2> SUFFICES ASSUME NEW g, NEW t \in Nat, ZRemRangeByScore(g, t)
               PROVE  StoreTypeOK'
    OBVIOUS
  <2> DEFINE kept == [m \in Members |-> IF zset[g][m] <= t THEN 0 ELSE zset[g][m]]
  <2>1. g \in Groups => kept \in [Members -> Nat]
    BY DEF StoreTypeOK
  <2>2. zset' = [zset EXCEPT ![g] = kept]
    BY DEF ZRemRangeByScore
  <2> HIDE DEF kept
  <2>3. zset' \in [Groups -> [Members -> Nat]]
    BY <2>1, <2>2 DEF StoreTypeOK
  <2>4. zttl' \in [Groups -> Nat]
    BY DEF StoreTypeOK, ZRemRangeByScore
  <2> QED BY <2>3, <2>4 DEF StoreTypeOK, ZRemRangeByScore
<1>6. \A ms : DelKeys(ms) => StoreTypeOK'
  BY <1>b DEF StoreTypeOK, DelKeys
<1>7. \A r : HSet(r) => StoreTypeOK'
  BY DEF StoreTypeOK, HSet
<1>8. \A r : \A n \in Nat : HExpire(r, n) => StoreTypeOK'
  <2> SUFFICES ASSUME NEW r, NEW n \in Nat, HExpire(r, n)
               PROVE  StoreTypeOK'
    OBVIOUS
  <2> DEFINE new == IF hash[r] = NoHash \/ n = 0 THEN NoHash
                    ELSE [hash[r] EXCEPT !.exp = now + n]
  <2>1. r \in Requests => new \in [rec : BOOLEAN, used : BOOLEAN, exp : Nat]
    BY <1>b DEF StoreTypeOK
  <2>2. hash' = [hash EXCEPT ![r] = new]
    BY DEF HExpire
  <2> HIDE DEF new
  <2> QED BY <2>1, <2>2 DEF StoreTypeOK, HExpire
<1>9. \A r : HSetNX(r) => StoreTypeOK'
  BY DEF StoreTypeOK, HSetNX
<1> QED
  BY <1>1, <1>2, <1>3, <1>4, <1>5, <1>6, <1>7, <1>8, <1>9

LEMMA TickTypes ==
    ASSUME StoreTypeOK, ClockTick
    PROVE  StoreTypeOK'
<1>1. NoMembers \in [Members -> Nat]
  BY DEF NoMembers
<1>2. NoHash \in [rec : BOOLEAN, used : BOOLEAN, exp : Nat]
  BY DEF NoHash
<1>3. zset' \in [Groups -> [Members -> Nat]]
  BY <1>1 DEF StoreTypeOK, ClockTick
<1> QED
  BY <1>2, <1>3 DEF StoreTypeOK, ClockTick

(* Updates of a request record. *)
LEMMA ReqTtl ==
    ASSUME NEW q \in ReqType, NEW n \in Nat
    PROVE  [q EXCEPT !.ttl = n] \in ReqType
  BY DEF ReqType

LEMMA ReqCopy ==
    ASSUME NEW q \in ReqType, NEW p \in ReqType
    PROVE  [q EXCEPT !.sub = p.sub, !.aud = p.aud, !.fam = p.fam] \in ReqType
  BY DEF ReqType

LEMMA TypeInit == Init => TypeOK
<1> SUFFICES ASSUME Init PROVE TypeOK
  OBVIOUS
<1>1. StoreTypeOK
  BY DEF Init, StoreInit, StoreTypeOK, NoHash
<1>2. NoReq \in ReqType
  BY DEF NoReq, ReqType
<1>3. req \in [Requests -> ReqType]
  BY <1>2 DEF Init
<1> QED
  BY <1>1, <1>3 DEF Init, TypeOK, Labels, Statuses

(* A step of a handler keeps its control state well typed. *)
LEMMA ControlTypes ==
    ASSUME TypeOK
    PROVE  /\ \A r, l : l \in Labels /\ Goto(r, l) =>
                 pc' \in [Requests -> Labels] /\ resp' \in [Requests -> Statuses]
           /\ \A r, s : s \in Statuses /\ Answer(r, s) =>
                 pc' \in [Requests -> Labels] /\ resp' \in [Requests -> Statuses]
           /\ \A r, o, l : l \in Labels /\ Continue(r, o, l) =>
                 pc' \in [Requests -> Labels] /\ resp' \in [Requests -> Statuses]
  BY DEF TypeOK, Goto, Answer, Continue, Labels, Statuses

LEMMA TurnAwayType ==
    ASSUME TypeOK, NEW r \in Requests, NEW s \in Statuses, TurnAway(r, s)
    PROVE  TypeOK'
<1>1. StoreTypeOK'
  BY DEF TypeOK, TurnAway, StoreTypeOK, storeVars
<1> QED
  BY <1>1, ControlTypes DEF TypeOK, TurnAway, history

(* A request that arrives with well-typed inputs. *)
LEMMA ArriveTypes ==
    ASSUME TypeOK, NEW r \in Requests, NEW q \in ReqType, Arrive(r, q)
    PROVE  /\ req' \in [Requests -> ReqType] /\ req'[r] = q
           /\ hb' \in [Requests -> SUBSET Requests]
           /\ killer' = killer /\ lost' = lost
  BY DEF TypeOK, Arrive

LEMMA CreateTokenType ==
    ASSUME TypeOK, NEW r \in Requests, CreateToken(r)
    PROVE  TypeOK'
<1>1. PICK k \in Kinds \cap {"create", "pair"}, s \in Subjects,
           h \in Hosts \cup {None}, aud \in SUBSET Audiences,
           ttl \in CustomTtls \cup {None}, keyOk \in BOOLEAN, claimsOk \in BOOLEAN :
         LET accepted == claimsOk /\ TtlAccepted(ttl) /\ aud # {} IN
         \/ ~IsAllowed(h) /\ TurnAway(r, HostRefusal(h))
         \/ IsAllowed(h) /\ ~keyOk /\ TurnAway(r, "500")
         \/ IsAllowed(h) /\ keyOk /\ ~accepted /\ TurnAway(r, "422")
         \/ /\ IsAllowed(h) /\ keyOk /\ accepted
            /\ Arrive(r, [kind |-> k, sub |-> s, host |-> h, aud |-> aud,
                          ttl |-> Lifetime(ttl), tgt |-> None, fam |-> r, key |-> None])
            /\ StartClaims(r)
            /\ Goto(r, "storeJti")
            /\ UNCHANGED <<now, storeVars, stage, asOf, list>>
  BY Zenon DEF CreateToken
<1> DEFINE q == [kind |-> k, sub |-> s, host |-> h, aud |-> aud,
                 ttl |-> Lifetime(ttl), tgt |-> None, fam |-> r, key |-> None]
<1>2. CASE \E st \in Statuses : TurnAway(r, st)
  BY <1>2, TurnAwayType
<1>3. CASE /\ Arrive(r, q) /\ StartClaims(r) /\ Goto(r, "storeJti")
           /\ UNCHANGED <<now, storeVars, stage, asOf, list>>
  <2>1. q \in ReqType
    BY TtlAssumption, KindsAssumption DEF ReqType, Lifetime, AllKinds
  <2> HIDE DEF q
  <2>2. StoreTypeOK'
    BY <1>3 DEF TypeOK, StoreTypeOK, storeVars
  <2>a. req'[r].ttl \in Nat
    BY <1>3, <2>1, ArriveTypes DEF ReqType
  <2>3. exp' \in [Requests -> Nat]
    BY <1>3, <2>a DEF StartClaims, TypeOK, StoreTypeOK
  <2> QED
    BY <1>3, <2>1, <2>2, <2>3, ArriveTypes, ControlTypes DEF TypeOK, Labels
<1>4. HostRefusal(h) \in Statuses /\ "500" \in Statuses /\ "422" \in Statuses
  BY DEF HostRefusal, Statuses
<1> QED
  BY <1>1, <1>2, <1>3, <1>4

(* The other steps, grouped by the part of the state they touch. *)
LEMMA ReadOnlyTypes ==
    ASSUME TypeOK, NEW r \in Requests, NEW o \in Outcomes,
           CheckJti(r, o) \/ ListGroup(r, o)
    PROVE  TypeOK'
<1>1. StoreTypeOK'
  BY DEF TypeOK, StoreTypeOK, storeVars, CheckJti, SignFails, ListGroup
<1>2. CASE CheckJti(r, o)
  BY <1>1, <1>2, ControlTypes
  DEF TypeOK, CheckJti, SignFails, Invalid, Labels, Statuses, history
<1>3. CASE ListGroup(r, o)
  BY <1>1, <1>3, ControlTypes
  DEF TypeOK, ListGroup, ZRange, Labels, history
<1> QED
  BY <1>2, <1>3

LEMMA CheckClaimsType ==
    ASSUME TypeOK, NEW r \in Requests, CheckClaims(r)
    PROVE  TypeOK'
<1>1. StoreTypeOK'
  BY DEF TypeOK, StoreTypeOK, storeVars, CheckClaims
<1> QED
  BY <1>1, ControlTypes DEF TypeOK, CheckClaims, Invalid, Labels, Statuses, history

LEMMA BuildClaimsType ==
    ASSUME TypeOK, NEW r \in Requests, BuildClaims(r)
    PROVE  TypeOK'
<1>1. StoreTypeOK'
  BY DEF TypeOK, StoreTypeOK, storeVars, BuildClaims
<1>2. CASE Answer(r, "500") /\ UNCHANGED <<req, exp>>
  BY <1>1, <1>2, ControlTypes DEF TypeOK, BuildClaims, Statuses, history
<1>3. CASE req' = [req EXCEPT ![r].ttl = DefaultTtl] /\ StartClaims(r) /\ Goto(r, "storeJti")
  <2>a. req[r] \in ReqType /\ DefaultTtl \in Nat
    BY TtlAssumption DEF TypeOK
  <2>1. [req[r] EXCEPT !.ttl = DefaultTtl] \in ReqType
    BY <2>a, ReqTtl
  <2>2. req' \in [Requests -> ReqType]
    BY <1>3, <2>1 DEF TypeOK
  <2>3. req'[r].ttl \in Nat
    BY <2>2 DEF ReqType
  <2>4. exp' \in [Requests -> Nat]
    BY <1>3, <2>3 DEF StartClaims, TypeOK, StoreTypeOK
  <2> QED
    BY <1>1, <1>3, <2>2, <2>4, ControlTypes DEF TypeOK, BuildClaims, Labels, history
<1> QED
  BY <1>2, <1>3 DEF BuildClaims

LEMMA GetRefreshType ==
    ASSUME TypeOK, HandlerInv, NEW r \in Requests, NEW o \in Outcomes, GetRefresh(r, o)
    PROVE  TypeOK'
<1>1. StoreTypeOK'
  BY DEF TypeOK, StoreTypeOK, storeVars, GetRefresh
<1> DEFINE t == req[r].tgt
<1>2. t \in Requests
  BY DEF GetRefresh, HandlerInv, HandlerOK
<1>3. [req[r] EXCEPT !.sub = req[t].sub, !.aud = req[t].aud, !.fam = req[t].fam]
        \in ReqType
  <2>1. req[r] \in ReqType /\ req[t] \in ReqType
    BY <1>2 DEF TypeOK
  <2> QED BY <2>1, ReqCopy
<1>4. req' \in [Requests -> ReqType]
  <2>1. \/ req' = req
        \/ req' = [req EXCEPT ![r].sub = req[t].sub, ![r].aud = req[t].aud,
                              ![r].fam = req[t].fam]
    BY DEF GetRefresh
  <2>2. \/ req' = req
        \/ req' = [req EXCEPT ![r] = [req[r] EXCEPT !.sub = req[t].sub,
                                     !.aud = req[t].aud, !.fam = req[t].fam]]
    BY <2>1 DEF TypeOK
  <2> QED
    BY <1>3, <2>2 DEF TypeOK
<1> QED
  BY <1>1, <1>4, ControlTypes DEF TypeOK, GetRefresh, Labels, Statuses, history

(* The four ways to arrive other than POST /tokens. *)
LEMMA ArrivalType ==
    ASSUME TypeOK, NEW r \in Requests, NEW q \in ReqType, NEW l \in Labels,
           Arrive(r, q), Goto(r, l),
           asOf' = asOf \/ asOf' = [asOf EXCEPT ![r] = now],
           UNCHANGED <<now, storeVars, stage, exp, list>>
    PROVE  TypeOK'
<1>1. StoreTypeOK'
  BY DEF TypeOK, StoreTypeOK, storeVars
<1>2. asOf' \in [Requests -> Nat]
  BY DEF TypeOK, StoreTypeOK
<1> QED
  BY <1>1, <1>2, ArriveTypes, ControlTypes DEF TypeOK

LEMMA InputTypes ==
    ASSUME NEW h \in Hosts \cup {None}, NEW t \in Requests
    PROVE  /\ [NoReq EXCEPT !.kind = "refresh", !.host = h, !.tgt = t] \in ReqType
           /\ \A a \in Audiences :
                [NoReq EXCEPT !.kind = "verify", !.host = h, !.aud = {a}, !.tgt = t] \in ReqType
           /\ \A key \in Members \cup Groups :
                [NoReq EXCEPT !.kind = "revoke", !.key = key] \in ReqType
           /\ \A s \in Subjects : [NoReq EXCEPT !.kind = "bulk", !.sub = s] \in ReqType
  BY DEF NoReq, ReqType, AllKinds

LEMMA RefreshTokenType ==
    ASSUME TypeOK, NEW r \in Requests, RefreshToken(r)
    PROVE  TypeOK'
<1>1. PICK h \in Hosts \cup {None}, t \in Requests :
        \/ TurnAway(r, HostRefusal(h))
        \/ /\ Arrive(r, [NoReq EXCEPT !.kind = "refresh", !.host = h, !.tgt = t])
           /\ Goto(r, "getRefresh")
           /\ UNCHANGED <<now, storeVars, stage, exp, asOf, list>>
  BY Zenon DEF RefreshToken
<1>2. CASE TurnAway(r, HostRefusal(h))
  <2>1. HostRefusal(h) \in Statuses
    BY DEF HostRefusal, Statuses
  <2> QED BY <1>2, <2>1, TurnAwayType
<1>3. CASE /\ Arrive(r, [NoReq EXCEPT !.kind = "refresh", !.host = h, !.tgt = t])
           /\ Goto(r, "getRefresh")
           /\ UNCHANGED <<now, storeVars, stage, exp, asOf, list>>
  <2>1. "getRefresh" \in Labels
    BY DEF Labels
  <2> QED BY <1>3, <2>1, InputTypes, ArrivalType
<1> QED
  BY <1>1, <1>2, <1>3

LEMMA VerifyTokenType ==
    ASSUME TypeOK, NEW r \in Requests, VerifyToken(r)
    PROVE  TypeOK'
<1>1. PICK h \in Hosts \cup {None}, a \in Audiences, t \in Requests :
        \/ TurnAway(r, "400")
        \/ TurnAway(r, "401")
        \/ /\ Arrive(r, [NoReq EXCEPT !.kind = "verify", !.host = h,
                                      !.aud = {a}, !.tgt = t])
           /\ Goto(r, "clock")
           /\ UNCHANGED <<now, storeVars, stage, exp, asOf, list>>
  BY Zenon DEF VerifyToken, Genuine
<1>2. CASE TurnAway(r, "400") \/ TurnAway(r, "401")
  <2>1. "400" \in Statuses /\ "401" \in Statuses
    BY DEF Statuses
  <2> QED BY <1>2, <2>1, TurnAwayType
<1>3. CASE /\ Arrive(r, [NoReq EXCEPT !.kind = "verify", !.host = h,
                                      !.aud = {a}, !.tgt = t])
           /\ Goto(r, "clock")
           /\ UNCHANGED <<now, storeVars, stage, exp, asOf, list>>
  <2>1. "clock" \in Labels
    BY DEF Labels
  <2> QED BY <1>3, <2>1, InputTypes, ArrivalType
<1> QED
  BY <1>1, <1>2, <1>3

LEMMA RevocationTypes ==
    ASSUME TypeOK, NEW r \in Requests, RevokeToken(r) \/ RevokeSubjectTokens(r)
    PROVE  TypeOK'
<1>1. "delJti" \in Labels /\ "purge" \in Labels /\ None \in Hosts \cup {None}
  BY DEF Labels
<1>2. CASE RevokeToken(r)
  <2>1. PICK key \in Members \cup Groups :
          Arrive(r, [NoReq EXCEPT !.kind = "revoke", !.key = key])
    BY <1>2 DEF RevokeToken
  <2>2. [NoReq EXCEPT !.kind = "revoke", !.key = key] \in ReqType
    BY <1>1, InputTypes
  <2> QED BY <1>1, <1>2, <2>1, <2>2, ArrivalType DEF RevokeToken
<1>3. CASE RevokeSubjectTokens(r)
  <2>1. PICK s \in Subjects : Arrive(r, [NoReq EXCEPT !.kind = "bulk", !.sub = s])
    BY <1>3 DEF RevokeSubjectTokens
  <2>2. [NoReq EXCEPT !.kind = "bulk", !.sub = s] \in ReqType
    BY <1>1, InputTypes
  <2> QED BY <1>1, <1>3, <2>1, <2>2, ArrivalType DEF RevokeSubjectTokens
<1> QED
  BY <1>2, <1>3

(* The groups a handler works on are groups of the store. *)
LEMMA GroupsUsed ==
    ASSUME TypeOK, HandlerInv, NEW r \in Requests
    PROVE  /\ pc[r] \in {"zadd", "expireAt"} =>
                CallGroup(r) \in Groups /\ CallMember(r) \in Members
           /\ pc[r] \in {"purge", "zrange", "delKeys", "delGroup"} =>
                RevokedGroup(r) \in Groups
<1>1. HandlerOK(r)
  BY DEF HandlerInv
<1>2. pc[r] \in {"zadd", "expireAt"} => req[r].sub \in Subjects /\ req[r].fam \in Requests
  BY <1>1 DEF HandlerOK
<1>3. pc[r] \in {"purge", "zrange", "delKeys", "delGroup"} =>
        \/ req[r].kind = "bulk" /\ req[r].sub \in Subjects
        \/ req[r].kind = "refresh" /\ req[r].fam \in Requests
  BY <1>1 DEF HandlerOK
<1> QED
  BY <1>2, <1>3 DEF CallGroup, CallMember, RevokedGroup, Groups, Members

(* Steps that send a writing command. *)
LEMMA CommandStepTypes ==
    ASSUME TypeOK, HandlerInv, NEW r \in Requests, NEW o \in Outcomes,
           \/ StoreJti(r, o) \/ AddToGroup(r, o) \/ ExpireGroup(r, o)
           \/ StoreRefresh(r, o) \/ ExpireRefresh(r, o) \/ MarkRefreshUsed(r, o)
           \/ DeleteJti(r, o) \/ PurgeExpired(r, o) \/ DeleteListed(r, o)
           \/ DeleteGroup(r, o)
    PROVE  TypeOK'
<1>1. UNCHANGED <<now, storeVars>> => StoreTypeOK'
  BY DEF TypeOK, StoreTypeOK, storeVars
<1>2. req[r].ttl \in Nat /\ CallScore(r) \in Nat /\ asOf[r] \in Nat /\ RefreshTtl \in Nat
  BY TtlAssumption DEF TypeOK, ReqType, CallScore
<1>3. StoreTypeOK /\ now \in Nat
  BY DEF TypeOK, StoreTypeOK
<1>4. CASE StoreJti(r, o)
  BY <1>1, <1>2, <1>3, <1>4, CommandTypes, ControlTypes
  DEF TypeOK, StoreJti, Labels, Statuses, history
<1>5. CASE AddToGroup(r, o)
  BY <1>1, <1>2, <1>3, <1>5, CommandTypes, ControlTypes
  DEF TypeOK, AddToGroup, Labels, history
<1>6. CASE ExpireGroup(r, o)
  <2>1. StoreTypeOK'
    BY <1>1, <1>2, <1>3, <1>6, CommandTypes DEF ExpireGroup
  <2>2. lost' \subseteq Groups \X Members
    BY <1>6, GroupsUsed DEF TypeOK, ExpireGroup, Unexpired
  <2>3. pc' \in [Requests -> Labels] /\ resp' \in [Requests -> Statuses]
    <3>1. {"clock", "hset"} \subseteq Labels /\ {"200", "500"} \subseteq Statuses
      BY DEF Labels, Statuses
    <3>2. stage[r] \in {"sub", "fam", "ref"}
      BY DEF TypeOK
    <3> QED BY <1>6, <3>1, <3>2, ControlTypes DEF ExpireGroup
  <2> QED BY <1>6, <2>1, <2>2, <2>3 DEF TypeOK, ExpireGroup
<1>7. CASE StoreRefresh(r, o)
  BY <1>1, <1>3, <1>7, CommandTypes, ControlTypes
  DEF TypeOK, StoreRefresh, Labels, history
<1>8. CASE ExpireRefresh(r, o)
  BY <1>1, <1>2, <1>3, <1>8, CommandTypes, ControlTypes
  DEF TypeOK, ExpireRefresh, Labels, history
<1>9. CASE MarkRefreshUsed(r, o)
  BY <1>1, <1>3, <1>9, CommandTypes, ControlTypes
  DEF TypeOK, MarkRefreshUsed, AfterMark, Labels, history
<1>10. CASE DeleteJti(r, o)
  <2>1. StoreTypeOK'
    BY <1>1, <1>3, <1>10, CommandTypes DEF DeleteJti, DelNamed
  <2>2. lost' \subseteq Groups \X Members
    BY <1>10 DEF TypeOK, DeleteJti, DelNamed, ZRange
  <2>3. killer' \in [Members -> Requests \cup {None}]
    BY <1>10 DEF TypeOK, DeleteJti, DelNamed, Kill
  <2> QED
    BY <1>10, <2>1, <2>2, <2>3, ControlTypes DEF TypeOK, DeleteJti, Statuses
<1>11. CASE PurgeExpired(r, o)
  BY <1>1, <1>2, <1>3, <1>11, CommandTypes, ControlTypes
  DEF TypeOK, PurgeExpired, Labels, history
<1>12. CASE DeleteListed(r, o)
  BY <1>1, <1>3, <1>12, CommandTypes, ControlTypes
  DEF TypeOK, DeleteListed, Kill, Labels
<1>13. CASE DeleteGroup(r, o)
  <2>1. StoreTypeOK'
    BY <1>1, <1>3, <1>13, CommandTypes DEF DeleteGroup
  <2>2. lost' \subseteq Groups \X Members
    BY <1>13, GroupsUsed DEF TypeOK, DeleteGroup, ZRange
  <2> QED
    BY <1>13, <2>1, <2>2, ControlTypes DEF TypeOK, DeleteGroup, RevokedStatus, Statuses
<1> QED
  BY <1>4, <1>5, <1>6, <1>7, <1>8, <1>9, <1>10, <1>11, <1>12, <1>13

-----------------------------------------------------------------------------
(* HandlerInv: a step of one handler keeps it for the others, because it
   changes nothing of theirs and a token once handed out stays handed out. *)

OnlyMoves(r) ==
    \A p \in Requests \ {r} :
      /\ pc'[p] = pc[p] /\ req'[p] = req[p] /\ resp'[p] = resp[p]
      /\ stage'[p] = stage[p] /\ asOf'[p] = asOf[p]

(* What was handed out stays handed out, and can be named from then on. *)
StayHandedOut ==
    /\ \A t \in Requests : /\ HandedOut(t) => HandedOut(t)'
                           /\ HandedOutRefresh(t) => HandedOutRefresh(t)'
    /\ \A key : Nameable(key) => Nameable(key)'

(* A handler that is still running has handed out nothing. *)
LEMMA StillHandedOut ==
    ASSUME TypeOK, HandlerInv, NEW r \in Requests, pc[r] # "done", OnlyMoves(r)
    PROVE  StayHandedOut
<1>1. resp[r] = "none"
  BY DEF HandlerInv, HandlerOK
<1>2. \A t \in Requests : /\ HandedOut(t) => HandedOut(t)'
                          /\ HandedOutRefresh(t) => HandedOutRefresh(t)'
  BY <1>1 DEF OnlyMoves, HandedOut, HandedOutRefresh, Issues
<1>3. \A key : Nameable(key) => Nameable(key)'
  BY <1>2, Zenon DEF Nameable
<1> QED
  BY <1>2, <1>3 DEF StayHandedOut

LEMMA HandlerStep ==
    ASSUME TypeOK, HandlerInv, NEW r \in Requests, pc[r] # "done",
           OnlyMoves(r), HandlerOK(r)'
    PROVE  HandlerInv'
<1> SUFFICES ASSUME NEW p \in Requests PROVE HandlerOK(p)'
  BY DEF HandlerInv
<1>1. CASE p = r
  BY <1>1
<1>2. CASE p # r
  <2>1. resp[r] = "none" /\ HandlerOK(p)
    BY DEF HandlerInv, HandlerOK
  <2>2. StayHandedOut
    BY StillHandedOut
  <2>3. HandedOutRefresh(p)' = HandedOutRefresh(p)
    BY <1>2 DEF OnlyMoves, HandedOutRefresh
  <2> QED
    BY <1>2, <2>1, <2>2, <2>3 DEF OnlyMoves, HandlerOK, StayHandedOut
<1> QED
  BY <1>1, <1>2

(* Steps that leave what the request is about alone. *)
LEMMA HandlerPlainStep ==
    ASSUME TypeOK, HandlerInv, NEW r \in Requests, NEW o \in Outcomes,
           \/ StoreJti(r, o) \/ AddToGroup(r, o) \/ ExpireGroup(r, o)
           \/ StoreRefresh(r, o) \/ ExpireRefresh(r, o) \/ MarkRefreshUsed(r, o)
           \/ DeleteJti(r, o) \/ PurgeExpired(r, o) \/ DeleteListed(r, o)
           \/ DeleteGroup(r, o) \/ CheckJti(r, o) \/ ListGroup(r, o)
    PROVE  HandlerInv'
<1>1. HandlerOK(r) /\ req' = req
  BY DEF HandlerInv, StoreJti, AddToGroup, ExpireGroup, StoreRefresh, ExpireRefresh,
         MarkRefreshUsed, AfterMark, DeleteJti, PurgeExpired, DeleteListed, DeleteGroup,
         CheckJti, SignFails, ListGroup
<1>2. pc[r] # "done" /\ OnlyMoves(r)
  <2> USE DEF OnlyMoves, TypeOK, Goto, Answer, Continue
  <2>1. CASE StoreJti(r, o) \/ AddToGroup(r, o) \/ ExpireGroup(r, o)
    BY <2>1 DEF StoreJti, AddToGroup, ExpireGroup
  <2>2. CASE StoreRefresh(r, o) \/ ExpireRefresh(r, o) \/ MarkRefreshUsed(r, o)
    BY <2>2 DEF StoreRefresh, ExpireRefresh, MarkRefreshUsed, AfterMark
  <2>3. CASE DeleteJti(r, o) \/ PurgeExpired(r, o) \/ DeleteListed(r, o)
    BY <2>3 DEF DeleteJti, PurgeExpired, DeleteListed
  <2>4. CASE DeleteGroup(r, o) \/ CheckJti(r, o) \/ ListGroup(r, o)
    BY <2>4 DEF DeleteGroup, CheckJti, SignFails, ListGroup
  <2> QED BY <2>1, <2>2, <2>3, <2>4
<1>3. StayHandedOut
  BY <1>2, StillHandedOut
<1>4. /\ pc \in [Requests -> Labels] /\ resp \in [Requests -> Statuses]
      /\ stage \in [Requests -> {"sub", "fam", "ref"}] /\ asOf \in [Requests -> Nat]
  BY DEF TypeOK
<1>5. HandlerOK(r)'
  <2>1. CASE StoreJti(r, o)
    BY <1>1, <1>3, <1>4, <2>1
    DEF StoreJti, HandlerOK, StayHandedOut, HandedOutRefresh, Issues, Goto, Answer, Continue
  <2>2. CASE AddToGroup(r, o)
    BY <1>1, <1>3, <1>4, <2>2
    DEF AddToGroup, HandlerOK, StayHandedOut, HandedOutRefresh, Issues, Goto, Answer, Continue
  <2>3. CASE ExpireGroup(r, o)
    <3>1. stage[r] \in {"sub", "fam", "ref"}
      BY <1>4
    <3>2. CASE stage[r] = "sub"
      <4>1. Continue(r, o, "clock")
        BY <2>3, <3>2 DEF ExpireGroup
      <4> QED BY <1>1, <1>3, <1>4, <2>3, <3>2, <4>1
              DEF ExpireGroup, HandlerOK, StayHandedOut, HandedOutRefresh, Goto, Answer, Continue
    <3>3. CASE stage[r] = "fam"
      <4>1. Continue(r, o, "hset")
        BY <2>3, <3>3 DEF ExpireGroup
      <4> QED BY <1>1, <1>3, <1>4, <2>3, <3>3, <4>1
              DEF ExpireGroup, HandlerOK, StayHandedOut, HandedOutRefresh, Goto, Answer, Continue
    <3>4. CASE stage[r] = "ref"
      <4>1. Answer(r, IF o = "ok" THEN "200" ELSE "500")
        BY <2>3, <3>4 DEF ExpireGroup
      <4> QED BY <1>1, <1>3, <1>4, <2>3, <3>4, <4>1
              DEF ExpireGroup, HandlerOK, StayHandedOut, HandedOutRefresh, Answer
    <3> QED BY <3>1, <3>2, <3>3, <3>4
  <2>4. CASE StoreRefresh(r, o)
    BY <1>1, <1>3, <1>4, <2>4
    DEF StoreRefresh, HandlerOK, StayHandedOut, HandedOutRefresh, Issues, Goto, Answer, Continue
  <2>5. CASE ExpireRefresh(r, o)
    BY <1>1, <1>3, <1>4, <2>5
    DEF ExpireRefresh, HandlerOK, StayHandedOut, HandedOutRefresh, Issues, Goto, Answer, Continue
  <2>6. CASE MarkRefreshUsed(r, o)
    BY <1>1, <1>3, <1>4, <2>6
    DEF MarkRefreshUsed, AfterMark, HandlerOK, StayHandedOut, HandedOutRefresh, Issues, Goto, Answer, Continue
  <2>7. CASE DeleteJti(r, o)
    BY <1>1, <1>3, <1>4, <2>7
    DEF DeleteJti, HandlerOK, StayHandedOut, HandedOutRefresh, Issues, Goto, Answer, Continue
  <2>8. CASE PurgeExpired(r, o)
    BY <1>1, <1>3, <1>4, <2>8
    DEF PurgeExpired, HandlerOK, StayHandedOut, HandedOutRefresh, Issues, Goto, Answer, Continue
  <2>9. CASE DeleteListed(r, o)
    BY <1>1, <1>3, <1>4, <2>9
    DEF DeleteListed, HandlerOK, StayHandedOut, HandedOutRefresh, Issues, Goto, Answer, Continue
  <2>10. CASE DeleteGroup(r, o)
    BY <1>1, <1>3, <1>4, <2>10
    DEF DeleteGroup, HandlerOK, StayHandedOut, HandedOutRefresh, Issues, Goto, Answer, Continue, RevokedStatus
  <2>12. CASE CheckJti(r, o)
    BY <1>1, <1>3, <1>4, <2>12
    DEF CheckJti, SignFails, HandlerOK, StayHandedOut, HandedOutRefresh, Issues, Goto, Answer, Continue, Invalid
  <2>13. CASE ListGroup(r, o)
    BY <1>1, <1>3, <1>4, <2>13
    DEF ListGroup, HandlerOK, StayHandedOut, HandedOutRefresh, Issues, Goto, Answer, Continue
  <2> QED
    BY <2>1, <2>2, <2>3, <2>4, <2>5, <2>6, <2>7, <2>8, <2>9, <2>10, <2>12, <2>13
<1> QED
  BY <1>2, <1>5, HandlerStep

LEMMA HandlerCheckClaims ==
    ASSUME TypeOK, HandlerInv, NEW r \in Requests, CheckClaims(r)
    PROVE  HandlerInv'
<1>1. HandlerOK(r) /\ req' = req
  BY DEF HandlerInv, CheckClaims
<1>2. pc[r] # "done" /\ OnlyMoves(r)
  BY DEF OnlyMoves, TypeOK, Goto, Answer, CheckClaims
<1>3. StayHandedOut
  BY <1>2, StillHandedOut
<1>4. HandlerOK(r)'
  BY <1>1, <1>3
  DEF CheckClaims, HandlerOK, StayHandedOut, HandedOutRefresh, Issues, Goto, Answer, Invalid, TypeOK
<1> QED
  BY <1>2, <1>4, HandlerStep

LEMMA HandlerTurnAway ==
    ASSUME TypeOK, HandlerInv, NEW r \in Requests, NEW s, s # "none", s # "200",
           pc[r] = "idle", TurnAway(r, s)
    PROVE  HandlerInv'
<1>1. pc[r] # "done" /\ OnlyMoves(r)
  BY DEF OnlyMoves, TypeOK, TurnAway, Answer
<1>2. HandlerOK(r)'
  <2>a. HandlerOK(r)
    BY DEF HandlerInv
  <2>b. req[r] = NoReq /\ stage[r] = "sub"
    BY <2>a DEF HandlerOK
  <2>1. HandlerOK(r) /\ req[r].kind = "none" /\ stage[r] = "sub"
    BY <2>a, <2>b DEF NoReq
  <2>2. pc'[r] = "done" /\ resp'[r] = s /\ req' = req /\ stage' = stage
    BY DEF TypeOK, TurnAway, Answer
  <2> QED
    BY <2>1, <2>2 DEF HandlerOK, StayHandedOut, HandedOutRefresh
<1> QED
  BY <1>1, <1>2, HandlerStep

LEMMA HandlerArrival ==
    ASSUME TypeOK, HandlerInv, NEW r \in Requests, pc[r] = "idle",
           NEW q \in ReqType, NEW l \in Labels, Arrive(r, q), Goto(r, l),
           OnlyMoves(r), stage' = stage,
           \/ /\ l = "storeJti" /\ q.kind \in {"create", "pair"}
              /\ q.sub \in Subjects /\ q.fam = r
           \/ /\ l = "getRefresh" /\ q.kind = "refresh"
              /\ q.tgt \in Requests /\ HandedOutRefresh(q.tgt)
           \/ /\ l = "clock" /\ q.kind = "verify"
              /\ q.tgt \in Requests /\ HandedOut(q.tgt)
           \/ /\ l = "delJti" /\ q.kind = "revoke"
              /\ q.key \in Members \cup Groups /\ Nameable(q.key)
           \/ l = "purge" /\ q.kind = "bulk" /\ q.sub \in Subjects
    PROVE  HandlerInv'
<1>1. StayHandedOut
  BY StillHandedOut
<1>2. pc'[r] = l /\ resp'[r] = "none" /\ req'[r] = q /\ stage'[r] = "sub"
  BY DEF TypeOK, HandlerInv, HandlerOK, Arrive, Goto
<1>3. HandlerOK(r)'
  BY <1>1, <1>2 DEF HandlerOK, StayHandedOut, HandedOutRefresh
<1> QED
  BY <1>3, HandlerStep

LEMMA HandlerCreate ==
    ASSUME TypeOK, HandlerInv, NEW r \in Requests, CreateToken(r)
    PROVE  HandlerInv'
<1>1. PICK k \in Kinds \cap {"create", "pair"}, s \in Subjects,
           h \in Hosts \cup {None}, aud \in SUBSET Audiences,
           ttl \in CustomTtls \cup {None}, keyOk \in BOOLEAN, claimsOk \in BOOLEAN :
         LET accepted == claimsOk /\ TtlAccepted(ttl) /\ aud # {} IN
         \/ ~IsAllowed(h) /\ TurnAway(r, HostRefusal(h))
         \/ IsAllowed(h) /\ ~keyOk /\ TurnAway(r, "500")
         \/ IsAllowed(h) /\ keyOk /\ ~accepted /\ TurnAway(r, "422")
         \/ /\ IsAllowed(h) /\ keyOk /\ accepted
            /\ Arrive(r, [kind |-> k, sub |-> s, host |-> h, aud |-> aud,
                          ttl |-> Lifetime(ttl), tgt |-> None, fam |-> r, key |-> None])
            /\ StartClaims(r)
            /\ Goto(r, "storeJti")
            /\ UNCHANGED <<now, storeVars, stage, asOf, list>>
  BY Zenon DEF CreateToken
<1>2. pc[r] = "idle" /\ HostRefusal(h) \notin {"none", "200"}
  BY DEF CreateToken, HostRefusal
<1> DEFINE q == [kind |-> k, sub |-> s, host |-> h, aud |-> aud,
                 ttl |-> Lifetime(ttl), tgt |-> None, fam |-> r, key |-> None]
<1>3. CASE Arrive(r, q) /\ Goto(r, "storeJti") /\ UNCHANGED <<stage, asOf>>
  <2>1. q \in ReqType /\ "storeJti" \in Labels
    BY TtlAssumption, KindsAssumption DEF ReqType, Lifetime, AllKinds, Labels
  <2>2. q.kind \in {"create", "pair"} /\ q.sub \in Subjects /\ q.fam = r
    OBVIOUS
  <2> HIDE DEF q
  <2>3. OnlyMoves(r)
    BY <1>3 DEF OnlyMoves, TypeOK, Arrive, Goto
  <2> QED
    BY <1>2, <1>3, <2>1, <2>2, <2>3, HandlerArrival
<1> QED
  BY <1>1, <1>2, <1>3, HandlerTurnAway

LEMMA HandlerOtherArrivals ==
    ASSUME TypeOK, HandlerInv, NEW r \in Requests,
           RefreshToken(r) \/ VerifyToken(r) \/ RevokeToken(r) \/ RevokeSubjectTokens(r)
    PROVE  HandlerInv'
<1> USE DEF Labels
<1>1. pc[r] = "idle" /\ None \in Hosts \cup {None}
  BY DEF RefreshToken, VerifyToken, Genuine, RevokeToken, RevokeSubjectTokens
<1>2. OnlyMoves(r)
  <2> USE DEF OnlyMoves, TypeOK, Arrive, TurnAway, Goto, Answer
  <2>1. CASE RefreshToken(r)
    BY <2>1 DEF RefreshToken
  <2>2. CASE VerifyToken(r)
    <3>1. PICK q, status :
            \/ TurnAway(r, status)
            \/ Arrive(r, q) /\ Goto(r, "clock") /\ UNCHANGED <<stage, asOf>>
      BY <2>2 DEF VerifyToken
    <3> QED BY <3>1
  <2>3. CASE RevokeToken(r) \/ RevokeSubjectTokens(r)
    BY <2>3 DEF RevokeToken, RevokeSubjectTokens
  <2> QED BY <2>1, <2>2, <2>3
<1>3. CASE RefreshToken(r)
  <2>1. PICK h \in Hosts \cup {None}, t \in Requests :
          /\ HandedOutRefresh(t)
          /\ \/ TurnAway(r, HostRefusal(h))
             \/ /\ Arrive(r, [NoReq EXCEPT !.kind = "refresh", !.host = h, !.tgt = t])
                /\ Goto(r, "getRefresh")
                /\ stage' = stage
    BY <1>3 DEF RefreshToken
  <2> DEFINE q == [NoReq EXCEPT !.kind = "refresh", !.host = h, !.tgt = t]
  <2>2. q.kind = "refresh" /\ q.tgt = t /\ q \in ReqType
    BY InputTypes DEF NoReq
  <2>3. HostRefusal(h) \notin {"none", "200"}
    BY DEF HostRefusal
  <2> HIDE DEF q
  <2> QED
    BY <1>1, <1>2, <2>1, <2>2, <2>3, HandlerArrival, HandlerTurnAway DEF q
<1>4. CASE VerifyToken(r)
  <2>1. PICK h \in Hosts \cup {None}, a \in Audiences, t \in Requests :
          /\ HandedOut(t)
          /\ \/ TurnAway(r, "400")
             \/ TurnAway(r, "401")
             \/ /\ Arrive(r, [NoReq EXCEPT !.kind = "verify", !.host = h,
                                           !.aud = {a}, !.tgt = t])
                /\ Goto(r, "clock")
                /\ stage' = stage
    BY <1>4 DEF VerifyToken, Genuine
  <2> DEFINE q == [NoReq EXCEPT !.kind = "verify", !.host = h, !.aud = {a}, !.tgt = t]
  <2>2. q.kind = "verify" /\ q.tgt = t /\ q \in ReqType
    BY InputTypes DEF NoReq
  <2> HIDE DEF q
  <2> QED
    BY <1>1, <1>2, <2>1, <2>2, HandlerArrival, HandlerTurnAway DEF q
<1>5. CASE RevokeToken(r)
  <2>1. PICK key \in Members \cup Groups :
          Nameable(key) /\ Arrive(r, [NoReq EXCEPT !.kind = "revoke", !.key = key])
    BY <1>5 DEF RevokeToken
  <2> DEFINE q == [NoReq EXCEPT !.kind = "revoke", !.key = key]
  <2>2. q.kind = "revoke" /\ q.key = key /\ q \in ReqType
    BY <1>1, InputTypes DEF NoReq
  <2>3. Arrive(r, q) /\ Goto(r, "delJti") /\ stage' = stage
    BY <1>5, <2>1 DEF RevokeToken
  <2> HIDE DEF q
  <2> QED
    BY <1>1, <1>2, <2>1, <2>2, <2>3, HandlerArrival
<1>6. CASE RevokeSubjectTokens(r)
  <2>1. PICK s \in Subjects : Arrive(r, [NoReq EXCEPT !.kind = "bulk", !.sub = s])
    BY <1>6 DEF RevokeSubjectTokens
  <2> DEFINE q == [NoReq EXCEPT !.kind = "bulk", !.sub = s]
  <2>2. q.kind = "bulk" /\ q.sub = s /\ q \in ReqType
    BY <1>1, InputTypes DEF NoReq
  <2>3. Arrive(r, q) /\ Goto(r, "purge") /\ stage' = stage
    BY <1>6, <2>1 DEF RevokeSubjectTokens
  <2> HIDE DEF q
  <2> QED
    BY <1>1, <1>2, <2>2, <2>3, HandlerArrival
<1> QED
  BY <1>3, <1>4, <1>5, <1>6

LEMMA HandlerBuildClaims ==
    ASSUME TypeOK, HandlerInv, NEW r \in Requests, BuildClaims(r)
    PROVE  HandlerInv'
<1>1. pc[r] = "claims" /\ OnlyMoves(r)
  BY DEF OnlyMoves, TypeOK, BuildClaims, Goto, Answer
<1>2. StayHandedOut
  BY <1>1, StillHandedOut
<1>3. HandlerOK(r) /\ req[r] \in ReqType
  BY DEF HandlerInv, TypeOK
<1>4. /\ req'[r].kind = req[r].kind /\ req'[r].tgt = req[r].tgt
      /\ req'[r].sub = req[r].sub /\ req'[r].fam = req[r].fam
  BY DEF BuildClaims, TypeOK, ReqType
<1>5. HandlerOK(r)'
  BY <1>1, <1>2, <1>3, <1>4
  DEF BuildClaims, HandlerOK, StayHandedOut, HandedOutRefresh, Goto, Answer, TypeOK
<1> QED
  BY <1>1, <1>5, HandlerStep

LEMMA HandlerGetRefresh ==
    ASSUME TypeOK, HandlerInv, NEW r \in Requests, NEW o \in Outcomes, GetRefresh(r, o)
    PROVE  HandlerInv'
<1>1. pc[r] = "getRefresh" /\ OnlyMoves(r)
  BY DEF OnlyMoves, TypeOK, GetRefresh, Goto, Answer
<1>2. StayHandedOut
  BY <1>1, StillHandedOut
<1>3. HandlerOK(r) /\ req[r] \in ReqType
  BY DEF HandlerInv, TypeOK
<1> DEFINE t == req[r].tgt
<1>4. t \in Requests /\ HandedOutRefresh(t) /\ HandlerOK(t)
  BY <1>1, <1>3 DEF HandlerOK, HandlerInv
<1>5. req[t].sub \in Subjects /\ req[t].fam \in Requests
  BY <1>4 DEF HandlerOK, StayHandedOut, HandedOutRefresh
<1>6. req'[r].kind = req[r].kind /\ req'[r].tgt = req[r].tgt
  BY DEF GetRefresh, TypeOK, ReqType
<1>7. pc'[r] = "mark" => req'[r].sub = req[t].sub /\ req'[r].fam = req[t].fam
  BY <1>4 DEF GetRefresh, TypeOK, ReqType, Goto, Answer
<1>8. HandlerOK(r)'
  BY <1>1, <1>2, <1>3, <1>4, <1>5, <1>6, <1>7
  DEF GetRefresh, HandlerOK, StayHandedOut, HandedOutRefresh, Goto, Answer, TypeOK
<1> QED
  BY <1>1, <1>8, HandlerStep

LEMMA TickOK ==
    ASSUME TypeOK, HandlerInv, Tick
    PROVE  TypeOK' /\ HandlerInv'
<1>1. StoreTypeOK'
  BY TickTypes DEF TypeOK, Tick
<1>2. lost' \subseteq Groups \X Members
  BY DEF TypeOK, Tick, Unexpired, ExpiringGroups
<1>3. HandlerInv'
  BY DEF Tick, handlerVars, HandlerInv, HandlerOK, HandedOut, HandedOutRefresh, Issues, Nameable
<1> QED
  BY <1>1, <1>2, <1>3 DEF TypeOK, Tick, handlerVars

LEMMA StutterOK ==
    ASSUME TypeOK, HandlerInv, UNCHANGED vars
    PROVE  TypeOK' /\ HandlerInv'
<1>1. TypeOK'
  BY DEF TypeOK, StoreTypeOK, vars, storeVars, handlerVars, history
<1>2. HandlerInv'
  BY DEF vars, handlerVars, HandlerInv, HandlerOK, HandedOut, HandedOutRefresh, Issues, Nameable
<1> QED
  BY <1>1, <1>2

LEMMA TypeStep == TypeOK /\ HandlerInv /\ [Next]_vars => TypeOK' /\ HandlerInv'
<1> SUFFICES ASSUME TypeOK, HandlerInv, [Next]_vars PROVE TypeOK' /\ HandlerInv'
  OBVIOUS
<1>1. CASE UNCHANGED vars
  BY <1>1, StutterOK
<1>2. CASE Tick
  BY <1>2, TickOK
<1>3. ASSUME NEW r \in Requests, CreateToken(r) PROVE TypeOK' /\ HandlerInv'
  BY <1>3, CreateTokenType, HandlerCreate
<1>4. ASSUME NEW r \in Requests,
             RefreshToken(r) \/ VerifyToken(r) \/ RevokeToken(r) \/ RevokeSubjectTokens(r)
      PROVE  TypeOK' /\ HandlerInv'
  BY <1>4, RefreshTokenType, VerifyTokenType, RevocationTypes, HandlerOtherArrivals
<1>5. ASSUME NEW r \in Requests, BuildClaims(r) PROVE TypeOK' /\ HandlerInv'
  BY <1>5, BuildClaimsType, HandlerBuildClaims
<1>6. ASSUME NEW r \in Requests, NEW o \in Outcomes, GetRefresh(r, o)
      PROVE  TypeOK' /\ HandlerInv'
  BY <1>6, GetRefreshType, HandlerGetRefresh
<1>7. ASSUME NEW r \in Requests, CheckClaims(r)
      PROVE  TypeOK' /\ HandlerInv'
  BY <1>7, CheckClaimsType, HandlerCheckClaims
<1>8. ASSUME NEW r \in Requests, NEW o \in Outcomes,
             \/ StoreJti(r, o) \/ AddToGroup(r, o) \/ ExpireGroup(r, o)
             \/ StoreRefresh(r, o) \/ ExpireRefresh(r, o) \/ MarkRefreshUsed(r, o)
             \/ DeleteJti(r, o) \/ PurgeExpired(r, o) \/ DeleteListed(r, o)
             \/ DeleteGroup(r, o) \/ CheckJti(r, o) \/ ListGroup(r, o)
      PROVE  TypeOK' /\ HandlerInv'
  BY <1>8, CommandStepTypes, ReadOnlyTypes, HandlerPlainStep
<1> QED
  BY <1>1, <1>2, <1>3, <1>4, <1>5, <1>6, <1>7, <1>8 DEF Next, Step

(* The type invariant of the service, for any number of requests, any set of
   lifetimes and any pattern of command failures. *)
THEOREM TypeCorrect == Spec => [](TypeOK /\ HandlerInv)
<1>1. Init => TypeOK /\ HandlerInv
  <2>1. Init => HandlerInv
    <3> SUFFICES ASSUME Init, NEW r \in Requests PROVE HandlerOK(r)
      BY DEF HandlerInv
    <3>1. /\ pc[r] = "idle" /\ req[r] = NoReq /\ resp[r] = "none"
          /\ stage[r] = "sub" /\ asOf[r] = 0
      BY DEF Init
    <3>2. req[r].kind = "none"
      BY <3>1 DEF NoReq
    <3> QED BY <3>1, <3>2 DEF HandlerOK, HandedOutRefresh
  <2> QED BY <2>1, TypeInit
<1> QED
  BY <1>1, TypeStep, PTL DEF Spec

-----------------------------------------------------------------------------
(* OneWinnerPerRecord is inductive given HandlerInv: a refresh token that is
   presented was handed out, so its record is never written again, and the
   only step that makes a winner is a HSETNX that found no mark. *)

RecKept ==
    \A t \in Requests : HandedOutRefresh(t) /\ hash'[t].rec =>
      hash[t].rec /\ (hash[t].used => hash'[t].used)

WonKept == \A p \in Requests : Won(p)' => Won(p) /\ req'[p].tgt = req[p].tgt

LEMMA WinnerKept ==
    ASSUME TypeOK, HandlerInv, OneWinnerPerRecord, RecKept, WonKept
    PROVE  OneWinnerPerRecord'
<1> SUFFICES ASSUME NEW t \in Requests, HasRec(t)', NEW r \in Requests, Won(r)',
                    req'[r].tgt = t
             PROVE  /\ hash'[t].used
                    /\ \A p \in Requests : Won(p)' /\ req'[p].tgt = t => p = r
  BY DEF OneWinnerPerRecord
<1>1. Won(r) /\ req[r].tgt = t
  BY DEF WonKept
<1>2. HandedOutRefresh(t)
  BY <1>1 DEF HandlerInv, HandlerOK, Won
<1>3. HasRec(t) /\ (hash[t].used => hash'[t].used)
  BY <1>2 DEF RecKept, HasRec
<1> QED
  BY <1>1, <1>3 DEF OneWinnerPerRecord, WonKept

(* What each step does to records that were handed out. *)
LEMMA RecKeptUnchanged ==
    ASSUME hash' = hash
    PROVE  RecKept
  BY DEF RecKept

LEMMA RecKeptDel ==
    ASSUME TypeOK, NEW ms, DelKeys(ms)
    PROVE  RecKept
  BY DEF RecKept, DelKeys, NoHash

LEMMA StepKeepsRecords ==
    ASSUME TypeOK, HandlerInv, NEW r \in Requests, NEW o \in Outcomes,
           \/ StoreJti(r, o) \/ AddToGroup(r, o) \/ ExpireGroup(r, o)
           \/ StoreRefresh(r, o) \/ ExpireRefresh(r, o) \/ MarkRefreshUsed(r, o)
           \/ DeleteJti(r, o) \/ PurgeExpired(r, o) \/ DeleteListed(r, o)
           \/ DeleteGroup(r, o) \/ CheckJti(r, o) \/ ListGroup(r, o)
    PROVE  RecKept
<1>1. CASE hash' = hash
  BY <1>1, RecKeptUnchanged
<1>2. CASE \E ms : DelKeys(ms)
  BY <1>2, RecKeptDel
<1>3. CASE StoreRefresh(r, o) \/ ExpireRefresh(r, o)
  <2>1. ~HandedOutRefresh(r)
    BY <1>3 DEF HandlerInv, HandlerOK, StoreRefresh, ExpireRefresh, HandedOutRefresh
  <2>2. \A t \in Requests \ {r} : hash'[t] = hash[t]
    BY <1>3 DEF TypeOK, StoreTypeOK, StoreRefresh, ExpireRefresh, HSet, HExpire, storeVars
  <2> QED
    BY <2>1, <2>2 DEF RecKept
<1>4. CASE MarkRefreshUsed(r, o)
  <2>1. hash' = hash \/ hash' = [hash EXCEPT ![req[r].tgt].used = TRUE]
    BY <1>4 DEF MarkRefreshUsed, AfterMark, HSetNX, storeVars
  <2>2. hash \in [Requests -> [rec : BOOLEAN, used : BOOLEAN, exp : Nat]]
    BY DEF TypeOK, StoreTypeOK
  <2>3. ASSUME NEW t \in Requests
        PROVE  hash'[t].rec = hash[t].rec /\ (hash[t].used => hash'[t].used)
    BY <2>1, <2>2
  <2> QED
    BY <2>3 DEF RecKept
<1>5. CASE DeleteJti(r, o)
  <2>1. hash' = hash \/ DelKeys({req[r].key})
    BY <1>5 DEF DeleteJti, DelNamed, DelGroupKey, storeVars
  <2> QED BY <2>1, <1>1, <1>2
<1>6. CASE DeleteListed(r, o)
  <2>1. hash' = hash \/ DelKeys(list[r])
    BY <1>6 DEF DeleteListed, storeVars
  <2> QED BY <2>1, <1>1, <1>2
<1>7. CASE \/ StoreJti(r, o) \/ AddToGroup(r, o) \/ ExpireGroup(r, o)
           \/ PurgeExpired(r, o) \/ DeleteGroup(r, o) \/ CheckJti(r, o)
           \/ ListGroup(r, o)
  <2>1. hash' = hash
    BY <1>7 DEF StoreJti, AddToGroup, ExpireGroup, PurgeExpired, DeleteGroup, CheckJti, SignFails,
                ListGroup, storeVars, SetEx, ZAdd, ExpireAtKey, DelGroupKey,
                ZRemRangeByScore
  <2> QED BY <2>1, <1>1
<1> QED
  BY <1>3, <1>4, <1>5, <1>6, <1>7

LEMMA TickKeepsRecords ==
    ASSUME TypeOK, ClockTick
    PROVE  RecKept
  BY DEF RecKept, ClockTick, NoHash, TypeOK, StoreTypeOK

(* No step but a successful mark makes a winner. *)
LEMMA StepKeepsWinners ==
    ASSUME TypeOK, HandlerInv, NEW r \in Requests, NEW o \in Outcomes,
           \/ StoreJti(r, o) \/ AddToGroup(r, o) \/ ExpireGroup(r, o)
           \/ StoreRefresh(r, o) \/ ExpireRefresh(r, o)
           \/ DeleteJti(r, o) \/ PurgeExpired(r, o) \/ DeleteListed(r, o)
           \/ DeleteGroup(r, o) \/ CheckJti(r, o) \/ ListGroup(r, o)
    PROVE  WonKept
<1>1. req' = req /\ HandlerOK(r)
  BY DEF HandlerInv, StoreJti, AddToGroup, ExpireGroup, StoreRefresh, ExpireRefresh,
         DeleteJti, PurgeExpired, DeleteListed, DeleteGroup, CheckJti, SignFails, ListGroup
<1>2. \A p \in Requests \ {r} : pc'[p] = pc[p] /\ resp'[p] = resp[p]
  BY DEF TypeOK, Goto, Answer, Continue, StoreJti, AddToGroup, ExpireGroup,
         StoreRefresh, ExpireRefresh, DeleteJti, PurgeExpired, DeleteListed,
         DeleteGroup, CheckJti, SignFails, ListGroup
<1>3. Won(r)' => Won(r)
  <2> USE <1>1 DEF TypeOK, Won, HandlerOK, Goto, Answer, Continue
  <2>1. CASE StoreJti(r, o) \/ AddToGroup(r, o) \/ ExpireGroup(r, o)
    BY <2>1 DEF StoreJti, AddToGroup, ExpireGroup
  <2>2. CASE StoreRefresh(r, o) \/ ExpireRefresh(r, o) \/ DeleteJti(r, o)
    BY <2>2 DEF StoreRefresh, ExpireRefresh, DeleteJti
  <2>3. CASE PurgeExpired(r, o) \/ DeleteListed(r, o) \/ ListGroup(r, o)
    BY <2>3 DEF PurgeExpired, DeleteListed, ListGroup
  <2>4. CASE DeleteGroup(r, o)
    BY <2>4 DEF DeleteGroup, RevokedStatus
  <2>5. CASE CheckJti(r, o)
    BY <2>5 DEF CheckJti, SignFails, Invalid, Issues
  <2> QED BY <2>1, <2>2, <2>3, <2>4, <2>5
<1> QED
  BY <1>1, <1>2, <1>3 DEF WonKept, Won

LEMMA CheckClaimsKeepsWinners ==
    ASSUME TypeOK, HandlerInv, NEW r \in Requests, CheckClaims(r)
    PROVE  WonKept
<1>1. req' = req /\ HandlerOK(r)
  BY DEF HandlerInv, CheckClaims
<1> QED
  BY <1>1 DEF WonKept, Won, TypeOK, HandlerOK, Goto, Answer, CheckClaims, Invalid, Issues

LEMMA BuildClaimsKeepsWinners ==
    ASSUME TypeOK, HandlerInv, NEW r \in Requests, BuildClaims(r)
    PROVE  WonKept
<1>1. HandlerOK(r) /\ req[r] \in ReqType
  BY DEF HandlerInv, TypeOK
<1>2. \A p \in Requests : req'[p].kind = req[p].kind /\ req'[p].tgt = req[p].tgt
  BY DEF BuildClaims, TypeOK, ReqType
<1> QED
  BY <1>1, <1>2 DEF WonKept, Won, TypeOK, HandlerOK, Goto, Answer, BuildClaims

LEMMA GetRefreshKeepsWinners ==
    ASSUME TypeOK, HandlerInv, NEW r \in Requests, NEW o \in Outcomes, GetRefresh(r, o)
    PROVE  WonKept
<1>1. HandlerOK(r) /\ req[r] \in ReqType
  BY DEF HandlerInv, TypeOK
<1>2. \A p \in Requests : req'[p].kind = req[p].kind /\ req'[p].tgt = req[p].tgt
  BY DEF GetRefresh, TypeOK, ReqType
<1> QED
  BY <1>1, <1>2 DEF WonKept, Won, TypeOK, HandlerOK, Goto, Answer, GetRefresh

(* A request that has just arrived has won nothing. *)
LEMMA TurnAwayKeepsWinners ==
    ASSUME TypeOK, HandlerInv, NEW r \in Requests, pc[r] = "idle", NEW s, TurnAway(r, s)
    PROVE  WonKept /\ hash' = hash
<1>1. HandlerOK(r)
  BY DEF HandlerInv
<1>2. req[r] = NoReq
  BY <1>1 DEF HandlerOK
<1>3. req[r].kind = "none"
  BY <1>2 DEF NoReq
<1>4. hash' = hash /\ req' = req
  BY DEF TurnAway, storeVars
<1>5. \A p \in Requests \ {r} : pc'[p] = pc[p] /\ resp'[p] = resp[p]
  BY DEF TurnAway, Answer, TypeOK
<1> QED
  BY <1>3, <1>4, <1>5 DEF WonKept, Won

LEMMA ArriveKeepsWinners ==
    ASSUME TypeOK, HandlerInv, NEW r \in Requests, pc[r] = "idle",
           NEW q, NEW l, Arrive(r, q), Goto(r, l), UNCHANGED storeVars,
           q.kind # "refresh" \/ l \in {"getRefresh", "delJti", "purge"}
    PROVE  WonKept /\ hash' = hash
<1>1. pc'[r] = l /\ req'[r] = q /\ resp' = resp /\ hash' = hash
  BY DEF Arrive, Goto, TypeOK, storeVars
<1>2. resp[r] = "none"
  BY DEF HandlerInv, HandlerOK
<1>3. \A p \in Requests \ {r} : pc'[p] = pc[p] /\ req'[p] = req[p]
  BY DEF Arrive, Goto, TypeOK
<1> QED
  BY <1>1, <1>2, <1>3 DEF WonKept, Won

LEMMA CreateKeepsWinners ==
    ASSUME TypeOK, HandlerInv, NEW r \in Requests, CreateToken(r)
    PROVE  WonKept /\ hash' = hash
<1>1. PICK k \in Kinds \cap {"create", "pair"}, s \in Subjects,
           h \in Hosts \cup {None}, aud \in SUBSET Audiences,
           ttl \in CustomTtls \cup {None}, keyOk \in BOOLEAN, claimsOk \in BOOLEAN :
         LET accepted == claimsOk /\ TtlAccepted(ttl) /\ aud # {} IN
         \/ ~IsAllowed(h) /\ TurnAway(r, HostRefusal(h))
         \/ IsAllowed(h) /\ ~keyOk /\ TurnAway(r, "500")
         \/ IsAllowed(h) /\ keyOk /\ ~accepted /\ TurnAway(r, "422")
         \/ /\ IsAllowed(h) /\ keyOk /\ accepted
            /\ Arrive(r, [kind |-> k, sub |-> s, host |-> h, aud |-> aud,
                          ttl |-> Lifetime(ttl), tgt |-> None, fam |-> r, key |-> None])
            /\ StartClaims(r)
            /\ Goto(r, "storeJti")
            /\ UNCHANGED <<now, storeVars, stage, asOf, list>>
  BY Zenon DEF CreateToken
<1>2. pc[r] = "idle"
  BY DEF CreateToken
<1> DEFINE q == [kind |-> k, sub |-> s, host |-> h, aud |-> aud,
                 ttl |-> Lifetime(ttl), tgt |-> None, fam |-> r, key |-> None]
<1>3. CASE Arrive(r, q) /\ Goto(r, "storeJti") /\ UNCHANGED storeVars
  <2>1. q.kind # "refresh"
    OBVIOUS
  <2> HIDE DEF q
  <2> QED
    BY <1>2, <1>3, <2>1, ArriveKeepsWinners
<1> QED
  BY <1>1, <1>2, <1>3, TurnAwayKeepsWinners

LEMMA OtherArrivalsKeepWinners ==
    ASSUME TypeOK, HandlerInv, NEW r \in Requests,
           RefreshToken(r) \/ VerifyToken(r) \/ RevokeToken(r) \/ RevokeSubjectTokens(r)
    PROVE  WonKept /\ hash' = hash
<1>1. pc[r] = "idle"
  BY DEF RefreshToken, VerifyToken, Genuine, RevokeToken, RevokeSubjectTokens
<1>2. CASE RefreshToken(r)
  <2>1. PICK h \in Hosts \cup {None}, t \in Requests :
          \/ TurnAway(r, HostRefusal(h))
          \/ /\ Arrive(r, [NoReq EXCEPT !.kind = "refresh", !.host = h, !.tgt = t])
             /\ Goto(r, "getRefresh")
             /\ UNCHANGED storeVars
    BY <1>2 DEF RefreshToken
  <2> QED
    BY <1>1, <2>1, ArriveKeepsWinners, TurnAwayKeepsWinners
<1>3. CASE VerifyToken(r)
  <2>1. PICK h \in Hosts \cup {None}, a \in Audiences, t \in Requests :
          \/ TurnAway(r, "400")
          \/ TurnAway(r, "401")
          \/ /\ Arrive(r, [NoReq EXCEPT !.kind = "verify", !.host = h,
                                        !.aud = {a}, !.tgt = t])
             /\ Goto(r, "clock")
             /\ UNCHANGED storeVars
    BY <1>3 DEF VerifyToken, Genuine
  <2> DEFINE q == [NoReq EXCEPT !.kind = "verify", !.host = h, !.aud = {a}, !.tgt = t]
  <2>2. q.kind # "refresh"
    BY DEF NoReq
  <2> HIDE DEF q
  <2> QED
    BY <1>1, <2>1, <2>2, ArriveKeepsWinners, TurnAwayKeepsWinners DEF q
<1>4. CASE RevokeToken(r)
  <2>1. PICK key \in Members \cup Groups :
          Arrive(r, [NoReq EXCEPT !.kind = "revoke", !.key = key])
    BY <1>4 DEF RevokeToken
  <2>2. Goto(r, "delJti") /\ UNCHANGED storeVars
    BY <1>4 DEF RevokeToken
  <2> QED
    BY <1>1, <2>1, <2>2, ArriveKeepsWinners
<1>5. CASE RevokeSubjectTokens(r)
  <2>1. PICK s \in Subjects : Arrive(r, [NoReq EXCEPT !.kind = "bulk", !.sub = s])
    BY <1>5 DEF RevokeSubjectTokens
  <2>2. Goto(r, "purge") /\ UNCHANGED storeVars
    BY <1>5 DEF RevokeSubjectTokens
  <2> QED
    BY <1>1, <2>1, <2>2, ArriveKeepsWinners
<1> QED
  BY <1>2, <1>3, <1>4, <1>5

LEMMA MarkWinner ==
    ASSUME TypeOK, HandlerInv, OneWinnerPerRecord, NEW r \in Requests,
           NEW o \in Outcomes, MarkRefreshUsed(r, o)
    PROVE  OneWinnerPerRecord'
<1> DEFINE t == req[r].tgt
<1>1. req' = req /\ HandlerOK(r) /\ pc[r] = "mark" /\ t \in Requests
  BY DEF HandlerInv, HandlerOK, MarkRefreshUsed, AfterMark
<1>2. \A p \in Requests \ {r} : pc'[p] = pc[p] /\ resp'[p] = resp[p]
  BY DEF TypeOK, MarkRefreshUsed, AfterMark, Goto, Answer, Continue
<1>3. RecKept
  BY StepKeepsRecords
<1>4. CASE Won(r)'
  <2>1. o = "ok" /\ ~hash[t].used /\ hash' = [hash EXCEPT ![t].used = TRUE]
    BY <1>1, <1>4 DEF Won, HandlerOK, TypeOK, MarkRefreshUsed, AfterMark, Continue, Goto, Answer, HSetNX
  <2>2. hash'[t].used /\ hash'[t].rec = hash[t].rec
        /\ \A u \in Requests \ {t} : hash'[u] = hash[u]
    BY <1>1, <2>1 DEF TypeOK, StoreTypeOK
  <2>3. \A p \in Requests : Won(p) /\ req[p].tgt = t => ~HasRec(t)
    BY <1>1, <2>1 DEF OneWinnerPerRecord
  <2> QED
    BY <1>1, <1>2, <2>2, <2>3 DEF OneWinnerPerRecord, Won, HasRec
<1>5. CASE ~Won(r)'
  <2>1. WonKept
    BY <1>1, <1>2, <1>5 DEF WonKept, Won
  <2> QED BY <2>1, <1>3, WinnerKept
<1> QED
  BY <1>4, <1>5

LEMMA WinnerStep ==
    TypeOK /\ HandlerInv /\ OneWinnerPerRecord /\ [Next]_vars => OneWinnerPerRecord'
<1> SUFFICES ASSUME TypeOK, HandlerInv, OneWinnerPerRecord, [Next]_vars
             PROVE  OneWinnerPerRecord'
  OBVIOUS
<1>1. CASE UNCHANGED vars
  BY <1>1 DEF OneWinnerPerRecord, Won, HasRec, vars, storeVars, handlerVars
<1>2. CASE Tick
  <2>1. RecKept
    BY <1>2, TickKeepsRecords DEF Tick
  <2>2. WonKept
    BY <1>2 DEF Tick, handlerVars, WonKept, Won
  <2> QED BY <2>1, <2>2, WinnerKept
<1>3. ASSUME NEW r \in Requests,
             \/ CreateToken(r) \/ RefreshToken(r) \/ VerifyToken(r)
             \/ RevokeToken(r) \/ RevokeSubjectTokens(r)
      PROVE  OneWinnerPerRecord'
  BY <1>3, CreateKeepsWinners, OtherArrivalsKeepWinners, RecKeptUnchanged, WinnerKept
<1>4. ASSUME NEW r \in Requests, BuildClaims(r) \/ CheckClaims(r)
      PROVE  OneWinnerPerRecord'
  <2>1. hash' = hash
    BY <1>4 DEF BuildClaims, CheckClaims, storeVars
  <2> QED
    BY <1>4, <2>1, BuildClaimsKeepsWinners, CheckClaimsKeepsWinners, RecKeptUnchanged,
       WinnerKept
<1>5. ASSUME NEW r \in Requests, NEW o \in Outcomes, GetRefresh(r, o)
      PROVE  OneWinnerPerRecord'
  <2>1. hash' = hash
    BY <1>5 DEF GetRefresh, storeVars
  <2> QED
    BY <1>5, <2>1, GetRefreshKeepsWinners, RecKeptUnchanged, WinnerKept
<1>6. ASSUME NEW r \in Requests, NEW o \in Outcomes, MarkRefreshUsed(r, o)
      PROVE  OneWinnerPerRecord'
  BY <1>6, MarkWinner
<1>7. ASSUME NEW r \in Requests, NEW o \in Outcomes,
             \/ StoreJti(r, o) \/ AddToGroup(r, o) \/ ExpireGroup(r, o)
             \/ StoreRefresh(r, o) \/ ExpireRefresh(r, o)
             \/ DeleteJti(r, o) \/ PurgeExpired(r, o) \/ DeleteListed(r, o)
             \/ DeleteGroup(r, o) \/ CheckJti(r, o) \/ ListGroup(r, o)
      PROVE  OneWinnerPerRecord'
  BY <1>7, StepKeepsWinners, StepKeepsRecords, WinnerKept
<1> QED
  BY <1>1, <1>2, <1>3, <1>4, <1>5, <1>6, <1>7 DEF Next, Step

(* However many exchanges of one refresh token run at once, and whatever
   commands fail, at most one of them issues a pair while the record is in the
   store: the HSETNX of mark_refresh_used decides. *)
THEOREM OneWinner == Spec => []OneWinnerPerRecord
<1>1. Init => OneWinnerPerRecord
  BY DEF Init, StoreInit, OneWinnerPerRecord, HasRec, NoHash
<1> QED
  BY <1>1, WinnerStep, TypeCorrect, PTL DEF Spec
=============================================================================
