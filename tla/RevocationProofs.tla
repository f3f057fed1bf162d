------------------------- MODULE RevocationProofs -------------------------
(***************************************************************************)
(* What a revocation reaches, for every value of the constants of          *)
(* TokenService: any number of requests, subjects and seconds, and every   *)
(* pattern of lost and late commands.                                      *)
(*                                                                         *)
(* The argument follows a token through its life.  Its jti is stored with  *)
(* a TTL that covers `exp' (JtiInv), its refresh record likewise           *)
(* (RecordInv); it is then entered into the indexes (CoverInv), which hold *)
(* nothing foreign (MemberInv).  A revocation lists the index of its group *)
(* and deletes what it listed (DeletedInv, RevokedInv); a verification     *)
(* that comes later meets the deleted jti (VerifiedInv).                   *)
(***************************************************************************)
EXTENDS TokenServiceProofs

(* The jti of the access token of t was stored, and t is going on. *)
Stored(t) ==
    /\ Issues(t)
    /\ \/ pc[t] \in {"zadd", "expireAt", "clock", "exists", "hset", "hexpire"}
       \/ resp[t] = "200"

(* The record of its refresh token was stored with its TTL. *)
RecordStored(t) ==
    /\ stage[t] = "ref"
    /\ pc[t] \in {"zadd", "expireAt"} \/ resp[t] = "200"

(* The token is in the index of its subject, and the keys of the pair are in
   the index of the family. *)
InSubject(t) ==
    /\ Issues(t)
    /\ \/ pc[t] \in {"expireAt", "clock", "exists", "hset", "hexpire"}
       \/ pc[t] = "zadd" /\ stage[t] # "sub"
       \/ resp[t] = "200"
InFamily(t) ==
    /\ stage[t] # "sub"
    /\ \/ pc[t] \in {"expireAt", "hset", "hexpire"}
       \/ pc[t] = "zadd" /\ stage[t] = "ref"
       \/ resp[t] = "200"
RecordInFamily(t) ==
    /\ stage[t] = "ref"
    /\ pc[t] = "expireAt" \/ resp[t] = "200"

(* t issues a token and has sent, or skipped, the command that stores its jti. *)
PastStore(t) ==
    /\ Issues(t)
    /\ pc[t] \notin {"idle", "getRefresh", "mark", "claims", "storeJti"}

(* What k is about is settled. *)
Settled(k) == pc[k] \notin {"idle", "getRefresh"}

SubjectOf(t) == subject_group(req[t].sub)
FamilyOf(t)  == family_group(req[t].fam)

-----------------------------------------------------------------------------
(* No clock reading is ahead of the clock, and none is kept before its time. *)
ClockOK(r) ==
    /\ asOf[r] <= now
    /\ pc[r] = "storeJti" => exp[r] <= now + req[r].ttl
    /\ pc[r] \in {"getRefresh", "mark"} => asOf[r] = 0
ClockInv == \A r \in Requests : ClockOK(r)

(* A revocation aimed at t deleted its jti, or its refresh record. *)
Killed(t) ==
    \E k \in Requests : killer[jti_key(t)] = k /\ Settled(k) /\ AimedAt(k, t)
RecordKilled(t) ==
    \E k \in Requests : killer[refresh_key(t)] = k /\ Settled(k) /\ RefreshAimedAt(k, t)

(* A stored jti outlives `exp' unless it is revoked. *)
JtiInv ==
    \A t \in Requests : Stored(t) /\ now < exp[t] => jtis[t] >= exp[t] \/ Killed(t)

(* A refresh record has no TTL before EXPIRE gives it one, and then lives as long
   as the service says unless it is revoked. *)
RecordOK(t) ==
    /\ pc[t] # "done" /\ stage[t] # "ref" => hash[t].exp = 0
    /\ pc[t] = "hexpire" => hash[t].rec
    /\ RecordStored(t) /\ hash[t].rec =>
         hash[t].exp = asOf[t] + RefreshTtl /\ now < hash[t].exp
    /\ RecordStored(t) /\ now < asOf[t] + RefreshTtl => hash[t].rec \/ RecordKilled(t)
RecordInv == \A t \in Requests : RecordOK(t)

(* An index holds, and a revocation lists, keys of its own group only. *)
MemberInv ==
    \A t \in Requests :
      /\ \A g \in Groups :
           /\ zset[g][jti_key(t)] # 0 => PastStore(t) /\ g \in {SubjectOf(t), FamilyOf(t)}
           /\ zset[g][refresh_key(t)] # 0 =>
                PastStore(t) /\ stage[t] = "ref" /\ g = FamilyOf(t)
      /\ \A k \in Requests :
           /\ jti_key(t) \in list[k] =>
                /\ PastStore(t) /\ Settled(k) /\ req[k].kind \in {"bulk", "refresh"}
                /\ RevokedGroup(k) \in {SubjectOf(t), FamilyOf(t)}
           /\ refresh_key(t) \in list[k] =>
                /\ PastStore(t) /\ stage[t] = "ref"
                /\ Settled(k) /\ req[k].kind \in {"bulk", "refresh"}
                /\ RevokedGroup(k) = FamilyOf(t)

(* Whether the jti, or the record, of t no longer works or is lost to g. *)
Gone(g, t)       == exp[t] <= now \/ jtis[t] = 0 \/ <<g, jti_key(t)>> \in lost
RecordGone(g, t) == ~hash[t].rec \/ <<g, refresh_key(t)>> \in lost

(* What works is in its indexes, with the score of its expiry. *)
CoverOK(t) ==
    /\ InSubject(t) => Gone(SubjectOf(t), t) \/ zset[SubjectOf(t)][jti_key(t)] = exp[t]
    /\ InFamily(t) => Gone(FamilyOf(t), t) \/ zset[FamilyOf(t)][jti_key(t)] = exp[t]
    /\ RecordInFamily(t) =>
         \/ RecordGone(FamilyOf(t), t)
         \/ zset[FamilyOf(t)][refresh_key(t)] = asOf[t] + RefreshTtl
CoverInv == \A t \in Requests : CoverOK(t)

(* Before a revocation deletes the index, what it listed is deleted. *)
DeletedInv ==
    \A k, t \in Requests : pc[k] = "delGroup" =>
      /\ jti_key(t) \in list[k] => jtis[t] = 0
      /\ refresh_key(t) \in list[k] => ~hash[t].rec

(* A revocation of a group that answered that it is done. *)
Finished(k) == (req[k].kind = "bulk" /\ resp[k] = "200") \/ KilledFamily(k)

(* What was handed out before a revocation of its group arrived is listed by it
   or gone, and when the listed keys are deleted it is gone. *)
RevokedOK(k, t) ==
    LET g == RevokedGroup(k) IN
    t \in hb[k] /\ HandedOut(t) /\ (pc[k] \in {"delKeys", "delGroup"} \/ Finished(k)) =>
      /\ g = SubjectOf(t) \/ (g = FamilyOf(t) /\ HandedOutRefresh(t)) =>
           Gone(g, t) \/ (pc[k] = "delKeys" /\ jti_key(t) \in list[k])
      /\ g = FamilyOf(t) /\ HandedOutRefresh(t) =>
           RecordGone(g, t) \/ (pc[k] = "delKeys" /\ refresh_key(t) \in list[k])
RevokedInv ==
    \A k, t \in Requests :
      /\ t \in hb[k] => pc[t] = "done"
      /\ RevokedOK(k, t)

(* After a 204 the jti it named is gone, and a verification that read the clock while the
   token was valid cannot find it after a bulk revocation. *)
VerifiedOK(v) ==
    /\ req[v].kind = "revoke" /\ resp[v] = "204" =>
         \A t \in Requests : req[v].key = jti_key(t) => jtis[t] = 0
    /\ req[v].kind = "verify" /\ pc[v] = "exists" =>
         LET t == req[v].tgt IN
         \A k \in hb[v] :
           /\ req[k].kind = "bulk" /\ resp[k] = "200" /\ t \in hb[k]
           /\ req[k].sub = req[t].sub
           => jtis[t] = 0 \/ <<SubjectOf(t), jti_key(t)>> \in lost
VerifiedInv == VerifyAfterRevocation /\ \A v \in Requests : VerifiedOK(v)

StoreInv ==
    /\ ClockInv /\ JtiInv /\ RecordInv /\ MemberInv /\ CoverInv
    /\ DeletedInv /\ RevokedInv /\ VerifiedInv

-----------------------------------------------------------------------------
(***************************************************************************)
(* What the steps do to the handlers                                       *)
(***************************************************************************)
(* Nothing of the handler of t moves. *)
Stays(t) ==
    /\ pc'[t] = pc[t] /\ stage'[t] = stage[t] /\ req'[t] = req[t] /\ exp'[t] = exp[t]
    /\ asOf'[t] = asOf[t] /\ list'[t] = list[t] /\ resp'[t] = resp[t] /\ hb'[t] = hb[t]

(* A request is turned away, or arrives. *)
Turned(r) ==
    pc[r] = "idle" /\ \E s \in {"400", "401", "403", "422", "500"} : TurnAway(r, s)

Arrived(r) ==
    /\ pc[r] = "idle"
    /\ \E q \in ReqType, l \in Labels :
         /\ Arrive(r, q) /\ Goto(r, l) /\ UNCHANGED <<now, storeVars, stage, list>>
         /\ \/ /\ l = "storeJti" /\ q.kind \in {"create", "pair"}
               /\ exp' = [exp EXCEPT ![r] = now + q.ttl] /\ asOf' = asOf
            \/ l = "getRefresh" /\ q.kind = "refresh" /\ UNCHANGED <<exp, asOf>>
            \/ l = "clock" /\ q.kind = "verify" /\ UNCHANGED <<exp, asOf>>
            \/ l = "delJti" /\ q.kind = "revoke" /\ UNCHANGED <<exp, asOf>>
            \/ /\ l = "purge" /\ q.kind = "bulk"
               /\ exp' = exp /\ asOf' = [asOf EXCEPT ![r] = now]

(* create_token answers at once, or the request is under way. *)
LEMMA CreateForm ==
    ASSUME TypeOK, NEW r \in Requests, CreateToken(r)
    PROVE  Turned(r) \/ Arrived(r)
<1>1. PICK k \in Kinds \cap {"create", "pair"}, s \in Subjects,
           h \in Hosts \cup {None}, aud \in SUBSET Audiences,
           ttl \in CustomTtls \cup {None}, keyOk \in BOOLEAN, claimsOk \in BOOLEAN :
         LET accepted == claimsOk /\ TtlAccepted(ttl) /\ aud # {} IN
         \/ ~IsAllowed(h) /\ TurnAway(r, HostRefusal(h))
         \/ IsAllowed(h) /\ ~keyOk /\ TurnAway(r, "500")
         \/ IsAllowed(h) /\ keyOk /\ ~accepted /\ TurnAway(r, "422")
         \/ /\ IsAllowed(h) /\ keyOk /\ accepted
            /\ Arrive(r, [kind |-> k, sub |-> s, host |-> h, aud |-> aud,
                          ttl |-> Lifetime(ttl), tgt |-> None, fam |-> r, key |-> None])
            /\ StartClaims(r)
            /\ Goto(r, "storeJti")
            /\ UNCHANGED <<now, storeVars, stage, asOf, list>>
  BY Zenon DEF CreateToken
<1>2. pc[r] = "idle" /\ HostRefusal(h) \in {"400", "403"}
  BY DEF CreateToken, HostRefusal
<1> DEFINE q == [kind |-> k, sub |-> s, host |-> h, aud |-> aud,
                 ttl |-> Lifetime(ttl), tgt |-> None, fam |-> r, key |-> None]
<1>3. CASE /\ Arrive(r, q) /\ StartClaims(r) /\ Goto(r, "storeJti")
           /\ UNCHANGED <<now, storeVars, stage, asOf, list>>
  <2>1. q \in ReqType /\ "storeJti" \in Labels /\ q.kind \in {"create", "pair"}
    BY TtlAssumption, KindsAssumption DEF ReqType, Lifetime, AllKinds, Labels
  <2> HIDE DEF q
  <2>2. req'[r] = q
    BY <1>3, <2>1, ArriveTypes
  <2>3. exp' = [exp EXCEPT ![r] = now + q.ttl]
    BY <1>3, <2>2 DEF StartClaims
  <2> QED
    BY <1>2, <1>3, <2>1, <2>3 DEF Arrived
<1>4. CASE TurnAway(r, HostRefusal(h)) \/ TurnAway(r, "500") \/ TurnAway(r, "422")
  BY <1>2, <1>4 DEF Turned
<1> QED
  BY <1>1, <1>3, <1>4

(* So do the other handlers. *)
LEMMA OtherForms ==
    ASSUME TypeOK, NEW r \in Requests,
           RefreshToken(r) \/ VerifyToken(r) \/ RevokeToken(r) \/ RevokeSubjectTokens(r)
    PROVE  Turned(r) \/ Arrived(r)
<1>1. pc[r] = "idle" /\ None \in Hosts \cup {None}
  BY DEF RefreshToken, VerifyToken, Genuine, RevokeToken, RevokeSubjectTokens
<1>a. {"getRefresh", "clock", "delJti", "purge"} \subseteq Labels
  BY DEF Labels
<1>2. CASE RefreshToken(r)
  <2>1. PICK h \in Hosts \cup {None}, t \in Requests :
          \/ TurnAway(r, HostRefusal(h))
          \/ /\ Arrive(r, [NoReq EXCEPT !.kind = "refresh", !.host = h, !.tgt = t])
             /\ Goto(r, "getRefresh")
             /\ UNCHANGED <<now, storeVars, stage, exp, asOf, list>>
    BY <1>2, Zenon DEF RefreshToken
  <2> DEFINE q == [NoReq EXCEPT !.kind = "refresh", !.host = h, !.tgt = t]
  <2>2. q.kind = "refresh" /\ q \in ReqType
    BY InputTypes DEF NoReq
  <2>3. HostRefusal(h) \in {"400", "403"}
    BY DEF HostRefusal
  <2> HIDE DEF q
  <2>4. CASE TurnAway(r, HostRefusal(h))
    BY <1>1, <2>3, <2>4 DEF Turned
  <2>5. CASE Arrive(r, q) /\ Goto(r, "getRefresh")
             /\ UNCHANGED <<now, storeVars, stage, exp, asOf, list>>
    BY <1>1, <1>a, <2>2, <2>5 DEF Arrived
  <2> QED BY <2>1, <2>4, <2>5 DEF q
<1>3. CASE VerifyToken(r)
  <2>1. PICK h \in Hosts \cup {None}, a \in Audiences, t \in Requests :
          \/ TurnAway(r, "400")
          \/ TurnAway(r, "401")
          \/ /\ Arrive(r, [NoReq EXCEPT !.kind = "verify", !.host = h,
                                        !.aud = {a}, !.tgt = t])
             /\ Goto(r, "clock")
             /\ UNCHANGED <<now, storeVars, stage, exp, asOf, list>>
    BY <1>3, Zenon DEF VerifyToken, Genuine
  <2> DEFINE q == [NoReq EXCEPT !.kind = "verify", !.host = h, !.aud = {a}, !.tgt = t]
  <2>2. q.kind = "verify" /\ q \in ReqType
    BY InputTypes DEF NoReq
  <2> HIDE DEF q
  <2>4. CASE TurnAway(r, "400") \/ TurnAway(r, "401")
    BY <1>1, <2>4 DEF Turned
  <2>5. CASE Arrive(r, q) /\ Goto(r, "clock")
             /\ UNCHANGED <<now, storeVars, stage, exp, asOf, list>>
    BY <1>1, <1>a, <2>2, <2>5 DEF Arrived
  <2> QED BY <2>1, <2>4, <2>5 DEF q
<1>4. CASE RevokeToken(r)
  <2>1. PICK key \in Members \cup Groups :
          Arrive(r, [NoReq EXCEPT !.kind = "revoke", !.key = key])
    BY <1>4 DEF RevokeToken
  <2> DEFINE q == [NoReq EXCEPT !.kind = "revoke", !.key = key]
  <2>2. q.kind = "revoke" /\ q \in ReqType
    BY <1>1, InputTypes DEF NoReq
  <2>3. Goto(r, "delJti") /\ UNCHANGED <<now, storeVars, stage, exp, asOf, list>>
    BY <1>4 DEF RevokeToken
  <2> HIDE DEF q
  <2> QED BY <1>1, <1>a, <2>1, <2>2, <2>3 DEF Arrived, q
<1>5. CASE RevokeSubjectTokens(r)
  <2>1. PICK s \in Subjects : Arrive(r, [NoReq EXCEPT !.kind = "bulk", !.sub = s])
    BY <1>5 DEF RevokeSubjectTokens
  <2> DEFINE q == [NoReq EXCEPT !.kind = "bulk", !.sub = s]
  <2>2. q.kind = "bulk" /\ q \in ReqType
    BY <1>1, InputTypes DEF NoReq
  <2>3. /\ Goto(r, "purge") /\ UNCHANGED <<now, storeVars, stage, exp, list>>
        /\ asOf' = [asOf EXCEPT ![r] = now]
    BY <1>5 DEF RevokeSubjectTokens
  <2> HIDE DEF q
  <2> QED BY <1>1, <1>a, <2>1, <2>2, <2>3 DEF Arrived, q
<1> QED
  BY <1>2, <1>3, <1>4, <1>5

(* A step of r as the proofs below take it apart: the store commands carry their
   outcome. *)
Command(r, o) ==
    \/ StoreJti(r, o)     \/ AddToGroup(r, o)      \/ ExpireGroup(r, o)
    \/ CheckJti(r, o)     \/ StoreRefresh(r, o)    \/ ExpireRefresh(r, o)
    \/ GetRefresh(r, o)   \/ MarkRefreshUsed(r, o) \/ DeleteJti(r, o)
    \/ PurgeExpired(r, o) \/ ListGroup(r, o)       \/ DeleteListed(r, o)
    \/ DeleteGroup(r, o)

(* Every step is one of the kinds the proof distinguishes. *)
LEMMA NextForm ==
    ASSUME TypeOK, [Next]_vars
    PROVE  \/ UNCHANGED vars
           \/ Tick
           \/ \E r \in Requests :
                \/ Turned(r) \/ Arrived(r) \/ BuildClaims(r) \/ CheckClaims(r)
                \/ \E o \in Outcomes : Command(r, o)
  BY CreateForm, OtherForms DEF Next, Step, Command

(* A step of one request leaves what belongs to the others alone. *)
LEMMA OthersStay ==
    ASSUME TypeOK, NEW r \in Requests, NEW t \in Requests \ {r},
           \/ Turned(r) \/ Arrived(r) \/ BuildClaims(r) \/ CheckClaims(r)
           \/ \E o \in Outcomes : Command(r, o)
    PROVE  Stays(t)
<1> USE DEF Stays, TypeOK, Goto, Answer, Continue, history
<1>1. CASE Turned(r)
  BY <1>1 DEF Turned, TurnAway
<1>2. CASE Arrived(r)
  BY <1>2 DEF Arrived, Arrive
<1>3. CASE BuildClaims(r)
  BY <1>3 DEF BuildClaims, StartClaims
<1>4. CASE CheckClaims(r)
  BY <1>4 DEF CheckClaims
<1>5. ASSUME NEW o \in Outcomes, Command(r, o)
      PROVE  Stays(t)
  <2>1. CASE StoreJti(r, o) \/ AddToGroup(r, o) \/ StoreRefresh(r, o) \/ ExpireRefresh(r, o)
    BY <2>1 DEF StoreJti, AddToGroup, StoreRefresh, ExpireRefresh
  <2>2. CASE ExpireGroup(r, o)
    BY <2>2 DEF ExpireGroup
  <2>3. CASE CheckJti(r, o)
    BY <2>3 DEF CheckJti, SignFails
  <2>4. CASE GetRefresh(r, o)
    BY <2>4 DEF GetRefresh
  <2>5. CASE MarkRefreshUsed(r, o) \/ DeleteJti(r, o) \/ PurgeExpired(r, o)
    BY <2>5 DEF MarkRefreshUsed, DeleteJti, PurgeExpired
  <2>6. CASE ListGroup(r, o) \/ DeleteListed(r, o) \/ DeleteGroup(r, o)
    BY <2>6 DEF ListGroup, DeleteListed, DeleteGroup
  <2> QED BY <1>5, <2>1, <2>2, <2>3, <2>4, <2>5, <2>6 DEF Command
<1> QED
  BY <1>1, <1>2, <1>3, <1>4, <1>5

(* What a step keeps of a handler once it has come so far. *)
Kept(t) ==
    /\ pc[t] # "idle" =>
         /\ pc'[t] # "idle" /\ hb'[t] = hb[t]
         /\ req'[t].kind = req[t].kind /\ req'[t].tgt = req[t].tgt
         /\ req'[t].key = req[t].key
    /\ Settled(t) =>
         Settled(t)' /\ req'[t].sub = req[t].sub /\ req'[t].fam = req[t].fam
    /\ PastStore(t) => PastStore(t)' /\ exp'[t] = exp[t]
    /\ stage[t] = "ref" => stage'[t] = "ref" /\ asOf'[t] = asOf[t]
    /\ pc[t] = "done" => Stays(t)

(* A handler that waits keeps everything. *)
LEMMA StaysKept ==
    ASSUME NEW t, Stays(t)
    PROVE  Kept(t)
  BY DEF Stays, Kept, Settled, PastStore, Issues

(* Types that the steps of r need, without the rest of the type invariant. *)
HandlerTypes ==
    /\ pc \in [Requests -> Labels] /\ resp \in [Requests -> Statuses]
    /\ stage \in [Requests -> {"sub", "fam", "ref"}] /\ req \in [Requests -> ReqType]
    /\ exp \in [Requests -> Nat] /\ asOf \in [Requests -> Nat]
    /\ list \in [Requests -> SUBSET Members] /\ hb \in [Requests -> SUBSET Requests]

(* The handler that moves keeps the facts about its token. *)
LEMMA MoverKept ==
    ASSUME TypeOK, HandlerInv, NEW r \in Requests,
           \/ Turned(r) \/ Arrived(r) \/ BuildClaims(r) \/ CheckClaims(r)
           \/ \E o \in Outcomes : Command(r, o)
    PROVE  Kept(r)
<1>1. HandlerOK(r) /\ HandlerTypes
  BY DEF HandlerInv, TypeOK, HandlerTypes
<1>2. CASE Turned(r) \/ Arrived(r)
  <2>1. pc[r] = "idle" /\ stage[r] = "sub" /\ ~Issues(r)
    <3>1. pc[r] = "idle" /\ req[r] = NoReq /\ stage[r] = "sub"
      BY <1>1, <1>2 DEF Turned, Arrived, HandlerOK
    <3> QED BY <3>1 DEF NoReq, Issues
  <2> QED BY <2>1 DEF Kept, Settled, PastStore
<1>3. CASE BuildClaims(r)
  <2>1. /\ req'[r].kind = req[r].kind /\ req'[r].tgt = req[r].tgt
        /\ req'[r].sub = req[r].sub /\ req'[r].fam = req[r].fam /\ req'[r].key = req[r].key
    BY <1>1, <1>3 DEF BuildClaims, HandlerTypes, ReqType
  <2> QED
    BY <1>1, <1>3, <2>1
    DEF Kept, Settled, PastStore, BuildClaims, HandlerOK, Goto, Answer, HandlerTypes, history
<1>4. CASE CheckClaims(r)
  BY <1>1, <1>4
  DEF Kept, Settled, PastStore, Issues, CheckClaims, HandlerOK, Goto, Answer, HandlerTypes, history
<1>5. ASSUME NEW o \in Outcomes, Command(r, o)
      PROVE  Kept(r)
  <2> USE <1>1 DEF Kept, Settled, PastStore, Issues, HandlerOK, Goto, Answer, Continue,
                   HandlerTypes, history
  <2>1. CASE StoreJti(r, o) \/ AddToGroup(r, o) \/ StoreRefresh(r, o) \/ ExpireRefresh(r, o)
    BY <2>1 DEF StoreJti, AddToGroup, StoreRefresh, ExpireRefresh
  <2>2. CASE ExpireGroup(r, o)
    BY <2>2 DEF ExpireGroup
  <2>3. CASE CheckJti(r, o)
    BY <2>3 DEF CheckJti, SignFails
  <2>4. CASE GetRefresh(r, o)
    <3>1. /\ req'[r].kind = req[r].kind /\ req'[r].tgt = req[r].tgt
          /\ req'[r].key = req[r].key
      BY <2>4 DEF GetRefresh, ReqType
    <3> QED BY <2>4, <3>1 DEF GetRefresh
  <2>5. CASE MarkRefreshUsed(r, o)
    BY <2>5 DEF MarkRefreshUsed, AfterMark
  <2>6. CASE DeleteJti(r, o) \/ PurgeExpired(r, o)
    BY <2>6 DEF DeleteJti, PurgeExpired
  <2>7. CASE ListGroup(r, o) \/ DeleteListed(r, o) \/ DeleteGroup(r, o)
    BY <2>7 DEF ListGroup, DeleteListed, DeleteGroup
  <2> QED BY <1>5, <2>1, <2>2, <2>3, <2>4, <2>5, <2>6, <2>7 DEF Command
<1> QED
  BY <1>2, <1>3, <1>4, <1>5

(* How a handler comes to where the invariants of the store begin to speak of
   its token. *)
Advance(t) ==
    /\ Stored(t)' =>
         \/ Stored(t)
         \/ /\ pc[t] = "storeJti" /\ UNCHANGED <<now, exp, req>>
            /\ jtis'[t] = now + req[t].ttl
    /\ InSubject(t)' =>
         \/ InSubject(t)
         \/ /\ pc[t] = "zadd" /\ UNCHANGED <<now, exp, req>>
            /\ zset'[SubjectOf(t)][jti_key(t)] = exp[t]
    /\ InFamily(t)' =>
         \/ InFamily(t)
         \/ /\ pc[t] = "zadd" /\ UNCHANGED <<now, exp, req>>
            /\ zset'[FamilyOf(t)][jti_key(t)] = exp[t]
    /\ RecordInFamily(t)' =>
         \/ RecordInFamily(t)
         \/ /\ pc[t] = "zadd" /\ UNCHANGED <<now, asOf, req>>
            /\ zset'[FamilyOf(t)][refresh_key(t)] = asOf[t] + RefreshTtl
    /\ RecordStored(t)' =>
         \/ RecordStored(t)
         \/ /\ pc[t] = "hexpire" /\ HExpire(t, RefreshTtl)
            /\ now' = now /\ asOf'[t] = now
    /\ pc'[t] = "hexpire" =>
         \/ pc[t] = "hexpire" /\ Stays(t)
         \/ pc[t] = "hset" /\ HSet(t)
    /\ pc'[t] # "done" /\ stage'[t] # "ref" => pc[t] # "done" /\ stage[t] # "ref"

(* A handler that waits comes to no new place. *)
LEMMA StaysAdvance ==
    ASSUME NEW t, Stays(t)
    PROVE  Advance(t)
  BY DEF Stays, Advance, Stored, InSubject, InFamily, RecordInFamily, RecordStored, Issues

(* Before its first command a handler has none of this behind it. *)
LEMMA EarlyAdvance ==
    ASSUME NEW r, pc[r] # "done", stage'[r] = stage[r], pc'[r] # "hexpire",
           resp'[r] = "200" => stage[r] = "sub" /\ ~Issues(r)',
           \/ stage[r] = "sub" /\ ~Issues(r)'
           \/ pc'[r] \notin {"zadd", "expireAt", "clock", "exists", "hset", "hexpire"}
    PROVE  Advance(r)
  BY DEF Advance, Stored, InSubject, InFamily, RecordInFamily, RecordStored

(* The handler that moves comes there in one of these ways. *)
LEMMA MoverAdvance ==
    ASSUME TypeOK, HandlerInv, NEW r \in Requests,
           \/ Turned(r) \/ Arrived(r) \/ BuildClaims(r) \/ CheckClaims(r)
           \/ \E o \in Outcomes : Command(r, o)
    PROVE  Advance(r)
<1>1. HandlerOK(r) /\ HandlerTypes
  BY DEF HandlerInv, TypeOK, HandlerTypes
<1>2. CASE Turned(r) \/ Arrived(r)
  <2>0. pc[r] = "idle" /\ req[r] = NoReq /\ stage[r] = "sub" /\ resp[r] = "none"
    BY <1>1, <1>2 DEF Turned, Arrived, HandlerOK
  <2>1. stage'[r] = "sub" /\ req[r].kind = "none"
    BY <1>2, <2>0 DEF Turned, Arrived, TurnAway, NoReq
  <2>2. CASE Turned(r)
    <3>1. pc'[r] = "done" /\ resp'[r] # "200" /\ req' = req
      BY <1>1, <2>2 DEF Turned, TurnAway, Answer, HandlerTypes
    <3> QED BY <2>0, <2>1, <3>1, EarlyAdvance
  <2>3. CASE Arrived(r)
    <3>1. /\ resp'[r] = "none"
          /\ \/ pc'[r] \in {"storeJti", "getRefresh", "delJti", "purge"}
             \/ pc'[r] = "clock" /\ req'[r].kind = "verify"
      BY <1>1, <2>0, <2>3 DEF Arrived, Arrive, Goto, HandlerTypes
    <3> QED BY <2>0, <2>1, <3>1, EarlyAdvance DEF Issues
  <2> QED BY <1>2, <2>2, <2>3
<1>3. CASE BuildClaims(r)
  <2>1. /\ stage[r] = "sub" /\ stage'[r] = "sub" /\ resp'[r] \in {"none", "500"}
        /\ pc'[r] \in {"storeJti", "done"} /\ pc[r] = "claims"
    BY <1>1, <1>3 DEF BuildClaims, HandlerOK, Goto, Answer, HandlerTypes
  <2> QED BY <2>1, EarlyAdvance
<1>4. CASE CheckClaims(r)
  BY <1>1, <1>4
  DEF Advance, Stored, InSubject, InFamily, RecordInFamily, RecordStored, Issues,
      CheckClaims, Invalid, HandlerOK, Goto, Answer, HandlerTypes
<1>5. ASSUME NEW o \in Outcomes, Command(r, o)
      PROVE  Advance(r)
  <2> USE <1>1 DEF HandlerOK, Goto, Answer, Continue, HandlerTypes
  <2>1. CASE StoreJti(r, o)
    <3>1. pc[r] = "storeJti" /\ UNCHANGED <<now, exp, req, stage>> /\ stage[r] = "sub"
      BY <2>1 DEF StoreJti
    <3>2. \/ pc'[r] = "done" /\ resp'[r] = "500"
          \/ pc'[r] = "zadd" /\ SetEx(r, req[r].ttl) /\ resp'[r] = "none"
      BY <2>1 DEF StoreJti
    <3>3. SetEx(r, req[r].ttl) => jtis'[r] = now + req[r].ttl
      BY DEF SetEx, TypeOK, StoreTypeOK
    <3> QED
      BY <3>1, <3>2, <3>3
      DEF Advance, Stored, InSubject, InFamily, RecordInFamily, RecordStored
  <2>2. CASE AddToGroup(r, o)
    <3>1. pc[r] = "zadd" /\ UNCHANGED <<now, exp, req, stage, asOf>>
      BY <2>2 DEF AddToGroup
    <3>2. \/ pc'[r] = "done" /\ resp'[r] = "500"
          \/ /\ pc'[r] = "expireAt" /\ resp'[r] = "none"
             /\ ZAdd(CallGroup(r), CallMember(r), CallScore(r))
      BY <2>2 DEF AddToGroup
    <3>3. ZAdd(CallGroup(r), CallMember(r), CallScore(r)) =>
            zset'[CallGroup(r)][CallMember(r)] = CallScore(r)
      <4>1. CallGroup(r) \in Groups /\ CallMember(r) \in Members
        BY <3>1, GroupsUsed
      <4>2. zset \in [Groups -> [Members -> Nat]]
        BY DEF TypeOK, StoreTypeOK
      <4> QED BY <4>1, <4>2 DEF ZAdd
    <3>4. CASE pc'[r] = "done" /\ resp'[r] = "500"
      BY <3>1, <3>4
      DEF Advance, Stored, InSubject, InFamily, RecordInFamily, RecordStored, Issues
    <3>5. CASE /\ pc'[r] = "expireAt"
               /\ zset'[CallGroup(r)][CallMember(r)] = CallScore(r)
      <4> USE <3>1, <3>5
          DEF Advance, Stored, InSubject, InFamily, RecordInFamily, RecordStored, Issues,
              CallGroup, CallMember, CallScore, SubjectOf, FamilyOf
      <4>1. CASE stage[r] = "sub"
        BY <4>1
      <4>2. CASE stage[r] = "fam"
        BY <4>2
      <4>3. CASE stage[r] = "ref"
        BY <4>3
      <4> QED BY <4>1, <4>2, <4>3
    <3> QED BY <3>2, <3>3, <3>4, <3>5
  <2>3. CASE ExpireGroup(r, o)
    BY <2>3
    DEF Advance, Stored, InSubject, InFamily, RecordInFamily, RecordStored, Issues, ExpireGroup
  <2>4. CASE CheckJti(r, o)
    BY <2>4
    DEF Advance, Stored, InSubject, InFamily, RecordInFamily, RecordStored, Issues,
        CheckJti, SignFails, Invalid
  <2>5. CASE StoreRefresh(r, o)
    BY <2>5
    DEF Advance, Stored, InSubject, InFamily, RecordInFamily, RecordStored, Issues, StoreRefresh
  <2>6. CASE ExpireRefresh(r, o)
    BY <2>6
    DEF Advance, Stored, InSubject, InFamily, RecordInFamily, RecordStored, Issues, ExpireRefresh
  <2>7. CASE GetRefresh(r, o) \/ MarkRefreshUsed(r, o) \/ DeleteJti(r, o)
    <3>1. /\ pc'[r] \in {"done", "mark", "claims", "purge"} /\ resp'[r] # "200"
          /\ stage[r] = "sub" /\ stage'[r] = "sub" /\ pc[r] # "done"
      BY <2>7 DEF GetRefresh, MarkRefreshUsed, AfterMark, DeleteJti
    <3> QED BY <3>1, EarlyAdvance
  <2>8. CASE PurgeExpired(r, o) \/ ListGroup(r, o) \/ DeleteListed(r, o) \/ DeleteGroup(r, o)
    <3>1. /\ pc'[r] \in {"done", "zrange", "delKeys", "delGroup"}
          /\ resp'[r] = "200" => stage[r] = "sub" /\ ~Issues(r)'
          /\ stage' = stage /\ pc[r] # "done"
      BY <2>8 DEF PurgeExpired, ListGroup, DeleteListed, DeleteGroup, RevokedStatus, Issues
    <3> QED BY <3>1, EarlyAdvance
  <2> QED BY <1>5, <2>1, <2>2, <2>3, <2>4, <2>5, <2>6, <2>7, <2>8 DEF Command
<1> QED
  BY <1>2, <1>3, <1>4, <1>5

-----------------------------------------------------------------------------
(***************************************************************************)
(* What the steps do to the store                                          *)
(***************************************************************************)
(* Different keys have different names. *)
LEMMA KeyNames ==
    /\ \A a, b : jti_key(a) = jti_key(b) => a = b
    /\ \A a, b : refresh_key(a) = refresh_key(b) => a = b
    /\ \A a, b : jti_key(a) # refresh_key(b)
    /\ \A a, b : subject_group(a) = subject_group(b) => a = b
    /\ \A a, b : family_group(a) = family_group(b) => a = b
    /\ \A a, b : subject_group(a) # family_group(b)
    /\ \A a, b : jti_key(a) # subject_group(b) /\ jti_key(a) # family_group(b)
    /\ \A a, b : refresh_key(a) # subject_group(b) /\ refresh_key(a) # family_group(b)
  BY DEF jti_key, refresh_key, subject_group, family_group

(* The keys of Redis: every member of an index names a token. *)
LEMMA KeyTypes ==
    /\ \A t \in Requests : jti_key(t) \in Members /\ refresh_key(t) \in Members
    /\ \A t \in Requests : family_group(t) \in Groups
    /\ \A s \in Subjects : subject_group(s) \in Groups
    /\ \A m \in Members : \E t \in Requests : m = jti_key(t) \/ m = refresh_key(t)
  BY DEF Members, Groups

(* A jti is written by its own request only; it goes when its time is up or when
   a revocation deletes it, which is put on record. *)
DeletesJti(k, t) ==
    \/ pc[k] = "delJti" /\ req[k].key = jti_key(t)
    \/ pc[k] = "delKeys" /\ jti_key(t) \in list[k]
JtiMoves(t) ==
    \/ pc[t] = "storeJti"
    \/ jtis'[t] = jtis[t] /\ killer'[jti_key(t)] = killer[jti_key(t)]
    \/ jtis'[t] = 0 /\ jtis[t] <= now' /\ killer' = killer
    \/ /\ jtis'[t] = 0
       /\ \E k \in Requests : killer'[jti_key(t)] = k /\ DeletesJti(k, t)

(* The same of a refresh record. *)
DeletesRecord(k, t) ==
    \/ pc[k] = "delJti" /\ req[k].key = refresh_key(t)
    \/ pc[k] = "delKeys" /\ refresh_key(t) \in list[k]
RecordMoves(t) ==
    \/ /\ hash'[t].rec = hash[t].rec /\ hash'[t].exp = hash[t].exp
       /\ killer'[refresh_key(t)] = killer[refresh_key(t)]
       /\ now' = now \/ hash[t].exp = 0 \/ now' < hash[t].exp
    \/ pc[t] = "hset" /\ HSet(t)
    \/ pc[t] = "hexpire" /\ HExpire(t, RefreshTtl) /\ stage'[t] = "ref"
    \/ hash'[t] = NoHash /\ hash[t].exp # 0 /\ hash[t].exp <= now' /\ killer' = killer
    \/ /\ hash'[t] = NoHash
       /\ \E k \in Requests :
            /\ DeletesRecord(k, t)
            /\ killer'[refresh_key(t)] = IF hash[t].rec THEN k ELSE killer[refresh_key(t)]

(* An index entry is made by add_to_group; it goes when its time is up, when it
   gets lost, or when a revocation that has listed it deletes the index. *)
EntryMoves(g, m) ==
    \/ zset'[g][m] = zset[g][m]
    \/ /\ zset'[g][m] = 0
       /\ \/ <<g, m>> \in lost'
          \/ zset[g][m] <= now'
          \/ \E k \in Requests : pc[k] = "delGroup" /\ m \in list[k]
    \/ \E k \in Requests :
         /\ pc[k] = "zadd" /\ g = CallGroup(k) /\ m = CallMember(k)
         /\ zset'[g][m] = CallScore(k)

StoreMoves ==
    /\ now <= now' /\ lost \subseteq lost'
    /\ \A t \in Requests : JtiMoves(t) /\ RecordMoves(t)
    /\ \A g \in Groups, m \in Members : EntryMoves(g, m)

(* Nothing moves in the store. *)
LEMMA QuietStore ==
    ASSUME TypeOK, UNCHANGED <<now, storeVars, killer, lost>>
    PROVE  StoreMoves
<1>1. now <= now'
  BY DEF TypeOK, StoreTypeOK
<1> QED
  BY <1>1 DEF StoreMoves, storeVars, JtiMoves, RecordMoves, EntryMoves

(* DEL of the keys ms by r. *)
LEMMA DelMoves ==
    ASSUME TypeOK, NEW r \in Requests, NEW ms, UNCHANGED <<now, lost>>,
           DelKeys(ms), Kill(r, ms),
           \A t \in Requests : jti_key(t) \in ms => DeletesJti(r, t),
           \A t \in Requests : refresh_key(t) \in ms => DeletesRecord(r, t)
    PROVE  StoreMoves
<1>1. now <= now' /\ lost \subseteq lost'
  BY DEF TypeOK, StoreTypeOK
<1>2. ASSUME NEW t \in Requests
      PROVE  JtiMoves(t) /\ RecordMoves(t)
  <2>1. jti_key(t) \in Members /\ refresh_key(t) \in Members
    BY KeyTypes
  <2>2. killer'[jti_key(t)] = IF jti_key(t) \in ms /\ jtis[t] # 0 THEN r ELSE killer[jti_key(t)]
    BY <2>1, KeyNames DEF Kill, Exists
  <2>3. killer'[refresh_key(t)] =
          IF refresh_key(t) \in ms /\ hash[t].rec THEN r ELSE killer[refresh_key(t)]
    BY <2>1, KeyNames DEF Kill, HasRec
  <2>4. jtis'[t] = IF jti_key(t) \in ms THEN 0 ELSE jtis[t]
    BY DEF DelKeys
  <2>5. hash'[t] = IF refresh_key(t) \in ms THEN NoHash ELSE hash[t]
    BY DEF DelKeys
  <2>6. JtiMoves(t)
    BY <2>2, <2>4 DEF JtiMoves
  <2>7. RecordMoves(t)
    BY <2>3, <2>5 DEF RecordMoves
  <2> QED BY <2>6, <2>7
<1>3. zset' = zset
  BY DEF DelKeys
<1> QED
  BY <1>1, <1>2, <1>3 DEF StoreMoves, EntryMoves

(* The indexes change and nothing else does. *)
LEMMA IndexMoves ==
    ASSUME TypeOK, UNCHANGED <<now, jtis, hash, killer>>, lost \subseteq lost',
           \A g \in Groups, m \in Members : EntryMoves(g, m)
    PROVE  StoreMoves
<1>1. now <= now'
  BY DEF TypeOK, StoreTypeOK
<1> QED
  BY <1>1 DEF StoreMoves, JtiMoves, RecordMoves

(* A command of Redis, by any handler and with any outcome. *)
LEMMA CommandMoves ==
    ASSUME TypeOK, HandlerInv, ClockInv, NEW r \in Requests, NEW o \in Outcomes, Command(r, o)
    PROVE  StoreMoves
<1>1. /\ zset \in [Groups -> [Members -> Nat]] /\ jtis \in [Requests -> Nat] /\ now \in Nat
      /\ hash \in [Requests -> [rec : BOOLEAN, used : BOOLEAN, exp : Nat]]
      /\ asOf[r] \in Nat /\ asOf[r] <= now
  BY DEF TypeOK, StoreTypeOK, ClockInv, ClockOK
<1>2. CASE UNCHANGED <<now, storeVars, killer, lost>>
  BY <1>2, QuietStore
<1>3. CASE StoreJti(r, o)
  <2>1. now' = now /\ killer' = killer /\ lost' = lost /\ pc[r] = "storeJti"
    BY <1>3 DEF StoreJti, history
  <2>2. CASE UNCHANGED storeVars
    BY <2>1, <2>2, QuietStore
  <2>3. CASE SetEx(r, req[r].ttl)
    BY <1>1, <2>1, <2>3 DEF SetEx, StoreMoves, JtiMoves, RecordMoves, EntryMoves
  <2> QED BY <1>3, <2>2, <2>3 DEF StoreJti
<1>4. CASE AddToGroup(r, o)
  <2>1. now' = now /\ killer' = killer /\ lost' = lost /\ pc[r] = "zadd"
    BY <1>4 DEF AddToGroup, history
  <2>2. CASE UNCHANGED storeVars
    BY <2>1, <2>2, QuietStore
  <2>3. CASE ZAdd(CallGroup(r), CallMember(r), CallScore(r))
    <3>1. ASSUME NEW g \in Groups, NEW m \in Members
          PROVE  EntryMoves(g, m)
      <4>1. \/ zset'[g][m] = zset[g][m]
            \/ g = CallGroup(r) /\ m = CallMember(r) /\ zset'[g][m] = CallScore(r)
        BY <1>1, <2>3 DEF ZAdd
      <4> QED BY <2>1, <4>1 DEF EntryMoves
    <3> QED BY <2>1, <2>3, <3>1, IndexMoves DEF ZAdd
  <2> QED BY <1>4, <2>2, <2>3 DEF AddToGroup
<1>5. CASE ExpireGroup(r, o)
  <2>1. now' = now /\ killer' = killer /\ pc[r] = "expireAt"
    BY <1>5 DEF ExpireGroup
  <2>2. CASE UNCHANGED <<storeVars, lost>>
    BY <2>1, <2>2, QuietStore
  <2>3. CASE /\ ExpireAtKey(CallGroup(r), CallScore(r))
             /\ lost' = IF CallScore(r) <= now
                        THEN lost \cup Unexpired(CallGroup(r), now) ELSE lost
    <3>1. UNCHANGED <<jtis, hash>> /\ lost \subseteq lost'
      BY <2>3 DEF ExpireAtKey, DelGroupKey, storeVars
    <3>2. ASSUME NEW g \in Groups, NEW m \in Members
          PROVE  EntryMoves(g, m)
      <4>1. \/ zset'[g][m] = zset[g][m]
            \/ g = CallGroup(r) /\ zset'[g][m] = 0 /\ CallScore(r) <= now
        BY <1>1, <2>3 DEF ExpireAtKey, DelGroupKey, NoMembers, storeVars
      <4>2. CASE g = CallGroup(r) /\ zset'[g][m] = 0 /\ CallScore(r) <= now
        <5>1. zset[g][m] > now => <<g, m>> \in lost'
          BY <2>3, <4>2 DEF Unexpired
        <5>2. zset[g][m] \in Nat
          BY <1>1
        <5> QED BY <1>1, <2>1, <4>2, <5>1, <5>2 DEF EntryMoves
      <4> QED BY <4>1, <4>2 DEF EntryMoves
    <3> QED BY <2>1, <3>1, <3>2, IndexMoves
  <2> QED BY <1>5, <2>2, <2>3 DEF ExpireGroup
<1>6. CASE StoreRefresh(r, o) \/ ExpireRefresh(r, o)
  <2>1. now' = now /\ killer' = killer /\ lost' = lost
    BY <1>6 DEF StoreRefresh, ExpireRefresh, history
  <2>2. CASE UNCHANGED storeVars
    BY <2>1, <2>2, QuietStore
  <2>3. CASE pc[r] = "hset" /\ HSet(r)
    <3>1. \A t \in Requests \ {r} : hash'[t] = hash[t]
      BY <1>1, <2>3 DEF HSet
    <3>2. UNCHANGED <<jtis, zset, zttl>>
      BY <2>3 DEF HSet
    <3> QED BY <1>1, <2>1, <2>3, <3>1, <3>2 DEF StoreMoves, JtiMoves, RecordMoves, EntryMoves
  <2>4. CASE pc[r] = "hexpire" /\ HExpire(r, RefreshTtl) /\ stage'[r] = "ref"
    <3>1. \A t \in Requests \ {r} : hash'[t] = hash[t]
      BY <1>1, <2>4 DEF HExpire
    <3>2. UNCHANGED <<jtis, zset, zttl>>
      BY <2>4 DEF HExpire
    <3> QED BY <1>1, <2>1, <2>4, <3>1, <3>2 DEF StoreMoves, JtiMoves, RecordMoves, EntryMoves
  <2> QED BY <1>6, <2>2, <2>3, <2>4 DEF StoreRefresh, ExpireRefresh, TypeOK
<1>7. CASE MarkRefreshUsed(r, o)
  <2>1. now' = now /\ killer' = killer /\ lost' = lost
    BY <1>7 DEF MarkRefreshUsed, history
  <2>2. CASE UNCHANGED storeVars
    BY <2>1, <2>2, QuietStore
  <2>3. CASE HSetNX(req[r].tgt)
    <3>1. \A t \in Requests : hash'[t].rec = hash[t].rec /\ hash'[t].exp = hash[t].exp
      BY <1>1, <2>3 DEF HSetNX
    <3>2. UNCHANGED <<jtis, zset, zttl>>
      BY <2>3 DEF HSetNX
    <3> QED BY <1>1, <2>1, <3>1, <3>2 DEF StoreMoves, JtiMoves, RecordMoves, EntryMoves
  <2> QED BY <1>7, <2>2, <2>3 DEF MarkRefreshUsed
<1>8. CASE DeleteJti(r, o)
  <2>1. now' = now /\ pc[r] = "delJti"
    BY <1>8 DEF DeleteJti
  <2>2. CASE UNCHANGED <<storeVars, killer, lost>>
    BY <2>1, <2>2, QuietStore
  <2> DEFINE h == req[r].key
  <2>3. CASE DelKeys({h}) /\ Kill(r, {h}) /\ lost' = lost
    <3>1. \A t \in Requests : /\ jti_key(t) \in {h} => DeletesJti(r, t)
                              /\ refresh_key(t) \in {h} => DeletesRecord(r, t)
      BY <2>1 DEF DeletesJti, DeletesRecord
    <3> QED BY <2>1, <2>3, <3>1, DelMoves
  <2>4. CASE DelGroupKey(h) /\ killer' = killer /\ lost' = lost \cup {<<h, m>> : m \in ZRange(h)}
    <3>1. ASSUME NEW g \in Groups, NEW m \in Members
          PROVE  EntryMoves(g, m)
      <4>1. zset'[g][m] = zset[g][m] \/ (g = h /\ zset'[g][m] = 0)
        BY <1>1, <2>4 DEF DelGroupKey, NoMembers
      <4>2. CASE g = h /\ zset'[g][m] = 0 /\ zset[g][m] # 0
        <5>1. m \in ZRange(h)
          BY <4>2 DEF ZRange
        <5>2. <<g, m>> \in lost'
          BY <2>4, <4>2, <5>1
        <5> QED BY <4>2, <5>2 DEF EntryMoves
      <4> QED BY <4>1, <4>2 DEF EntryMoves
    <3>2. UNCHANGED <<jtis, hash>> /\ lost \subseteq lost'
      BY <2>4 DEF DelGroupKey
    <3> QED BY <2>1, <2>4, <3>1, <3>2, IndexMoves
  <2> QED BY <1>8, <2>2, <2>3, <2>4 DEF DeleteJti, DelNamed
<1>9. CASE PurgeExpired(r, o)
  <2>1. now' = now /\ killer' = killer /\ lost' = lost
    BY <1>9 DEF PurgeExpired, history
  <2>2. CASE UNCHANGED storeVars
    BY <2>1, <2>2, QuietStore
  <2>3. CASE ZRemRangeByScore(RevokedGroup(r), asOf[r])
    <3>1. ASSUME NEW g \in Groups, NEW m \in Members
          PROVE  EntryMoves(g, m)
      <4>1. \/ zset'[g][m] = zset[g][m]
            \/ zset'[g][m] = 0 /\ zset[g][m] <= asOf[r]
        BY <1>1, <2>3 DEF ZRemRangeByScore
      <4>2. zset[g][m] \in Nat
        BY <1>1
      <4> QED BY <1>1, <2>1, <4>1, <4>2 DEF EntryMoves
    <3> QED BY <2>1, <2>3, <3>1, IndexMoves DEF ZRemRangeByScore
  <2> QED BY <1>9, <2>2, <2>3 DEF PurgeExpired
<1>10. CASE DeleteListed(r, o)
  <2>1. now' = now /\ lost' = lost /\ pc[r] = "delKeys"
    BY <1>10 DEF DeleteListed
  <2>2. CASE UNCHANGED <<storeVars, killer>>
    BY <2>1, <2>2, QuietStore
  <2>3. CASE DelKeys(list[r]) /\ Kill(r, list[r])
    BY <2>1, <2>3, DelMoves DEF DeletesJti, DeletesRecord
  <2> QED BY <1>10, <2>2, <2>3 DEF DeleteListed
<1>11. CASE DeleteGroup(r, o)
  <2>1. now' = now /\ killer' = killer /\ pc[r] = "delGroup"
    BY <1>11 DEF DeleteGroup
  <2>2. CASE UNCHANGED <<storeVars, lost>>
    BY <2>1, <2>2, QuietStore
  <2> DEFINE h == RevokedGroup(r)
  <2>3. CASE DelGroupKey(h) /\ lost' = lost \cup {<<h, m>> : m \in ZRange(h) \ list[r]}
    <3>1. ASSUME NEW g \in Groups, NEW m \in Members
          PROVE  EntryMoves(g, m)
      <4>1. zset'[g][m] = zset[g][m] \/ (g = h /\ zset'[g][m] = 0)
        BY <1>1, <2>3 DEF DelGroupKey, NoMembers
      <4>2. CASE g = h /\ zset'[g][m] = 0 /\ zset[g][m] # 0 /\ m \notin list[r]
        <5>1. m \in ZRange(h)
          BY <4>2 DEF ZRange
        <5>2. <<g, m>> \in lost'
          BY <2>3, <4>2, <5>1
        <5> QED BY <4>2, <5>2 DEF EntryMoves
      <4> QED BY <2>1, <4>1, <4>2 DEF EntryMoves
    <3>2. UNCHANGED <<jtis, hash>> /\ lost \subseteq lost'
      BY <2>3 DEF DelGroupKey
    <3> QED BY <2>1, <3>1, <3>2, IndexMoves
  <2> QED BY <1>11, <2>2, <2>3 DEF DeleteGroup
<1>12. CASE CheckJti(r, o) \/ GetRefresh(r, o) \/ ListGroup(r, o)
  BY <1>12, <1>2 DEF CheckJti, GetRefresh, ListGroup, history
<1> QED
  BY <1>3, <1>4, <1>5, <1>6, <1>7, <1>8, <1>9, <1>10, <1>11, <1>12 DEF Command

(* Time passes, and what has expired disappears. *)
LEMMA TickMoves ==
    ASSUME TypeOK, Tick
    PROVE  StoreMoves
<1>1. /\ zset \in [Groups -> [Members -> Nat]] /\ jtis \in [Requests -> Nat] /\ now \in Nat
      /\ hash \in [Requests -> [rec : BOOLEAN, used : BOOLEAN, exp : Nat]]
  BY DEF TypeOK, StoreTypeOK
<1>2. now' = now + 1 /\ now <= now' /\ killer' = killer /\ lost \subseteq lost'
  BY <1>1 DEF Tick, ClockTick
<1>3. ASSUME NEW t \in Requests PROVE JtiMoves(t) /\ RecordMoves(t)
  <2>1. JtiMoves(t)
    BY <1>1, <1>2 DEF Tick, ClockTick, JtiMoves
  <2>2. RecordMoves(t)
    BY <1>1, <1>2 DEF Tick, ClockTick, RecordMoves
  <2> QED BY <2>1, <2>2
<1>4. ASSUME NEW g \in Groups, NEW m \in Members PROVE EntryMoves(g, m)
  <2>1. zset'[g][m] = zset[g][m] \/ (g \in ExpiringGroups(now + 1) /\ zset'[g][m] = 0)
    BY <1>1 DEF Tick, ClockTick, NoMembers
  <2>2. CASE g \in ExpiringGroups(now + 1) /\ zset'[g][m] = 0 /\ zset[g][m] > now + 1
    <3>1. <<g, m>> \in Unexpired(g, now + 1)
      BY <2>2 DEF Unexpired
    <3>2. <<g, m>> \in lost'
      BY <2>2, <3>1 DEF Tick
    <3> QED BY <2>2, <3>2 DEF EntryMoves
  <2>3. zset[g][m] \in Nat
    BY <1>1
  <2> QED BY <1>1, <1>2, <2>1, <2>2, <2>3 DEF EntryMoves
<1> QED
  BY <1>2, <1>3, <1>4 DEF StoreMoves

(* Steps inside the service do not touch the store. *)
LEMMA QuietStep ==
    ASSUME TypeOK, NEW r \in Requests,
           Turned(r) \/ Arrived(r) \/ BuildClaims(r) \/ CheckClaims(r)
    PROVE  UNCHANGED <<now, storeVars, killer, lost>>
  BY DEF Turned, TurnAway, Arrived, Arrive, BuildClaims, CheckClaims, history

(* Every step moves at most one handler, and the store in the ways above. *)
LEMMA StepForm ==
    ASSUME TypeOK, HandlerInv, ClockInv, [Next]_vars
    PROVE  StoreMoves /\ \A t \in Requests : Kept(t) /\ Advance(t)
<1>1. CASE UNCHANGED vars
  <2>1. \A t \in Requests : Stays(t)
    BY <1>1 DEF vars, handlerVars, history, Stays
  <2>2. StoreMoves
    BY <1>1, QuietStore DEF vars, history
  <2> QED BY <2>1, <2>2, StaysKept, StaysAdvance
<1>2. CASE Tick
  <2>1. \A t \in Requests : Stays(t)
    BY <1>2 DEF Tick, handlerVars, Stays
  <2> QED BY <1>2, <2>1, TickMoves, StaysKept, StaysAdvance
<1>3. ASSUME NEW r \in Requests,
             \/ Turned(r) \/ Arrived(r) \/ BuildClaims(r) \/ CheckClaims(r)
             \/ \E o \in Outcomes : Command(r, o)
      PROVE  StoreMoves /\ \A t \in Requests : Kept(t) /\ Advance(t)
  <2>1. Kept(r) /\ Advance(r)
    BY <1>3, MoverKept, MoverAdvance
  <2>2. \A t \in Requests \ {r} : Kept(t) /\ Advance(t)
    BY <1>3, OthersStay, StaysKept, StaysAdvance
  <2>3. StoreMoves
    BY <1>3, CommandMoves, QuietStep, QuietStore
  <2> QED BY <2>1, <2>2, <2>3
<1> QED
  BY <1>1, <1>2, <1>3, NextForm

(* How a revocation and a verification go on. *)
Quiet == UNCHANGED <<now, storeVars, lost>>

Proceeds(k) ==
    /\ hb'[k] = hb[k] \/ (pc[k] = "idle" /\ hb'[k] = {p \in Requests : pc[p] = "done"})
    /\ list'[k] = list[k] \/ (pc[k] = "zrange" /\ list'[k] = ZRange(RevokedGroup(k)))
    /\ pc'[k] = "delKeys" =>
         \/ pc[k] = "delKeys" /\ Stays(k)
         \/ pc[k] = "zrange" /\ list'[k] = ZRange(RevokedGroup(k)) /\ Quiet
    /\ pc'[k] = "delGroup" =>
         \/ pc[k] = "delGroup" /\ Stays(k)
         \/ pc[k] = "zrange" /\ list'[k] = {} /\ ZRange(RevokedGroup(k)) = {} /\ Quiet
         \/ /\ pc[k] = "delKeys" /\ list'[k] = list[k]
            /\ DelKeys(list[k]) /\ UNCHANGED <<now, lost>>
    /\ Finished(k)' => (Finished(k) /\ pc[k] = "done") \/ pc[k] = "delGroup"
    /\ req'[k].kind = "revoke" /\ resp'[k] = "204" =>
         \/ pc[k] = "done"
         \/ /\ pc[k] = "delJti"
            /\ \A t \in Requests : req[k].key = jti_key(t) => jtis'[t] = 0
    /\ req'[k].kind = "verify" /\ pc'[k] = "exists" =>
         \/ pc[k] = "exists" /\ Stays(k)
         \/ pc[k] = "clock" /\ now < exp[req[k].tgt] /\ Quiet
    /\ req'[k].kind = "verify" /\ resp'[k] = "200" =>
         pc[k] = "done" \/ (pc[k] = "exists" /\ jtis[req[k].tgt] # 0)

(* A handler that waits proceeds, too. *)
LEMMA StaysProceeds ==
    ASSUME TypeOK, HandlerInv, NEW k \in Requests, Stays(k)
    PROVE  Proceeds(k)
<1>1. HandlerOK(k)
  BY DEF HandlerInv
<1> QED
  BY <1>1 DEF Proceeds, Stays, Finished, KilledFamily, HandlerOK

(* The handler that moves proceeds. *)
LEMMA MoverProceeds ==
    ASSUME TypeOK, HandlerInv, ClockInv, NEW r \in Requests,
           \/ Turned(r) \/ Arrived(r) \/ BuildClaims(r) \/ CheckClaims(r)
           \/ \E o \in Outcomes : Command(r, o)
    PROVE  Proceeds(r)
<1>1. HandlerOK(r) /\ HandlerTypes
  BY DEF HandlerInv, TypeOK, HandlerTypes
<1>2. CASE Turned(r)
  <2>1. pc[r] = "idle" /\ req[r] = NoReq
    BY <1>1, <1>2 DEF Turned, HandlerOK
  <2>2. req'[r].kind = "none" /\ pc'[r] = "done" /\ UNCHANGED <<hb, list>>
    BY <1>1, <1>2, <2>1 DEF Turned, TurnAway, Answer, HandlerTypes, NoReq, history
  <2> QED BY <2>1, <2>2 DEF Proceeds, Finished, KilledFamily
<1>3. CASE Arrived(r)
  <2>1. pc[r] = "idle" /\ resp[r] = "none"
    BY <1>1, <1>3 DEF Arrived, HandlerOK
  <2>2. /\ resp'[r] = "none" /\ list' = list
        /\ pc'[r] \in {"storeJti", "getRefresh", "clock", "delJti", "purge"}
        /\ hb'[r] = {p \in Requests : pc[p] = "done"}
    BY <1>1, <1>3, <2>1 DEF Arrived, Arrive, Goto, HandlerTypes
  <2> QED BY <2>1, <2>2 DEF Proceeds, Finished, KilledFamily
<1>4. CASE BuildClaims(r)
  <2>1. req'[r].kind = "refresh"
    BY <1>1, <1>4 DEF BuildClaims, HandlerOK, HandlerTypes, ReqType
  <2> QED
    BY <1>1, <1>4, <2>1
    DEF Proceeds, Finished, KilledFamily, BuildClaims, HandlerOK, Goto, Answer, HandlerTypes,
        history
<1>5. CASE CheckClaims(r)
  <2>1. /\ UNCHANGED <<now, storeVars, req, hb, list, lost>> /\ pc[r] = "clock"
        /\ \/ pc'[r] = "done" /\ resp'[r] = Invalid(r)
           \/ pc'[r] = "exists" /\ resp'[r] = "none" /\ now < exp[Subject(r)]
    <3>1. exp[Subject(r)] > now => now < exp[Subject(r)]
      <4>1. Subject(r) \in Requests
        BY <1>1, <1>5 DEF CheckClaims, HandlerOK, Subject, Issues
      <4> QED BY <1>1, <4>1 DEF TypeOK, StoreTypeOK, HandlerTypes
    <3> QED BY <1>1, <1>5, <3>1 DEF CheckClaims, HandlerOK, Goto, Answer, HandlerTypes, history
  <2>2. /\ Issues(r) => Invalid(r) = "500"
        /\ ~Issues(r) => req[r].kind = "verify" /\ Subject(r) = req[r].tgt /\ Invalid(r) = "401"
    BY <1>1, <2>1 DEF HandlerOK, Subject, Issues, Invalid
  <2> QED
    BY <2>1, <2>2 DEF Proceeds, Finished, KilledFamily, Issues, Quiet
<1>6. ASSUME NEW o \in Outcomes, Command(r, o)
      PROVE  Proceeds(r)
  <2> USE <1>1 DEF HandlerOK, Goto, Answer, Continue, HandlerTypes, history
  <2>1. CASE StoreJti(r, o) \/ AddToGroup(r, o) \/ StoreRefresh(r, o) \/ ExpireRefresh(r, o)
    BY <2>1 DEF Proceeds, Finished, KilledFamily, StoreJti, AddToGroup, StoreRefresh, ExpireRefresh
  <2>2. CASE ExpireGroup(r, o)
    BY <2>2 DEF Proceeds, Finished, KilledFamily, ExpireGroup
  <2>3. CASE CheckJti(r, o)
    BY <2>3
    DEF Proceeds, Finished, KilledFamily, CheckJti, SignFails, Invalid, Issues, Subject, Exists
  <2>4. CASE GetRefresh(r, o)
    <3>1. req'[r].kind = "refresh" /\ asOf'[r] = 0
      BY <2>4 DEF GetRefresh, ReqType, ClockInv, ClockOK
    <3> QED BY <2>4, <3>1 DEF Proceeds, Finished, KilledFamily, GetRefresh
  <2>5. CASE MarkRefreshUsed(r, o)
    BY <2>5 DEF Proceeds, Finished, KilledFamily, MarkRefreshUsed, AfterMark
  <2>6. CASE DeleteJti(r, o)
    <3>1. /\ pc[r] = "delJti" /\ pc'[r] = "done" /\ UNCHANGED <<req, hb, list>>
          /\ resp'[r] \in {"204", "500"}
      BY <2>6 DEF DeleteJti
    <3>2. resp'[r] = "204" => DelKeys({req[r].key}) \/ req[r].key \in Groups
      BY <2>6 DEF DeleteJti, DelNamed
    <3>3. \A t \in Requests : jti_key(t) \notin Groups
      BY KeyNames DEF Groups
    <3>4. ASSUME resp'[r] = "204", NEW t \in Requests, req[r].key = jti_key(t)
          PROVE  jtis'[t] = 0
      BY <3>2, <3>3, <3>4 DEF DelKeys
    <3> QED BY <3>1, <3>4 DEF Proceeds, Finished, KilledFamily
  <2>7. CASE PurgeExpired(r, o)
    BY <2>7 DEF Proceeds, Finished, KilledFamily, PurgeExpired
  <2>8. CASE ListGroup(r, o)
    BY <2>8 DEF Proceeds, Finished, KilledFamily, ListGroup, Quiet
  <2>9. CASE DeleteListed(r, o)
    BY <2>9 DEF Proceeds, Finished, KilledFamily, DeleteListed
  <2>10. CASE DeleteGroup(r, o)
    BY <2>10 DEF Proceeds, Finished, KilledFamily, DeleteGroup, RevokedStatus
  <2> QED
    BY <1>6, <2>1, <2>2, <2>3, <2>4, <2>5, <2>6, <2>7, <2>8, <2>9, <2>10 DEF Command
<1> QED
  BY <1>2, <1>3, <1>4, <1>5, <1>6

(* So at every step. *)
LEMMA AllProceed ==
    ASSUME TypeOK, HandlerInv, ClockInv, [Next]_vars
    PROVE  \A k \in Requests : Proceeds(k)
<1>1. CASE UNCHANGED vars \/ Tick
  <2>1. \A k \in Requests : Stays(k)
    BY <1>1 DEF vars, Tick, handlerVars, history, Stays
  <2> QED BY <2>1, StaysProceeds
<1>2. ASSUME NEW r \in Requests,
             \/ Turned(r) \/ Arrived(r) \/ BuildClaims(r) \/ CheckClaims(r)
             \/ \E o \in Outcomes : Command(r, o)
      PROVE  \A k \in Requests : Proceeds(k)
  <2>1. Proceeds(r)
    BY <1>2, MoverProceeds
  <2>2. \A k \in Requests \ {r} : Proceeds(k)
    BY <1>2, OthersStay, StaysProceeds
  <2> QED BY <2>1, <2>2
<1> QED
  BY <1>1, <1>2, NextForm

-----------------------------------------------------------------------------
(***************************************************************************)
(* The invariants are kept                                                 *)
(***************************************************************************)
LEMMA StaysClock ==
    ASSUME TypeOK, TypeOK', now <= now', NEW t \in Requests, Stays(t), ClockOK(t)
    PROVE  ClockOK(t)'
<1>1. asOf[t] \in Nat /\ exp[t] \in Nat /\ req[t].ttl \in Nat /\ now \in Nat /\ now' \in Nat
  BY DEF TypeOK, StoreTypeOK, ReqType
<1> QED BY <1>1 DEF Stays, ClockOK

(* The times the moving request has noted are not in the future. *)
LEMMA MoverClock ==
    ASSUME TypeOK, HandlerInv, NEW r \in Requests, ClockOK(r),
           \/ Turned(r) \/ Arrived(r) \/ BuildClaims(r) \/ CheckClaims(r)
           \/ \E o \in Outcomes : Command(r, o)
    PROVE  ClockOK(r)'
<1>1. HandlerOK(r) /\ HandlerTypes /\ now \in Nat
  BY DEF HandlerInv, TypeOK, StoreTypeOK, HandlerTypes
<1>2. CASE Turned(r)
  BY <1>1, <1>2 DEF ClockOK, Turned, TurnAway, Answer, HandlerTypes
<1>3. CASE Arrived(r)
  <2>1. PICK q \in ReqType, l \in Labels :
          /\ Arrive(r, q) /\ Goto(r, l) /\ now' = now
          /\ \/ l = "storeJti" /\ exp' = [exp EXCEPT ![r] = now + q.ttl] /\ asOf' = asOf
             \/ l \in {"getRefresh", "clock", "delJti"} /\ asOf' = asOf
             \/ l = "purge" /\ asOf' = [asOf EXCEPT ![r] = now]
    BY <1>3 DEF Arrived
  <2>2. req'[r] = q /\ pc'[r] = l /\ asOf[r] = 0 /\ q.ttl \in Nat
    BY <1>1, <1>3, <2>1 DEF Arrived, Arrive, Goto, HandlerTypes, HandlerOK, ReqType
  <2>4. l = "storeJti" => exp'[r] = now + q.ttl
    BY <1>1, <2>1 DEF HandlerTypes
  <2>5. asOf'[r] <= now
    BY <1>1, <2>1, <2>2 DEF HandlerTypes
  <2>6. l = "getRefresh" => asOf'[r] = 0
    BY <2>1, <2>2
  <2>7. l # "mark"
    BY <2>1
  <2> QED BY <1>1, <2>1, <2>2, <2>4, <2>5, <2>6, <2>7 DEF ClockOK
<1>4. CASE BuildClaims(r)
  <2>1. asOf' = asOf /\ now' = now /\ pc'[r] \in {"done", "storeJti"}
    BY <1>1, <1>4 DEF BuildClaims, Goto, Answer, HandlerTypes
  <2>2. pc'[r] = "storeJti" => exp'[r] = now + req'[r].ttl
    BY <1>1, <1>4 DEF BuildClaims, StartClaims, Answer, HandlerTypes
  <2>3. now + req'[r].ttl <= now + req'[r].ttl
    <3>1. req' \in [Requests -> ReqType]
      BY <1>4, BuildClaimsType DEF TypeOK
    <3> QED BY <1>1, <3>1 DEF ReqType
  <2> QED BY <2>1, <2>2, <2>3 DEF ClockOK
<1>5. CASE CheckClaims(r)
  BY <1>1, <1>5 DEF ClockOK, CheckClaims, Goto, Answer, HandlerTypes
<1>6. ASSUME NEW o \in Outcomes, Command(r, o)
      PROVE  ClockOK(r)'
  <2> USE <1>1 DEF ClockOK, HandlerOK, Goto, Answer, Continue, HandlerTypes
  <2>1. CASE StoreJti(r, o) \/ AddToGroup(r, o) \/ StoreRefresh(r, o) \/ ExpireRefresh(r, o)
    BY <2>1 DEF StoreJti, AddToGroup, StoreRefresh, ExpireRefresh
  <2>2. CASE ExpireGroup(r, o)
    BY <2>2 DEF ExpireGroup
  <2>3. CASE CheckJti(r, o)
    BY <2>3 DEF CheckJti, SignFails
  <2>4. CASE GetRefresh(r, o)
    BY <2>4 DEF GetRefresh
  <2>5. CASE MarkRefreshUsed(r, o)
    BY <2>5 DEF MarkRefreshUsed, AfterMark
  <2>6. CASE DeleteJti(r, o) \/ PurgeExpired(r, o)
    BY <2>6 DEF DeleteJti, PurgeExpired
  <2>7. CASE ListGroup(r, o) \/ DeleteListed(r, o) \/ DeleteGroup(r, o)
    BY <2>7 DEF ListGroup, DeleteListed, DeleteGroup
  <2> QED BY <1>6, <2>1, <2>2, <2>3, <2>4, <2>5, <2>6, <2>7 DEF Command
<1> QED
  BY <1>2, <1>3, <1>4, <1>5, <1>6

(* The times that were noted stay behind the clock. *)
LEMMA ClockStep ==
    ASSUME TypeOK, TypeOK', HandlerInv, ClockInv, [Next]_vars
    PROVE  ClockInv'
<1>1. now <= now' /\ \A r \in Requests : ClockOK(r)
  BY StepForm DEF StoreMoves, ClockInv
<1>2. CASE UNCHANGED vars \/ Tick
  <2>1. \A k \in Requests : Stays(k)
    BY <1>2 DEF vars, Tick, handlerVars, history, Stays
  <2> QED BY <1>1, <2>1, StaysClock DEF ClockInv
<1>3. ASSUME NEW r \in Requests,
             \/ Turned(r) \/ Arrived(r) \/ BuildClaims(r) \/ CheckClaims(r)
             \/ \E o \in Outcomes : Command(r, o)
      PROVE  ClockInv'
  <2>1. ClockOK(r)'
    BY <1>1, <1>3, MoverClock
  <2>2. \A k \in Requests \ {r} : ClockOK(k)'
    BY <1>1, <1>3, OthersStay, StaysClock
  <2> QED BY <2>1, <2>2 DEF ClockInv
<1> QED
  BY <1>2, <1>3, NextForm

(* What the proofs below know of a step. *)
StepFacts ==
    /\ TypeOK /\ HandlerInv /\ StoreInv
    /\ TypeOK' /\ HandlerInv'
    /\ StoreMoves
    /\ \A t \in Requests : Kept(t) /\ Advance(t) /\ Proceeds(t)

(* Times and expiries are numbers, before and after the step. *)
LEMMA Numbers ==
    ASSUME StepFacts
    PROVE  /\ now \in Nat /\ now' \in Nat /\ now <= now'
           /\ \A t \in Requests :
                /\ exp[t] \in Nat /\ asOf[t] \in Nat /\ jtis[t] \in Nat /\ req[t].ttl \in Nat
                /\ exp'[t] \in Nat /\ asOf'[t] \in Nat /\ jtis'[t] \in Nat
                /\ hash[t].exp \in Nat /\ hash'[t].exp \in Nat
                /\ hash[t].rec \in BOOLEAN /\ hash'[t].rec \in BOOLEAN
                /\ hash[t] \in [rec : BOOLEAN, used : BOOLEAN, exp : Nat]
           /\ \A g \in Groups, m \in Members : zset[g][m] \in Nat /\ zset'[g][m] \in Nat
<1>1. now <= now'
  BY DEF StepFacts, StoreMoves
<1>2. StoreTypeOK /\ StoreTypeOK' /\ HandlerTypes /\ HandlerTypes'
  BY DEF StepFacts, TypeOK, HandlerTypes
<1>3. \A t \in Requests :
        /\ exp[t] \in Nat /\ asOf[t] \in Nat /\ req[t].ttl \in Nat
        /\ exp'[t] \in Nat /\ asOf'[t] \in Nat
  BY <1>2 DEF HandlerTypes, ReqType
<1>4. \A t \in Requests : jtis[t] \in Nat /\ jtis'[t] \in Nat
  BY <1>2 DEF StoreTypeOK
<1>5. \A t \in Requests : /\ hash[t] \in [rec : BOOLEAN, used : BOOLEAN, exp : Nat]
                          /\ hash'[t] \in [rec : BOOLEAN, used : BOOLEAN, exp : Nat]
  BY <1>2 DEF StoreTypeOK
<1>6. \A g \in Groups, m \in Members : zset[g][m] \in Nat /\ zset'[g][m] \in Nat
  BY <1>2 DEF StoreTypeOK
<1> QED BY <1>1, <1>2, <1>3, <1>4, <1>5, <1>6 DEF StoreTypeOK

(* Where a handler has come to, its token was built before. *)
LEMMA Stages ==
    ASSUME StepFacts, NEW t \in Requests
    PROVE  /\ Stored(t) => PastStore(t)
           /\ InSubject(t) => Stored(t) /\ PastStore(t)
           /\ InFamily(t) => InSubject(t) /\ PastStore(t)
           /\ RecordInFamily(t) => RecordStored(t) /\ InFamily(t) /\ stage[t] = "ref"
           /\ RecordStored(t) => PastStore(t) /\ stage[t] = "ref" /\ InFamily(t)
           /\ PastStore(t) => Settled(t) /\ pc[t] # "idle"
           /\ pc[t] = "zadd" => PastStore(t)
           /\ HandedOut(t) => PastStore(t) /\ Stored(t) /\ InSubject(t)
           /\ HandedOutRefresh(t) =>
                HandedOut(t) /\ InFamily(t) /\ RecordStored(t) /\ RecordInFamily(t)
<1>1. HandlerOK(t)
  BY DEF StepFacts, HandlerInv
<1> QED
  BY <1>1
  DEF Stored, PastStore, InSubject, InFamily, RecordInFamily, RecordStored, Settled,
      Issues, HandlerOK, HandedOut, HandedOutRefresh

(* What is aimed at a token remains so. *)
LEMMA AimStable ==
    ASSUME NEW k, NEW t, Kept(k), Kept(t), Settled(k), PastStore(t)
    PROVE  /\ Settled(k)'
           /\ AimedAt(k, t) => AimedAt(k, t)'
           /\ RefreshAimedAt(k, t) => RefreshAimedAt(k, t)'
           /\ SubjectOf(t)' = SubjectOf(t) /\ FamilyOf(t)' = FamilyOf(t)
           /\ RevokedGroup(k)' = RevokedGroup(k)
<1>1. Settled(t) /\ pc[k] # "idle"
  BY DEF PastStore, Settled
<1> QED
  BY <1>1 DEF Kept, AimedAt, RefreshAimedAt, SubjectOf, FamilyOf, RevokedGroup

(* What a revocation deletes it is aimed at. *)
LEMMA DeletesAimed ==
    ASSUME StepFacts, NEW k \in Requests, NEW t \in Requests
    PROVE  /\ DeletesJti(k, t) => Settled(k) /\ AimedAt(k, t)
           /\ DeletesRecord(k, t) =>
                Settled(k) /\ RefreshAimedAt(k, t) /\ stage[t] = "ref" /\ PastStore(t)
<1>1. HandlerOK(k) /\ MemberInv
  BY DEF StepFacts, HandlerInv, StoreInv
<1>2. pc[k] = "delJti" =>
        /\ req[k].key = jti_key(t) => Settled(k) /\ AimedAt(k, t)
        /\ req[k].key = refresh_key(t) =>
             Settled(k) /\ RefreshAimedAt(k, t) /\ stage[t] = "ref" /\ PastStore(t)
  <2>1. pc[k] = "delJti" => Settled(k) /\ req[k].kind = "revoke" /\ Nameable(req[k].key)
    BY <1>1 DEF HandlerOK, Settled
  <2>2. Nameable(refresh_key(t)) => HandedOutRefresh(t)
    BY KeyNames DEF Nameable
  <2>3. HandedOutRefresh(t) => stage[t] = "ref" /\ PastStore(t)
    BY Stages
  <2> QED BY <2>1, <2>2, <2>3 DEF AimedAt, RefreshAimedAt
<1>3. ASSUME RevokedGroup(k) \in {SubjectOf(t), FamilyOf(t)}, req[k].kind \in {"bulk", "refresh"}
      PROVE  AimedAt(k, t) /\ (RevokedGroup(k) = FamilyOf(t) => RefreshAimedAt(k, t))
  BY <1>3, KeyNames DEF RevokedGroup, SubjectOf, FamilyOf, AimedAt, RefreshAimedAt
<1>4. /\ jti_key(t) \in list[k] => Settled(k) /\ AimedAt(k, t)
      /\ refresh_key(t) \in list[k] =>
           Settled(k) /\ RefreshAimedAt(k, t) /\ stage[t] = "ref" /\ PastStore(t)
  BY <1>1, <1>3 DEF MemberInv
<1> QED
  BY <1>2, <1>4 DEF DeletesJti, DeletesRecord

(* JtiInv is kept. *)
LEMMA JtiStep ==
    ASSUME StepFacts
    PROVE  JtiInv'
<1> SUFFICES ASSUME NEW t \in Requests, Stored(t)', now' < exp'[t]
             PROVE  jtis'[t] >= exp'[t] \/ Killed(t)'
  BY DEF JtiInv
<1>1. /\ Kept(t) /\ Advance(t) /\ JtiMoves(t) /\ ClockOK(t)
      /\ Stored(t) /\ now < exp[t] => jtis[t] >= exp[t] \/ Killed(t)
  BY DEF StepFacts, StoreMoves, StoreInv, ClockInv, JtiInv
<1>2. CASE /\ pc[t] = "storeJti" /\ UNCHANGED <<now, exp, req>>
           /\ jtis'[t] = now + req[t].ttl
  BY <1>1, <1>2, Numbers DEF ClockOK
<1>3. CASE Stored(t)
  <2>1. PastStore(t) /\ exp'[t] = exp[t] /\ pc[t] # "storeJti"
    BY <1>1, <1>3, Stages DEF Kept, PastStore
  <2>2. now < exp[t]
    BY <2>1, Numbers
  <2>3. ASSUME NEW k \in Requests, killer'[jti_key(t)] = k, Settled(k), AimedAt(k, t)
        PROVE  Killed(t)'
    <3>1. Kept(k)
      BY DEF StepFacts
    <3>2. Settled(k)' /\ AimedAt(k, t)'
      BY <1>1, <2>1, <2>3, <3>1, AimStable
    <3> QED BY <2>3, <3>2 DEF Killed
  <2>4. CASE killer'[jti_key(t)] = killer[jti_key(t)] /\ Killed(t)
    BY <2>3, <2>4 DEF Killed
  <2>5. CASE \E k \in Requests : killer'[jti_key(t)] = k /\ DeletesJti(k, t)
    BY <2>3, <2>5, DeletesAimed
  <2>6. CASE /\ jtis[t] >= exp[t]
             /\ jtis'[t] = jtis[t] \/ jtis[t] <= now'
    BY <2>1, <2>6, Numbers
  <2> QED BY <1>1, <1>3, <2>1, <2>2, <2>4, <2>5, <2>6 DEF JtiMoves
<1> QED
  BY <1>1, <1>2, <1>3 DEF Advance

(* RecordInv is kept. *)
LEMMA RecordStep ==
    ASSUME StepFacts
    PROVE  RecordInv'
<1> SUFFICES ASSUME NEW t \in Requests PROVE RecordOK(t)'
  BY DEF RecordInv
<1>1. Kept(t) /\ Advance(t) /\ RecordMoves(t) /\ RecordOK(t) /\ HandlerOK(t)
  BY DEF StepFacts, StoreMoves, StoreInv, RecordInv, HandlerInv
<1>2. hash \in [Requests -> [rec : BOOLEAN, used : BOOLEAN, exp : Nat]]
  BY DEF StepFacts, TypeOK, StoreTypeOK
<1>3. HSet(t) => hash'[t].rec /\ hash'[t].exp = hash[t].exp
  BY <1>2 DEF HSet
<1>4. NoHash.exp = 0 /\ ~NoHash.rec
  BY DEF NoHash
<1>5. ASSUME pc'[t] # "done", stage'[t] # "ref"
      PROVE  hash'[t].exp = 0
  BY <1>1, <1>3, <1>4, <1>5 DEF Advance, RecordMoves, RecordOK
<1>6. ASSUME pc'[t] = "hexpire"
      PROVE  hash'[t].rec
  <2>1. CASE pc[t] = "hset" /\ HSet(t)
    BY <1>3, <2>1
  <2>2. CASE pc[t] = "hexpire" /\ Stays(t)
    <3>1. stage[t] = "fam" /\ stage'[t] = "fam" /\ hash[t].rec /\ hash[t].exp = 0
      BY <1>1, <2>2 DEF HandlerOK, Stays, RecordOK
    <3>2. ~\E k \in Requests : DeletesRecord(k, t)
      BY <3>1, DeletesAimed
    <3> QED BY <1>1, <1>3, <3>1, <3>2 DEF RecordMoves
  <2> QED BY <1>1, <1>6, <2>1, <2>2 DEF Advance
<1>7. ASSUME RecordStored(t)', ~RecordStored(t)
      PROVE  /\ hash'[t].rec => hash'[t].exp = asOf'[t] + RefreshTtl /\ now' < hash'[t].exp
             /\ now' < asOf'[t] + RefreshTtl => hash'[t].rec
  <2>1. pc[t] = "hexpire" /\ HExpire(t, RefreshTtl) /\ now' = now /\ asOf'[t] = now
    BY <1>1, <1>7 DEF Advance
  <2>2. hash[t].rec /\ hash[t] # NoHash
    BY <1>1, <1>4, <2>1 DEF RecordOK
  <2>3. hash'[t] = IF RefreshTtl = 0 THEN NoHash ELSE [hash[t] EXCEPT !.exp = now + RefreshTtl]
    BY <1>2, <2>1, <2>2 DEF HExpire
  <2>4. CASE RefreshTtl = 0
    BY <1>4, <2>1, <2>3, <2>4, Numbers
  <2>5. CASE RefreshTtl # 0
    <3>1. hash'[t].rec /\ hash'[t].exp = now + RefreshTtl
      BY <1>2, <2>2, <2>3, <2>5
    <3> QED BY <2>1, <2>5, <3>1, Numbers, TtlAssumption
  <2> QED BY <2>4, <2>5
<1>8. ASSUME RecordStored(t)
      PROVE  /\ hash'[t].rec => hash'[t].exp = asOf'[t] + RefreshTtl /\ now' < hash'[t].exp
             /\ now' < asOf'[t] + RefreshTtl => hash'[t].rec \/ RecordKilled(t)'
  <2>1. /\ stage[t] = "ref" /\ asOf'[t] = asOf[t] /\ PastStore(t)
        /\ pc[t] \notin {"hset", "hexpire"}
    BY <1>1, <1>8, Stages DEF Kept, RecordStored, HandlerOK
  <2>2. /\ hash[t].rec => hash[t].exp = asOf[t] + RefreshTtl /\ now < hash[t].exp
        /\ now < asOf[t] + RefreshTtl => hash[t].rec \/ RecordKilled(t)
    BY <1>1, <1>8 DEF RecordOK
  <2>3. now' < asOf'[t] + RefreshTtl => now < asOf[t] + RefreshTtl
    BY <2>1, Numbers, TtlAssumption
  <2>4. ASSUME NEW k \in Requests, killer'[refresh_key(t)] = k, Settled(k), RefreshAimedAt(k, t)
        PROVE  RecordKilled(t)'
    <3>1. Kept(k)
      BY DEF StepFacts
    <3>2. Settled(k)' /\ RefreshAimedAt(k, t)'
      BY <1>1, <2>1, <2>4, <3>1, AimStable
    <3> QED BY <2>4, <3>2 DEF RecordKilled
  <2>5. killer'[refresh_key(t)] = killer[refresh_key(t)] /\ RecordKilled(t) => RecordKilled(t)'
    BY <2>4 DEF RecordKilled
  <2>6. CASE /\ hash'[t].rec = hash[t].rec /\ hash'[t].exp = hash[t].exp
             /\ killer'[refresh_key(t)] = killer[refresh_key(t)]
             /\ now' = now \/ hash[t].exp = 0 \/ now' < hash[t].exp
    BY <2>1, <2>2, <2>3, <2>5, <2>6, Numbers, TtlAssumption
  <2>7. CASE hash'[t] = NoHash /\ hash[t].exp # 0 /\ hash[t].exp <= now' /\ killer' = killer
    BY <1>4, <2>1, <2>2, <2>3, <2>5, <2>7, Numbers, TtlAssumption
  <2>8. CASE /\ hash'[t] = NoHash
             /\ \E k \in Requests :
                  /\ DeletesRecord(k, t)
                  /\ killer'[refresh_key(t)] = IF hash[t].rec THEN k ELSE killer[refresh_key(t)]
    <3>1. PICK k \in Requests :
            /\ DeletesRecord(k, t)
            /\ killer'[refresh_key(t)] = IF hash[t].rec THEN k ELSE killer[refresh_key(t)]
      BY <2>8
    <3>2. Settled(k) /\ RefreshAimedAt(k, t)
      BY <3>1, DeletesAimed
    <3>3. hash[t].rec => RecordKilled(t)'
      BY <2>4, <3>1, <3>2
    <3> QED BY <1>4, <2>2, <2>3, <2>5, <2>8, <3>1, <3>3
  <2> QED BY <1>1, <2>1, <2>6, <2>7, <2>8 DEF RecordMoves
<1> QED
  BY <1>5, <1>6, <1>7, <1>8 DEF RecordOK

(* The indexes hold, and the revocations list, nothing foreign. *)
LEMMA MemberStep ==
    ASSUME StepFacts
    PROVE  MemberInv'
<1> SUFFICES ASSUME NEW t \in Requests
             PROVE  /\ \A g \in Groups :
                         /\ zset'[g][jti_key(t)] # 0 =>
                              PastStore(t)' /\ g \in {SubjectOf(t)', FamilyOf(t)'}
                         /\ zset'[g][refresh_key(t)] # 0 =>
                              PastStore(t)' /\ stage'[t] = "ref" /\ g = FamilyOf(t)'
                    /\ \A k \in Requests :
                         /\ jti_key(t) \in list'[k] =>
                              /\ PastStore(t)' /\ Settled(k)' /\ req'[k].kind \in {"bulk", "refresh"}
                              /\ RevokedGroup(k)' \in {SubjectOf(t)', FamilyOf(t)'}
                         /\ refresh_key(t) \in list'[k] =>
                              /\ PastStore(t)' /\ stage'[t] = "ref"
                              /\ Settled(k)' /\ req'[k].kind \in {"bulk", "refresh"}
                              /\ RevokedGroup(k)' = FamilyOf(t)'
  BY DEF MemberInv
<1>1. Kept(t) /\ jti_key(t) \in Members /\ refresh_key(t) \in Members /\ MemberInv
  BY KeyTypes DEF StepFacts, StoreInv
<1>2. ASSUME PastStore(t)
      PROVE  /\ PastStore(t)' /\ SubjectOf(t)' = SubjectOf(t) /\ FamilyOf(t)' = FamilyOf(t)
             /\ stage[t] = "ref" => stage'[t] = "ref"
  <2>1. Settled(t)
    BY <1>2, Stages
  <2> QED BY <1>1, <1>2, <2>1, AimStable DEF Kept
<1>3. ASSUME NEW g \in Groups, zset'[g][jti_key(t)] # 0
      PROVE  PastStore(t) /\ g \in {SubjectOf(t), FamilyOf(t)}
  <2>1. EntryMoves(g, jti_key(t))
    BY <1>1 DEF StepFacts, StoreMoves
  <2>2. CASE zset[g][jti_key(t)] # 0
    BY <1>1, <2>2 DEF MemberInv
  <2>3. ASSUME NEW k \in Requests, pc[k] = "zadd", g = CallGroup(k), jti_key(t) = CallMember(k)
        PROVE  PastStore(t) /\ g \in {SubjectOf(t), FamilyOf(t)}
    <3>1. k = t
      BY <2>3, KeyNames DEF CallMember
    <3> QED BY <2>3, <3>1, Stages DEF CallGroup, SubjectOf, FamilyOf
  <2> QED BY <1>3, <2>1, <2>2, <2>3 DEF EntryMoves
<1>4. ASSUME NEW g \in Groups, zset'[g][refresh_key(t)] # 0
      PROVE  PastStore(t) /\ stage[t] = "ref" /\ g = FamilyOf(t)
  <2>1. EntryMoves(g, refresh_key(t))
    BY <1>1 DEF StepFacts, StoreMoves
  <2>2. CASE zset[g][refresh_key(t)] # 0
    BY <1>1, <2>2 DEF MemberInv
  <2>3. ASSUME NEW k \in Requests, pc[k] = "zadd", g = CallGroup(k),
               refresh_key(t) = CallMember(k)
        PROVE  PastStore(t) /\ stage[t] = "ref" /\ g = FamilyOf(t)
    <3>1. k = t /\ stage[t] = "ref"
      BY <2>3, KeyNames DEF CallMember
    <3> QED BY <2>3, <3>1, Stages DEF CallGroup, FamilyOf
  <2> QED BY <1>4, <2>1, <2>2, <2>3 DEF EntryMoves
<1>5. ASSUME NEW k \in Requests, pc[k] = "zrange"
      PROVE  Settled(k) /\ req[k].kind \in {"bulk", "refresh"} /\ RevokedGroup(k) \in Groups
  BY <1>5, GroupsUsed DEF StepFacts, HandlerInv, HandlerOK, Settled
<1>6. ASSUME NEW k \in Requests, Settled(k), PastStore(t), req[k].kind \in {"bulk", "refresh"}
      PROVE  /\ Settled(k)' /\ req'[k].kind \in {"bulk", "refresh"}
             /\ RevokedGroup(k)' = RevokedGroup(k)
  <2>1. Kept(k) /\ pc[k] # "idle"
    BY <1>6 DEF StepFacts, Settled
  <2> QED BY <1>1, <1>6, <2>1, AimStable DEF Kept
<1>7. ASSUME NEW k \in Requests, jti_key(t) \in list'[k]
      PROVE  /\ PastStore(t) /\ Settled(k) /\ req[k].kind \in {"bulk", "refresh"}
             /\ RevokedGroup(k) \in {SubjectOf(t), FamilyOf(t)}
  <2>1. jti_key(t) \in list[k] \/ (pc[k] = "zrange" /\ jti_key(t) \in ZRange(RevokedGroup(k)))
    BY <1>7 DEF StepFacts, Proceeds
  <2> QED BY <1>1, <1>5, <2>1 DEF MemberInv, ZRange
<1>8. ASSUME NEW k \in Requests, refresh_key(t) \in list'[k]
      PROVE  /\ PastStore(t) /\ stage[t] = "ref"
             /\ Settled(k) /\ req[k].kind \in {"bulk", "refresh"}
             /\ RevokedGroup(k) = FamilyOf(t)
  <2>1. \/ refresh_key(t) \in list[k]
        \/ pc[k] = "zrange" /\ refresh_key(t) \in ZRange(RevokedGroup(k))
    BY <1>8 DEF StepFacts, Proceeds
  <2> QED BY <1>1, <1>5, <2>1 DEF MemberInv, ZRange
<1>9. ASSUME NEW k \in Requests
      PROVE  /\ jti_key(t) \in list'[k] =>
                  /\ PastStore(t)' /\ Settled(k)' /\ req'[k].kind \in {"bulk", "refresh"}
                  /\ RevokedGroup(k)' \in {SubjectOf(t)', FamilyOf(t)'}
             /\ refresh_key(t) \in list'[k] =>
                  /\ PastStore(t)' /\ stage'[t] = "ref"
                  /\ Settled(k)' /\ req'[k].kind \in {"bulk", "refresh"}
                  /\ RevokedGroup(k)' = FamilyOf(t)'
  BY <1>2, <1>6, <1>7, <1>8
<1> QED
  BY <1>2, <1>3, <1>4, <1>9

(* A deleted key does not come back: its request has stored it before. *)
LEMMA GoneStable ==
    ASSUME StepFacts, NEW t \in Requests, NEW g
    PROVE  /\ PastStore(t) /\ jtis[t] = 0 => jtis'[t] = 0
           /\ PastStore(t) /\ Gone(g, t) => Gone(g, t)'
           /\ stage[t] = "ref" /\ ~hash[t].rec => ~hash'[t].rec
           /\ stage[t] = "ref" /\ RecordGone(g, t) => RecordGone(g, t)'
<1>1. /\ Kept(t) /\ JtiMoves(t) /\ RecordMoves(t) /\ HandlerOK(t) /\ lost \subseteq lost'
  BY DEF StepFacts, StoreMoves, HandlerInv
<1>2. PastStore(t) /\ jtis[t] = 0 => jtis'[t] = 0
  BY <1>1 DEF JtiMoves, PastStore
<1>3. PastStore(t) /\ Gone(g, t) => Gone(g, t)'
  <2>1. PastStore(t) /\ exp[t] <= now => exp'[t] <= now'
    BY <1>1, Numbers DEF Kept
  <2> QED BY <1>1, <1>2, <2>1 DEF Gone
<1>4. stage[t] = "ref" /\ ~hash[t].rec => ~hash'[t].rec
  <2>1. ~NoHash.rec
    BY DEF NoHash
  <2> QED BY <1>1, <2>1 DEF RecordMoves, HandlerOK
<1> QED
  BY <1>1, <1>2, <1>3, <1>4 DEF RecordGone

(* The entry of a token in an index stays until a revocation takes it. *)
LEMMA EntryStable ==
    ASSUME StepFacts, NEW t \in Requests, NEW g \in Groups, PastStore(t),
           Gone(g, t) \/ zset[g][jti_key(t)] = exp[t]
    PROVE  Gone(g, t)' \/ zset'[g][jti_key(t)] = exp'[t]
<1>1. exp'[t] = exp[t] /\ EntryMoves(g, jti_key(t))
  BY KeyTypes DEF StepFacts, Kept, StoreMoves
<1>2. CASE Gone(g, t)
  BY <1>2, GoneStable
<1>3. CASE zset[g][jti_key(t)] = exp[t]
  <2>1. CASE \E k \in Requests : pc[k] = "delGroup" /\ jti_key(t) \in list[k]
    <3>1. jtis[t] = 0
      BY <2>1 DEF StepFacts, StoreInv, DeletedInv
    <3> QED BY <3>1, GoneStable DEF Gone
  <2>2. CASE <<g, jti_key(t)>> \in lost' \/ zset[g][jti_key(t)] <= now'
    BY <1>1, <1>3, <2>2 DEF Gone
  <2>3. ASSUME NEW k \in Requests, pc[k] = "zadd", jti_key(t) = CallMember(k),
               zset'[g][jti_key(t)] = CallScore(k)
        PROVE  zset'[g][jti_key(t)] = exp'[t]
    <3>1. k = t /\ stage[k] # "ref"
      BY <2>3, KeyNames DEF CallMember
    <3> QED BY <1>1, <2>3, <3>1 DEF CallScore
  <2> QED BY <1>1, <1>3, <2>1, <2>2, <2>3 DEF EntryMoves
<1> QED
  BY <1>2, <1>3

(* So does the entry of its refresh record. *)
LEMMA RecordEntryStable ==
    ASSUME StepFacts, NEW t \in Requests, NEW g \in Groups, stage[t] = "ref", RecordStored(t)',
           RecordGone(g, t) \/ zset[g][refresh_key(t)] = asOf[t] + RefreshTtl
    PROVE  RecordGone(g, t)' \/ zset'[g][refresh_key(t)] = asOf'[t] + RefreshTtl
<1>1. asOf'[t] = asOf[t] /\ EntryMoves(g, refresh_key(t))
  BY KeyTypes DEF StepFacts, Kept, StoreMoves
<1>2. CASE RecordGone(g, t)
  BY <1>2, GoneStable
<1>3. CASE zset[g][refresh_key(t)] = asOf[t] + RefreshTtl
  <2>1. CASE \E k \in Requests : pc[k] = "delGroup" /\ refresh_key(t) \in list[k]
    <3>1. ~hash[t].rec
      BY <2>1 DEF StepFacts, StoreInv, DeletedInv
    <3> QED BY <3>1, GoneStable DEF RecordGone
  <2>2. CASE <<g, refresh_key(t)>> \in lost'
    BY <2>2 DEF RecordGone
  <2>3. CASE zset[g][refresh_key(t)] <= now'
    <3>1. hash'[t].rec => now' < asOf'[t] + RefreshTtl
      BY RecordStep DEF RecordInv, RecordOK
    <3> QED BY <1>1, <1>3, <2>3, <3>1, Numbers, TtlAssumption DEF RecordGone
  <2>4. ASSUME NEW k \in Requests, pc[k] = "zadd", refresh_key(t) = CallMember(k),
               zset'[g][refresh_key(t)] = CallScore(k)
        PROVE  zset'[g][refresh_key(t)] = asOf'[t] + RefreshTtl
    <3>1. k = t
      BY <2>4, KeyNames DEF CallMember
    <3> QED BY <1>1, <2>4, <3>1 DEF CallScore
  <2> QED BY <1>1, <1>3, <2>1, <2>2, <2>3, <2>4 DEF EntryMoves
<1> QED
  BY <1>2, <1>3

(* CoverInv is kept. *)
LEMMA CoverStep ==
    ASSUME StepFacts
    PROVE  CoverInv'
<1> SUFFICES ASSUME NEW t \in Requests PROVE CoverOK(t)'
  BY DEF CoverInv
<1>1. Kept(t) /\ Advance(t) /\ CoverOK(t) /\ HandlerOK(t)
  BY DEF StepFacts, StoreInv, CoverInv, HandlerInv
<1>2. PastStore(t) => SubjectOf(t)' = SubjectOf(t) /\ FamilyOf(t)' = FamilyOf(t)
  BY <1>1, Stages, AimStable
<1>3. /\ InSubject(t) => SubjectOf(t) \in Groups
      /\ InFamily(t) => FamilyOf(t) \in Groups
  <2>1. InSubject(t) => req[t].sub \in Subjects
    BY <1>1 DEF InSubject, Issues, HandlerOK
  <2>2. InFamily(t) => req[t].fam \in Requests
    BY <1>1 DEF InFamily, HandlerOK
  <2> QED BY <2>1, <2>2, KeyTypes DEF SubjectOf, FamilyOf
<1>4. ASSUME InSubject(t)'
      PROVE  (Gone(SubjectOf(t), t) \/ zset[SubjectOf(t)][jti_key(t)] = exp[t])'
  <2>1. CASE InSubject(t)
    <3>1. PastStore(t)
      BY <2>1, Stages
    <3>2. Gone(SubjectOf(t), t) \/ zset[SubjectOf(t)][jti_key(t)] = exp[t]
      BY <1>1, <2>1 DEF CoverOK
    <3> DEFINE g == SubjectOf(t)
    <3>3. \/ exp'[t] <= now' \/ jtis'[t] = 0 \/ <<g, jti_key(t)>> \in lost'
          \/ zset'[g][jti_key(t)] = exp'[t]
      <4>1. PICK h \in Groups : h = g
        BY <1>3, <2>1
      <4> HIDE DEF g
      <4>2. Gone(h, t)' \/ zset'[h][jti_key(t)] = exp'[t]
        BY <3>1, <3>2, <4>1, EntryStable DEF g
      <4> QED BY <4>1, <4>2 DEF Gone
    <3> QED BY <1>2, <3>1, <3>3 DEF Gone
  <2>2. CASE /\ pc[t] = "zadd" /\ UNCHANGED <<now, exp, req>>
             /\ zset'[SubjectOf(t)][jti_key(t)] = exp[t]
    BY <2>2 DEF SubjectOf
  <2> QED BY <1>1, <1>4, <2>1, <2>2 DEF Advance
<1>5. ASSUME InFamily(t)'
      PROVE  (Gone(FamilyOf(t), t) \/ zset[FamilyOf(t)][jti_key(t)] = exp[t])'
  <2>1. CASE InFamily(t)
    <3>1. PastStore(t)
      BY <2>1, Stages
    <3>2. Gone(FamilyOf(t), t) \/ zset[FamilyOf(t)][jti_key(t)] = exp[t]
      BY <1>1, <2>1 DEF CoverOK
    <3> DEFINE g == FamilyOf(t)
    <3>3. \/ exp'[t] <= now' \/ jtis'[t] = 0 \/ <<g, jti_key(t)>> \in lost'
          \/ zset'[g][jti_key(t)] = exp'[t]
      <4>1. PICK h \in Groups : h = g
        BY <1>3, <2>1
      <4> HIDE DEF g
      <4>2. Gone(h, t)' \/ zset'[h][jti_key(t)] = exp'[t]
        BY <3>1, <3>2, <4>1, EntryStable DEF g
      <4> QED BY <4>1, <4>2 DEF Gone
    <3> QED BY <1>2, <3>1, <3>3 DEF Gone
  <2>2. CASE /\ pc[t] = "zadd" /\ UNCHANGED <<now, exp, req>>
             /\ zset'[FamilyOf(t)][jti_key(t)] = exp[t]
    BY <2>2 DEF FamilyOf
  <2> QED BY <1>1, <1>5, <2>1, <2>2 DEF Advance
<1>6. ASSUME RecordInFamily(t)'
      PROVE  (\/ RecordGone(FamilyOf(t), t)
              \/ zset[FamilyOf(t)][refresh_key(t)] = asOf[t] + RefreshTtl)'
  <2>1. CASE RecordInFamily(t)
    <3>1. PastStore(t) /\ stage[t] = "ref" /\ InFamily(t) /\ RecordStored(t)'
      BY <1>6, <2>1, Stages DEF RecordInFamily, RecordStored
    <3>2. \/ RecordGone(FamilyOf(t), t)
          \/ zset[FamilyOf(t)][refresh_key(t)] = asOf[t] + RefreshTtl
      BY <1>1, <2>1 DEF CoverOK
    <3> DEFINE g == FamilyOf(t)
    <3>3. \/ ~hash'[t].rec \/ <<g, refresh_key(t)>> \in lost'
          \/ zset'[g][refresh_key(t)] = asOf'[t] + RefreshTtl
      <4>1. PICK h \in Groups : h = g
        BY <1>3, <3>1
      <4> HIDE DEF g
      <4>2. RecordGone(h, t)' \/ zset'[h][refresh_key(t)] = asOf'[t] + RefreshTtl
        BY <3>1, <3>2, <4>1, RecordEntryStable DEF g
      <4> QED BY <4>1, <4>2 DEF RecordGone
    <3> QED BY <1>2, <3>1, <3>3 DEF RecordGone
  <2>2. CASE /\ pc[t] = "zadd" /\ UNCHANGED <<now, asOf, req>>
             /\ zset'[FamilyOf(t)][refresh_key(t)] = asOf[t] + RefreshTtl
    BY <2>2 DEF FamilyOf
  <2> QED BY <1>1, <1>6, <2>1, <2>2 DEF Advance
<1> QED
  BY <1>4, <1>5, <1>6 DEF CoverOK, Gone, RecordGone

(* DEL of what was listed leaves nothing of it. *)
LEMMA DeletedStep ==
    ASSUME StepFacts
    PROVE  DeletedInv'
<1> SUFFICES ASSUME NEW k \in Requests, NEW t \in Requests, pc'[k] = "delGroup"
             PROVE  /\ jti_key(t) \in list'[k] => jtis'[t] = 0
                    /\ refresh_key(t) \in list'[k] => ~hash'[t].rec
  BY DEF DeletedInv
<1>1. CASE pc[k] = "delGroup" /\ Stays(k)
  <2>1. /\ list'[k] = list[k]
        /\ jti_key(t) \in list[k] => PastStore(t) /\ jtis[t] = 0
        /\ refresh_key(t) \in list[k] => stage[t] = "ref" /\ ~hash[t].rec
    BY <1>1 DEF Stays, StepFacts, StoreInv, DeletedInv, MemberInv
  <2> QED BY <2>1, GoneStable
<1>2. CASE pc[k] = "delKeys" /\ list'[k] = list[k] /\ DelKeys(list[k])
  <2>1. jti_key(t) \in list[k] => jtis'[t] = 0
    BY <1>2 DEF DelKeys
  <2>2. refresh_key(t) \in list[k] => hash'[t] = NoHash
    BY <1>2 DEF DelKeys
  <2> QED BY <1>2, <2>1, <2>2 DEF NoHash
<1>3. CASE list'[k] = {}
  BY <1>3
<1> QED
  BY <1>1, <1>2, <1>3 DEF StepFacts, Proceeds

(* A token that was handed out and works is in the answer of ZRANGE. *)
LEMMA ListedOrGone ==
    ASSUME StepFacts, NEW t \in Requests, HandedOut(t)
    PROVE  /\ Gone(SubjectOf(t), t) \/ jti_key(t) \in ZRange(SubjectOf(t))
           /\ HandedOutRefresh(t) =>
                /\ Gone(FamilyOf(t), t) \/ jti_key(t) \in ZRange(FamilyOf(t))
                /\ RecordGone(FamilyOf(t), t) \/ refresh_key(t) \in ZRange(FamilyOf(t))
<1>1. CoverOK(t) /\ RecordOK(t) /\ jti_key(t) \in Members /\ refresh_key(t) \in Members
  BY KeyTypes DEF StepFacts, StoreInv, CoverInv, RecordInv
<1>2. now \in Nat /\ exp[t] \in Nat /\ asOf[t] + RefreshTtl \in Nat
  BY Numbers, TtlAssumption
<1>3. InSubject(t) /\ (HandedOutRefresh(t) =>
                         InFamily(t) /\ RecordInFamily(t) /\ RecordStored(t))
  BY Stages
<1>4. \A g : zset[g][jti_key(t)] = exp[t] /\ ~(exp[t] <= now) => jti_key(t) \in ZRange(g)
  BY <1>1, <1>2 DEF ZRange
<1>5. \A g : /\ zset[g][refresh_key(t)] = asOf[t] + RefreshTtl
             /\ now < asOf[t] + RefreshTtl
             => refresh_key(t) \in ZRange(g)
  BY <1>1, <1>2 DEF ZRange
<1>6. Gone(SubjectOf(t), t) \/ jti_key(t) \in ZRange(SubjectOf(t))
  BY <1>1, <1>3, <1>4 DEF CoverOK, Gone
<1>7. HandedOutRefresh(t) => Gone(FamilyOf(t), t) \/ jti_key(t) \in ZRange(FamilyOf(t))
  BY <1>1, <1>3, <1>4 DEF CoverOK, Gone
<1>8. HandedOutRefresh(t) =>
        RecordGone(FamilyOf(t), t) \/ refresh_key(t) \in ZRange(FamilyOf(t))
  <2>1. HandedOutRefresh(t) /\ hash[t].rec => now < asOf[t] + RefreshTtl
    BY <1>1, <1>3 DEF RecordOK
  <2> QED BY <1>1, <1>3, <1>5, <2>1 DEF CoverOK, RecordGone
<1> QED
  BY <1>6, <1>7, <1>8

(* RevokedInv is kept. *)
LEMMA RevokedStep ==
    ASSUME StepFacts
    PROVE  RevokedInv'
<1> SUFFICES ASSUME NEW k \in Requests, NEW t \in Requests
             PROVE  (t \in hb'[k] => pc'[t] = "done") /\ RevokedOK(k, t)'
  BY DEF RevokedInv
<1>1. /\ Kept(t) /\ Kept(k) /\ Proceeds(k) /\ RevokedOK(k, t)
      /\ t \in hb[k] => pc[t] = "done"
  BY DEF StepFacts, StoreInv, RevokedInv
<1>2. t \in hb'[k] => pc'[t] = "done"
  <2>1. t \in hb'[k] => pc[t] = "done"
    BY <1>1 DEF Proceeds
  <2> QED BY <1>1, <2>1 DEF Kept, Stays
<1>3. ASSUME t \in hb'[k], HandedOut(t)', pc'[k] \in {"delKeys", "delGroup"} \/ Finished(k)'
      PROVE  RevokedOK(k, t)'
  <2>1. pc[k] \in {"zrange", "delKeys", "delGroup", "done"}
    BY <1>1, <1>3 DEF Proceeds
  <2>2. t \in hb[k] /\ Stays(t) /\ Settled(k)
    BY <1>1, <1>3, <2>1 DEF Kept, Settled
  <2>3. HandedOut(t) /\ HandedOutRefresh(t)' = HandedOutRefresh(t) /\ PastStore(t)
    BY <1>3, <2>2, Stages DEF Stays, HandedOut, HandedOutRefresh, Issues
  <2>4. /\ SubjectOf(t)' = SubjectOf(t) /\ FamilyOf(t)' = FamilyOf(t)
        /\ RevokedGroup(k)' = RevokedGroup(k)
    BY <1>1, <2>2, <2>3, AimStable
  <2> DEFINE g == RevokedGroup(k)
             Access == g = SubjectOf(t) \/ (g = FamilyOf(t) /\ HandedOutRefresh(t))
             Refresh == g = FamilyOf(t) /\ HandedOutRefresh(t)
  <2>5. PICK h : h = g
    OBVIOUS
  <2> HIDE DEF g
  <2>6. /\ Gone(h, t) => Gone(h, t)'
        /\ Refresh /\ RecordGone(h, t) => RecordGone(h, t)'
    <3>1. Refresh => stage[t] = "ref"
      BY Stages
    <3> QED BY <2>3, <3>1, GoneStable
  <2>7. CASE pc[k] = "zrange"
    <3>1. /\ Access => Gone(h, t) \/ jti_key(t) \in ZRange(h)
          /\ Refresh => RecordGone(h, t) \/ refresh_key(t) \in ZRange(h)
      BY <2>3, <2>5, ListedOrGone
    <3>2. \/ pc'[k] = "delKeys" /\ list'[k] = ZRange(h)
          \/ pc'[k] = "delGroup" /\ ZRange(h) = {}
      BY <1>1, <1>3, <2>5, <2>7 DEF Proceeds, g
    <3>3. /\ Access => Gone(h, t)' \/ (pc'[k] = "delKeys" /\ jti_key(t) \in list'[k])
          /\ Refresh => RecordGone(h, t)' \/ (pc'[k] = "delKeys" /\ refresh_key(t) \in list'[k])
      BY <2>6, <3>1, <3>2
    <3> QED BY <2>3, <2>4, <2>5, <3>3 DEF RevokedOK, g, Gone, RecordGone
  <2>8. CASE pc[k] # "zrange"
    <3>1. pc[k] \in {"delKeys", "delGroup"} \/ Finished(k)
      BY <1>1, <1>3, <2>8 DEF Proceeds
    <3>2. /\ Access => Gone(h, t) \/ (pc[k] = "delKeys" /\ jti_key(t) \in list[k])
          /\ Refresh => RecordGone(h, t) \/ (pc[k] = "delKeys" /\ refresh_key(t) \in list[k])
      BY <1>1, <2>2, <2>3, <2>5, <3>1 DEF RevokedOK, g
    <3>3. ASSUME pc[k] = "delKeys"
          PROVE  \/ pc'[k] = "delKeys" /\ list'[k] = list[k]
                 \/ pc'[k] = "delGroup" /\ DelKeys(list[k])
      BY <1>1, <1>3, <3>3 DEF Proceeds, Stays
    <3>4. ASSUME DelKeys(list[k])
          PROVE  /\ jti_key(t) \in list[k] => Gone(h, t)'
                 /\ refresh_key(t) \in list[k] => RecordGone(h, t)'
      <4>1. jti_key(t) \in list[k] => jtis'[t] = 0
        BY <3>4 DEF DelKeys
      <4>2. refresh_key(t) \in list[k] => hash'[t] = NoHash
        BY <3>4 DEF DelKeys
      <4> QED BY <4>1, <4>2 DEF Gone, RecordGone, NoHash
    <3>5. /\ Access => Gone(h, t)' \/ (pc'[k] = "delKeys" /\ jti_key(t) \in list'[k])
          /\ Refresh => RecordGone(h, t)' \/ (pc'[k] = "delKeys" /\ refresh_key(t) \in list'[k])
      BY <2>6, <3>2, <3>3, <3>4
    <3> QED BY <2>3, <2>4, <2>5, <3>5 DEF RevokedOK, g, Gone, RecordGone
  <2> QED BY <2>7, <2>8
<1> QED
  BY <1>2, <1>3 DEF RevokedOK

(* Whom a verification or a revocation has behind it does not move any more. *)
LEMMA BehindStays ==
    ASSUME StepFacts, NEW v \in Requests, NEW k \in hb[v]
    PROVE  Stays(k) /\ k \in Requests /\ pc[k] = "done"
<1>1. k \in Requests
  BY DEF StepFacts, TypeOK
<1> QED
  BY <1>1 DEF StepFacts, StoreInv, RevokedInv, Kept

(* VerifiedInv is kept. *)
LEMMA VerifiedStep ==
    ASSUME StepFacts
    PROVE  VerifiedInv'
<1>1. ASSUME NEW v \in Requests, req[v].kind = "verify"
      PROVE  /\ req[v].tgt \in Requests /\ HandedOut(req[v].tgt)
             /\ Stays(req[v].tgt) /\ PastStore(req[v].tgt)
  <2>1. HandlerOK(v)
    BY DEF StepFacts, HandlerInv
  <2>2. req[v].tgt \in Requests /\ HandedOut(req[v].tgt)
    BY <1>1, <2>1 DEF HandlerOK
  <2>3. pc[req[v].tgt] = "done"
    BY <2>2 DEF StepFacts, HandlerInv, HandlerOK, HandedOut
  <2> QED BY <2>2, <2>3, Stages DEF StepFacts, Kept
<1>2. ASSUME NEW v \in Requests, pc[v] # "idle"
      PROVE  /\ req'[v].kind = req[v].kind /\ req'[v].tgt = req[v].tgt
             /\ req'[v].key = req[v].key /\ hb'[v] = hb[v]
  BY <1>2 DEF StepFacts, Kept
<1>3. \A v \in Requests : Proceeds(v) /\ VerifiedOK(v) /\ Kept(v)
  BY DEF StepFacts, StoreInv, VerifiedInv
<1>4. lost \subseteq lost'
  BY DEF StepFacts, StoreMoves
<1>5. ASSUME NEW v \in Requests, req'[v].kind = "verify", resp'[v] = "200"
      PROVE  LET t == req'[v].tgt IN
             \A k \in hb'[v] :
               /\ ~(req'[k].kind = "revoke" /\ resp'[k] = "204" /\ req'[k].key = jti_key(t))
               /\ req'[k].kind = "bulk" /\ resp'[k] = "200" /\ t \in hb'[k]
                    /\ req'[k].sub = req'[t].sub =>
                      <<subject_group(req'[t].sub), jti_key(t)>> \in lost'
  <2>1. pc[v] \in {"done", "exists"}
    BY <1>3, <1>5 DEF Proceeds
  <2> DEFINE t == req[v].tgt
  <2>2. req'[v].tgt = t /\ hb'[v] = hb[v] /\ req[v].kind = "verify"
    BY <1>2, <1>5, <2>1
  <2>3. t \in Requests /\ Stays(t)
    BY <1>1, <2>2
  <2> HIDE DEF t
  <2>4. SUFFICES ASSUME NEW k \in hb[v]
                 PROVE  /\ ~(req[k].kind = "revoke" /\ resp[k] = "204" /\ req[k].key = jti_key(t))
                        /\ req[k].kind = "bulk" /\ resp[k] = "200" /\ t \in hb[k]
                             /\ req[k].sub = req[t].sub =>
                               <<subject_group(req[t].sub), jti_key(t)>> \in lost
    BY <1>4, <2>2, <2>3, BehindStays DEF Stays
  <2>5. CASE pc[v] = "done"
    <3>1. resp[v] = "200"
      BY <1>3, <1>5, <2>5 DEF Kept, Stays
    <3> QED BY <2>2, <2>4, <3>1 DEF StepFacts, StoreInv, VerifiedInv, VerifyAfterRevocation, t
  <2>6. CASE pc[v] = "exists"
    <3>1. jtis[t] # 0
      BY <1>3, <1>5, <2>6 DEF Proceeds, t
    <3>2. ~(req[k].kind = "revoke" /\ resp[k] = "204" /\ req[k].key = jti_key(t))
      BY <1>3, <2>3, <3>1, BehindStays DEF VerifiedOK
    <3>3. req[k].kind = "bulk" /\ resp[k] = "200" /\ t \in hb[k] /\ req[k].sub = req[t].sub
            => <<SubjectOf(t), jti_key(t)>> \in lost
      BY <1>3, <2>2, <2>6, <3>1 DEF VerifiedOK, t
    <3> QED BY <3>2, <3>3 DEF SubjectOf
  <2> QED BY <2>1, <2>5, <2>6
<1>6. ASSUME NEW v \in Requests, req'[v].kind = "revoke", resp'[v] = "204",
             NEW t \in Requests, req'[v].key = jti_key(t)
      PROVE  jtis'[t] = 0
  <2>1. \/ pc[v] = "done"
        \/ pc[v] = "delJti" /\ (req[v].key = jti_key(t) => jtis'[t] = 0)
    BY <1>3, <1>6 DEF Proceeds
  <2>2. req[v].key = jti_key(t) /\ req[v].kind = "revoke"
    BY <1>2, <1>6, <2>1
  <2>3. CASE pc[v] = "done"
    <3>1. jtis[t] = 0
      BY <1>3, <1>6, <2>2, <2>3 DEF VerifiedOK, Kept, Stays
    <3>2. Nameable(jti_key(t))
      BY <2>2 DEF StepFacts, HandlerInv, HandlerOK
    <3>3. PastStore(t)
      BY <3>2, KeyNames, Stages DEF Nameable
    <3> QED BY <3>1, <3>3, GoneStable
  <2> QED BY <2>1, <2>2, <2>3
<1>7. ASSUME NEW v \in Requests, req'[v].kind = "verify", pc'[v] = "exists"
      PROVE  LET t == req'[v].tgt IN
             \A k \in hb'[v] :
               /\ req'[k].kind = "bulk" /\ resp'[k] = "200" /\ t \in hb'[k]
               /\ req'[k].sub = req'[t].sub
               => jtis'[t] = 0 \/ <<subject_group(req'[t].sub), jti_key(t)>> \in lost'
  <2>1. \/ pc[v] = "exists" /\ Stays(v)
        \/ pc[v] = "clock" /\ now < exp[req[v].tgt]
    BY <1>3, <1>7 DEF Proceeds
  <2> DEFINE t == req[v].tgt
  <2>2. req'[v].tgt = t /\ hb'[v] = hb[v] /\ req[v].kind = "verify"
    BY <1>2, <1>7, <2>1
  <2>3. t \in Requests /\ Stays(t) /\ PastStore(t) /\ HandedOut(t)
    BY <1>1, <2>2
  <2> HIDE DEF t
  <2>4. SUFFICES ASSUME NEW k \in hb[v], req[k].kind = "bulk", resp[k] = "200", t \in hb[k],
                        req[k].sub = req[t].sub
                 PROVE  jtis[t] = 0 \/ <<SubjectOf(t), jti_key(t)>> \in lost
    <3>1. jtis[t] = 0 => jtis'[t] = 0
      BY <2>3, GoneStable
    <3> QED BY <1>4, <2>2, <2>3, <3>1, BehindStays DEF Stays, SubjectOf
  <2>5. CASE pc[v] = "exists"
    BY <1>3, <2>2, <2>4, <2>5 DEF VerifiedOK, t
  <2>6. CASE pc[v] = "clock" /\ now < exp[t]
    <3>1. k \in Requests /\ pc[k] = "done" /\ RevokedOK(k, t)
      BY <2>3, BehindStays DEF StepFacts, StoreInv, RevokedInv
    <3>2. Finished(k) /\ RevokedGroup(k) = SubjectOf(t)
      BY <2>4 DEF Finished, RevokedGroup, SubjectOf
    <3>3. Gone(SubjectOf(t), t)
      BY <2>3, <2>4, <3>1, <3>2 DEF RevokedOK
    <3> QED BY <2>3, <2>6, <3>3, Numbers DEF Gone
  <2> QED BY <2>1, <2>5, <2>6 DEF t
<1> QED
  BY <1>5, <1>6, <1>7 DEF VerifiedInv, VerifiedOK, VerifyAfterRevocation, SubjectOf

(* StoreInv is inductive on top of the type and handler invariants. *)
LEMMA StoreStep ==
    ASSUME TypeOK, HandlerInv, StoreInv, [Next]_vars
    PROVE  StoreInv'
<1>1. TypeOK' /\ HandlerInv' /\ ClockInv
  BY TypeStep DEF StoreInv
<1>2. StepFacts
  BY <1>1, StepForm, AllProceed DEF StepFacts
<1> QED
  BY <1>1, <1>2, ClockStep, JtiStep, RecordStep, MemberStep, CoverStep, DeletedStep,
     RevokedStep, VerifiedStep
  DEF StoreInv

(* It holds in the empty store. *)
LEMMA StoreStart ==
    ASSUME Init
    PROVE  StoreInv
<1>1. /\ now = 1 /\ lost = {} /\ jtis = [r \in Requests |-> 0]
      /\ zset = [g \in Groups |-> [m \in Members |-> 0]]
      /\ \A r \in Requests :
           /\ pc[r] = "idle" /\ stage[r] = "sub" /\ req[r] = NoReq /\ exp[r] = 0
           /\ asOf[r] = 0 /\ list[r] = {} /\ resp[r] = "none" /\ hb[r] = {}
           /\ hash[r] = NoHash
  BY DEF Init, StoreInit
<1>a. NoReq.kind = "none" /\ NoHash.exp = 0
  BY DEF NoReq, NoHash
<1>2. \A r \in Requests : req[r].kind = "none" /\ hash[r].exp = 0
  BY <1>1, <1>a
<1>3. \A r \in Requests : jti_key(r) \in Members /\ refresh_key(r) \in Members
  BY KeyTypes
<1>4. ClockInv /\ JtiInv
  BY <1>1 DEF ClockInv, ClockOK, JtiInv, Stored
<1>5. RecordInv
  BY <1>1, <1>2 DEF RecordInv, RecordOK, RecordStored
<1>6. MemberInv
  BY <1>1, <1>3 DEF MemberInv
<1>7. CoverInv
  BY <1>1, <1>2 DEF CoverInv, CoverOK, InSubject, InFamily, RecordInFamily
<1>8. DeletedInv /\ RevokedInv
  BY <1>1 DEF DeletedInv, RevokedInv, RevokedOK
<1>9. VerifiedInv
  BY <1>1, <1>2 DEF VerifiedInv, VerifiedOK, VerifyAfterRevocation
<1> QED
  BY <1>4, <1>5, <1>6, <1>7, <1>8, <1>9 DEF StoreInv

(* In every reachable state the store and the handlers fit together as above. *)
THEOREM StoreCorrect == Spec => []StoreInv
  BY StoreStart, StoreStep, TypeCorrect, PTL DEF Spec

-----------------------------------------------------------------------------
(***************************************************************************)
(* What follows                                                            *)
(***************************************************************************)
(* What a response with a status 200 says of the handler that gave it. *)
LEMMA HandedOutPlaces ==
    ASSUME HandlerInv, NEW t \in Requests
    PROVE  /\ HandedOut(t) => Stored(t) /\ InSubject(t)
           /\ HandedOutRefresh(t) =>
                HandedOut(t) /\ RecordStored(t) /\ InFamily(t) /\ RecordInFamily(t)
<1>1. HandlerOK(t)
  BY DEF HandlerInv
<1> QED
  BY <1>1
  DEF HandedOut, HandedOutRefresh, Stored, InSubject, InFamily, RecordStored,
      RecordInFamily, Issues, HandlerOK

(* A jti that was handed out works until `exp' (store_jti), and a refresh record as
   long as REFRESH_TOKEN_TTL_SECONDS says (issue_refresh), unless a revocation that
   was aimed at it deleted it. *)
THEOREM LivesUntilRevokedHolds == Spec => []LivesUntilRevoked
<1>1. TypeOK /\ HandlerInv /\ StoreInv => LivesUntilRevoked
  <2> SUFFICES ASSUME TypeOK, HandlerInv, StoreInv, NEW t \in Requests
               PROVE  /\ HandedOut(t) /\ now < exp[t] /\ ~Exists(t) =>
                           \E k \in Requests : killer[jti_key(t)] = k /\ AimedAt(k, t)
                      /\ HandedOutRefresh(t) /\ now < asOf[t] + RefreshTtl /\ ~HasRec(t) =>
                           \E k \in Requests :
                             killer[refresh_key(t)] = k /\ RefreshAimedAt(k, t)
    BY DEF LivesUntilRevoked
  <2>1. now \in Nat /\ exp[t] \in Nat
    BY DEF TypeOK, StoreTypeOK
  <2>2. HandedOut(t) /\ now < exp[t] => jtis[t] >= exp[t] \/ Killed(t)
    BY HandedOutPlaces DEF StoreInv, JtiInv
  <2>3. HandedOut(t) /\ now < exp[t] /\ ~Exists(t) => Killed(t)
    BY <2>1, <2>2 DEF Exists
  <2>4. HandedOutRefresh(t) /\ now < asOf[t] + RefreshTtl => hash[t].rec \/ RecordKilled(t)
    BY HandedOutPlaces DEF StoreInv, RecordInv, RecordOK
  <2> QED BY <2>3, <2>4 DEF Killed, RecordKilled, HasRec
<1> QED
  BY <1>1, StoreCorrect, TypeCorrect, PTL

(* What was handed out and works is in the index that revokes it, unless the index
   expired, a concurrent revoke_group deleted it with the entry unlisted, or DELETE
   /tokens named it. *)
THEOREM IndexCoversHolds == Spec => []IndexCovers
<1>1. TypeOK /\ HandlerInv /\ StoreInv => IndexCovers
  <2> SUFFICES ASSUME TypeOK, HandlerInv, StoreInv, NEW t \in Requests
               PROVE  /\ Valid(t) => Indexed(subject_group(req[t].sub), jti_key(t))
                      /\ Valid(t) /\ HandedOutRefresh(t) =>
                           Indexed(family_group(req[t].fam), jti_key(t))
                      /\ HandedOutRefresh(t) /\ HasRec(t) =>
                           Indexed(family_group(req[t].fam), refresh_key(t))
    BY DEF IndexCovers
  <2>1. now \in Nat /\ exp[t] \in Nat /\ asOf[t] + RefreshTtl \in Nat
    BY TtlAssumption DEF TypeOK, StoreTypeOK
  <2>2. CoverOK(t) /\ RecordOK(t) /\ jti_key(t) \in Members /\ refresh_key(t) \in Members
    BY KeyTypes DEF StoreInv, CoverInv, RecordInv
  <2>3. \A g : zset[g][jti_key(t)] = exp[t] /\ now < exp[t] => jti_key(t) \in ZRange(g)
    BY <2>1, <2>2 DEF ZRange
  <2>4. \A g : /\ zset[g][refresh_key(t)] = asOf[t] + RefreshTtl
               /\ now < asOf[t] + RefreshTtl
               => refresh_key(t) \in ZRange(g)
    BY <2>1, <2>2 DEF ZRange
  <2>5. \A g : Gone(g, t) /\ Valid(t) => <<g, jti_key(t)>> \in lost
    BY <2>1 DEF Gone, Valid, Exists
  <2>6. \A g : RecordGone(g, t) /\ HasRec(t) => <<g, refresh_key(t)>> \in lost
    BY DEF RecordGone, HasRec
  <2>7. Valid(t) => Indexed(SubjectOf(t), jti_key(t))
    BY <2>2, <2>3, <2>5, HandedOutPlaces DEF CoverOK, Valid, Indexed
  <2>8. Valid(t) /\ HandedOutRefresh(t) => Indexed(FamilyOf(t), jti_key(t))
    BY <2>2, <2>3, <2>5, HandedOutPlaces DEF CoverOK, Valid, Indexed
  <2>9. HandedOutRefresh(t) /\ HasRec(t) => now < asOf[t] + RefreshTtl
    BY <2>2, HandedOutPlaces DEF RecordOK, HasRec
  <2>10. HandedOutRefresh(t) /\ HasRec(t) => Indexed(FamilyOf(t), refresh_key(t))
    BY <2>2, <2>4, <2>6, <2>9, HandedOutPlaces DEF CoverOK, Indexed
  <2> QED BY <2>7, <2>8, <2>10 DEF SubjectOf, FamilyOf
<1> QED
  BY <1>1, StoreCorrect, TypeCorrect, PTL

(* A finished revocation of a group has nothing left of what it had to reach. *)
LEMMA FinishedGone ==
    ASSUME TypeOK, HandlerInv, StoreInv, NEW k \in Requests, NEW t \in hb[k], Finished(k),
           HandedOut(t)
    PROVE  LET g == RevokedGroup(k) IN
           /\ g = SubjectOf(t) \/ (g = FamilyOf(t) /\ HandedOutRefresh(t)) =>
                (Valid(t) => <<g, jti_key(t)>> \in lost)
           /\ g = FamilyOf(t) /\ HandedOutRefresh(t) =>
                (HasRec(t) => <<g, refresh_key(t)>> \in lost)
<1>1. t \in Requests /\ RevokedOK(k, t) /\ HandlerOK(k)
  BY DEF TypeOK, StoreInv, RevokedInv, HandlerInv
<1>2. pc[k] # "delKeys"
  BY <1>1 DEF HandlerOK, Finished, KilledFamily
<1>3. now \in Nat /\ exp[t] \in Nat
  BY <1>1 DEF TypeOK, StoreTypeOK
<1>4. \A g : Gone(g, t) /\ Valid(t) => <<g, jti_key(t)>> \in lost
  BY <1>3 DEF Gone, Valid, Exists
<1>5. \A g : RecordGone(g, t) /\ HasRec(t) => <<g, refresh_key(t)>> \in lost
  BY DEF RecordGone, HasRec
<1> QED
  BY <1>1, <1>2, <1>4, <1>5 DEF RevokedOK

(* After the 200 of DELETE /subjects/{sub}/tokens no token of the subject that had
   been handed out before works, unless its index entry was lost. *)
THEOREM BulkRevokeCompleteHolds == Spec => []BulkRevokeComplete
<1>1. TypeOK /\ HandlerInv /\ StoreInv => BulkRevokeComplete
  <2> SUFFICES ASSUME TypeOK, HandlerInv, StoreInv, NEW b \in Requests, NEW t \in hb[b],
                      req[b].kind = "bulk", resp[b] = "200",
                      Valid(t), req[t].sub = req[b].sub
               PROVE  <<subject_group(req[t].sub), jti_key(t)>> \in lost
    BY DEF BulkRevokeComplete
  <2>1. Finished(b) /\ RevokedGroup(b) = SubjectOf(t) /\ HandedOut(t)
    BY DEF Finished, RevokedGroup, SubjectOf, Valid
  <2> QED BY <2>1, FinishedGone DEF SubjectOf
<1> QED
  BY <1>1, StoreCorrect, TypeCorrect, PTL

(* A verification that arrives after the revocation of its token does not accept it,
   although is_verify reads the clock first and the store later. *)
THEOREM VerifyAfterRevocationHolds == Spec => []VerifyAfterRevocation
<1>1. StoreInv => VerifyAfterRevocation
  BY DEF StoreInv, VerifiedInv
<1> QED
  BY <1>1, StoreCorrect, PTL

(* After a finished reuse detection neither the access nor the refresh tokens of the
   family that had been handed out before work, unless their index entry was lost. *)
THEOREM FamilyKillCompleteHolds == Spec => []FamilyKillComplete
<1>1. TypeOK /\ HandlerInv /\ StoreInv => FamilyKillComplete
  <2> SUFFICES ASSUME TypeOK, HandlerInv, StoreInv, NEW k \in Requests, NEW t \in hb[k],
                      KilledFamily(k), HandedOutRefresh(t), req[t].fam = req[k].fam
               PROVE  /\ Valid(t) => <<family_group(req[t].fam), jti_key(t)>> \in lost
                      /\ HasRec(t) => <<family_group(req[t].fam), refresh_key(t)>> \in lost
    BY DEF FamilyKillComplete
  <2>1. t \in Requests
    BY DEF TypeOK
  <2>2. Finished(k) /\ RevokedGroup(k) = FamilyOf(t) /\ HandedOut(t)
    BY <2>1, HandedOutPlaces DEF Finished, KilledFamily, RevokedGroup, FamilyOf
  <2> QED BY <2>2, FinishedGone DEF FamilyOf
<1> QED
  BY <1>1, StoreCorrect, TypeCorrect, PTL
=============================================================================
