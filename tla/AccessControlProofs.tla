------------------------ MODULE AccessControlProofs ------------------------
(***************************************************************************)
(* Proofs about AccessControl: the replay guard, for any number of         *)
(* replicas, requests and secrets, any step and any tolerance.             *)
(***************************************************************************)
EXTENDS AccessControl, TLAPS

(* What a replica is started with holds decoded secrets only. *)
LEMMA FromEnvType == ASSUME NEW e \in EnvType PROVE from_env(e) \in ConfigType
<1>1. Decoded(e.totp) \in Seq(Secrets) /\ Decoded(e.next) \in Seq(Secrets)
  BY DEF Decoded
<1>2. ActiveSecrets(e) \in Seq(Secrets)
  BY <1>1 DEF ActiveSecrets
<1>3. e.metrics \in BOOLEAN
  BY DEF EnvType
<1> QED
  BY <1>2, <1>3 DEF from_env, Down, ConfigType

LEMMA CountersType == Counters \subseteq Nat
  BY AccessAssumption DEF Counters

(* A step begins at its number times the length of a step. *)
LEMMA StepBegin == ASSUME NEW n \in Nat PROVE Step * (n \div Step) <= n /\ n \div Step \in Nat
  BY AccessAssumption

(* A code that is accepted is not claimed before its window opened. *)
LEMMA WindowOpen ==
    ASSUME NEW n \in Nat, NEW k \in Nat, k <= n \div Step + Skew
    PROVE  Step * k <= n + Step * Skew
<1> DEFINE q == n \div Step
<1>1. q \in Nat /\ Step * q <= n
  BY StepBegin
<1>2. Step * k <= Step * (q + Skew)
  <2>1. k <= q + Skew
    OBVIOUS
  <2> HIDE DEF q
  <2>2. PICK d \in Nat : q + Skew = k + d
    <3>1. q + Skew - k \in Nat /\ q + Skew = k + (q + Skew - k)
      BY <1>1, <2>1, AccessAssumption
    <3> QED BY <3>1
  <2>3. Step * (k + d) = Step * k + Step * d /\ Step * d \in Nat /\ Step * k \in Nat
    BY AccessAssumption
  <2> QED BY <2>2, <2>3
<1>3. Step * (q + Skew) = Step * q + Step * Skew
  <2> HIDE DEF q
  <2> QED BY <1>1, AccessAssumption
<1> QED
  BY <1>1, <1>2, <1>3, AccessAssumption

(* The claim of a code that is accepted lasts until its window has closed. *)
LEMMA ClaimLasts ==
    ASSUME NEW n \in Nat, NEW c \in Codes, Step * c.counter <= n + Step * Skew
    PROVE  WindowEnd(c) <= n + replay_window_seconds
<1>1. c.counter \in Nat
  BY CountersType DEF Codes
<1>2. WindowEnd(c) = Step * c.counter + Step * Skew + Step
  BY <1>1, AccessAssumption DEF WindowEnd
<1>3. replay_window_seconds = Step * Skew + Step * Skew + Step
  BY AccessAssumption DEF replay_window_seconds
<1>4. Step * c.counter \in Nat /\ Step * Skew \in Nat
  BY <1>1, AccessAssumption
<1> QED
  BY <1>2, <1>3, <1>4, AccessAssumption

LEMMA WindowEndType == ASSUME NEW c \in Codes PROVE WindowEnd(c) \in Nat \ {0}
<1>1. c.counter \in Nat
  BY CountersType DEF Codes
<1>2. WindowEnd(c) = Step * c.counter + Step * Skew + Step
  BY <1>1, AccessAssumption DEF WindowEnd
<1>3. Step * c.counter \in Nat /\ Step * Skew \in Nat
  BY <1>1, AccessAssumption
<1> QED
  BY <1>2, <1>3, AccessAssumption

LEMMA ReplayWindowType == replay_window_seconds \in Nat \ {0}
<1>1. replay_window_seconds = Step * Skew + Step * Skew + Step
  BY AccessAssumption DEF replay_window_seconds
<1>2. Step * Skew \in Nat
  BY AccessAssumption
<1> QED
  BY <1>1, <1>2, AccessAssumption

-----------------------------------------------------------------------------
(* Nothing has been presented to a service that was just started. *)
LEMMA AccessInit == Init => AccessInv /\ ReplayRefused
<1> SUFFICES ASSUME Init PROVE AccessInv /\ ReplayRefused
  OBVIOUS
<1>1. TypeOK
  <2>1. config \in [Replicas -> ConfigType]
    BY FromEnvType, AccessAssumption DEF Init
  <2> QED
    BY <2>1 DEF Init, TypeOK, Levels
<1>2. \A r \in Requests : RequestOK(r)
  BY DEF Init, RequestOK
<1>3. ClaimOK /\ ReplayRefused
  BY DEF Init, ClaimOK, ReplayRefused
<1> QED
  BY <1>1, <1>2, <1>3 DEF AccessInv

LEMMA CallInv ==
    ASSUME AccessInv, ReplayRefused, NEW r \in Requests, Call(r)
    PROVE  AccessInv' /\ ReplayRefused'
<1> USE DEF AccessInv
<1>1. PICK p \in Replicas, l \in Levels : \E c \in Shown(l) :
        /\ Up(p)
        /\ level' = [level EXCEPT ![r] = l]
        /\ cred' = [cred EXCEPT ![r] = c]
        /\ LET authorized == Authorize(p, l, c)
               guarded    == authorized /\ l = "totp" /\ ReplayProtection IN
           \/ /\ guarded
              /\ pc' = [pc EXCEPT ![r] = "claim"]
              /\ replica' = [replica EXCEPT ![r] = p]
              /\ calledAt' = [calledAt EXCEPT ![r] = now]
              /\ hash' = [hash EXCEPT ![r] = FingerprintKey(p)]
              /\ UNCHANGED verdict
           \/ /\ ~guarded
              /\ pc' = [pc EXCEPT ![r] = "done"]
              /\ verdict' = [verdict EXCEPT ![r] = IF authorized THEN "pass" ELSE "401"]
              /\ UNCHANGED <<replica, calledAt, hash>>
  BY DEF Call
<1>2. PICK c \in Shown(l) :
        /\ Up(p)
        /\ level' = [level EXCEPT ![r] = l]
        /\ cred' = [cred EXCEPT ![r] = c]
        /\ LET authorized == Authorize(p, l, c)
               guarded    == authorized /\ l = "totp" /\ ReplayProtection IN
           \/ /\ guarded
              /\ pc' = [pc EXCEPT ![r] = "claim"]
              /\ replica' = [replica EXCEPT ![r] = p]
              /\ calledAt' = [calledAt EXCEPT ![r] = now]
              /\ hash' = [hash EXCEPT ![r] = FingerprintKey(p)]
              /\ UNCHANGED verdict
           \/ /\ ~guarded
              /\ pc' = [pc EXCEPT ![r] = "done"]
              /\ verdict' = [verdict EXCEPT ![r] = IF authorized THEN "pass" ELSE "401"]
              /\ UNCHANGED <<replica, calledAt, hash>>
  BY <1>1
<1>3. pc[r] = "idle" /\ UNCHANGED <<now, config, claimed, claimedAt, failedOpen>>
  BY DEF Call
<1>4. c \in Codes \cup {Right, Wrong, Blank}
  BY DEF Shown
<1>5. hash[r] = None /\ verdict[r] = "none"
  BY <1>3 DEF RequestOK
<1>6. CASE Authorize(p, l, c) /\ l = "totp" /\ ReplayProtection
  <2>1. /\ pc' = [pc EXCEPT ![r] = "claim"]
        /\ replica' = [replica EXCEPT ![r] = p]
        /\ calledAt' = [calledAt EXCEPT ![r] = now]
        /\ hash' = [hash EXCEPT ![r] = FingerprintKey(p)]
        /\ UNCHANGED verdict
    BY <1>2, <1>6
  <2>2. c \in Codes /\ c.counter \in Nat /\ c.counter <= now \div Step + Skew
    BY <1>6, CountersType DEF Authorize, ValidateTotp, Codes
  <2>3. Step * c.counter <= now + Step * Skew
    BY <2>2, WindowOpen DEF TypeOK
  <2>4. FingerprintKey(p) \in Secrets /\ FingerprintKey(p) # None
    <3>1. config[p].secrets \in Seq(Secrets) /\ config[p].secrets # <<>>
      BY <1>2 DEF Up, TypeOK, ConfigType
    <3>2. Head(config[p].secrets) \in Secrets
      BY <3>1
    <3> QED BY <3>2, AccessAssumption DEF FingerprintKey
  <2>5. TypeOK'
    BY <1>2, <1>3, <1>4, <2>1, <2>4 DEF TypeOK
  <2>6. ASSUME NEW q \in Requests PROVE RequestOK(q)'
    BY <1>2, <1>3, <1>5, <1>6, <2>1, <2>2, <2>3, <2>4 DEF RequestOK, TypeOK
  <2>7. ClaimOK'
    BY <1>2, <1>3, <1>5, <2>1 DEF ClaimOK, Fingerprint, WindowEnd, TypeOK
  <2>8. ReplayRefused'
    BY <1>2, <1>3, <1>5, <2>1 DEF ReplayRefused, WindowEnd, TypeOK
  <2> QED BY <2>5, <2>6, <2>7, <2>8
<1>7. CASE ~(Authorize(p, l, c) /\ l = "totp" /\ ReplayProtection)
  <2>1. /\ pc' = [pc EXCEPT ![r] = "done"]
        /\ verdict' = [verdict EXCEPT ![r] = IF Authorize(p, l, c) THEN "pass" ELSE "401"]
        /\ UNCHANGED <<replica, calledAt, hash>>
    BY <1>2, <1>7
  <2>2. TypeOK'
    BY <1>2, <1>3, <1>4, <2>1 DEF TypeOK
  <2>3. ASSUME NEW q \in Requests PROVE RequestOK(q)'
    BY <1>2, <1>3, <1>5, <2>1 DEF RequestOK, TypeOK
  <2>4. ClaimOK'
    BY <1>2, <1>3, <1>5, <2>1 DEF ClaimOK, Fingerprint, WindowEnd, TypeOK
  <2>5. ReplayRefused'
    BY <1>2, <1>3, <1>5, <2>1 DEF ReplayRefused, WindowEnd, TypeOK
  <2> QED BY <2>2, <2>3, <2>4, <2>5
<1> QED
  BY <1>6, <1>7

(* The heart of the argument: a claim finds no key only when no other request
   was let in with the code, or when the window of the code has closed. *)
LEMMA ClaimInv ==
    ASSUME AccessInv, ReplayRefused, NEW r \in Requests, NEW o \in Outcomes,
           ClaimTotpCode(r, o)
    PROVE  AccessInv' /\ ReplayRefused'
<1> USE DEF AccessInv
<1> DEFINE f == Fingerprint(r)
<1>1. /\ pc[r] = "claim"
      /\ UNCHANGED <<now, config, level, cred, hash>>
      /\ claimed' = claimed \/ SetNX(f)
      /\ o = "ok" => SetNX(f)
      /\ o = "late" => SetNX(f)
  BY AccessAssumption DEF ClaimTotpCode
<1>2. PICK v \in {"pass", "401"}, open \in BOOLEAN :
        /\ Finish(r, v, open)
        /\ v = "401" => o = "ok" /\ claimed[f] # 0
        /\ v = "pass" /\ ~open => o = "ok" /\ claimed[f] = 0
        /\ v = "401" => ~open
        /\ claimed' # claimed => SetNX(f) /\ (claimed[f] = 0 => v = "pass")
  BY AccessAssumption DEF ClaimTotpCode
<1>3. /\ hash[r] \in Secrets /\ hash[r] # None /\ cred[r] \in Codes
      /\ Step * cred[r].counter <= now + Step * Skew
      /\ verdict[r] = "none" /\ level[r] = "totp"
  BY <1>1 DEF RequestOK, TypeOK
<1>4. f \in Fingerprints
  BY <1>3 DEF Fingerprint, Fingerprints
<1>5. now \in Nat /\ claimed \in [Fingerprints -> Nat]
  BY DEF TypeOK
<1>6. WindowEnd(cred[r]) <= now + replay_window_seconds
  BY <1>3, <1>5, ClaimLasts
<1>7. /\ claimed' \in [Fingerprints -> Nat]
      /\ \A g \in Fingerprints : g # f => claimed'[g] = claimed[g]
      /\ \A g \in Fingerprints : claimed[g] # 0 => claimed'[g] = claimed[g]
      /\ claimed[f] = 0 /\ o = "ok" => claimed'[f] = now + replay_window_seconds
  BY <1>1, <1>4, <1>5, ReplayWindowType DEF SetNX
<1>8. TypeOK'
  BY <1>1, <1>2, <1>7 DEF TypeOK, Finish
<1>9. ASSUME NEW q \in Requests PROVE RequestOK(q)'
  BY <1>1, <1>2 DEF RequestOK, TypeOK, Finish
<1>10. ClaimOK'
  <2>1. ASSUME NEW q \in Requests,
               hash[q] # None, verdict'[q] = "pass", ~failedOpen'[q]
        PROVE  WindowEnd(cred[q]) <= now \/ WindowEnd(cred[q]) <= claimed'[Fingerprint(q)]
    <3>1. CASE q = r
      <4>1. v = "pass" /\ ~open
        BY <1>2, <2>1, <3>1 DEF Finish, TypeOK
      <4>2. claimed'[f] = now + replay_window_seconds
        BY <4>1, <1>2, <1>7
      <4> QED BY <3>1, <4>2, <1>6
    <3>2. CASE q # r
      <4>1. verdict[q] = "pass" /\ ~failedOpen[q]
        BY <1>2, <2>1, <3>2 DEF Finish, TypeOK
      <4>2. WindowEnd(cred[q]) <= now \/ WindowEnd(cred[q]) <= claimed[Fingerprint(q)]
        BY <2>1, <4>1 DEF ClaimOK
      <4>3. Fingerprint(q) \in Fingerprints /\ cred[q] \in Codes
        BY <2>1 DEF Fingerprint, Fingerprints, RequestOK, TypeOK
      <4>4. WindowEnd(cred[q]) \in Nat \ {0}
        BY <4>3, WindowEndType
      <4>5. CASE claimed[Fingerprint(q)] = 0
        BY <4>2, <4>4, <4>5
      <4>6. CASE claimed[Fingerprint(q)] # 0
        BY <4>2, <4>3, <4>6, <1>7
      <4> QED BY <4>5, <4>6
    <3> QED BY <3>1, <3>2
  <2>2. ASSUME NEW g \in Fingerprints, claimed'[g] # 0
        PROVE  \E q \in Requests : hash[q] # None /\ Fingerprint(q) = g /\ verdict'[q] = "pass"
    <3>1. CASE claimed[g] # 0
      <4>1. PICK q \in Requests : hash[q] # None /\ Fingerprint(q) = g /\ verdict[q] = "pass"
        BY <3>1 DEF ClaimOK
      <4>2. q # r
        BY <4>1, <1>3
      <4>3. verdict'[q] = "pass"
        BY <4>1, <4>2, <1>2 DEF Finish, TypeOK
      <4> QED BY <4>1, <4>3
    <3>2. CASE claimed[g] = 0
      <4>1. g = f /\ claimed' # claimed
        BY <2>2, <3>2, <1>7
      <4>2. v = "pass"
        BY <4>1, <3>2, <1>2
      <4>3. verdict'[r] = "pass"
        BY <4>2, <1>2 DEF Finish, TypeOK
      <4> QED BY <4>1, <4>3, <1>3
    <3> QED BY <3>1, <3>2
  <2>3. \A q \in Requests : cred'[q] = cred[q] /\ hash'[q] = hash[q]
                             /\ Fingerprint(q)' = Fingerprint(q)
    BY <1>1 DEF Fingerprint
  <2> QED
    BY <1>1, <2>1, <2>2, <2>3 DEF ClaimOK, WindowEnd
<1>11. ReplayRefused'
  <2>1. ASSUME NEW q \in Requests, q # r, cred[q] = cred[r], hash[q] = hash[r],
               verdict[q] = "pass", ~failedOpen[q], v = "pass", ~open
        PROVE  WindowEnd(cred[r]) <= now
    <3>1. claimed[f] = 0
      BY <2>1, <1>2
    <3>2. Fingerprint(q) = f
      BY <2>1 DEF Fingerprint
    <3>3. WindowEnd(cred[r]) \in Nat \ {0}
      BY <1>3, WindowEndType
    <3>4. WindowEnd(cred[q]) <= now \/ WindowEnd(cred[q]) <= claimed[Fingerprint(q)]
      BY <2>1, <1>3 DEF ClaimOK
    <3> QED BY <3>1, <3>2, <3>3, <3>4, <2>1
  <2>2. claimedAt'[r] = now /\ verdict'[r] = v /\ failedOpen'[r] = open
    BY <1>2 DEF Finish, TypeOK
  <2>3. \A q \in Requests : q # r => /\ claimedAt'[q] = claimedAt[q]
                                     /\ verdict'[q] = verdict[q]
                                     /\ failedOpen'[q] = failedOpen[q]
    BY <1>2 DEF Finish, TypeOK
  <2>4. cred' = cred /\ hash' = hash
    BY <1>1
  <2> QED
    BY <2>1, <2>2, <2>3, <2>4 DEF ReplayRefused, WindowEnd
<1> QED
  BY <1>8, <1>9, <1>10, <1>11

LEMMA RestartInv ==
    ASSUME AccessInv, ReplayRefused, NEW p \in Replicas, Restart(p)
    PROVE  AccessInv' /\ ReplayRefused'
<1> USE DEF AccessInv, requestVars
<1>1. config' \in [Replicas -> ConfigType]
  BY FromEnvType, AccessAssumption DEF Restart, TypeOK
<1>2. TypeOK'
  BY <1>1 DEF Restart, TypeOK
<1>3. (\A r \in Requests : RequestOK(r))' /\ ClaimOK' /\ ReplayRefused'
  BY DEF Restart, RequestOK, ClaimOK, ReplayRefused, Fingerprint, WindowEnd
<1> QED BY <1>2, <1>3

(* A key that expires was claimed for a code whose window has closed. *)
LEMMA TickInv ==
    ASSUME AccessInv, ReplayRefused, Tick
    PROVE  AccessInv' /\ ReplayRefused'
<1> USE DEF AccessInv, requestVars
<1>1. TypeOK'
  BY DEF Tick, TypeOK
<1>2. ASSUME NEW r \in Requests PROVE RequestOK(r)'
  <2>1. CASE pc[r] = "claim"
    <3>1. cred[r].counter \in Nat
      BY <2>1, CountersType DEF RequestOK, Codes
    <3>2. Step * cred[r].counter \in Nat /\ Step * Skew \in Nat /\ now \in Nat
      BY <3>1, AccessAssumption DEF TypeOK
    <3>3. Step * cred[r].counter <= now + 1 + Step * Skew
      BY <2>1, <3>2 DEF RequestOK
    <3> QED BY <3>3 DEF Tick, RequestOK
  <2>2. CASE pc[r] # "claim"
    BY <2>2 DEF Tick, RequestOK
  <2> QED BY <2>1, <2>2
<1>3. ClaimOK'
  <2>1. ASSUME NEW q \in Requests,
               hash[q] # None, verdict[q] = "pass", ~failedOpen[q]
        PROVE  \/ WindowEnd(cred[q]) <= now + 1
               \/ WindowEnd(cred[q]) <= claimed'[Fingerprint(q)]
    <3>1. Fingerprint(q) \in Fingerprints /\ cred[q] \in Codes
      BY <2>1 DEF Fingerprint, Fingerprints, RequestOK, TypeOK
    <3>2. WindowEnd(cred[q]) \in Nat
      BY <3>1, WindowEndType
    <3>3. WindowEnd(cred[q]) <= now \/ WindowEnd(cred[q]) <= claimed[Fingerprint(q)]
      BY <2>1 DEF ClaimOK
    <3>4. claimed[Fingerprint(q)] \in Nat /\ now \in Nat
      BY <3>1 DEF TypeOK
    <3>5. claimed'[Fingerprint(q)] =
            IF claimed[Fingerprint(q)] <= now + 1 THEN 0 ELSE claimed[Fingerprint(q)]
      BY <3>1 DEF Tick
    <3> QED BY <3>2, <3>3, <3>4, <3>5
  <2>2. ASSUME NEW g \in Fingerprints, claimed'[g] # 0
        PROVE  \E q \in Requests : hash[q] # None /\ Fingerprint(q) = g /\ verdict[q] = "pass"
    BY <2>2 DEF Tick, ClaimOK
  <2> QED
    BY <2>1, <2>2 DEF Tick, ClaimOK, Fingerprint, WindowEnd
<1>4. ReplayRefused'
  BY DEF Tick, ReplayRefused, WindowEnd
<1> QED BY <1>1, <1>2, <1>3, <1>4

LEMMA AccessStep == AccessInv /\ ReplayRefused /\ [Next]_vars => AccessInv' /\ ReplayRefused'
<1> SUFFICES ASSUME AccessInv, ReplayRefused, [Next]_vars
             PROVE  AccessInv' /\ ReplayRefused'
  OBVIOUS
<1>1. CASE Tick
  BY <1>1, TickInv
<1>2. ASSUME NEW p \in Replicas, Restart(p) PROVE AccessInv' /\ ReplayRefused'
  BY <1>2, RestartInv
<1>3. ASSUME NEW r \in Requests, Call(r) PROVE AccessInv' /\ ReplayRefused'
  BY <1>3, CallInv
<1>4. ASSUME NEW r \in Requests, NEW o \in Outcomes, ClaimTotpCode(r, o)
      PROVE  AccessInv' /\ ReplayRefused'
  BY <1>4, ClaimInv
<1>5. CASE UNCHANGED vars
  BY <1>5 DEF vars, requestVars, AccessInv, TypeOK, RequestOK, ClaimOK, ReplayRefused,
              Fingerprint, WindowEnd
<1> QED
  BY <1>1, <1>2, <1>3, <1>4, <1>5 DEF Next

-----------------------------------------------------------------------------
(* With the guard on, a code lets at most one request in, but for the three
   exceptions that ReplayRefused names: on any number of replicas, through
   restarts and rotations, for every step length and tolerance. *)
THEOREM ReplayGuard == Spec => []ReplayRefused
  BY AccessInit, AccessStep, PTL DEF Spec

LEMMA NoFalseReplayStep == AccessInv /\ NoFalseReplay /\ [Next]_vars => NoFalseReplay'
<1> SUFFICES ASSUME AccessInv, NoFalseReplay, [Next]_vars PROVE NoFalseReplay'
  OBVIOUS
<1> USE DEF AccessInv, requestVars
<1>1. CASE Tick
  BY <1>1 DEF Tick, NoFalseReplay
<1>2. ASSUME NEW p \in Replicas, Restart(p) PROVE NoFalseReplay'
  BY <1>2 DEF Restart, NoFalseReplay
<1>3. ASSUME NEW r \in Requests, Call(r) PROVE NoFalseReplay'
  <2>1. verdict[r] = "none" /\ hash[r] = None
    BY <1>3 DEF Call, RequestOK
  <2>2. hash'[r] = None \/ verdict'[r] = "none"
    BY <1>3, <2>1 DEF Call
  <2>3. \A q \in Requests : q # r =>
          cred'[q] = cred[q] /\ hash'[q] = hash[q] /\ verdict'[q] = verdict[q]
    BY <1>3 DEF Call, TypeOK
  <2> QED BY <2>1, <2>2, <2>3 DEF NoFalseReplay
<1>4. ASSUME NEW r \in Requests, NEW o \in Outcomes, ClaimTotpCode(r, o)
      PROVE  NoFalseReplay'
  <2>1. cred' = cred /\ hash' = hash /\ verdict[r] = "none" /\ hash[r] \in Secrets
        /\ cred[r] \in Codes
    BY <1>4 DEF ClaimTotpCode, RequestOK, TypeOK
  <2>2. \A q \in Requests : q # r => verdict'[q] = verdict[q]
    BY <1>4 DEF ClaimTotpCode, Finish, TypeOK
  <2>3. ASSUME verdict'[r] = "401"
        PROVE  \E q \in Requests \ {r} : cred[q] = cred[r] /\ verdict[q] = "pass"
    <3>1. claimed[Fingerprint(r)] # 0
      BY <1>4, <2>3 DEF ClaimTotpCode, Finish, TypeOK
    <3>2. Fingerprint(r) \in Fingerprints
      BY <2>1 DEF Fingerprint, Fingerprints
    <3>3. PICK q \in Requests : Fingerprint(q) = Fingerprint(r) /\ verdict[q] = "pass"
      BY <3>1, <3>2 DEF ClaimOK
    <3> QED BY <3>3, <2>1 DEF Fingerprint
  <2> QED BY <2>1, <2>2, <2>3 DEF NoFalseReplay
<1>5. CASE UNCHANGED vars
  BY <1>5 DEF vars, NoFalseReplay
<1> QED
  BY <1>1, <1>2, <1>3, <1>4, <1>5 DEF Next

(* A valid code is turned away by the guard only after another request got in
   with it, whatever the store does to the claims. *)
THEOREM NoCodeLost == Spec => []NoFalseReplay
<1>1. Init => NoFalseReplay
  BY DEF Init, NoFalseReplay
<1> QED
  BY <1>1, AccessInit, AccessStep, NoFalseReplayStep, PTL DEF Spec

-----------------------------------------------------------------------------
(* Blank is neither a static secret nor a one-time code. *)
LEMMA BlankShowsNothing == Blank # Right /\ Blank \notin Codes
BY DEF Blank, Right, Codes, Counters

LEMMA NoEntryStep == AccessInv /\ NoCredentialNoEntry /\ [Next]_vars => NoCredentialNoEntry'
<1> SUFFICES ASSUME AccessInv, NoCredentialNoEntry, [Next]_vars,
                    NEW q \in Requests, cred'[q] = Blank, level'[q] # "open"
             PROVE  verdict'[q] # "pass"
  BY DEF NoCredentialNoEntry
<1> USE DEF AccessInv, requestVars
<1>1. CASE UNCHANGED <<cred, level, verdict>>
  BY <1>1 DEF NoCredentialNoEntry
<1>2. ASSUME NEW r \in Requests, Call(r) PROVE verdict'[q] # "pass"
  <2>1. CASE q # r
    <3>1. cred'[q] = cred[q] /\ level'[q] = level[q] /\ verdict'[q] = verdict[q]
      BY <1>2, <2>1 DEF Call, TypeOK
    <3> QED BY <3>1 DEF NoCredentialNoEntry
  <2>2. CASE q = r
    <3>1. PICK p \in Replicas, l \in Levels : \E c \in Shown(l) :
            /\ level' = [level EXCEPT ![r] = l] /\ cred' = [cred EXCEPT ![r] = c]
            /\ \/ verdict' = verdict
               \/ verdict' = [verdict EXCEPT ![r] = IF Authorize(p, l, c) THEN "pass" ELSE "401"]
      BY <1>2 DEF Call
    <3>2. PICK c \in Shown(l) :
            /\ level' = [level EXCEPT ![r] = l] /\ cred' = [cred EXCEPT ![r] = c]
            /\ \/ verdict' = verdict
               \/ verdict' = [verdict EXCEPT ![r] = IF Authorize(p, l, c) THEN "pass" ELSE "401"]
      BY <3>1
    <3>3. c = Blank /\ l # "open"
      BY <2>2, <3>2 DEF TypeOK
    <3>4. ~Authorize(p, l, c)
      BY <3>3, BlankShowsNothing DEF Authorize, ValidateMetrics, Levels
    <3>5. verdict[r] = "none"
      BY <1>2 DEF Call, RequestOK
    <3> QED BY <2>2, <3>2, <3>4, <3>5 DEF TypeOK
  <2> QED BY <2>1, <2>2
<1>3. ASSUME NEW r \in Requests, NEW o \in Outcomes, ClaimTotpCode(r, o)
      PROVE  verdict'[q] # "pass"
  <2>1. cred' = cred /\ level' = level /\ cred[r] \in Codes
    BY <1>3 DEF ClaimTotpCode, RequestOK
  <2>2. q # r
    BY <2>1, BlankShowsNothing
  <2>3. verdict'[q] = verdict[q]
    BY <1>3, <2>2 DEF ClaimTotpCode, Finish, TypeOK
  <2> QED BY <2>1, <2>3 DEF NoCredentialNoEntry
<1>4. CASE Tick \/ (\E p \in Replicas : Restart(p)) \/ UNCHANGED vars
  BY <1>1, <1>4 DEF Tick, Restart, vars
<1> QED BY <1>2, <1>3, <1>4 DEF Next

(* AuthConfig::authorize: whatever the environment of a replica lacks, a
   protected route is closed to a request that shows nothing. *)
THEOREM ClosedByDefault == Spec => []NoCredentialNoEntry
<1>1. Init => NoCredentialNoEntry
  BY DEF Init, NoCredentialNoEntry
<1> QED BY <1>1, AccessInit, AccessStep, NoEntryStep, PTL DEF Spec

(* Every replica, request and claim stays what its type says. *)
THEOREM AccessTypes == Spec => []TypeOK
<1>1. AccessInv => TypeOK
  BY DEF AccessInv
<1> QED BY <1>1, AccessInit, AccessStep, PTL DEF Spec
=============================================================================
