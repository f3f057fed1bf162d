-------------------------- MODULE FrontDoorProofs --------------------------
(***************************************************************************)
(* Proofs about FrontDoor: DoorInv is inductive, Retry-After is honest,    *)
(* and the limiters implement the token bucket - for any address widths,   *)
(* trusted proxies, quotas and requests.                                   *)
(***************************************************************************)
EXTENDS FrontDoor, FiniteSetTheorems, WellFoundedInduction, TLAPS

-----------------------------------------------------------------------------
(* Addresses *)

(* A set of positions that is not empty has a first one. *)
LEMMA FirstExists ==
    ASSUME NEW T, T \subseteq Nat, T # {}
    PROVE  \E i \in T : \A j \in T : i <= j
<1>1. PICK i \in T : \A j \in T : ~(<<j, i>> \in OpToRel(<, Nat))
  BY NatLessThanWellFounded, WFMin, Zenon
<1>2. \A j \in T : ~(j < i)
  BY <1>1, Zenon DEF OpToRel
<1>3. ASSUME NEW j \in T PROVE i <= j
  <2>1. i \in Nat /\ j \in Nat
    BY <1>1
  <2> QED BY <1>2, <2>1
<1> QED BY <1>1, <1>3

(* And, in a list, a last one. *)
LEMMA LastExists ==
    ASSUME NEW n \in Nat, NEW T, T \subseteq 1 .. n, T # {}
    PROVE  \E i \in T : \A j \in T : j <= i
<1> DEFINE U == {n - i : i \in T}
<1>1. U \subseteq Nat /\ U # {}
  <2>1. ASSUME NEW i \in T PROVE n - i \in Nat
    <3>1. i \in 1 .. n
      OBVIOUS
    <3> QED BY <3>1
  <2> QED BY <2>1
<1>2. PICK u \in U : \A v \in U : u <= v
  BY <1>1, FirstExists
<1>3. PICK i \in T : u = n - i
  BY <1>2
<1>4. ASSUME NEW j \in T PROVE j <= i
  <2>1. i \in 1 .. n /\ j \in 1 .. n
    BY <1>3
  <2>2. n - j \in U
    OBVIOUS
  <2> HIDE DEF U
  <2>3. n - i <= n - j
    BY <1>2, <1>3, <2>2
  <2> QED BY <2>1, <2>3
<1> QED BY <1>4

(* What stands in a list is of the kind of the list. *)
LEMMA EntryOfList ==
    ASSUME NEW S, NEW s \in Seq(S), NEW i \in 1 .. Len(s)
    PROVE  s[i] \in S
OBVIOUS

(* canonical: the IPv4 address inside a mapped one is an address. *)
LEMMA CanonicalType ==
    ASSUME NEW a \in Addresses
    PROVE  canonical(a) \in Addresses
<1>1. CASE ~IsMapped(a)
  BY <1>1 DEF canonical
<1>2. CASE IsMapped(a)
  <2> DEFINE o == [i \in 1 .. V4Octets |-> a.octets[Len(MappedPrefix) + i]]
  <2>1. a.v6 /\ a.octets \in [1 .. V6Octets -> Octets]
    BY <1>2 DEF IsMapped, Addresses, V4, V6
  <2>2. Len(MappedPrefix) \in Nat /\ V4Octets \in Nat /\ Len(MappedPrefix) + V4Octets = V6Octets
    BY AddressAssumption
  <2>3. ASSUME NEW i \in 1 .. V4Octets PROVE Len(MappedPrefix) + i \in 1 .. V6Octets
    BY <2>2
  <2>4. o \in [1 .. V4Octets -> Octets]
    BY <2>1, <2>3
  <2>5. canonical(a) = [v6 |-> FALSE, octets |-> o]
    BY <1>2 DEF canonical
  <2> HIDE DEF o
  <2> QED BY <2>4, <2>5 DEF Addresses, V4
<1> QED BY <1>1, <1>2

(* group_v6: the network of an address is an address. *)
LEMMA GroupType ==
    ASSUME NEW a \in Addresses
    PROVE  group_v6(a) \in Addresses
<1>1. CASE ~a.v6
  BY <1>1 DEF group_v6
<1>2. CASE a.v6
  <2> DEFINE o == [i \in 1 .. V6Octets |-> IF i <= GroupOctets THEN a.octets[i] ELSE 0]
  <2>1. a.octets \in [1 .. V6Octets -> Octets]
    BY <1>2 DEF Addresses, V4, V6
  <2>2. 0 \in Octets
    BY AddressAssumption
  <2>3. o \in [1 .. V6Octets -> Octets]
    BY <2>1, <2>2
  <2>4. group_v6(a) = [v6 |-> TRUE, octets |-> o]
    BY <1>2 DEF group_v6
  <2> HIDE DEF o
  <2> QED BY <2>3, <2>4 DEF Addresses, V6
<1> QED BY <1>1, <1>2

(* A client's key is an address, and so neither the key of the cap nor that of
   nobody. *)
LEMMA KeysDistinct ==
    /\ ClientKeys \subseteq Addresses
    /\ Cap \in Keys /\ Cap \notin ClientKeys
    /\ NoAddr \notin Keys
<1>1. ClientKeys \subseteq Addresses
  BY CanonicalType, GroupType DEF ClientKeys
<1> QED BY <1>1, AddressAssumption, DoorAssumption DEF Keys

(* client_from_forwarded finds nothing, or an address a proxy wrote down. *)
LEMMA ForwardedType ==
    ASSUME NEW xff \in Seq([form : Forms, addr : Addresses]), NEW trusted
    PROVE  \/ client_from_forwarded(xff, trusted) = NoAddr
           \/ \E a \in Addresses : client_from_forwarded(xff, trusted) = canonical(a)
<1> DEFINE ip(i)   == parse_forwarded_ip(xff[i])
           parsed  == {i \in 1 .. Len(xff) : ip(i) # NoAddr}
           foreign == {i \in parsed : ~ip_is_trusted(ip(i), trusted)}
           last    == CHOOSE i \in foreign : \A j \in foreign : j <= i
           first   == CHOOSE i \in parsed : \A j \in parsed : i <= j
<1>1. ASSUME NEW i \in parsed PROVE \E a \in Addresses : ip(i) = canonical(a)
  <2>1. xff[i].addr \in Addresses
    <3>1. i \in 1 .. Len(xff)
      OBVIOUS
    <3>2. xff[i] \in [form : Forms, addr : Addresses]
      BY <3>1, EntryOfList
    <3> QED BY <3>2
  <2>2. ip(i) = canonical(xff[i].addr)
    BY DEF parse_forwarded_ip
  <2> QED BY <2>1, <2>2
<1>2. Len(xff) \in Nat /\ parsed \subseteq 1 .. Len(xff) /\ foreign \subseteq parsed
  OBVIOUS
<1>3. foreign # {} => last \in parsed
  <2> SUFFICES ASSUME foreign # {} PROVE last \in parsed
    OBVIOUS
  <2>1. \E i \in foreign : \A j \in foreign : j <= i
    <3>1. foreign \subseteq 1 .. Len(xff)
      BY <1>2
    <3> HIDE DEF foreign, parsed
    <3> QED BY <1>2, <3>1, LastExists
  <2> HIDE DEF foreign, parsed
  <2> QED BY <1>2, <2>1
<1>4. parsed # {} => first \in parsed
  <2> SUFFICES ASSUME parsed # {} PROVE first \in parsed
    OBVIOUS
  <2>1. \E i \in parsed : \A j \in parsed : i <= j
    <3>1. parsed \subseteq Nat
      BY <1>2
    <3> HIDE DEF parsed
    <3> QED BY <3>1, FirstExists
  <2> HIDE DEF parsed
  <2> QED BY <2>1
<1>5. client_from_forwarded(xff, trusted) =
        IF foreign # {} THEN ip(last) ELSE IF parsed # {} THEN ip(first) ELSE NoAddr
  BY DEF client_from_forwarded
<1> HIDE DEF ip, parsed, foreign, last, first
<1> QED BY <1>1, <1>3, <1>4, <1>5

(* resolve_key_ip: a request is charged to a client's key, or to nobody. *)
LEMMA ClientKeyType ==
    ASSUME NEW sh \in Shapes
    PROVE  ClientKey(sh) \in ClientKeys \cup {NoAddr}
<1>1. sh.peer \in Addresses \cup {NoAddr} /\ sh.xff \in Seq([form : Forms, addr : Addresses])
  BY DoorAssumption DEF ShapeType
<1>2. CASE sh.peer = NoAddr
  BY <1>2 DEF ClientKey, resolve_key_ip
<1>3. CASE sh.peer # NoAddr
  <2> DEFINE client == client_from_forwarded(sh.xff, Trusted)
  <2>1. client = NoAddr \/ \E a \in Addresses : client = canonical(a)
    BY <1>1, ForwardedType
  <2>2. \/ ClientKey(sh) = group_v6(canonical(sh.peer))
        \/ client # NoAddr /\ ClientKey(sh) = group_v6(client)
    BY <1>3 DEF ClientKey, resolve_key_ip
  <2> HIDE DEF client
  <2> QED BY <1>1, <1>3, <2>1, <2>2 DEF ClientKeys
<1> QED BY <1>2, <1>3

-----------------------------------------------------------------------------
(* Quotas *)

(* quota: whatever is configured, a bucket holds at least one token, and a
   token comes back within a second. *)
LEMMA QuotaFacts ==
    ASSUME NEW k \in Keys
    PROVE  /\ Period[k] \in Nat /\ 1 <= Period[k] /\ Period[k] <= Second
           /\ Full(k) \in Nat /\ Period[k] <= Full(k)
<1>1. ASSUME NEW n \in 0 .. Second, NEW b \in Nat
      PROVE  /\ quota(n, b).period \in Nat
             /\ 1 <= quota(n, b).period /\ quota(n, b).period <= Second
             /\ quota(n, b).burst \in Nat /\ 1 <= quota(n, b).burst
  <2>1. Second \in Nat /\ Second # 0
    BY DoorAssumption
  <2>2. AtLeastOne(n) \in Nat /\ 1 <= AtLeastOne(n) /\ AtLeastOne(n) <= Second
    BY <2>1 DEF AtLeastOne
  <2>3. ASSUME NEW m \in Nat, 1 <= m, m <= Second
        PROVE  Second \div m \in Nat /\ 1 <= Second \div m /\ Second \div m <= Second
    BY <2>1, <2>3, SMT
  <2>4. AtLeastOne(b) \in Nat /\ 1 <= AtLeastOne(b)
    BY DEF AtLeastOne
  <2> QED BY <2>2, <2>3, <2>4 DEF quota
<1>2. QuotaOf(k) = quota(InternalPerSecond, InternalBurst) \/ QuotaOf(k) = quota(VerifyPerSecond, VerifyBurst)
  BY DEF QuotaOf, InternalQuota, VerifyQuota
<1>3. /\ Period[k] \in Nat /\ 1 <= Period[k] /\ Period[k] <= Second
      /\ Burst[k] \in Nat /\ 1 <= Burst[k]
  BY <1>1, <1>2, DoorAssumption DEF Period, Burst
<1>4. ASSUME NEW p \in Nat, NEW b \in Nat, 1 <= b
      PROVE  b * p \in Nat /\ p <= b * p
  BY <1>4, SMT
<1> QED BY <1>3, <1>4 DEF Full

-----------------------------------------------------------------------------
(* The inductive invariant *)

(* What a limiter may change. *)
LimiterType ==
    /\ tat \in [Keys -> Nat]
    /\ pc \in [Requests -> {"idle", "claim", "done"}]
    /\ answer \in [Requests -> {"none", "429", "401", "404", "cors", "handled"}]
    /\ retry \in [Requests -> Nat]
    /\ bucket \in [Requests -> Keys \cup {NoAddr}]
    /\ at \in [Requests -> Nat]

LimiterOK == LimiterType /\ DebtOK /\ \A r \in Requests : DoneOK(r) /\ RefusedOK(r)

(* retry_after_secs: a refusal comes with a wait of at least a second. *)
LEMMA RetryPositive ==
    ASSUME TypeOK, NEW k \in Keys, ~Allowed(k)
    PROVE  retry_after_secs(k) \in Nat /\ retry_after_secs(k) # 0
<1>1. tat[k] \in Nat /\ now \in Nat /\ Second \in Nat /\ Second # 0
  BY DoorAssumption DEF TypeOK
<1>2. tat[k] + Period[k] - Full(k) - now \in Nat
  BY <1>1, QuotaFacts DEF Allowed, Later
<1>3. ASSUME NEW w \in Nat PROVE w \div Second \in Nat
  BY <1>1, SMT
<1>4. ASSUME NEW n \in Nat PROVE AtLeastOne(n) \in Nat /\ AtLeastOne(n) # 0
  BY DEF AtLeastOne
<1> QED BY <1>2, <1>3, <1>4 DEF retry_after_secs

(* Strategy::check, whatever limiter it asks. *)
LEMMA LimitInv ==
    ASSUME DoorInv, NEW r \in Requests, pc[r] # "done", NEW k \in Keys,
           NEW inner \in {"401", "handled"}, Limit(r, k, inner), now' = now
    PROVE  LimiterOK'
<1> USE DEF Conclude
<1>0. TypeOK /\ DebtOK /\ \A q \in Requests : DoneOK(q) /\ RefusedOK(q)
  BY DEF DoorInv
<1>1. bucket' = [bucket EXCEPT ![r] = k] /\ at' = [at EXCEPT ![r] = now]
  BY DEF Limit
<1>2. pc' = [pc EXCEPT ![r] = "done"]
  BY DEF Limit
<1>3. answer[r] = "none" /\ bucket[r] = NoAddr /\ NoAddr \notin Keys /\ now \in Nat
  BY <1>0, KeysDistinct DEF DoneOK, TypeOK
<1>4. CASE Allowed(k)
  <2>1. /\ tat' = [tat EXCEPT ![k] = Later(tat[k], now) + Period[k]]
        /\ answer' = [answer EXCEPT ![r] = inner] /\ retry' = retry
    BY <1>4 DEF Limit, TakeToken
  <2>2. LimiterType'
    <3>1. Later(tat[k], now) + Period[k] \in Nat
      BY <1>0, QuotaFacts DEF Later, TypeOK
    <3> QED BY <1>0, <1>1, <1>2, <2>1, <3>1 DEF TypeOK, LimiterType
  <2>3. Later(tat[k], now) + Period[k] <= now + Full(k)
    BY <1>4 DEF Allowed
  <2>4. DebtOK'
    <3> SUFFICES ASSUME NEW c \in Keys PROVE tat'[c] <= now + Full(c)
      BY DEF DebtOK, Full, Burst, Period
    <3> QED BY <1>0, <2>1, <2>3 DEF DebtOK, TypeOK
  <2>5. ASSUME NEW q \in Requests PROVE DoneOK(q)'
    BY <1>0, <1>1, <1>2, <2>1 DEF DoneOK, TypeOK
  <2>6. ASSUME NEW q \in Requests PROVE RefusedOK(q)'
    <3> SUFFICES ASSUME answer'[q] = "429"
                 PROVE  /\ bucket'[q] \in Keys /\ at'[q] <= now' /\ retry'[q] # 0
                        /\ \/ tat'[bucket'[q]] <= at'[q] + Full(bucket'[q])
                           \/ \E x \in Requests : /\ bucket'[x] = bucket'[q]
                                                  /\ answer'[x] # "429" /\ at'[x] > at'[q]
      BY DEF RefusedOK, Full, Burst, Period
    <3>1. q # r /\ answer[q] = "429" /\ bucket'[q] = bucket[q] /\ at'[q] = at[q]
      BY <1>0, <1>1, <2>1 DEF TypeOK
    <3>2. bucket[q] \in Keys /\ at[q] <= now /\ retry[q] # 0 /\ at[q] \in Nat
      BY <1>0, <3>1 DEF RefusedOK, TypeOK
    <3>3. CASE bucket[q] = k
      <4>1. CASE at[q] = now
        BY <1>0, <2>1, <2>3, <3>1, <3>2, <3>3, <4>1 DEF TypeOK
      <4>2. CASE at[q] # now
        <5>1. bucket'[r] = bucket'[q] /\ answer'[r] # "429" /\ at'[r] > at'[q]
          BY <1>0, <1>1, <1>3, <2>1, <3>1, <3>2, <3>3, <4>2 DEF TypeOK
        <5> QED BY <2>1, <3>1, <3>2, <5>1
      <4> QED BY <4>1, <4>2
    <3>4. CASE bucket[q] # k
      <4>1. CASE tat[bucket[q]] <= at[q] + Full(bucket[q])
        BY <1>0, <2>1, <3>1, <3>2, <3>4, <4>1 DEF TypeOK
      <4>2. ASSUME NEW x \in Requests, bucket[x] = bucket[q], answer[x] # "429", at[x] > at[q]
            PROVE  bucket'[x] = bucket'[q] /\ answer'[x] # "429" /\ at'[x] > at'[q]
        <5>1. x # r
          BY <1>3, <3>2, <4>2
        <5> QED BY <1>0, <1>1, <2>1, <3>1, <4>2, <5>1 DEF TypeOK
      <4> QED BY <1>0, <2>1, <3>1, <3>2, <4>1, <4>2 DEF RefusedOK
    <3> QED BY <3>3, <3>4
  <2> QED BY <2>2, <2>4, <2>5, <2>6 DEF LimiterOK
<1>5. CASE ~Allowed(k)
  <2>1. /\ tat' = tat /\ answer' = [answer EXCEPT ![r] = "429"]
        /\ retry' = [retry EXCEPT ![r] = retry_after_secs(k)]
    BY <1>5 DEF Limit
  <2>2. retry_after_secs(k) \in Nat /\ retry_after_secs(k) # 0
    BY <1>0, <1>5, RetryPositive
  <2>3. LimiterType'
    BY <1>0, <1>1, <1>2, <2>1, <2>2 DEF TypeOK, LimiterType
  <2>4. DebtOK'
    BY <1>0, <2>1 DEF DebtOK, Full, Burst, Period
  <2>5. ASSUME NEW q \in Requests PROVE DoneOK(q)'
    BY <1>0, <1>1, <1>2, <2>1 DEF DoneOK, TypeOK
  <2>6. ASSUME NEW q \in Requests PROVE RefusedOK(q)'
    <3> SUFFICES ASSUME answer'[q] = "429"
                 PROVE  /\ bucket'[q] \in Keys /\ at'[q] <= now' /\ retry'[q] # 0
                        /\ \/ tat'[bucket'[q]] <= at'[q] + Full(bucket'[q])
                           \/ \E x \in Requests : /\ bucket'[x] = bucket'[q]
                                                  /\ answer'[x] # "429" /\ at'[x] > at'[q]
      BY DEF RefusedOK, Full, Burst, Period
    <3>1. CASE q = r
      BY <1>0, <1>1, <1>3, <2>1, <2>2, <3>1 DEF TypeOK, DebtOK
    <3>2. CASE q # r
      <4>1. answer[q] = "429" /\ bucket'[q] = bucket[q] /\ at'[q] = at[q] /\ retry'[q] = retry[q]
        BY <1>0, <1>1, <2>1, <3>2 DEF TypeOK
      <4>2. ASSUME NEW x \in Requests, bucket[x] = bucket[q], answer[x] # "429", at[x] > at[q]
            PROVE  bucket'[x] = bucket'[q] /\ answer'[x] # "429" /\ at'[x] > at'[q]
        <5>1. x # r
          BY <1>0, <1>3, <4>1, <4>2 DEF RefusedOK
        <5> QED BY <1>0, <1>1, <2>1, <4>1, <4>2, <5>1 DEF TypeOK
      <4> QED BY <1>0, <2>1, <4>1, <4>2 DEF RefusedOK
    <3> QED BY <3>1, <3>2
  <2> QED BY <2>3, <2>4, <2>5, <2>6 DEF LimiterOK
<1> QED BY <1>4, <1>5

(* A request that ends without having met a limiter. *)
LEMMA UnlimitedInv ==
    ASSUME DoorInv, NEW r \in Requests, pc[r] # "done", now' = now, NotLimited,
           NEW a \in {"401", "404", "cors", "handled"}, Conclude(r, a)
    PROVE  LimiterOK'
<1>0. TypeOK /\ DebtOK /\ \A q \in Requests : DoneOK(q) /\ RefusedOK(q)
  BY DEF DoorInv
<1>1. /\ pc' = [pc EXCEPT ![r] = "done"] /\ answer' = [answer EXCEPT ![r] = a]
      /\ tat' = tat /\ retry' = retry /\ bucket' = bucket /\ at' = at
  BY DEF Conclude, NotLimited
<1>2. LimiterType'
  BY <1>0, <1>1 DEF TypeOK, LimiterType
<1>3. DebtOK'
  BY <1>0, <1>1 DEF DebtOK, Full, Burst, Period
<1>4. ASSUME NEW q \in Requests PROVE DoneOK(q)'
  BY <1>0, <1>1 DEF DoneOK, TypeOK
<1>5. ASSUME NEW q \in Requests PROVE RefusedOK(q)'
  <2> SUFFICES ASSUME answer'[q] = "429"
               PROVE  /\ bucket[q] \in Keys /\ at[q] <= now /\ retry[q] # 0
                      /\ \/ tat[bucket[q]] <= at[q] + Full(bucket[q])
                         \/ \E x \in Requests : /\ bucket[x] = bucket[q]
                                                /\ answer'[x] # "429" /\ at[x] > at[q]
    BY <1>1 DEF RefusedOK, Full, Burst, Period
  <2>1. answer[q] = "429"
    BY <1>0, <1>1 DEF TypeOK
  <2>2. ASSUME NEW x \in Requests, answer[x] # "429" PROVE answer'[x] # "429"
    BY <1>0, <1>1, <2>2 DEF TypeOK
  <2> QED BY <1>0, <2>1, <2>2 DEF RefusedOK
<1> QED BY <1>2, <1>3, <1>4, <1>5 DEF LimiterOK

(* What is left of the invariant to a step whose limiter part is known. *)
LEMMA RestOfInv ==
    ASSUME TypeOK, LimiterOK', now' = now, setting' = setting, claimed' \subseteq Codes,
           shape' \in [Requests -> Shapes \cup {NoShape}], checked' \in [Requests -> BOOLEAN]
    PROVE  DoorInv'
BY DEF DoorInv, LimiterOK, LimiterType, TypeOK

(* A call brings a request of a known shape to a free slot. *)
LEMMA ArrivalFacts ==
    ASSUME TypeOK, NEW r \in Requests, NEW sh \in Shapes, NEW g, Arrives(r, sh, g)
    PROVE  pc[r] # "done" /\ shape' \in [Requests -> Shapes \cup {NoShape}]
BY DEF Arrives, TypeOK

(* Full buckets at the start. *)
LEMMA InitInv == Init => DoorInv
<1> SUFFICES ASSUME Init PROVE DoorInv
  OBVIOUS
<1>1. TypeOK
  BY DEF Init, TypeOK
<1>2. DebtOK
  <2> SUFFICES ASSUME NEW k \in Keys PROVE tat[k] <= now + Full(k)
    BY DEF DebtOK
  <2> QED BY QuotaFacts DEF Init
<1>3. ASSUME NEW r \in Requests PROVE DoneOK(r) /\ RefusedOK(r)
  BY DEF Init, DoneOK, RefusedOK
<1> QED BY <1>1, <1>2, <1>3 DEF DoorInv

(* A charge of the cap keeps the limiter state in order. *)
LEMMA CappedInv ==
    ASSUME DoorInv, NEW r \in Requests, pc[r] # "done", now' = now, Capped(r)
    PROVE  LimiterOK'
<1>1. CASE setting.internal
  <2>1. Limit(r, Cap, "handled") /\ Cap \in Keys
    BY <1>1, KeysDistinct DEF Capped
  <2> QED BY <2>1, LimitInv
<1>2. CASE ~setting.internal
  <2>1. Conclude(r, "handled") /\ NotLimited
    BY <1>2 DEF Capped
  <2> QED BY <2>1, UnlimitedInv
<1> QED BY <1>1, <1>2

(* Time passes. *)
LEMMA TickInv == DoorInv /\ Tick => DoorInv'
<1> SUFFICES ASSUME DoorInv, Tick PROVE DoorInv'
  OBVIOUS
<1>0. TypeOK /\ DebtOK /\ \A q \in Requests : DoneOK(q) /\ RefusedOK(q)
  BY DEF DoorInv
<1>1. /\ now' = now + 1 /\ setting' = setting /\ tat' = tat /\ claimed' = claimed
      /\ pc' = pc /\ shape' = shape /\ answer' = answer /\ retry' = retry
      /\ bucket' = bucket /\ checked' = checked /\ at' = at /\ now \in Nat
  BY <1>0 DEF Tick, requestVars, TypeOK
<1>2. TypeOK'
  BY <1>0, <1>1 DEF TypeOK
<1>3. DebtOK'
  <2> SUFFICES ASSUME NEW k \in Keys PROVE tat[k] <= now + 1 + Full(k)
    BY <1>1 DEF DebtOK, Full, Burst, Period
  <2> QED BY <1>0, <1>1, QuotaFacts DEF DebtOK, TypeOK
<1>4. ASSUME NEW q \in Requests PROVE DoneOK(q)' /\ RefusedOK(q)'
  <2>1. DoneOK(q)'
    BY <1>0, <1>1 DEF DoneOK
  <2>2. RefusedOK(q)'
    <3> SUFFICES ASSUME answer[q] = "429"
                 PROVE  /\ bucket[q] \in Keys /\ at[q] <= now + 1 /\ retry[q] # 0
                        /\ \/ tat[bucket[q]] <= at[q] + Full(bucket[q])
                           \/ \E x \in Requests : /\ bucket[x] = bucket[q]
                                                  /\ answer[x] # "429" /\ at[x] > at[q]
      BY <1>1 DEF RefusedOK, Full, Burst, Period
    <3>1. at[q] \in Nat
      BY <1>0 DEF TypeOK
    <3> QED BY <1>0, <1>1, <3>1 DEF RefusedOK
  <2> QED BY <2>1, <2>2
<1> QED BY <1>2, <1>3, <1>4 DEF DoorInv

(* The cleanup drops buckets that are full. *)
LEMMA SweepInv == DoorInv /\ Sweep => DoorInv'
<1> SUFFICES ASSUME DoorInv, Sweep PROVE DoorInv'
  OBVIOUS
<1>0. TypeOK /\ DebtOK /\ \A q \in Requests : DoneOK(q) /\ RefusedOK(q)
  BY DEF DoorInv
<1>1. /\ now' = now /\ setting' = setting /\ claimed' = claimed
      /\ pc' = pc /\ shape' = shape /\ answer' = answer /\ retry' = retry
      /\ bucket' = bucket /\ checked' = checked /\ at' = at /\ now \in Nat
  BY <1>0 DEF Sweep, requestVars, TypeOK
<1>2. tat' \in [Keys -> Nat] /\ \A k \in Keys : tat'[k] <= tat[k]
  BY <1>0 DEF Sweep, TypeOK
<1>3. TypeOK'
  BY <1>0, <1>1, <1>2 DEF TypeOK
<1>4. ASSUME NEW k \in Keys, NEW t \in Nat, tat[k] <= t + Full(k)
      PROVE  tat'[k] <= t + Full(k)
  BY <1>0, <1>2, <1>4, QuotaFacts DEF TypeOK
<1>5. DebtOK'
  <2> SUFFICES ASSUME NEW k \in Keys PROVE tat'[k] <= now + Full(k)
    BY <1>1 DEF DebtOK, Full, Burst, Period
  <2> QED BY <1>0, <1>1, <1>4 DEF DebtOK
<1>6. ASSUME NEW q \in Requests PROVE DoneOK(q)' /\ RefusedOK(q)'
  <2>1. DoneOK(q)'
    BY <1>0, <1>1 DEF DoneOK
  <2>2. RefusedOK(q)'
    <3> SUFFICES ASSUME answer[q] = "429"
                 PROVE  /\ bucket[q] \in Keys /\ at[q] <= now /\ retry[q] # 0
                        /\ \/ tat'[bucket[q]] <= at[q] + Full(bucket[q])
                           \/ \E x \in Requests : /\ bucket[x] = bucket[q]
                                                  /\ answer[x] # "429" /\ at[x] > at[q]
      BY <1>1 DEF RefusedOK, Full, Burst, Period
    <3>1. at[q] \in Nat
      BY <1>0 DEF TypeOK
    <3> QED BY <1>0, <1>4, <3>1 DEF RefusedOK
  <2> QED BY <2>1, <2>2
<1> QED BY <1>3, <1>5, <1>6 DEF DoorInv

(* A CORS preflight. *)
LEMMA PreflightInv ==
    ASSUME DoorInv, NEW r \in Requests, NEW sh \in Shapes, Preflight(r, sh)
    PROVE  DoorInv'
<1>1. TypeOK /\ pc[r] # "done"
  BY DEF DoorInv, Preflight
<1>2. /\ now' = now /\ setting' = setting /\ claimed' = claimed /\ checked' = checked
      /\ shape' = [shape EXCEPT ![r] = sh] /\ Conclude(r, "cors") /\ NotLimited
  BY DEF Preflight
<1>3. LimiterOK'
  BY <1>1, <1>2, UnlimitedInv
<1>4. /\ claimed' \subseteq Codes /\ checked' \in [Requests -> BOOLEAN]
      /\ shape' \in [Requests -> Shapes \cup {NoShape}]
  BY <1>1, <1>2 DEF TypeOK
<1> QED BY <1>1, <1>2, <1>3, <1>4, RestOfInv

(* A call of /tokens/verify. *)
LEMMA CallVerifyInv ==
    ASSUME DoorInv, NEW r \in Requests, NEW sh \in Shapes, CallVerify(r, sh)
    PROVE  DoorInv'
<1>1. TypeOK /\ Arrives(r, sh, {"/tokens/verify"})
  BY DEF DoorInv, CallVerify
<1>2. pc[r] # "done" /\ shape' \in [Requests -> Shapes \cup {NoShape}]
  BY <1>1, ArrivalFacts
<1>3. now' = now /\ setting' = setting /\ claimed' = claimed
  BY DEF CallVerify
<1>4. Admission(sh) \in {"401", "handled"}
  BY DEF Admission
<1>5. LimiterOK'
  <2>1. CASE setting.verify /\ ClientKey(sh) # NoAddr
    <3>1. Limit(r, ClientKey(sh), Admission(sh)) /\ ClientKey(sh) \in Keys
      BY <2>1, ClientKeyType DEF CallVerify, Keys
    <3> QED BY <1>2, <1>3, <1>4, <3>1, LimitInv
  <2>2. CASE ~(setting.verify /\ ClientKey(sh) # NoAddr)
    <3>1. Conclude(r, Admission(sh)) /\ NotLimited
      BY <2>2 DEF CallVerify
    <3> QED BY <1>2, <1>3, <1>4, <3>1, UnlimitedInv
  <2> QED BY <2>1, <2>2
<1>6. \E b \in BOOLEAN : checked' = [checked EXCEPT ![r] = b]
  <2>1. \/ checked' = [checked EXCEPT ![r] = Allowed(ClientKey(sh))]
        \/ checked' = [checked EXCEPT ![r] = TRUE]
    BY DEF CallVerify
  <2>2. Allowed(ClientKey(sh)) \in BOOLEAN
    BY DEF Allowed
  <2> QED BY <2>1, <2>2
<1>7. claimed' \subseteq Codes /\ checked' \in [Requests -> BOOLEAN]
  BY <1>1, <1>3, <1>6 DEF TypeOK
<1> QED BY <1>1, <1>2, <1>3, <1>5, <1>7, RestOfInv

(* A valid code sends its request to the store before anything is decided. *)
LEMMA CallInternalInv ==
    ASSUME DoorInv, NEW r \in Requests, NEW sh \in Shapes, CallInternal(r, sh)
    PROVE  DoorInv'
<1>1. TypeOK /\ Arrives(r, sh, Internal)
  BY DEF DoorInv, CallInternal
<1>2. pc[r] # "done" /\ shape' \in [Requests -> Shapes \cup {NoShape}]
  BY <1>1, ArrivalFacts
<1>3. /\ now' = now /\ setting' = setting /\ claimed' = claimed
      /\ checked' = [checked EXCEPT ![r] = TRUE]
  BY DEF CallInternal
<1>4. LimiterOK'
  <2>1. CASE Conclude(r, "401") /\ NotLimited
    BY <1>2, <1>3, <2>1, UnlimitedInv
  <2>2. CASE Capped(r)
    BY <1>2, <1>3, <2>2, CappedInv
  <2>3. CASE pc' = [pc EXCEPT ![r] = "claim"] /\ UNCHANGED answer /\ NotLimited
    <3>1. /\ tat' = tat /\ retry' = retry /\ bucket' = bucket /\ at' = at
          /\ answer' = answer
      BY <2>3 DEF NotLimited
    <3>2. LimiterType'
      BY <1>1, <2>3, <3>1 DEF TypeOK, LimiterType
    <3>3. DebtOK'
      BY <1>3, <3>1 DEF DoorInv, DebtOK, Full, Burst, Period
    <3>4. ASSUME NEW q \in Requests PROVE DoneOK(q)'
      BY <1>1, <1>2, <2>3, <3>1 DEF DoorInv, DoneOK, TypeOK
    <3>5. ASSUME NEW q \in Requests PROVE RefusedOK(q)'
      BY <1>3, <3>1 DEF DoorInv, RefusedOK, Full, Burst, Period
    <3> QED BY <3>2, <3>3, <3>4, <3>5 DEF LimiterOK
  <2> QED BY <2>1, <2>2, <2>3 DEF CallInternal
<1>5. claimed' \subseteq Codes /\ checked' \in [Requests -> BOOLEAN]
  BY <1>1, <1>3 DEF TypeOK
<1> QED BY <1>1, <1>2, <1>3, <1>4, <1>5, RestOfInv

(* Only a request with a valid code waits for its claim. *)
LEMMA ClaimedInv ==
    ASSUME DoorInv, ClaimOK, NEW r \in Requests, Claimed(r)
    PROVE  DoorInv'
<1>1. TypeOK /\ pc[r] = "claim" /\ shape[r].cred \in Codes
  BY DEF DoorInv, Claimed, ClaimOK
<1>2. now' = now /\ setting' = setting /\ shape' = shape /\ checked' = checked
  BY DEF Claimed
<1>3. LimiterOK'
  <2>1. CASE Conclude(r, "401") /\ NotLimited
    BY <1>1, <1>2, <2>1, UnlimitedInv
  <2>2. CASE Capped(r)
    BY <1>1, <1>2, <2>2, CappedInv
  <2> QED BY <2>1, <2>2 DEF Claimed
<1>4. claimed' \subseteq Codes
  BY <1>1 DEF Claimed, TypeOK
<1>5. shape' \in [Requests -> Shapes \cup {NoShape}] /\ checked' \in [Requests -> BOOLEAN]
  BY <1>1, <1>2 DEF TypeOK
<1> QED BY <1>1, <1>2, <1>3, <1>4, <1>5, RestOfInv

(* A call of /metrics. *)
LEMMA CallMetricsInv ==
    ASSUME DoorInv, NEW r \in Requests, NEW sh \in Shapes, CallMetrics(r, sh)
    PROVE  DoorInv'
<1>1. TypeOK /\ Arrives(r, sh, {"/metrics"}) /\ setting.metrics \in BOOLEAN
  BY DoorAssumption DEF DoorInv, CallMetrics, TypeOK
<1>2. pc[r] # "done" /\ shape' \in [Requests -> Shapes \cup {NoShape}]
  BY <1>1, ArrivalFacts
<1>3. /\ now' = now /\ setting' = setting /\ claimed' = claimed /\ NotLimited
      /\ checked' = [checked EXCEPT ![r] = setting.metrics]
  BY DEF CallMetrics
<1>4. \E a \in {"401", "404", "handled"} : Conclude(r, a)
  <2>1. Conclude(r, IF setting.metrics THEN Admission(sh) ELSE "404")
    BY DEF CallMetrics
  <2>2. (IF setting.metrics THEN Admission(sh) ELSE "404") \in {"401", "404", "handled"}
    BY DEF Admission
  <2> QED BY <2>1, <2>2
<1>5. LimiterOK'
  BY <1>2, <1>3, <1>4, UnlimitedInv
<1>6. claimed' \subseteq Codes /\ checked' \in [Requests -> BOOLEAN]
  BY <1>1, <1>3 DEF TypeOK
<1> QED BY <1>1, <1>2, <1>3, <1>5, <1>6, RestOfInv

(* A call without a limit. *)
LEMMA CallOpenInv ==
    ASSUME DoorInv, NEW r \in Requests, NEW sh \in Shapes, CallOpen(r, sh)
    PROVE  DoorInv'
<1>1. TypeOK /\ Arrives(r, sh, Open)
  BY DEF DoorInv, CallOpen
<1>2. pc[r] # "done" /\ shape' \in [Requests -> Shapes \cup {NoShape}]
  BY <1>1, ArrivalFacts
<1>3. /\ now' = now /\ setting' = setting /\ claimed' = claimed /\ checked' = checked
      /\ Conclude(r, "handled") /\ NotLimited
  BY DEF CallOpen
<1>4. LimiterOK'
  BY <1>2, <1>3, UnlimitedInv
<1>5. claimed' \subseteq Codes /\ checked' \in [Requests -> BOOLEAN]
  BY <1>1, <1>3 DEF TypeOK
<1> QED BY <1>1, <1>2, <1>3, <1>4, <1>5, RestOfInv

(* ClaimOK is kept. *)
LEMMA ClaimStep ==
    ASSUME TypeOK, ClaimOK, [Next]_vars
    PROVE  ClaimOK'
<1> USE DEF ClaimOK
<1>1. CASE pc' = pc /\ shape' = shape
  BY <1>1
<1>2. ASSUME NEW r \in Requests, pc' = [pc EXCEPT ![r] = "done"],
             shape' = shape \/ \E sh \in Shapes : shape' = [shape EXCEPT ![r] = sh]
      PROVE  ClaimOK'
  BY <1>2 DEF TypeOK
<1>3. ASSUME NEW r \in Requests, NEW sh \in Shapes, pc' = [pc EXCEPT ![r] = "claim"],
             shape' = [shape EXCEPT ![r] = sh], sh.cred \in Codes
      PROVE  ClaimOK'
  BY <1>3 DEF TypeOK
<1>4. ASSUME NEW r \in Requests, Capped(r) PROVE pc' = [pc EXCEPT ![r] = "done"]
  BY <1>4 DEF Capped, Limit, Conclude
<1>5. CASE Tick \/ Sweep
  BY <1>1, <1>5 DEF Tick, Sweep, requestVars
<1>6. CASE UNCHANGED vars
  BY <1>1, <1>6 DEF vars, requestVars
<1>7. ASSUME NEW r \in Requests, Claimed(r) PROVE ClaimOK'
  <2>1. pc' = [pc EXCEPT ![r] = "done"] /\ shape' = shape
    BY <1>4, <1>7 DEF Claimed, Conclude
  <2> QED BY <1>2, <2>1
<1>8. ASSUME NEW r \in Requests, NEW sh \in Shapes,
             Preflight(r, sh) \/ CallVerify(r, sh) \/ CallMetrics(r, sh) \/ CallOpen(r, sh)
      PROVE  ClaimOK'
  <2>1. pc' = [pc EXCEPT ![r] = "done"]
    BY <1>8 DEF Preflight, CallVerify, CallMetrics, CallOpen, Limit, Conclude
  <2>2. shape' = [shape EXCEPT ![r] = sh]
    BY <1>8 DEF Preflight, CallVerify, CallMetrics, CallOpen, Arrives
  <2> QED BY <1>2, <2>1, <2>2
<1>9. ASSUME NEW r \in Requests, NEW sh \in Shapes, CallInternal(r, sh) PROVE ClaimOK'
  <2>1. shape' = [shape EXCEPT ![r] = sh]
    BY <1>9 DEF CallInternal, Arrives
  <2>2. \/ pc' = [pc EXCEPT ![r] = "done"]
        \/ pc' = [pc EXCEPT ![r] = "claim"] /\ sh.cred \in Codes
    BY <1>4, <1>9 DEF CallInternal, Conclude
  <2> QED BY <1>2, <1>3, <2>1, <2>2
<1> QED BY <1>5, <1>6, <1>7, <1>8, <1>9 DEF Next

(* DoorInv holds for any widths of addresses, proxies, quotas and requests: no
   limiter owes more than its bucket, and every refusal leaves a wait. *)
THEOREM DoorCorrect == Spec => [](DoorInv /\ ClaimOK)
<1>1. Init => DoorInv /\ ClaimOK
  <2>1. Init => ClaimOK
    BY DEF Init, ClaimOK
  <2> QED BY <2>1, InitInv
<1>2. DoorInv /\ ClaimOK /\ [Next]_vars => (DoorInv /\ ClaimOK)'
  <2> SUFFICES ASSUME DoorInv, ClaimOK, [Next]_vars PROVE DoorInv' /\ ClaimOK'
    OBVIOUS
  <2>1. ClaimOK'
    BY ClaimStep DEF DoorInv
  <2>2. CASE UNCHANGED vars
    BY <2>1, <2>2 DEF vars, requestVars, DoorInv, TypeOK, DebtOK, DoneOK, RefusedOK, Full, Burst, Period
  <2>3. CASE Tick \/ Sweep
    BY <2>1, <2>3, TickInv, SweepInv
  <2>4. ASSUME NEW r \in Requests, Claimed(r) PROVE DoorInv'
    BY <2>4, ClaimedInv
  <2>5. ASSUME NEW r \in Requests, NEW sh \in Shapes,
               \/ Preflight(r, sh) \/ CallVerify(r, sh) \/ CallInternal(r, sh)
               \/ CallMetrics(r, sh) \/ CallOpen(r, sh)
        PROVE  DoorInv'
    BY <2>5, PreflightInv, CallVerifyInv, CallInternalInv, CallMetricsInv, CallOpenInv
  <2> QED BY <2>1, <2>2, <2>3, <2>4, <2>5 DEF Next
<1> QED BY <1>1, <1>2, PTL DEF Spec

(* No request is charged to a key that is not one, no wait is negative. *)
THEOREM DoorTypes == Spec => []TypeOK
<1>1. DoorInv => TypeOK
  BY DEF DoorInv
<1> QED BY <1>1, DoorCorrect, PTL

-----------------------------------------------------------------------------
(* Retry-After *)

(* retry_after_secs rounds down, but to a second at least, and no quota refills
   slower than a token a second: who waits that long is let in, unless its own
   bucket was charged in the meantime. *)
THEOREM RetryHonest == Spec => []RetryAfterSuffices
<1>1. DoorInv => RetryAfterSuffices
  <2> SUFFICES ASSUME DoorInv, NEW r \in Requests, answer[r] = "429",
                      now >= at[r] + retry[r] * Second,
                      \A q \in Requests :
                        bucket[q] = bucket[r] /\ answer[q] # "429" => at[q] <= at[r]
               PROVE  Allowed(bucket[r])
    BY DEF RetryAfterSuffices
  <2> DEFINE k == bucket[r]
  <2>1. /\ now \in Nat /\ at \in [Requests -> Nat] /\ retry[r] \in Nat
        /\ tat \in [Keys -> Nat] /\ Second \in Nat
    BY DoorAssumption DEF DoorInv, TypeOK
  <2>2. k \in Keys /\ retry[r] # 0
    BY DEF DoorInv, RefusedOK
  <2>3. tat[k] <= at[r] + Full(k)
    <3>1. ASSUME NEW q \in Requests, bucket[q] = bucket[r], answer[q] # "429", at[q] > at[r]
          PROVE  FALSE
      BY <2>1, <3>1
    <3> QED BY <3>1 DEF DoorInv, RefusedOK
  <2>4. ASSUME NEW n \in Nat, n # 0, NEW s \in Nat PROVE n * s \in Nat /\ s <= n * s
    BY <2>4, SMT
  <2>5. at[r] + Second <= now
    BY <2>1, <2>2, <2>4
  <2>6. /\ Period[k] \in Nat /\ Period[k] <= Second
        /\ Full(k) \in Nat /\ Period[k] <= Full(k) /\ tat[k] \in Nat
    BY <2>1, <2>2, QuotaFacts
  <2> HIDE DEF k
  <2>7. Allowed(k)
    BY <2>1, <2>3, <2>5, <2>6 DEF Allowed, Later
  <2> QED BY <2>7 DEF k
<1> QED BY <1>1, DoorCorrect, PTL

-----------------------------------------------------------------------------
(* The limiters implement the token bucket *)

(* A charge takes a token, a refusal finds none. *)
LEMMA LimitRefines ==
    ASSUME DoorInv, NEW r \in Requests, pc[r] # "done", NEW k \in Keys,
           NEW inner \in {"401", "handled"}, Limit(r, k, inner), now' = now
    PROVE  Bucket!Next
<1>1. /\ now \in Nat /\ tat \in [Keys -> Nat] /\ answer[r] = "none" /\ bucket[r] = NoAddr
      /\ DOMAIN answer = Requests /\ DOMAIN bucket = Requests /\ NoAddr \notin Keys
  BY KeysDistinct DEF DoorInv, TypeOK, DoneOK
<1>2. bucket' = [bucket EXCEPT ![r] = k]
  BY DEF Limit
<1>3. Ruling \in [Requests -> {"none", "admitted", "refused"}] /\ Ruling[r] = "none"
  BY <1>1 DEF Ruling, RulingOf
<1>4. \A c \in Keys : Credit[c] = Full(c) - Owed(c) /\ Full(c) \in Nat /\ Period[c] \in Nat
  BY QuotaFacts DEF Credit
<1>5. CASE Allowed(k)
  <2>1. /\ tat' = [tat EXCEPT ![k] = Later(tat[k], now) + Period[k]]
        /\ answer' = [answer EXCEPT ![r] = inner]
    BY <1>5 DEF Limit, TakeToken, Conclude
  <2>2. Credit[k] >= Period[k]
    BY <1>1, <1>4, <1>5 DEF Allowed, Later, Owed
  <2>3. Credit' = [Credit EXCEPT ![k] = Credit[k] - Period[k]]
    <3>1. Owed(k)' = Owed(k) + Period[k]
      BY <1>1, <1>4, <2>1, QuotaFacts DEF Owed, Later
    <3>2. \A c \in Keys : c # k => Owed(c)' = Owed(c)
      BY <1>1, <2>1 DEF Owed
    <3>3. Credit' = [c \in Keys |-> Full(c) - Owed(c)']
      BY DEF Credit, Full, Burst, Period
    <3>4. Owed(k) \in Int
      BY <1>1 DEF Owed
    <3>5. Full(k) - Owed(k)' = Credit[k] - Period[k]
      BY <1>4, <3>1, <3>4
    <3>6. Credit = [c \in Keys |-> Full(c) - Owed(c)]
      BY DEF Credit
    <3>7. [Credit EXCEPT ![k] = Credit[k] - Period[k]] =
            [c \in Keys |-> IF c = k THEN Credit[k] - Period[k] ELSE Full(c) - Owed(c)]
      BY <3>6
    <3> QED BY <3>2, <3>3, <3>5, <3>7
  <2>4. Ruling' = [Ruling EXCEPT ![r] = "admitted"]
    <3>1. RulingOf(r)' = "admitted"
      BY <1>1, <1>2, <2>1 DEF RulingOf
    <3>2. \A q \in Requests : q # r => RulingOf(q)' = RulingOf(q)
      BY <1>1, <1>2, <2>1 DEF RulingOf
    <3> QED BY <3>1, <3>2 DEF Ruling
  <2>5. Bucket!Admit(r, k)
    BY <1>3, <2>2, <2>3, <2>4 DEF Bucket!Admit
  <2> QED BY <2>5 DEF Bucket!Next
<1>6. CASE ~Allowed(k)
  <2>1. tat' = tat /\ answer' = [answer EXCEPT ![r] = "429"]
    BY <1>6 DEF Limit, Conclude
  <2>2. Credit[k] < Period[k]
    BY <1>1, <1>4, <1>6, QuotaFacts DEF Allowed, Later, Owed
  <2>3. Credit' = Credit
    BY <2>1 DEF Credit, Owed, Full, Burst, Period
  <2>4. Ruling' = [Ruling EXCEPT ![r] = "refused"]
    <3>1. RulingOf(r)' = "refused"
      BY <1>1, <2>1 DEF RulingOf
    <3>2. \A q \in Requests : q # r => RulingOf(q)' = RulingOf(q)
      BY <1>1, <1>2, <2>1 DEF RulingOf
    <3> QED BY <3>1, <3>2 DEF Ruling
  <2>5. Bucket!Refuse(r, k)
    BY <1>3, <2>2, <2>3, <2>4 DEF Bucket!Refuse
  <2> QED BY <2>5 DEF Bucket!Next
<1> QED BY <1>5, <1>6

(* Who meets no limiter takes nothing. *)
LEMMA UnlimitedStutters ==
    ASSUME DoorInv, NEW r \in Requests, pc[r] # "done", now' = now, NotLimited,
           NEW a \in {"401", "404", "cors", "handled"}, Conclude(r, a)
    PROVE  Credit' = Credit /\ Ruling' = Ruling
<1>1. /\ answer' = [answer EXCEPT ![r] = a] /\ tat' = tat /\ bucket' = bucket
      /\ answer[r] = "none" /\ DOMAIN answer = Requests
  BY DEF Conclude, NotLimited, DoorInv, TypeOK, DoneOK
<1>2. Credit' = Credit
  BY <1>1 DEF Credit, Owed, Full, Burst, Period
<1>3. \A q \in Requests : RulingOf(q)' = RulingOf(q)
  BY <1>1 DEF RulingOf
<1> QED BY <1>2, <1>3 DEF Ruling

(* A charge of the cap is a step of a token bucket. *)
LEMMA CappedRefines ==
    ASSUME DoorInv, NEW r \in Requests, pc[r] # "done", now' = now, Capped(r)
    PROVE  Bucket!Next \/ (Credit' = Credit /\ Ruling' = Ruling)
<1>1. CASE setting.internal
  <2>1. Limit(r, Cap, "handled") /\ Cap \in Keys
    BY <1>1, KeysDistinct DEF Capped
  <2> QED BY <2>1, LimitRefines
<1>2. CASE ~setting.internal
  <2>1. Conclude(r, "handled") /\ NotLimited
    BY <1>2 DEF Capped
  <2> QED BY <2>1, UnlimitedStutters
<1> QED BY <1>1, <1>2

(* Every step at the door is a step of the token bucket, or none. *)
LEMMA StepRefines ==
    ASSUME DoorInv, ClaimOK, [Next]_vars
    PROVE  Bucket!Next \/ (Credit' = Credit /\ Ruling' = Ruling)
<1>0. now \in Nat /\ tat \in [Keys -> Nat]
  BY DEF DoorInv, TypeOK
<1>1. CASE UNCHANGED vars
  BY <1>1 DEF vars, requestVars, Credit, Ruling, RulingOf, Owed, Full, Burst, Period
<1>2. CASE Tick
  <2>1. now' = now + 1 /\ tat' = tat /\ answer' = answer /\ bucket' = bucket
    BY <1>2 DEF Tick, requestVars
  <2>2. Ruling' = Ruling
    BY <2>1 DEF Ruling, RulingOf
  <2>3. ASSUME NEW k \in Keys
        PROVE  Full(k) - Owed(k)' =
                 IF Credit[k] < Full(k) THEN Credit[k] + 1 ELSE Credit[k]
    BY <1>0, <2>1, QuotaFacts DEF Owed, Credit
  <2>4. Credit' = [k \in Keys |-> Full(k) - Owed(k)']
    BY DEF Credit, Full, Burst, Period
  <2>5. \A k \in Keys : Bucket!Full(k) = Full(k)
    BY DEF Bucket!Full, Full
  <2>6. Credit' = [k \in Keys |-> IF Credit[k] < Bucket!Full(k) THEN Credit[k] + 1 ELSE Credit[k]]
    BY <2>3, <2>4, <2>5
  <2>7. Bucket!Refill
    BY <2>2, <2>6 DEF Bucket!Refill
  <2> QED BY <2>7 DEF Bucket!Next
<1>3. CASE Sweep
  <2>1. now' = now /\ answer' = answer /\ bucket' = bucket
    BY <1>3 DEF Sweep, requestVars
  <2>2. ASSUME NEW k \in Keys PROVE Owed(k)' = Owed(k)
    BY <1>0, <1>3, <2>1 DEF Sweep, Owed
  <2>3. Credit' = [k \in Keys |-> Full(k) - Owed(k)']
    BY DEF Credit, Full, Burst, Period
  <2>4. Credit' = Credit
    BY <2>2, <2>3 DEF Credit
  <2> QED BY <2>1, <2>4 DEF Ruling, RulingOf
<1>4. ASSUME NEW r \in Requests, Claimed(r)
      PROVE  Bucket!Next \/ (Credit' = Credit /\ Ruling' = Ruling)
  <2>1. now' = now /\ pc[r] # "done"
    BY <1>4 DEF Claimed
  <2>2. Capped(r) \/ (Conclude(r, "401") /\ NotLimited)
    BY <1>4 DEF Claimed
  <2> QED BY <2>1, <2>2, CappedRefines, UnlimitedStutters
<1>5. ASSUME NEW r \in Requests, NEW sh \in Shapes, CallVerify(r, sh)
      PROVE  Bucket!Next \/ (Credit' = Credit /\ Ruling' = Ruling)
  <2>1. now' = now /\ pc[r] # "done"
    BY <1>5 DEF CallVerify, Arrives
  <2>2. Admission(sh) \in {"401", "handled"}
    BY DEF Admission
  <2>3. CASE setting.verify /\ ClientKey(sh) # NoAddr
    <3>1. Limit(r, ClientKey(sh), Admission(sh)) /\ ClientKey(sh) \in Keys
      BY <1>5, <2>3, ClientKeyType DEF CallVerify, Keys
    <3> QED BY <2>1, <2>2, <3>1, LimitRefines
  <2>4. CASE ~(setting.verify /\ ClientKey(sh) # NoAddr)
    <3>1. Conclude(r, Admission(sh)) /\ NotLimited
      BY <1>5, <2>4 DEF CallVerify
    <3> QED BY <2>1, <2>2, <3>1, UnlimitedStutters
  <2> QED BY <2>3, <2>4
<1>6. ASSUME NEW r \in Requests, NEW sh \in Shapes, CallInternal(r, sh)
      PROVE  Bucket!Next \/ (Credit' = Credit /\ Ruling' = Ruling)
  <2>1. now' = now /\ pc[r] # "done"
    BY <1>6 DEF CallInternal, Arrives
  <2>2. CASE Capped(r) \/ (Conclude(r, "401") /\ NotLimited)
    BY <2>1, <2>2, CappedRefines, UnlimitedStutters
  <2>3. CASE UNCHANGED answer /\ NotLimited
    BY <2>1, <2>3 DEF NotLimited, Credit, Ruling, RulingOf, Owed, Full, Burst, Period
  <2> QED BY <1>6, <2>2, <2>3 DEF CallInternal
<1>7. ASSUME NEW r \in Requests, NEW sh \in Shapes,
             Preflight(r, sh) \/ CallMetrics(r, sh) \/ CallOpen(r, sh)
      PROVE  Credit' = Credit /\ Ruling' = Ruling
  <2>1. now' = now /\ pc[r] # "done" /\ NotLimited
    BY <1>7 DEF Preflight, CallMetrics, CallOpen, Arrives
  <2>2. \E a \in {"401", "404", "cors", "handled"} : Conclude(r, a)
    <3>1. (IF setting.metrics THEN Admission(sh) ELSE "404") \in {"401", "404", "handled"}
      BY DEF Admission
    <3> QED BY <1>7, <3>1 DEF Preflight, CallMetrics, CallOpen
  <2> QED BY <2>1, <2>2, UnlimitedStutters
<1> QED BY <1>1, <1>2, <1>3, <1>4, <1>5, <1>6, <1>7 DEF Next

(* The limiters of rate_limit.rs - one table for all addresses, swept now and
   then, and one bucket for the internal endpoints - implement the token bucket
   of TokenBucket, whatever the quotas. *)
THEOREM LimiterRefines == Spec => LimiterIsTokenBucket
<1>1. Init => Bucket!Init
  <2> SUFFICES ASSUME Init PROVE Bucket!Init
    OBVIOUS
  <2>1. ASSUME NEW k \in Keys PROVE Full(k) - Owed(k) = Bucket!Full(k)
    BY QuotaFacts DEF Init, Owed, Bucket!Full, Full
  <2>2. Credit = [k \in Keys |-> Bucket!Full(k)]
    BY <2>1 DEF Credit
  <2>3. Ruling = [r \in Requests |-> "none"]
    BY DEF Init, Ruling, RulingOf
  <2> QED BY <2>2, <2>3 DEF Bucket!Init
<1>2. DoorInv /\ ClaimOK /\ [Next]_vars => [Bucket!Next]_<<Credit, Ruling>>
  BY StepRefines
<1> QED BY <1>1, <1>2, DoorCorrect, PTL DEF Spec, LimiterIsTokenBucket, Bucket!Spec
-----------------------------------------------------------------------------
(* What a bucket has let through *)

(* The requests the bucket of k let through between s and t. *)
Charges(k, s, t) ==
    {q \in Requests : bucket[q] = k /\ answer[q] # "429" /\ at[q] \in s .. t}

(* The tokens taken since s are what the next arrival time has moved on by, at
   most. *)
RunOK(k) ==
    \A s \in 1 .. now :
      Cardinality(Charges(k, s, now)) * Period[k] <= Later(tat[k], now) - s

(* And so no stretch of time sees more than the burst and the refill. *)
StretchOK(k) ==
    \A s, t \in 1 .. now : s <= t =>
      Cardinality(Charges(k, s, t)) * Period[k] <= Full(k) + (t - s)

(* A bucket owes no more than what was taken since it could last be full. *)
SpentOK(k) ==
    \A s \in (now - Full(k)) .. now :
      tat[k] <= s + Full(k) + Cardinality(Charges(k, s + 1, now)) * Period[k]

(* Who is charged, and what for: the cap by requests with valid codes, an address
   that is no proxy's by those who come from it. *)
CallerOK(r) ==
    /\ at[r] <= now
    /\ pc[r] = "idle" => ~checked[r]
    /\ bucket[r] = Cap /\ answer[r] # "429" => answer[r] = "handled" /\ shape[r].cred \in Codes
    /\ /\ setting.verify /\ checked[r] /\ shape[r].path = "/tokens/verify"
       /\ shape[r].peer # NoAddr /\ ~ip_is_trusted(canonical(shape[r].peer), Trusted)
       => bucket[r] = group_v6(canonical(shape[r].peer)) /\ answer[r] # "429"

Met == {r \in Requests : bucket[r] # NoAddr}

CountInv ==
    /\ IsFiniteSet(Met)
    /\ \A r \in Requests : CallerOK(r)
    /\ \A k \in Keys : RunOK(k) /\ StretchOK(k) /\ SpentOK(k)
    /\ CapSpentByValidCodes

(* What it means that RunOK, StretchOK and SpentOK hold after a step. *)
LEMMA CountsAfter ==
    ASSUME NEW k \in Keys
    PROVE  /\ RunOK(k)' <=> \A s \in 1 .. now' :
                Cardinality(Charges(k, s, now)') * Period[k] <= Later(tat'[k], now') - s
           /\ StretchOK(k)' <=> \A s, t \in 1 .. now' : s <= t =>
                Cardinality(Charges(k, s, t)') * Period[k] <= Full(k) + (t - s)
           /\ SpentOK(k)' <=> \A s \in (now' - Full(k)) .. now' :
                tat'[k] <= s + Full(k) + Cardinality(Charges(k, s + 1, now)') * Period[k]
  BY DEF RunOK, StretchOK, SpentOK, Later, Full, Burst, Period

(* The charges of a key in a stretch of time can be counted. *)
LEMMA ChargesFinite ==
    ASSUME IsFiniteSet(Met), NEW k \in Keys, NEW s \in Int, NEW t \in Int
    PROVE  /\ IsFiniteSet(Charges(k, s, t)) /\ Cardinality(Charges(k, s, t)) \in Nat
<1>1. Charges(k, s, t) \subseteq Met
  BY KeysDistinct DEF Charges, Met
<1> QED BY <1>1, FS_Subset, FS_CardinalityType

(* n tokens of a period each. *)
LEMMA TokenTime ==
    ASSUME NEW n \in Nat, NEW p \in Nat
    PROVE  n * p \in Nat /\ (n + 1) * p = n * p + p
  BY SMT

(* A step at which the bucket of k lets nobody through. *)
LEMMA SameCount ==
    ASSUME DoorInv, CountInv, NEW k \in Keys, now' \in {now, now + 1},
           tat'[k] \in Nat, tat'[k] <= tat[k],
           Later(tat'[k], now') >= Later(tat[k], now),
           \A s, t \in Int : Charges(k, s, t)' = Charges(k, s, t)
    PROVE  RunOK(k)' /\ SpentOK(k)'
<1>1. /\ now \in Nat \ {0} /\ tat[k] \in Nat /\ Period[k] \in Nat /\ Full(k) \in Nat
      /\ tat[k] <= now + Full(k) /\ now' \in Int
  BY QuotaFacts DEF DoorInv, TypeOK, DebtOK
<1>2. ASSUME NEW s \in Int PROVE Charges(k, s, now)' = Charges(k, s, now)
  <2>1. Charges(k, s, now)' = {q \in Requests : bucket'[q] = k /\ answer'[q] # "429" /\ at'[q] \in s .. now'}
    BY DEF Charges
  <2>2. PICK t \in Int : t = now'
    BY <1>1
  <2>3. Charges(k, s, t)' = {q \in Requests : bucket'[q] = k /\ answer'[q] # "429" /\ at'[q] \in s .. t}
    BY DEF Charges
  <2>4. Charges(k, s, now)' = Charges(k, s, t)
    BY <2>1, <2>2, <2>3
  <2>5. \A q \in Requests : at[q] \in Nat /\ at[q] <= now
    BY DEF CountInv, CallerOK, DoorInv, TypeOK
  <2>6. \A q \in Requests : at[q] \in s .. t <=> at[q] \in s .. now
    BY <1>1, <2>2, <2>5
  <2> QED BY <2>4, <2>6 DEF Charges
<1>3. ASSUME NEW s \in Int
      PROVE  /\ Cardinality(Charges(k, s, now)) \in Nat
             /\ Cardinality(Charges(k, s, now)) * Period[k] \in Nat
             /\ s > now => Cardinality(Charges(k, s, now)) * Period[k] = 0
  <2>1. Cardinality(Charges(k, s, now)) \in Nat
    BY <1>1, ChargesFinite DEF CountInv
  <2>2. ASSUME s > now PROVE Cardinality(Charges(k, s, now)) * Period[k] = 0
    <3>1. Charges(k, s, now) = {}
      BY <1>1, <2>2 DEF Charges, DoorInv, TypeOK
    <3>2. Cardinality(Charges(k, s, now)) = 0
      BY <3>1, FS_EmptySet
    <3> QED BY <1>1, <3>2
  <2> QED BY <1>1, <2>1, <2>2, TokenTime
<1>4. ASSUME NEW s \in 1 .. now'
      PROVE  Cardinality(Charges(k, s, now)') * Period[k] <= Later(tat'[k], now') - s
  <2> DEFINE c == Cardinality(Charges(k, s, now)) * Period[k]
  <2>1. Cardinality(Charges(k, s, now)') * Period[k] = c /\ c \in Nat /\ (s > now => c = 0)
    BY <1>2, <1>3
  <2>2. s <= now => c <= Later(tat[k], now) - s
    BY <1>1 DEF CountInv, RunOK
  <2> HIDE DEF c
  <2> QED BY <1>1, <2>1, <2>2 DEF Later
<1>5. ASSUME NEW s \in (now' - Full(k)) .. now'
      PROVE  tat'[k] <= s + Full(k) + Cardinality(Charges(k, s + 1, now)') * Period[k]
  <2> DEFINE c == Cardinality(Charges(k, s + 1, now)) * Period[k]
  <2>1. s \in Int /\ s + 1 \in Int
    BY <1>1
  <2>2. Cardinality(Charges(k, s + 1, now)') * Period[k] = c /\ c \in Nat
    BY <1>2, <1>3, <2>1
  <2>3. s <= now => tat[k] <= s + Full(k) + c
    <3>1. s <= now => s \in (now - Full(k)) .. now
      BY <1>1
    <3> QED BY <3>1 DEF CountInv, SpentOK
  <2> HIDE DEF c
  <2>4. CASE s <= now
    BY <1>1, <2>1, <2>2, <2>3, <2>4
  <2>5. CASE s > now
    BY <1>1, <2>1, <2>2, <2>5
  <2> QED BY <1>1, <2>1, <2>4, <2>5
<1> QED BY <1>4, <1>5, CountsAfter

(* A limiter lets r through, on the bucket of k. *)
Charge(r, k) ==
    /\ now' = now /\ answer[r] = "none" /\ bucket[r] = NoAddr /\ Allowed(k)
    /\ tat' = [tat EXCEPT ![k] = Later(tat[k], now) + Period[k]]
    /\ bucket' = [bucket EXCEPT ![r] = k]
    /\ at' = [at EXCEPT ![r] = now]
    /\ \E a \in {"401", "handled"} : answer' = [answer EXCEPT ![r] = a]

(* A limiter refuses r. *)
Refusal(r, k) ==
    /\ now' = now /\ answer[r] = "none" /\ bucket[r] = NoAddr /\ ~Allowed(k) /\ tat' = tat
    /\ bucket' = [bucket EXCEPT ![r] = k]
    /\ at' = [at EXCEPT ![r] = now]
    /\ answer' = [answer EXCEPT ![r] = "429"]

(* No limiter is asked. *)
Quiet ==
    /\ now' = now /\ tat' = tat /\ bucket' = bucket /\ at' = at
    /\ \A q \in Requests : bucket[q] # NoAddr => answer'[q] = answer[q]

(* A charge is one more in the stretches that hold the present. *)
LEMMA ChargeMoves ==
    ASSUME DoorInv, NEW r \in Requests, NEW k \in Keys, Charge(r, k),
           NEW c \in Keys, NEW s \in Int, NEW t \in Int
    PROVE  /\ c = k /\ now \in s .. t => Charges(c, s, t)' = Charges(c, s, t) \cup {r}
           /\ ~(c = k /\ now \in s .. t) => Charges(c, s, t)' = Charges(c, s, t)
           /\ r \notin Charges(c, s, t)
<1>1. /\ bucket \in [Requests -> Keys \cup {NoAddr}] /\ at \in [Requests -> Nat]
      /\ DOMAIN answer = Requests /\ NoAddr \notin Keys
  BY KeysDistinct DEF DoorInv, TypeOK
<1>2. PICK a \in {"401", "handled"} : answer' = [answer EXCEPT ![r] = a]
  BY DEF Charge
<1>3. /\ bucket[r] = NoAddr /\ bucket' = [bucket EXCEPT ![r] = k] /\ at' = [at EXCEPT ![r] = now]
  BY DEF Charge
<1>4. Charges(c, s, t)' = {q \in Requests : bucket'[q] = c /\ answer'[q] # "429" /\ at'[q] \in s .. t}
  BY DEF Charges
<1>5. \A q \in Requests : q # r => bucket'[q] = bucket[q] /\ answer'[q] = answer[q] /\ at'[q] = at[q]
  BY <1>1, <1>2, <1>3
<1>6. bucket'[r] = k /\ answer'[r] # "429" /\ at'[r] = now
  BY <1>1, <1>2, <1>3
<1>7. r \notin Charges(c, s, t)
  BY <1>1, <1>3 DEF Charges
<1> QED BY <1>4, <1>5, <1>6, <1>7 DEF Charges

(* No other step adds a charge. *)
LEMMA RefusalMoves ==
    ASSUME DoorInv, Quiet \/ \E r \in Requests, k \in Keys : Refusal(r, k),
           NEW c \in Keys, NEW s \in Int, NEW t \in Int
    PROVE  Charges(c, s, t)' = Charges(c, s, t)
<1>1. /\ bucket \in [Requests -> Keys \cup {NoAddr}] /\ at \in [Requests -> Nat]
      /\ DOMAIN answer = Requests /\ NoAddr \notin Keys
  BY KeysDistinct DEF DoorInv, TypeOK
<1>2. Charges(c, s, t)' = {q \in Requests : bucket'[q] = c /\ answer'[q] # "429" /\ at'[q] \in s .. t}
  BY DEF Charges
<1>3. CASE Quiet
  BY <1>1, <1>2, <1>3 DEF Quiet, Charges
<1>4. ASSUME NEW r \in Requests, NEW k \in Keys, Refusal(r, k)
      PROVE  Charges(c, s, t)' = Charges(c, s, t)
  BY <1>1, <1>2, <1>4 DEF Refusal, Charges
<1> QED BY <1>3, <1>4

(* A token is taken: one more request, one more period. *)
LEMMA ChargeCount ==
    ASSUME DoorInv, CountInv, NEW r \in Requests, NEW k \in Keys, Charge(r, k)
    PROVE  RunOK(k)' /\ SpentOK(k)'
<1> DEFINE P == Period[k]
           N(s) == Cardinality(Charges(k, s, now))
<1>1. /\ now \in Nat \ {0} /\ tat[k] \in Nat /\ P \in Nat /\ Full(k) \in Nat
      /\ now' = now /\ tat'[k] = Later(tat[k], now) + P
      /\ Later(tat[k], now) + P <= now + Full(k)
  BY QuotaFacts DEF DoorInv, TypeOK, Charge, Allowed
<1>2. ASSUME NEW s \in Int
      PROVE  /\ N(s) \in Nat /\ N(s) * P \in Nat
             /\ s <= now => Cardinality(Charges(k, s, now)') * P = N(s) * P + P
             /\ s > now => Cardinality(Charges(k, s, now)') * P = N(s) * P
  <2>1. IsFiniteSet(Charges(k, s, now)) /\ N(s) \in Nat
    BY <1>1, ChargesFinite DEF CountInv
  <2>2. r \notin Charges(k, s, now)
    BY <1>1, ChargeMoves
  <2>3. Charges(k, s, now)' = IF s <= now THEN Charges(k, s, now) \cup {r} ELSE Charges(k, s, now)
    <3>1. PICK t \in Int : t = now
      BY <1>1
    <3>2. Charges(k, s, t)' = Charges(k, s, now)'
      BY <1>1, <3>1 DEF Charges
    <3>3. now \in s .. t <=> s <= now
      BY <1>1, <3>1
    <3> QED BY <3>1, <3>2, <3>3, ChargeMoves
  <2>4. s <= now => Cardinality(Charges(k, s, now)') = N(s) + 1
    BY <2>1, <2>2, <2>3, FS_AddElement
  <2>5. N(s) * P \in Nat /\ (N(s) + 1) * P = N(s) * P + P
    <3> HIDE DEF P, N
    <3> QED BY <1>1, <2>1, TokenTime
  <2> QED BY <1>1, <2>1, <2>3, <2>4, <2>5
<1>3. ASSUME NEW s \in 1 .. now'
      PROVE  Cardinality(Charges(k, s, now)') * P <= Later(tat'[k], now') - s
  <2>1. s \in Int /\ s \in 1 .. now
    BY <1>1
  <2>2. N(s) * P <= Later(tat[k], now) - s
    BY <2>1 DEF CountInv, RunOK
  <2>3. PICK n \in Nat : n = N(s) * P /\ Cardinality(Charges(k, s, now)') * P = n + P
    BY <1>1, <1>2, <2>1
  <2>4. n <= Later(tat[k], now) - s
    BY <2>2, <2>3
  <2> HIDE DEF P, N
  <2>5. n + P <= Later(tat'[k], now') - s
    BY <1>1, <2>1, <2>4 DEF Later
  <2> QED BY <2>3, <2>5
<1>4. ASSUME NEW s \in (now' - Full(k)) .. now'
      PROVE  tat'[k] <= s + Full(k) + Cardinality(Charges(k, s + 1, now)') * P
  <2>1. s \in Int /\ s + 1 \in Int /\ s \in (now - Full(k)) .. now
    BY <1>1
  <2>2. tat[k] <= s + Full(k) + N(s + 1) * P
    BY <2>1 DEF CountInv, SpentOK
  <2>3. PICK n \in Nat : n = N(s + 1) * P
    BY <1>2, <2>1
  <2>4. tat[k] <= s + Full(k) + n
    BY <2>2, <2>3
  <2>5. PICK m \in Nat : m = Cardinality(Charges(k, s + 1, now)') * P /\ m = IF s < now THEN n + P ELSE n
    BY <1>1, <1>2, <2>1, <2>3
  <2> HIDE DEF P, N
  <2>6. tat'[k] <= s + Full(k) + m
    BY <1>1, <2>1, <2>4, <2>5 DEF Later
  <2> QED BY <2>5, <2>6
<1> QED BY <1>3, <1>4, CountsAfter

(* What was decided in the past stays, and the present is within the debt. *)
LEMMA StretchStep ==
    ASSUME DoorInv, DoorInv', IsFiniteSet(Met'), NEW k \in Keys, StretchOK(k), RunOK(k)',
           now' \in {now, now + 1},
           \A s, t \in Int : t < now' => Charges(k, s, t)' = Charges(k, s, t)
    PROVE  StretchOK(k)'
<1>1. /\ now \in Nat \ {0} /\ now' \in Nat /\ tat'[k] \in Nat /\ Full(k) \in Nat
      /\ tat'[k] <= now' + Full(k)
  BY QuotaFacts DEF DoorInv, TypeOK, DebtOK, Full, Burst, Period
<1> SUFFICES ASSUME NEW s \in 1 .. now', NEW t \in 1 .. now', s <= t
             PROVE  Cardinality(Charges(k, s, t)') * Period[k] <= Full(k) + (t - s)
  BY CountsAfter
<1>2. CASE t = now'
  <2>1. Charges(k, s, t)' = Charges(k, s, now)'
    BY <1>2 DEF Charges
  <2>2. Cardinality(Charges(k, s, now)') * Period[k] <= Later(tat'[k], now') - s
    BY CountsAfter
  <2>3. Later(tat'[k], now') - s <= Full(k) + (t - s)
    BY <1>1, <1>2 DEF Later
  <2>4. Cardinality(Charges(k, s, t)') * Period[k] <= Later(tat'[k], now') - s
    BY <2>1, <2>2
  <2>5. Later(tat'[k], now') - s \in Int /\ Full(k) + (t - s) \in Int
    BY <1>1 DEF Later
  <2>6. Cardinality(Charges(k, s, t)') * Period[k] \in Int
    <3>1. Cardinality(Charges(k, s, t)') \in Nat
      <4>1. Charges(k, s, t)' \subseteq Met'
        BY KeysDistinct DEF Charges, Met
      <4> QED BY <4>1, FS_Subset, FS_CardinalityType
    <3> QED BY <3>1, QuotaFacts, TokenTime
  <2> QED BY <2>3, <2>4, <2>5, <2>6
<1>3. CASE t # now'
  <2>1. s \in 1 .. now /\ t \in 1 .. now /\ t < now' /\ t \in Int /\ s \in Int
    BY <1>1, <1>3
  <2>2. Charges(k, s, t)' = Charges(k, s, t)
    BY <2>1
  <2> QED BY <2>1, <2>2 DEF StretchOK
<1> QED BY <1>2, <1>3

(* Only r is concerned. *)
Others(r) ==
    /\ pc[r] # "done"
    /\ \A q \in Requests : q # r =>
         /\ pc'[q] = pc[q] /\ shape'[q] = shape[q] /\ answer'[q] = answer[q]
         /\ bucket'[q] = bucket[q] /\ checked'[q] = checked[q] /\ at'[q] = at[q]

(* A limited request is charged or refused. *)
LEMMA LimitKinds ==
    ASSUME DoorInv, NEW r \in Requests, pc[r] # "done", NEW k \in Keys,
           NEW inner \in {"401", "handled"}, Limit(r, k, inner), now' = now
    PROVE  Charge(r, k) \/ Refusal(r, k)
<1>1. answer[r] = "none" /\ bucket[r] = NoAddr
  BY DEF DoorInv, DoneOK
<1> QED BY <1>1 DEF Limit, TakeToken, Conclude, Charge, Refusal

(* A request that is not limited leaves the buckets alone. *)
LEMMA UnlimitedKind ==
    ASSUME DoorInv, NEW r \in Requests, pc[r] # "done", now' = now, NotLimited,
           NEW a, Conclude(r, a) \/ UNCHANGED answer
    PROVE  Quiet
<1>1. bucket[r] = NoAddr /\ DOMAIN answer = Requests
  BY DEF DoorInv, DoneOK, TypeOK
<1> QED BY <1>1 DEF NotLimited, Conclude, Quiet

(* The cap is charged, refuses, or is switched off. *)
LEMMA CappedKinds ==
    ASSUME DoorInv, NEW r \in Requests, pc[r] # "done", now' = now, Capped(r)
    PROVE  Charge(r, Cap) \/ Refusal(r, Cap) \/ Quiet
<1>1. CASE setting.internal
  BY <1>1, KeysDistinct, LimitKinds DEF Capped
<1>2. CASE ~setting.internal
  BY <1>2, UnlimitedKind DEF Capped
<1> QED BY <1>1, <1>2

(* Every step is the clock's, the sweep's, or about one request, which a limiter
   lets through, refuses, or does not meet. *)
LEMMA StepKinds ==
    ASSUME DoorInv, [Next]_vars
    PROVE  \/ Tick \/ Sweep \/ Quiet
           \/ \E r \in Requests, k \in Keys : Charge(r, k) \/ Refusal(r, k)
<1>1. CASE UNCHANGED vars
  BY <1>1 DEF vars, requestVars, Quiet
<1>2. ASSUME NEW r \in Requests, Claimed(r)
      PROVE  Charge(r, Cap) \/ Refusal(r, Cap) \/ Quiet
  <2>1. now' = now /\ pc[r] # "done"
    BY <1>2 DEF Claimed
  <2>2. Capped(r) \/ (Conclude(r, "401") /\ NotLimited)
    BY <1>2 DEF Claimed
  <2> QED BY <2>1, <2>2, CappedKinds, UnlimitedKind
<1>3. ASSUME NEW r \in Requests, NEW sh \in Shapes, CallVerify(r, sh)
      PROVE  Quiet \/ \E k \in Keys : Charge(r, k) \/ Refusal(r, k)
  <2>1. now' = now /\ pc[r] # "done" /\ Admission(sh) \in {"401", "handled"}
    BY <1>3 DEF CallVerify, Arrives, Admission
  <2>2. CASE setting.verify /\ ClientKey(sh) # NoAddr
    <3>1. Limit(r, ClientKey(sh), Admission(sh)) /\ ClientKey(sh) \in Keys
      BY <1>3, <2>2, ClientKeyType DEF CallVerify, Keys
    <3> QED BY <2>1, <3>1, LimitKinds
  <2>3. CASE ~(setting.verify /\ ClientKey(sh) # NoAddr)
    <3>1. Conclude(r, Admission(sh)) /\ NotLimited
      BY <1>3, <2>3 DEF CallVerify
    <3> QED BY <2>1, <3>1, UnlimitedKind
  <2> QED BY <2>2, <2>3
<1>4. ASSUME NEW r \in Requests, NEW sh \in Shapes, CallInternal(r, sh)
      PROVE  Charge(r, Cap) \/ Refusal(r, Cap) \/ Quiet
  <2>1. now' = now /\ pc[r] # "done"
    BY <1>4 DEF CallInternal, Arrives
  <2>2. Capped(r) \/ (NotLimited /\ (Conclude(r, "401") \/ UNCHANGED answer))
    BY <1>4 DEF CallInternal
  <2> QED BY <2>1, <2>2, CappedKinds, UnlimitedKind
<1>5. ASSUME NEW r \in Requests, NEW sh \in Shapes,
             Preflight(r, sh) \/ CallMetrics(r, sh) \/ CallOpen(r, sh)
      PROVE  Quiet
  <2>1. now' = now /\ pc[r] # "done" /\ NotLimited
    BY <1>5 DEF Preflight, CallMetrics, CallOpen, Arrives
  <2>2. \E a : Conclude(r, a)
    BY <1>5 DEF Preflight, CallMetrics, CallOpen
  <2> QED BY <2>1, <2>2, UnlimitedKind
<1> QED BY <1>1, <1>2, <1>3, <1>4, <1>5, KeysDistinct DEF Next

(* A limiter, or none, changes what is known of its own request alone. *)
LEMMA OnlyOwn ==
    ASSUME TypeOK, NEW r \in Requests, pc[r] # "done",
           shape' = shape \/ \E sh : shape' = [shape EXCEPT ![r] = sh],
           checked' = checked \/ \E b : checked' = [checked EXCEPT ![r] = b],
           answer' = answer \/ \E a : answer' = [answer EXCEPT ![r] = a],
           \E p : pc' = [pc EXCEPT ![r] = p],
           \/ bucket' = bucket /\ at' = at
           \/ \E k : bucket' = [bucket EXCEPT ![r] = k] /\ at' = [at EXCEPT ![r] = now]
    PROVE  Others(r)
  BY DEF TypeOK, Others

(* A step writes only what is noted of its own request. *)
LEMMA LimitOwn ==
    ASSUME TypeOK, NEW r \in Requests, pc[r] # "done", NEW k, NEW inner,
           NEW a, Limit(r, k, inner) \/ Capped(r) \/ (Conclude(r, a) /\ NotLimited)
    PROVE  /\ \E b : answer' = [answer EXCEPT ![r] = b]
           /\ \E p : pc' = [pc EXCEPT ![r] = p]
           /\ \/ bucket' = bucket /\ at' = at
              \/ \E c : bucket' = [bucket EXCEPT ![r] = c] /\ at' = [at EXCEPT ![r] = now]
<1>1. CASE Conclude(r, a) /\ NotLimited
  BY <1>1 DEF Conclude, NotLimited
<1>2. CASE \E c, b : Limit(r, c, b)
  BY <1>2 DEF Limit, Conclude
<1>3. CASE Conclude(r, "handled") /\ NotLimited
  BY <1>3 DEF Conclude, NotLimited
<1> QED BY <1>1, <1>2, <1>3 DEF Capped

(* So every step has one request, or none. *)
LEMMA StepOwner ==
    ASSUME TypeOK, [Next]_vars
    PROVE  UNCHANGED requestVars \/ \E r \in Requests : Others(r)
<1>1. CASE UNCHANGED vars \/ Tick \/ Sweep
  BY <1>1 DEF vars, Tick, Sweep
<1>2. ASSUME NEW r \in Requests, Claimed(r) PROVE Others(r)
  <2>1. pc[r] # "done" /\ shape' = shape /\ checked' = checked
    BY <1>2 DEF Claimed
  <2>2. Capped(r) \/ (Conclude(r, "401") /\ NotLimited)
    BY <1>2 DEF Claimed
  <2>3. /\ \E b : answer' = [answer EXCEPT ![r] = b]
        /\ \E p : pc' = [pc EXCEPT ![r] = p]
        /\ \/ bucket' = bucket /\ at' = at
           \/ \E c : bucket' = [bucket EXCEPT ![r] = c] /\ at' = [at EXCEPT ![r] = now]
    BY <2>1, <2>2, LimitOwn
  <2> QED BY <2>1, <2>3, OnlyOwn
<1>3. ASSUME NEW r \in Requests, NEW sh \in Shapes,
             \/ Preflight(r, sh) \/ CallVerify(r, sh) \/ CallMetrics(r, sh) \/ CallOpen(r, sh)
      PROVE  Others(r)
  <2>1. pc[r] # "done" /\ shape' = [shape EXCEPT ![r] = sh]
    BY <1>3 DEF Preflight, CallVerify, CallMetrics, CallOpen, Arrives
  <2>2. checked' = checked \/ \E b : checked' = [checked EXCEPT ![r] = b]
    BY <1>3 DEF Preflight, CallVerify, CallMetrics, CallOpen
  <2>3. \E k, inner : Limit(r, k, inner) \/ (Conclude(r, inner) /\ NotLimited)
    BY <1>3 DEF Preflight, CallVerify, CallMetrics, CallOpen
  <2>4. /\ \E b : answer' = [answer EXCEPT ![r] = b]
        /\ \E p : pc' = [pc EXCEPT ![r] = p]
        /\ \/ bucket' = bucket /\ at' = at
           \/ \E c : bucket' = [bucket EXCEPT ![r] = c] /\ at' = [at EXCEPT ![r] = now]
    BY <2>1, <2>3, LimitOwn
  <2> QED BY <2>1, <2>2, <2>4, OnlyOwn
<1>4. ASSUME NEW r \in Requests, NEW sh \in Shapes, CallInternal(r, sh) PROVE Others(r)
  <2>1. pc[r] # "done" /\ shape' = [shape EXCEPT ![r] = sh] /\ checked' = [checked EXCEPT ![r] = TRUE]
    BY <1>4 DEF CallInternal, Arrives
  <2>2. CASE Capped(r) \/ (Conclude(r, "401") /\ NotLimited)
    <3>1. /\ \E b : answer' = [answer EXCEPT ![r] = b]
          /\ \E p : pc' = [pc EXCEPT ![r] = p]
          /\ \/ bucket' = bucket /\ at' = at
             \/ \E c : bucket' = [bucket EXCEPT ![r] = c] /\ at' = [at EXCEPT ![r] = now]
      BY <2>1, <2>2, LimitOwn
    <3> QED BY <2>1, <3>1, OnlyOwn
  <2>3. CASE pc' = [pc EXCEPT ![r] = "claim"] /\ UNCHANGED answer /\ NotLimited
    BY <2>1, <2>3, OnlyOwn DEF NotLimited
  <2> QED BY <1>4, <2>2, <2>3 DEF CallInternal
<1> QED BY <1>1, <1>2, <1>3, <1>4 DEF Next

(* What a limiter has decided is final. *)
LEMMA MetStays ==
    ASSUME DoorInv, [Next]_vars, NEW q \in Requests, bucket[q] # NoAddr
    PROVE  /\ bucket'[q] = bucket[q] /\ answer'[q] = answer[q] /\ at'[q] = at[q]
           /\ shape'[q] = shape[q]
<1>1. pc[q] = "done"
  BY DEF DoorInv, DoneOK
<1>2. CASE UNCHANGED requestVars
  BY <1>2 DEF requestVars
<1>3. CASE \E r \in Requests : Others(r)
  BY <1>1, <1>3 DEF Others
<1> QED BY <1>2, <1>3, StepOwner DEF DoorInv

(* Every step brings at most one request to a limiter. *)
LEMMA MetStep ==
    ASSUME DoorInv, IsFiniteSet(Met), [Next]_vars
    PROVE  IsFiniteSet(Met')
<1>1. ASSUME NEW r \in Requests, Others(r) PROVE IsFiniteSet(Met')
  <2>1. Met' \subseteq Met \cup {r}
    BY <1>1 DEF Met, Others
  <2>2. IsFiniteSet(Met \cup {r})
    BY FS_AddElement
  <2> QED BY <2>1, <2>2, FS_Subset
<1>2. CASE UNCHANGED requestVars
  BY <1>2 DEF Met, requestVars
<1> QED BY <1>1, <1>2, StepOwner DEF DoorInv

(* The cap refuses only after a whole burst. *)
LEMMA RefusalSpent ==
    ASSUME DoorInv, CountInv, NEW k \in Keys, ~Allowed(k)
    PROVE  Cardinality(Charges(k, now - Full(k) + 1, now)) >= Burst[k]
<1> DEFINE N == Cardinality(Charges(k, now - Full(k) + 1, now))
           P == Period[k]
           B == Burst[k]
<1>1. /\ now \in Nat \ {0} /\ tat[k] \in Nat /\ P \in Nat /\ Full(k) \in Nat /\ P <= Full(k)
  BY QuotaFacts DEF DoorInv, TypeOK
<1>2. B \in Nat /\ Full(k) = B * P
  <2>1. \A n : n \in Nat => AtLeastOne(n) \in Nat
    BY DEF AtLeastOne
  <2> QED BY <2>1, DoorAssumption DEF Full, Burst, QuotaOf, InternalQuota, VerifyQuota, quota
<1>3. N \in Nat
  BY <1>1, ChargesFinite DEF CountInv
<1>4. tat[k] <= now - Full(k) + Full(k) + N * P
  <2>1. now - Full(k) \in (now - Full(k)) .. now
    BY <1>1
  <2> QED BY <2>1 DEF CountInv, SpentOK
<1>5. tat[k] + P > now + Full(k)
  BY <1>1 DEF Allowed, Later
<1> HIDE DEF N, P, B
<1>6. N * P \in Nat /\ (N + 1) * P = N * P + P
  BY <1>1, <1>3, TokenTime
<1>7. N * P + P > B * P
  <2>1. PICK n \in Nat : n = N * P
    BY <1>6
  <2>2. PICK f \in Nat : f = B * P /\ f = Full(k)
    BY <1>1, <1>2
  <2>3. n + P > f
    BY <1>1, <1>4, <1>5, <2>1, <2>2
  <2> QED BY <2>1, <2>2, <2>3
<1>8. ASSUME N + 1 <= B PROVE FALSE
  <2>1. \A a, b, c \in Nat : a <= b => a * c <= b * c
    BY SMT
  <2>2. (N + 1) * P <= B * P
    BY <1>1, <1>2, <1>3, <1>8, <2>1
  <2>3. PICK n \in Nat, f \in Nat : n = N * P /\ f = B * P
    BY <1>1, <1>2, <1>6
  <2> QED BY <1>1, <1>6, <1>7, <2>2, <2>3
<1>9. N >= B
  BY <1>2, <1>3, <1>8
<1> QED BY <1>9 DEF N, B

(* Those the cap let through since its bucket could last have been full. *)
Spenders(r) ==
    {q \in Requests :
       /\ bucket[q] = Cap /\ answer[q] = "handled" /\ shape[q].cred \in Codes
       /\ at[q] <= at[r] /\ at[r] < at[q] + Full(Cap)}

(* The cap is spent by valid codes only, after every step. *)
LEMMA SpendersStep ==
    ASSUME DoorInv, DoorInv', CountInv, [Next]_vars
    PROVE  CapSpentByValidCodes'
<1>1. /\ Cap \in Keys /\ NoAddr # Cap /\ Full(Cap) \in Nat /\ now \in Nat
      /\ at \in [Requests -> Nat] /\ Burst[Cap] \in Nat
  <2>1. \A n : n \in Nat => AtLeastOne(n) \in Nat
    BY DEF AtLeastOne
  <2>2. Burst[Cap] \in Nat
    BY <2>1, KeysDistinct, DoorAssumption DEF Burst, QuotaOf, InternalQuota, VerifyQuota, quota
  <2> QED BY <2>2, KeysDistinct, QuotaFacts DEF DoorInv, TypeOK
<1> SUFFICES ASSUME NEW r \in Requests, answer'[r] = "429", bucket'[r] = Cap
             PROVE  Cardinality(Spenders(r)') >= Burst[Cap]
  BY DEF CapSpentByValidCodes, Spenders, Burst
<1>2. Spenders(r)' = {q \in Requests :
           /\ bucket'[q] = Cap /\ answer'[q] = "handled" /\ shape'[q].cred \in Codes
           /\ at'[q] <= at'[r] /\ at'[r] < at'[q] + Full(Cap)}
  BY DEF Spenders, Full, Burst, Period
<1>3. IsFiniteSet(Spenders(r)')
  <2>1. Spenders(r)' \subseteq Met'
    BY <1>1, <1>2 DEF Met
  <2> QED BY <2>1, MetStep, FS_Subset DEF CountInv
<1>4. ASSUME NEW S, S \subseteq Spenders(r)', Cardinality(S) >= Burst[Cap]
      PROVE  Cardinality(Spenders(r)') >= Burst[Cap]
  <2>1. /\ Cardinality(S) <= Cardinality(Spenders(r)') /\ Cardinality(S) \in Nat
        /\ Cardinality(Spenders(r)') \in Nat
    BY <1>3, <1>4, FS_Subset, FS_CardinalityType
  <2> QED BY <1>1, <1>4, <2>1
<1>5. CASE bucket[r] # NoAddr
  <2>1. answer[r] = "429" /\ bucket[r] = Cap /\ at'[r] = at[r]
    BY <1>5, MetStays
  <2>2. Cardinality(Spenders(r)) >= Burst[Cap]
    BY <2>1 DEF CountInv, CapSpentByValidCodes, Spenders
  <2>3. Spenders(r) \subseteq Spenders(r)'
    BY <1>1, <1>2, <2>1, MetStays DEF Spenders
  <2> QED BY <1>4, <2>2, <2>3
<1>6. CASE bucket[r] = NoAddr
  <2>1. DOMAIN bucket = Requests /\ DOMAIN answer = Requests /\ DOMAIN at = Requests
    BY DEF DoorInv, TypeOK
  <2>2. Refusal(r, Cap)
    <3>1. ~Tick /\ ~Sweep /\ ~Quiet
      BY <1>1, <1>6 DEF Tick, Sweep, requestVars, Quiet
    <3>2. PICK q \in Requests, k \in Keys : Charge(q, k) \/ Refusal(q, k)
      BY <3>1, StepKinds
    <3>3. q = r /\ k = Cap
      BY <1>1, <1>6, <2>1, <3>2 DEF Charge, Refusal
    <3>4. ~Charge(r, Cap)
      BY <2>1 DEF Charge
    <3> QED BY <3>2, <3>3, <3>4
  <2>3. ~Allowed(Cap) /\ at'[r] = now
    BY <2>1, <2>2 DEF Refusal
  <2> DEFINE S == Charges(Cap, now - Full(Cap) + 1, now)
  <2>4. Cardinality(S) >= Burst[Cap]
    BY <1>1, <2>3, RefusalSpent
  <2>5. S \subseteq Spenders(r)'
    <3> SUFFICES ASSUME NEW q \in S PROVE q \in Spenders(r)'
      OBVIOUS
    <3>1. /\ q \in Requests /\ bucket[q] = Cap /\ answer[q] # "429"
          /\ at[q] \in (now - Full(Cap) + 1) .. now
      BY DEF Charges
    <3>2. answer[q] = "handled" /\ shape[q].cred \in Codes
      BY <3>1 DEF CountInv, CallerOK
    <3>3. bucket'[q] = Cap /\ answer'[q] = "handled" /\ shape'[q] = shape[q] /\ at'[q] = at[q]
      BY <1>1, <3>1, <3>2, MetStays
    <3>4. at'[q] <= at'[r] /\ at'[r] < at'[q] + Full(Cap)
      BY <1>1, <2>3, <3>1, <3>3
    <3> QED BY <1>2, <3>1, <3>2, <3>3, <3>4
  <2> HIDE DEF S
  <2> QED BY <1>4, <2>4, <2>5
<1> QED BY <1>5, <1>6

(* resolve_key_ip: a peer that is no trusted proxy is charged itself, whatever
   its header says. *)
LEMMA UntrustedKey ==
    ASSUME NEW sh \in Shapes, sh.peer # NoAddr, ~ip_is_trusted(canonical(sh.peer), Trusted)
    PROVE  ClientKey(sh) = group_v6(canonical(sh.peer)) /\ ClientKey(sh) \in ClientKeys
<1>1. sh.peer \in Addresses
  BY DoorAssumption DEF ShapeType
<1> QED BY <1>1 DEF ClientKey, resolve_key_ip, ClientKeys

(* CallerOK is kept. *)
LEMMA CallersStep ==
    ASSUME DoorInv, DoorInv', ClaimOK, CountInv, [Next]_vars
    PROVE  \A q \in Requests : CallerOK(q)'
<1>0. /\ TypeOK /\ TypeOK' /\ now \in Nat /\ \A q \in Requests : CallerOK(q)
      /\ NoAddr \notin Keys /\ NoAddr \notin ClientKeys /\ Cap \notin ClientKeys /\ Cap \in Keys
      /\ ClientKeys \subseteq Keys
  BY KeysDistinct DEF DoorInv, CountInv, Keys, TypeOK
<1>1. setting' = setting
  BY DEF Next, Tick, Sweep, Claimed, Preflight, CallVerify, CallInternal, CallMetrics, CallOpen, vars
<1>2. now' \in {now, now + 1} /\ \A q \in Requests : at'[q] <= now'
  <2>1. \A q \in Requests : at[q] \in Nat /\ at[q] <= now
    BY <1>0 DEF TypeOK, CallerOK
  <2>2. CASE Tick \/ Sweep \/ Quiet
    BY <1>0, <2>1, <2>2 DEF Tick, Sweep, requestVars, Quiet
  <2>3. ASSUME NEW r \in Requests, NEW k \in Keys, Charge(r, k) \/ Refusal(r, k)
        PROVE  now' = now /\ \A q \in Requests : at'[q] <= now'
    BY <1>0, <2>1, <2>3 DEF Charge, Refusal, TypeOK
  <2> QED BY <2>2, <2>3, StepKinds
<1>3. ASSUME NEW q \in Requests, pc'[q] = pc[q], shape'[q] = shape[q], answer'[q] = answer[q],
             bucket'[q] = bucket[q], checked'[q] = checked[q]
      PROVE  CallerOK(q)'
  BY <1>0, <1>1, <1>2, <1>3 DEF CallerOK
<1>4. ASSUME NEW r \in Requests, Others(r), CallerOK(r)' PROVE \A q \in Requests : CallerOK(q)'
  BY <1>3, <1>4 DEF Others
<1>5. ASSUME NEW r \in Requests, pc[r] # "done" PROVE bucket[r] = NoAddr /\ answer[r] = "none"
  BY <1>5 DEF DoorInv, DoneOK
<1>6. CASE UNCHANGED requestVars
  BY <1>3, <1>6 DEF requestVars
<1>7. ASSUME NEW r \in Requests, Claimed(r) PROVE CallerOK(r)'
  <2>1. /\ pc[r] = "claim" /\ shape' = shape /\ checked' = checked /\ shape[r].cred \in Codes
        /\ now' = now /\ bucket[r] = NoAddr
    BY <1>5, <1>7 DEF Claimed, ClaimOK
  <2>2. pc' = [pc EXCEPT ![r] = "done"]
    BY <1>7 DEF Claimed, Capped, Limit, Conclude
  <2>3. \/ bucket' = bucket
        \/ Limit(r, Cap, "handled")
    BY <1>7 DEF Claimed, Capped, NotLimited
  <2>4. bucket'[r] = Cap /\ answer'[r] # "429" => answer'[r] = "handled"
    BY <1>0, <2>1, <2>3 DEF Limit, Conclude, TypeOK
  <2>5. ~(/\ setting.verify /\ checked[r] /\ shape[r].path = "/tokens/verify"
          /\ shape[r].peer # NoAddr /\ ~ip_is_trusted(canonical(shape[r].peer), Trusted))
    <3> SUFFICES ASSUME /\ setting.verify /\ checked[r] /\ shape[r].path = "/tokens/verify"
                        /\ shape[r].peer # NoAddr
                        /\ ~ip_is_trusted(canonical(shape[r].peer), Trusted)
                 PROVE  FALSE
      OBVIOUS
    <3>1. shape[r] \in Shapes
      BY <1>0 DEF TypeOK, NoShape
    <3>2. bucket[r] = ClientKey(shape[r]) /\ ClientKey(shape[r]) \in ClientKeys
      BY <1>0, <3>1, UntrustedKey DEF CallerOK
    <3> QED BY <1>0, <2>1, <3>2
  <2>6. pc'[r] # "idle"
    BY <1>0, <2>2 DEF TypeOK
  <2> QED BY <1>1, <1>2, <2>1, <2>4, <2>5, <2>6 DEF CallerOK
<1>8. ASSUME NEW r \in Requests, NEW sh \in Shapes,
             Preflight(r, sh) \/ CallMetrics(r, sh) \/ CallOpen(r, sh)
      PROVE  CallerOK(r)'
  <2>1. /\ shape'[r] = sh /\ bucket'[r] = NoAddr /\ pc'[r] = "done"
        /\ ~checked[r] /\ sh.path = "/tokens/verify" => ~checked'[r]
    <3>1. pc[r] = "idle" /\ shape' = [shape EXCEPT ![r] = sh] /\ bucket' = bucket
      BY <1>8 DEF Preflight, CallMetrics, CallOpen, Arrives, NotLimited
    <3>2. pc' = [pc EXCEPT ![r] = "done"]
      BY <1>8 DEF Preflight, CallMetrics, CallOpen, Conclude
    <3>3. checked' = checked \/ sh.path = "/metrics"
      BY <1>8 DEF Preflight, CallMetrics, CallOpen, Arrives
    <3> QED BY <1>0, <1>5, <3>1, <3>2, <3>3 DEF TypeOK
  <2>2. ~checked[r]
    BY <1>0, <1>8 DEF Preflight, CallMetrics, CallOpen, Arrives, CallerOK
  <2> QED BY <1>0, <1>2, <2>1, <2>2 DEF CallerOK
<1>9. ASSUME NEW r \in Requests, NEW sh \in Shapes, CallInternal(r, sh) PROVE CallerOK(r)'
  <2>1. /\ pc[r] = "idle" /\ shape'[r] = sh /\ sh.path \in Internal /\ bucket[r] = NoAddr
        /\ sh.path # "/tokens/verify"
    <3>1. pc[r] = "idle" /\ shape' = [shape EXCEPT ![r] = sh] /\ sh.path \in Internal
      BY <1>9 DEF CallInternal, Arrives
    <3> QED BY <1>0, <1>5, <3>1 DEF TypeOK, Internal
  <2>2. pc'[r] # "idle"
    <3>1. pc' = [pc EXCEPT ![r] = "done"] \/ pc' = [pc EXCEPT ![r] = "claim"]
      BY <1>9 DEF CallInternal, Capped, Limit, Conclude
    <3> QED BY <1>0, <3>1 DEF TypeOK
  <2>3. bucket' = bucket \/ (sh.cred \in Codes /\ Limit(r, Cap, "handled"))
    BY <1>9 DEF CallInternal, Capped, NotLimited
  <2>4. bucket'[r] = Cap /\ answer'[r] # "429" => answer'[r] = "handled" /\ sh.cred \in Codes
    BY <1>0, <2>1, <2>3 DEF Limit, Conclude, TypeOK
  <2> QED BY <1>2, <2>1, <2>2, <2>4 DEF CallerOK
<1>10. ASSUME NEW r \in Requests, NEW sh \in Shapes, CallVerify(r, sh) PROVE CallerOK(r)'
  <2>1. /\ shape'[r] = sh /\ bucket[r] = NoAddr
    <3>1. pc[r] = "idle" /\ shape' = [shape EXCEPT ![r] = sh]
      BY <1>10 DEF CallVerify, Arrives
    <3> QED BY <1>0, <1>5, <3>1 DEF TypeOK
  <2>2. pc'[r] # "idle"
    <3>1. pc' = [pc EXCEPT ![r] = "done"]
      BY <1>10 DEF CallVerify, Limit, Conclude
    <3> QED BY <1>0, <3>1 DEF TypeOK
  <2>3. CASE setting.verify /\ ClientKey(sh) # NoAddr
    <3>1. /\ Limit(r, ClientKey(sh), Admission(sh))
          /\ checked' = [checked EXCEPT ![r] = Allowed(ClientKey(sh))]
      BY <1>10, <2>3 DEF CallVerify
    <3>2. bucket'[r] = ClientKey(sh) /\ ClientKey(sh) # Cap
      BY <1>0, <2>3, <3>1, ClientKeyType DEF Limit, TypeOK
    <3>3. checked'[r] => answer'[r] # "429"
      <4>1. checked'[r] => Allowed(ClientKey(sh))
        BY <1>0, <3>1 DEF TypeOK
      <4>2. Allowed(ClientKey(sh)) => answer' = [answer EXCEPT ![r] = Admission(sh)]
        BY <3>1 DEF Limit, Conclude
      <4> QED BY <1>0, <4>1, <4>2 DEF Admission, TypeOK
    <3> QED BY <1>2, <2>1, <2>2, <3>2, <3>3, UntrustedKey DEF CallerOK
  <2>4. CASE ~(setting.verify /\ ClientKey(sh) # NoAddr)
    <3>1. bucket' = bucket
      BY <1>10, <2>4 DEF CallVerify, NotLimited
    <3>2. ~(/\ setting.verify /\ sh.peer # NoAddr
            /\ ~ip_is_trusted(canonical(sh.peer), Trusted))
      BY <1>0, <2>4, UntrustedKey
    <3> QED BY <1>0, <1>1, <1>2, <2>1, <2>2, <3>1, <3>2 DEF CallerOK
  <2> QED BY <2>3, <2>4
<1> QED
  <2>1. ASSUME NEW r \in Requests,
               \/ Claimed(r)
               \/ \E sh \in Shapes : \/ Preflight(r, sh) \/ CallVerify(r, sh)
                                     \/ CallInternal(r, sh) \/ CallMetrics(r, sh) \/ CallOpen(r, sh)
        PROVE  CallerOK(r)' /\ pc[r] # "done" /\ pc'[r] # pc[r]
    <3>1. CallerOK(r)'
      BY <1>7, <1>8, <1>9, <1>10, <2>1
    <3>2. pc[r] # "done"
      BY <2>1 DEF Claimed, Preflight, CallVerify, CallInternal, CallMetrics, CallOpen, Arrives
    <3>3. pc' = [pc EXCEPT ![r] = "done"] \/ (pc[r] = "idle" /\ pc' = [pc EXCEPT ![r] = "claim"])
      BY <2>1 DEF Claimed, Preflight, CallVerify, CallInternal, CallMetrics, CallOpen, Arrives,
         Capped, Limit, Conclude
    <3> QED BY <1>0, <3>1, <3>2, <3>3 DEF TypeOK
  <2>2. CASE Tick \/ Sweep \/ UNCHANGED vars
    BY <1>6, <2>2 DEF Tick, Sweep, vars
  <2>3. ASSUME NEW r \in Requests, CallerOK(r)', pc'[r] # pc[r]
        PROVE  \A q \in Requests : CallerOK(q)'
    <3>1. ~UNCHANGED requestVars
      BY <2>3 DEF requestVars
    <3>2. PICK x \in Requests : Others(x)
      BY <1>0, <3>1, StepOwner
    <3>3. x = r
      BY <2>3, <3>2 DEF Others
    <3> QED BY <1>4, <2>3, <3>2, <3>3
  <2> QED BY <2>1, <2>2, <2>3 DEF Next

(* CountInv is inductive on top of DoorInv and ClaimOK. *)
LEMMA CountStep ==
    ASSUME DoorInv, DoorInv', ClaimOK, CountInv, [Next]_vars
    PROVE  CountInv'
<1>0. /\ now \in Nat \ {0} /\ tat \in [Keys -> Nat] /\ tat' \in [Keys -> Nat]
  BY DEF DoorInv, TypeOK
<1>1. IsFiniteSet(Met') /\ CapSpentByValidCodes' /\ \A q \in Requests : CallerOK(q)'
  BY MetStep, SpendersStep, CallersStep DEF CountInv
<1>2. ASSUME NEW c \in Keys PROVE RunOK(c)' /\ StretchOK(c)' /\ SpentOK(c)'
  <2>1. CASE Tick \/ Sweep
    <3>1. now' \in {now, now + 1} /\ UNCHANGED <<bucket, answer, at>>
      BY <2>1 DEF Tick, Sweep, requestVars
    <3>2. \A s, t \in Int : Charges(c, s, t)' = Charges(c, s, t)
      BY <3>1 DEF Charges
    <3>3. tat'[c] <= tat[c] /\ Later(tat'[c], now') >= Later(tat[c], now)
      <4>1. CASE Tick
        BY <1>0, <4>1 DEF Tick, Later
      <4>2. CASE Sweep
        BY <1>0, <4>2 DEF Sweep, Later
      <4> QED BY <2>1, <4>1, <4>2
    <3>4. RunOK(c)' /\ SpentOK(c)'
      BY <1>0, <3>1, <3>2, <3>3, SameCount
    <3> QED BY <1>1, <3>1, <3>2, <3>4, StretchStep DEF CountInv
  <2>2. CASE Quiet \/ \E r \in Requests, k \in Keys : Refusal(r, k)
    <3>1. now' = now /\ tat' = tat
      BY <2>2 DEF Refusal, Quiet
    <3>2. \A s, t \in Int : Charges(c, s, t)' = Charges(c, s, t)
      BY <2>2, RefusalMoves
    <3>3. tat'[c] <= tat[c] /\ Later(tat'[c], now') >= Later(tat[c], now)
      BY <1>0, <3>1 DEF Later
    <3>4. RunOK(c)' /\ SpentOK(c)'
      BY <1>0, <3>1, <3>2, <3>3, SameCount
    <3> QED BY <1>1, <3>1, <3>2, <3>4, StretchStep DEF CountInv
  <2>3. ASSUME NEW r \in Requests, NEW k \in Keys, Charge(r, k)
        PROVE  RunOK(c)' /\ StretchOK(c)' /\ SpentOK(c)'
    <3>1. now' = now /\ tat' = [tat EXCEPT ![k] = Later(tat[k], now) + Period[k]]
      BY <2>3 DEF Charge
    <3>2. RunOK(c)' /\ SpentOK(c)'
      <4>1. CASE c = k
        BY <2>3, <4>1, ChargeCount
      <4>2. CASE c # k
        <5>1. tat'[c] = tat[c]
          BY <1>0, <3>1, <4>2
        <5>2. tat'[c] <= tat[c] /\ Later(tat'[c], now') >= Later(tat[c], now)
          BY <1>0, <3>1, <5>1 DEF Later
        <5>3. \A s, t \in Int : Charges(c, s, t)' = Charges(c, s, t)
          BY <2>3, <4>2, ChargeMoves
        <5> QED BY <1>0, <3>1, <5>2, <5>3, SameCount
      <4> QED BY <4>1, <4>2
    <3>3. \A s, t \in Int : t < now' => Charges(c, s, t)' = Charges(c, s, t)
      <4> SUFFICES ASSUME NEW s \in Int, NEW t \in Int, t < now'
                   PROVE  Charges(c, s, t)' = Charges(c, s, t)
        OBVIOUS
      <4>1. now \notin s .. t
        BY <1>0, <3>1
      <4> QED BY <2>3, <4>1, ChargeMoves
    <3> QED BY <1>1, <3>1, <3>2, <3>3, StretchStep DEF CountInv
  <2> QED BY <2>1, <2>2, <2>3, StepKinds
<1> QED BY <1>1, <1>2 DEF CountInv

(* Nothing is counted at the start. *)
LEMMA InitCount == Init => CountInv
<1> SUFFICES ASSUME Init PROVE CountInv
  OBVIOUS
<1>1. now = 1 /\ \A r \in Requests : bucket[r] = NoAddr /\ at[r] = 0 /\ ~checked[r] /\ answer[r] = "none"
  BY DEF Init
<1>2. Met = {} /\ IsFiniteSet(Met)
  BY <1>1, FS_EmptySet DEF Met
<1>3. \A r \in Requests : CallerOK(r)
  BY <1>1, KeysDistinct DEF CallerOK
<1>4. CapSpentByValidCodes
  BY <1>1 DEF CapSpentByValidCodes
<1>5. ASSUME NEW k \in Keys PROVE RunOK(k) /\ StretchOK(k) /\ SpentOK(k)
  <2>1. tat[k] = 0 /\ Period[k] \in Nat /\ Full(k) \in Nat /\ Period[k] >= 1 /\ Period[k] <= Full(k)
    BY QuotaFacts DEF Init
  <2>2. \A s, t : Charges(k, s, t) = {}
    BY <1>1, KeysDistinct DEF Charges
  <2>3. \A s, t : Cardinality(Charges(k, s, t)) * Period[k] = 0
    BY <2>1, <2>2, FS_EmptySet
  <2>4. RunOK(k)
    BY <1>1, <2>1, <2>3 DEF RunOK, Later
  <2>5. StretchOK(k)
    BY <1>1, <2>1, <2>3 DEF StretchOK
  <2>6. SpentOK(k)
    <3> SUFFICES ASSUME NEW s \in (now - Full(k)) .. now
                 PROVE  tat[k] <= s + Full(k) + Cardinality(Charges(k, s + 1, now)) * Period[k]
      BY DEF SpentOK
    <3> QED BY <1>1, <2>1, <2>3
  <2> QED BY <2>4, <2>5, <2>6
<1> QED BY <1>2, <1>3, <1>4, <1>5 DEF CountInv

(* Every bucket accounts for what it let through, in every stretch of time. *)
THEOREM CountCorrect == Spec => []CountInv
<1>1. Init => CountInv
  BY InitCount
<1>2. DoorInv /\ DoorInv' /\ ClaimOK /\ CountInv /\ [Next]_vars => CountInv'
  BY CountStep
<1> QED BY <1>1, <1>2, DoorCorrect, PTL DEF Spec

(* No peer but a trusted proxy gets more tries at the proxy secret than the burst
   and the refill allow, in any stretch of time and whatever forwarding headers it
   sends: for any quota, any addresses and any number of requests. *)
THEOREM GuessesBoundedHolds == Spec => []GuessesBounded
<1>1. DoorInv /\ CountInv => GuessesBounded
  <2> SUFFICES ASSUME DoorInv, CountInv, setting.verify,
                      NEW a \in Untrusted, NEW s \in 1 .. now, NEW t \in 1 .. now, s <= t
               PROVE  Cardinality(Guesses(group_v6(a), s, t)) * Period[group_v6(a)] <=
                        Full(group_v6(a)) + (t - s)
    BY DEF GuessesBounded
  <2> DEFINE p == group_v6(a)
  <2>1. p \in ClientKeys /\ p \in Keys /\ s \in Int /\ t \in Int
    <3>1. PICK sh \in Shapes : sh.peer # NoAddr /\ a = canonical(sh.peer)
      BY DEF Untrusted
    <3>2. sh.peer \in Addresses
      BY <3>1, DoorAssumption DEF ShapeType
    <3> QED BY <3>1, <3>2 DEF ClientKeys, Keys
  <2> HIDE DEF p
  <2>2. Guesses(p, s, t) \subseteq Charges(p, s, t)
    BY DEF Guesses, Charges, CountInv, CallerOK
  <2>3. IsFiniteSet(Charges(p, s, t)) /\ Cardinality(Charges(p, s, t)) \in Nat
    BY <2>1, ChargesFinite DEF CountInv
  <2>4. /\ Cardinality(Guesses(p, s, t)) \in Nat
        /\ Cardinality(Guesses(p, s, t)) <= Cardinality(Charges(p, s, t))
    BY <2>2, <2>3, FS_Subset, FS_CardinalityType
  <2>5. Cardinality(Charges(p, s, t)) * Period[p] <= Full(p) + (t - s)
    BY <2>1 DEF CountInv, StretchOK
  <2>6. \A m, n, c \in Nat : m <= n => m * c <= n * c
    BY SMT
  <2>7. Cardinality(Guesses(p, s, t)) * Period[p] <= Cardinality(Charges(p, s, t)) * Period[p]
    BY <2>1, <2>3, <2>4, <2>6, QuotaFacts
  <2>8. PICK x \in Nat, y \in Nat : /\ x = Cardinality(Guesses(p, s, t)) * Period[p]
                                    /\ y = Cardinality(Charges(p, s, t)) * Period[p]
    BY <2>1, <2>3, <2>4, QuotaFacts, TokenTime
  <2>9. Full(p) \in Nat
    BY <2>1, QuotaFacts
  <2>10. Cardinality(Guesses(p, s, t)) * Period[p] <= Full(p) + (t - s)
    BY <2>1, <2>5, <2>7, <2>8, <2>9
  <2> QED BY <2>10 DEF p
<1> QED BY <1>1, CountCorrect, DoorCorrect, PTL

(* The cap of the internal endpoints refuses only after a whole burst of requests
   with valid codes: what comes without one does not spend it. *)
THEOREM CapSpentHolds == Spec => []CapSpentByValidCodes
<1>1. CountInv => CapSpentByValidCodes
  BY DEF CountInv
<1> QED BY <1>1, CountCorrect, PTL
=============================================================================
