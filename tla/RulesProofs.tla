---------------------------- MODULE RulesProofs ----------------------------
(***************************************************************************)
(* Proofs about Rules: what the pure algorithms of the service answer, for *)
(* addresses of any width, chains of any length and any custom claims.     *)
(***************************************************************************)
EXTENDS Rules, SequenceTheorems, FiniteSetTheorems, WellFoundedInduction, TLAPS

-----------------------------------------------------------------------------
(* Tokens nobody else can make *)

(* A token that is around came out of to_string, for claims that were accepted. *)
Issued(t) ==
    \E kid \in DOMAIN Keys, sub \in Subjects, extra \in Extras, c \in Configs :
      /\ validate_custom_claims(extra)
      /\ t = [token |-> to_string(kid, Keys[kid], Claims(sub, extra), c),
              claims |-> Claims(sub, extra), config |-> c]

TokensOK == config \in Configs /\ \A t \in tokens : Issued(t)

(* No step makes a token in another way. *)
LEMMA TokensStep ==
    ASSUME TokensOK, [Next]_vars
    PROVE  TokensOK'
<1>1. CASE IssueToken
  <2>1. PICK sub \in Subjects, extra \in Extras, kid \in DOMAIN Keys :
          /\ validate_custom_claims(extra)
          /\ tokens' = tokens \cup
               {[token |-> to_string(kid, Keys[kid], Claims(sub, extra), config),
                 claims |-> Claims(sub, extra), config |-> config]}
    BY <1>1 DEF IssueToken
  <2>2. config' = config
    BY <1>1 DEF IssueToken
  <2>3. Issued([token |-> to_string(kid, Keys[kid], Claims(sub, extra), config),
                claims |-> Claims(sub, extra), config |-> config])
    BY <2>1 DEF Issued, TokensOK
  <2> QED BY <2>1, <2>2, <2>3 DEF TokensOK
<1>2. CASE ~IssueToken
  BY <1>2 DEF Next, AskRange, AskClient, Reconfigure, PresentToken, vars, TokensOK
<1> QED BY <1>1, <1>2

(* to_string, segment by segment. *)
LEMMA IssuedForm ==
    ASSUME NEW t, Issued(t)
    PROVE  /\ t.token = [segments |-> t.token.segments, header |-> t.token.header,
                         payload |-> t.token.payload, signature |-> t.token.signature]
           /\ t.token.signature.over = <<t.token.header, t.token.payload>>
  BY DEF Issued, to_string, Signature, SigningInput

(* What is asked next is about a token only if one is presented. *)
LEMMA AskedKinds ==
    ASSUME [Next]_vars, asked'.what = "token"
    PROVE  PresentToken \/ UNCHANGED vars
<1>1. CASE IssueToken \/ Reconfigure
  BY <1>1 DEF IssueToken, Reconfigure, Nothing
<1>2. CASE AskRange
  <2>1. asked'.what = "range"
    BY <1>2 DEF AskRange
  <2> QED BY <2>1
<1>3. CASE AskClient
  <2>1. asked'.what = "client"
    BY <1>3 DEF AskClient
  <2> QED BY <2>1
<1> QED BY <1>1, <1>2, <1>3 DEF Next

(* from_string: a valid token has a signature over its header and claims. *)
LEMMA ValidForm ==
    ASSUME NEW t, NEW c, from_string(t, c, Keys, TRUE) = "valid"
    PROVE  t.signature # NoSignature /\ t.signature.over = <<t.header, t.payload>>
<1>1. t.signature # NoSignature
  <2>1. t.signature.ok
    BY DEF from_string
  <2>2. ~NoSignature.ok
    BY DEF NoSignature
  <2> QED BY <2>1, <2>2
<1>2. t.signature = Signature(Keys[HeaderFromBase64(t.header).kid],
                              HeaderFromBase64(t.header).alg, t.header, t.payload)
  BY DEF from_string
<1> QED BY <1>1, <1>2 DEF Signature, SigningInput

(* What is accepted was issued, after every step. *)
LEMMA AcceptedStep ==
    ASSUME TokensOK, AcceptedWasIssued, [Next]_vars
    PROVE  AcceptedWasIssued'
<1> SUFFICES ASSUME asked'.what = "token", asked'.answer = "valid"
             PROVE  \E t \in tokens' : asked'.token = [t.token EXCEPT !.segments = asked'.token.segments]
  BY DEF AcceptedWasIssued
<1>1. CASE UNCHANGED vars
  BY <1>1 DEF vars, AcceptedWasIssued
<1>2. CASE PresentToken
  <2>1. PICK n \in 2 .. 4, h \in Headers, p \in Payloads, s \in Signatures :
          asked' = [what |-> "token",
                    token |-> [segments |-> n, header |-> h, payload |-> p, signature |-> s],
                    answer |-> from_string([segments |-> n, header |-> h, payload |-> p,
                                            signature |-> s], config, Keys, TRUE)]
    BY <1>2 DEF PresentToken
  <2> DEFINE x == [segments |-> n, header |-> h, payload |-> p, signature |-> s]
  <2>2. asked'.token = x /\ from_string(x, config, Keys, TRUE) = "valid"
    BY <2>1
  <2>3. s # NoSignature /\ s.over = <<h, p>>
    <3>1. x.signature = s /\ x.header = h /\ x.payload = p
      OBVIOUS
    <3> HIDE DEF x
    <3> QED BY <2>2, <3>1, ValidForm
  <2>4. PICK t \in tokens : s = t.token.signature
    BY <2>3 DEF Signatures
  <2>5. /\ t.token = [segments |-> t.token.segments, header |-> t.token.header,
                      payload |-> t.token.payload, signature |-> t.token.signature]
        /\ <<h, p>> = <<t.token.header, t.token.payload>>
    BY <2>3, <2>4, IssuedForm DEF TokensOK
  <2>6. h = t.token.header /\ p = t.token.payload
    BY <2>5
  <2>7. [t.token EXCEPT !.segments = n] = x
    BY <2>4, <2>5, <2>6
  <2>8. tokens' = tokens
    BY <1>2 DEF PresentToken
  <2> QED BY <2>2, <2>7, <2>8
<1> QED BY <1>1, <1>2, AskedKinds

(* JsonWebToken::from_string takes nothing but what to_string made: no part of a
   token goes with the parts of another, whatever keys, claims and settings. *)
THEOREM AcceptedWasIssuedHolds == Spec => []AcceptedWasIssued
<1>1. Init => TokensOK /\ AcceptedWasIssued
  BY DEF Init, TokensOK, AcceptedWasIssued, Nothing
<1>2. TokensOK /\ AcceptedWasIssued /\ [Next]_vars => (TokensOK /\ AcceptedWasIssued)'
  BY TokensStep, AcceptedStep
<1> QED BY <1>1, <1>2, PTL DEF Spec

-----------------------------------------------------------------------------
(* The client behind a chain of proxies *)

(* canonical: the IPv4 address inside a mapped one is an address. *)
LEMMA CanonicalAddress ==
    ASSUME NEW a \in Addresses
    PROVE  canonical(a) \in Addresses /\ canonical(a) # NoAddr
<1>1. CASE ~IsMapped(a)
  BY <1>1, AddressAssumption DEF canonical
<1>2. CASE IsMapped(a)
  <2> DEFINE o == [i \in 1 .. V4Octets |-> a.octets[Len(MappedPrefix) + i]]
  <2>1. a.octets \in [1 .. V6Octets -> Octets]
    BY <1>2 DEF IsMapped, Addresses, V4, V6
  <2>2. Len(MappedPrefix) \in Nat /\ V4Octets \in Nat /\ Len(MappedPrefix) + V4Octets = V6Octets
    BY AddressAssumption
  <2>3. ASSUME NEW i \in 1 .. V4Octets PROVE Len(MappedPrefix) + i \in 1 .. V6Octets
    BY <2>2
  <2>4. o \in [1 .. V4Octets -> Octets]
    BY <2>1, <2>3
  <2>5. canonical(a) = [v6 |-> FALSE, octets |-> o]
    BY <1>2 DEF canonical
  <2> HIDE DEF o
  <2>6. canonical(a) \in Addresses
    BY <2>4, <2>5 DEF Addresses, V4
  <2> QED BY <2>6, AddressAssumption
<1> QED BY <1>1, <1>2

(* What has arrived: first what the client wrote, then the client, then the
   proxies but the last. *)
LEMMA ReceivedForm ==
    ASSUME NEW client \in Addresses, NEW chain \in Seq(Addresses), Len(chain) >= 1,
           NEW forms \in [1 .. Len(chain) -> Forms \ {"junk"}], forms[1] # "bracket",
           NEW forged \in Seq([form : Forms, addr : Addresses])
    PROVE  LET xff == Received(client, chain, forms, forged)
               n   == Len(forged) IN
           /\ n \in Nat /\ Len(xff) = n + Len(chain)
           /\ parse_forwarded_ip(xff[n + 1]) = canonical(client)
           /\ \A j \in 2 .. Len(chain) :
                parse_forwarded_ip(xff[n + j]) \in {canonical(chain[j - 1]), NoAddr}
<1> DEFINE E(i) == [form |-> forms[i], addr |-> IF i = 1 THEN client ELSE chain[i - 1]]
           s == [i \in 1 .. Len(chain) |-> E(i)]
           xff == Received(client, chain, forms, forged)
           n == Len(forged)
<1>1. n \in Nat /\ Len(chain) \in Nat
  OBVIOUS
<1>2. ASSUME NEW i \in 1 .. Len(chain)
      PROVE  /\ E(i) \in [form : Forms, addr : Addresses]
             /\ parse_forwarded_ip(E(i)) =
                  IF forms[i] = "bracket" THEN NoAddr
                  ELSE canonical(IF i = 1 THEN client ELSE chain[i - 1])
  <2>1. i # 1 => i - 1 \in 1 .. Len(chain)
    BY <1>1
  <2>2. (IF i = 1 THEN client ELSE chain[i - 1]) \in Addresses
    BY <2>1
  <2>3. forms[i] \in {"ip", "port", "bracket"}
    BY DEF Forms
  <2> QED BY <2>2, <2>3 DEF Forms, parse_forwarded_ip
<1> HIDE DEF E
<1>3. s \in Seq([form : Forms, addr : Addresses]) /\ Len(s) = Len(chain)
  BY <1>1, <1>2
<1>4. xff = forged \o s
  BY DEF Received, E
<1>5. /\ Len(xff) = n + Len(chain)
      /\ \A i \in 1 .. Len(xff) : xff[i] = IF i <= n THEN forged[i] ELSE s[i - n]
  BY <1>3, <1>4, ConcatProperties
<1> HIDE DEF xff
<1>6. ASSUME NEW j \in 1 .. Len(chain) PROVE xff[n + j] = E(j)
  <2>1. n + j \in 1 .. Len(xff) /\ ~(n + j <= n) /\ (n + j) - n = j
    BY <1>1, <1>5
  <2> QED BY <1>5, <2>1
<1>7. parse_forwarded_ip(xff[n + 1]) = canonical(client)
  BY <1>1, <1>2, <1>6
<1>8. ASSUME NEW j \in 2 .. Len(chain)
      PROVE  parse_forwarded_ip(xff[n + j]) \in {canonical(chain[j - 1]), NoAddr}
  <2>1. j \in 1 .. Len(chain) /\ j # 1
    BY <1>1
  <2> QED BY <1>2, <1>6, <2>1
<1> QED BY <1>1, <1>5, <1>7, <1>8 DEF xff

(* client_from_forwarded finds it: nothing to the right of the client is foreign. *)
LEMMA ChainFindsClient ==
    ASSUME NEW client \in Addresses, NEW chain \in Seq(Addresses), Len(chain) >= 1,
           NEW forms \in [1 .. Len(chain) -> Forms \ {"junk"}], forms[1] # "bracket",
           NEW forged \in Seq([form : Forms, addr : Addresses]), NEW trusted,
           \A i \in 1 .. Len(chain) : ip_is_trusted(canonical(chain[i]), trusted),
           ~ip_is_trusted(canonical(client), trusted)
    PROVE  client_from_forwarded(Received(client, chain, forms, forged), trusted) = canonical(client)
<1> DEFINE xff     == Received(client, chain, forms, forged)
           n       == Len(forged)
           ip(i)   == parse_forwarded_ip(xff[i])
           parsed  == {i \in 1 .. Len(xff) : ip(i) # NoAddr}
           foreign == {i \in parsed : ~ip_is_trusted(ip(i), trusted)}
<1>1. /\ n \in Nat /\ Len(chain) \in Nat /\ Len(xff) = n + Len(chain)
      /\ ip(n + 1) = canonical(client)
      /\ \A j \in 2 .. Len(chain) : ip(n + j) \in {canonical(chain[j - 1]), NoAddr}
  <2>1. Len(chain) \in Nat
    OBVIOUS
  <2> QED BY <2>1, ReceivedForm, Zenon
<1> HIDE DEF xff
<1>2. n + 1 \in foreign
  <2>1. n + 1 \in 1 .. Len(xff)
    BY <1>1
  <2> QED BY <1>1, <2>1, CanonicalAddress
<1>3. ASSUME NEW j \in foreign PROVE j <= n + 1
  <2> SUFFICES ASSUME j > n + 1 PROVE FALSE
    BY <1>1
  <2>1. j \in 1 .. Len(xff) /\ ip(j) # NoAddr /\ ~ip_is_trusted(ip(j), trusted)
    BY <1>3
  <2>2. j - n \in 2 .. Len(chain) /\ n + (j - n) = j /\ (j - n) - 1 \in 1 .. Len(chain)
    BY <1>1, <2>1
  <2>3. ip(j) = canonical(chain[(j - n) - 1])
    BY <1>1, <2>1, <2>2
  <2> QED BY <2>1, <2>2, <2>3
<1> DEFINE last == CHOOSE i \in foreign : \A j \in foreign : j <= i
<1>4. last = n + 1
  <2>0. \A i \in foreign : i \in Int
    BY <1>1
  <2> HIDE DEF foreign
  <2>1. last \in foreign /\ \A j \in foreign : j <= last
    BY <1>2, <1>3
  <2>2. last <= n + 1 /\ n + 1 <= last
    BY <1>2, <1>3, <2>1
  <2> HIDE DEF last
  <2> QED BY <1>1, <2>0, <2>1, <2>2
<1>5. foreign # {} => client_from_forwarded(xff, trusted) = ip(last)
  BY DEF client_from_forwarded
<1> HIDE DEF foreign, last, ip
<1>6. client_from_forwarded(xff, trusted) = canonical(client)
  BY <1>1, <1>2, <1>4, <1>5
<1> QED BY <1>6 DEF xff

(* resolve_key_ip: the bucket behind a chain of trusted proxies. *)
LEMMA ChainKey ==
    ASSUME NEW client \in Addresses, NEW chain \in Seq(Addresses),
           NEW forms \in [1 .. Len(chain) -> Forms \ {"junk"}],
           chain # <<>> => forms[1] # "bracket",
           NEW forged \in Seq([form : Forms, addr : Addresses]), NEW trusted,
           \A i \in 1 .. Len(chain) : ip_is_trusted(canonical(chain[i]), trusted),
           ~ip_is_trusted(canonical(client), trusted)
    PROVE  resolve_key_ip(IF chain = <<>> THEN client ELSE chain[Len(chain)],
                          Received(client, chain, forms, forged), trusted) = group_v6(canonical(client))
<1>1. CASE chain = <<>>
  <2>1. client # NoAddr
    BY AddressAssumption
  <2> QED BY <1>1, <2>1 DEF resolve_key_ip
<1>2. CASE chain # <<>>
  <2>1. Len(chain) \in Nat /\ Len(chain) >= 1 /\ Len(chain) \in 1 .. Len(chain)
    BY <1>2, EmptySeq
  <2>2. chain[Len(chain)] \in Addresses /\ chain[Len(chain)] # NoAddr
    BY <2>1, AddressAssumption
  <2>3. ip_is_trusted(canonical(chain[Len(chain)]), trusted)
    BY <2>1
  <2>4. client_from_forwarded(Received(client, chain, forms, forged), trusted) = canonical(client)
    BY <1>2, <2>1, ChainFindsClient
  <2>5. canonical(client) # NoAddr
    BY CanonicalAddress
  <2> QED BY <1>2, <2>2, <2>3, <2>4, <2>5 DEF resolve_key_ip
<1> QED BY <1>1, <1>2

(* "the real client behind a chain of proxies" (client_from_forwarded): for chains
   of any length, forged headers of any length and any trusted ranges. *)
THEOREM ChainNamesClientHolds == Spec => []ChainNamesClient
<1>1. Init => ChainNamesClient
  BY DEF Init, Nothing, ChainNamesClient
<1>2. ASSUME ChainNamesClient, [Next]_vars PROVE ChainNamesClient'
  <2>1. CASE AskClient
    <3>1. PICK client \in Addresses, chain \in Chains, forged \in Forgeries :
          \E forms \in [1 .. Len(chain) -> Forms \ {"junk"}] :
            asked' = [what |-> "client", client |-> client, chain |-> chain, forms |-> forms,
                      answer |-> resolve_key_ip(IF chain = <<>> THEN client ELSE chain[Len(chain)],
                                                Received(client, chain, forms, forged),
                                                trusted_proxies(Ranges))]
      BY <2>1 DEF AskClient
    <3>a. PICK forms \in [1 .. Len(chain) -> Forms \ {"junk"}] :
            asked' = [what |-> "client", client |-> client, chain |-> chain, forms |-> forms,
                      answer |-> resolve_key_ip(IF chain = <<>> THEN client ELSE chain[Len(chain)],
                                                Received(client, chain, forms, forged),
                                                trusted_proxies(Ranges))]
      BY <3>1
    <3>2. chain \in Seq(Addresses) /\ forged \in Seq([form : Forms, addr : Addresses])
      BY RulesAssumption
    <3>3. asked'.client = client /\ asked'.chain = chain /\ asked'.forms = forms
      BY <3>a
    <3>4. asked'.answer = resolve_key_ip(IF chain = <<>> THEN client ELSE chain[Len(chain)],
                                         Received(client, chain, forms, forged), trusted_proxies(Ranges))
      BY <3>a
    <3> SUFFICES ASSUME chain # <<>> => forms[1] # "bracket",
                        \A i \in 1 .. Len(chain) :
                          ip_is_trusted(canonical(chain[i]), trusted_proxies(Ranges)),
                        ~ip_is_trusted(canonical(client), trusted_proxies(Ranges))
                 PROVE  asked'.answer = group_v6(canonical(client))
      BY <3>3 DEF ChainNamesClient
    <3> QED BY <3>2, <3>4, ChainKey
  <2>2. CASE AskRange
    <3>1. asked'.what = "range"
      BY <2>2 DEF AskRange
    <3> QED BY <3>1 DEF ChainNamesClient
  <2>3. CASE PresentToken
    <3>1. asked'.what = "token"
      BY <2>3 DEF PresentToken
    <3> QED BY <3>1 DEF ChainNamesClient
  <2>4. CASE IssueToken \/ Reconfigure
    BY <2>4 DEF IssueToken, Reconfigure, Nothing, ChainNamesClient
  <2>5. CASE UNCHANGED vars
    BY <1>2, <2>5 DEF vars, ChainNamesClient
  <2> QED BY <1>2, <2>1, <2>2, <2>3, <2>4, <2>5 DEF Next
<1> QED BY <1>1, <1>2, PTL DEF Spec

-----------------------------------------------------------------------------
(* Ranges *)

(* Quotient and remainder. *)
LEMMA DivMod ==
    ASSUME NEW a \in Nat, NEW u \in Nat, u > 0
    PROVE  a \div u \in Nat /\ a % u \in 0 .. u - 1 /\ a = (a \div u) * u + (a % u)
<1>1. a \div u \in Int /\ a % u \in 0 .. u - 1
  OBVIOUS
<1>2. a = u * (a \div u) + (a % u)
  OBVIOUS
<1> DEFINE q == a \div u
           s == a % u
<1> HIDE DEF q, s
<1>3. q \in Int /\ s \in 0 .. u - 1 /\ a = q * u + s
  BY <1>1, <1>2 DEF q, s
<1>4. ASSUME q <= -1 PROVE FALSE
   <2>1. q * u <= -u
     BY <1>3, <1>4
   <2> QED BY <1>3, <2>1
<1> QED BY <1>3, <1>4 DEF q, s

(* There is one of each. *)
LEMMA DivUnique ==
    ASSUME NEW u \in Nat, u > 0, NEW q \in Nat, NEW s \in 0 .. u - 1
    PROVE  (q * u + s) \div u = q /\ (q * u + s) % u = s
  OBVIOUS

(* Shifting by one bit more loses one bit. *)
LEMMA DivHalf ==
    ASSUME NEW a \in Nat, NEW u \in Nat, u > 0
    PROVE  (a \div u) = 2 * (a \div (2 * u)) + ((a \div u) % 2)
<1> DEFINE q == a \div u
           s == a % u
           w == a \div (2 * u)
<1>1. q \in Nat /\ s \in 0 .. u - 1 /\ a = q * u + s
  BY DivMod
<1> HIDE DEF q, s
<1>2. PICK h \in Nat, b \in 0 .. 1 : q = 2 * h + b /\ b = q % 2
  BY <1>1
<1>3. a = h * (2 * u) + (b * u + s)
  BY <1>1, <1>2
<1>4. b * u + s \in 0 .. (2 * u) - 1
  <2>1. CASE b = 0
    BY <1>1, <2>1
  <2>2. CASE b = 1
    BY <1>1, <2>2
  <2> QED BY <1>2, <2>1, <2>2
<1>5. w = h
  BY <1>3, <1>4, DivUnique
<1> HIDE DEF w
<1>6. q = 2 * h + (q % 2)
  BY <1>2
<1>7. q = 2 * w + (q % 2)
  BY <1>5, <1>6
<1> QED BY <1>7 DEF q, w

(* A set of numbers that is not empty has a least one. *)
LEMMA FirstExists ==
    ASSUME NEW T, T \subseteq Nat, T # {}
    PROVE  \E i \in T : \A j \in T : i <= j
<1>1. PICK i \in T : \A j \in T : ~(<<j, i>> \in OpToRel(<, Nat))
  BY NatLessThanWellFounded, WFMin, Zenon
<1>2. \A j \in T : ~(j < i)
  BY <1>1, Zenon DEF OpToRel
<1>3. ASSUME NEW j \in T PROVE i <= j
  <2>1. i \in Nat /\ j \in Nat
    BY <1>1
  <2> QED BY <1>2, <2>1
<1> QED BY <1>1, <1>3

(* P lists the powers of two up to that of B. *)
PowersTo(P, B) ==
    /\ P \in [0 .. B -> Nat]
    /\ P[0] = 1
    /\ \A n \in 0 .. B - 1 : P[n] > 0 /\ P[n + 1] = 2 * P[n]

(* The first r of B bits of two numbers agree if and only if the numbers agree
   when the other bits are shifted out. *)
SameLeading(P, B, a, b, r) ==
    a \div P[B - r] = b \div P[B - r]
    <=> \A k \in 0 .. r - 1 : (a \div P[B - 1 - k]) % 2 = (b \div P[B - 1 - k]) % 2

(* One bit more, shifted out or compared. *)
LEMMA OneBitMore ==
    ASSUME NEW B \in Nat, NEW P, PowersTo(P, B), NEW a \in Nat, NEW b \in Nat,
           NEW r \in 1 .. B, SameLeading(P, B, a, b, r - 1)
    PROVE  SameLeading(P, B, a, b, r)
<1> DEFINE u == P[B - r]
           hiA == a \div (2 * u)
           hiB == b \div (2 * u)
           loA == (a \div u) % 2
           loB == (b \div u) % 2
<1>1. u \in Nat /\ u > 0 /\ P[B - (r - 1)] = 2 * u
  <2>1. B - r \in 0 .. B - 1 /\ (B - r) + 1 = B - (r - 1)
    OBVIOUS
  <2> QED BY <2>1 DEF PowersTo
<1>2. a \div u = 2 * hiA + loA /\ b \div u = 2 * hiB + loB
  BY <1>1, DivHalf
<1>3. hiA \in Nat /\ hiB \in Nat /\ loA \in 0 .. 1 /\ loB \in 0 .. 1
  <2>1. 2 * u \in Nat /\ 2 * u > 0
    BY <1>1
  <2>2. a \div u \in Nat /\ b \div u \in Nat
    BY <1>1, DivMod
  <2>3. hiA \in Nat /\ hiB \in Nat
    BY <2>1, DivMod
  <2>4. \A q \in Nat : q % 2 \in 0 .. 1
    OBVIOUS
  <2> QED BY <2>2, <2>3, <2>4
<1>4. hiA = hiB <=> \A k \in 0 .. r - 2 :
                      (a \div P[B - 1 - k]) % 2 = (b \div P[B - 1 - k]) % 2
  <2>1. (r - 1) - 1 = r - 2
    OBVIOUS
  <2> QED BY <1>1, <2>1 DEF SameLeading
<1>5. P[B - 1 - (r - 1)] = u
  <2>1. B - 1 - (r - 1) = B - r
    OBVIOUS
  <2> QED BY <2>1
<1> HIDE DEF u, hiA, hiB, loA, loB
<1>6. a \div u = b \div u <=> hiA = hiB /\ loA = loB
  BY <1>2, <1>3
<1> DEFINE bit(k) == (a \div P[B - 1 - k]) % 2 = (b \div P[B - 1 - k]) % 2
<1>7. bit(r - 1) <=> loA = loB
  BY <1>5 DEF loA, loB
<1>8. hiA = hiB <=> \A k \in 0 .. r - 2 : bit(k)
  BY <1>4
<1>9. SameLeading(P, B, a, b, r) <=> (a \div u = b \div u <=> \A k \in 0 .. r - 1 : bit(k))
  BY DEF SameLeading, u
<1> HIDE DEF bit
<1>10. (\A k \in 0 .. r - 1 : bit(k)) <=> (\A k \in 0 .. r - 2 : bit(k)) /\ bit(r - 1)
  <2>1. r - 1 \in 0 .. r - 1 /\ \A k \in 0 .. r - 1 : k = r - 1 \/ k \in 0 .. r - 2
    OBVIOUS
  <2>2. \A k \in 0 .. r - 2 : k \in 0 .. r - 1
    OBVIOUS
  <2> QED BY <2>1, <2>2
<1> QED BY <1>6, <1>7, <1>8, <1>9, <1>10

(* So for any number of bits. *)
LEMMA LeadingBits ==
    ASSUME NEW B \in Nat, NEW P, PowersTo(P, B),
           NEW a \in 0 .. P[B] - 1, NEW b \in 0 .. P[B] - 1, NEW r \in 0 .. B
    PROVE  SameLeading(P, B, a, b, r)
<1> DEFINE T == {x \in 0 .. B : ~SameLeading(P, B, a, b, x)}
<1> SUFFICES ASSUME T # {} PROVE FALSE
  OBVIOUS
<1>1. PICK x \in T : \A y \in T : x <= y
  <2>1. T \subseteq Nat
    OBVIOUS
  <2> HIDE DEF T
  <2> QED BY <2>1, FirstExists
<1>2. P[B] \in Nat /\ P[B] > 0 /\ a \in Nat /\ b \in Nat
  <2>1. P[B] \in Nat
    BY DEF PowersTo
  <2> QED BY <2>1
<1>3. CASE x = 0
  <2>1. B - 0 = B /\ ~\E k \in 0 .. 0 - 1 : TRUE
    OBVIOUS
  <2>2. a = 0 * P[B] + a /\ b = 0 * P[B] + b
    BY <1>2
  <2>3. a \div P[B] = 0 /\ b \div P[B] = 0
    BY <1>2, <2>2, DivUnique
  <2>4. SameLeading(P, B, a, b, 0)
    BY <2>1, <2>3 DEF SameLeading
  <2> QED BY <1>1, <1>3, <2>4
<1>4. CASE x # 0
  <2>1. x \in 1 .. B /\ x - 1 \in 0 .. B /\ ~(x <= x - 1)
    BY <1>1, <1>4
  <2>2. SameLeading(P, B, a, b, x - 1)
    BY <1>1, <2>1
  <2>3. SameLeading(P, B, a, b, x)
    BY <1>2, <2>1, <2>2, OneBitMore
  <2> QED BY <1>1, <2>3
<1> QED BY <1>3, <1>4

(* A list of octets, each of B bits: bit i from the left. *)
BitAt(P, B, o, i) == (o[1 + ((i - 1) \div B)] \div P[B - 1 - ((i - 1) % B)]) % 2

(* Where bit number q * B + k is, counted from zero. *)
LEMMA BitPlace ==
    ASSUME NEW B \in Nat, B > 0, NEW P, NEW o, NEW q \in Nat, NEW k \in 0 .. B - 1
    PROVE  BitAt(P, B, o, q * B + k + 1) = (o[q + 1] \div P[B - 1 - k]) % 2
<1>1. (q * B + k + 1) - 1 = q * B + k
  <2>1. q * B \in Nat
    OBVIOUS
  <2> QED BY <2>1
<1>2. (q * B + k) \div B = q /\ (q * B + k) % B = k
  BY DivUnique
<1>3. 1 + q = q + 1
  OBVIOUS
<1> QED BY <1>1, <1>2, <1>3 DEF BitAt

(* prefix_match: whole octets, then the leading bits of the next one. *)
SamePrefix(P, B, a, b, prefix) ==
    LET whole == prefix \div B
        rem   == prefix % B IN
    /\ \A i \in 1 .. whole : a[i] = b[i]
    /\ rem = 0 \/ a[whole + 1] \div P[B - rem] = b[whole + 1] \div P[B - rem]

(* Comparing whole octets, then what is left of the prefix in the next one, is
   comparing the bits of the prefix. *)
LEMMA OctetsThenBits ==
    ASSUME NEW B \in Nat, B > 0, NEW P, PowersTo(P, B), NEW N \in Nat,
           NEW a \in [1 .. N -> 0 .. P[B] - 1], NEW b \in [1 .. N -> 0 .. P[B] - 1],
           NEW prefix \in Nat, prefix <= B * N
    PROVE  SamePrefix(P, B, a, b, prefix)
           <=> \A i \in 1 .. prefix : BitAt(P, B, a, i) = BitAt(P, B, b, i)
<1> DEFINE whole == prefix \div B
           rem   == prefix % B
<1>1. whole \in Nat /\ rem \in 0 .. B - 1 /\ prefix = whole * B + rem
  BY DivMod
<1> HIDE DEF whole, rem
<1>2. whole <= N /\ (rem # 0 => whole + 1 <= N)
  <2>1. ASSUME whole >= N + 1 PROVE FALSE
    <3>1. whole * B >= (N + 1) * B
      BY <1>1, <2>1
    <3>2. (N + 1) * B = B * N + B
      OBVIOUS
    <3> DEFINE wB == whole * B
               nB == B * N
    <3>3. wB \in Nat /\ nB \in Nat
      BY <1>1
    <3>4. prefix = wB + rem /\ prefix <= nB /\ wB >= nB + B
      BY <1>1, <3>1, <3>2
    <3> HIDE DEF wB, nB
    <3> QED BY <1>1, <3>3, <3>4
  <2>2. ASSUME whole = N, rem # 0 PROVE FALSE
    <3>1. whole * B = B * N /\ B * N \in Nat
      BY <2>2
    <3> QED BY <1>1, <2>2, <3>1
  <2> QED BY <1>1, <2>1, <2>2
<1>3. ASSUME \A i \in 1 .. whole : a[i] = b[i],
             rem = 0 \/ a[whole + 1] \div P[B - rem] = b[whole + 1] \div P[B - rem],
             NEW i \in 1 .. prefix
      PROVE  BitAt(P, B, a, i) = BitAt(P, B, b, i)
  <2> DEFINE q == (i - 1) \div B
             k == (i - 1) % B
  <2>1. i - 1 \in Nat
    OBVIOUS
  <2>2. q \in Nat /\ k \in 0 .. B - 1 /\ i - 1 = q * B + k
    BY <2>1, DivMod
  <2> HIDE DEF q, k
  <2>3. q * B \in Nat /\ i = q * B + k + 1
    BY <2>2
  <2> DEFINE unit == P[B - 1 - k]
  <2>6. /\ BitAt(P, B, a, i) = (a[q + 1] \div unit) % 2
        /\ BitAt(P, B, b, i) = (b[q + 1] \div unit) % 2
    <3>1. q \in Nat /\ k \in 0 .. B - 1
      BY <2>2
    <3>2. /\ BitAt(P, B, a, q * B + k + 1) = (a[q + 1] \div P[B - 1 - k]) % 2
          /\ BitAt(P, B, b, q * B + k + 1) = (b[q + 1] \div P[B - 1 - k]) % 2
      BY <3>1, BitPlace, ZenonT(60)
    <3> QED BY <2>3, <3>2, Zenon
  <2> HIDE DEF unit
  <2>4. CASE q < whole
    <3>1. q + 1 \in 1 .. whole
      BY <1>1, <2>2, <2>4
    <3>2. a[q + 1] = b[q + 1]
      BY <1>3, <3>1
    <3> QED BY <2>6, <3>2
  <2>5. CASE ~(q < whole)
    <3>1. q = whole
      <4>1. ASSUME q >= whole + 1 PROVE FALSE
        <5>1. q * B >= (whole + 1) * B
          BY <1>1, <2>2, <4>1
        <5>2. (whole + 1) * B = whole * B + B /\ whole * B \in Nat
          BY <1>1
        <5> DEFINE wB == whole * B
                   qB == q * B
        <5>3. /\ wB \in Nat /\ qB \in Nat /\ prefix = wB + rem
              /\ i = qB + k + 1 /\ qB >= wB + B
          BY <1>1, <2>3, <5>1, <5>2
        <5> HIDE DEF wB, qB
        <5> QED BY <1>1, <2>2, <5>3
      <4> QED BY <1>1, <2>2, <2>5, <4>1
    <3>2. k < rem /\ k \in 0 .. rem - 1 /\ rem # 0 /\ rem \in 0 .. B
      BY <1>1, <2>2, <2>3, <3>1
    <3>3. a[whole + 1] \in 0 .. P[B] - 1 /\ b[whole + 1] \in 0 .. P[B] - 1
      <4>1. whole + 1 \in 1 .. N
        BY <1>1, <1>2, <3>2
      <4> QED BY <4>1
    <3>4. SameLeading(P, B, a[whole + 1], b[whole + 1], rem)
      BY <3>2, <3>3, LeadingBits
    <3>5. (a[whole + 1] \div P[B - 1 - k]) % 2 = (b[whole + 1] \div P[B - 1 - k]) % 2
      BY <1>3, <3>2, <3>4 DEF SameLeading
    <3> QED BY <2>6, <3>1, <3>5 DEF unit
  <2> QED BY <2>4, <2>5
<1>4. ASSUME \A i \in 1 .. prefix : BitAt(P, B, a, i) = BitAt(P, B, b, i)
      PROVE  /\ \A i \in 1 .. whole : a[i] = b[i]
             /\ rem = 0 \/ a[whole + 1] \div P[B - rem] = b[whole + 1] \div P[B - rem]
  <2>1. ASSUME NEW q \in Nat, NEW r \in 0 .. B, q * B + r <= prefix, q + 1 \in 1 .. N
        PROVE  a[q + 1] \div P[B - r] = b[q + 1] \div P[B - r]
    <3>1. ASSUME NEW k \in 0 .. r - 1
          PROVE  (a[q + 1] \div P[B - 1 - k]) % 2 = (b[q + 1] \div P[B - 1 - k]) % 2
      <4>1. q * B \in Nat
        OBVIOUS
      <4>2. k \in 0 .. B - 1 /\ q * B + k + 1 \in 1 .. prefix
        BY <2>1, <4>1
      <4>3. /\ BitAt(P, B, a, q * B + k + 1) = (a[q + 1] \div P[B - 1 - k]) % 2
            /\ BitAt(P, B, b, q * B + k + 1) = (b[q + 1] \div P[B - 1 - k]) % 2
        BY <4>2, BitPlace, ZenonT(60)
      <4>4. BitAt(P, B, a, q * B + k + 1) = BitAt(P, B, b, q * B + k + 1)
        BY <1>4, <4>2
      <4> QED BY <4>3, <4>4
    <3>2. SameLeading(P, B, a[q + 1], b[q + 1], r)
      BY <2>1, LeadingBits
    <3> QED BY <3>1, <3>2 DEF SameLeading
  <2>2. ASSUME NEW i \in 1 .. whole PROVE a[i] = b[i]
    <3> DEFINE q == i - 1
    <3>1. q \in Nat /\ q + 1 = i /\ q + 1 <= whole /\ i \in 1 .. N
      BY <1>1, <1>2
    <3>2. q * B + B <= prefix
      <4>1. (q + 1) * B <= whole * B
        BY <1>1, <3>1
      <4>2. (q + 1) * B = q * B + B /\ q * B \in Nat /\ whole * B \in Nat
        BY <1>1, <3>1
      <4> QED BY <1>1, <4>1, <4>2
    <3>3. a[q + 1] \div P[B - B] = b[q + 1] \div P[B - B]
      <4>1. B \in 0 .. B
        OBVIOUS
      <4> HIDE DEF q
      <4> QED BY <2>1, <3>1, <3>2, <4>1
    <3>4. P[B - B] = 1
      <4>1. B - B = 0
        OBVIOUS
      <4> QED BY <4>1 DEF PowersTo
    <3>5. a[i] \in Nat /\ b[i] \in Nat
      <4>1. a[i] \in 0 .. P[B] - 1 /\ b[i] \in 0 .. P[B] - 1 /\ P[B] \in Nat
        BY <3>1 DEF PowersTo
      <4> QED BY <4>1
    <3>6. \A x \in Nat : x \div 1 = x
      OBVIOUS
    <3> QED BY <3>1, <3>3, <3>4, <3>5, <3>6
  <2>3. ASSUME rem # 0
        PROVE  a[whole + 1] \div P[B - rem] = b[whole + 1] \div P[B - rem]
    <3>1. whole + 1 \in 1 .. N /\ rem \in 0 .. B /\ whole * B + rem <= prefix
      BY <1>1, <1>2, <2>3
    <3> QED BY <1>1, <2>1, <3>1
  <2> QED BY <2>2, <2>3
<1> QED BY <1>3, <1>4 DEF SamePrefix, whole, rem

(* prefix_match on two addresses of a family compares their first bits. *)
LEMMA PrefixIsBits ==
    ASSUME NEW x \in Addresses, NEW y \in Addresses, x.v6 = y.v6,
           NEW prefix \in Nat, prefix <= AddressBits(x.v6)
    PROVE  prefix_match(x.octets, y.octets, prefix)
           <=> \A i \in 1 .. prefix : Bit(x, i) = Bit(y, i)
<1> DEFINE B == OctetBits
           P == [n \in 0 .. B |-> 2 ^ n]
           N == IF x.v6 THEN V6Octets ELSE V4Octets
           rem == prefix % B
<1>1. B \in Nat /\ B > 0 /\ N \in Nat
  BY AddressAssumption
<1>2. \A n \in 0 .. B : P[n] = 2 ^ n
  OBVIOUS
<1>3. PowersTo(P, B)
  <2>1. \A n \in 0 .. B : 2 ^ n \in Nat
    <3> TAKE n \in 0 .. B
    <3>1. CASE n = B
      <4>1. n - 1 \in 0 .. B - 1 /\ (n - 1) + 1 = n
        BY <1>1, <3>1
      <4> QED BY <4>1, PowersOfTwo
    <3>2. CASE n # B
      BY <1>1, <3>2, PowersOfTwo
    <3> QED BY <3>1, <3>2
  <2>2. P \in [0 .. B -> Nat]
    BY <2>1
  <2>3. P[0] = 1
    BY <1>1, <1>2, PowersOfTwo
  <2>4. ASSUME NEW n \in 0 .. B - 1 PROVE P[n] > 0 /\ P[n + 1] = 2 * P[n]
    <3>1. n \in 0 .. B /\ n + 1 \in 0 .. B
      BY <1>1
    <3> QED BY <1>2, <3>1, PowersOfTwo
  <2> HIDE DEF P, B
  <2> QED BY <2>2, <2>3, <2>4 DEF PowersTo
<1>4. Octets = 0 .. P[B] - 1
  BY <1>1, <1>2 DEF Octets
<1>5. x.octets \in [1 .. N -> Octets] /\ y.octets \in [1 .. N -> Octets]
  BY DEF Addresses, V4, V6
<1>6. prefix <= B * N
  BY DEF AddressBits
<1>7. rem \in 0 .. B - 1 /\ P[B - rem] = 2 ^ (B - rem)
  <2>1. rem \in 0 .. B - 1
    BY <1>1, DivMod
  <2> HIDE DEF rem
  <2> QED BY <1>1, <1>2, <2>1
<1>8. ASSUME NEW i \in 1 .. prefix
      PROVE  /\ Bit(x, i) = BitAt(P, B, x.octets, i)
             /\ Bit(y, i) = BitAt(P, B, y.octets, i)
  <2> DEFINE k == (i - 1) % B
  <2>1. k \in 0 .. B - 1
    <3>1. i - 1 \in Nat
      OBVIOUS
    <3> QED BY <1>1, <3>1, DivMod
  <2> HIDE DEF k
  <2>2. P[B - 1 - k] = 2 ^ (B - 1 - k)
    BY <1>1, <1>2, <2>1
  <2> HIDE DEF P
  <2> QED BY <2>2 DEF Bit, BitAt, k
<1> HIDE DEF P, N
<1>9. SamePrefix(P, B, x.octets, y.octets, prefix)
      <=> \A i \in 1 .. prefix : BitAt(P, B, x.octets, i) = BitAt(P, B, y.octets, i)
  <2>1. /\ x.octets \in [1 .. N -> 0 .. P[B] - 1]
        /\ y.octets \in [1 .. N -> 0 .. P[B] - 1]
    BY <1>4, <1>5
  <2> HIDE DEF B
  <2> QED BY <1>1, <1>3, <1>6, <2>1, OctetsThenBits
<1>10. prefix_match(x.octets, y.octets, prefix)
       <=> SamePrefix(P, B, x.octets, y.octets, prefix)
  BY <1>7 DEF prefix_match, SamePrefix
<1> QED BY <1>8, <1>9, <1>10

(* Cidr::parse and Cidr::contains: what is asked of a range. *)
LEMMA RangeAnswer ==
    ASSUME NEW r \in Ranges, NEW ip \in Addresses,
           parse_cidr(r.text, r.slash, r.prefix) # NoCidr
    PROVE  LET net  == canonical(r.text)
               host == canonical(ip)
               bits == IF r.slash THEN r.prefix ELSE AddressBits(net.v6) IN
           contains(parse_cidr(r.text, r.slash, r.prefix), host)
           <=> net.v6 = host.v6 /\ \A i \in 1 .. bits : Bit(net, i) = Bit(host, i)
<1> DEFINE net  == canonical(r.text)
           host == canonical(ip)
           bits == IF r.slash THEN r.prefix ELSE AddressBits(net.v6)
<1>1. r.text \in Addresses /\ r.prefix \in Nat
  BY RulesAssumption DEF parse_cidr
<1>2. net \in Addresses /\ host \in Addresses
  BY <1>1, CanonicalAddress
<1>3. AddressBits(net.v6) \in Nat
  BY AddressAssumption DEF AddressBits
<1>4. parse_cidr(r.text, r.slash, r.prefix) = [addr |-> net, prefix |-> bits]
  BY DEF parse_cidr
<1>5. bits \in Nat /\ bits <= AddressBits(net.v6)
  <2>1. CASE r.slash
    <3>1. ~(r.prefix > AddressBits(net.v6))
      BY <2>1 DEF parse_cidr
    <3> QED BY <1>1, <1>3, <2>1, <3>1
  <2>2. CASE ~r.slash
    BY <1>3, <2>2
  <2> QED BY <2>1, <2>2
<1> HIDE DEF net, host, bits
<1>6. contains(parse_cidr(r.text, r.slash, r.prefix), host)
      <=> net.v6 = host.v6 /\ prefix_match(net.octets, host.octets, bits)
  BY <1>4 DEF contains
<1>7. CASE net.v6 = host.v6
  BY <1>2, <1>5, <1>6, <1>7, PrefixIsBits DEF net, host, bits
<1>8. CASE net.v6 # host.v6
  BY <1>6, <1>8 DEF net, host, bits
<1> QED BY <1>7, <1>8

(* Spec => []RangeIsBitPrefix: Cidr::contains is the comparison of the first
   bits, for octets of any width, addresses of any length and every prefix. *)
THEOREM RangeIsBitPrefixHolds == Spec => []RangeIsBitPrefix
<1>1. Init => RangeIsBitPrefix
  BY DEF Init, Nothing, RangeIsBitPrefix
<1>2. RangeIsBitPrefix /\ [Next]_vars => RangeIsBitPrefix'
  <2> SUFFICES ASSUME RangeIsBitPrefix, [Next]_vars, asked'.what = "range"
               PROVE  RangeIsBitPrefix'
    BY DEF RangeIsBitPrefix
  <2>1. CASE AskRange
    <3>1. PICK r \in Ranges, ip \in Addresses :
            /\ parse_cidr(r.text, r.slash, r.prefix) # NoCidr
            /\ asked' = [what |-> "range", range |-> r, ip |-> ip,
                         answer |-> contains(parse_cidr(r.text, r.slash, r.prefix),
                                             canonical(ip))]
      BY <2>1 DEF AskRange
    <3>2. /\ asked'.range = r /\ asked'.ip = ip
          /\ asked'.answer = contains(parse_cidr(r.text, r.slash, r.prefix), canonical(ip))
      BY <3>1
    <3> QED BY <3>1, <3>2, RangeAnswer DEF RangeIsBitPrefix
  <2>2. CASE AskClient
    <3>1. asked'.what = "client"
      BY <2>2 DEF AskClient
    <3> QED BY <3>1
  <2>3. CASE PresentToken
    <3>1. asked'.what = "token"
      BY <2>3 DEF PresentToken
    <3> QED BY <3>1
  <2>4. CASE IssueToken \/ Reconfigure
    BY <2>4 DEF IssueToken, Reconfigure, Nothing
  <2>5. CASE UNCHANGED vars
    BY <2>5 DEF vars, RangeIsBitPrefix
  <2> QED BY <2>1, <2>2, <2>3, <2>4, <2>5 DEF Next
<1> QED BY <1>1, <1>2, PTL DEF Spec

-----------------------------------------------------------------------------
(* Tokens and their segments *)

(* The one member of a name. *)
LEMMA OneMember ==
    ASSUME NEW ms, NEW i \in 1 .. Len(ms), NEW name, ms[i][1] = name,
           \A j \in 1 .. Len(ms) : ms[j][1] = name => j = i
    PROVE  Count(Segment(ms), name) = 1 /\ Value(Segment(ms), name) = ms[i][2]
<1>1. Segment(ms).members = ms
  BY DEF Segment
<1>2. {j \in 1 .. Len(ms) : ms[j][1] = name} = {i}
  OBVIOUS
<1>3. Count(Segment(ms), name) = 1
  <2>1. Count(Segment(ms), name) = Cardinality({i})
    BY <1>1, <1>2 DEF Count
  <2> QED BY <2>1, FS_Singleton
<1>4. (CHOOSE j \in 1 .. Len(ms) : ms[j][1] = name) = i
  OBVIOUS
<1>5. Value(Segment(ms), name) = ms[i][2]
  BY <1>1, <1>4 DEF Value
<1> QED BY <1>3, <1>5

(* A name that no member has. *)
LEMMA NoMember ==
    ASSUME NEW ms, NEW name, \A j \in 1 .. Len(ms) : ms[j][1] # name
    PROVE  Count(Segment(ms), name) = 0
<1>1. Segment(ms).members = ms
  BY DEF Segment
<1>2. {j \in 1 .. Len(ms) : ms[j][1] = name} = {}
  OBVIOUS
<1> QED BY <1>1, <1>2, FS_EmptySet DEF Count

(* Three members, and the fourth that is there or not. *)
LEMMA ThreeOrFour ==
    ASSUME NEW a, NEW b, NEW c, NEW d
    PROVE  /\ <<a, b, c>> \o <<>> = <<a, b, c>>
           /\ LET s == <<a, b, c>> \o <<d>> IN
              Len(s) = 4 /\ s[1] = a /\ s[2] = b /\ s[3] = c /\ s[4] = d
<1> DEFINE S == {a, b, c, d}
<1>1. <<a, b, c>> \in Seq(S) /\ <<d>> \in Seq(S)
  OBVIOUS
<1>2. <<a, b, c>> \o <<>> = <<a, b, c>>
  BY <1>1
<1>3. Len(<<a, b, c>> \o <<d>>) = 4
  BY <1>1
<1>4. LET s == <<a, b, c>> \o <<d>> IN s[1] = a /\ s[2] = b /\ s[3] = c /\ s[4] = d
  BY <1>1
<1> QED BY <1>2, <1>3, <1>4

(* The members alg, kid and typ in this order, with at most a jku after them. *)
HeaderMembers(ms, alg, kid, jku) ==
    /\ ms[1] = <<"alg", alg>> /\ ms[2] = <<"kid", kid>> /\ ms[3] = <<"typ", "JWT">>
    /\ \/ Len(ms) = 3 /\ jku = NoJku
       \/ Len(ms) = 4 /\ ms[4] = <<"jku", jku>>

(* What from_base64 reads from them. *)
LEMMA HeaderRead ==
    ASSUME NEW ms, NEW alg, NEW kid, NEW jku, HeaderMembers(ms, alg, kid, jku)
    PROVE  /\ HeaderDecode(Segment(ms))
           /\ HeaderFromBase64(Segment(ms)) = [alg |-> alg, kid |-> kid, typ |-> "JWT", jku |-> jku]
<1> DEFINE seg == Segment(ms)
<1>0. Len(ms) = 3 \/ Len(ms) = 4
  BY DEF HeaderMembers
<1>1. /\ 1 \in 1 .. Len(ms) /\ 2 \in 1 .. Len(ms) /\ 3 \in 1 .. Len(ms)
      /\ \A j \in 1 .. Len(ms) : j = 1 \/ j = 2 \/ j = 3 \/ (j = 4 /\ Len(ms) = 4)
  <2>1. \A n : n = 3 \/ n = 4 =>
                 /\ 1 \in 1 .. n /\ 2 \in 1 .. n /\ 3 \in 1 .. n
                 /\ \A j \in 1 .. n : j = 1 \/ j = 2 \/ j = 3 \/ (j = 4 /\ n = 4)
    OBVIOUS
  <2> QED BY <1>0, <2>1
<1>2. /\ ms[1][1] = "alg" /\ ms[2][1] = "kid" /\ ms[3][1] = "typ"
      /\ ms[1][2] = alg /\ ms[2][2] = kid /\ ms[3][2] = "JWT"
  BY DEF HeaderMembers
<1>3. Len(ms) = 4 => ms[4][1] = "jku" /\ ms[4][2] = jku
  BY DEF HeaderMembers
<1>4. \A j \in 1 .. Len(ms) : /\ ms[j][1] = "alg" => j = 1
                              /\ ms[j][1] = "kid" => j = 2
                              /\ ms[j][1] = "typ" => j = 3
                              /\ ms[j][1] = "jku" => j = 4
  BY <1>1, <1>2, <1>3
<1>5. Count(seg, "alg") = 1 /\ Value(seg, "alg") = alg
  BY <1>1, <1>2, <1>4, OneMember
<1>6. Count(seg, "kid") = 1 /\ Value(seg, "kid") = kid
  BY <1>1, <1>2, <1>4, OneMember
<1>7. Count(seg, "typ") = 1 /\ Value(seg, "typ") = "JWT"
  BY <1>1, <1>2, <1>4, OneMember
<1>8. \/ Count(seg, "jku") = 0 /\ jku = NoJku
      \/ Count(seg, "jku") = 1 /\ Value(seg, "jku") = jku
  <2>1. CASE Len(ms) = 3
    <3>1. \A j \in 1 .. Len(ms) : j # 4
      BY <2>1
    <3>2. \A j \in 1 .. Len(ms) : ms[j][1] # "jku"
      BY <1>4, <3>1
    <3>3. jku = NoJku
      BY <2>1 DEF HeaderMembers
    <3> QED BY <3>2, <3>3, NoMember
  <2>2. CASE Len(ms) = 4
    <3>1. 4 \in 1 .. Len(ms)
      BY <2>2
    <3> QED BY <1>3, <1>4, <2>2, <3>1, OneMember
  <2> QED BY <1>0, <2>1, <2>2
<1>9. seg.ok
  BY DEF Segment
<1> HIDE DEF seg
<1>10. HeaderDecode(seg)
  <2>1. Count(seg, "jku") <= 1
    BY <1>8
  <2> QED BY <1>5, <1>6, <1>7, <1>9, <2>1 DEF HeaderDecode, HeaderFields
<1>11. (IF Count(seg, "jku") = 1 THEN Value(seg, "jku") ELSE NoJku) = jku
  BY <1>8
<1>12. HeaderFromBase64(seg) = [alg |-> alg, kid |-> kid, typ |-> "JWT", jku |-> jku]
  BY <1>5, <1>6, <1>7, <1>11 DEF HeaderFromBase64
<1> QED BY <1>10, <1>12 DEF seg

(* TokenHeaders: what to_base64 writes, from_base64 reads, jku or no jku. *)
LEMMA HeaderRoundTrip ==
    ASSUME NEW kid, NEW c
    PROVE  /\ HeaderDecode(HeaderToBase64(HeaderCreateNew(kid, c)))
           /\ HeaderFromBase64(HeaderToBase64(HeaderCreateNew(kid, c))) = HeaderCreateNew(kid, c)
<1> DEFINE m1 == <<"alg", c.alg>>
           m2 == <<"kid", kid>>
           m3 == <<"typ", "JWT">>
           m4 == <<"jku", c.jku>>
           ms == <<m1, m2, m3>> \o (IF c.jku = NoJku THEN <<>> ELSE <<m4>>)
<1>1. HeaderToBase64(HeaderCreateNew(kid, c)) = Segment(ms)
  BY DEF HeaderToBase64, HeaderCreateNew
<1>2. HeaderCreateNew(kid, c) = [alg |-> c.alg, kid |-> kid, typ |-> "JWT", jku |-> c.jku]
  BY DEF HeaderCreateNew
<1>3. HeaderMembers(ms, c.alg, kid, c.jku)
  <2> HIDE DEF m1, m2, m3, m4
  <2>1. CASE c.jku = NoJku
    <3>1. ms = <<m1, m2, m3>>
      BY <2>1, ThreeOrFour
    <3>2. Len(ms) = 3 /\ ms[1] = m1 /\ ms[2] = m2 /\ ms[3] = m3
      BY <3>1
    <3> HIDE DEF ms
    <3> QED BY <2>1, <3>2 DEF HeaderMembers, m1, m2, m3
  <2>2. CASE c.jku # NoJku
    <3>1. ms = <<m1, m2, m3>> \o <<m4>>
      BY <2>2
    <3>2. Len(ms) = 4 /\ ms[1] = m1 /\ ms[2] = m2 /\ ms[3] = m3 /\ ms[4] = m4
      BY <3>1, ThreeOrFour
    <3> HIDE DEF ms
    <3> QED BY <3>2 DEF HeaderMembers, m1, m2, m3, m4
  <2> QED BY <2>1, <2>2
<1> HIDE DEF ms
<1> QED BY <1>1, <1>2, <1>3, HeaderRead

(* The members of an object are all there, each as often as it should. *)
LEMMA ObjectMembers ==
    ASSUME NEW e, IsFiniteSet(DOMAIN e)
    PROVE  /\ MembersOf(e) \in Seq({<<n, e[n]>> : n \in DOMAIN e})
           /\ \A n \in DOMAIN e : \E i \in 1 .. Len(MembersOf(e)) : MembersOf(e)[i] = <<n, e[n]>>
           /\ \A i, j \in 1 .. Len(MembersOf(e)) :
                MembersOf(e)[i][1] = MembersOf(e)[j][1] => i = j
<1> DEFINE S == {<<n, e[n]>> : n \in DOMAIN e}
           g == [n \in DOMAIN e |-> <<n, e[n]>>]
           m == MembersOf(e)
<1>1. IsFiniteSet(S)
  <2>1. g \in [DOMAIN e -> S] /\ (\A t \in S : \E n \in DOMAIN e : g[n] = t)
    OBVIOUS
  <2>2. \A a, b \in DOMAIN e : g[a] = g[b] => a = b
    OBVIOUS
  <2>3. DOMAIN g = DOMAIN e
    OBVIOUS
  <2> HIDE DEF g, S
  <2>4. g \in Bijection(DOMAIN e, S)
    BY <2>1, <2>2, <2>3 DEF Bijection, Injection, Surjection, IsInjective
  <2> QED BY <2>4, FS_Bijection DEF ExistsBijection
<1>2. Cardinality(S) \in Nat /\ ExistsBijection(1 .. Cardinality(S), S)
  BY <1>1, FS_CardinalityType
<1>3. m \in [1 .. Cardinality(S) -> S] /\ IsInjective(m)
  <2>1. m = CHOOSE f \in [1 .. Cardinality(S) -> S] : IsInjective(f)
    BY DEF MembersOf, SetToSeq
  <2> HIDE DEF S, m
  <2>2. \E f \in [1 .. Cardinality(S) -> S] : IsInjective(f)
    BY <1>2 DEF ExistsBijection, Bijection, Injection
  <2> QED BY <2>1, <2>2
<1> HIDE DEF m, S
<1>4. m \in Surjection(1 .. Cardinality(S), S)
  <2>1. m \in Injection(1 .. Cardinality(S), S)
    BY <1>3 DEF Injection
  <2>2. Cardinality(1 .. Cardinality(S)) = Cardinality(S)
    BY <1>2, FS_Interval
  <2> QED BY <1>1, <2>1, <2>2, FS_Injection
<1>5. m \in Seq(S) /\ Len(m) = Cardinality(S)
  BY <1>2, <1>3
<1>6. \A t \in S : \E i \in 1 .. Len(m) : m[i] = t
  BY <1>4, <1>5 DEF Surjection
<1>7. \A i, j \in 1 .. Len(m) : m[i][1] = m[j][1] => i = j
  <2> SUFFICES ASSUME NEW i \in 1 .. Len(m), NEW j \in 1 .. Len(m), m[i][1] = m[j][1]
               PROVE  i = j
    OBVIOUS
  <2>1. \A t \in S : t = <<t[1], e[t[1]]>>
    BY DEF S
  <2>2. m[i] = m[j]
    BY <1>3, <1>5, <2>1
  <2> QED BY <1>3, <1>5, <2>2 DEF IsInjective
<1> QED BY <1>5, <1>6, <1>7 DEF S, m

(* The registered names are seven different ones. *)
LEMMA RegisteredNames ==
    /\ Len(Registered) = 7 /\ DOMAIN Registered = 1 .. 7
    /\ \A i, j \in 1 .. 7 : Registered[i] = Registered[j] => i = j
    /\ Range(Registered) = RESERVED_CLAIMS
    /\ \A n \in Range(Registered) : \E i \in 1 .. 7 : Registered[i] = n
    /\ \A i \in 1 .. 7 : Registered[i] \in Range(Registered)
<1>1. Len(Registered) = 7 /\ DOMAIN Registered = 1 .. 7
  BY DEF Registered
<1>2. \A i \in 1 .. 7 : i = 1 \/ i = 2 \/ i = 3 \/ i = 4 \/ i = 5 \/ i = 6 \/ i = 7
  OBVIOUS
<1>3. /\ Registered[1] = "iss" /\ Registered[2] = "sub" /\ Registered[3] = "aud"
      /\ Registered[4] = "exp" /\ Registered[5] = "iat" /\ Registered[6] = "nbf"
      /\ Registered[7] = "jti"
  BY DEF Registered
<1>4. \A i, j \in 1 .. 7 : Registered[i] = Registered[j] => i = j
  BY <1>2, <1>3
<1>5. Range(Registered) = {Registered[i] : i \in 1 .. 7}
  BY <1>1 DEF Range
<1>6. {Registered[i] : i \in 1 .. 7} = RESERVED_CLAIMS
  <2>1. \A i \in 1 .. 7 : Registered[i] \in RESERVED_CLAIMS
    BY <1>2, <1>3 DEF RESERVED_CLAIMS
  <2>2. \A n \in RESERVED_CLAIMS : \E i \in 1 .. 7 : Registered[i] = n
    <3> 1 \in 1 .. 7 /\ 2 \in 1 .. 7 /\ 3 \in 1 .. 7 /\ 4 \in 1 .. 7 /\ 5 \in 1 .. 7
        /\ 6 \in 1 .. 7 /\ 7 \in 1 .. 7
      OBVIOUS
    <3> QED BY <1>3 DEF RESERVED_CLAIMS
  <2> QED BY <2>1, <2>2
<1> QED BY <1>1, <1>4, <1>5, <1>6

(* The members of a claims segment: the registered claims and the others, each
   name once. *)
ClaimsMembers(ms, reg, extra) ==
    /\ DOMAIN ms = 1 .. Len(ms)
    /\ \A n \in Range(Registered) :
         \E i \in 1 .. Len(ms) : ms[i][1] = n /\ ms[i][2] = reg[n]
    /\ \A n \in DOMAIN extra :
         \E i \in 1 .. Len(ms) : ms[i][1] = n /\ ms[i][2] = extra[n]
    /\ \A i \in 1 .. Len(ms) : ms[i][1] \in Range(Registered) \cup DOMAIN extra
    /\ \A i, j \in 1 .. Len(ms) : ms[i][1] = ms[j][1] => i = j

(* What to_base64 writes. *)
LEMMA ClaimsWritten ==
    ASSUME NEW reg, NEW extra, IsFiniteSet(DOMAIN extra),
           DOMAIN extra \cap Range(Registered) = {}
    PROVE  \E ms : /\ ClaimsToBase64([registered |-> reg, extra |-> extra]) = Segment(ms)
                   /\ ClaimsMembers(ms, reg, extra)
<1> DEFINE R  == [i \in 1 .. Len(Registered) |-> <<Registered[i], reg[Registered[i]]>>]
           M  == MembersOf(extra)
           E  == {<<n, extra[n]>> : n \in DOMAIN extra}
           A  == {<<n, reg[n]>> : n \in Range(Registered)}
           ms == R \o M
<1>1. ClaimsToBase64([registered |-> reg, extra |-> extra]) = Segment(ms)
  BY DEF ClaimsToBase64
<1>2. Len(Registered) = 7
  BY RegisteredNames
<1>3. R \in Seq(A) /\ Len(R) = 7 /\ \A i \in 1 .. 7 : R[i] = <<Registered[i], reg[Registered[i]]>>
  <2>1. R = [i \in 1 .. 7 |-> <<Registered[i], reg[Registered[i]]>>]
    BY <1>2
  <2>2. \A i \in 1 .. 7 : R[i] = <<Registered[i], reg[Registered[i]]>> /\ R[i] \in A
    BY <2>1, RegisteredNames
  <2>3. DOMAIN R = 1 .. 7
    BY <2>1
  <2>4. R \in [1 .. 7 -> A]
    BY <2>1, <2>2
  <2> HIDE DEF R, A
  <2>5. 7 \in Nat
    OBVIOUS
  <2>6. R \in Seq(A)
    <3>1. \A k \in Nat : \A f \in [1 .. k -> A] : f \in Seq(A)
      OBVIOUS
    <3> QED BY <2>4, <2>5, <3>1
  <2>7. Len(R) = 7
    BY <2>3, <2>5, <2>6, LenProperties
  <2> QED BY <2>2, <2>6, <2>7
<1>4. M \in Seq(E)
  BY ObjectMembers
<1>5. /\ \A n \in DOMAIN extra : \E i \in 1 .. Len(M) : M[i] = <<n, extra[n]>>
      /\ \A i, j \in 1 .. Len(M) : M[i][1] = M[j][1] => i = j
  BY ObjectMembers
<1>6. \A i \in 1 .. Len(M) : \E n \in DOMAIN extra : M[i] = <<n, extra[n]>>
  <2>1. \A i \in 1 .. Len(M) : M[i] \in E
    <3> HIDE DEF M, E
    <3> QED BY <1>4
  <2> QED BY <2>1
<1>7. Len(M) \in Nat
  <2> HIDE DEF M, E
  <2> QED BY <1>4
<1>8. /\ ms \in Seq(A \cup E) /\ Len(ms) = 7 + Len(M)
      /\ \A i \in 1 .. Len(ms) : ms[i] = IF i <= 7 THEN R[i] ELSE M[i - 7]
  <2>1. R \in Seq(A \cup E) /\ M \in Seq(A \cup E)
    <3> HIDE DEF R, M, A, E
    <3> QED BY <1>3, <1>4
  <2> HIDE DEF R, M, A, E
  <2>2. ms \in Seq(A \cup E) /\ Len(ms) = Len(R) + Len(M)
    BY <2>1, ConcatProperties
  <2>3. \A i \in 1 .. Len(ms) : ms[i] = IF i <= Len(R) THEN R[i] ELSE M[i - Len(R)]
    BY <2>1, <2>2, ConcatProperties
  <2> QED BY <1>3, <2>2, <2>3
<1> HIDE DEF R, M, A, E, ms
<1>9. \A i \in 1 .. Len(ms) :
        \/ /\ i \in 1 .. 7 /\ ms[i] = <<Registered[i], reg[Registered[i]]>>
           /\ Registered[i] \in Range(Registered)
        \/ /\ i - 7 \in 1 .. Len(M) /\ ms[i] = M[i - 7]
           /\ M[i - 7][1] \in DOMAIN extra
  <2> TAKE i \in 1 .. Len(ms)
  <2>1. CASE i <= 7
    <3>1. i \in 1 .. 7 /\ ms[i] = R[i]
      BY <1>8, <2>1
    <3> QED BY <1>3, <3>1, RegisteredNames
  <2>2. CASE ~(i <= 7)
    <3>1. i - 7 \in 1 .. Len(M) /\ ms[i] = M[i - 7]
      BY <1>7, <1>8, <2>2
    <3>2. PICK n \in DOMAIN extra : M[i - 7] = <<n, extra[n]>>
      BY <1>6, <3>1
    <3> QED BY <3>1, <3>2
  <2> QED BY <2>1, <2>2
<1>10. DOMAIN ms = 1 .. Len(ms)
  BY <1>8
<1>11. ASSUME NEW n \in Range(Registered)
       PROVE  \E i \in 1 .. Len(ms) : ms[i][1] = n /\ ms[i][2] = reg[n]
  <2>1. PICK i \in 1 .. 7 : Registered[i] = n
    BY RegisteredNames
  <2>2. i \in 1 .. Len(ms) /\ ms[i] = R[i]
    BY <1>7, <1>8, <2>1
  <2>3. ms[i] = <<n, reg[n]>>
    BY <1>3, <2>1, <2>2
  <2> QED BY <2>2, <2>3
<1>12. ASSUME NEW n \in DOMAIN extra
       PROVE  \E i \in 1 .. Len(ms) : ms[i][1] = n /\ ms[i][2] = extra[n]
  <2>1. PICK k \in 1 .. Len(M) : M[k] = <<n, extra[n]>>
    BY <1>5
  <2>2. k + 7 \in 1 .. Len(ms) /\ ms[k + 7] = M[k]
    <3>1. k + 7 \in 1 .. Len(ms) /\ ~(k + 7 <= 7) /\ (k + 7) - 7 = k
      BY <1>7, <1>8
    <3> QED BY <1>8, <3>1
  <2> QED BY <2>1, <2>2
<1>13. \A i \in 1 .. Len(ms) : ms[i][1] \in Range(Registered) \cup DOMAIN extra
  <2> TAKE i \in 1 .. Len(ms)
  <2>1. CASE /\ i \in 1 .. 7 /\ ms[i] = <<Registered[i], reg[Registered[i]]>>
             /\ Registered[i] \in Range(Registered)
    BY <2>1
  <2>2. CASE i - 7 \in 1 .. Len(M) /\ ms[i] = M[i - 7] /\ M[i - 7][1] \in DOMAIN extra
    BY <2>2
  <2> QED BY <1>9, <2>1, <2>2
<1>14. ASSUME NEW i \in 1 .. Len(ms), NEW j \in 1 .. Len(ms), ms[i][1] = ms[j][1]
       PROVE  i = j
  <2> DEFINE first(x) == x \in 1 .. 7 /\ ms[x][1] = Registered[x] /\ ms[x][1] \in Range(Registered)
             other(x) == x - 7 \in 1 .. Len(M) /\ ms[x][1] = M[x - 7][1] /\ ms[x][1] \in DOMAIN extra
  <2>1. \A x \in 1 .. Len(ms) : first(x) \/ other(x)
    <3> TAKE x \in 1 .. Len(ms)
    <3>1. CASE /\ x \in 1 .. 7 /\ ms[x] = <<Registered[x], reg[Registered[x]]>>
               /\ Registered[x] \in Range(Registered)
      BY <3>1
    <3>2. CASE x - 7 \in 1 .. Len(M) /\ ms[x] = M[x - 7] /\ M[x - 7][1] \in DOMAIN extra
      BY <3>2
    <3> QED BY <1>9, <3>1, <3>2
  <2>2. CASE first(i) /\ first(j)
    BY <1>14, <2>2, RegisteredNames
  <2>3. CASE other(i) /\ other(j)
    <3>1. i - 7 = j - 7
      BY <1>5, <1>14, <2>3
    <3> QED BY <3>1
  <2>4. ~(first(i) /\ other(j)) /\ ~(other(i) /\ first(j))
    BY <1>14
  <2> QED BY <2>1, <2>2, <2>3, <2>4
<1>15. ClaimsMembers(ms, reg, extra)
  BY <1>10, <1>11, <1>12, <1>13, <1>14 DEF ClaimsMembers
<1> QED BY <1>1, <1>15

(* TokenClaims: what to_base64 writes, from_base64 reads, if no custom claim has
   the name of a registered one. *)
LEMMA ClaimsRoundTrip ==
    ASSUME NEW reg, NEW extra, IsFiniteSet(DOMAIN extra),
           DOMAIN extra \cap Range(Registered) = {},
           reg = [n \in Range(Registered) |-> reg[n]],
           extra = [n \in DOMAIN extra |-> extra[n]]
    PROVE  LET claims == [registered |-> reg, extra |-> extra] IN
           /\ ClaimsDecode(ClaimsToBase64(claims))
           /\ ClaimsFromBase64(ClaimsToBase64(claims)) = claims
<1>1. PICK ms : /\ ClaimsToBase64([registered |-> reg, extra |-> extra]) = Segment(ms)
                /\ ClaimsMembers(ms, reg, extra)
  BY ClaimsWritten, Zenon
<1> DEFINE seg == ClaimsToBase64([registered |-> reg, extra |-> extra])
<1> HIDE DEF seg
<1>2. seg.ok /\ seg.members = ms
  BY <1>1 DEF Segment, seg
<1>3. ASSUME NEW i \in 1 .. Len(ms)
      PROVE  Count(seg, ms[i][1]) = 1 /\ Value(seg, ms[i][1]) = ms[i][2]
  <2>1. \A j \in 1 .. Len(ms) : ms[j][1] = ms[i][1] => j = i
    BY <1>1 DEF ClaimsMembers
  <2> QED BY <1>1, <2>1, OneMember DEF seg
<1>4. \A n \in Range(Registered) : Count(seg, n) = 1 /\ Value(seg, n) = reg[n]
  <2> TAKE n \in Range(Registered)
  <2>1. PICK i \in 1 .. Len(ms) : ms[i][1] = n /\ ms[i][2] = reg[n]
    BY <1>1 DEF ClaimsMembers
  <2> QED BY <1>3, <2>1
<1>5. \A n \in DOMAIN extra : Value(seg, n) = extra[n]
  <2> TAKE n \in DOMAIN extra
  <2>1. PICK i \in 1 .. Len(ms) : ms[i][1] = n /\ ms[i][2] = extra[n]
    BY <1>1 DEF ClaimsMembers
  <2> QED BY <1>3, <2>1
<1>6. ClaimsDecode(seg)
  BY <1>2, <1>4 DEF ClaimsDecode
<1> DEFINE names == {m[1] : m \in Range(seg.members)}
<1>7. names = Range(Registered) \cup DOMAIN extra
  <2>1. Range(ms) = {ms[i] : i \in 1 .. Len(ms)}
    BY <1>1 DEF Range, ClaimsMembers
  <2>2. names = {ms[i][1] : i \in 1 .. Len(ms)}
    BY <1>2, <2>1
  <2>3. \A n \in Range(Registered) \cup DOMAIN extra : \E i \in 1 .. Len(ms) : ms[i][1] = n
    BY <1>1 DEF ClaimsMembers
  <2> HIDE DEF names
  <2> QED BY <1>1, <2>2, <2>3 DEF ClaimsMembers
<1>8. names \ Range(Registered) = DOMAIN extra
  <2> HIDE DEF names
  <2> QED BY <1>7
<1>9. [n \in Range(Registered) |-> Value(seg, n)] = reg
  BY <1>4
<1>10. [n \in names \ Range(Registered) |-> Value(seg, n)] = extra
  <2> HIDE DEF names
  <2> QED BY <1>5, <1>8
<1>11. ClaimsFromBase64(seg) = [registered |-> reg, extra |-> extra]
  BY <1>9, <1>10 DEF ClaimsFromBase64
<1> QED BY <1>6, <1>11 DEF seg

(* Claims that validate_custom_claims lets through are read as they were asked
   for. *)
LEMMA AcceptedClaims ==
    ASSUME NEW sub, NEW extra \in Extras, validate_custom_claims(extra)
    PROVE  /\ ClaimsDecode(ClaimsToBase64(Claims(sub, extra)))
           /\ ClaimsFromBase64(ClaimsToBase64(Claims(sub, extra))) = Claims(sub, extra)
<1> DEFINE reg == [n \in Range(Registered) |-> IF n = "sub" THEN sub ELSE "set by the service"]
<1>1. Claims(sub, extra) = [registered |-> reg, extra |-> extra]
  BY DEF Claims
<1>2. reg = [n \in Range(Registered) |-> reg[n]]
  OBVIOUS
<1>3. IsFiniteSet(DOMAIN extra) /\ extra = [n \in DOMAIN extra |-> extra[n]]
  BY RulesAssumption
<1>4. DOMAIN extra \cap Range(Registered) = {}
  BY RegisteredNames DEF validate_custom_claims
<1> HIDE DEF reg
<1> QED BY <1>1, <1>2, <1>3, <1>4, ClaimsRoundTrip

-----------------------------------------------------------------------------
(* What the service issues, it accepts *)

(* TOKEN_ALGORITHM is one of the supported algorithms.  Nothing checks it at
   startup: to_string signs under any name, and is_verify refuses the others. *)
SupportedConfigs == \A c \in Configs : c.alg \in SUPPORTED_ALGORITHMS

(* from_string on a token as to_string made it, with or without segments after
   the third. *)
LEMMA IssuedIsValid ==
    ASSUME NEW t, Issued(t), SupportedConfigs, NEW n \in Nat, n >= 3
    PROVE  /\ from_string([t.token EXCEPT !.segments = n], t.config, Keys, TRUE) = "valid"
           /\ ClaimsFromBase64(t.token.payload) = t.claims
<1>1. PICK kid \in DOMAIN Keys, sub \in Subjects, extra \in Extras, c \in Configs :
        /\ validate_custom_claims(extra)
        /\ t = [token |-> to_string(kid, Keys[kid], Claims(sub, extra), c),
                claims |-> Claims(sub, extra), config |-> c]
  BY DEF Issued
<1> DEFINE h == HeaderToBase64(HeaderCreateNew(kid, c))
           p == ClaimsToBase64(Claims(sub, extra))
           x == [t.token EXCEPT !.segments = n]
<1>2. /\ t.token = [segments |-> 3, header |-> h, payload |-> p,
                    signature |-> Signature(Keys[kid], c.alg, h, p)]
      /\ t.claims = Claims(sub, extra) /\ t.config = c
  BY <1>1 DEF to_string
<1>3. HeaderDecode(h) /\ HeaderFromBase64(h) = HeaderCreateNew(kid, c)
  BY HeaderRoundTrip
<1>4. ClaimsDecode(p) /\ ClaimsFromBase64(p) = Claims(sub, extra)
  BY <1>1, AcceptedClaims
<1> HIDE DEF h, p
<1>5. /\ x.segments = n /\ x.header = h /\ x.payload = p
      /\ x.signature = Signature(Keys[kid], c.alg, h, p)
  BY <1>2
<1>6. HeaderFromBase64(h).kid = kid /\ HeaderFromBase64(h).alg = c.alg
  BY <1>3 DEF HeaderCreateNew
<1>7. HeaderIsVerify(HeaderFromBase64(h), c)
  BY <1>3 DEF HeaderIsVerify, HeaderCreateNew, SupportedConfigs
<1>8. Signature(Keys[kid], c.alg, h, p).ok
  BY DEF Signature
<1>9. ~(n < 3)
  OBVIOUS
<1> HIDE DEF x
<1>10. from_string(x, c, Keys, TRUE) = "valid"
  BY <1>3, <1>4, <1>5, <1>6, <1>7, <1>8, <1>9 DEF from_string
<1>11. t.token.payload = p
  BY <1>2
<1>12. from_string([t.token EXCEPT !.segments = n], t.config, Keys, TRUE) = "valid"
  BY <1>2, <1>10 DEF x
<1> QED BY <1>2, <1>4, <1>11, <1>12

(* Spec => []IssuedIsAccepted, for replicas with a supported algorithm: a token
   presented as it was issued, with the settings of the issuer, is valid, and
   its claims are those that were asked for - for every set of custom claims
   validate_custom_claims accepts, TOKEN_JKU set or not. *)
THEOREM IssuedIsAcceptedHolds == Spec => [](SupportedConfigs => IssuedIsAccepted)
<1> DEFINE Inv == TokensOK /\ (SupportedConfigs => IssuedIsAccepted)
<1>1. Init => Inv
  BY DEF Init, TokensOK, IssuedIsAccepted, Nothing
<1>2. Inv /\ [Next]_vars => Inv'
  <2> SUFFICES ASSUME Inv, [Next]_vars PROVE Inv'
    OBVIOUS
  <2>1. TokensOK'
    BY TokensStep
  <2>2. ASSUME SupportedConfigs PROVE IssuedIsAccepted'
    <3> SUFFICES ASSUME asked'.what = "token", NEW t \in tokens',
                        asked'.token = [t.token EXCEPT !.segments = asked'.token.segments],
                        asked'.token.segments >= 3, t.config = config'
                 PROVE  /\ asked'.answer = "valid"
                        /\ ClaimsFromBase64(asked'.token.payload) = t.claims
      BY DEF IssuedIsAccepted
    <3>1. CASE UNCHANGED vars
      BY <2>2, <3>1 DEF vars, IssuedIsAccepted
    <3>2. CASE PresentToken
      <4>1. PICK n \in 2 .. 4, h \in Headers, p \in Payloads, s \in Signatures :
              asked' = [what |-> "token",
                        token |-> [segments |-> n, header |-> h, payload |-> p, signature |-> s],
                        answer |-> from_string([segments |-> n, header |-> h, payload |-> p,
                                                signature |-> s], config, Keys, TRUE)]
        BY <3>2 DEF PresentToken
      <4>2. tokens' = tokens /\ config' = config
        BY <3>2 DEF PresentToken
      <4>3. asked'.token.segments = n /\ n \in Nat
        BY <4>1
      <4>4. asked'.answer = from_string(asked'.token, config, Keys, TRUE)
        BY <4>1
      <4>5. Issued(t)
        BY <4>2 DEF TokensOK
      <4>6. asked'.token.payload = t.token.payload
        <5>1. [t.token EXCEPT !.segments = n].payload = t.token.payload
          BY <4>5, IssuedForm
        <5> QED BY <4>3, <5>1
      <4>7. asked'.token = [t.token EXCEPT !.segments = n] /\ n >= 3
        BY <4>3
      <4>8. /\ from_string([t.token EXCEPT !.segments = n], t.config, Keys, TRUE) = "valid"
            /\ ClaimsFromBase64(t.token.payload) = t.claims
        BY <2>2, <4>3, <4>5, <4>7, IssuedIsValid
      <4>9. t.config = config
        BY <4>2
      <4>10. asked'.answer = from_string([t.token EXCEPT !.segments = n], t.config, Keys, TRUE)
        BY <4>4, <4>7, <4>9, Zenon
      <4> QED BY <4>6, <4>8, <4>10
    <3> QED BY <3>1, <3>2, AskedKinds
  <2>3. SupportedConfigs' = SupportedConfigs
    BY DEF SupportedConfigs
  <2> QED BY <2>1, <2>2, <2>3
<1> QED BY <1>1, <1>2, PTL DEF Spec

=============================================================================
