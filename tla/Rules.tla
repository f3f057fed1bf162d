------------------------------- MODULE Rules -------------------------------
(***************************************************************************)
(* The pure algorithms of the service on inputs of every shape, against    *)
(* what they are for: address ranges and forwarding chains (ClientAddress),*)
(* and tokens that are issued, taken apart and put together again          *)
(* (TokenFormat).                                                          *)
(***************************************************************************)
EXTENDS ClientAddress, TokenFormat

CONSTANTS
    Ranges,         \* entries of RATE_LIMIT_TRUSTED_PROXIES: [text, slash, prefix]
    Chains,         \* the proxies between a client and the service
    Forgeries,      \* what a client may write into the forwarding header
    Subjects,
    Extras,         \* custom claims that are asked for
    Configs,        \* TOKEN_ALGORITHM and TOKEN_JKU: [alg, jku]
    Keys,           \* the signing keys by kid
    MaxTokens       \* bound on the tokens issued

ASSUME RulesAssumption ==
    /\ Chains \subseteq Seq(Addresses)
    /\ Forgeries \subseteq Seq([form : Forms, addr : Addresses])
    /\ \A r \in Ranges : r.text \in Addresses \cup {NoAddr} /\ r.prefix \in Nat
    /\ \A e \in Extras : IsFiniteSet(DOMAIN e) /\ e = [n \in DOMAIN e |-> e[n]]

(* Arithmetic that the proofs need and the provers do not know. *)
ASSUME PowersOfTwo ==
    /\ 2 ^ 0 = 1
    /\ \A n \in 0 .. OctetBits - 1 : 2 ^ n \in Nat \ {0} /\ 2 ^ (n + 1) = 2 * 2 ^ n

VARIABLES
    asked,      \* the last question: which algorithm, its input, its answer
    tokens,     \* the tokens handed out: [token, claims, config]
    config      \* the configuration of the replica

vars == <<asked, tokens, config>>

Nothing == [what |-> "nothing"]

Init ==
    /\ asked = Nothing
    /\ tokens = {}
    /\ config \in Configs

-----------------------------------------------------------------------------
(* Is ip in the range? *)
AskRange ==
    /\ asked = Nothing /\ tokens = {}
    /\ \E r \in Ranges, ip \in Addresses :
         LET cidr == parse_cidr(r.text, r.slash, r.prefix) IN
         /\ cidr # NoCidr
         /\ asked' = [what |-> "range", range |-> r, ip |-> ip,
                      answer |-> contains(cidr, canonical(ip))]
    /\ UNCHANGED <<tokens, config>>

(* Each proxy appends the address it was called from to the header, written in
   a form of its own. *)
Received(client, chain, forms, forged) ==
    forged \o [i \in 1 .. Len(chain) |->
                 [form |-> forms[i], addr |-> IF i = 1 THEN client ELSE chain[i - 1]]]

(* Whose bucket is it, behind a chain of trusted proxies? *)
AskClient ==
    /\ asked = Nothing /\ tokens = {}
    /\ \E client \in Addresses, chain \in Chains, forged \in Forgeries :
       \E forms \in [1 .. Len(chain) -> Forms \ {"junk"}] :
         LET peer == IF chain = <<>> THEN client ELSE chain[Len(chain)] IN
         asked' = [what |-> "client", client |-> client, chain |-> chain, forms |-> forms,
                   answer |-> resolve_key_ip(peer, Received(client, chain, forms, forged),
                                             trusted_proxies(Ranges))]
    /\ UNCHANGED <<tokens, config>>

(* A token for a subject; the other registered claims follow it. *)
Claims(sub, extra) ==
    [registered |-> [n \in Range(Registered) |-> IF n = "sub" THEN sub ELSE "set by the service"],
     extra |-> extra]

IssueToken ==
    /\ Cardinality(tokens) < MaxTokens
    /\ \E sub \in Subjects, extra \in Extras, kid \in DOMAIN Keys :
         /\ validate_custom_claims(extra)
         /\ tokens' = tokens \cup
              {[token |-> to_string(kid, Keys[kid], Claims(sub, extra), config),
                claims |-> Claims(sub, extra), config |-> config]}
    /\ asked' = Nothing
    /\ UNCHANGED config

(* The replica is started with other settings. *)
Reconfigure ==
    /\ config' \in Configs
    /\ asked' = Nothing
    /\ UNCHANGED tokens

(* What can be put together from the tokens that are around, and what a client
   writes itself. *)
Headers    == {t.token.header : t \in tokens} \cup {Junk}
Payloads   == {t.token.payload : t \in tokens} \cup {Junk}
              \cup {ClaimsToBase64(Claims(sub, <<>>)) : sub \in Subjects}
Signatures == {t.token.signature : t \in tokens} \cup {NoSignature}

PresentToken ==
    /\ asked = Nothing
    /\ \E n \in 2 .. 4, h \in Headers, p \in Payloads, s \in Signatures :
         LET t == [segments |-> n, header |-> h, payload |-> p, signature |-> s] IN
         asked' = [what |-> "token", token |-> t,
                   answer |-> from_string(t, config, Keys, TRUE)]
    /\ UNCHANGED <<tokens, config>>

Next == AskRange \/ AskClient \/ IssueToken \/ Reconfigure \/ PresentToken

Spec == Init /\ [][Next]_vars

-----------------------------------------------------------------------------
(***************************************************************************)
(* Properties                                                              *)
(***************************************************************************)
(* Bit i of an address, from the left. *)
Bit(ip, i) ==
    (ip.octets[1 + (i - 1) \div OctetBits] \div 2 ^ (OctetBits - 1 - ((i - 1) % OctetBits))) % 2

(* Cidr::contains: a host is in a range if and only if its first bits are those
   of the range, for every length of prefix, however host and range are
   written. *)
RangeIsBitPrefix ==
    asked.what = "range" =>
      LET net  == canonical(asked.range.text)
          host == canonical(asked.ip)
          bits == IF asked.range.slash THEN asked.range.prefix ELSE AddressBits(net.v6) IN
      asked.answer <=>
        net.v6 = host.v6 /\ \A i \in 1 .. bits : Bit(net, i) = Bit(host, i)

(* "the real client behind a chain of proxies" (client_from_forwarded): behind
   trusted proxies that each append their caller, the bucket is that of the
   client whatever it wrote into the header itself - unless it is a trusted
   proxy too, or the first proxy writes it as [IPv6]:port, which
   parse_forwarded_ip does not read.  How the other proxies write each other
   does not matter. *)
ChainNamesClient ==
    asked.what = "client"
    /\ (asked.chain # <<>> => asked.forms[1] # "bracket")
    /\ (\A i \in 1 .. Len(asked.chain) :
          ip_is_trusted(canonical(asked.chain[i]), trusted_proxies(Ranges)))
    /\ ~ip_is_trusted(canonical(asked.client), trusted_proxies(Ranges)) =>
      asked.answer = group_v6(canonical(asked.client))

(* "an issued token would fail its own verification" (to_string) if the two
   sides differed: a token presented as it was issued, to a replica with the
   settings of the issuer, is valid and carries the claims that were asked for
   - whatever custom claims were accepted. *)
IssuedIsAccepted ==
    asked.what = "token" =>
      \A t \in tokens :
        /\ asked.token = [t.token EXCEPT !.segments = asked.token.segments]
        /\ asked.token.segments >= 3 /\ t.config = config
        => asked.answer = "valid" /\ ClaimsFromBase64(asked.token.payload) = t.claims

(* Nothing but an issued token is valid: no header, claims or signature of one
   token goes with those of another, and none is made by a client. *)
AcceptedWasIssued ==
    asked.what = "token" /\ asked.answer = "valid" =>
      \E t \in tokens : asked.token = [t.token EXCEPT !.segments = asked.token.segments]
=============================================================================
