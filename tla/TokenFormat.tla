---------------------------- MODULE TokenFormat ----------------------------
(***************************************************************************)
(* The token on the wire (models/jwt.rs): the claims a client may add, the *)
(* JSON objects of header and claims, the signature over both, and the     *)
(* order in which a presented token is taken apart.                        *)
(*                                                                         *)
(* A segment is the list of members of a JSON object, as it is written, or *)
(* something that does not decode.  A signature names what was signed, by  *)
(* which key and with which digest: nobody else can make it.               *)
(***************************************************************************)
EXTENDS SequencesExt

CONSTANTS
    TOKEN_CLAIMS_MAX_COUNT, TOKEN_CLAIMS_MAX_BYTES,
    MemberBytes         \* bytes a member of the custom claims takes

Registered == <<"iss", "sub", "aud", "exp", "iat", "nbf", "jti">>

(* Mutated: a name is missing from the list. *)
RESERVED_CLAIMS_NoNbf == {"iss", "sub", "aud", "exp", "iat", "jti"}

RESERVED_CLAIMS == {"iss", "sub", "aud", "exp", "iat", "nbf", "jti"}

(* An object of n members with its braces and commas. *)
ObjectBytes(n) == IF n = 0 THEN 2 ELSE 1 + n * (MemberBytes + 1)

validate_custom_claims(extra) ==
    \/ DOMAIN extra = {}
    \/ /\ Cardinality(DOMAIN extra) <= TOKEN_CLAIMS_MAX_COUNT
       /\ DOMAIN extra \cap RESERVED_CLAIMS = {}
       /\ ObjectBytes(Cardinality(DOMAIN extra)) <= TOKEN_CLAIMS_MAX_BYTES

-----------------------------------------------------------------------------
(* Objects *)

Junk == [ok |-> FALSE, members |-> <<>>]
Segment(members) == [ok |-> TRUE, members |-> members]

MembersOf(f) == SetToSeq({<<n, f[n]>> : n \in DOMAIN f})
Count(seg, name) == Cardinality({i \in 1 .. Len(seg.members) : seg.members[i][1] = name})

(* The value of a member that is there. *)
Value(seg, name) ==
    seg.members[CHOOSE i \in 1 .. Len(seg.members) : seg.members[i][1] = name][2]

(* TokenClaims::to_base64: the registered claims, and the others beside them. *)
ClaimsToBase64(claims) ==
    Segment([i \in 1 .. Len(Registered) |-> <<Registered[i], claims.registered[Registered[i]]>>]
            \o MembersOf(claims.extra))

(* TokenClaims::from_base64: every registered claim once, the rest is extra. *)
ClaimsDecode(seg) == seg.ok /\ \A n \in Range(Registered) : Count(seg, n) = 1

ClaimsFromBase64(seg) ==
    LET names == {m[1] : m \in Range(seg.members)} IN
    [registered |-> [n \in Range(Registered) |-> Value(seg, n)],
     extra |-> [n \in names \ Range(Registered) |-> Value(seg, n)]]

HeaderFields == {"alg", "kid", "typ"}

(* TOKEN_JKU when it is not set. *)
NoJku == ""

(* TokenHeaders::create_new *)
HeaderCreateNew(kid, config) ==
    [alg |-> config.alg, kid |-> kid, typ |-> "JWT", jku |-> config.jku]

(* TokenHeaders::to_base64: jku is written only when it is set. *)
HeaderToBase64(h) ==
    Segment(<<<<"alg", h.alg>>, <<"kid", h.kid>>, <<"typ", h.typ>>>>
            \o (IF h.jku = NoJku THEN <<>> ELSE <<<<"jku", h.jku>>>>))

(* TokenHeaders::from_base64; unknown members are passed over. *)
HeaderDecode(seg) ==
    /\ seg.ok
    /\ \A n \in HeaderFields : Count(seg, n) = 1
    /\ Count(seg, "jku") <= 1

HeaderFromBase64(seg) ==
    [alg |-> Value(seg, "alg"), kid |-> Value(seg, "kid"), typ |-> Value(seg, "typ"),
     jku |-> IF Count(seg, "jku") = 1 THEN Value(seg, "jku") ELSE NoJku]

SUPPORTED_ALGORITHMS == {"RS256", "RS384", "RS512", "ES256", "ES384", "ES512", "EdDSA"}

(* TokenHeaders::is_verify *)
HeaderIsVerify(h, config) ==
    /\ h.alg \in SUPPORTED_ALGORITHMS
    /\ h.jku = config.jku
    /\ h.typ = "JWT"

-----------------------------------------------------------------------------
(* Tokens *)

(* The digest of signing and of verification. *)
Digest(alg) ==
    CASE alg \in {"RS256", "ES256"} -> "sha256"
      [] alg \in {"RS384", "ES384"} -> "sha384"
      [] alg \in {"RS512", "ES512"} -> "sha512"
      [] OTHER -> "none"

(* Mutated: only the header is signed. *)
SigningInput_HeaderOnly(header, claims) == header

SigningInput(header, claims) == <<header, claims>>

Signature(key, alg, header, claims) ==
    [ok |-> TRUE, key |-> key, digest |-> Digest(alg), over |-> SigningInput(header, claims)]

NoSignature == [ok |-> FALSE, key |-> "none", digest |-> "none", over |-> <<>>]

(* JsonWebToken::to_string *)
to_string(kid, key, claims, config) ==
    LET header  == HeaderToBase64(HeaderCreateNew(kid, config))
        payload == ClaimsToBase64(claims) IN
    [segments |-> 3, header |-> header, payload |-> payload,
     signature |-> Signature(key, config.alg, header, payload)]

(* JsonWebToken::from_string: what is checked before what.  Segments after the
   third are not looked at; keys are the public keys by kid, and current is the
   verdict on the claims (TokenClaims::is_verify, in TokenService). *)
from_string(t, config, keys, current) ==
    IF t.segments < 3 \/ ~HeaderDecode(t.header) THEN "Broken"
    ELSE LET h == HeaderFromBase64(t.header) IN
         IF h.kid \notin DOMAIN keys THEN "BadSignature"
         ELSE IF ~t.signature.ok THEN "Broken"
         ELSE IF t.signature # Signature(keys[h.kid], h.alg, t.header, t.payload)
         THEN "BadSignature"
         ELSE IF ~ClaimsDecode(t.payload) THEN "Broken"
         ELSE IF ~HeaderIsVerify(h, config) \/ ~current THEN "NotValid"
         ELSE "valid"
=============================================================================
