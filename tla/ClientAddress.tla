--------------------------- MODULE ClientAddress ---------------------------
(***************************************************************************)
(* Whose bucket a request is charged to: the address arithmetic of         *)
(* rate_limit.rs.  Addresses keep the structure of the code - two          *)
(* families, octets, IPv4 mapped into IPv6, prefixes counted in bits - at  *)
(* widths that are constants.                                              *)
(***************************************************************************)
EXTENDS Naturals, Sequences

CONSTANTS
    OctetBits,      \* bits of an octet (8)
    V4Octets,       \* octets of an IPv4 address (4)
    V6Octets,       \* octets of an IPv6 address (16)
    MappedPrefix,   \* the octets in front of a mapped IPv4 address (::ffff:)
    GroupOctets,    \* octets that name one IPv6 client (7, a /56)
    NoAddr          \* an absent or unparsable address

Octets == 0 .. 2 ^ OctetBits - 1

V4 == [v6 : {FALSE}, octets : [1 .. V4Octets -> Octets]]
V6 == [v6 : {TRUE}, octets : [1 .. V6Octets -> Octets]]
Addresses == V4 \cup V6

ASSUME AddressAssumption ==
    /\ OctetBits \in Nat \ {0}
    /\ V4Octets \in Nat \ {0}
    /\ V6Octets \in Nat
    /\ GroupOctets \in 0 .. V6Octets
    /\ MappedPrefix \in Seq(Octets)
    /\ Len(MappedPrefix) + V4Octets = V6Octets
    /\ NoAddr \notin Addresses
    /\ 0 \in Octets

IsMapped(ip) == ip.v6 /\ \A i \in 1 .. Len(MappedPrefix) : ip.octets[i] = MappedPrefix[i]

(* One family for one host: a mapped address is the IPv4 address inside. *)
canonical(ip) ==
    IF IsMapped(ip)
    THEN [v6 |-> FALSE,
          octets |-> [i \in 1 .. V4Octets |-> ip.octets[Len(MappedPrefix) + i]]]
    ELSE ip

(* An IPv6 client is its /56. *)
group_v6(ip) ==
    IF ip.v6
    THEN [v6 |-> TRUE,
          octets |-> [i \in 1 .. V6Octets |-> IF i <= GroupOctets THEN ip.octets[i] ELSE 0]]
    ELSE ip

-----------------------------------------------------------------------------
(* Trusted proxies *)

(* Mutated: the octet the prefix ends in is not compared. *)
prefix_match_WholeOctets(a, b, prefix) ==
    \A i \in 1 .. prefix \div OctetBits : a[i] = b[i]

(* Whole octets are compared first, then the leading bits of the next one. *)
prefix_match(a, b, prefix) ==
    LET whole == prefix \div OctetBits
        rem   == prefix % OctetBits
        unit  == 2 ^ (OctetBits - rem) IN
    /\ \A i \in 1 .. whole : a[i] = b[i]
    /\ rem = 0 \/ a[whole + 1] \div unit = b[whole + 1] \div unit

AddressBits(v6) == OctetBits * (IF v6 THEN V6Octets ELSE V4Octets)

NoCidr == [addr |-> NoAddr, prefix |-> 0]

(* Cidr::parse of an entry: text is its address part (NoAddr when that is no
   address), slash whether a prefix follows it.  The address is normalised
   before the prefix is checked against its family. *)
parse_cidr(text, slash, prefix) ==
    IF text = NoAddr THEN NoCidr
    ELSE LET addr == canonical(text)
             max  == AddressBits(addr.v6) IN
         IF ~slash THEN [addr |-> addr, prefix |-> max]
         ELSE IF prefix > max THEN NoCidr
         ELSE [addr |-> addr, prefix |-> prefix]

(* RATE_LIMIT_TRUSTED_PROXIES: entries that do not parse are skipped. *)
trusted_proxies(entries) ==
    {parse_cidr(e.text, e.slash, e.prefix) : e \in entries} \ {NoCidr}

contains(cidr, ip) ==
    cidr.addr.v6 = ip.v6 /\ prefix_match(cidr.addr.octets, ip.octets, cidr.prefix)

ip_is_trusted(ip, trusted) == \E c \in trusted : contains(c, ip)

-----------------------------------------------------------------------------
(* X-Forwarded-For *)

(* How an entry is written: an address, an address with a port that is not an
   address as a whole, a bracketed IPv6 address with a port, or neither. *)
Forms == {"ip", "port", "bracket", "junk"}

parse_forwarded_ip(e) ==
    IF e.form \in {"ip", "port"} THEN canonical(e.addr) ELSE NoAddr

(* Mutated: the leftmost entry is taken for the client. *)
client_from_forwarded_Left(xff, trusted) ==
    LET parsed == {i \in 1 .. Len(xff) : parse_forwarded_ip(xff[i]) # NoAddr} IN
    IF parsed # {}
    THEN parse_forwarded_ip(xff[CHOOSE i \in parsed : \A j \in parsed : i <= j])
    ELSE NoAddr

(* From the right, the first address that is not a trusted proxy; the leftmost
   when all of them are.  Entries that do not parse are not there. *)
client_from_forwarded(xff, trusted) ==
    LET parsed  == {i \in 1 .. Len(xff) : parse_forwarded_ip(xff[i]) # NoAddr}
        foreign == {i \in parsed : ~ip_is_trusted(parse_forwarded_ip(xff[i]), trusted)} IN
    IF foreign # {}
    THEN parse_forwarded_ip(xff[CHOOSE i \in foreign : \A j \in foreign : j <= i])
    ELSE IF parsed # {}
    THEN parse_forwarded_ip(xff[CHOOSE i \in parsed : \A j \in parsed : i <= j])
    ELSE NoAddr

(* Mutated: the header is believed whoever sends it. *)
resolve_key_ip_AnyPeer(peer, xff, trusted) ==
    LET client == client_from_forwarded(xff, trusted) IN
    IF peer = NoAddr THEN NoAddr
    ELSE group_v6(IF client # NoAddr THEN client ELSE canonical(peer))

(* The header counts only when the peer is a trusted proxy. *)
resolve_key_ip(peer, xff, trusted) ==
    IF peer = NoAddr THEN NoAddr
    ELSE LET direct == canonical(peer)
             client == client_from_forwarded(xff, trusted) IN
         group_v6(IF ip_is_trusted(direct, trusted) /\ client # NoAddr
                  THEN client ELSE direct)
=============================================================================
