------------------------------ MODULE MCRules ------------------------------
(* Rules for TLC: octets of two bits, one octet in an IPv4 address, three in an
   IPv6 address. *)
EXTENDS Rules

ip4(a)       == [v6 |-> FALSE, octets |-> <<a>>]
ip6(a, b, c) == [v6 |-> TRUE, octets |-> <<a, b, c>>]
Prefix       == <<0, 3>>

Entry(t, s, p) == [text |-> t, slash |-> s, prefix |-> p]

(* Every length of prefix, one past the end, an address without a prefix, a
   mapped address, and something that is no address. *)
AllRanges ==
    {Entry(ip4(2), TRUE, p) : p \in {1, 2, 3}} \cup
    {Entry(ip6(1, 2, 3), TRUE, p) : p \in 3 .. 7} \cup
    {Entry(ip6(0, 3, 2), FALSE, 0), Entry(ip6(0, 3, 3), TRUE, 2), Entry(NoAddr, FALSE, 0)}

AllChains == {<<>>, <<ip4(2)>>, <<ip6(1, 2, 0), ip4(3)>>, <<ip4(3), ip6(0, 3, 2), ip6(1, 3, 0)>>}

AllForgeries ==
    {<<>>} \cup {<<[form |-> f, addr |-> a]>> : f \in Forms, a \in {ip4(0), ip4(1), ip6(2, 0, 0)}}

AllExtras ==
    {[n \in names |-> "x"] : names \in
       {{}, {"role"}, {"nbf"}, {"exp", "role"}, {"role", "scope"}, {"role", "scope", "tenant"}}}

AllConfigs == {[alg |-> a, jku |-> j] : a \in {"RS256", "EdDSA"}, j \in {"", "https"}}
AllKeys    == [kid \in {"k1", "k2"} |-> kid]
=============================================================================
