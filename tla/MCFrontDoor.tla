---------------------------- MODULE MCFrontDoor ----------------------------
(* FrontDoor for TLC: octets of one bit, two octets in an IPv4 address, four in
   an IPv6 address. *)
EXTENDS FrontDoor, TLC

ip4(a, b) == [v6 |-> FALSE, octets |-> <<a, b>>]

Prefix   == <<0, 1>>
Proxy    == ip4(0, 0)
Client   == ip4(1, 0)
Mapped   == [v6 |-> TRUE, octets |-> Prefix \o Client.octets]
Backend  == ip4(0, 1)
Other    == ip4(1, 1)
Proxies  == trusted_proxies({[text |-> Proxy, slash |-> FALSE, prefix |-> 0],
                             [text |-> NoAddr, slash |-> FALSE, prefix |-> 0]})

Entry(f, a) == [form |-> f, addr |-> a]
Call(p, peer, xff, cred) ==
    [path |-> p, preflight |-> FALSE, peer |-> peer, xff |-> xff, cred |-> cred]

(* A flood on the secret: the client connects directly, with and without a
   forged header, from its mapped address, and through the proxy. *)
Flood ==
    {Call("/tokens/verify", Client, <<>>, "wrong"),
     Call("/tokens/verify", Mapped, <<Entry("ip", Other)>>, "wrong"),
     Call("/tokens/verify", Proxy, <<Entry("ip", Other), Entry("port", Client)>>, "right")}

(* Calls of the internal endpoints: a valid code, that code again, a wrong one. *)
CodeCalls ==
    {Call("/tokens", Backend, <<>>, "c1"),
     Call("/tokens/{jti}", Backend, <<>>, "c2"),
     Call("/tokens/refresh", Backend, <<>>, "wrong")}

Others ==
    {Call("/metrics", Backend, <<>>, "wrong"),
     Call("/livez", Backend, <<>>, "wrong"),
     [Call("/tokens/verify", Client, <<>>, "wrong") EXCEPT !.preflight = TRUE]}

AllShapes == Flood \cup CodeCalls \cup Others

On(v, i, m, p) == [verify |-> v, internal |-> i, metrics |-> m, replay |-> p]
AllSettings == {On(TRUE, TRUE, TRUE, TRUE), On(FALSE, TRUE, FALSE, FALSE),
                On(FALSE, FALSE, FALSE, TRUE), On(FALSE, FALSE, FALSE, FALSE)}

Symmetry == Permutations(Requests)
=============================================================================
