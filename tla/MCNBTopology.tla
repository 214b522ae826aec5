---------------------------- MODULE MCNBTopology ----------------------------
(***************************************************************************)
(* Plans for NBTopology: each exercises some kinds of objects with the     *)
(* changes, drift and foreign rows that concern them.                      *)
(***************************************************************************)
EXTENDS NBTopology

\* Two subnets and what they exclude, a part of the first, a third VPC's
\* worth of addresses, and destinations outside, one inside the other.
Blocks ==
  [c1 |-> {"a0", "a1", "a2", "a3"}, c2 |-> {"b0", "b1"}, x1 |-> {"a3"}, p1 |-> {"a1"}, p2 |-> {"a1", "a2"},
   d1 |-> {"o1"}, d2 |-> {"o1", "o2"}]

VPC == [t |-> "vpc", vpc |-> "v", name |-> "v"]
Provider(claims, quotas) ==
  [t |-> "pn", vpc |-> "", name |-> "net", claims |-> claims, quotas |-> quotas]
Subnet(s, cidr, gw, dhcp, provider) ==
  [t |-> "subnet", vpc |-> "v", name |-> s, cidr |-> cidr, gw |-> gw, dhcp |-> dhcp,
   exclude |-> IF cidr = "c1" THEN {"x1"} ELSE {}, provider |-> provider]
Endpoint(e, s, ip) ==
  [t |-> "ep", vpc |-> "v", name |-> e, subnet |-> s, ip |-> ip, mac |-> e]
Route(dst, hops, bfd) == [dst |-> dst, hops |-> hops, bfd |-> bfd]
RT(n, routes) == [t |-> "rt", vpc |-> "v", name |-> n, routes |-> routes]
PR(n, prio, src, dst, act, hops) ==
  [t |-> "policy", vpc |-> "v", name |-> n, prio |-> prio, src |-> src, dst |-> dst,
   proto |-> "", ports |-> {}, act |-> act, hops |-> hops]
GW(n, lan, ext) ==
  [t |-> "gw", vpc |-> "v", name |-> n, lan |-> lan, node |-> "n", ext |-> ext]
SNAT(n, ext, match) ==
  [t |-> "nat", vpc |-> "v", name |-> n, type |-> "snat", ext |-> ext, port |-> 0, proto |-> "",
   match |-> match, target |-> "", tport |-> 0]
DNAT(n, ext, port, proto, target) ==
  [t |-> "nat", vpc |-> "v", name |-> n, type |-> "dnat", ext |-> ext, port |-> port,
   proto |-> proto, match |-> "", target |-> target, tport |-> port]
LB(n, vip, protos, subnets, backends, hc) ==
  [t |-> "lb", vpc |-> "v", name |-> n, vip |-> vip, port |-> 1, protos |-> protos,
   subnets |-> subnets, backends |-> {[ip |-> b, up |-> b # "a2"] : b \in backends}, hc |-> hc]
DNS(val) == [t |-> "dns", vpc |-> "v", name |-> "dns", val |-> val]

Plan(states, tables, hows, start) ==
  [states |-> states, later |-> states, tables |-> tables, drifts |-> hows, start |-> start]

S1 == Subnet("s1", "c1", "a0", FALSE, "")
S2 == Subnet("s2", "c2", "b0", FALSE, "")

\* What an earlier run left: the router, and the switches of the subnets.
OldRouter == Stamp(1, RouterWant("v", NoGateway), {})
OldSwitch(i, o) == Stamp(i, SwitchWant(o), {})

Routing ==
  Plan({<<VPC, S1, RT("t1", <<Route("d1", <<"a1", "a2">>, "s1")>>),
          PR("p1", 1, "p1", "d1", "drop", <<>>)>>,
        <<VPC, S1, RT("t1", <<Route("d2", <<"a1">>, "")>>), RT("t2", <<Route("d1", <<"a1">>, "s1")>>)>>,
        <<VPC, S1, RT("t1", <<Route("d1", <<>>, "")>>), PR("p2", 1, "p1", "d1", "drop", <<>>)>>},
       {"route", "bfd", "policy"}, {"delete", "column"}, {OldRouter})

Switching ==
  Plan({<<VPC, Provider({}, {}), Subnet("s1", "c1", "a0", TRUE, "net"), Endpoint("e1", "s1", "a1"), DNS("r1")>>,
        <<VPC, S1, Subnet("s2", "c2", "b0", TRUE, ""), Endpoint("e1", "s1", "a2"), DNS("r2")>>,
        <<VPC, Subnet("s2", "c2", "b0", TRUE, ""), Endpoint("e2", "s2", "b1")>>},
       {"ls", "lrp", "lsp", "dhcp", "dns"}, {"delete", "column"}, {})

\* NAT rules somebody else put on the router before the controller came.
ForeignNAT(i, ext) ==
  [Stamp(i, NATWant(SNAT("x", ext, "l9")), {1}) EXCEPT !.own = FALSE, !.key = <<"other">>]

Translation ==
  Plan({<<VPC, S1, GW("g1", "a1", "if1"), SNAT("n1", "e1", "p1"), DNAT("n2", "e2", 1, "tcp", "a2")>>,
        <<VPC, S1, GW("g2", "a2", "if1"), SNAT("n1", "e1", "p2")>>,
        <<VPC, S1, SNAT("n3", "e1", "p1")>>, <<>>},
       {"nat", "lr"}, {"delete", "column"}, {OldRouter, ForeignNAT(2, "e1"), ForeignNAT(3, "e9")})

\* The router and the switches are there: a reconcile that fails before it has
\* made the switch of a load balancer is never completed.
Fabric == <<VPC, S1, S2>>
FabricRows == {OldRouter, OldSwitch(2, S1), OldSwitch(3, S2)}

Balancing ==
  Plan({Fabric \o <<LB("b", "e1", <<"tcp", "udp">>, {"s1"}, {"a1"}, TRUE)>>,
        Fabric \o <<LB("b", "e1", <<"tcp">>, {"s2"}, {"a1", "a2"}, TRUE)>>,
        Fabric \o <<LB("b", "e1", <<"tcp">>, {"s2"}, {"a1", "a2"}, FALSE)>>},
       {"lb", "hc"}, {"delete", "column", "detach"}, FabricRows)

\* Settings of a switch nothing else depends on.
Leasing ==
  Plan({<<VPC, Subnet("s1", "c1", "a0", TRUE, "")>>, <<VPC, S1>>}, {}, {}, {})

\* What a desired state adds to the fabric: right, wrong, or wrong with
\* something else.
Parts ==
  {RT("t1", <<Route("d1", <<"a1">>, "s1")>>), RT("t2", <<Route("d1", <<"b1">>, "")>>),
   RT("t3", <<Route("d2", <<>>, "")>>), RT("t4", <<Route("d2", <<"a1", "a2">>, "s1")>>),
   RT("t5", <<Route("d2", <<"a3">>, "")>>), RT("t6", <<Route("d2", <<"a1">>, "s9")>>),
   PR("p1", 2, "p1", "", "reroute", <<"b1">>), PR("p2", 2, "p2", "d1", "allow", <<>>),
   PR("p3", 1, "", "d2", "drop", <<>>), PR("p4", 1, "c1", "", "drop", <<>>),
   [PR("p5", 2, "", "d1", "drop", <<>>) EXCEPT !.proto = "tcp", !.ports = {1}],
   [PR("p6", 2, "", "", "reject", <<>>) EXCEPT !.proto = "udp"],
   GW("g1", "a1", "if1"), GW("g2", "a2", "if1"), GW("g3", "a2", "if2"), GW("g4", "a0", "if3"),
   SNAT("n1", "e1", "p1"), SNAT("n2", "e1", "c2"), SNAT("n3", "e2", "p2"),
   DNAT("n4", "e1", 0, "", "a1"), DNAT("n5", "e1", 1, "tcp", "a1"), DNAT("n6", "e1", 1, "udp", "b1"),
   DNAT("n7", "e1", 2, "tcp", "b1"), DNAT("n8", "a1", 0, "", "b1"),
   LB("b1", "e1", <<"tcp">>, {}, {"a1"}, TRUE), LB("b2", "e1", <<"udp">>, {"s1"}, {"a1", "b1"}, FALSE),
   LB("b3", "e1", <<"udp">>, {"s2"}, {"b1"}, FALSE), LB("b4", "e2", <<"tcp">>, {"s9"}, {"a1"}, TRUE),
   LB("b5", "e2", <<"tcp">>, {}, {"a2"}, FALSE),
   Endpoint("e1", "s1", "a1"), Endpoint("e2", "s2", "a1"), Endpoint("e3", "s9", "b1"),
   Endpoint("e4", "s1", "a2"), Endpoint("e5", "s1", "a0"), Endpoint("e6", "s1", "a3"),
   Provider({"if1"}, {}), [Provider({"if1"}, {}) EXCEPT !.name = "other"], Subnet("s3", "p1", "a1", FALSE, ""), Subnet("s1", "d1", "o1", FALSE, "")}

\* A tenant with two subnets, endpoints and NAT rules on a provider network
\* that lets it have at most max objects of a kind.
Limited(kind, max) ==
  <<VPC, Provider({"if1"}, {[vpc |-> "v", kind |-> kind, max |-> max]}),
    Subnet("s1", "c1", "a0", FALSE, "net"), Subnet("s2", "c2", "b0", FALSE, "net"),
    Endpoint("e1", "s1", "a1"), Endpoint("e2", "s2", "b1"),
    SNAT("n1", "e1", "p1"), SNAT("n2", "e2", "c2")>>

Combining ==
  [Plan({Fabric \o SetToSeq({x, y}) : x, y \in Parts}
          \cup {Limited(k, m) : k \in {"subnet", "ep", "nat", "policy", "lb"}, m \in {1, 2}},
        {}, {}, FabricRows)
     EXCEPT !.later = {}]

Packet(src, dst, proto, port) ==
  [vpc |-> "v", src |-> src, dst |-> dst, proto |-> proto, port |-> port]
SomePackets ==
  {Packet(s, t, p[1], p[2]) : s \in {"a1", "a2", "b1"}, t \in {"a1", "o1", "o2", "e1", "e2"},
                              p \in {<<"tcp", 1>>, <<"udp", 1>>, <<"tcp", 2>>}}

AllPlans ==
  [routing |-> Routing, switching |-> Switching, translation |-> Translation,
   balancing |-> Balancing, leasing |-> Leasing, combining |-> Combining]

-----------------------------------------------------------------------------
\* Plans the code does not cope with: a load balancer on a subnet that is yet
\* to be created, an endpoint that moves to another subnet, names that drift.
OnlyWaiting == [waiting |-> [Balancing EXCEPT !.start = {}]]
OnlyMoving ==
  [moving |-> Plan({Fabric \o <<Endpoint("e1", "s1", "a1")>>, Fabric \o <<Endpoint("e1", "s2", "b1")>>},
                   {}, {}, {})]
OnlyRenaming ==
  [renaming |-> Plan({<<VPC, S1, Endpoint("e1", "s1", "a1")>>},
                     {"lr", "ls", "lrp", "lsp"}, {"rename"}, {})]
=============================================================================
