---------------------------- MODULE MCPolicyPath ----------------------------
(***************************************************************************)
(* Addresses of 3 bits, ports of 4, two priorities.  Most plans are pairs  *)
(* of rules that meet in every way; the rest are about groups, services,   *)
(* names and what observers learn.                                         *)
(***************************************************************************)
EXTENDS PolicyPath

a4(n) == [fam |-> 4, n |-> n]
a6(n) == [fam |-> 6, n |-> n]
p4(n, bits) == [fam |-> 4, n |-> n, bits |-> bits]
p6(n, bits) == [fam |-> 6, n |-> n, bits |-> bits]

MCPrivate == {p4(2, 2), p6(4, 1)}
MCFragNeeded == <<2, 1>>
MCNeighbour == {3}

Rule(id, prio, dir, proto, remote, ports, icmp, action) ==
  [id |-> id, prio |-> prio, dir |-> dir, proto |-> proto, remote |-> remote, ports |-> ports,
   named |-> {}, icmp |-> icmp, action |-> action, stateful |-> FALSE]
Group(tier, deny, rules) == [tier |-> tier, deny |-> deny, rules |-> rules]
Unset == [d \in Direction |-> "unset"]
Off == [d \in Direction |-> "off"]

Endpoint(id, ip, groups, labels, named) ==
  [id |-> id, node |-> "n1", ip |-> ip, groups |-> groups, labels |-> labels, named |-> named]
Web(port) == [proto |-> "tcp", name |-> "web", port |-> port]

E4 == Endpoint("e", a4(1), <<"g">>, {}, {Web(5)})
E6 == Endpoint("e", a6(1), <<"g">>, {}, {Web(5)})
Both == [E4 EXCEPT !.groups = <<"g", "h">>]
M1 == Endpoint("m1", a4(2), <<"m">>, {"db"}, {Web(5)})
M2 == Endpoint("m2", a4(3), <<"m">>, {"db"}, {Web(6)})

Ctx(ep, groups) ==
  [eps |-> {ep, M1, M2}, groups |-> groups @@ [m |-> Group(1, Unset, <<>>)],
   subnets |-> {p4(0, 1), p6(0, 2)}, gateways |-> {[ip |-> a4(4), node |-> "n1"], [ip |-> a4(5), node |-> "n2"]},
   services |-> [s |-> {[vip |-> a4(6), proto |-> "tcp", port |-> 5], [vip |-> a4(7), proto |-> "udp", port |-> 6]}],
   cidrgroups |-> [c |-> {[cidr |-> p4(0, 1), except |-> <<p4(2, 3)>>], [cidr |-> p4(4, 2), except |-> <<>>],
                          [cidr |-> p4(6, 3), except |-> <<>>], [cidr |-> p4(7, 3), except |-> <<>>]}],
   records |-> {}, now |-> 0, cap |-> 0, alike |-> {}]

Plan(ep, ctx, packets) ==
  [ep |-> ep, ctxs |-> {ctx}, packets |-> packets, responses |-> {}, lag |-> FALSE, saves |-> 0]

\* The identity a packet of another endpoint comes with.
IdentOf(a, alike) ==
  LET names == {<<"endpoint", m.id>> : m \in {x \in {M1, M2} : x.ip = a}}
  IN  names \cup UNION {s \in alike : s \cap names # {}}
Sent(packets, alike) == {[p EXCEPT !.ident = IdentOf(p.remote, alike)] : p \in packets}
Packets(dirs, protos, addrs, l4s) ==
  {[dir |-> d, proto |-> x, remote |-> a, l4 |-> l, ident |-> IdentOf(a, {})] :
     d \in dirs, x \in protos, a \in addrs, l \in l4s}
V4 == {a4(n) : n \in 0 .. 7}
V6 == {a6(n) : n \in 0 .. 7}

-----------------------------------------------------------------------------
\* Two rules of one group or of two, over every pair of shapes.
Shapes ==
  {[proto |-> x[1], ports |-> x[2], icmp |-> x[3], remote |-> r] :
     x \in {<<"any", {}, <<>>>>, <<"tcp", {}, <<>>>>, <<"tcp", {<<3, 9>>}, <<>>>>, <<"tcp", {<<5, 5>>}, <<>>>>,
            <<"icmp", {}, <<2>>>>, <<"icmp", {}, <<2, 1>>>>},
     r \in {<<"any">>, <<"cidr", p4(0, 0), <<p4(4, 1), p4(2, 3)>>>>, <<"cidr", p4(2, 2), <<>>>>,
            <<"cidr", p4(2, 3), <<>>>>, <<"group", "m">>}}

ShapeRule(s, id, prio, action) == Rule(id, prio, "egress", s.proto, s.remote, s.ports, s.icmp, action)

EgressPackets == Packets({"egress"}, {"tcp", "icmp"}, {a4(n) : n \in {1, 2, 3, 5}}, {2, 5, 9, 10, 12})

\* The first rule ranks above the second by priority, by tier, or not at all.
PairPlans ==
  {Plan(IF x = "tier" THEN Both ELSE E4,
        Ctx(E4, IF x = "tier"
                THEN [g |-> Group(0, Unset, <<ShapeRule(s, 1, 2, "allow")>>),
                      h |-> Group(1, Unset, <<ShapeRule(t, 2, 1, "drop")>>)]
                ELSE [g |-> Group(1, Unset, <<ShapeRule(s, 1, 1, "allow"),
                                              ShapeRule(t, 2, IF x = "prio" THEN 2 ELSE 1, "drop")>>)]),
        EgressPackets) :
     s \in Shapes, t \in Shapes, x \in {"prio", "tier", "same"}}

\* One drop over a default allow, for every kind of remote.
Remotes ==
  {<<"any">>, <<"cidrgroup", "c">>, <<"group", "m">>, <<"selector", {"db"}>>, <<"service", "s">>,
   <<"cidr", p4(0, 0), <<p4(2, 3)>>>>, <<"cidr", p6(0, 0), <<p6(4, 1), p6(2, 3)>>>>}
    \cup {<<"entities", es>> : es \in {{"all"}, {"world"}, {"world-ipv4"}, {"world-ipv6"}, {"host"}, {"none"},
                                        {"remote-node"}, {"private"}, {"cluster"}, {"host", "private"}}}

RemotePlans ==
  {Plan(ep, Ctx(ep, [g |-> Group(1, Off, <<[Rule(1, 1, dir, l[1], r, l[2], l[3], "drop") EXCEPT !.named = l[4]]>>)]),
        Packets(Direction, {"tcp", "udp", IF ep = E4 THEN "icmp" ELSE "icmp6"}, IF ep = E4 THEN V4 ELSE V6,
                {5, 6, 9, 12})) :
     ep \in {E4, E6}, dir \in Direction, r \in Remotes,
     l \in {<<"any", {}, <<>>, {}>>, <<"tcp", {<<5, 6>>}, <<>>, {}>>, <<"tcp", {<<9, 9>>}, <<>>, {"web"}>>,
            <<"udp", {}, <<>>, {}>>, <<"icmp", {}, <<>>, {}>>, <<"icmp", {}, <<3>>, {}>>}}

\* Names that hash alike, groups that disagree, rules that repeat each other.
Cidr(n, bits) == <<"cidr", {p4(n, bits)}>>
OtherPlans ==
  {Plan(Both, [Ctx(Both, [g |-> Group(1, [Unset EXCEPT !.egress = d], <<Rule(1, 1, "egress", "tcp", r, {}, <<>>, x)>>),
                          h |-> Group(1, [Unset EXCEPT !.egress = e], <<Rule(2, 1, "egress", "tcp", q, {}, <<>>, y)>>)])
                 EXCEPT !.alike = al],
        Sent(EgressPackets, al)) :
     d \in {"unset", "on", "off"}, e \in {"unset", "off"}, x \in {"allow", "reject"}, y \in {"allow", "drop"},
     r \in {<<"cidr", p4(2, 2), <<>>>>, <<"group", "m">>}, q \in {<<"cidr", p4(2, 2), <<>>>>, <<"cidr", p4(4, 1), <<>>>>},
     al \in {{}, {{Cidr(2, 2), Cidr(4, 1)}}, {{<<"endpoint", "m1">>, Cidr(4, 1)}}}}

-----------------------------------------------------------------------------
\* An alias, a host with two addresses, answers that change.
Resp(cnames, addrs) == [cnames |-> cnames, addrs |-> addrs]
Addrs(name, ips, ttl) == {[name |-> name, ip |-> ip, ttl |-> ttl] : ip \in ips}

NamesRule == Rule(1, 1, "egress", "any", <<"fqdn", {"w", "x"}>>, {}, <<>>, "allow")
NamesCtx(cap) ==
  [Ctx(E4, [g |-> Group(1, Unset, <<NamesRule>>)])
     EXCEPT !.cap = cap, !.records = {[name |-> "x", ips |-> {a4(7)}, ttl |-> 2, at |-> 1]}]

Responses ==
  {Resp(<<>>, Addrs("x", {a4(4)}, 2)),
   Resp(<<>>, Addrs("x", {a4(4)}, 1)),
   Resp([w |-> [target |-> "y", ttl |-> 1], y |-> [target |-> "x", ttl |-> 3]], Addrs("x", {a4(4), a4(5)}, 2))}

NamePlan(cap, lag, stores) ==
  [Plan(E4, NamesCtx(cap), Packets({"egress"}, {"tcp"}, V4, {5}))
     EXCEPT !.responses = Responses, !.lag = lag, !.saves = stores]

\* Caches that lag while the agent stores nothing, or the other way around.
NamePlans == {NamePlan(0, FALSE, 1), NamePlan(1, FALSE, 1), NamePlan(0, TRUE, 0)}
LagPlans == {NamePlan(0, TRUE, 1)}

\* The desired state changes to one that names a port no member has, or back.
Missing == [Rule(1, 1, "egress", "tcp", <<"selector", {"db"}>>, {}, <<>>, "drop") EXCEPT !.named = {"ssh"}]
ChangePlans ==
  {[Plan(E4, NamesCtx(0), EgressPackets)
      EXCEPT !.ctxs = {Ctx(E4, [g |-> Group(1, Unset, <<r>>)]) :
                         r \in {Missing, ShapeRule(s, 1, 1, "drop"), ShapeRule(s, 1, 1, "allow")}}] :
     s \in Shapes}

MCPlans == ChangePlans \cup PairPlans \cup RemotePlans \cup OtherPlans \cup NamePlans

\* Exceptions of which the first is inside the second.
NestedPlans ==
  {Plan(E4, Ctx(E4, [g |-> Group(1, Unset, <<Rule(1, 1, "egress", "tcp",
                                     <<"cidr", p4(0, 0), <<p4(4, 2), p4(4, 1)>>>>, {}, <<>>, "allow")>>)]),
        Packets({"egress"}, {"tcp"}, V4, {5}))}
MCRangePlans == PairPlans \cup RemotePlans
=============================================================================
