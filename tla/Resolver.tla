------------------------------ MODULE Resolver ------------------------------
(***************************************************************************)
(* topology.Resolve (internal/topology/resolver.go): what becomes of a     *)
(* packet under a desired state, the answer of route-explain.  The objects *)
(* are in Go maps, which are ranged over in any order: Resolve is the set  *)
(* of the answers it may give.  Where the code goes through names in order *)
(* or picks by a hash of the packet, the choice is a fixed one of the set. *)
(***************************************************************************)
EXTENDS DesiredState

CONSTANT Packets   \* the packets considered

Decision(act, by, hop) ==
  [act |-> act, by |-> by, hop |-> hop, to |-> "", port |-> 0, snat |-> "", gw |-> ""]

Fixed(set) == CHOOSE x \in set : TRUE

EndpointsAt(d, v, a) == {o \in Of(d, "ep", v) : o.ip = a}

ResolveEndpoint(d, p) ==
  {[Decision("allow", <<"endpoint", e.name>>, "") EXCEPT !.to = e.ip] : e \in EndpointsAt(d, p.vpc, p.dst)}

DNATMatches(n, p) ==
  /\ n.type # "snat" /\ n.ext = p.dst
  /\ n.port = 0 \/ (n.proto = p.proto /\ n.port = p.port)

ResolveDNAT(d, p) ==
  {[Decision("allow", <<"nat", n.name>>, "") EXCEPT !.to = n.target, !.port = n.tport]
     : n \in {o \in Of(d, "nat", p.vpc) : DNATMatches(o, p)}}

\* A load balancer with subnets serves only sources in them.
AllowsSource(d, l, a) ==
  \/ l.subnets = {}
  \/ \E e \in EndpointsAt(d, l.vpc, a) : e.subnet \in l.subnets
  \/ \E s \in Of(d, "subnet", l.vpc) : s.name \in l.subnets /\ a \in Block[s.cidr]

ResolveLoadBalancer(d, p) ==
  LET serves(l) == /\ l.vip = p.dst /\ l.port = p.port /\ p.proto \in ToSet(l.protos)
                   /\ AllowsSource(d, l, p.src) /\ \E b \in l.backends : b.up
  IN  {[Decision("allow", <<"load-balancer", l.name>>, "")
          EXCEPT !.to = Fixed({b \in l.backends : b.up}).ip]
         : l \in {o \in Of(d, "lb", p.vpc) : serves(o)}}

RouteMatch(o, p) ==
  /\ o.src = "" \/ p.src \in Block[o.src]
  /\ o.dst = "" \/ p.dst \in Block[o.dst]
  /\ o.proto = "" \/ o.proto = p.proto
  /\ o.ports = {} \/ p.port \in o.ports

NextHop(hops) == IF hops = <<>> THEN "" ELSE Fixed(ToSet(hops))

\* The highest priority wins, then the place in the file.
ResolvePolicyRoute(d, p) ==
  LET s == ObjectSeq(d, "policy")
      match == {i \in DOMAIN s : s[i].vpc = p.vpc /\ RouteMatch(s[i], p)}
  IN  {Decision(s[i].act, <<"policy-route", s[i].name>>, NextHop(s[i].hops))
         : i \in {j \in match : \A k \in match :
                    s[k].prio < s[j].prio \/ (s[k].prio = s[j].prio /\ k >= j)}}

\* The longest destination wins, whichever table has it.
ResolveRouteTables(d, p) ==
  LET found(t) == {i \in DOMAIN t.routes :
                     /\ p.dst \in Block[t.routes[i].dst]
                     /\ \A j \in 1..(i - 1) : t.routes[j].dst # t.routes[i].dst}
      routes == UNION {{[table |-> t.name, r |-> t.routes[i]] : i \in found(t)} : t \in Of(d, "rt", p.vpc)}
      longest == {c \in routes : \A e \in routes : Block[c.r.dst] \subseteq Block[e.r.dst]}
  IN  {Decision(IF c.r.hops = <<>> THEN "drop" ELSE "reroute", <<"route-table", c.table>>, NextHop(c.r.hops))
         : c \in longest}

\* What leaves is translated and goes through the gateway of its next hop,
\* if that is one, or through any.
ApplyNATAndGateway(d, p, x) ==
  LET rules == {n \in Of(d, "nat", p.vpc) : n.type = "snat" /\ p.src \in Block[n.match]}
      gws == Of(d, "gw", p.vpc)
      at == {g \in gws : g.lan = x.hop}
  IN  IF x.act \in {"drop", "reject"} THEN x
      ELSE [x EXCEPT !.snat = IF rules = {} THEN "" ELSE Fixed(rules).ext,
                     !.gw = IF gws = {} THEN "" ELSE Fixed(IF at = {} THEN gws ELSE at).name]

\* A policy that allows leaves the way to the route tables.
Continue(policy, routed) ==
  IF policy.act = "allow" /\ routed # {} THEN {[x EXCEPT !.by = policy.by] : x \in routed} ELSE {policy}

Resolve(d, p) ==
  LET policies == ResolvePolicyRoute(d, p)
      routed == ResolveRouteTables(d, p)
      outbound == IF policies = {} THEN routed ELSE UNION {Continue(x, routed) : x \in policies}
      stages == <<ResolveEndpoint(d, p), ResolveDNAT(d, p), ResolveLoadBalancer(d, p),
                  {ApplyNATAndGateway(d, p, x) : x \in outbound},
                  {Decision("drop", <<"no-route", "">>, "")}>>
  IN  Head(SelectSeq(stages, LAMBDA s : s # {}))
=============================================================================
