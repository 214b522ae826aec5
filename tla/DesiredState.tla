---------------------------- MODULE DesiredState ----------------------------
(***************************************************************************)
(* The desired state and what Controller.Reconcile demands of it before it *)
(* touches anything (internal/control/controller.go, the Validate methods  *)
(* of internal/model/model.go).  A desired state is the sequence of its    *)
(* objects in the order of the file.  Addresses and prefixes are names;    *)
(* Block gives the addresses of a prefix, so that prefixes overlap when    *)
(* their blocks meet and the longer one of two has the smaller block.      *)
(* "" stands for an address, prefix or protocol that is not given.  What   *)
(* has no bearing on the network topology (security groups, identity       *)
(* groups, rollouts) and the form of names and numbers are left out.       *)
(***************************************************************************)
EXTENDS Naturals, FiniteSets, Sequences, SequencesExt

CONSTANT Block

\* CIDR blocks: one contains the other or they have nothing in common.
ASSUME BlockAssumption ==
  \A p, q \in DOMAIN Block :
    /\ Block[p] # {} /\ IsFiniteSet(Block[p])
    /\ Block[p] \cap Block[q] \in {{}, Block[p], Block[q]}
    /\ Block[p] = Block[q] => p = q

Objects(d, t) == {o \in ToSet(d) : o.t = t}
ObjectSeq(d, t) == SelectSeq(d, LAMBDA o : o.t = t)

Of(d, t, v) == {o \in Objects(d, t) : o.vpc = v}
Names(d, t, v) == {o.name : o \in Of(d, t, v)}

SameKey(o, p) == o.vpc = p.vpc /\ o.name = p.name

\* No two objects of the kind conflict.
Pairwise(d, t, conflict(_, _)) ==
  LET s == ObjectSeq(d, t) IN \A j \in DOMAIN s, i \in DOMAIN s : i < j => ~conflict(s[i], s[j])

KnownVPC(d, o) == \E v \in Objects(d, "vpc") : v.name = o.vpc

Overlap(p, q) == Block[p] \cap Block[q] # {}
MayOverlap(p, q) == p = "" \/ q = "" \/ Overlap(p, q)

Excludes(s, a) == \E x \in s.exclude : a \in Block[x]

SubnetContaining(d, v, a) == {s \in Of(d, "subnet", v) : a \in Block[s.cidr]}
OutsideSubnets(d, v, a) == SubnetContaining(d, v, a) = {}
InSubnets(d, v, a) == \E s \in SubnetContaining(d, v, a) : ~Excludes(s, a)

PrefixInSubnets(d, v, p) ==
  \E s \in Of(d, "subnet", v) : /\ Block[p] \subseteq Block[s.cidr]
                                /\ \A x \in s.exclude : ~Overlap(p, x)

-----------------------------------------------------------------------------
(***************************************************************************)
(* Objects by themselves.                                                  *)
(***************************************************************************)
PortProtocol == {"tcp", "udp", "sctp"}

SubnetValid(o) ==
  o.gw \in Block[o.cidr] /\ \A x \in o.exclude : Block[x] \subseteq Block[o.cidr]

\* A route without next hops is a blackhole.
RouteValid(r) == IsInjective(r.hops) /\ (r.hops = <<>> => r.bfd = "")

PolicyRouteValid(o) ==
  /\ (o.act = "reroute") <=> o.hops # <<>>
  /\ IsInjective(o.hops)
  /\ o.ports # {} => o.proto \in PortProtocol

NATRuleValid(o) ==
  IF o.type = "snat"
  THEN o.match # "" /\ o.target = "" /\ o.port = 0 /\ o.tport = 0 /\ o.proto = ""
  ELSE /\ o.target # "" /\ (o.port = 0 <=> o.tport = 0)
       /\ IF o.port = 0 THEN o.proto = "" ELSE o.proto \in PortProtocol

\* One port per protocol here, and the same backends behind each.
LoadBalancerValid(o) ==
  /\ o.protos # <<>> /\ IsInjective(o.protos) /\ ToSet(o.protos) \subseteq PortProtocol
  /\ \E b \in o.backends : b.up
  /\ o.hc => "tcp" \in ToSet(o.protos)

-----------------------------------------------------------------------------
(***************************************************************************)
(* Objects among others: validateObjectGraph, in its order.                *)
(***************************************************************************)
VPCsValid(d) == Pairwise(d, "vpc", LAMBDA a, b : a.name = b.name)

\* claims: the interfaces of nodes that the provider network takes.
ClaimsConflict(a, b) == a.claims \cap b.claims # {}

ProviderNetworksValid(d) ==
  Pairwise(d, "pn", LAMBDA a, b : a.name = b.name \/ ClaimsConflict(a, b))

SubnetsValid(d) ==
  /\ \A o \in Objects(d, "subnet") :
       /\ SubnetValid(o) /\ KnownVPC(d, o)
       /\ o.provider # "" => \E p \in Objects(d, "pn") : p.name = o.provider
  /\ Pairwise(d, "subnet", LAMBDA a, b : SameKey(a, b) \/ (a.vpc = b.vpc /\ Overlap(a.cidr, b.cidr)))

LoadBalancersPlaced(d) ==
  \A o \in Objects(d, "lb") :
    /\ LoadBalancerValid(o) /\ KnownVPC(d, o)
    /\ o.subnets \subseteq Names(d, "subnet", o.vpc)
    /\ OutsideSubnets(d, o.vpc, o.vip)
    /\ \A b \in o.backends : InSubnets(d, o.vpc, b.ip)

\* Mutant: the subnet need not exist.
EndpointsLoose(d) ==
  \A o \in Objects(d, "ep") :
    KnownVPC(d, o) /\ \A s \in Of(d, "subnet", o.vpc) :
                         s.name = o.subnet => o.ip \in Block[s.cidr] /\ ~Excludes(s, o.ip)

\* The MAC of a subnet's gateway, derived from a hash, is no endpoint's here.
EndpointsValid(d) ==
  /\ \A o \in Objects(d, "ep") :
       /\ KnownVPC(d, o)
       /\ \E s \in Of(d, "subnet", o.vpc) :
            /\ s.name = o.subnet
            /\ o.ip \in Block[s.cidr] /\ ~Excludes(s, o.ip) /\ o.ip # s.gw
  /\ Pairwise(d, "ep", LAMBDA a, b :
       \/ SameKey(a, b)
       \/ a.vpc = b.vpc /\ a.ip = b.ip
       \/ a.vpc = b.vpc /\ a.subnet = b.subnet /\ a.mac = b.mac /\ a.mac # "")

\* How many objects of the tenant use the provider network.
TenantUsage(d, p, v, kind) ==
  LET subnets == {s.name : s \in {q \in Of(d, "subnet", v) : q.provider = p}}
  IN  CASE kind = "subnet" -> Cardinality(subnets)
        [] kind = "ep" -> Cardinality({o \in Of(d, "ep", v) : o.subnet \in subnets})
        [] kind = "lb" -> Cardinality({o \in Of(d, "lb", v) : o.subnets \cap subnets # {}})
        [] kind \in {"nat", "policy"} -> IF subnets = {} THEN 0 ELSE Cardinality(Of(d, kind, v))

\* A quota is a tenant, a kind of object and how many it may have,
\* 0 for any number.
QuotasKept(d) ==
  \A p \in Objects(d, "pn") : \A q \in p.quotas :
    q.max # 0 => TenantUsage(d, p.name, q.vpc, q.kind) <= q.max

GatewaysValid(d) ==
  /\ \A o \in Objects(d, "gw") :
       /\ KnownVPC(d, o) /\ InSubnets(d, o.vpc, o.lan)
       /\ \A s \in SubnetContaining(d, o.vpc, o.lan) : s.gw # o.lan
       /\ \A e \in Of(d, "ep", o.vpc) : e.ip # o.lan
  /\ Pairwise(d, "gw", LAMBDA a, b :
       \/ SameKey(a, b)
       \/ a.vpc = b.vpc /\ a.lan = b.lan
       \/ a.node = b.node /\ a.ext = b.ext)

\* BFD runs from the router port of a subnet, named for the subnet here.
BFDLogicalPorts(d, v) == Names(d, "subnet", v)

RouteTablesPlaced(d) ==
  \A o \in Objects(d, "rt") :
    /\ KnownVPC(d, o)
    /\ \A i \in DOMAIN o.routes :
         /\ RouteValid(o.routes[i])
         /\ \A h \in ToSet(o.routes[i].hops) : InSubnets(d, o.vpc, h)
         /\ o.routes[i].bfd \in {""} \cup BFDLogicalPorts(d, o.vpc)

PolicyRoutesPlaced(d) ==
  \A o \in Objects(d, "policy") :
    /\ PolicyRouteValid(o) /\ KnownVPC(d, o)
    /\ o.src # "" => PrefixInSubnets(d, o.vpc, o.src)
    /\ \A h \in ToSet(o.hops) : InSubnets(d, o.vpc, h)

NATRulesPlaced(d) ==
  \A o \in Objects(d, "nat") :
    /\ NATRuleValid(o) /\ KnownVPC(d, o)
    /\ OutsideSubnets(d, o.vpc, o.ext)
    /\ IF o.type = "snat" THEN PrefixInSubnets(d, o.vpc, o.match) ELSE InSubnets(d, o.vpc, o.target)

ValidateObjectGraph(d) ==
  /\ VPCsValid(d) /\ ProviderNetworksValid(d) /\ SubnetsValid(d) /\ LoadBalancersPlaced(d)
  /\ EndpointsValid(d) /\ QuotasKept(d) /\ GatewaysValid(d)
  /\ RouteTablesPlaced(d) /\ PolicyRoutesPlaced(d) /\ NATRulesPlaced(d)

-----------------------------------------------------------------------------
(***************************************************************************)
(* Objects that would answer for the same packets.                         *)
(***************************************************************************)
ValidateNATRules(d) ==
  Pairwise(d, "nat", LAMBDA a, b :
    \/ SameKey(a, b)
    \/ /\ a.vpc = b.vpc /\ a.type = "snat" /\ b.type = "snat" /\ Overlap(a.match, b.match)
    \/ /\ a.vpc = b.vpc /\ a.type # "snat" /\ b.type # "snat" /\ a.ext = b.ext
       /\ a.port = 0 \/ b.port = 0 \/ (a.port = b.port /\ a.proto = b.proto))

ValidateLoadBalancers(d) ==
  Pairwise(d, "lb", LAMBDA a, b :
    \/ SameKey(a, b)
    \/ /\ a.vpc = b.vpc /\ a.vip = b.vip /\ a.port = b.port
       /\ ToSet(a.protos) \cap ToSet(b.protos) # {})

ValidateInboundVIPConflicts(d) ==
  \A l \in Objects(d, "lb") : \A n \in Of(d, "nat", l.vpc) :
    n.type # "snat" /\ n.ext = l.vip => n.port # 0 /\ (n.port = l.port => n.proto \notin ToSet(l.protos))

Destinations(t) == {t.routes[i].dst : i \in DOMAIN t.routes}

\* Mutant: only the routes of one table are compared.
ValidateEachRouteTable(d) ==
  /\ Pairwise(d, "rt", SameKey)
  /\ \A t \in Objects(d, "rt") : Cardinality(Destinations(t)) = Len(t.routes)

\* A destination is in one table of the VPC, once.
ValidateRouteTables(d) ==
  /\ Pairwise(d, "rt", LAMBDA a, b :
       SameKey(a, b) \/ (a.vpc = b.vpc /\ Destinations(a) \cap Destinations(b) # {}))
  /\ \A t \in Objects(d, "rt") : Cardinality(Destinations(t)) = Len(t.routes)

ProtocolsMayOverlap(p, q) == p = "" \/ q = "" \/ p = q
PortsMayOverlap(p, q) == p = {} \/ q = {} \/ p \cap q # {}

RouteMatchesOverlap(a, b) ==
  /\ MayOverlap(a.src, b.src) /\ MayOverlap(a.dst, b.dst)
  /\ ProtocolsMayOverlap(a.proto, b.proto) /\ PortsMayOverlap(a.ports, b.ports)

ValidatePolicyRoutes(d) ==
  Pairwise(d, "policy", LAMBDA a, b :
    SameKey(a, b) \/ (a.vpc = b.vpc /\ a.prio = b.prio /\ RouteMatchesOverlap(a, b)))

Validate(d) ==
  /\ ValidateObjectGraph(d) /\ ValidateNATRules(d) /\ ValidateLoadBalancers(d)
  /\ ValidateInboundVIPConflicts(d) /\ ValidateRouteTables(d) /\ ValidatePolicyRoutes(d)

Rejects(d) == ~Validate(d)
=============================================================================
