--------------------------- MODULE PolicyCompiler ---------------------------
(***************************************************************************)
(* The policy compiler (internal/policy/compiler.go): an endpoint's        *)
(* security groups and the context they refer to become compiled rules,    *)
(* each for at most one prefix, and from those policy map entries, which   *)
(* internal/dataplane/policymap.go encodes and makes canonical.            *)
(*                                                                         *)
(* A rule's remote is a tuple: <<"any">>, <<"cidr", p, exceptions>>,       *)
(* <<"cidrgroup", g>>, <<"entities", es>>, <<"group", g>>,                 *)
(* <<"selector", labels>>, <<"service", s>> or <<"fqdn", names>>, the      *)
(* names its patterns match.  A missing prefix is the empty set, a present *)
(* one a singleton.                                                        *)
(***************************************************************************)
EXTENDS CIDR, DNSRecords

CONSTANTS
  PortBits,     \* width of a port, and of an ICMP type and code together
  PriorityMax,  \* model.SecurityGroupPriorityMax
  Private       \* the prefixes of entity private

ASSUME CompilerAssumption ==
  /\ PortBits \in Nat \ {0} /\ PortBits % 2 = 0
  /\ PriorityMax \in Nat \ {0}
  /\ Private \subseteq Prefix

Direction == {"ingress", "egress"}
Denies(action) == action \in {"drop", "reject"}

\* precedence: tier 0 first, then the smaller priority, then deny.
Precedence(tier, prio, action) ==
  (1 - tier) * 4 * (PriorityMax + 1)
    + 2 * (IF prio = 0 THEN 0 ELSE PriorityMax - prio + 1)
    + (IF Denies(action) THEN 1 ELSE 0)

-----------------------------------------------------------------------------
(***************************************************************************)
(* What the context says.                                                  *)
(***************************************************************************)
Members(ctx, ep, remote) ==
  {m \in ctx.eps : /\ m.id # ep.id
                   /\ IF remote[1] = "group" THEN remote[2] \in ToSet(m.groups)
                                             ELSE remote[2] \subseteq m.labels}

World(ctx, families) ==
  SubtractAll({Everything(f) : f \in families}, SetToSeq(ctx.subnets))

Gateways(ctx, nodes) == {Host(g.ip) : g \in {x \in ctx.gateways : x.node \in nodes}}
Nodes(ctx) == {g.node : g \in ctx.gateways}

EntityCIDRs(ctx, ep, entity) ==
  CASE entity = "all" -> {Everything(f) : f \in Family}
    [] entity = "world" -> World(ctx, Family)
    [] entity = "world-ipv4" -> World(ctx, {4})
    [] entity = "world-ipv6" -> World(ctx, {6})
    [] entity = "host" -> Gateways(ctx, Nodes(ctx))
    [] entity = "remote-node" -> Gateways(ctx, Nodes(ctx) \ {ep.node})
    [] entity = "private" -> Private
    [] entity = "cluster" -> ctx.subnets
    [] entity = "none" -> {}

EntityMissing(ctx, ep, entity) ==
  \/ entity \in {"world", "world-ipv4", "world-ipv6", "cluster"} /\ ctx.subnets = {}
  \/ entity \in {"host", "remote-node"} /\ EntityCIDRs(ctx, ep, entity) = {}

\* The addresses of the live records of a name, at most ctx.cap of them in a
\* fixed order; a cap of zero keeps all.
IndexDNS(ctx, name) ==
  LET ips == UNION {r.ips : r \in {x \in ctx.records : x.name = name /\ ~Expired(x, ctx.now)}}
      sorted == SetToSortSeq(ips, LAMBDA a, b : a.fam < b.fam \/ (a.fam = b.fam /\ a.n < b.n))
  IN  IF ctx.cap > 0 /\ Len(sorted) > ctx.cap THEN ToSet(SubSeq(sorted, 1, ctx.cap)) ELSE ips

CIDRGroup(ctx, name) ==
  UNION {SubtractAll({e.cidr}, e.except) : e \in ctx.cidrgroups[name]}

-----------------------------------------------------------------------------
(***************************************************************************)
(* expandRule: a rule of a security group becomes compiled rules.  tag     *)
(* says what the remote is known by, tag[1] how.                           *)
(***************************************************************************)
NamedPort(e, proto, name) == {np.port : np \in {x \in e.named : x.proto = proto /\ x.name = name}}
ResolveNamedPorts(rule, e) ==
  rule.ports \cup {<<p, p>> : p \in UNION {NamedPort(e, rule.proto, n) : n \in rule.named}}
NamedPortMissing(rule, e) == \E n \in rule.named : NamedPort(e, rule.proto, n) = {}

Compiled(rule, tag, cidr, proto, ports) ==
  [rule |-> rule, tag |-> tag, cidr |-> cidr, proto |-> proto, ports |-> ports]

Frontends(ctx, rule) ==
  {f \in ctx.services[rule.remote[2]] :
     /\ rule.proto \in {"any", f.proto}
     /\ rule.ports = {} \/ \E r \in rule.ports : f.port \in r[1] .. r[2]}

ExpandRule(ctx, ep, rule) ==
  LET own == IF rule.dir = "ingress" THEN ResolveNamedPorts(rule, ep) ELSE rule.ports
      for(tag, cidrs) == {Compiled(rule, tag, {c}, rule.proto, own) : c \in cidrs}
      kind == rule.remote[1]
  IN CASE kind = "any" -> {Compiled(rule, <<"any">>, {}, rule.proto, own)}
       [] kind = "cidr" -> for(<<"cidr">>, SubtractAll({rule.remote[2]}, rule.remote[3]))
       [] kind = "cidrgroup" -> for(<<"cidr">>, CIDRGroup(ctx, rule.remote[2]))
       [] kind = "entities" ->
            UNION {for(<<"entity", e>>, EntityCIDRs(ctx, ep, e)) : e \in rule.remote[2]}
       [] kind = "fqdn" ->
            UNION {for(<<"fqdn", n>>, {Host(a) : a \in IndexDNS(ctx, n)}) : n \in rule.remote[2]}
       [] kind = "service" ->
            {Compiled(rule, <<"service", rule.remote[2]>>, {Host(f.vip)}, f.proto, {<<f.port, f.port>>}) :
               f \in Frontends(ctx, rule)}
       [] kind \in {"group", "selector"} ->
            {Compiled(rule, <<"endpoint", m.id>>, {Host(m.ip)}, rule.proto,
                      IF rule.dir = "egress" THEN ResolveNamedPorts(rule, m) ELSE own) :
               m \in Members(ctx, ep, rule.remote)}

\* What makes the compiler refuse the rule, and with it the whole program.
ExpandFails(ctx, ep, rule) ==
  LET kind == rule.remote[1]
  IN  \/ rule.dir = "ingress" /\ NamedPortMissing(rule, ep)
      \/ rule.dir = "egress" /\ rule.named # {} /\ kind \notin {"group", "selector"}
      \/ /\ rule.dir = "egress" /\ kind \in {"group", "selector"}
         /\ \E m \in Members(ctx, ep, rule.remote) : NamedPortMissing(rule, m)
      \/ kind = "entities" /\ \E e \in rule.remote[2] : EntityMissing(ctx, ep, e)
      \/ kind = "cidrgroup" /\ rule.remote[2] \notin DOMAIN ctx.cidrgroups
      \/ kind = "group" /\ rule.remote[2] \notin DOMAIN ctx.groups
      \/ /\ kind = "service"
         /\ \/ rule.remote[2] \notin DOMAIN ctx.services
            \/ Frontends(ctx, rule) = {}

\* compactEquivalentCIDRRules: rules that differ in nothing but the prefix.
CompactRules(rules) ==
  UNION {LET alike == {r \in rules : [r EXCEPT !.cidr = {}] = k}
             cidrs == UNION {r.cidr : r \in alike}
         IN  IF cidrs = {} THEN alike ELSE {[k EXCEPT !.cidr = {c}] : c \in CompactCIDRs(cidrs)} :
           k \in {[r EXCEPT !.cidr = {}] : r \in rules}}

-----------------------------------------------------------------------------
(***************************************************************************)
(* The program: the compiled rules of every attached group, and a default  *)
(* allow for a direction when all the groups that speak of it ask for one. *)
(***************************************************************************)
GroupRules(ctx, name) ==
  [i \in DOMAIN ctx.groups[name].rules |->
     [tier |-> ctx.groups[name].tier, sg |-> name] @@ ctx.groups[name].rules[i]]

\* The rules of the attached groups in order.
AttachedRules(ctx, ep) ==
  FlattenSeq([i \in DOMAIN ep.groups |-> GroupRules(ctx, ep.groups[i])])

DefaultAllow(dir) ==
  [id |-> 0, sg |-> "default", tier |-> 1, prio |-> 0, dir |-> dir, proto |-> "any", remote |-> <<"any">>,
   ports |-> {}, named |-> {}, icmp |-> <<>>, action |-> "allow", stateful |-> FALSE]

DefaultDenyDisabled(ctx, ep, dir) ==
  LET groups == {ctx.groups[g] : g \in ToSet(ep.groups)}
      speaks(g) == g.deny[dir] # "unset" \/ \E i \in DOMAIN g.rules : g.rules[i].dir = dir
  IN  /\ \E g \in groups : g.deny[dir] = "off"
      /\ \A g \in groups : speaks(g) => g.deny[dir] = "off"

SourceRules(ctx, ep) ==
  AttachedRules(ctx, ep)
    \o SelectSeq(<<DefaultAllow("ingress"), DefaultAllow("egress")>>,
                 LAMBDA r : DefaultDenyDisabled(ctx, ep, r.dir))

CompileFails(ctx, ep) ==
  \/ \E g \in ToSet(ep.groups) : g \notin DOMAIN ctx.groups
  \/ \E r \in ToSet(SourceRules(ctx, ep)) : ExpandFails(ctx, ep, r)

RulePrecedence(rule) == Precedence(rule.tier, rule.prio, rule.action)

\* The rules by falling precedence, then by ID; the sort is stable.
SortedRules(ctx, ep) ==
  LET source == SourceRules(ctx, ep)
      before(i, j) ==
        LET p == RulePrecedence(source[i])
            q == RulePrecedence(source[j])
        IN  \/ p > q
            \/ p = q /\ source[i].id < source[j].id
            \/ p = q /\ source[i].id = source[j].id /\ i < j
      order == SetToSortSeq(DOMAIN source, before)
  IN  [k \in DOMAIN order |-> source[order[k]]]

\* The compiled rules; those that come from one rule have no order of note.
Program(ctx, ep) ==
  LET rules == SortedRules(ctx, ep)
  IN  FlattenSeq([i \in DOMAIN rules |-> SetToSeq(CompactRules(ExpandRule(ctx, ep, rules[i])))])
=============================================================================
