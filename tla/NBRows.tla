------------------------------- MODULE NBRows -------------------------------
(***************************************************************************)
(* The OVN northbound database as the libovsdb topology writer sees it,    *)
(* and the transactions the writer computes from it                        *)
(* (internal/ovn/libovsdb_writer.go, libovsdb_lifecycle.go).  The database *)
(* is a set of rows; a transaction is a function from the database to the  *)
(* database.  Where one transaction is put together from several objects,  *)
(* every part reads the rows of `snap`, the cache it was computed from,    *)
(* and writes to `db`.                                                     *)
(*                                                                         *)
(* A row's key is what its netloom_* external ids identify, front and val  *)
(* its other columns, up the rows that refer to it (a switch to its ports, *)
(* a router to its routes, a port to its DHCP options).                    *)
(***************************************************************************)
EXTENDS DesiredState

VARIABLE order   \* how the UUIDs of rows compare to their ages

Table == {"lr", "ls", "lrp", "lsp", "dhcp", "route", "bfd", "policy", "nat",
          "lb", "hc", "dns"}

\* Rows of the other tables vanish with the last reference to them.
RootTable == {"lr", "ls", "dhcp", "bfd", "lb", "dns"}

\* Columns of a row: what the writer wants one to be.
Want(tb, key, name, front, val) ==
  [tb |-> tb, key |-> key, name |-> name, front |-> front, val |-> val]

NoGateway == <<"none">>

VPCKey(v) == <<"lr", v>>
SubnetKey(v, s) == <<"ls", v, s>>
EndpointKey(v, e) == <<"lsp", v, e>>
LocalnetName(v, s) == <<"localnet", v, s>>

RouterWant(v, gw) == Want("lr", VPCKey(v), VPCKey(v), <<"on">>, gw)

SwitchWant(o) ==
  Want("ls", SubnetKey(o.vpc, o.name), SubnetKey(o.vpc, o.name), <<>>, <<o.cidr, o.dhcp>>)

RouterPortWant(o) ==
  LET k == <<"lrp", o.vpc, o.name>> IN Want("lrp", k, k, <<>>, <<o.gw, o.cidr>>)

SwitchPortWant(o) ==
  LET k == <<"router", o.vpc, o.name>> IN Want("lsp", k, k, <<>>, <<o.gw>>)

LocalnetWant(o) ==
  Want("lsp", <<"localnet", o.vpc, o.name, o.provider>>, LocalnetName(o.vpc, o.name),
       <<>>, <<o.provider>>)

EndpointWant(o) ==
  LET k == EndpointKey(o.vpc, o.name) IN Want("lsp", k, k, <<>>, <<o.ip, o.mac, o.subnet>>)

DHCPWant(o) == Want("dhcp", <<"dhcp", o.vpc, o.name>>, <<>>, <<>>, <<o.subnet>>)

RouteWant(t, r) ==
  Want("route", <<"route", t.vpc, t.name, r.dst, r.hop>>, <<>>, <<r.dst>>, <<r.hop>>)

BFDWant(t, r) ==
  Want("bfd", <<"bfd", t.vpc, t.name, r.dst, r.hop>>, <<>>, <<>>, <<r.hop, r.bfd>>)

PolicyWant(o) ==
  Want("policy", <<"policy", o.vpc, o.name>>, <<>>,
       <<o.prio, o.src, o.dst, o.proto, o.ports>>, <<o.act, ToSet(o.hops)>>)

NATWant(o) ==
  Want("nat", <<"nat", o.vpc, o.name>>, <<>>, <<o.type, o.ext, o.port>>,
       <<IF o.type = "snat" THEN o.match ELSE o.target, o.tport, o.proto>>)

LBWant(o, p) ==
  LET k == <<"lb", o.vpc, o.name, p>> IN Want("lb", k, k, <<>>, <<o.vip, o.port, o.backends>>)

HCWant(o, p) == Want("hc", <<"hc", o.vpc, o.name, p>>, <<>>, <<o.vip, o.port>>, <<"options">>)

DNSWant(o) == Want("dns", <<"dns">>, <<>>, <<>>, <<o.val>>)

\* The rows of a table's routes: one per next hop, one for a blackhole.
Hops(t) ==
  FlattenSeq([i \in DOMAIN t.routes |->
    LET r == t.routes[i] IN
    [j \in 1..(IF r.hops = <<>> THEN 1 ELSE Len(r.hops)) |->
      [dst |-> r.dst, bfd |-> r.bfd, hop |-> IF r.hops = <<>> THEN "discard" ELSE r.hops[j]]]])

\* Metadata of a gateway, kept on the router.
GatewayWant(o) == <<o.name, o.lan, o.node, o.ext>>
GatewayOf(d, v) == {GatewayWant(o) : o \in Of(d, "gw", v)}

-----------------------------------------------------------------------------
(***************************************************************************)
(* Rows.                                                                   *)
(***************************************************************************)
Ids(rows) == {r.id : r \in rows}

\* f(v); TLC evaluates v once here, and an argument again at every use.
Once(v, f(_)) == UNION {f(x) : x \in {v}}

Fresh(db) == CHOOSE i \in 1..(Cardinality(db) + 1) : i \notin Ids(db)

Stamp(i, w, up) ==
  [id |-> i, own |-> TRUE, tb |-> w.tb, key |-> w.key, name |-> w.name,
   front |-> w.front, val |-> w.val, up |-> up]

Insert(db, w, up) == Once(db, LAMBDA b : b \cup {Stamp(Fresh(b), w, up)})

\* Overwrites the row, adding references from `add` and taking those from `cut`.
Put(db, row, w, add, cut) ==
  Once(row.id, LAMBDA i :
    {IF x.id = i THEN Stamp(i, w, (x.up \ cut) \cup add) ELSE x : x \in db})

Drop(db, rows) ==
  Once(Ids(rows), LAMBDA ids :
    {[x EXCEPT !.up = @ \ ids] : x \in {y \in db : y.id \notin ids}})

\* What the database does at the end of a transaction.
Settle(db) ==
  Once(db, LAMBDA b : Drop(b, {x \in b : x.tb \notin RootTable /\ x.up = {}}))

\* What is left after a step for each element of seq in turn.
Each(step(_, _), db, seq) ==
  LET after[i \in 0..Len(seq)] ==
        IF i = 0 THEN db ELSE Once(after[i - 1], LAMBDA b : step(b, seq[i]))
  IN  after[Len(seq)]

\* Ports have unique names, BFD sessions unique ports and destinations; a
\* transaction that breaks this fails as a whole.
IndexClash(db) ==
  \E x, y \in db : /\ x.tb = y.tb /\ x.id # y.id
                   /\ \/ x.tb \in {"lsp", "lrp"} /\ x.name = y.name
                      \/ x.tb = "bfd" /\ x.val = y.val

Mine(db, tb, key) == {x \in db : x.own /\ x.tb = tb /\ x.key = key}
Named(db, tb, name) == {x \in db : x.tb = tb /\ x.name = name}

\* The row with the least UUID.
First(rows) ==
  CHOOSE x \in rows : \A y \in rows : IF order = "asc" THEN x.id <= y.id ELSE x.id >= y.id

\* The first row the parent refers to, or else the first.
PreferredReferencedRow(rows, parent) ==
  LET refs == {x \in rows : parent \in x.up}
  IN  First(IF refs = {} THEN rows ELSE refs)

Router(db, v) == First(Named(db, "lr", VPCKey(v)))
Switch(db, v, s) == First(Named(db, "ls", SubnetKey(v, s)))
HasRouter(db, v) == Named(db, "lr", VPCKey(v)) # {}
HasSwitch(db, v, s) == Named(db, "ls", SubnetKey(v, s)) # {}

\* The router, switch, port or load balancer of a name, made or overwritten.
EnsureNamed(snap, db, w, add, cut) ==
  LET old == Named(snap, w.tb, w.name)
  IN  IF old = {} THEN Insert(db, w, add) ELSE Put(db, First(old), w, add, cut)

-----------------------------------------------------------------------------
(***************************************************************************)
(* The rows of each kind of object.  `create` is FALSE in the repairs,     *)
(* which leave what is missing to the Ensure calls that follow.            *)
(***************************************************************************)
\* The router keeps its gateway metadata.
EnsureVPC(db, o) ==
  LET old == Named(db, "lr", VPCKey(o.vpc))
  IN  EnsureNamed(db, db, RouterWant(o.vpc, IF old = {} THEN NoGateway ELSE First(old).val), {}, {})

SubnetPorts(snap, db, o, lr, sw) ==
  LET a == EnsureNamed(snap, db, RouterPortWant(o), {lr}, {})
      b == EnsureNamed(snap, a, SwitchPortWant(o), {sw}, {})
  IN  IF o.provider # ""
      THEN EnsureNamed(snap, b, LocalnetWant(o), {sw}, {})
      ELSE Drop(b, Named(snap, "lsp", LocalnetName(o.vpc, o.name)))

EnsureSubnet(db, o) ==
  LET next == EnsureNamed(db, db, SwitchWant(o), {}, {})
  IN  Once(next, LAMBDA c : SubnetPorts(db, c, o, Router(db, o.vpc).id, Switch(c, o.vpc, o.name).id))

\* Mutant: a row that exists is not added to new switches.
SyncDNSOnce(snap, db, d, create) ==
  LET old == Mine(snap, "dns", <<"dns">>)
      sws == Ids({x \in snap : x.tb = "ls" /\ x.own})
      records == Objects(d, "dns")
  IN  IF records = {} THEN Drop(db, old)
      ELSE LET w == DNSWant(CHOOSE o \in records : TRUE) IN
           IF old # {} THEN Put(db, First(old), w, {}, {})
           ELSE IF create THEN Insert(db, w, sws) ELSE db

DNSRows(snap, sws) ==
  Mine(snap, "dns", <<"dns">>) \cup {x \in snap : x.tb = "dns" /\ x.up \cap sws # {}}

\* One row holds the records; rows the desired switches refer to are taken over.
SyncDNS(snap, db, d, create) ==
  LET own == {x \in snap : x.tb = "ls" /\ x.own}
      sws == Ids({x \in own : \E o \in Objects(d, "subnet") : x.name = SubnetKey(o.vpc, o.name)})
      old == DNSRows(snap, sws)
      records == Objects(d, "dns")
  IN  IF records = {} THEN Drop(db, old)
      ELSE LET w == DNSWant(CHOOSE o \in records : TRUE) IN
           IF old # {}
           THEN Drop(Put(db, First(old), w, sws, Ids(own) \ sws), old \ {First(old)})
           ELSE IF create THEN Insert(db, w, sws) ELSE db

\* A row under the router is taken over when its columns say what is wanted.
StaticRouteMatches(x, w) == x.key = w.key \/ (x.front = w.front /\ x.val = w.val)
PolicyRouteMatches(x, w) == x.key = w.key \/ (x.front = w.front /\ x.val = w.val)
NATRuleMatches(x, w) == x.key = w.key \/ x.front = w.front

RowMatches(x, w) ==
  CASE w.tb = "route" -> StaticRouteMatches(x, w)
    [] w.tb = "policy" -> PolicyRouteMatches(x, w)
    [] w.tb = "nat" -> NATRuleMatches(x, w)

Referenced(snap, lr, w) ==
  {x \in snap : x.tb = w.tb /\ lr \in x.up /\ RowMatches(x, w)}

RouterRows(snap, lr, w) == Mine(snap, w.tb, w.key) \cup Referenced(snap, lr, w)

BFDsOf(snap, rows) == {x \in snap : x.tb = "bfd" /\ x.up \cap Ids(rows) # {}}

WithBFDs(snap, rows) == rows \cup BFDsOf(snap, rows)

\* Routes, policy routes and NAT rules: keeps one row, drops its duplicates.
EnsureUnder(snap, db, v, w, create, detach) ==
  LET lr == Router(snap, v).id
      rows == RouterRows(snap, lr, w)
      keep == PreferredReferencedRow(rows, lr)
      others == IF detach THEN Ids({x \in snap : x.tb = "lr"}) \ {lr} ELSE {}
      dups == rows \ {keep}
  IN  CASE ~HasRouter(snap, v) -> db
        [] rows # {} -> Drop(Put(db, keep, w, {lr}, others), WithBFDs(snap, dups))
        [] rows = {} /\ create -> Insert(db, w, {lr})
        [] OTHER -> db

StaticRouteBFD(snap, db, t, r) ==
  LET route == Mine(db, "route", RouteWant(t, r).key)
      w == BFDWant(t, r)
      rows == Mine(snap, "bfd", w.key) \cup BFDsOf(snap, route)
  IN  CASE route = {} -> db
        [] route # {} /\ r.bfd = "" -> Drop(db, BFDsOf(snap, route))
        [] route # {} /\ r.bfd # "" /\ rows = {} -> Insert(db, w, Ids(route))
        [] OTHER -> Drop(Put(db, First(rows), w, Ids(route), {}), rows \ {First(rows)})

RouteTable(snap, db, t, create) ==
  LET step(b, r) ==
        Once(EnsureUnder(snap, b, t.vpc, RouteWant(t, r), create, TRUE),
             LAMBDA c : StaticRouteBFD(snap, c, t, r))
      stale == {x \in snap : /\ x.own /\ x.tb = "route" /\ x.key[2] = t.vpc /\ x.key[3] = t.name
                             /\ \A i \in DOMAIN Hops(t) : x.key # RouteWant(t, Hops(t)[i]).key}
  IN  IF HasRouter(snap, t.vpc)
      THEN Drop(Each(step, db, Hops(t)), WithBFDs(snap, stale))
      ELSE db

PolicyRoute(snap, db, o, create) == EnsureUnder(snap, db, o.vpc, PolicyWant(o), create, TRUE)

Gateway(snap, db, o) ==
  IF HasRouter(snap, o.vpc)
  THEN LET lr == Router(snap, o.vpc) IN
       {IF x.id = lr.id THEN [x EXCEPT !.val = GatewayWant(o)] ELSE x : x \in db}
  ELSE db

EndpointPort(snap, db, o) ==
  EnsureNamed(snap, db, EndpointWant(o), {Switch(snap, o.vpc, o.subnet).id}, {})

DHCPOptionsOf(snap, port) == {x \in snap : x.tb = "dhcp" /\ x.up \cap port # {}}

\* Whether an endpoint has DHCP options is read from its switch.
EndpointDHCP(snap, db, o) ==
  LET port == Ids(Named(db, "lsp", EndpointKey(o.vpc, o.name)))
      w == DHCPWant(o)
      bound == DHCPOptionsOf(snap, port)
      rows == Mine(snap, "dhcp", w.key) \cup bound
      keep == First(IF bound = {} THEN rows ELSE bound)
  IN  CASE ~Switch(snap, o.vpc, o.subnet).val[2] -> Drop(db, rows)
        [] Switch(snap, o.vpc, o.subnet).val[2] /\ rows = {} -> Insert(db, w, port)
        [] OTHER -> Drop(Put(db, keep, w, port, {}), rows \ {keep})

EnsureEndpoint(db, o) == Once(EndpointPort(db, db, o), LAMBDA c : EndpointDHCP(db, c, o))

EnsureNATRule(db, o) == EnsureUnder(db, db, o.vpc, NATWant(o), TRUE, TRUE)
RepairNATRule(snap, db, o) == EnsureUnder(snap, db, o.vpc, NATWant(o), FALSE, FALSE)

LBSwitches(snap, o) == {Switch(snap, o.vpc, s).id : s \in o.subnets}

HCsOf(snap, lbs) ==
  {x \in snap : /\ x.tb = "hc"
                /\ \/ x.up \cap Ids(lbs) # {}
                   \/ x.own /\ \E b \in lbs : Tail(x.key) = Tail(b.key)}

WithHCs(snap, lbs) == lbs \cup HCsOf(snap, lbs)

\* `add`: what is to refer to a health check that was there before.
SyncHealthChecks(snap, db, o, p, lb, add) ==
  LET w == HCWant(o, p)
      rows == Mine(snap, "hc", w.key) \cup {x \in snap : x.tb = "hc" /\ lb \in x.up}
      same == {x \in rows : x.front = w.front}
      keep == PreferredReferencedRow(same, lb)
  IN  CASE ~(o.hc /\ p = "tcp") -> Drop(db, rows)
        [] o.hc /\ p = "tcp" /\ same = {} -> Insert(Drop(db, rows), w, {lb})
        [] OTHER -> Drop(Put(db, keep, w, add, {}), rows \ {keep})

HealthChecks(snap, db, o, p) ==
  SyncHealthChecks(snap, db, o, p, First(Named(db, "lb", LBWant(o, p).name)).id, {})

\* In a repair, the load balancer gets its reference back.
RepairHealthChecks(snap, db, o, p) ==
  LET lb == First(Named(db, "lb", LBWant(o, p).name)).id
  IN  SyncHealthChecks(snap, db, o, p, lb, {lb})

LoadBalancerRow(snap, db, o, p) ==
  LET parents == {Router(snap, o.vpc).id} \cup LBSwitches(snap, o)
      others == Ids({x \in snap : x.tb \in {"lr", "ls"}}) \ parents
  IN  EnsureNamed(snap, db, LBWant(o, p), parents, others)

LBRows(snap, o) ==
  {x \in snap : x.own /\ x.tb = "lb" /\ x.key[2] = o.vpc /\ x.key[3] = o.name}

\* protos is the sequence of the protocols of the load balancer's ports.
StaleLBRows(snap, o) ==
  {x \in LBRows(snap, o) : \A i \in DOMAIN o.protos : x.name # LBWant(o, o.protos[i]).name}

EnsureLoadBalancer(db, o) ==
  LET step(b, p) == Once(LoadBalancerRow(db, b, o, p), LAMBDA c : HealthChecks(db, c, o, p))
  IN  Drop(Each(step, db, o.protos), WithHCs(db, StaleLBRows(db, o)))

RepairLoadBalancer(snap, db, o) ==
  LET row(p) == Named(snap, "lb", LBWant(o, p).name)
      repair(b, p) == Once(LoadBalancerRow(snap, b, o, p), LAMBDA c : RepairHealthChecks(snap, c, o, p))
      step(b, p) == IF row(p) # {} /\ First(row(p)).own THEN repair(b, p) ELSE b
  IN  IF HasRouter(snap, o.vpc) THEN Each(step, db, o.protos) ELSE db

\* The switches of a load balancer must exist, even before they are created.
LBRepairFails(snap, d) ==
  \E o \in Objects(d, "lb") : /\ HasRouter(snap, o.vpc)
                              /\ \E s \in o.subnets : ~HasSwitch(snap, o.vpc, s)

\* What an Ensure call finds missing and refuses to work without.
ParentsMissing(db, d, o) ==
  CASE o.t = "vpc" -> FALSE
    [] o.t = "sync" -> \E s \in Objects(d, "subnet") : ~HasSwitch(db, s.vpc, s.name)
    [] o.t = "ep" ->
         \/ ~HasSwitch(db, o.vpc, o.subnet)
         \/ /\ HasSwitch(db, o.vpc, o.subnet) /\ Switch(db, o.vpc, o.subnet).val[2]
            /\ Named(db, "lrp", <<"lrp", o.vpc, o.subnet>>) = {}
    [] o.t = "lb" -> ~HasRouter(db, o.vpc) \/ \E s \in o.subnets : ~HasSwitch(db, o.vpc, s)
    [] OTHER -> ~HasRouter(db, o.vpc)

\* Only the BFD sessions of routes can meet rows the call does not look for.
EnsureFails(db, d, o) ==
  ParentsMissing(db, d, o) \/ (o.t = "rt" /\ IndexClash(RouteTable(db, db, o, TRUE)))

\* "sync" stands for the DNS records as a whole.
Ensure(db, d, o) ==
  CASE o.t = "vpc" -> EnsureVPC(db, o)
    [] o.t = "subnet" -> EnsureSubnet(db, o)
    [] o.t = "sync" -> SyncDNS(db, db, d, TRUE)
    [] o.t = "rt" -> RouteTable(db, db, o, TRUE)
    [] o.t = "policy" -> PolicyRoute(db, db, o, TRUE)
    [] o.t = "gw" -> Gateway(db, db, o)
    [] o.t = "ep" -> EnsureEndpoint(db, o)
    [] o.t = "nat" -> EnsureNATRule(db, o)
    [] o.t = "lb" -> EnsureLoadBalancer(db, o)

\* Mutant: endpoints come before their subnets.
WorkListEndpointsFirst(d) ==
  ObjectSeq(d, "vpc") \o ObjectSeq(d, "ep") \o ObjectSeq(d, "subnet") \o <<[t |-> "sync"]>>
    \o ObjectSeq(d, "rt") \o ObjectSeq(d, "policy") \o ObjectSeq(d, "gw")
    \o ObjectSeq(d, "nat") \o ObjectSeq(d, "lb")

\* The Ensure calls of one reconcile, in the controller's order.
WorkList(d) ==
  ObjectSeq(d, "vpc") \o ObjectSeq(d, "subnet") \o <<[t |-> "sync"]>> \o ObjectSeq(d, "rt")
    \o ObjectSeq(d, "policy") \o ObjectSeq(d, "gw") \o ObjectSeq(d, "ep")
    \o ObjectSeq(d, "nat") \o ObjectSeq(d, "lb")

-----------------------------------------------------------------------------
(***************************************************************************)
(* CleanupTopology: the difference to the last desired state, the live     *)
(* rows nothing expects, and the repairs of a steady state.                *)
(***************************************************************************)
Stale(last, next, t) ==
  {o \in Objects(last, t) : \A p \in Objects(next, t) : ~SameKey(o, p)}

\* Mutant: everything is made anew.
StaleOrNot(last, next, t) == Objects(last, t)

StaleOrChanged(last, next, t) == Objects(last, t) \ Objects(next, t)

\* A destination and its next hops, whichever table has it.
RouteRecords(d) ==
  UNION {{[vpc |-> t.vpc, dst |-> t.routes[i].dst,
           hops |-> ToSet(t.routes[i].hops), bfd |-> t.routes[i].bfd]
           : i \in DOMAIN t.routes} : t \in Objects(d, "rt")}

FirstOf(rows) == IF rows = {} THEN {} ELSE {First(rows)}

SubnetRows(db, o) ==
  Named(db, "lsp", LocalnetName(o.vpc, o.name)) \cup Named(db, "lsp", SwitchPortWant(o).name)
    \cup Named(db, "lrp", RouterPortWant(o).name) \cup FirstOf(Named(db, "ls", SwitchWant(o).name))

EndpointRows(db, o) == Mine(db, "dhcp", DHCPWant(o).key) \cup Named(db, "lsp", EndpointWant(o).name)

\* Metadata of a gateway that is no more is taken off the router.
ClearGateways(db, routers) ==
  {IF x \in routers THEN [x EXCEPT !.val = NoGateway] ELSE x : x \in db}

SnapshotDiff(db, last, next) ==
  LET eps == UNION {EndpointRows(db, o) : o \in Stale(last, next, "ep")}
      subnets == UNION {SubnetRows(db, o) : o \in Stale(last, next, "subnet")}
      routes == {x \in db : /\ x.own /\ x.tb = "route"
                            /\ \E r \in RouteRecords(last) \ RouteRecords(next) :
                                  x.key[2] = r.vpc /\ x.front = <<r.dst>>}
      policies == UNION {Mine(db, "policy", PolicyWant(o).key) : o \in StaleOrChanged(last, next, "policy")}
      nats == UNION {Mine(db, "nat", NATWant(o).key) : o \in StaleOrChanged(last, next, "nat")}
      lbs == UNION {LBRows(db, o) : o \in StaleOrChanged(last, next, "lb")}
      routers == UNION {FirstOf(Named(db, "lr", VPCKey(o.vpc))) : o \in Stale(last, next, "vpc")}
      cleared == UNION {FirstOf(Named(db, "lr", VPCKey(o.vpc))) : o \in Stale(last, next, "gw")}
  IN  Drop(ClearGateways(db, cleared),
           eps \cup subnets \cup WithBFDs(db, routes) \cup policies \cup nats
             \cup WithHCs(db, lbs) \cup routers)

\* What the desired state asks of the database: the columns of each row and
\* the keys of the rows that refer to it.
Expect(w, up) == [w |-> w, up |-> up]

RouteRows(t) == {RouteWant(t, r) : r \in ToSet(Hops(t))}
BFDRows(t) == {BFDWant(t, r) : r \in {h \in ToSet(Hops(t)) : h.bfd # ""}}
HasDHCP(d, o) == \E s \in Objects(d, "subnet") : s.vpc = o.vpc /\ s.name = o.subnet /\ s.dhcp

SubnetExpect(o) ==
  {Expect(SwitchWant(o), {}), Expect(RouterPortWant(o), {VPCKey(o.vpc)}),
   Expect(SwitchPortWant(o), {SubnetKey(o.vpc, o.name)})}
    \cup IF o.provider = "" THEN {} ELSE {Expect(LocalnetWant(o), {SubnetKey(o.vpc, o.name)})}

EndpointExpect(d, o) ==
  {Expect(EndpointWant(o), {SubnetKey(o.vpc, o.subnet)})}
    \cup IF HasDHCP(d, o) THEN {Expect(DHCPWant(o), {EndpointKey(o.vpc, o.name)})} ELSE {}

LBExpect(o, p) ==
  {Expect(LBWant(o, p), {VPCKey(o.vpc)} \cup {SubnetKey(o.vpc, s) : s \in o.subnets})}
    \cup IF o.hc /\ p = "tcp" THEN {Expect(HCWant(o, p), {LBWant(o, p).key})} ELSE {}

RouterExpect(d, v) ==
  {Expect(RouterWant(v, g), {}) : g \in GatewayOf(d, v)}
    \cup IF GatewayOf(d, v) = {} THEN {Expect(RouterWant(v, NoGateway), {})} ELSE {}

ExpectedRows(d) ==
  UNION {RouterExpect(d, o.vpc) : o \in Objects(d, "vpc")}
    \cup UNION {SubnetExpect(o) : o \in Objects(d, "subnet")}
    \cup {Expect(DNSWant(o), {SubnetKey(s.vpc, s.name) : s \in Objects(d, "subnet")})
            : o \in Objects(d, "dns")}
    \cup UNION {{Expect(w, {VPCKey(t.vpc)}) : w \in RouteRows(t)} : t \in Objects(d, "rt")}
    \cup UNION {{Expect(w, {<<"route">> \o Tail(w.key)}) : w \in BFDRows(t)} : t \in Objects(d, "rt")}
    \cup {Expect(PolicyWant(o), {VPCKey(o.vpc)}) : o \in Objects(d, "policy")}
    \cup UNION {EndpointExpect(d, o) : o \in Objects(d, "ep")}
    \cup {Expect(NATWant(o), {VPCKey(o.vpc)}) : o \in Objects(d, "nat")}
    \cup UNION {UNION {LBExpect(o, o.protos[i]) : i \in DOMAIN o.protos} : o \in Objects(d, "lb")}

\* Mutant: rows of somebody else count.
UnexpectedAny(expected, x) ==
  x.tb = "hc" \/ \A e \in expected : e.w.tb # x.tb \/ e.w.key # x.key

\* A managed row whose identity the desired state does not have.  Health
\* checks have none of their own: they go by the load balancer they are on.
Unexpected(expected, x) ==
  x.own /\ (x.tb = "hc" \/ \A e \in expected : e.w.tb # x.tb \/ e.w.key # x.key)

\* Rows with an unexpected identity that are kept all the same: those whose
\* columns an expected router wants, those an expected row refers to, routers
\* and switches of an expected name.
WantedByRouter(db, expected, x) ==
  \E lr \in db, e \in expected :
     /\ lr.tb = "lr" /\ lr.id \in x.up /\ ~Unexpected(expected, lr)
     /\ e.w.tb = x.tb /\ lr.name = VPCKey(e.w.key[2]) /\ RowMatches(x, e.w)

UsedByExpected(db, expected, x) ==
  \E y \in db : y.tb \in {"lsp", "lb"} /\ y.id \in x.up /\ ~Unexpected(expected, y)

UsedByRoute(db, expected, x) ==
  \E y \in db : /\ y.tb = "route" /\ y.id \in x.up /\ y.own
                /\ \E e \in expected : e.w.tb = "bfd" /\ Tail(e.w.key) = Tail(y.key)

Spared(db, expected, x) ==
  CASE x.tb \in {"route", "policy", "nat"} -> WantedByRouter(db, expected, x)
    [] x.tb \in {"dhcp", "hc"} -> UsedByExpected(db, expected, x)
    [] x.tb = "bfd" -> UsedByRoute(db, expected, x)
    [] x.tb \in {"lr", "ls"} -> \E e \in expected : e.w.tb = x.tb /\ e.w.name = x.name
    [] x.tb \in {"lrp", "lsp", "lb"} -> FALSE
    [] x.tb = "dns" -> TRUE

UnexpectedLive(db, d) ==
  LET gone(expected) == {x \in db : Unexpected(expected, x) /\ ~Spared(db, expected, x)}
      only(rows, tb) == {x \in rows : x.tb = tb}
      cleared == {x \in db : /\ x.own /\ x.tb = "lr" /\ x.key[2] \in {o.vpc : o \in Objects(d, "vpc")}
                             /\ GatewayOf(d, x.key[2]) = {}}
      clean(rows) == Drop(ClearGateways(db, cleared),
                          WithBFDs(db, only(rows, "route")) \cup WithHCs(db, only(rows, "lb")) \cup rows)
  IN  Once(ExpectedRows(d), LAMBDA expected : Once(gone(expected), clean))

\* Routers, switches and ports whose identity is right get their names back.
RepairCoreNames(db, d) ==
  LET core == {e.w : e \in {f \in ExpectedRows(d) : f.w.tb \in {"lr", "ls", "lrp", "lsp"}
                                                     /\ f.w.key[1] # "localnet"}}
      rename(x) == [x EXCEPT !.name = IF \E w \in core : w.tb = x.tb /\ w.key = x.key
                                      THEN x.key ELSE @]
      configure(x) == IF x.tb = "lr" /\ x.name \in {VPCKey(o.vpc) : o \in Objects(d, "vpc")}
                      THEN [x EXCEPT !.front = <<"on">>, !.key = x.name,
                                     !.val = IF GatewayOf(d, x.name[2]) = {} THEN NoGateway ELSE @]
                      ELSE x
  IN  {IF x.own THEN rename(configure(x)) ELSE x : x \in db}

RepairEndpointPorts(db, d) ==
  LET step(b, o) == IF HasSwitch(db, o.vpc, o.subnet) THEN EndpointPort(db, b, o) ELSE b
  IN  Each(step, db, ObjectSeq(d, "ep"))

RepairEndpointDHCP(db, d) ==
  LET ready(o) == /\ HasSwitch(db, o.vpc, o.subnet)
                  /\ Named(db, "lsp", EndpointKey(o.vpc, o.name)) # {}
                  /\ Switch(db, o.vpc, o.subnet).val[2]
                       => Named(db, "lrp", <<"lrp", o.vpc, o.subnet>>) # {}
      step(b, o) == IF ready(o) THEN EndpointDHCP(db, b, o) ELSE b
  IN  Each(step, db, ObjectSeq(d, "ep"))

RepairRoutes(db, d) ==
  LET table(b, t) == RouteTable(db, b, t, FALSE)
      policy(b, o) == PolicyRoute(db, b, o, FALSE)
  IN  Each(policy, Each(table, db, ObjectSeq(d, "rt")), ObjectSeq(d, "policy"))

RepairGateways(db, d) ==
  LET step(b, o) == Gateway(db, b, o) IN Each(step, db, ObjectSeq(d, "gw"))

RepairDNS(db, d) == SyncDNS(db, db, d, FALSE)

RepairNATRules(db, d) ==
  LET step(b, o) == RepairNATRule(db, b, o) IN Each(step, db, ObjectSeq(d, "nat"))

RepairLoadBalancers(db, d) ==
  LET step(b, o) == RepairLoadBalancer(db, b, o) IN Each(step, db, ObjectSeq(d, "lb"))

RepairSubnetPorts(db, d) ==
  LET step(b, o) ==
        IF HasRouter(db, o.vpc) /\ HasSwitch(db, o.vpc, o.name)
        THEN SubnetPorts(db, EnsureNamed(db, b, SwitchWant(o), {}, {}), o,
                         Router(db, o.vpc).id, Switch(db, o.vpc, o.name).id)
        ELSE b
  IN  Each(step, db, ObjectSeq(d, "subnet"))
=============================================================================
