------------------------------- MODULE NBAudit -------------------------------
(***************************************************************************)
(* The audit of the northbound database against the desired state          *)
(* (internal/ovn/audit.go over the rows of libovsdb_reader.go), run by the *)
(* controller after a reconcile and behind its drift metrics.  It does not *)
(* follow references: it compares what it can read of them, the names of   *)
(* the rows, with the names the desired state implies.                     *)
(***************************************************************************)
EXTENDS NBRows

\* What tells managed rows apart.  A health check goes by its address.
Identity(x) ==
  IF x.tb = "hc" THEN <<"hc", x.key[2], x.key[3]>> \o x.front ELSE x.key

\* The columns compared.  The DHCP settings kept on a switch are not.
Columns(x) ==
  CASE x.tb = "ls" -> <<x.name, Head(x.val)>>
    [] x.tb = "hc" -> <<x.key, x.val>>
    [] OTHER -> <<x.name, x.front, x.val>>

Under(db, x, tb) == {y \in db : y.tb = tb /\ x.id \in y.up}

\* The names of rows, where several of one name do not count as one.
\* `named` pairs the names with the rows that have them.
Counted(named) ==
  {<<p[1], Cardinality({q \in named : q[1] = p[1]})>> : p \in named}
Singly(names) == {<<n, 1>> : n \in names}

\* What the reader shows of the rows x refers to: fields and their names.
\* Rows of somebody else have no NAT, policy, route, DNS or BFD names.
LiveFields(db, x) ==
  LET named(tb) == {y.name : y \in Under(db, x, tb)}
      keys(tb) == {y.key : y \in {z \in Under(db, x, tb) : z.key[1] = tb}}
      lbs == Counted({<<y.name, y.id>> : y \in Under(db, x, "lb")})
  IN  CASE x.tb = "lr" ->
             {<<"ports", named("lrp")>>, <<"load_balancers", lbs>>,
              <<"nat_rules", {k[3] : k \in keys("nat")}>>,
              <<"policies", {k[3] : k \in keys("policy")}>>,
              <<"static_routes", {<<k[4], k[5]>> : k \in keys("route")}>>}
        [] x.tb = "ls" ->
             {<<"ports", named("lsp")>>, <<"load_balancers", lbs>>,
              <<"dns_records", Counted({<<y.key, y.id>> : y \in {z \in Under(db, x, "dns") : z.key = <<"dns">>}})>>}
        [] x.tb = "lsp" -> {<<"dhcp_options", {y.val : y \in Under(db, x, "dhcp")}>>}
        [] x.tb = "route" -> {<<"bfd", {Tail(y.key) : y \in {z \in Under(db, x, "bfd") : z.own}}>>}
        [] x.tb = "lb" -> {<<"health_check_vips", Counted({<<y.front, y.id>> : y \in Under(db, x, "hc")})>>}
        [] OTHER -> {}

\* A field nothing is wanted in is not expected at all.
Field(f, names) == IF names = {} THEN {} ELSE {<<f, names>>}

LBNames(lbs) == UNION {{LBWant(o, o.protos[i]).name : i \in DOMAIN o.protos} : o \in lbs}

RouterFields(d, v) ==
  LET of(t) == Of(d, t, v)
      routes == UNION {{<<r.dst, r.hop>> : r \in ToSet(Hops(t))} : t \in of("rt")}
  IN  Field("ports", {RouterPortWant(o).name : o \in of("subnet")})
        \cup Field("load_balancers", Singly(LBNames(of("lb"))))
        \cup Field("nat_rules", {o.name : o \in of("nat")})
        \cup Field("policies", {o.name : o \in of("policy")})
        \cup Field("static_routes", routes)

SwitchFields(d, v, s) ==
  LET subnets == {o \in Objects(d, "subnet") : o.vpc = v /\ o.name = s}
      eps == {o \in Objects(d, "ep") : o.vpc = v /\ o.subnet = s}
      lbs == {o \in Objects(d, "lb") : o.vpc = v /\ s \in o.subnets}
      ports == {SwitchPortWant(o).name : o \in subnets} \cup {EndpointWant(o).name : o \in eps}
                 \cup {LocalnetWant(o).name : o \in {p \in subnets : p.provider # ""}}
  IN  Field("ports", ports)
        \cup Field("load_balancers", Singly(LBNames(lbs)))
        \cup Field("dns_records", Singly({<<"dns">> : o \in Objects(d, "dns")}))

\* What the fields of a row the desired state wants are expected to be.
ExpectedFields(d, w) ==
  CASE w.tb = "lr" -> RouterFields(d, w.key[2])
    [] w.tb = "ls" -> SwitchFields(d, w.key[2], w.key[3])
    [] w.tb = "lsp" ->
         Field("dhcp_options",
               {DHCPWant(o).val : o \in {p \in Objects(d, "ep") : EndpointWant(p) = w /\ HasDHCP(d, p)}})
    [] w.tb = "route" ->
         {<<"bfd", {Tail(k) : k \in {b.key : b \in UNION {BFDRows(t) : t \in Objects(d, "rt")}}}
                      \cap {Tail(w.key)}>>}
    [] w.tb = "lb" ->
         Field("health_check_vips",
               Singly({HCWant(o, "tcp").front :
                         o \in {p \in Objects(d, "lb") : p.hc /\ w = LBWant(p, "tcp")}}))
    [] OTHER -> {}

\* Fields that must be empty where they are not expected.
StaleField == {"dns_records", "dhcp_options", "health_check_vips"}

\* Mutant: what a row refers to is not compared.
DriftsColumns(db, d, x, w) == Columns(x) # Columns(w)

Drifts(db, d, x, w) ==
  LET live == LiveFields(db, x)
      want == ExpectedFields(d, w)
  IN  \/ Columns(x) # Columns(w)
      \/ ~(want \subseteq live)
      \/ \E f \in live : f[1] \in StaleField /\ f[2] # {} /\ \A e \in want : e[1] # f[1]

\* The audit: the identities with an issue, by kind.  Of several rows of one
\* identity one is compared, and of several gateways of a VPC any one
\* is expected.  With nothing expected nothing is unexpected.
Audit(db, d) ==
  LET wants == {e.w : e \in ExpectedRows(d)}
      expected == {Identity(w) : w \in wants}
      managed == {x \in db : x.own}
      seen == {Identity(x) : x \in managed}
      rows(i) == {x \in managed : Identity(x) = i}
      want(i) == CHOOSE w \in wants : Identity(w) = i
  IN  [duplicate |-> {i \in seen : Cardinality(rows(i)) > 1},
       unexpected |-> IF expected = {} THEN {} ELSE seen \ expected,
       missing |-> expected \ seen,
       drifted |-> {i \in seen \cap expected : Drifts(db, d, First(rows(i)), want(i))}]

NoIssues == [duplicate |-> {}, unexpected |-> {}, missing |-> {}, drifted |-> {}]
==============================================================================
