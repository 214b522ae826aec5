---------------------------- MODULE ProviderRows ----------------------------
(***************************************************************************)
(* The local Open_vSwitch database as the provider network syncer sees it, *)
(* and the transaction it computes (internal/linuxdatapath:                *)
(* ovsdb_vswitch.go, libovsdb_vswitch.go).  The database is a set of rows. *)
(* A transaction is a sequence of operations, every one of them computed   *)
(* from `snap`, the client's cache, and run on what the database holds by  *)
(* then.                                                                   *)
(***************************************************************************)
EXTENDS Naturals, FiniteSets, Sequences, SequencesExt

CONSTANT QueueId   \* queue numbers: the columns of QoS.queues

VARIABLE order     \* how the UUIDs of rows compare to their ages

\* A row is [id, tb, name, own, val, refs]: own tells whether its external ids
\* make it netloom's, val stands for its other columns, refs is a set of
\* <<column, id>>.  The rows of the other tables vanish with the last
\* reference to them.
RootTable == {"root", "qos", "queue"}
Ids(rows) == {x.id : x \in rows}
At(rows, tb) == {x \in rows : x.tb = tb}
Named(rows, tb, name) == {x \in rows : x.tb = tb /\ x.name = name}
Refs(x, col) == {r \in x.refs : r[1] = col}

\* f(v); TLC evaluates v once here, and an argument again at every use.
Once(v, f(_)) == UNION {f(x) : x \in {v}}

\* The sequences f(x), one after the other, in no particular order.
Each(S, f(_)) ==
  FoldSet(LAMBDA part, ops : part[2] \o ops, <<>>, {<<x, f(x)>> : x \in S})

-----------------------------------------------------------------------------
(***************************************************************************)
(* The rows wanted: desiredProviderOVSDBRows.  A link specification is     *)
(* [net, nic, vlan, iso, ctls, qos, queues]; qos is "" when no rate is     *)
(* set, iso "" when the network may be isolated in any way.                *)
(***************************************************************************)
LinkName(s) == <<s.net, s.nic, s.vlan>>
BridgeName(net) == <<net>>
QueueName(s, q) == LinkName(s) \o <<q.n>>
HasQoS(s) == s.qos # "" \/ s.queues # {}

\* refs of a wanted row are <<column, table, name>>.
Want(tb, name, val, refs) == [tb |-> tb, name |-> name, val |-> val, refs |-> refs]

ControllerWants(S) ==
  UNION {{Want("controller", <<s.net, t>>, <<t>>, {}) : t \in s.ctls} : s \in S}

BridgeWant(S, net) ==
  LET of == {s \in S : s.net = net}
      targets == UNION {s.ctls : s \in of}
      failMode == IF targets = {} THEN "" ELSE "secure"
  IN  Want("bridge", BridgeName(net), <<failMode, (CHOOSE s \in of : TRUE).iso>>,
           {<<"controller", "controller", <<net, t>>>> : t \in targets}
             \cup {<<"ports", "port", LinkName(s)>> : s \in of})

PortWant(s) ==
  Want("port", LinkName(s), <<s.qos, s.iso>>,
       {<<"interfaces", "interface", LinkName(s)>>}
         \cup (IF HasQoS(s) THEN {<<"qos", "qos", LinkName(s)>>} ELSE {}))

QueueWant(s, q) == Want("queue", QueueName(s, q), <<q.tenant, q.val>>, {})

QoSWant(s) ==
  Want("qos", LinkName(s), <<s.qos>>, {<<q.n, "queue", QueueName(s, q)>> : q \in s.queues})

Wants(S) ==
  ControllerWants(S)
    \cup {BridgeWant(S, s.net) : s \in S}
    \cup UNION {{QueueWant(s, q) : q \in s.queues} : s \in S}
    \cup {QoSWant(s) : s \in {x \in S : HasQoS(x)}}
    \cup {Want("interface", LinkName(s), <<s.qos, s.iso>>, {}) : s \in S}
    \cup {PortWant(s) : s \in S}

\* ovn-bridge-mappings and the identity groups on the Open_vSwitch row.
RootVal(S, groups) == <<{s.net : s \in S}, groups, "root">>

-----------------------------------------------------------------------------
(***************************************************************************)
(* Looking up rows in the cache.                                           *)
(***************************************************************************)
First(rows) ==
  CHOOSE x \in rows : \A y \in rows : IF order = "asc" THEN x.id <= y.id ELSE x.id >= y.id

Mine(snap, tb, name) == {x \in Named(snap, tb, name) : x.own}

\* Of several rows of one name the one in use, or else the first.
Preferred(rows, used) ==
  IF rows = {} THEN {} ELSE
    LET inUse == {x \in rows : x.id \in {r[2] : r \in used}}
    IN  {First(IF inUse = {} THEN rows ELSE inUse)}

QoSByProviderName(snap, name) ==
  Preferred(Mine(snap, "qos", name), UNION {Refs(p, "qos") : p \in Named(snap, "port", name)})

QueueByProviderName(snap, name) ==
  LET n == name[Len(name)]
  IN  Preferred(Mine(snap, "queue", name),
                UNION {Refs(x, n) : x \in QoSByProviderName(snap, Front(name))})

\* Controllers of one name come in no particular order: any is the one.
Found(snap, w, ctl) ==
  CASE w.tb = "qos" -> QoSByProviderName(snap, w.name)
    [] w.tb = "queue" -> QueueByProviderName(snap, w.name)
    [] w.tb = "controller" ->
         LET rows == Mine(snap, "controller", w.name)
         IN  IF rows = {} THEN {}
             ELSE {CHOOSE x \in rows : \A y \in rows : IF ctl = "asc" THEN x.id <= y.id ELSE x.id >= y.id}
    [] OTHER -> Named(snap, w.tb, w.name)

\* The UUIDs of the wanted rows: what is not there gets a new one.
Uuids(snap, wants, ctl) ==
  LET missing == Each({w \in wants : Found(snap, w, ctl) = {}}, LAMBDA w : <<w>>)
      free == (1..(Cardinality(snap) + Len(missing))) \ Ids(snap)
      fresh(i) == CHOOSE n \in free : Cardinality({m \in free : m < n}) = i - 1
  IN  [w \in wants |->
         LET rows == Found(snap, w, ctl)
         IN  IF rows # {} THEN (CHOOSE x \in rows : TRUE).id
             ELSE fresh(CHOOSE i \in DOMAIN missing : missing[i] = w)]

Managed(snap, tb, id) == \E x \in At(snap, tb) : x.id = id /\ x.own

-----------------------------------------------------------------------------
(***************************************************************************)
(* Operations.  An update writes all columns the syncer sets on a row of   *)
(* its table, "set" the given reference columns only; both overwrite what  *)
(* is there.  An operation on a row that is gone does nothing.             *)
(***************************************************************************)
Insert(row) == [do |-> "insert", row |-> row]
Delete(id) == [do |-> "delete", id |-> id]
Update(id, val, cols, refs) ==
  [do |-> "update", id |-> id, val |-> val, cols |-> cols, refs |-> refs]
SetRefs(id, cols, refs) == [do |-> "set", id |-> id, cols |-> cols, refs |-> refs]
AddRef(id, ref) == [do |-> "add", id |-> id, ref |-> ref]
CutRef(id, ref) == [do |-> "cut", id |-> id, ref |-> ref]

Changed(x, o) ==
  LET overwritten == {r \in x.refs : r[1] \notin o.cols} \cup o.refs
  IN  CASE o.do = "update" -> [x EXCEPT !.own = TRUE, !.val = o.val, !.refs = overwritten]
        [] o.do = "set" -> [x EXCEPT !.refs = overwritten]
        [] o.do = "add" -> [x EXCEPT !.refs = @ \cup {o.ref}]
        [] o.do = "cut" -> [x EXCEPT !.refs = @ \ {o.ref}]

Step(b, o) ==
  CASE o.do = "insert" -> b \cup {o.row}
    [] o.do = "delete" -> {x \in b : x.id # o.id}
    [] OTHER -> {IF x.id = o.id THEN Changed(x, o) ELSE x : x \in b}

\* At the end of a transaction rows nobody refers to go, three levels deep.
Referred(b) ==
  LET held == UNION {{r[2] : r \in x.refs} : x \in b}
  IN  {x \in b : x.tb \in RootTable \/ x.id \in held}
Settle(b) == Once(Referred(b), LAMBDA b1 : Once(Referred(b1), LAMBDA b2 : Referred(b2)))

Run(b, ops) == Once(FoldLeft(Step, b, ops), Settle)

\* What the schema asks of the result; otherwise nothing of it happens.
Valid(b) ==
  /\ \A x \in b : \A r \in x.refs : r[2] \in Ids(b)
  /\ \A x \in At(b, "port") : Refs(x, "interfaces") # {}
  /\ \A x, y \in b : x.tb = y.tb /\ x.name = y.name /\ x.id # y.id => x.tb \in RootTable \cup {"controller"}

-----------------------------------------------------------------------------
(***************************************************************************)
(* Creating and updating rows.                                             *)
(***************************************************************************)
Columns(tb) ==
  CASE tb = "bridge" -> {"controller"}
    [] tb = "port" -> {"interfaces", "qos"}
    [] tb = "qos" -> QueueId
    [] OTHER -> {}

Resolved(u, refs) ==
  {<<r[1], u[CHOOSE w \in DOMAIN u : w.tb = r[2] /\ w.name = r[3]]>> : r \in refs}

\* References of somebody else that the syncer leaves where it wants none: a
\* bridge's controllers, a port's QoS.
Spared(snap, x, refs) ==
  {r \in x.refs : \/ r[1] = "controller" /\ refs = {} /\ ~Managed(snap, "controller", r[2])
                  \/ r[1] = "qos" /\ ~Managed(snap, "qos", r[2]) /\ \A n \in refs : n[1] # "qos"}

\* ensureController, ensureBridge, ensureQueue, ensureQoS, ensureInterface and
\* ensurePort: a row that is as it should be is left alone.
EnsureOps(snap, u, w, ctl) ==
  LET rows == Found(snap, w, ctl)
      refs == Resolved(u, {r \in w.refs : r[1] # "ports"})
      x == CHOOSE r \in rows : TRUE
      o == Update(u[w], w.val, Columns(w.tb), refs \cup Spared(snap, x, refs))
  IN  IF rows = {}
      THEN <<Insert([id |-> u[w], tb |-> w.tb, name |-> w.name, own |-> TRUE, val |-> w.val, refs |-> refs])>>
      ELSE IF Changed(x, o) = x THEN <<>> ELSE <<o>>

\* attachPortToBridge and detachPortFromOtherBridges.
AttachOps(snap, u, S, s) ==
  LET ref == <<"ports", u[PortWant(s)]>>
      holders == {x \in At(snap, "bridge") : ref \in x.refs}
      bridge == u[BridgeWant(S, s.net)]
  IN  (IF bridge \in Ids(holders) THEN <<>> ELSE <<AddRef(bridge, ref)>>)
        \o Each({h \in holders : h.id # bridge}, LAMBDA h : <<CutRef(h.id, ref)>>)

Root(b) == CHOOSE x \in b : x.tb = "root"

\* updateOpenVSwitchRoot: the bridges of the cache and the wanted ones.
RootOps(snap, u, S, groups) ==
  LET x == Root(snap)
      o == Update(x.id, RootVal(S, groups), {"bridges"},
                  x.refs \cup {<<"bridges", u[BridgeWant(S, s.net)]>> : s \in S})
  IN  IF Changed(x, o) = x THEN <<>> ELSE <<o>>

-----------------------------------------------------------------------------
(***************************************************************************)
(* Removing rows.                                                          *)
(***************************************************************************)
\* The sequences f(x), by the UUIDs of the rows x.
For(rows, f(_)) ==
  LET parts == {<<x.id, f(x)>> : x \in rows}
      before(p) == {q \in parts : IF order = "asc" THEN q[1] < p[1] ELSE q[1] > p[1]}
  IN  FlattenSeq([i \in 1..Cardinality(parts) |-> (CHOOSE p \in parts : Cardinality(before(p)) = i - 1)[2]])

Holding(snap, tb, id) == {x \in At(snap, tb) : \E r \in x.refs : r[2] = id}
Children(snap, x, col) == {y \in snap : <<col, y.id>> \in x.refs}

DetachQoSFromPorts(snap, id) ==
  For(Holding(snap, "port", id), LAMBDA p : <<SetRefs(p.id, {"qos"}, {})>>)

DetachQueueFromQoSExcept(snap, id, skip) ==
  For({x \in Holding(snap, "qos", id) : x.id # skip},
      LAMBDA x : <<SetRefs(x.id, QueueId, {r \in x.refs : r[2] # id})>>)

DeleteQoSIfManaged(snap, p) ==
  For({x \in Children(snap, p, "qos") : x.own}, LAMBDA x :
    DetachQoSFromPorts(snap, x.id) \o <<Delete(x.id)>>
      \o For({q \in snap : q.own /\ \E r \in x.refs : r[2] = q.id}, LAMBDA q :
           DetachQueueFromQoSExcept(snap, q.id, x.id) \o <<Delete(q.id)>>))

\* Mutant: whoever made the row.
StaleOfAnyone(snap, tb, wants) ==
  {x \in At(snap, tb) : x.name \notin {w.name : w \in {v \in wants : v.tb = tb}}}

Stale(snap, tb, wants) ==
  {x \in At(snap, tb) : x.own /\ x.name \notin {w.name : w \in {v \in wants : v.tb = tb}}}

\* A bridge goes with all its ports, whoever made them.
DeleteBridge(snap, b) ==
  For(Children(snap, b, "ports"), LAMBDA p :
    For(Children(snap, p, "interfaces"), LAMBDA i : <<Delete(i.id)>>)
      \o DeleteQoSIfManaged(snap, p) \o <<Delete(p.id)>>)
    \o <<Delete(b.id)>>

\* Mutant: the root keeps its reference.
CleanupAttachedBridges(snap, wants) ==
  For(Stale(snap, "bridge", wants), LAMBDA b : DeleteBridge(snap, b))

CleanupStaleBridges(snap, wants) ==
  For(Stale(snap, "bridge", wants), LAMBDA b :
    <<CutRef(Root(snap).id, <<"bridges", b.id>>)>> \o DeleteBridge(snap, b))

DetachPortFromBridges(snap, id) ==
  For(Holding(snap, "bridge", id), LAMBDA b : <<CutRef(b.id, <<"ports", id>>)>>)

CleanupStalePorts(snap, wants) ==
  For(Stale(snap, "port", wants), LAMBDA p :
    DetachPortFromBridges(snap, p.id) \o DeleteQoSIfManaged(snap, p) \o <<Delete(p.id)>>)

DetachFromUnexpectedPorts(snap, wants) ==
  For({p \in At(snap, "port") : /\ p.name \notin {w.name : w \in {v \in wants : v.tb = "port"}}
                                /\ \E x \in Children(snap, p, "qos") : x.own},
      LAMBDA p : <<SetRefs(p.id, {"qos"}, {})>>)

DetachInterfaceFromPorts(snap, id) ==
  For(Holding(snap, "port", id), LAMBDA p :
    <<SetRefs(p.id, {"interfaces"}, Refs(p, "interfaces") \ {<<"interfaces", id>>})>>)

CleanupStaleInterfaces(snap, wants) ==
  For(Stale(snap, "interface", wants), LAMBDA i :
    DetachInterfaceFromPorts(snap, i.id) \o <<Delete(i.id)>>)

\* QoS, Queue and Controller rows that are not the one of their name in use.
Surplus(snap, tb, u) ==
  {x \in At(snap, tb) : x.own /\ x.id \notin {u[w] : w \in {v \in DOMAIN u : v.tb = tb /\ v.name = x.name}}}

CleanupSurplus(snap, u) ==
  For(Surplus(snap, "qos", u), LAMBDA x : DetachQoSFromPorts(snap, x.id) \o <<Delete(x.id)>>)
    \o For(Surplus(snap, "queue", u), LAMBDA q : DetachQueueFromQoSExcept(snap, q.id, 0) \o <<Delete(q.id)>>)

\* Mutant: only the first update of a QoS decides.
RepairNothing(snap, u) == <<>>

\* Detaching queues overwrote the columns of wanted rows as well.
RepairQueues(snap, u) ==
  LET fixed(w) ==
        LET refs == Resolved(u, w.refs)
            off == {x \in At(snap, "qos") : x.id = u[w] /\ x.refs # refs}
        IN  Each(off, LAMBDA x : <<SetRefs(x.id, QueueId, refs)>>)
  IN  Each({w \in DOMAIN u : w.tb = "qos"}, fixed)

DetachControllerFromBridges(snap, id) ==
  For(Holding(snap, "bridge", id), LAMBDA b : <<CutRef(b.id, <<"controller", id>>)>>)

CleanupControllers(snap, u) ==
  For(Surplus(snap, "controller", u), LAMBDA c :
    DetachControllerFromBridges(snap, c.id) \o <<Delete(c.id)>>)

CleanupOps(snap, wants, u) ==
  CleanupStaleBridges(snap, wants) \o CleanupStalePorts(snap, wants)
    \o DetachFromUnexpectedPorts(snap, wants) \o CleanupStaleInterfaces(snap, wants)
    \o CleanupSurplus(snap, u) \o RepairQueues(snap, u) \o CleanupControllers(snap, u)

\* SyncProviderOVSDB up to the call of transact.
SyncOps(snap, S, groups, cleanup, ctl) ==
  LET wants == Wants(S)
      ops(u) ==
        Each(wants, LAMBDA w : EnsureOps(snap, u, w, ctl))
          \o Each(S, LAMBDA s : AttachOps(snap, u, S, s))
          \o RootOps(snap, u, S, groups)
          \o (IF cleanup THEN CleanupOps(snap, wants, u) ELSE <<>>)
  IN  CHOOSE o \in {ops(u) : u \in {Uuids(snap, wants, ctl)}} : TRUE

-----------------------------------------------------------------------------
(***************************************************************************)
(* ReadProviderOVSDBStatus: what it reports as missing or drifted, as      *)
(* <<part, link>>.  Whether controllers are connected is left out.         *)
(***************************************************************************)
Targets(b, bridge) == {x.val[1] : x \in {y \in b : <<"controller", y.id>> \in bridge.refs}}

\* The target asked for is the one the row has, not the one wanted.
ControllerOff(b, bridge, s, ctl) ==
  \E w \in ControllerWants({s}) :
    LET rows == Found(b, w, ctl)
    IN  rows = {} \/ \E x \in rows : x.val[1] \notin Targets(b, bridge)

\* Mutant: the queues are told apart by their names alone.
QueuesMissing(b, x, s) ==
  \/ Cardinality(x.refs) # Cardinality(s.queues)
  \/ \E q \in s.queues : ~\E r \in x.refs, y \in b :
       r = <<q.n, y.id>> /\ y.own /\ y.name = QueueName(s, q)

QueuesOff(b, x, s) ==
  \/ Cardinality(x.refs) # Cardinality(s.queues)
  \/ \E q \in s.queues : ~\E r \in x.refs, y \in b :
       r = <<q.n, y.id>> /\ y.own /\ y.name = QueueName(s, q) /\ y.val = <<q.tenant, q.val>>

QoSOff(b, p, s) ==
  LET held == {x \in b : <<"qos", x.id>> \in p.refs}
  IN  IF ~HasQoS(s) THEN \E x \in held : x.own
      ELSE ~\E x \in held : x.own /\ x.name = LinkName(s) /\ x.val = QoSWant(s).val /\ ~QueuesOff(b, x, s)

\* What a port is compared with: the isolation is lost on the way.
ComparedPort(s) == <<s.qos, "">>

PortOff(b, bridge, p, s) ==
  \/ \E x \in bridge : <<"ports", p.id>> \notin x.refs
  \/ ~p.own \/ p.val # ComparedPort(s)
  \/ Refs(p, "interfaces") # {<<"interfaces", i.id>> : i \in Named(b, "interface", LinkName(s))}

LinkOff(b, S, s, ctl) ==
  LET bridge == Named(b, "bridge", BridgeName(s.net))
      port == Named(b, "port", LinkName(s))
      iface == Named(b, "interface", LinkName(s))
      like(x, w) == x.own /\ x.val = w.val
  IN  {<<part, LinkName(s)>> : part \in
        {"root" : r \in {x \in {Root(b)} : x.val # RootVal(S, "")}}
        \cup {"mapping" : r \in {x \in {Root(b)} : s.net \notin x.val[1]}}
        \cup (IF \E x \in bridge : like(x, BridgeWant(S, s.net)) THEN {} ELSE {"bridge"})
        \cup {"controller" : x \in {y \in bridge : ControllerOff(b, y, s, ctl)}}
        \cup (IF \E p \in port : ~PortOff(b, {x \in bridge : like(x, BridgeWant(S, s.net))}, p, s) THEN {} ELSE {"port"})
        \cup (IF \E x \in iface : like(x, PortWant(s)) THEN {} ELSE {"interface"})
        \cup (IF port = {} THEN IF HasQoS(s) THEN {"qos"} ELSE {}
              ELSE {"qos" : p \in {x \in port : QoSOff(b, x, s)}})}

StatusIssues(b, S, ctl) == UNION {LinkOff(b, S, s, ctl) : s \in S}
=============================================================================
