---------------------------- MODULE LinuxDatapath ----------------------------
(***************************************************************************)
(* The agent's Linux datapath in netns mode with the netlink backend       *)
(* (internal/linuxdatapath/netlink.go): namespaces and veth pairs of local *)
(* workloads, host routes, and policy routes projected into routing tables *)
(* and RPDB rules.  Apply keeps no state of its own: it is a sequence of   *)
(* kernel calls that ends at the first error, and any step of it may be    *)
(* the last one the process makes.                                         *)
(***************************************************************************)
EXTENDS Integers, Sequences, FiniteSets, Functions

CONSTANTS
  Id,           \* workloads: EndpointKey(VPC, ID)
  Ip,           \* endpoint addresses
  None,         \* nothing there
  TableSize,    \* Options.PolicyTableSize
  Offset,       \* policyRouteTableOffset: policy key -> 0..TableSize-1
  Plans,        \* [states, start, cleanup]: what a behaviour exercises
  MaxChanges,   \* bound on the changes of the desired state
  MaxDrifts,    \* bound on the changes made under the agent
  MaxFaults     \* bound on failed calls and on ends of the process

Here == "here"      \* Options.Node
Table == 0..(TableSize - 1)
Main == TableSize   \* linuxMainRouteTable

\* A desired state is [eps, routes]: a sequence of endpoints and a set of
\* policies.  Traffic is a set of flows: to has those of the destination,
\* parts those of each combination of source and destination ports.  Keys are
\* numbered in the order of (VPC, Name).
States == UNION {p.states : p \in Plans}
Flow == UNION {r.to : r \in UNION {d.routes : d \in States}}
Endpoint == [id : Id, ip : Ip, node : STRING, vpc : STRING]
PolicyRoutePriorityMax == 32767
Policy == [key : DOMAIN Offset, vpc : STRING, prio : 0..PolicyRoutePriorityMax,
           act : STRING, to : SUBSET Flow, parts : SUBSET SUBSET Flow]

\* What validation makes of a desired state: no two endpoints and no two
\* policies of one name (controller.go:791, 1677; model.go:1082).
Validated(d) ==
  /\ d.eps \in Seq(Endpoint)
  /\ \A m, n \in DOMAIN d.eps : d.eps[m].id = d.eps[n].id => m = n
  /\ d.routes \subseteq Policy /\ IsFiniteSet(d.routes)
  /\ \A r \in d.routes : UNION r.parts \subseteq r.to
  /\ \A r, x \in d.routes : r.key = x.key => r = x

VARIABLES
  plan,
  desired,  \* the desired state
  k,        \* the kernel: see Empty
  target,   \* the state Apply was called with
  todo,     \* calls left of this Apply; empty between two
  changes, drifts, faults,
  whole,    \* nothing but Apply acted since it began
  settled   \* an Apply has completed and nothing else acted since it began

vars == <<plan, desired, k, target, todo, changes, drifts, faults, whole, settled>>

\* ns: the namespaces; pair: a workload's veth pair, whose peer is "made" in
\* the root namespace, "moved" to the workload's, "wired" under its name there
\* or "dying" with a deleted namespace; dressed: what is configured on the two
\* ends; addr: addresses inside; main: host routes; tables, rules: the RPDB.
Empty ==
  [ns |-> {}, pair |-> [i \in Id |-> None], dressed |-> [i \in Id |-> {}],
   addr |-> [i \in Id |-> {}], main |-> [p \in Ip |-> None],
   tables |-> [t \in Table |-> None], rules |-> <<>>]

Veth(i) == <<"veth", i>>
Via(n) == <<"via", n>>

Dressed == {"gateway", "hostUp", "up", "default"}
Rule == [prio : Int, table : Nat, flows : SUBSET Flow, own : BOOLEAN]
Ordered(rules) == \A m, n \in DOMAIN rules : m < n => rules[m].prio <= rules[n].prio

\* The states of a kernel: rules are in the order of their priorities.
Kernel ==
  {s \in [ns : SUBSET Id, pair : [Id -> {None, "made", "moved", "wired", "dying"}],
          dressed : [Id -> SUBSET Dressed], addr : [Id -> SUBSET Ip],
          main : [Ip -> {None} \cup ({"veth"} \X Id) \cup ({"via"} \X STRING)],
          tables : [Table -> {None} \cup [to : SUBSET Flow, act : STRING]],
          rules : Seq(Rule)] : Ordered(s.rules)}

ASSUME LinuxAssumption ==
  /\ TableSize \in Nat \ {0}
  /\ \A key \in DOMAIN Offset : key \in Nat /\ Offset[key] \in Table
  /\ \A d \in States : Validated(d)
  /\ \A p \in Plans : p.start \in Kernel /\ p.cleanup \in BOOLEAN
  /\ None \notin {"made", "moved", "wired", "dying"} /\ None \notin {"veth"} \X Id /\ None \notin {"via"} \X STRING
  /\ None \notin [to : SUBSET Flow, act : STRING]
  /\ MaxChanges \in Nat /\ MaxDrifts \in Nat /\ MaxFaults \in Nat

-----------------------------------------------------------------------------
(***************************************************************************)
(* Workloads and routes.                                                   *)
(***************************************************************************)
Local(d) == {e \in Range(d.eps) : e.node = Here}
LocalIds(d) == {e.id : e \in Local(d)}
LocalPrefixes(d) == {e.ip : e \in Local(d)}
RemotePrefixes(d) == {e.ip : e \in Range(d.eps) \ Local(d)}

\* The call of ensureNetNSWorkload that comes after each but the last: "add"
\* to "rename" make the pair, up to "route" is on the host's end, "lookup"
\* finds the workload's interface in the namespace.  What comes after "veth"
\* depends on what it finds.
After ==
  [namespace |-> "veth", add |-> "move", move |-> "rename", rename |-> "gateway",
   gateway |-> "hostUp", hostUp |-> "route", route |-> "lookup", lookup |-> "stale",
   stale |-> "address", address |-> "up", up |-> "default"]

\* Where the calls for an endpoint begin.
EnsureEndpoint(e) == [do |-> IF e.node = Here THEN "namespace" ELSE "remote", e |-> e]

\* The order of applyNetNSNetlink.  Entries without a workload are loops over
\* what the kernel lists.
Loop(do) == [do |-> do, e |-> None]
ApplyCalls(p, d) ==
  LET cleanup(s) == IF p.cleanup THEN s ELSE <<>>
  IN  cleanup(<<Loop("namespaces")>>)
        \o [n \in DOMAIN d.eps |-> EnsureEndpoint(d.eps[n])]
        \o cleanup(<<Loop("remoteRoutes"), Loop("workloadRoutes")>>)
        \o <<Loop("allocate"), Loop("staleTables"), Loop("deleteRules"), Loop("addRules")>>

\* A pair is created when neither end is where it belongs; a host end alone
\* is taken for a whole pair.
NeedsPair(i) == k.pair[i] = None

\* Mutant: the address the workload had before stays.
KeepsAddresses(s, e) == s

\* cleanupStaleManagedAddrs inside the namespace.
DropStaleAddresses(s, e) == [s EXCEPT !.addr[e.id] = @ \cap {e.ip}]

\* What a call leaves in the kernel.  Replacing a host route replaces the one
\* of the same destination, whoever made it.
Effect(s, do, e) ==
  CASE do = "namespace" -> [s EXCEPT !.ns = @ \cup {e.id}]
    [] do = "add" -> [s EXCEPT !.pair[e.id] = "made", !.dressed[e.id] = {}]
    [] do = "move" -> [s EXCEPT !.pair[e.id] = "moved"]
    [] do = "rename" -> [s EXCEPT !.pair[e.id] = "wired"]
    [] do \in Dressed -> [s EXCEPT !.dressed[e.id] = @ \cup {do}]
    [] do = "route" -> [s EXCEPT !.main[e.ip] = Veth(e.id)]
    [] do = "lookup" -> s
    [] do = "stale" -> DropStaleAddresses(s, e)
    [] do = "address" -> [s EXCEPT !.addr[e.id] = @ \cup {e.ip}]
    [] do = "remote" -> [s EXCEPT !.main[e.ip] = Via(e.node)]

\* Mutant: host routes are added, not replaced.
RefusedIfPresent(s, do, e) == do \in {"route", "remote"} /\ s.main[e.ip] # None

\* The calls an error answers: on the host's end when there is none, inside
\* when the workload's interface is not there.
Refused(s, do, e) ==
  \/ do \in {"gateway", "hostUp", "route", "move", "rename"} /\ s.pair[e.id] = None
  \/ do = "add" /\ s.pair[e.id] # None
  \/ do \in {"lookup", "stale", "address", "up", "default"} /\ s.pair[e.id] # "wired"

-----------------------------------------------------------------------------
(***************************************************************************)
(* Policy routes.                                                          *)
(***************************************************************************)
\* sortPolicyRoutes: the higher priority first, then VPC and name.
Before(a, b) == a.prio > b.prio \/ (a.prio = b.prio /\ a.key < b.key)
Applicable(d) == {r \in d.routes : \E e \in Local(d) : e.vpc = r.vpc}

\* Mutant: a table in use is not skipped.
FirstProbe(used, key) == Offset[key]

\* Linear probing from the hash of the name.
Probe(used, key) ==
  LET free == {n \in 0..(TableSize - 1) : (Offset[key] + n) % TableSize \notin used}
      n == CHOOSE m \in free : \A o \in free : m <= o
  IN  (Offset[key] + n) % TableSize

Needing(d) == {r \in Applicable(d) : r.act # "allow"}
Exhausted(d) == Cardinality(Needing(d)) > TableSize

\* In their order, the policies take the first table from their hash on that
\* none before them has.
Placed(routes, got) ==
  \A r \in routes :
    got[r.key] = Probe({got[x.key] : x \in {y \in routes : Before(y, r)}}, r.key)

\* allocatePolicyRouteTables, for each desired state that has tables enough: a
\* function from the policies' keys to tables.
Tables ==
  [d \in {s \in States : ~Exhausted(s)} |->
     CHOOSE got \in [{r.key : r \in Needing(d)} -> Table] : Placed(Needing(d), got)]

TableOf(d, r) == IF r.act = "allow" THEN Main ELSE Tables[d][r.key]

\* policyRouteNetlinkRoute
RouteOf(r) == [to |-> r.to, act |-> r.act]

DesiredRoutes ==
  [d \in DOMAIN Tables |->
     [t \in {TableOf(d, r) : r \in Needing(d)} |->
        RouteOf(CHOOSE r \in Needing(d) : TableOf(d, r) = t)]]

LinuxPriority(prio) == IF 10000 - prio < 1 THEN 1 ELSE 10000 - prio

\* netlinkPolicyRules; own is the protocol marker.
RulesOf(d, r) ==
  {[prio |-> LinuxPriority(r.prio), table |-> TableOf(d, r), flows |-> f, own |-> TRUE] : f \in r.parts}
DesiredRules == [d \in DOMAIN Tables |-> UNION {RulesOf(d, r) : r \in Applicable(d)}]

\* Mutant: somebody else's rules are taken for stale ones.
EveryRule(r) == TRUE

ManagedRule(r) == r.table \in Table \/ r.own

\* The kernel keeps rules in the order of their priorities and puts a new one
\* behind those of its own priority.
Without(rules, n) == SubSeq(rules, 1, n - 1) \o SubSeq(rules, n + 1, Len(rules))
InsertAt(rules, n, r) == SubSeq(rules, 1, n - 1) \o <<r>> \o SubSeq(rules, n, Len(rules))
Insert(rules, r) ==
  InsertAt(rules,
    CHOOSE n \in 1..(Len(rules) + 1) :
      \A m \in DOMAIN rules : m < n <=> rules[m].prio <= r.prio,
    r)

-----------------------------------------------------------------------------
(***************************************************************************)
(* Apply and what goes on around it.                                       *)
(***************************************************************************)
Init ==
  /\ plan \in Plans
  /\ desired \in plan.states
  /\ k = plan.start
  /\ target = desired /\ todo = <<>>
  /\ changes = 0 /\ drifts = 0 /\ faults = 0
  /\ whole = FALSE /\ settled = FALSE

Advance(rest) ==
  /\ todo' = rest
  /\ settled' = (settled \/ (rest = <<>> /\ whole))
  /\ UNCHANGED <<plan, desired, target, changes, drifts, faults, whole>>

Begin ==
  /\ todo = <<>>
  /\ target' = desired
  /\ todo' = ApplyCalls(plan, desired)
  /\ whole' = TRUE
  /\ UNCHANGED <<plan, desired, k, changes, drifts, faults, settled>>

Current == Head(todo)
WorkloadCalls == DOMAIN After \cup {"default", "remote"}

\* A call of ensureNetNSWorkload or replaceRemoteEndpointRoute.
WorkloadCall ==
  /\ todo # <<>> /\ Current.do \in WorkloadCalls
  /\ ~Refused(k, Current.do, Current.e)
  /\ k' = Effect(k, Current.do, Current.e)
  /\ Advance(IF Current.do \in DOMAIN After THEN [todo EXCEPT ![1].do = After[@]] ELSE Tail(todo))

\* Looks for both ends and decides whether the pair has to be created.
FindPair ==
  /\ todo # <<>> /\ Current.do = "veth"
  /\ k' = k
  /\ Advance([todo EXCEPT ![1].do = IF NeedsPair(Current.e.id) THEN "add" ELSE "gateway"])

CallRefused ==
  /\ todo # <<>> /\ Current.do \in WorkloadCalls
  /\ Refused(k, Current.do, Current.e)
  /\ todo' = <<>>
  /\ UNCHANGED <<plan, desired, k, target, changes, drifts, faults, whole, settled>>

\* What a loop finds to remove or add: the kernel after one iteration.
CleanupStaleNamespaces ==
  {[k EXCEPT !.ns = @ \ {i}, !.addr[i] = {},
             !.pair[i] = IF @ \in {"moved", "wired"} THEN "dying" ELSE @] : i \in k.ns \ LocalIds(target)}
CleanupStaleRemoteRoutes ==
  {[k EXCEPT !.main[p] = None] :
     p \in {q \in Ip \ RemotePrefixes(target) : k.main[q] # None /\ k.main[q][1] = "via"}}
CleanupStaleWorkloadRoutes ==
  {[k EXCEPT !.main[p] = None] :
     p \in {q \in Ip \ LocalPrefixes(target) : k.main[q] # None /\ k.main[q][1] = "veth"}}
CleanupStaleTables ==
  {[k EXCEPT !.tables[t] = None] :
     t \in {u \in Table \ DOMAIN DesiredRoutes[target] : k.tables[u] # None}}
DeleteRules ==
  {[k EXCEPT !.rules = Without(@, n)] :
     n \in {m \in DOMAIN k.rules : ManagedRule(k.rules[m]) /\ k.rules[m] \notin DesiredRules[target]}}
AddRules ==
  {[k EXCEPT !.rules = Insert(@, r)] : r \in DesiredRules[target] \ Range(k.rules)}

Iterations(do) ==
  CASE do = "namespaces" -> CleanupStaleNamespaces
    [] do = "remoteRoutes" -> CleanupStaleRemoteRoutes
    [] do = "workloadRoutes" -> CleanupStaleWorkloadRoutes
    [] do = "staleTables" -> CleanupStaleTables
    [] do = "deleteRules" -> DeleteRules
    [] do = "addRules" -> AddRules

Loops == {"namespaces", "remoteRoutes", "workloadRoutes", "staleTables", "deleteRules", "addRules"}

Iterate ==
  /\ todo # <<>> /\ Current.do \in Loops
  /\ k' \in Iterations(Current.do)
  /\ Advance(todo)

EndLoop ==
  /\ todo # <<>> /\ Current.do \in Loops
  /\ Iterations(Current.do) = {}
  /\ k' = k
  /\ Advance(Tail(todo))

\* Tables are synchronised in the order of a map's iteration.
Orders(S) == Bijection(1..Cardinality(S), S)

Allocate ==
  /\ todo # <<>> /\ Current.do = "allocate"
  /\ ~Exhausted(target)
  /\ k' = k
  /\ \E order \in Orders(DOMAIN DesiredRoutes[target]) :
       Advance([n \in DOMAIN order |-> [do |-> "table", e |-> order[n]]] \o Tail(todo))

AllocateRefused ==
  /\ todo # <<>> /\ Current.do = "allocate"
  /\ Exhausted(target)
  /\ todo' = <<>>
  /\ UNCHANGED <<plan, desired, k, target, changes, drifts, faults, whole, settled>>

\* syncPolicyRouteTable: a route to another destination goes first.
SyncTable ==
  /\ todo # <<>> /\ Current.do = "table"
  /\ LET now == k.tables[Current.e]
         want == DesiredRoutes[target][Current.e]
     IN  IF now # None /\ now.to # want.to
         THEN k' = [k EXCEPT !.tables[Current.e] = None] /\ Advance(todo)
         ELSE k' = [k EXCEPT !.tables[Current.e] = want] /\ Advance(Tail(todo))

Apply ==
  \/ Begin \/ WorkloadCall \/ FindPair \/ CallRefused \/ Iterate \/ EndLoop
  \/ Allocate \/ AllocateRefused \/ SyncTable

\* The kernel destroys a pair some time after the namespace of its peer.
Gone(s, i) ==
  [s EXCEPT !.pair[i] = None, !.dressed[i] = {}, !.addr[i] = {},
            !.main = [p \in Ip |-> IF @[p] = Veth(i) THEN None ELSE @[p]]]
Reap(i) ==
  /\ k.pair[i] = "dying"
  /\ k' = Gone(k, i)
  /\ UNCHANGED <<plan, desired, target, todo, changes, drifts, faults, whole, settled>>

\* A call fails or the process ends; Apply is called again from the start.
Fault ==
  /\ faults < MaxFaults /\ todo # <<>>
  /\ faults' = faults + 1
  /\ todo' = <<>>
  /\ UNCHANGED <<plan, desired, k, target, changes, drifts, whole, settled>>

ChangeDesired ==
  /\ changes < MaxChanges
  /\ desired' \in plan.states \ {desired}
  /\ changes' = changes + 1
  /\ whole' = FALSE /\ settled' = FALSE
  /\ UNCHANGED <<plan, k, target, todo, drifts, faults>>

\* Something is lost under the agent: a route, a rule, a table, a pair, an
\* address, or everything with the host.
Losses ==
  {[k EXCEPT !.main[p] = None] : p \in Ip}
    \cup {[k EXCEPT !.rules = Without(@, n)] : n \in {m \in DOMAIN k.rules : k.rules[m].own}}
    \cup {[k EXCEPT !.tables[t] = None] : t \in Table}
    \cup {[k EXCEPT !.addr[i] = {}] : i \in Id}
    \cup {Gone(k, i) : i \in Id}

Lose ==
  /\ drifts < MaxDrifts
  /\ k' \in Losses \ {k}
  /\ drifts' = drifts + 1
  /\ whole' = FALSE /\ settled' = FALSE
  /\ UNCHANGED <<plan, desired, target, todo, changes, faults>>

Reboot ==
  /\ drifts < MaxDrifts
  /\ k' = Empty /\ todo' = <<>>
  /\ drifts' = drifts + 1
  /\ whole' = FALSE /\ settled' = FALSE
  /\ UNCHANGED <<plan, desired, target, changes, faults>>

Next == Apply \/ (\E i \in Id : Reap(i)) \/ Fault \/ ChangeDesired \/ Lose \/ Reboot

\* The agent applies at every interval, and again when it was restarted; the
\* kernel finishes what it began.
Spec ==
  /\ Init /\ [][Next]_vars
  /\ WF_vars(Apply) /\ \A i \in Id : WF_vars(Reap(i))

-----------------------------------------------------------------------------
(***************************************************************************)
(* Properties.                                                             *)
(***************************************************************************)
\* Every variable has its type: desired states are the plan's, and the kernel
\* is one.
TypeOK ==
  /\ plan \in Plans /\ desired \in plan.states /\ target \in plan.states
  /\ k \in Kernel
  /\ changes \in Nat /\ drifts \in Nat /\ faults \in Nat
  /\ whole \in BOOLEAN /\ settled \in BOOLEAN

EndpointInPlace(s, e) ==
  IF e.node = Here
  THEN /\ e.id \in s.ns /\ s.pair[e.id] = "wired"
       /\ s.dressed[e.id] = Dressed
       /\ s.addr[e.id] = {e.ip} /\ s.main[e.ip] = Veth(e.id)
  ELSE s.main[e.ip] = Via(e.node)

PolicyInPlace(s, d, r) ==
  /\ RulesOf(d, r) \subseteq Range(s.rules)
  /\ r.act # "allow" => s.tables[TableOf(d, r)] = RouteOf(r)

\* What the kernel does with a flow: the first rule that matches it and whose
\* table has a route for it decides.
Verdict(s, f) ==
  LET Hit(r) == f \in r.flows /\ (r.table \in Table => s.tables[r.table] # None /\ f \in s.tables[r.table].to)
      hits == {n \in DOMAIN s.rules : Hit(s.rules[n])}
      table == s.rules[CHOOSE n \in hits : \A m \in hits : n <= m].table
  IN  IF hits = {} \/ table \notin Table THEN "allow" ELSE s.tables[table].act

\* What the desired state says: the matching policy of the highest priority.
Wanted(d, f) ==
  LET hits == {r \in Applicable(d) : f \in UNION r.parts}
  IN  IF hits = {} THEN "allow" ELSE (CHOOSE r \in hits : \A x \in hits \ {r} : Before(r, x)).act

Flows(d) == UNION {r.to : r \in d.routes}

\* Once an Apply has run to its end, and through every later one, failing
\* ones included, until the desired state changes or something is lost: each
\* local workload is reachable, each remote one is routed to its node, every
\* flow meets the policy of the highest priority that matches it, and with
\* cleanup on no namespace and no endpoint route is left over.
Installed ==
  settled =>
    /\ \A e \in Range(desired.eps) : EndpointInPlace(k, e)
    /\ \A f \in Flows(desired) : Verdict(k, f) = Wanted(desired, f)
    /\ plan.cleanup => /\ k.ns = LocalIds(desired)
                       /\ \A p \in Ip : k.main[p] # None => p \in {e.ip : e \in Range(desired.eps)}

\* No step of an Apply disturbs an endpoint or a policy that is already as the
\* state being applied wants it, nor a rule that is not the agent's.
RightStays ==
  [][(drifts' = drifts /\ todo # <<>>) =>
       /\ \A e \in Range(target.eps) : EndpointInPlace(k, e) => EndpointInPlace(k', e)
       /\ \A r \in Applicable(target) :
            (~Exhausted(target) /\ PolicyInPlace(k, target, r)) => PolicyInPlace(k', target, r)
       /\ \A r \in Range(k.rules) : r.own \/ r.table \in Table \/ r \in Range(k'.rules)]_vars

\* A pair whose peer never got to the workload's namespace under its name.
HalfMade == \E e \in Local(desired) : k.pair[e.id] \in {"made", "moved"}

\* Once changes, losses and faults end, Apply succeeds for good.
Converges == <>[]settled

\* The only things that can keep it from that are a pair left half made by an
\* Apply that ended between two of its calls, and policies that need more
\* tables than there are.
ConvergesUnlessHalfMade == Converges \/ <>[]HalfMade \/ <>[]Exhausted(desired)

\* A policy that stays in the desired state keeps its table whatever is
\* inserted next to it, so that its traffic is not touched.
TablesStayWithNames ==
  [][\A r \in Applicable(desired) \cap Applicable(desired') :
       TableOf(desired', r) = TableOf(desired, r)]_vars
=============================================================================
