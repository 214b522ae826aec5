------------------------ MODULE LinuxDatapathProofs ------------------------
(***************************************************************************)
(* Proofs about the Linux datapath, for every set of workloads, addresses, *)
(* desired states and starting kernels, every number of tables and every   *)
(* bound on changes, losses and faults.                                    *)
(*                                                                         *)
(* What carries them: each call of an Apply keeps what is already right    *)
(* for its target (LinuxStepsProofs); an Apply that nothing disturbs has   *)
(* achieved what the calls behind it were for (Achieved), and half of it   *)
(* for the endpoint it is at (Halfway); and the probing for tables gives   *)
(* every policy one of its own.                                            *)
(***************************************************************************)
EXTENDS LinuxStepsProofs

USE SMTT(60)

-----------------------------------------------------------------------------
(***************************************************************************)
(* What the theorems suppose of the desired states and of the host, and    *)
(* the inductive invariant.                                                *)
(***************************************************************************)
\* Policies for the same flow have priorities that the RPDB tells apart.
PrioritiesTellApart ==
  \A d \in States : \A r, x \in Applicable(d) :
    (LinuxPriority(r.prio) = LinuxPriority(x.prio)
       /\ (UNION r.parts) \cap (UNION x.parts) # {}) => r = x

\* Rules that are not the agent's do not match the traffic of policies.
OthersLeaveTraffic ==
  \A p \in Plans : \A r \in Range(p.start.rules) :
    ManagedRule(r) \/ \A d \in States : r.flows \cap Flows(d) = {}

Foreigners ==
  \A r \in Range(k.rules) : ManagedRule(r) \/ \A d \in States : r.flows \cap Flows(d) = {}

\* What the calls before do have left of the local endpoint e.
Halfway(s, e, do) ==
  /\ do # "namespace" => e.id \in s.ns
  /\ do \in {"hostUp", "route", "lookup", "stale", "address", "up", "default"} =>
       s.pair[e.id] = None \/ "gateway" \in s.dressed[e.id]
  /\ do \in {"route", "lookup", "stale", "address", "up", "default"} =>
       s.pair[e.id] = None \/ "hostUp" \in s.dressed[e.id]
  /\ do \in {"lookup", "stale", "address", "up", "default"} =>
       s.pair[e.id] = None \/ s.main[e.ip] = Veth(e.id)
  /\ do \in {"stale", "address", "up", "default"} => s.pair[e.id] = "wired"
  /\ do \in {"address", "up", "default"} => s.addr[e.id] \subseteq {e.ip}
  /\ do \in {"up", "default"} => e.ip \in s.addr[e.id]
  /\ do = "default" => "up" \in s.dressed[e.id]

\* All wanted rules are there.
AllDesiredRules(s, d) == DesiredRules[d] \subseteq Range(s.rules)

\* What an Apply with the calls q left has achieved.
Achieved(cleanup, q, s, d) ==
  /\ \A e \in Range(d.eps) : LeftOf(q, e) \/ EndpointInPlace(s, e)
  /\ cleanup => /\ Left(q, "namespaces") \/ NoStaleNamespaces(s, d)
                /\ Left(q, "remoteRoutes") \/ NoStaleRoutes(s, "via", RemotePrefixes(d))
                /\ Left(q, "workloadRoutes") \/ NoStaleRoutes(s, "veth", LocalPrefixes(d))
  /\ \/ Left(q, "allocate")
     \/ ~Exhausted(d) /\ \A t \in DOMAIN DesiredRoutes[d] : LeftTable(q, t) \/ RightTable(s, d, t)
  /\ Left(q, "deleteRules") \/ OnlyDesiredRules(s, d)
  /\ Left(q, "addRules") \/ AllDesiredRules(s, d)

\* What an Apply that nothing disturbs has achieved and is at.
UnderWay ==
  /\ Achieved(plan.cleanup, todo, k, target)
  /\ (todo # <<>> /\ Current.do \in HostCalls) => Halfway(k, Current.e, Current.do)

IInv ==
  /\ BInv /\ Foreigners
  /\ (whole \/ settled) => target = desired
  /\ (whole /\ todo # <<>>) => UnderWay
  /\ settled => Achieved(plan.cleanup, <<>>, k, target)
-----------------------------------------------------------------------------
(* What an Apply achieves, call by call.                                   *)

\* A step that keeps what is right keeps what was achieved.
LEMMA AchievedStays ==
  ASSUME NEW c, NEW q, NEW s, NEW u, NEW d, Achieved(c, q, s, d),
         KeepsEndpoints(s, u, d), KeepsPolicies(s, u, d)
  PROVE  Achieved(c, q, u, d)
<1>1. \A e \in Range(d.eps) : LeftOf(q, e) \/ EndpointInPlace(u, e)
  BY DEF Achieved, KeepsEndpoints
<1>2. c => /\ Left(q, "namespaces") \/ NoStaleNamespaces(u, d)
           /\ Left(q, "remoteRoutes") \/ NoStaleRoutes(u, "via", RemotePrefixes(d))
           /\ Left(q, "workloadRoutes") \/ NoStaleRoutes(u, "veth", LocalPrefixes(d))
  BY DEF Achieved, KeepsEndpoints
<1>3. \/ Left(q, "allocate")
      \/ ~Exhausted(d) /\ \A t \in DOMAIN DesiredRoutes[d] : LeftTable(q, t) \/ RightTable(u, d, t)
  BY ZenonT(60) DEF Achieved, KeepsPolicies
<1>4. AllDesiredRules(s, d) => AllDesiredRules(u, d)
  BY DEF AllDesiredRules, KeepsPolicies
<1>5. /\ Left(q, "deleteRules") \/ OnlyDesiredRules(u, d)
      /\ Left(q, "addRules") \/ AllDesiredRules(u, d)
  BY <1>4, ZenonT(60) DEF Achieved, KeepsPolicies
<1> QED
  BY <1>1, <1>2, <1>3, <1>5 DEF Achieved

\* What the call c is there for.
Done(c, s, d) ==
  /\ c.do \in HostCalls \cup {"remote"} => EndpointInPlace(s, c.e)
  /\ c.do = "namespaces" => NoStaleNamespaces(s, d)
  /\ c.do = "remoteRoutes" => NoStaleRoutes(s, "via", RemotePrefixes(d))
  /\ c.do = "workloadRoutes" => NoStaleRoutes(s, "veth", LocalPrefixes(d))
  /\ c.do # "allocate"
  /\ c.do = "table" => RightTable(s, d, c.e)
  /\ c.do = "deleteRules" => OnlyDesiredRules(s, d)
  /\ c.do = "addRules" => AllDesiredRules(s, d)

LEMMA AchievedGrows ==
  ASSUME NEW c, NEW q, NEW u, NEW s, NEW d, Achieved(c, q, s, d),
         \A n \in DOMAIN q : Done(q[n], s, d) \/ \E m \in DOMAIN u : u[m] = q[n]
  PROVE  Achieved(c, u, s, d)
<1>1. ASSUME NEW e \in Range(d.eps), ~EndpointInPlace(s, e) PROVE LeftOf(u, e)
  <2>1. PICK n \in DOMAIN q : q[n].do \in EndpointCalls(e) /\ q[n].e = e
    BY <1>1, ZenonT(60) DEF Achieved, LeftOf
  <2>2. q[n].do \in HostCalls \cup {"remote"}
    BY <2>1 DEF EndpointCalls
  <2>3. ~Done(q[n], s, d)
    BY <1>1, <2>1, <2>2, ZenonT(60) DEF Done
  <2> QED
    BY <2>1, <2>3 DEF LeftOf
<1>2. \A do : Left(q, do) => Left(u, do) \/ \E n \in DOMAIN q : q[n].do = do /\ Done(q[n], s, d)
  BY DEF Left
<1>3. c => /\ Left(u, "namespaces") \/ NoStaleNamespaces(s, d)
           /\ Left(u, "remoteRoutes") \/ NoStaleRoutes(s, "via", RemotePrefixes(d))
           /\ Left(u, "workloadRoutes") \/ NoStaleRoutes(s, "veth", LocalPrefixes(d))
  BY <1>2, ZenonT(60) DEF Achieved, Done
<1>4. \A t : LeftTable(q, t) => LeftTable(u, t) \/ RightTable(s, d, t)
  BY ZenonT(60) DEF LeftTable, Done
<1>5. \/ Left(u, "allocate")
      \/ ~Exhausted(d) /\ \A t \in DOMAIN DesiredRoutes[d] : LeftTable(u, t) \/ RightTable(s, d, t)
  <2>1. CASE Left(q, "allocate")
    BY <1>2, <2>1, ZenonT(60) DEF Done
  <2>2. CASE ~Left(q, "allocate")
    BY <1>4, <2>2 DEF Achieved
  <2> QED
    BY <2>1, <2>2
<1>6. /\ Left(u, "deleteRules") \/ OnlyDesiredRules(s, d)
      /\ Left(u, "addRules") \/ AllDesiredRules(s, d)
  BY <1>2, ZenonT(60) DEF Achieved, Done
<1> QED
  BY <1>1, <1>3, <1>5, <1>6 DEF Achieved
LEMMA AchievedPopped ==
  ASSUME NEW c, NEW q, NEW s, NEW d, Achieved(c, q, s, d), Shaped(q, d), q # <<>>, Done(q[1], s, d)
  PROVE  Achieved(c, Tail(q), s, d)
<1>1. q \in Seq(Calls(d))
  BY DEF Shaped
<1>2. \A n \in DOMAIN q : n # 1 => n - 1 \in DOMAIN Tail(q) /\ Tail(q)[n - 1] = q[n]
  BY <1>1, Popped
<1>3. \A n \in DOMAIN q : Done(q[n], s, d) \/ \E m \in DOMAIN Tail(q) : Tail(q)[m] = q[n]
  BY <1>2, ZenonT(60)
<1> QED
  BY <1>3, AchievedGrows, ZenonT(60)

LEMMA AchievedAdvanced ==
  ASSUME NEW c, NEW q, NEW u, NEW s, NEW d, Achieved(c, q, s, d), Shaped(q, d), q # <<>>,
         q[1].do \in HostCalls, NEW do \in HostCalls,
         DOMAIN u = DOMAIN q, u[1] = [do |-> do, e |-> q[1].e],
         \A n \in DOMAIN q : n # 1 => u[n] = q[n]
  PROVE  Achieved(c, u, s, d)
<1>1. q \in Seq(Calls(d))
  BY ZenonT(60) DEF Shaped
<1>2. 1 \in DOMAIN q /\ q[1] \in Calls(d)
  BY <1>1, Popped, ZenonT(60)
<1>3. q[1].e.node = Here
  BY <1>2, CallsAre
<1>4. \A e \in Range(d.eps) : LeftOf(q, e) => LeftOf(u, e)
  <2> SUFFICES ASSUME NEW e \in Range(d.eps), NEW n \in DOMAIN q,
                      q[n].do \in EndpointCalls(e), q[n].e = e
               PROVE  LeftOf(u, e)
    BY ZenonT(60) DEF LeftOf
  <2>1. CASE n = 1
    <3>1. u[1].do \in EndpointCalls(e) /\ u[1].e = e
      BY <1>3, <2>1 DEF EndpointCalls
    <3> QED
      BY <1>2, <3>1 DEF LeftOf
  <2>2. CASE n # 1
    BY <2>2 DEF LeftOf
  <2> QED
    BY <2>1, <2>2, ZenonT(60)
<1>5. \A x \in AllLoops : Left(q, x) => Left(u, x)
  <2>1. \A x \in AllLoops : x # q[1].do
    BY DEF AllLoops, Loops, HostCalls, After
  <2> QED
    BY <2>1 DEF Left
<1>6. \A t : LeftTable(q, t) => LeftTable(u, t)
  <2>1. q[1].do # "table"
    BY DEF HostCalls, After
  <2> QED
    BY <2>1 DEF LeftTable
<1>7. {"namespaces", "remoteRoutes", "workloadRoutes", "allocate", "deleteRules", "addRules"} \subseteq AllLoops
  BY DEF AllLoops, Loops
<1> QED
  BY <1>4, <1>5, <1>6, <1>7 DEF Achieved

LEMMA AchievedAllocated ==
  ASSUME NEW c, NEW q, NEW u, NEW s, NEW d, Achieved(c, q, s, d), ~Exhausted(d),
         q # <<>>, q[1].do = "allocate",
         \A n \in DOMAIN q : n # 1 => \E m \in DOMAIN u : u[m] = q[n],
         \A t \in DOMAIN DesiredRoutes[d] : LeftTable(u, t)
  PROVE  Achieved(c, u, s, d)
<1>1. \A e \in Range(d.eps) : LeftOf(q, e) => LeftOf(u, e)
  <2>1. \A e : q[1].do \notin EndpointCalls(e)
    BY DEF EndpointCalls, HostCalls, After
  <2> QED
    BY <2>1 DEF LeftOf
<1>2. \A do : do # "allocate" /\ Left(q, do) => Left(u, do)
  BY DEF Left
<1> QED
  BY <1>1, <1>2, ZenonT(60) DEF Achieved

LEMMA AchievedBegun ==
  ASSUME NEW p, NEW s, NEW d \in States
  PROVE  Achieved(p.cleanup, ApplyCalls(p, d), s, d)
<1> DEFINE q == ApplyCalls(p, d)
<1>1. /\ \A e \in Range(d.eps) : \E n \in DOMAIN q : q[n] = EnsureEndpoint(e)
      /\ \A do \in {"allocate", "deleteRules", "addRules"} : \E n \in DOMAIN q : q[n].do = do
      /\ p.cleanup => \A do \in {"namespaces", "remoteRoutes", "workloadRoutes"} :
                        \E n \in DOMAIN q : q[n].do = do
  <2>1. q = ApplyCalls(p, d)
    OBVIOUS
  <2> HIDE DEF q
  <2> QED
    BY <2>1, AppliedCalls
<1> HIDE DEF q
<1>2. \A e : EnsureEndpoint(e).e = e /\ EnsureEndpoint(e).do \in EndpointCalls(e)
  BY DEF EnsureEndpoint, EndpointCalls, HostCalls, After
<1>3. \A e \in Range(d.eps) : LeftOf(q, e)
  BY <1>1, <1>2 DEF LeftOf
<1>4. /\ Left(q, "allocate") /\ Left(q, "deleteRules") /\ Left(q, "addRules")
      /\ p.cleanup => Left(q, "namespaces") /\ Left(q, "remoteRoutes") /\ Left(q, "workloadRoutes")
  BY <1>1 DEF Left
<1>5. Achieved(p.cleanup, q, s, d)
  BY <1>3, <1>4 DEF Achieved
<1> QED
  BY <1>5 DEF q

\* A loop that finds nothing is done.
LEMMA LoopIsDone ==
  ASSUME BInv, todo # <<>>, Current.do \in Loops, Iterations(Current.do) = {}
  PROVE  Done(Current, k, target)
<1>1. k \in Kernel
  BY DEF BInv, TypeOK
<1>2. Current.do \notin HostCalls \cup {"remote", "allocate", "table"}
  BY ZenonT(60) DEF Loops, HostCalls, After
<1>3. CASE Current.do = "namespaces"
  <2>1. CleanupStaleNamespaces = {}
    BY <1>3 DEF Iterations
  <2>2. k.ns \ LocalIds(target) = {}
    BY <2>1, ZenonT(60) DEF CleanupStaleNamespaces
  <2> QED
    BY <1>2, <1>3, <2>2, ZenonT(60) DEF Done, NoStaleNamespaces
<1>4. CASE Current.do = "remoteRoutes"
  <2>1. CleanupStaleRemoteRoutes = {}
    BY <1>4 DEF Iterations
  <2>2. \A p \in Ip \ RemotePrefixes(target) : ~(k.main[p] # None /\ k.main[p][1] = "via")
    BY <2>1, ZenonT(60) DEF CleanupStaleRemoteRoutes
  <2> QED
    BY <1>2, <1>4, <2>2 DEF Done, NoStaleRoutes
<1>5. CASE Current.do = "workloadRoutes"
  <2>1. CleanupStaleWorkloadRoutes = {}
    BY <1>5 DEF Iterations
  <2>2. \A p \in Ip \ LocalPrefixes(target) : ~(k.main[p] # None /\ k.main[p][1] = "veth")
    BY <2>1, ZenonT(60) DEF CleanupStaleWorkloadRoutes
  <2> QED
    BY <1>2, <1>5, <2>2 DEF Done, NoStaleRoutes
<1>6. CASE Current.do = "staleTables"
  BY <1>2, <1>6 DEF Done
<1>7. CASE Current.do = "deleteRules"
  <2>1. DeleteRules = {}
    BY <1>7 DEF Iterations
  <2>2. \A n \in DOMAIN k.rules : ~(ManagedRule(k.rules[n]) /\ k.rules[n] \notin DesiredRules[target])
    BY <2>1, ZenonT(60) DEF DeleteRules
  <2>3. OnlyDesiredRules(k, target)
    BY <2>2 DEF OnlyDesiredRules, Range
  <2> QED
    BY <1>2, <1>7, <2>3 DEF Done
<1>8. CASE Current.do = "addRules"
  <2>1. AddRules = {}
    BY <1>8 DEF Iterations
  <2>2. \A r \in DesiredRules[target] : r \in Range(k.rules)
    BY <2>1, ZenonT(60) DEF AddRules
  <2> QED
    BY <1>2, <1>8, <2>2 DEF Done, AllDesiredRules
<1> QED
  BY <1>3, <1>4, <1>5, <1>6, <1>7, <1>8 DEF Loops
-----------------------------------------------------------------------------
(* An Apply that nothing disturbs installs its target.                     *)

\* A call of ensureNetNSWorkload that succeeds brings the endpoint to the next.
LEMMA HalfwayAdvances ==
  ASSUME NEW s \in Kernel, NEW e \in Endpoint, e.node = Here, NEW do \in DOMAIN After,
         Halfway(s, e, do), ~Refused(s, do, e)
  PROVE  Halfway(Effect(s, do, e), e, After[do])
<1> DEFINE u == Effect(s, do, e)
<1>1. /\ s \in [ns : SUBSET Id, pair : [Id -> Pairs],
                dressed : [Id -> SUBSET Dressed], addr : [Id -> SUBSET Ip],
                main : [Ip -> HostRoutes], tables : [Table -> TableRoutes], rules : Seq(Rule)]
  BY KernelFields, ZenonT(60)
<1>2. e.id \in Id /\ e.ip \in Ip
  BY DEF Endpoint
<1>3. CASE do = "namespace"
  <2>1. u = [s EXCEPT !.ns = @ \cup {e.id}] /\ After[do] = "veth"
    BY <1>3 DEF Effect, Dressed, After
  <2> HIDE DEF u
  <2>2. e.id \in u.ns
    BY <1>1, <2>1
  <2>3. Halfway(u, e, "veth")
    BY <2>2, ZenonT(60) DEF Halfway
  <2> QED
    BY <2>1, <2>3 DEF u
<1>4. CASE do \in {"add", "move", "rename"}
  <2>1. u.ns = s.ns
    BY <1>1, <1>4 DEF Effect, Dressed
  <2>2. After[do] \in {"move", "rename", "gateway"}
    BY <1>4 DEF After
  <2>3. e.id \in s.ns
    BY <1>4 DEF Halfway
  <2> HIDE DEF u
  <2>4. \A x \in {"move", "rename", "gateway"} : Halfway(u, e, x)
    BY <2>1, <2>3 DEF Halfway
  <2> QED
    BY <2>2, <2>4 DEF u
<1>5. CASE do \in {"gateway", "hostUp", "up"}
  <2>1. u = [s EXCEPT !.dressed[e.id] = @ \cup {do}]
    BY <1>5 DEF Effect, Dressed
  <2> HIDE DEF u
  <2>2. /\ u.ns = s.ns /\ u.pair = s.pair /\ u.main = s.main /\ u.addr = s.addr
        /\ u.dressed[e.id] = s.dressed[e.id] \cup {do}
    BY <1>1, <1>2, <2>1
  <2>3. /\ do = "gateway" => After[do] = "hostUp"
        /\ do = "hostUp" => After[do] = "route"
        /\ do = "up" => After[do] = "default"
    BY DEF After
  <2>4. /\ do = "gateway" => Halfway(u, e, "hostUp")
        /\ do = "hostUp" => Halfway(u, e, "route")
        /\ do = "up" => Halfway(u, e, "default")
    BY <2>2, ZenonT(60) DEF Halfway
  <2> QED
    BY <1>5, <2>3, <2>4 DEF u
<1>6. CASE do = "route"
  <2>1. u = [s EXCEPT !.main[e.ip] = Veth(e.id)] /\ After[do] = "lookup"
    BY <1>6 DEF Effect, Dressed, After
  <2> HIDE DEF u
  <2>2. /\ u.ns = s.ns /\ u.pair = s.pair /\ u.dressed = s.dressed /\ u.addr = s.addr
        /\ u.main[e.ip] = Veth(e.id)
    BY <1>1, <1>2, <2>1
  <2>3. Halfway(u, e, "lookup")
    BY <1>6, <2>2 DEF Halfway
  <2> QED
    BY <2>1, <2>3 DEF u
<1>7. CASE do = "lookup"
  <2>1. u = s /\ After[do] = "stale"
    BY <1>7 DEF Effect, Dressed, After
  <2>2. s.pair[e.id] = "wired"
    BY <1>7 DEF Refused
  <2>3. Halfway(s, e, "stale")
    BY <1>7, <2>2 DEF Halfway
  <2> QED
    BY <2>1, <2>3
<1>8. CASE do \in {"stale", "address"}
  <2>1. /\ do = "stale" => u = [s EXCEPT !.addr[e.id] = @ \cap {e.ip}] /\ After[do] = "address"
        /\ do = "address" => u = [s EXCEPT !.addr[e.id] = @ \cup {e.ip}] /\ After[do] = "up"
    BY <1>8 DEF Effect, Dressed, DropStaleAddresses, After
  <2> HIDE DEF u
  <2>2. /\ u.ns = s.ns /\ u.pair = s.pair /\ u.dressed = s.dressed /\ u.main = s.main
        /\ do = "stale" => u.addr[e.id] = s.addr[e.id] \cap {e.ip}
        /\ do = "address" => u.addr[e.id] = s.addr[e.id] \cup {e.ip}
    BY <1>1, <1>2, <1>8, <2>1
  <2>3. /\ do = "stale" => Halfway(u, e, "address")
        /\ do = "address" => Halfway(u, e, "up")
    BY <2>2, ZenonT(60) DEF Halfway
  <2> QED
    BY <1>8, <2>1, <2>3 DEF u
<1> QED
  BY <1>3, <1>4, <1>5, <1>6, <1>7, <1>8 DEF After

\* Behind the last one the endpoint is in place.
LEMMA EndpointCompleted ==
  ASSUME NEW s \in Kernel, NEW e \in Endpoint, NEW do \in {"default", "remote"},
         do = "default" => e.node = Here /\ Halfway(s, e, do),
         do = "remote" => e.node # Here
  PROVE  EndpointInPlace(Effect(s, do, e), e)
<1> DEFINE u == Effect(s, do, e)
<1>1. /\ s \in [ns : SUBSET Id, pair : [Id -> Pairs],
                dressed : [Id -> SUBSET Dressed], addr : [Id -> SUBSET Ip],
                main : [Ip -> HostRoutes], tables : [Table -> TableRoutes], rules : Seq(Rule)]
  BY KernelFields
<1>2. e.id \in Id /\ e.ip \in Ip
  BY DEF Endpoint
<1>3. CASE do = "default"
  <2>1. u = [s EXCEPT !.dressed[e.id] = @ \cup {do}]
    BY <1>3 DEF Effect, Dressed
  <2> HIDE DEF u
  <2>2. /\ u.ns = s.ns /\ u.pair = s.pair /\ u.main = s.main /\ u.addr = s.addr
        /\ u.dressed[e.id] = s.dressed[e.id] \cup {"default"}
    BY <1>1, <1>2, <1>3, <2>1
  <2>3. None # "wired"
    BY NothingIsThere
  <2>4. /\ e.id \in s.ns /\ s.pair[e.id] = "wired" /\ s.main[e.ip] = Veth(e.id)
        /\ "gateway" \in s.dressed[e.id] /\ "hostUp" \in s.dressed[e.id] /\ "up" \in s.dressed[e.id]
        /\ s.addr[e.id] = {e.ip}
    BY <1>3, <2>3 DEF Halfway
  <2>5. s.dressed[e.id] \subseteq Dressed
    BY <1>1, <1>2
  <2>6. u.dressed[e.id] = Dressed
    BY <2>2, <2>4, <2>5 DEF Dressed
  <2>7. EndpointInPlace(u, e)
    BY <1>3, <2>2, <2>4, <2>6 DEF EndpointInPlace
  <2> QED
    BY <2>7 DEF u
<1>4. CASE do = "remote"
  <2>1. u = [s EXCEPT !.main[e.ip] = Via(e.node)]
    BY <1>4 DEF Effect, Dressed
  <2> HIDE DEF u
  <2>2. u.main[e.ip] = Via(e.node)
    BY <1>1, <1>2, <2>1
  <2>3. EndpointInPlace(u, e)
    BY <1>4, <2>2 DEF EndpointInPlace
  <2> QED
    BY <2>3 DEF u
<1> QED
  BY <1>3, <1>4

LEMMA HalfwayStays ==
  ASSUME NEW s \in Kernel, NEW e \in Endpoint, NEW do, Halfway(s, e, do),
         NEW i \in Id, s.pair[i] = "dying"
  PROVE  Halfway(Gone(s, i), e, do)
<1> DEFINE u == Gone(s, i)
<1>1. /\ u.ns = s.ns
      /\ \A j \in Id : j # i => u.pair[j] = s.pair[j] /\ u.dressed[j] = s.dressed[j] /\ u.addr[j] = s.addr[j]
      /\ u.pair[i] = None
      /\ \A p \in Ip : u.main[p] = IF s.main[p] = Veth(i) THEN None ELSE s.main[p]
  BY GoneFromKernel
<1> HIDE DEF u
<1>2. e.id \in Id /\ e.ip \in Ip
  BY DEF Endpoint
<1>3. ASSUME e.id = i PROVE Halfway(u, e, do)
  BY <1>1, <1>2, <1>3 DEF Halfway
<1>4. ASSUME e.id # i PROVE Halfway(u, e, do)
  <2>1. Veth(e.id) # Veth(i)
    BY <1>4 DEF Veth
  <2>2. s.main[e.ip] = Veth(e.id) => u.main[e.ip] = Veth(e.id)
    BY <1>1, <1>2, <2>1
  <2> QED
    BY <1>1, <1>2, <1>4, <2>2 DEF Halfway
<1>5. Halfway(u, e, do)
  BY <1>3, <1>4
<1> QED
  BY <1>5 DEF u
LEMMA StartIsHalfway ==
  ASSUME NEW s, NEW e
  PROVE  Halfway(s, e, "namespace")
BY DEF Halfway

LEMMA WorkloadCallProgresses ==
  ASSUME BInv, AddressesTellApart, UnderWay, WorkloadCall
  PROVE  UnderWay'
<1> DEFINE do == Current.do
           e == Current.e
           c == plan.cleanup
<1>1. k \in Kernel /\ target \in States /\ Shaped(todo, target)
  BY StatesOfPlans DEF BInv, TypeOK
<1>2. /\ do \in WorkloadCalls /\ k' = Effect(k, do, e) /\ todo # <<>> /\ target' = target /\ plan' = plan
      /\ ~Refused(k, do, e)
      /\ todo' = IF do \in DOMAIN After THEN [todo EXCEPT ![1].do = After[@]] ELSE Tail(todo)
  BY DEF WorkloadCall, Advance
<1>3. /\ e \in Range(target.eps) /\ todo[1] = Current
      /\ do \in HostCalls => e.node = Here
      /\ do = "remote" => e.node # Here
  BY <1>2, CurrentCall
<1>4. e \in Endpoint
  BY <1>1, <1>3, EndpointsAreNamed
<1>5. Achieved(c, todo, k', target)
  BY WorkloadCallKeeps, AchievedStays DEF UnderWay
<1>6. CASE do \in DOMAIN After
  <2>1. todo' = [todo EXCEPT ![1].do = After[do]]
    BY <1>2, <1>3, <1>6
  <2>2. do \in HostCalls /\ After[do] \in HostCalls
    BY <1>6, CallsAfter
  <2>3. /\ Current'.do = After[do] /\ Current'.e = e
        /\ DOMAIN todo' = DOMAIN todo /\ todo'[1] = [do |-> After[do], e |-> e]
        /\ \A n \in DOMAIN todo : n # 1 => todo'[n] = todo[n]
    BY <1>2, <2>1, <2>2, Advancing, ZenonT(60)
  <2>4. Achieved(c, todo', k', target)
    <3> DEFINE next == After[do]
    <3>1. /\ next \in HostCalls /\ todo[1].do \in HostCalls /\ todo # <<>>
          /\ DOMAIN todo' = DOMAIN todo /\ todo'[1] = [do |-> next, e |-> todo[1].e]
          /\ \A n \in DOMAIN todo : n # 1 => todo'[n] = todo[n]
      BY <1>2, <1>3, <2>2, <2>3
    <3> HIDE DEF next, c
    <3> QED
      BY <1>1, <1>5, <3>1, AchievedAdvanced
  <2>5. Halfway(k, e, do)
    BY <1>2, <2>2 DEF UnderWay
  <2>6. Halfway(k', e, After[do])
    BY <1>1, <1>2, <1>3, <1>4, <1>6, <2>2, <2>5, HalfwayAdvances
  <2> QED
    BY <1>2, <2>3, <2>4, <2>6 DEF UnderWay
<1>7. CASE do \notin DOMAIN After
  <2>1. todo' = Tail(todo) /\ do \in {"default", "remote"} /\ do # "allocate"
    BY <1>2, <1>7 DEF WorkloadCalls
  <2>2. do = "default" => do \in HostCalls
    BY DEF HostCalls
  <2>3. do = "default" => e.node = Here /\ Halfway(k, e, do)
    BY <1>2, <1>3, <2>2 DEF UnderWay
  <2>4. EndpointInPlace(k', e)
    BY <1>1, <1>2, <1>3, <1>4, <2>1, <2>3, EndpointCompleted
  <2>5. Done(todo[1], k', target)
    BY <1>3, <2>1, <2>4, ZenonT(60) DEF Done
  <2>6. Achieved(c, todo', k', target)
    BY <1>1, <1>2, <1>5, <2>1, <2>5, AchievedPopped
  <2>7. (todo' # <<>> /\ Current'.do \in HostCalls) => Current'.do = "namespace"
    BY <1>2, <2>1, Popping
  <2> QED
    BY <1>2, <2>6, <2>7, StartIsHalfway DEF UnderWay
<1> QED
  BY <1>6, <1>7

LEMMA ApplyProgresses ==
  ASSUME Basics, BInv, AddressesTellApart, UnderWay,
         WorkloadCall \/ FindPair \/ Iterate \/ EndLoop \/ Allocate \/ SyncTable
  PROVE  UnderWay'
<1> DEFINE c == plan.cleanup
<1>1. k \in Kernel /\ target \in States /\ Shaped(todo, target) /\ Achieved(c, todo, k, target)
  BY StatesOfPlans DEF BInv, TypeOK, UnderWay
<1>2. CASE WorkloadCall
  BY <1>2, WorkloadCallProgresses
<1>3. CASE FindPair
  <2> DEFINE do == IF NeedsPair(Current.e.id) THEN "add" ELSE "gateway"
  <2>1. /\ todo # <<>> /\ Current.do = "veth" /\ k' = k /\ target' = target /\ plan' = plan
        /\ todo' = [todo EXCEPT ![1].do = do]
    BY <1>3 DEF FindPair, Advance
  <2>2. do \in HostCalls /\ "veth" \in HostCalls /\ do \in {"add", "gateway"}
    BY DEF HostCalls, After
  <2> HIDE DEF do
  <2>3. /\ Current'.do = do /\ Current'.e = Current.e
        /\ DOMAIN todo' = DOMAIN todo /\ todo'[1] = [do |-> do, e |-> Current.e]
        /\ \A n \in DOMAIN todo : n # 1 => todo'[n] = todo[n]
    BY <2>1, <2>2, Advancing, ZenonT(60)
  <2>4. todo[1] = Current
    BY <2>1, CurrentCall
  <2>5. Achieved(c, todo', k, target)
    BY <1>1, <2>1, <2>2, <2>3, <2>4, AchievedAdvanced, ZenonT(60)
  <2>6. Halfway(k, Current.e, "veth")
    BY <2>1, <2>2 DEF UnderWay
  <2>7. Halfway(k, Current.e, do)
    BY <2>2, <2>6 DEF Halfway
  <2> QED
    BY <2>1, <2>3, <2>5, <2>7 DEF UnderWay
<1>4. CASE Iterate
  <2>1. todo' = todo /\ target' = target /\ plan' = plan /\ Current.do \in Loops
    BY <1>4 DEF Iterate, Advance
  <2>2. Achieved(c, todo, k', target)
    BY <1>1, <1>4, IterateKeeps, AchievedStays
  <2>3. Current' = Current /\ Current.do \notin HostCalls
    BY <2>1 DEF Current, Loops, HostCalls, After
  <2> QED
    BY <2>1, <2>2, <2>3 DEF UnderWay
<1>5. CASE EndLoop
  <2>1. /\ todo' = Tail(todo) /\ target' = target /\ plan' = plan /\ todo # <<>> /\ k' = k
        /\ Current.do \in Loops /\ Iterations(Current.do) = {}
    BY <1>5 DEF EndLoop, Advance
  <2>2. todo[1] = Current /\ Current.do # "allocate"
    BY <2>1, CurrentCall DEF Loops
  <2>3. Done(todo[1], k, target)
    BY <2>1, <2>2, LoopIsDone
  <2>4. Achieved(c, todo', k, target)
    BY <1>1, <2>1, <2>3, AchievedPopped
  <2>5. (todo' # <<>> /\ Current'.do \in HostCalls) => Current'.do = "namespace"
    BY <2>1, <2>2, Popping
  <2> QED
    BY <2>1, <2>4, <2>5, StartIsHalfway DEF UnderWay
<1>6. CASE Allocate
  <2>1. /\ todo # <<>> /\ Current.do = "allocate" /\ ~Exhausted(target) /\ k' = k
        /\ target' = target /\ plan' = plan
    BY <1>6 DEF Allocate, Advance
  <2>2. PICK order \in Orders(DOMAIN DesiredRoutes[target]) : todo' = Allocation(order, todo)
    BY <1>6, ZenonT(60) DEF Allocate, Advance, Allocation
  <2>3. todo[1].do = "allocate"
    BY <2>1, CurrentCall
  <2>4. /\ Shaped(todo', target)
        /\ \A n \in DOMAIN todo' :
             todo'[n].do \in AllLoops \cup {"table"} \/ todo'[n] = EnsureEndpoint(todo'[n].e)
        /\ \A t \in DOMAIN DesiredRoutes[target] : LeftTable(todo', t)
        /\ \A n \in DOMAIN todo : n # 1 => \E m \in DOMAIN todo' : todo'[m] = todo[n]
    BY <1>1, <2>1, <2>2, <2>3, AllocatedIsShaped
  <2>5. Achieved(c, todo', k, target)
    BY <1>1, <2>1, <2>3, <2>4, AchievedAllocated
  <2>6. todo' # <<>> => 1 \in DOMAIN todo' /\ Head(todo') = todo'[1]
    BY <2>4, Popped DEF Shaped
  <2>7. (todo' # <<>> /\ Current'.do \in HostCalls) => Current'.do = "namespace"
    BY <2>4, <2>6, FreshCalls DEF Current
  <2> QED
    BY <2>1, <2>5, <2>7, StartIsHalfway DEF UnderWay
<1>7. CASE SyncTable
  <2>1. todo # <<>> /\ Current.do = "table" /\ target' = target /\ plan' = plan
    BY <1>7 DEF SyncTable, Advance
  <2>2. Achieved(c, todo, k', target)
    BY <1>1, <1>7, SyncTableKeeps, AchievedStays
  <2>3. todo[1] = Current /\ "table" \notin HostCalls
    BY <2>1, CurrentCall DEF HostCalls, After
  <2>4. CASE todo' = todo
    <3>1. Current' = Current
      BY <2>4 DEF Current
    <3> QED
      BY <2>1, <2>2, <2>3, <2>4, <3>1 DEF UnderWay
  <2>5. CASE todo' = Tail(todo) /\ RightTable(k', target, Current.e)
    <3>1. Done(todo[1], k', target)
      BY <2>1, <2>3, <2>5 DEF Done
    <3>2. Achieved(c, todo', k', target)
      BY <1>1, <2>1, <2>2, <2>5, <3>1, AchievedPopped
    <3>3. (todo' # <<>> /\ Current'.do \in HostCalls) => Current'.do = "namespace"
      BY <2>1, <2>5, Popping
    <3> QED
      BY <2>1, <3>2, <3>3, StartIsHalfway DEF UnderWay
  <2> QED
    BY <1>7, <2>4, <2>5, SyncTableKeeps
<1> QED
  BY <1>2, <1>3, <1>4, <1>5, <1>6, <1>7
LEMMA IInit ==
  ASSUME OthersLeaveTraffic, Init
  PROVE  IInv
<1>1. BInv
  BY BInit
<1>2. Foreigners
  BY DEF Init, OthersLeaveTraffic, Foreigners
<1>3. whole = FALSE /\ settled = FALSE
  BY DEF Init
<1> QED
  BY <1>1, <1>2, <1>3 DEF IInv

LEMMA ForeignersStay ==
  ASSUME Basics, IInv, AddressesTellApart, [Next]_vars
  PROVE  Foreigners'
<1>1. BInv /\ k \in Kernel
  BY DEF IInv, BInv, TypeOK
<1>2. CASE Lose
  <2>1. Range(k'.rules) \subseteq Range(k.rules)
    BY <1>1, <1>2, LossesOfKernel DEF Lose
  <2> QED
    BY <2>1 DEF IInv, Foreigners
<1>3. CASE Reboot
  <2>1. k'.rules = <<>>
    BY <1>3, EmptyIsKernel DEF Reboot
  <2>2. Range(k'.rules) = {}
    BY <2>1 DEF Range
  <2> QED
    BY <2>2 DEF Foreigners
<1>4. CASE ~Lose /\ ~Reboot
  <2>1. KeepsPolicies(k, k', target)
    BY <1>1, <1>4, StepKeeps
  <2> QED
    BY <2>1 DEF IInv, KeepsPolicies, Foreigners
<1> QED
  BY <1>2, <1>3, <1>4

\* The invariant is inductive.
LEMMA INext ==
  ASSUME Basics, IInv, AddressesTellApart, [Next]_vars
  PROVE  IInv'
<1>1. BInv /\ BInv' /\ Foreigners'
  BY BNext, ForeignersStay DEF IInv
<1>2. /\ k \in Kernel /\ target \in States /\ desired \in States /\ drifts \in Nat
      /\ whole \in BOOLEAN /\ settled \in BOOLEAN
  BY <1>1, StatesOfPlans DEF BInv, TypeOK
<1>3. /\ (whole \/ settled) => target = desired
      /\ (whole /\ todo # <<>>) => UnderWay
      /\ settled => Achieved(plan.cleanup, <<>>, k, target)
  BY DEF IInv
<1>4. ASSUME ~Lose, ~Reboot, settled, plan' = plan, target' = target
      PROVE  Achieved(plan'.cleanup, <<>>, k', target')
  <2>1. Achieved(plan.cleanup, <<>>, k, target)
    BY <1>3, <1>4
  <2>2. KeepsEndpoints(k, k', target) /\ KeepsPolicies(k, k', target)
    BY <1>1, <1>4, StepKeeps
  <2>3. Achieved(plan.cleanup, <<>>, k', target)
    BY <2>1, <2>2, AchievedStays
  <2> QED
    BY <1>4, <2>3
<1>5. CASE WorkloadCall \/ FindPair \/ Iterate \/ EndLoop \/ Allocate \/ SyncTable
  <2>1. /\ todo # <<>>
        /\ plan' = plan /\ desired' = desired /\ target' = target /\ drifts' = drifts /\ whole' = whole
        /\ settled' = (settled \/ (todo' = <<>> /\ whole))
    BY <1>5, ZenonT(60) DEF WorkloadCall, FindPair, Iterate, EndLoop, Allocate, SyncTable, Advance
  <2>2. ~Lose /\ ~Reboot
    BY <1>2, <2>1 DEF Lose, Reboot
  <2>3. whole => UnderWay'
    BY <1>1, <1>3, <1>5, <2>1, ApplyProgresses
  <2>4. settled' => settled \/ (todo' = <<>> /\ whole)
    BY <2>1, ZenonT(60)
  <2>5. settled' => Achieved(plan'.cleanup, <<>>, k', target')
    <3>1. CASE settled
      BY <1>4, <2>1, <2>2, <3>1
    <3>2. CASE todo' = <<>> /\ whole
      BY <2>1, <2>3, <3>2 DEF UnderWay
    <3> QED
      BY <2>4, <3>1, <3>2
  <2>6. (whole' \/ settled') => target' = desired'
    BY <1>3, <2>1, <2>4
  <2>7. (whole' /\ todo' # <<>>) => UnderWay'
    BY <2>1, <2>3
  <2> QED
    BY <1>1, <2>5, <2>6, <2>7 DEF IInv
<1>6. CASE Begin
  <2>1. /\ target' = desired /\ desired' = desired /\ k' = k /\ plan' = plan /\ settled' = settled
        /\ todo' = ApplyCalls(plan, desired)
    BY <1>6 DEF Begin
  <2>2. settled' => Achieved(plan'.cleanup, <<>>, k', target')
    BY <1>3, <2>1
  <2>3. Achieved(plan.cleanup, todo', k, desired)
    BY <1>2, <2>1, AchievedBegun
  <2>4. /\ todo' # <<>> /\ todo'[1] = Head(todo')
        /\ todo'[1].do \in HostCalls => todo'[1].do = "namespace"
    BY <1>2, <2>1, BegunIsShaped
  <2>5. UnderWay'
    BY <2>1, <2>3, <2>4, StartIsHalfway DEF UnderWay, Current
  <2> QED
    BY <1>1, <2>1, <2>2, <2>5 DEF IInv
<1>7. CASE CallRefused \/ AllocateRefused \/ Fault
  <2>1. /\ todo' = <<>> /\ k' = k /\ plan' = plan /\ target' = target /\ desired' = desired
        /\ whole' = whole /\ settled' = settled
    BY <1>7 DEF CallRefused, AllocateRefused, Fault
  <2> QED
    BY <1>1, <1>3, <2>1 DEF IInv
<1>8. ASSUME NEW i \in Id, Reap(i) PROVE IInv'
  <2>1. /\ todo' = todo /\ plan' = plan /\ target' = target /\ desired' = desired
        /\ whole' = whole /\ settled' = settled /\ drifts' = drifts
        /\ k.pair[i] = "dying" /\ k' = Gone(k, i)
    BY <1>8 DEF Reap
  <2>2. ~Lose /\ ~Reboot
    BY <1>2, <2>1 DEF Lose, Reboot
  <2>3. ASSUME whole, todo # <<>> PROVE UnderWay'
    <3>1. UnderWay
      BY <1>3, <2>3
    <3>2. KeepsEndpoints(k, k', target) /\ KeepsPolicies(k, k', target)
      BY <1>1, <1>8, ReapKeeps
    <3>3. Achieved(plan.cleanup, todo, k', target)
      BY <3>1, <3>2, AchievedStays DEF UnderWay
    <3>4. Current' = Current
      BY <2>1 DEF Current
    <3>5. Current.do \in HostCalls => Current.e \in Endpoint
      BY <1>1, <1>2, <2>3, CurrentCall, EndpointsAreNamed
    <3>6. Current.do \in HostCalls => Halfway(k', Current.e, Current.do)
      BY <1>2, <2>1, <2>3, <3>1, <3>5, HalfwayStays DEF UnderWay
    <3> QED
      BY <2>1, <3>3, <3>4, <3>6 DEF UnderWay
  <2>4. settled' => Achieved(plan'.cleanup, <<>>, k', target')
    BY <1>4, <2>1, <2>2
  <2> QED
    BY <1>1, <1>3, <2>1, <2>3, <2>4, ZenonT(60) DEF IInv
<1>9. CASE ChangeDesired \/ Lose \/ Reboot
  <2>1. whole' = FALSE /\ settled' = FALSE
    BY <1>9 DEF ChangeDesired, Lose, Reboot
  <2> QED
    BY <1>1, <2>1, ZenonT(60) DEF IInv
<1>10. CASE UNCHANGED vars
  <2>1. /\ todo' = todo /\ k' = k /\ plan' = plan /\ target' = target /\ desired' = desired
        /\ whole' = whole /\ settled' = settled
    BY <1>10 DEF vars
  <2>2. Current' = Current
    BY <2>1 DEF Current
  <2>3. UnderWay => UnderWay'
    BY <2>1, <2>2 DEF UnderWay
  <2> QED
    BY <1>1, <1>3, <2>1, <2>3 DEF IInv
<1> QED
  BY <1>5, <1>6, <1>7, <1>8, <1>9, <1>10 DEF Next, Apply
-----------------------------------------------------------------------------
(* The rules decide as the policies do.                                    *)

\* The rules that decide a flow and the policies that are for it.
Hits(s, f) ==
  {n \in DOMAIN s.rules :
     /\ f \in s.rules[n].flows
     /\ s.rules[n].table \in Table =>
          s.tables[s.rules[n].table] # None /\ f \in s.tables[s.rules[n].table].to}
Matching(d, f) == {r \in Applicable(d) : f \in UNION r.parts}

\* The first rule decides.
LEMMA FirstDecides ==
  ASSUME NEW s \in Kernel, NEW f, NEW n \in Hits(s, f), \A m \in Hits(s, f) : n <= m
  PROVE  Verdict(s, f) = IF s.rules[n].table \notin Table THEN "allow" ELSE s.tables[s.rules[n].table].act
<1> DEFINE H == Hits(s, f)
<1>1. s.rules \in Seq(Rule)
  BY KernelFields
<1>2. H \subseteq Nat
  BY <1>1 DEF Hits
<1> HIDE DEF H
<1>3. n \in H /\ \A m \in H : n <= m
  BY DEF H
<1>4. \A m \in H : (\A o \in H : m <= o) => m = n
  BY <1>2, <1>3
<1>5. (CHOOSE m \in H : \A o \in H : m <= o) = n
  BY <1>3, <1>4, ZenonT(60)
<1>6. Verdict(s, f) = LET table == s.rules[CHOOSE m \in H : \A o \in H : m <= o].table
                      IN  IF H = {} \/ table \notin Table THEN "allow" ELSE s.tables[table].act
  BY ZenonT(60) DEF Verdict, H, Hits
<1> QED
  BY <1>3, <1>5, <1>6, ZenonT(60)

\* So does the first policy.
LEMMA FirstIsWanted ==
  ASSUME NEW d \in States, NEW f, NEW r \in Matching(d, f),
         \A x \in Matching(d, f) \ {r} : Before(r, x)
  PROVE  Wanted(d, f) = r.act
<1> DEFINE M == Matching(d, f)
<1>1. Policies(d.routes) /\ M \subseteq d.routes
  BY RoutesArePolicies DEF Matching
<1> HIDE DEF M
<1>2. r \in M /\ \A x \in M \ {r} : Before(r, x)
  BY ZenonT(60) DEF M
<1>3. ASSUME NEW y \in M, \A x \in M \ {y} : Before(y, x) PROVE y = r
  <2>1. ~(Before(r, y) /\ Before(y, r))
    BY <1>1, <1>2, PoliciesAreOrdered, ZenonT(60)
  <2> QED
    BY <1>2, <1>3, <2>1
<1>4. (CHOOSE y \in M : \A x \in M \ {y} : Before(y, x)) = r
  BY <1>2, <1>3, ZenonT(60)
<1>5. Wanted(d, f) = IF M = {} THEN "allow" ELSE (CHOOSE y \in M : \A x \in M \ {y} : Before(y, x)).act
  BY ZenonT(60) DEF Wanted, M, Matching
<1> QED
  BY <1>2, <1>4, <1>5, ZenonT(60)

\* What the kernel has for a state: its tables and rules, none of the agent's
\* that the state does not have, and others that leave its flows alone.
Projected(s, d) ==
  /\ ~Exhausted(d)
  /\ \A t \in DOMAIN DesiredRoutes[d] : RightTable(s, d, t)
  /\ OnlyDesiredRules(s, d) /\ AllDesiredRules(s, d)
  /\ \A r \in Range(s.rules) : ManagedRule(r) \/ r.flows \cap Flows(d) = {}

LEMMA ProjectedTable ==
  ASSUME Basics, NEW d \in States, NEW s, Projected(s, d), NEW r \in Applicable(d)
  PROVE  IF r.act = "allow"
         THEN TableOf(d, r) \notin Table
         ELSE TableOf(d, r) \in Table /\ s.tables[TableOf(d, r)] = RouteOf(r)
<1>1. CASE r.act = "allow"
  <2>1. Main \notin Table
    BY TableNumbers DEF Main, Table
  <2> QED
    BY <1>1, <2>1, ZenonT(60) DEF TableOf
<1>2. CASE r.act # "allow"
  <2>1. r \in Needing(d)
    BY <1>2 DEF Needing
  <2>2. ~Exhausted(d) /\ \A t \in DOMAIN DesiredRoutes[d] : RightTable(s, d, t)
    BY ZenonT(60) DEF Projected
  <2>3. /\ TableOf(d, r) \in Table /\ TableOf(d, r) \in DOMAIN DesiredRoutes[d]
        /\ DesiredRoutes[d][TableOf(d, r)] = RouteOf(r)
    BY <2>1, <2>2, PoliciesHaveTables, ZenonT(60)
  <2> QED
    BY <1>2, <2>2, <2>3, ZenonT(60) DEF RightTable
<1> QED
  BY <1>1, <1>2, ZenonT(60)

\* Every rule that hits is one of a policy for the flow, and every such policy
\* has one that does.
LEMMA HitsAreMatches ==
  ASSUME Basics, NEW d \in States, NEW s \in Kernel, Projected(s, d), NEW f \in Flows(d)
  PROVE  /\ \A n \in Hits(s, f) : \E r \in Matching(d, f) : s.rules[n] \in RulesOf(d, r)
         /\ \A r \in Matching(d, f) : \E n \in Hits(s, f) : s.rules[n] \in RulesOf(d, r)
<1>1. /\ ~Exhausted(d) /\ OnlyDesiredRules(s, d) /\ AllDesiredRules(s, d)
      /\ \A r \in Range(s.rules) : ManagedRule(r) \/ r.flows \cap Flows(d) = {}
  BY ZenonT(60) DEF Projected
<1>2. DesiredRules[d] = UNION {RulesOf(d, r) : r \in Applicable(d)}
  BY <1>1, PoliciesHaveTables, ZenonT(60)
<1>3. ASSUME NEW n \in Hits(s, f) PROVE \E r \in Matching(d, f) : s.rules[n] \in RulesOf(d, r)
  <2>1. n \in DOMAIN s.rules /\ f \in s.rules[n].flows
    BY ZenonT(60) DEF Hits
  <2>2. s.rules[n] \in Range(s.rules)
    BY <2>1, ZenonT(60) DEF Range
  <2>3. s.rules[n] \in DesiredRules[d]
    BY <1>1, <2>1, <2>2 DEF OnlyDesiredRules
  <2>4. PICK r \in Applicable(d) : s.rules[n] \in RulesOf(d, r)
    BY <1>2, <2>3, ZenonT(60)
  <2>5. s.rules[n].flows \in r.parts
    BY <2>4 DEF RulesOf
  <2>6. r \in Matching(d, f)
    BY <2>1, <2>5 DEF Matching
  <2> QED
    BY <2>4, <2>6, ZenonT(60)
<1>4. ASSUME NEW r \in Matching(d, f) PROVE \E n \in Hits(s, f) : s.rules[n] \in RulesOf(d, r)
  <2>1. r \in Applicable(d) /\ r \in d.routes
    BY RoutesArePolicies DEF Matching
  <2>2. PICK p \in r.parts : f \in p
    BY ZenonT(60) DEF Matching
  <2> DEFINE x == [prio |-> LinuxPriority(r.prio), table |-> TableOf(d, r), flows |-> p, own |-> TRUE]
  <2>3. x \in RulesOf(d, r) /\ x.table = TableOf(d, r) /\ x.flows = p
    BY ZenonT(60) DEF RulesOf
  <2> HIDE DEF x
  <2>4. x \in Range(s.rules)
    BY <1>1, <1>2, <2>1, <2>3, ZenonT(60) DEF AllDesiredRules
  <2>5. PICK n \in DOMAIN s.rules : s.rules[n] = x
    BY <2>4, ZenonT(60) DEF Range
  <2>6. f \in r.to /\ r.to \subseteq Flow
    BY <2>1, <2>2, RoutesArePolicies, PoliciesAreTyped, ZenonT(60)
  <2>7. ASSUME TableOf(d, r) \in Table
        PROVE  s.tables[TableOf(d, r)] # None /\ f \in s.tables[TableOf(d, r)].to
    <3>1. s.tables[TableOf(d, r)] = RouteOf(r)
      BY <2>1, <2>7, ProjectedTable, ZenonT(60)
    <3>2. RouteOf(r) # None /\ RouteOf(r).to = r.to
      BY <2>1, RoutesArePolicies, PoliciesAreTyped, NothingIsThere DEF RouteOf
    <3> QED
      BY <2>6, <3>1, <3>2, ZenonT(60)
  <2>8. n \in Hits(s, f)
    BY <2>2, <2>3, <2>5, <2>7, ZenonT(60) DEF Hits
  <2> QED
    BY <2>3, <2>5, <2>8, ZenonT(60)
<1> QED
  BY <1>3, <1>4, ZenonT(60)

\* With its tables and rules in the kernel, and no others of the agent's, a
\* state's flows meet what its policies say: the first rule that hits is one of
\* the matching policy that comes first.
LEMMA VerdictIsWanted ==
  ASSUME Basics, PrioritiesTellApart,
         NEW d \in States, NEW s \in Kernel, Projected(s, d), NEW f \in Flows(d)
  PROVE  Verdict(s, f) = Wanted(d, f)
<1>1. s.rules \in Seq(Rule) /\ Ordered(s.rules) /\ Hits(s, f) \subseteq DOMAIN s.rules
  BY KernelFields DEF Hits
<1>2. Hits(s, f) \subseteq Nat
  BY <1>1
<1>3. CASE Hits(s, f) = {}
  <2>1. Matching(d, f) = {}
    BY <1>3, HitsAreMatches, ZenonT(60)
  <2>2. Verdict(s, f) = "allow"
    BY <1>3, ZenonT(60) DEF Verdict, Hits
  <2>3. Wanted(d, f) = "allow"
    BY <2>1, ZenonT(60) DEF Wanted, Matching
  <2> QED
    BY <2>2, <2>3
<1>4. CASE Hits(s, f) # {}
  <2>1. PICK n \in Hits(s, f) : \A m \in Hits(s, f) : n <= m
    BY <1>2, <1>4, LeastNumber, ZenonT(60)
  <2>2. PICK r \in Matching(d, f) : s.rules[n] \in RulesOf(d, r)
    BY HitsAreMatches, ZenonT(60)
  <2>3. r \in Applicable(d) /\ f \in UNION r.parts
    BY ZenonT(60) DEF Matching
  <2>4. ASSUME NEW x \in Matching(d, f) \ {r} PROVE Before(r, x)
    <3>1. x \in Applicable(d) /\ f \in UNION x.parts /\ x # r
      BY ZenonT(60) DEF Matching
    <3>2. PICK m \in Hits(s, f) : s.rules[m] \in RulesOf(d, x)
      BY HitsAreMatches, ZenonT(60)
    <3>3. s.rules[n].prio = LinuxPriority(r.prio) /\ s.rules[m].prio = LinuxPriority(x.prio)
      BY <2>2, <3>2 DEF RulesOf
    <3>4. n \in DOMAIN s.rules /\ m \in DOMAIN s.rules /\ (n = m \/ n < m)
      BY <1>1, <1>2, <2>1
    <3>5. r.prio \in Nat /\ x.prio \in Nat
      BY <2>3, <3>1, RoutesArePolicies, PoliciesAreTyped
    <3>6. LinuxPriority(r.prio) \in Int /\ LinuxPriority(x.prio) \in Int
      BY <3>5 DEF LinuxPriority
    <3>7. s.rules[n].prio <= s.rules[m].prio
      BY <1>1, <3>3, <3>4, <3>6 DEF Ordered
    <3>8. (UNION r.parts) \cap (UNION x.parts) # {}
      BY <2>3, <3>1
    <3>9. LinuxPriority(r.prio) # LinuxPriority(x.prio)
      BY <2>3, <3>1, <3>8, ZenonT(60) DEF PrioritiesTellApart
    <3>10. r.prio > x.prio
      BY <3>3, <3>5, <3>7, <3>9 DEF LinuxPriority
    <3> QED
      BY <3>10 DEF Before
  <2>5. Wanted(d, f) = r.act
    BY <2>4, FirstIsWanted, ZenonT(60)
  <2>6. s.rules[n].table = TableOf(d, r)
    BY <2>2 DEF RulesOf
  <2>7. Verdict(s, f) = IF TableOf(d, r) \notin Table THEN "allow" ELSE s.tables[TableOf(d, r)].act
    BY <2>1, <2>6, FirstDecides, ZenonT(60)
  <2>8. RouteOf(r).act = r.act
    BY DEF RouteOf
  <2>9. CASE r.act = "allow"
    BY <2>3, <2>5, <2>7, <2>9, ProjectedTable, ZenonT(60)
  <2>10. CASE r.act # "allow"
    <3>1. TableOf(d, r) \in Table /\ s.tables[TableOf(d, r)] = RouteOf(r)
      BY <2>3, <2>10, ProjectedTable, ZenonT(60)
    <3> QED
      BY <2>5, <2>7, <2>8, <3>1, ZenonT(60)
  <2> QED
    BY <2>9, <2>10, ZenonT(60)
<1> QED
  BY <1>3, <1>4, ZenonT(60)

\* What an Apply has achieved when no call is left.
LEMMA NothingIsLeft ==
  ASSUME NEW c, NEW s, NEW d, Achieved(c, <<>>, s, d)
  PROVE  /\ \A e \in Range(d.eps) : EndpointInPlace(s, e)
         /\ c => /\ NoStaleNamespaces(s, d)
                 /\ NoStaleRoutes(s, "via", RemotePrefixes(d))
                 /\ NoStaleRoutes(s, "veth", LocalPrefixes(d))
         /\ ~Exhausted(d)
         /\ \A t \in DOMAIN DesiredRoutes[d] : RightTable(s, d, t)
         /\ OnlyDesiredRules(s, d) /\ AllDesiredRules(s, d)
<1>1. \A do : ~Left(<<>>, do)
  BY DEF Left
<1>2. \A e : ~LeftOf(<<>>, e)
  BY DEF LeftOf
<1>3. \A t : ~LeftTable(<<>>, t)
  BY DEF LeftTable
<1> QED
  BY <1>1, <1>2, <1>3 DEF Achieved

\* Namespaces and host routes are those of endpoints when nothing stale is.
LEMMA CleanupLeavesEndpoints ==
  ASSUME NEW d \in States, NEW s \in Kernel, \A e \in Range(d.eps) : EndpointInPlace(s, e),
         NoStaleNamespaces(s, d),
         NoStaleRoutes(s, "via", RemotePrefixes(d)), NoStaleRoutes(s, "veth", LocalPrefixes(d))
  PROVE  /\ s.ns = LocalIds(d)
         /\ \A p \in Ip : s.main[p] # None => p \in {e.ip : e \in Range(d.eps)}
<1>1. LocalIds(d) \subseteq s.ns
  BY ZenonT(60) DEF LocalIds, Local, EndpointInPlace
<1>2. ASSUME NEW p \in Ip, s.main[p] # None PROVE p \in {e.ip : e \in Range(d.eps)}
  <2>1. s.main[p] \in HostRoutes
    BY KernelFields
  <2>2. s.main[p] \in {"veth"} \X Id \/ s.main[p] \in {"via"} \X STRING
    BY <1>2, <2>1 DEF HostRoutes
  <2>3. s.main[p][1] = "veth" \/ s.main[p][1] = "via"
    BY <2>2
  <2>4. p \in LocalPrefixes(d) \cup RemotePrefixes(d)
    BY <1>2, <2>3 DEF NoStaleRoutes
  <2> QED
    BY <2>4 DEF LocalPrefixes, RemotePrefixes, Local
<1> QED
  BY <1>1, <1>2, ZenonT(60) DEF NoStaleNamespaces

LEMMA InvariantInstalls ==
  ASSUME Basics, PrioritiesTellApart, IInv
  PROVE  Installed
<1> SUFFICES ASSUME settled
             PROVE  /\ \A e \in Range(desired.eps) : EndpointInPlace(k, e)
                    /\ \A f \in Flows(desired) : Verdict(k, f) = Wanted(desired, f)
                    /\ plan.cleanup => /\ k.ns = LocalIds(desired)
                                       /\ \A p \in Ip : k.main[p] # None => p \in {e.ip : e \in Range(desired.eps)}
  BY DEF Installed
<1>1. target = desired /\ Achieved(plan.cleanup, <<>>, k, desired)
  BY DEF IInv
<1>2. k \in Kernel /\ desired \in States
  BY StatesOfPlans DEF IInv, BInv, TypeOK
<1>3. \A e \in Range(desired.eps) : EndpointInPlace(k, e)
  BY <1>1, NothingIsLeft
<1>4. ASSUME plan.cleanup
      PROVE  /\ k.ns = LocalIds(desired)
             /\ \A p \in Ip : k.main[p] # None => p \in {e.ip : e \in Range(desired.eps)}
  <2>1. /\ NoStaleNamespaces(k, desired)
        /\ NoStaleRoutes(k, "via", RemotePrefixes(desired))
        /\ NoStaleRoutes(k, "veth", LocalPrefixes(desired))
    BY <1>1, <1>4, NothingIsLeft, ZenonT(60)
  <2> QED
    BY <1>2, <1>3, <2>1, CleanupLeavesEndpoints
<1>5. Projected(k, desired)
  <2>1. /\ ~Exhausted(desired)
        /\ \A t \in DOMAIN DesiredRoutes[desired] : RightTable(k, desired, t)
        /\ OnlyDesiredRules(k, desired) /\ AllDesiredRules(k, desired)
    BY <1>1, NothingIsLeft, ZenonT(60)
  <2>2. \A r \in Range(k.rules) : ManagedRule(r) \/ r.flows \cap Flows(desired) = {}
    BY <1>2, ZenonT(60) DEF IInv, Foreigners
  <2> QED
    BY <2>1, <2>2, ZenonT(60) DEF Projected
<1>6. ASSUME NEW f \in Flows(desired) PROVE Verdict(k, f) = Wanted(desired, f)
  BY <1>2, <1>5, VerdictIsWanted, ZenonT(60)
<1> QED
  BY <1>3, <1>4, <1>6

-----------------------------------------------------------------------------
(***************************************************************************)
(* The allocation of tables, by the theorems about finite sets.            *)
(***************************************************************************)
INSTANCE WellFoundedInduction
INSTANCE FiniteSetTheorems

\* A set of numbers has a least one.
LEMMA LeastElement ==
  ASSUME NEW T, T \subseteq Nat, T # {}
  PROVE  \E n \in T : \A m \in T : n <= m
<1> DEFINE R == OpToRel(<, Nat)
<1>1. IsWellFoundedOn(R, Nat)
  BY NatLessThanWellFounded, ZenonT(60)
<1> HIDE DEF R
<1>2. PICK n \in T : \A m \in T : <<m, n>> \notin R
  BY <1>1, WFMin, ZenonT(60)
<1>3. \A m \in T : ~(m < n)
  BY <1>2, ZenonT(60) DEF R, OpToRel
<1> QED
  BY <1>3

Keys(S) == {r.key : r \in S}

\* Of some policies there is a first.
LEMMA FirstPolicy ==
  ASSUME NEW S, Policies(S), NEW D, D \subseteq S, D # {}
  PROVE  \E r \in D : \A x \in D \ {r} : Before(r, x)
<1>0. PolicyRoutePriorityMax \in Nat
  BY DEF PolicyRoutePriorityMax
<1>1. \A r \in D : r.key \in Nat /\ r.prio \in 0..PolicyRoutePriorityMax
  BY TableNumbers DEF Policies, Policy
<1> DEFINE P == {PolicyRoutePriorityMax - r.prio : r \in D}
<1>2. P \subseteq Nat /\ P # {}
  BY <1>0, <1>1
<1>3. PICK p \in P : \A q \in P : p <= q
  <2> HIDE DEF P
  <2> QED
    BY <1>2, LeastElement, ZenonT(60)
<1>4. PICK top \in D : \A x \in D : x.prio <= top.prio
  <2>1. PICK top \in D : p = PolicyRoutePriorityMax - top.prio
    OBVIOUS
  <2>2. ASSUME NEW x \in D PROVE x.prio <= top.prio
    <3>1. PolicyRoutePriorityMax - x.prio \in P
      OBVIOUS
    <3>2. PolicyRoutePriorityMax - top.prio <= PolicyRoutePriorityMax - x.prio
      BY <1>3, <2>1, <3>1
    <3> QED
      BY <1>0, <1>1, <3>2
  <2> QED
    BY <2>2
<1> DEFINE K == {r.key : r \in {x \in D : x.prio = top.prio}}
<1>5. K \subseteq Nat /\ K # {}
  BY <1>1
<1>6. PICK n \in K : \A q \in K : n <= q
  <2> HIDE DEF K
  <2> QED
    BY <1>5, LeastElement, ZenonT(60)
<1>7. PICK r \in D : r.prio = top.prio /\ r.key = n
  OBVIOUS
<1>8. ASSUME NEW x \in D, x # r PROVE Before(r, x)
  <2>1. x.key # r.key
    BY <1>8 DEF Policies
  <2>2. CASE x.prio = top.prio
    <3>1. n <= x.key
      BY <1>6, <2>2
    <3> QED
      BY <1>1, <1>7, <2>1, <2>2, <3>1 DEF Before
  <2>3. CASE x.prio # top.prio
    BY <1>1, <1>4, <1>7, <2>3 DEF Before
  <2> QED
    BY <2>2, <2>3
<1> QED
  BY <1>8

\* Going around the tables once meets every one.
LEMMA AroundTheTables ==
  ASSUME NEW from \in Table, NEW t \in Table
  PROVE  \E n \in 0..(TableSize - 1) : (from + n) % TableSize = t
<1>1. TableSize \in Nat /\ TableSize > 0
  BY TableNumbers
<1>2. CASE t >= from
  <2>1. t - from \in 0..(TableSize - 1) /\ from + (t - from) = t
    BY <1>1, <1>2 DEF Table
  <2>2. t % TableSize = t
    BY <1>1 DEF Table
  <2> QED
    BY <2>1, <2>2
<1>3. CASE t < from
  <2>1. t - from + TableSize \in 0..(TableSize - 1) /\ from + (t - from + TableSize) = t + TableSize
    BY <1>1, <1>3 DEF Table
  <2>2. (t + TableSize) % TableSize = t
    BY <1>1 DEF Table
  <2> QED
    BY <2>1, <2>2
<1> QED
  BY <1>1, <1>2, <1>3 DEF Table

\* A probe with tables left takes one of them.
LEMMA ProbeFindsFree ==
  ASSUME NEW used, used \subseteq Table, Cardinality(used) < TableSize,
         NEW key \in DOMAIN Offset
  PROVE  Probe(used, key) \in Table \ used
<1>1. TableSize \in Nat /\ TableSize > 0 /\ Offset[key] \in Table
  BY TableNumbers
<1>2. IsFiniteSet(Table) /\ Cardinality(Table) = TableSize
  BY <1>1, FS_Interval DEF Table
<1>3. PICK t \in Table : t \notin used
  <2>1. ~(Table \subseteq used)
    <3> SUFFICES ASSUME Table \subseteq used PROVE FALSE
      OBVIOUS
    <3>1. used = Table
      BY ZenonT(60)
    <3> QED
      BY <1>1, <1>2, <3>1
  <2> QED
    BY <2>1
<1> DEFINE free == {n \in 0..(TableSize - 1) : (Offset[key] + n) % TableSize \notin used}
           n == CHOOSE m \in free : \A o \in free : m <= o
<1>4. free # {} /\ free \subseteq Nat
  BY <1>1, <1>3, AroundTheTables
<1>5. n \in free
  <2> HIDE DEF free
  <2>1. \E m \in free : \A o \in free : m <= o
    BY <1>4, LeastElement, ZenonT(60)
  <2> QED
    BY <2>1
<1> HIDE DEF n
<1>6. (Offset[key] + n) % TableSize \in Table \ used
  BY <1>1, <1>5 DEF Table
<1>7. Probe(used, key) = (Offset[key] + n) % TableSize
  BY DEF Probe, n
<1> QED
  BY <1>6, <1>7

\* What policies have taken is no more than there are policies.
LEMMA TakenTables ==
  ASSUME NEW D, IsFiniteSet(D), NEW got \in [Keys(D) -> Table]
  PROVE  LET taken == {got[x.key] : x \in D}
         IN  /\ taken \subseteq Table /\ Cardinality(taken) \in Nat
             /\ Cardinality(taken) <= Cardinality(D)
<1> DEFINE taken == {got[x.key] : x \in D}
           f == [x \in D |-> got[x.key]]
<1>1. taken \subseteq Table
  BY DEF Keys
<1>2. f \in Surjection(D, taken)
  BY DEF Surjection
<1> HIDE DEF f, taken
<1>3. Cardinality(taken) <= Cardinality(D) /\ Cardinality(taken) \in Nat
  BY <1>2, FS_Surjection, FS_CardinalityType
<1> QED
  BY <1>1, <1>3 DEF taken

\* A policy behind all the placed ones can be placed too.
LEMMA PlaceOneMore ==
  ASSUME NEW S, Policies(S), NEW D, D \subseteq S, NEW m \in S \ D,
         \A y \in D : Before(y, m),
         Cardinality(D) < TableSize,
         NEW got \in [Keys(D) -> Table], Placed(D, got)
  PROVE  \E more \in [Keys(D \cup {m}) -> Table] : Placed(D \cup {m}, more)
<1> DEFINE E == D \cup {m}
           t == Probe({got[x.key] : x \in D}, m.key)
           more == [key \in Keys(E) |-> IF key = m.key THEN t ELSE got[key]]
<1>1. IsFiniteSet(D) /\ m.key \in DOMAIN Offset
  BY FS_Subset DEF Policies, Policy
<1>2. t \in Table
  <2> DEFINE taken == {got[x.key] : x \in D}
  <2>1. /\ taken \subseteq Table /\ Cardinality(taken) \in Nat
        /\ Cardinality(taken) <= Cardinality(D)
    BY <1>1, TakenTables
  <2>2. Cardinality(taken) < TableSize
    BY <1>1, <2>1, FS_CardinalityType, TableNumbers
  <2> HIDE DEF taken
  <2>3. Probe(taken, m.key) \in Table
    BY <1>1, <2>1, <2>2, ProbeFindsFree
  <2> QED
    BY <2>3 DEF taken
<1> HIDE DEF t
<1>3. \A y \in D : y.key # m.key /\ y.key \in Keys(D)
  BY DEF Policies, Keys
<1>4. more \in [Keys(E) -> Table]
  BY <1>2, <1>3 DEF Keys
<1>5. more[m.key] = t /\ \A y \in D : more[y.key] = got[y.key]
  BY <1>3 DEF Keys
<1> HIDE DEF more
<1>6. ASSUME NEW r \in D
      PROVE  more[r.key] = Probe({more[x.key] : x \in {y \in E : Before(y, r)}}, r.key)
  <2>1. ~Before(m, r)
    BY PoliciesAreOrdered
  <2>2. {y \in E : Before(y, r)} = {y \in D : Before(y, r)}
    BY <2>1
  <2>3. {more[x.key] : x \in {y \in E : Before(y, r)}} = {got[x.key] : x \in {y \in D : Before(y, r)}}
    BY <1>5, <2>2
  <2>4. got[r.key] = Probe({got[x.key] : x \in {y \in D : Before(y, r)}}, r.key)
    BY ZenonT(60) DEF Placed
  <2> QED
    BY <1>5, <2>3, <2>4, ZenonT(60)
<1>7. more[m.key] = Probe({more[x.key] : x \in {y \in E : Before(y, m)}}, m.key)
  <2>1. ~Before(m, m)
    BY PoliciesAreOrdered
  <2>2. {y \in E : Before(y, m)} = D
    BY <2>1
  <2>3. {more[x.key] : x \in {y \in E : Before(y, m)}} = {got[x.key] : x \in D}
    BY <1>5, <2>2
  <2> QED
    BY <1>5, <2>3, ZenonT(60) DEF t
<1>8. Placed(E, more)
  BY <1>6, <1>7, ZenonT(60) DEF Placed
<1> QED
  BY <1>4, <1>8

\* Policies that are not more than the tables can all be placed: there is a
\* largest set of first policies that can, and it has them all.
LEMMA PlacementExists ==
  ASSUME NEW S, Policies(S), Cardinality(S) <= TableSize
  PROVE  \E got \in [Keys(S) -> Table] : Placed(S, got)
<1> DEFINE First(D) == \A r \in D, x \in S : Before(x, r) => x \in D
           Placeable(D) == First(D) /\ \E got \in [Keys(D) -> Table] : Placed(D, got)
           T == {Cardinality(S) - Cardinality(D) : D \in {C \in SUBSET S : Placeable(C)}}
<1>1. IsFiniteSet(S) /\ Cardinality(S) \in Nat /\ TableSize \in Nat
  BY FS_CardinalityType, TableNumbers DEF Policies
<1>2. \A D \in SUBSET S : /\ IsFiniteSet(D) /\ Cardinality(D) \in Nat
                          /\ Cardinality(D) <= Cardinality(S)
                          /\ Cardinality(D) = Cardinality(S) => D = S
  BY <1>1, FS_Subset, FS_CardinalityType
<1>3. T \subseteq Nat
  BY <1>1, <1>2
<1>4. T # {}
  <2>1. First({})
    OBVIOUS
  <2>2. [key \in Keys({}) |-> 0] \in [Keys({}) -> Table] /\ Placed({}, [key \in Keys({}) |-> 0])
    BY DEF Keys, Placed
  <2>3. Placeable({})
    BY <2>1, <2>2
  <2> QED
    BY <2>3
<1>5. PICK n \in T : \A m \in T : n <= m
  <2> HIDE DEF T
  <2> QED
    BY <1>3, <1>4, LeastElement, ZenonT(60)
<1>6. PICK D \in SUBSET S : Placeable(D) /\ n = Cardinality(S) - Cardinality(D)
  OBVIOUS
<1>7. D = S
  <2> SUFFICES ASSUME D # S PROVE FALSE
    OBVIOUS
  <2> DEFINE rest == S \ D
  <2>1. rest # {} /\ rest \subseteq S
    OBVIOUS
  <2>2. PICK m \in rest : \A x \in rest \ {m} : Before(m, x)
    <3> HIDE DEF rest
    <3> QED
      BY <2>1, FirstPolicy
  <2> DEFINE E == D \cup {m}
  <2>3. \A y \in D : Before(y, m)
    <3> SUFFICES ASSUME NEW y \in D PROVE Before(y, m)
      OBVIOUS
    <3>1. ~Before(m, y)
      BY <1>6
    <3> QED
      BY <3>1, PoliciesAreOrdered
  <2>4. Cardinality(D) < TableSize
    BY <1>1, <1>2
  <2>5. PICK got \in [Keys(D) -> Table] : Placed(D, got)
    BY <1>6
  <2>6. \E more \in [Keys(E) -> Table] : Placed(E, more)
    BY <2>3, <2>4, <2>5, PlaceOneMore, ZenonT(60)
  <2>7. First(E)
    <3> SUFFICES ASSUME NEW r \in E, NEW x \in S, Before(x, r) PROVE x \in E
      OBVIOUS
    <3>1. CASE r \in D
      BY <1>6, <3>1
    <3>2. CASE r = m /\ x \notin D /\ x # m
      <4>1. Before(m, x)
        BY <2>2, <3>2
      <4> QED
        BY <3>2, <4>1, PoliciesAreOrdered
    <3> QED
      BY <3>1, <3>2
  <2>8. Cardinality(E) = Cardinality(D) + 1
    BY <1>2, FS_AddElement
  <2>9. Cardinality(S) - Cardinality(E) \in T
    BY <2>6, <2>7
  <2>10. n <= Cardinality(S) - Cardinality(E)
    BY <1>5, <2>9
  <2>11. Cardinality(D) \in Nat
    BY <1>2
  <2> QED
    BY <1>1, <1>6, <2>8, <2>10, <2>11
<1> QED
  BY <1>6, <1>7

\* Of two placed policies, the later one did not get the table of the other.
LEMMA PlacedApart ==
  ASSUME NEW S, Policies(S), Cardinality(S) <= TableSize,
         NEW got \in [Keys(S) -> Table], Placed(S, got),
         NEW r \in S, NEW x \in S, Before(x, r)
  PROVE  got[r.key] # got[x.key]
<1> DEFINE D == {y \in S : Before(y, r)}
           taken == {got[y.key] : y \in D}
           f == [y \in D |-> got[y.key]]
<1>1. IsFiniteSet(S) /\ Cardinality(S) \in Nat /\ TableSize \in Nat
  BY FS_CardinalityType, TableNumbers DEF Policies
<1>2. r \notin D
  BY PoliciesAreOrdered
<1>3. IsFiniteSet(D) /\ Cardinality(D) \in Nat /\ Cardinality(D) < Cardinality(S)
  <2>1. IsFiniteSet(D) /\ Cardinality(D) \in Nat /\ Cardinality(D) <= Cardinality(S)
    BY <1>1, FS_Subset, FS_CardinalityType
  <2>2. Cardinality(D) # Cardinality(S)
    BY <1>1, <1>2, FS_Subset
  <2> QED
    BY <1>1, <2>1, <2>2
<1>4. taken \subseteq Table
  BY DEF Keys
<1>5. f \in Surjection(D, taken)
  BY DEF Surjection
<1>6. x \in D
  OBVIOUS
<1>7. got[x.key] \in taken
  BY <1>6
<1>8. got[r.key] = Probe(taken, r.key)
  BY ZenonT(60) DEF Placed
<1> HIDE DEF D, taken, f
<1>9. IsFiniteSet(taken) /\ Cardinality(taken) <= Cardinality(D)
  BY <1>3, <1>5, FS_Surjection
<1>10. Cardinality(taken) < TableSize
  BY <1>1, <1>3, <1>9, FS_CardinalityType
<1>11. r.key \in DOMAIN Offset
  BY DEF Policies, Policy
<1> QED
  BY <1>4, <1>7, <1>8, <1>10, <1>11, ProbeFindsFree

LEMMA NeedingArePolicies ==
  ASSUME NEW d \in States
  PROVE  Policies(Needing(d))
<1>1. Policies(d.routes) /\ Needing(d) \subseteq d.routes
  BY RoutesArePolicies
<1>2. IsFiniteSet(Needing(d))
  BY <1>1, FS_Subset DEF Policies
<1> QED
  BY <1>1, <1>2 DEF Policies

\* The allocation of tables (allocatePolicyRouteTables): as long as there are
\* no more policies than tables, linear probing finds each one, in their order,
\* the first free table from its hash on, and no two share a table.
THEOREM PoliciesHaveTheirOwnTables ==
  ASSUME NEW d \in States, ~Exhausted(d)
  PROVE  /\ Placed(Needing(d), Tables[d])
         /\ \A r \in Needing(d) : TableOf(d, r) = Tables[d][r.key] /\ TableOf(d, r) \in Table
         /\ \A r, x \in Needing(d) : TableOf(d, r) = TableOf(d, x) => r = x
<1> DEFINE S == Needing(d)
<1>1. Policies(S)
  BY NeedingArePolicies
<1>2. Cardinality(S) <= TableSize
  BY <1>1, FS_CardinalityType, TableNumbers DEF Exhausted, Policies
<1>3. Tables[d] = CHOOSE got \in [Keys(S) -> Table] : Placed(S, got)
  BY ZenonT(60) DEF Tables, Keys
<1>4. Tables[d] \in [Keys(S) -> Table] /\ Placed(S, Tables[d])
  BY <1>1, <1>2, <1>3, PlacementExists
<1>5. \A r \in S : TableOf(d, r) = Tables[d][r.key]
  BY DEF TableOf, Needing
<1>6. \A r \in S : TableOf(d, r) \in Table
  BY <1>4, <1>5 DEF Keys
<1>7. ASSUME NEW r \in S, NEW x \in S, TableOf(d, r) = TableOf(d, x) PROVE r = x
  <2>1. ~Before(r, x) /\ ~Before(x, r)
    BY <1>1, <1>2, <1>4, <1>5, <1>7, PlacedApart
  <2> QED
    BY <1>1, <2>1, PoliciesAreOrdered
<1> QED
  BY <1>4, <1>5, <1>6, <1>7

\* The tables of a state are as many as its policies, at the most.
LEMMA TablesAreCounted ==
  ASSUME NEW d \in States
  PROVE  Cardinality({TableOf(d, r) : r \in Needing(d)}) \in Nat
<1> DEFINE S == Needing(d)
           T == {TableOf(d, r) : r \in Needing(d)}
           f == [r \in S |-> TableOf(d, r)]
<1>1. IsFiniteSet(S)
  BY NeedingArePolicies DEF Policies
<1>2. f \in Surjection(S, T)
  BY DEF Surjection
<1> HIDE DEF S, T, f
<1>3. IsFiniteSet(T)
  BY <1>1, <1>2, FS_Surjection
<1> QED
  BY <1>3, FS_CardinalityType DEF T

LEMMA BasicsHold ==
  Basics
<1>1. ASSUME NEW T \in SUBSET Nat, T # {} PROVE \E n \in T : \A m \in T : n <= m
  BY <1>1, LeastElement, ZenonT(60)
<1>2. ASSUME NEW d \in States, ~Exhausted(d)
      PROVE  /\ \A r \in Needing(d) : TableOf(d, r) \in Table
             /\ \A r, x \in Needing(d) : TableOf(d, r) = TableOf(d, x) => r = x
             /\ Cardinality({TableOf(d, r) : r \in Needing(d)}) \in Nat
  BY <1>2, PoliciesHaveTheirOwnTables, TablesAreCounted, ZenonT(60)
<1> QED
  BY <1>1, <1>2, ZenonT(60) DEF Basics

-----------------------------------------------------------------------------
(***************************************************************************)
(* The theorems.                                                           *)
(***************************************************************************)
LEMMA TypedSpec ==
  Spec => []BInv
<1>1. Init => BInv
  BY BInit
<1>2. BInv /\ [Next]_vars => BInv'
  BY BNext, BasicsHold
<1> QED
  BY <1>1, <1>2, PTL DEF Spec

\* Every variable keeps its type, the kernel's rules their order, through every
\* Apply, fault, loss and reboot.
THEOREM TypeCorrect ==
  Spec => []TypeOK
<1>1. BInv => TypeOK
  BY DEF BInv
<1> QED
  BY <1>1, TypedSpec, PTL

\* No step of an Apply (applyNetNSNetlink), and nothing that happens next to one
\* short of a loss, disturbs an endpoint or a policy that is as the target wants
\* it, nor a rule that is not the agent's: what makes it safe to apply again and
\* again, and after an Apply that broke off anywhere.
THEOREM AppliesDisturbNothingRight ==
  ASSUME AddressesTellApart
  PROVE  Spec => RightStays
<1> DEFINE Stays ==
      /\ \A e \in Range(target.eps) : EndpointInPlace(k, e) => EndpointInPlace(k', e)
      /\ \A r \in Applicable(target) :
           (~Exhausted(target) /\ PolicyInPlace(k, target, r)) => PolicyInPlace(k', target, r)
      /\ \A r \in Range(k.rules) : r.own \/ r.table \in Table \/ r \in Range(k'.rules)
<1>1. ASSUME BInv, [Next]_vars PROVE [(drifts' = drifts /\ todo # <<>>) => Stays]_vars
  <2> SUFFICES ASSUME drifts' = drifts PROVE Stays
    OBVIOUS
  <2>1. ~Lose /\ ~Reboot
    <3>1. drifts \in Nat
      BY <1>1 DEF BInv, TypeOK
    <3> QED
      BY <3>1 DEF Lose, Reboot
  <2>2. KeepsEndpoints(k, k', target) /\ KeepsPolicies(k, k', target)
    BY <1>1, <2>1, StepKeeps, BasicsHold
  <2>3. target \in States
    BY <1>1, StatesOfPlans DEF BInv
  <2>4. \A e \in Range(target.eps) : EndpointInPlace(k, e) => EndpointInPlace(k', e)
    BY <2>2 DEF KeepsEndpoints
  <2>5. \A r \in Applicable(target) :
          (~Exhausted(target) /\ PolicyInPlace(k, target, r)) => PolicyInPlace(k', target, r)
    BY <2>2, <2>3, PolicyStays, BasicsHold
  <2>6. \A r \in Range(k.rules) : r.own \/ r.table \in Table \/ r \in Range(k'.rules)
    BY <2>2 DEF KeepsPolicies, ManagedRule
  <2> QED
    BY <2>4, <2>5, <2>6
<1>2. BInv /\ [Next]_vars => [(drifts' = drifts /\ todo # <<>>) => Stays]_vars
  BY <1>1
<1> QED
  BY <1>2, TypedSpec, PTL DEF Spec, RightStays

\* Once an Apply has completed, what it was called for is in the kernel, and the
\* rules decide every flow as the policies do, through every later Apply, the
\* ones that fail or break off included, until something is changed or lost.
THEOREM CompletedAppliesStayInstalled ==
  ASSUME AddressesTellApart, PrioritiesTellApart, OthersLeaveTraffic
  PROVE  Spec => []Installed
<1>1. Init => IInv
  BY IInit
<1>2. IInv /\ [Next]_vars => IInv'
  BY INext, BasicsHold
<1>3. IInv => Installed
  BY InvariantInstalls, BasicsHold
<1> QED
  BY <1>1, <1>2, <1>3, PTL DEF Spec
=============================================================================
