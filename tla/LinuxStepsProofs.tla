------------------------- MODULE LinuxStepsProofs -------------------------
(***************************************************************************)
(* What the steps of the Linux datapath keep: the types of its variables,  *)
(* the shape of what an Apply has still to call (Shaped), and everything   *)
(* that is already right for the state being applied (KeepsEndpoints,      *)
(* KeepsPolicies).  LinuxDatapathProofs has the theorems.                  *)
(*                                                                         *)
(* What rests on theorems about finite sets and well-founded orders is     *)
(* gathered in Basics, which LinuxDatapathProofs proves in its last part   *)
(* (BasicsHold).  The lemmas that need it have it as hypothesis, which     *)
(* keeps the library out of their provers' sight.                          *)
(***************************************************************************)
EXTENDS LinuxDatapath, TLAPS

\* The provers get time to answer while the next steps are prepared.
USE SMTT(60)

-----------------------------------------------------------------------------
(* Numbers and tables.                                                     *)

\* A set of numbers has a least one, and policies have tables of their own.
Basics ==
  /\ \A T \in SUBSET Nat : T # {} => \E n \in T : \A m \in T : n <= m
  /\ \A d \in States : ~Exhausted(d) =>
       /\ \A r \in Needing(d) : TableOf(d, r) \in Table
       /\ \A r, x \in Needing(d) : TableOf(d, r) = TableOf(d, x) => r = x
       /\ Cardinality({TableOf(d, r) : r \in Needing(d)}) \in Nat

LEMMA LeastNumber ==
  ASSUME Basics, NEW T, T \subseteq Nat, T # {}
  PROVE  \E n \in T : \A m \in T : n <= m
BY ZenonT(60) DEF Basics

LEMMA OwnTables ==
  ASSUME Basics, NEW d \in States, ~Exhausted(d)
  PROVE  /\ \A r \in Needing(d) : TableOf(d, r) \in Table
         /\ \A r, x \in Needing(d) : TableOf(d, r) = TableOf(d, x) => r = x
         /\ Cardinality({TableOf(d, r) : r \in Needing(d)}) \in Nat
BY ZenonT(60) DEF Basics

-----------------------------------------------------------------------------
(* Sequences of rules.                                                     *)

LEMMA Concatenated ==
  ASSUME NEW S, NEW a \in Seq(S), NEW b \in Seq(S)
  PROVE  /\ a \o b \in Seq(S) /\ Len(a \o b) = Len(a) + Len(b)
         /\ \A n \in 1..(Len(a) + Len(b)) :
              (a \o b)[n] = IF n <= Len(a) THEN a[n] ELSE b[n - Len(a)]
OBVIOUS

\* What Without and InsertAt return.
LEMMA WithoutElements ==
  ASSUME NEW S, NEW s \in Seq(S), NEW n \in DOMAIN s
  PROVE  /\ Without(s, n) \in Seq(S)
         /\ Len(Without(s, n)) = Len(s) - 1
         /\ \A m \in 1..(Len(s) - 1) :
              Without(s, n)[m] = IF m < n THEN s[m] ELSE s[m + 1]
<1> DEFINE a == SubSeq(s, 1, n - 1)
           b == SubSeq(s, n + 1, Len(s))
<1>1. /\ a \in Seq(S) /\ Len(a) = n - 1
      /\ \A m \in 1..(n - 1) : a[m] = s[m]
  OBVIOUS
<1>2. /\ b \in Seq(S) /\ Len(b) = Len(s) - n
      /\ \A m \in 1..(Len(s) - n) : b[m] = s[n + m]
  OBVIOUS
<1> HIDE DEF a, b
<1>3. /\ a \o b \in Seq(S) /\ Len(a \o b) = Len(s) - 1
      /\ \A m \in 1..(Len(s) - 1) :
           (a \o b)[m] = IF m <= n - 1 THEN a[m] ELSE b[m - (n - 1)]
  BY <1>1, <1>2, Concatenated
<1>4. ASSUME NEW m \in 1..(Len(s) - 1)
      PROVE  (a \o b)[m] = IF m < n THEN s[m] ELSE s[m + 1]
  <2>1. CASE m < n
    BY <1>1, <1>3, <2>1
  <2>2. CASE ~(m < n)
    <3>1. m - (n - 1) \in 1..(Len(s) - n) /\ n + (m - (n - 1)) = m + 1
      BY <2>2
    <3>2. b[m - (n - 1)] = s[n + (m - (n - 1))]
      BY <1>2, <3>1
    <3>3. ~(m <= n - 1)
      BY <2>2
    <3>4. (a \o b)[m] = b[m - (n - 1)]
      BY <1>3, <3>3, ZenonT(60)
    <3> QED
      BY <2>2, <3>1, <3>2, <3>4
  <2> QED
    BY <2>1, <2>2, ZenonT(60)
<1>5. Without(s, n) = a \o b
  BY DEF Without, a, b
<1> QED
  BY <1>3, <1>4, <1>5

LEMMA InsertAtElements ==
  ASSUME NEW S, NEW s \in Seq(S), NEW n \in 1..(Len(s) + 1), NEW x \in S
  PROVE  /\ InsertAt(s, n, x) \in Seq(S)
         /\ Len(InsertAt(s, n, x)) = Len(s) + 1
         /\ \A m \in 1..(Len(s) + 1) :
              InsertAt(s, n, x)[m] = IF m < n THEN s[m]
                                     ELSE IF m = n THEN x ELSE s[m - 1]
<1> DEFINE a == SubSeq(s, 1, n - 1)
           b == SubSeq(s, n, Len(s))
           c == a \o <<x>>
<1>1. /\ a \in Seq(S) /\ Len(a) = n - 1
      /\ \A m \in 1..(n - 1) : a[m] = s[m]
  OBVIOUS
<1>2. /\ b \in Seq(S) /\ Len(b) = Len(s) - n + 1
      /\ \A m \in 1..(Len(s) - n + 1) : b[m] = s[n + m - 1]
  OBVIOUS
<1> HIDE DEF a, b
<1>3. /\ c \in Seq(S) /\ Len(c) = n
      /\ \A m \in 1..n : c[m] = IF m < n THEN s[m] ELSE x
  BY <1>1
<1> HIDE DEF c
<1>4. /\ c \o b \in Seq(S) /\ Len(c \o b) = Len(s) + 1
      /\ \A m \in 1..(Len(s) + 1) :
           (c \o b)[m] = IF m <= n THEN c[m] ELSE b[m - n]
  BY <1>2, <1>3, Concatenated
<1>5. \A m \in 1..(Len(s) + 1) :
        (c \o b)[m] = IF m < n THEN s[m] ELSE IF m = n THEN x ELSE s[m - 1]
  BY <1>2, <1>3, <1>4
<1>6. InsertAt(s, n, x) = c \o b
  BY DEF InsertAt, a, b, c
<1> QED
  BY <1>4, <1>5, <1>6

LEMMA PrioritiesAreNumbers ==
  ASSUME NEW rules \in Seq(Rule)
  PROVE  \A m \in DOMAIN rules : rules[m] \in Rule /\ rules[m].prio \in Int
<1>1. \A m \in DOMAIN rules : rules[m] \in Rule
  OBVIOUS
<1> QED
  BY <1>1 DEF Rule

\* Removing one of them leaves the others, in order.
LEMMA RuleRemoved ==
  ASSUME NEW rules \in Seq(Rule), Ordered(rules), NEW n \in DOMAIN rules
  PROVE  /\ Without(rules, n) \in Seq(Rule)
         /\ Ordered(Without(rules, n))
         /\ Range(Without(rules, n)) \subseteq Range(rules)
         /\ \A r \in Range(rules) : r # rules[n] => r \in Range(Without(rules, n))
<1> DEFINE s == Without(rules, n)
<1>1. /\ s \in Seq(Rule) /\ Len(s) = Len(rules) - 1
      /\ \A m \in 1..(Len(rules) - 1) : s[m] = IF m < n THEN rules[m] ELSE rules[m + 1]
  BY WithoutElements, ZenonT(60)
<1> HIDE DEF s
<1>2. \A m \in DOMAIN rules : rules[m].prio \in Int
  BY PrioritiesAreNumbers
<1>3. Ordered(s)
  <2> SUFFICES ASSUME NEW a \in DOMAIN s, NEW b \in DOMAIN s, a < b
               PROVE  s[a].prio <= s[b].prio
    BY DEF Ordered
  <2>1. \A x, y \in DOMAIN rules : x < y => rules[x].prio <= rules[y].prio
    BY DEF Ordered
  <2>2. PICK x \in DOMAIN rules : s[a] = rules[x] /\ x = IF a < n THEN a ELSE a + 1
    BY <1>1
  <2>3. PICK y \in DOMAIN rules : s[b] = rules[y] /\ y = IF b < n THEN b ELSE b + 1
    BY <1>1
  <2>4. x < y
    BY <1>1, <2>2, <2>3
  <2> QED
    BY <2>1, <2>2, <2>3, <2>4
<1>4. Range(s) \subseteq Range(rules)
  BY <1>1 DEF Range
<1>5. ASSUME NEW m \in DOMAIN rules, m # n
      PROVE  rules[m] \in Range(s)
  <2>1. CASE m < n
    BY <1>1, <2>1 DEF Range
  <2>2. CASE m > n
    <3>1. m - 1 \in DOMAIN s /\ s[m - 1] = rules[m]
      BY <1>1, <2>2
    <3> QED
      BY <3>1 DEF Range
  <2> QED
    BY <1>5, <2>1, <2>2
<1> QED
  BY <1>1, <1>3, <1>4, <1>5 DEF s, Range

\* A new rule goes behind those of its own priority.
LEMMA RuleInserted ==
  ASSUME Basics, NEW rules \in Seq(Rule), Ordered(rules), NEW r \in Rule
  PROVE  /\ Insert(rules, r) \in Seq(Rule)
         /\ Ordered(Insert(rules, r))
         /\ Range(Insert(rules, r)) = Range(rules) \cup {r}
<1> DEFINE Behind(n) == \A m \in DOMAIN rules : m < n <=> rules[m].prio <= r.prio
           n == CHOOSE p \in 1..(Len(rules) + 1) : Behind(p)
           s == InsertAt(rules, n, r)
<1>1. r.prio \in Int /\ \A m \in DOMAIN rules : rules[m].prio \in Int
  BY PrioritiesAreNumbers, ZenonT(60) DEF Rule
<1>2. \E p \in 1..(Len(rules) + 1) : Behind(p)
  <2> DEFINE T == {p \in 1..(Len(rules) + 1) : p = Len(rules) + 1 \/ rules[p].prio > r.prio}
  <2>1. PICK p \in T : \A q \in T : p <= q
    <3>1. Len(rules) + 1 \in T /\ T \subseteq Nat
      OBVIOUS
    <3> QED
      BY <3>1, LeastNumber, ZenonT(60)
  <2>2. ASSUME NEW m \in DOMAIN rules, m < p PROVE rules[m].prio <= r.prio
    <3>1. m \notin T
      BY <2>1, <2>2
    <3> QED
      BY <3>1, <1>1 DEF Rule
  <2>3. ASSUME NEW m \in DOMAIN rules, m >= p PROVE rules[m].prio > r.prio
    <3>1. p \in DOMAIN rules /\ rules[p].prio > r.prio
      BY <2>1, <2>3
    <3>2. rules[p].prio <= rules[m].prio
      BY <3>1, <2>3, <1>1 DEF Ordered
    <3> QED
      BY <3>1, <3>2, <1>1 DEF Rule
  <2>4. ASSUME NEW m \in DOMAIN rules PROVE m < p <=> rules[m].prio <= r.prio
    <3>1. m \in Int /\ p \in Int /\ rules[m].prio \in Int /\ r.prio \in Int
      BY <1>1
    <3> HIDE DEF T
    <3>2. m < p => rules[m].prio <= r.prio
      BY <2>2
    <3>3. m >= p => rules[m].prio > r.prio
      BY <2>3
    <3> QED
      BY <3>1, <3>2, <3>3
  <2>5. p \in 1..(Len(rules) + 1)
    OBVIOUS
  <2> QED
    BY <2>4, <2>5
<1>3. n \in 1..(Len(rules) + 1) /\ Behind(n)
  BY <1>2
<1> HIDE DEF n
<1>4. /\ s \in Seq(Rule) /\ Len(s) = Len(rules) + 1
      /\ \A m \in 1..(Len(rules) + 1) :
           s[m] = IF m < n THEN rules[m] ELSE IF m = n THEN r ELSE rules[m - 1]
  <2>1. n \in 1..(Len(rules) + 1)
    BY <1>3
  <2> QED
    BY <2>1, InsertAtElements
<1> HIDE DEF s
<1>5. Ordered(s)
  <2> SUFFICES ASSUME NEW a \in DOMAIN s, NEW b \in DOMAIN s, a < b
               PROVE  s[a].prio <= s[b].prio
    BY DEF Ordered
  <2>1. a \in 1..(Len(rules) + 1) /\ b \in 1..(Len(rules) + 1) /\ r.prio \in Int
    BY <1>4 DEF Rule
  <2>2. CASE b < n
    <3>1. s[a] = rules[a] /\ s[b] = rules[b] /\ a \in DOMAIN rules /\ b \in DOMAIN rules
      BY <1>3, <1>4, <2>1, <2>2
    <3> QED
      BY <3>1 DEF Ordered
  <2>3. CASE a < n /\ b = n
    BY <1>3, <1>4, <2>1, <2>3
  <2>4. CASE a < n /\ b > n
    <3>1. s[a] = rules[a] /\ s[b] = rules[b - 1] /\ a < b - 1 /\ b - 1 \in DOMAIN rules
          /\ a \in DOMAIN rules
      BY <1>3, <1>4, <2>1, <2>4
    <3> QED
      BY <3>1, <1>1 DEF Ordered
  <2>5. CASE a = n
    <3>1. s[b] = rules[b - 1] /\ b - 1 \in DOMAIN rules /\ ~(b - 1 < n)
      BY <1>3, <1>4, <2>1, <2>5
    <3>2. ~(rules[b - 1].prio <= r.prio)
      BY <3>1, <1>3
    <3> QED
      BY <1>1, <1>3, <1>4, <2>1, <2>5, <3>1, <3>2
  <2>6. CASE a > n
    <3>1. s[a] = rules[a - 1] /\ s[b] = rules[b - 1] /\ a - 1 < b - 1
          /\ b - 1 \in DOMAIN rules /\ a - 1 \in DOMAIN rules
      BY <1>3, <1>4, <2>1, <2>6
    <3> QED
      BY <3>1, <1>1 DEF Ordered
  <2> QED
    BY <1>3, <2>1, <2>2, <2>3, <2>4, <2>5, <2>6
<1>6. Range(s) \subseteq Range(rules) \cup {r}
  BY <1>3, <1>4 DEF Range
<1>7. r \in Range(s)
  BY <1>3, <1>4 DEF Range
<1>8. ASSUME NEW m \in DOMAIN rules PROVE rules[m] \in Range(s)
  <2>1. CASE m < n
    BY <1>4, <2>1 DEF Range
  <2>2. CASE ~(m < n)
    <3>1. m + 1 \in DOMAIN s /\ s[m + 1] = rules[m]
      BY <1>3, <1>4, <2>2
    <3> QED
      BY <3>1 DEF Range
  <2> QED
    BY <2>1, <2>2
<1>9. Insert(rules, r) = s
  BY DEF Insert, n, s
<1> QED
  <2>1. Range(rules) \subseteq Range(s)
    BY <1>8 DEF Range
  <2> QED
    BY <1>4, <1>5, <1>6, <1>7, <1>9, <2>1
-----------------------------------------------------------------------------
(* The tables of policies.                                                 *)

\* Policies as validation leaves them.
Policies(S) ==
  /\ S \subseteq Policy /\ IsFiniteSet(S)
  /\ \A r, x \in S : r.key = x.key => r = x

LEMMA TableNumbers ==
  /\ TableSize \in Nat /\ TableSize > 0
  /\ \A key \in DOMAIN Offset : key \in Nat /\ Offset[key] \in Table
<1>1. TableSize \in Nat \ {0}
  BY LinuxAssumption
<1>2. \A key \in DOMAIN Offset : key \in Nat /\ Offset[key] \in Table
  BY LinuxAssumption
<1> QED
  BY <1>1, <1>2

\* The order of policies is strict and total.
LEMMA PoliciesAreOrdered ==
  ASSUME NEW S, Policies(S), NEW r \in S, NEW x \in S
  PROVE  /\ ~(Before(r, x) /\ Before(x, r))
         /\ r # x => Before(r, x) \/ Before(x, r)
<1>0. PolicyRoutePriorityMax \in Nat
  BY DEF PolicyRoutePriorityMax
<1>1. /\ r.key \in Nat /\ x.key \in Nat /\ r.prio \in Nat /\ x.prio \in Nat
      /\ r.key = x.key => r = x
  BY <1>0, TableNumbers DEF Policies, Policy
<1> QED
  BY <1>1 DEF Before

LEMMA RoutesArePolicies ==
  ASSUME NEW d \in States
  PROVE  /\ Policies(d.routes)
         /\ Applicable(d) \subseteq d.routes /\ Needing(d) \subseteq d.routes
<1>1. Validated(d)
  BY LinuxAssumption
<1>2. Policies(d.routes)
  BY <1>1 DEF Validated, Policies
<1> QED
  BY <1>2 DEF Applicable, Needing

\* Every policy that needs a table has its route there.
LEMMA PoliciesHaveTables ==
  ASSUME Basics, NEW d \in States, ~Exhausted(d)
  PROVE  /\ \A r \in Needing(d) : /\ TableOf(d, r) \in Table
                                  /\ TableOf(d, r) \in DOMAIN DesiredRoutes[d]
                                  /\ DesiredRoutes[d][TableOf(d, r)] = RouteOf(r)
         /\ DOMAIN DesiredRoutes[d] = {TableOf(d, r) : r \in Needing(d)}
         /\ DesiredRules[d] = UNION {RulesOf(d, r) : r \in Applicable(d)}
<1> DEFINE S == Needing(d)
<1>1. d \in DOMAIN Tables
  BY DEF Tables
<1>2. DesiredRoutes[d] = [t \in {TableOf(d, r) : r \in S} |->
                            RouteOf(CHOOSE r \in S : TableOf(d, r) = t)]
  BY <1>1 DEF DesiredRoutes
<1>3. ASSUME NEW r \in S PROVE DesiredRoutes[d][TableOf(d, r)] = RouteOf(r)
  <2>1. (CHOOSE x \in S : TableOf(d, x) = TableOf(d, r)) = r
    BY OwnTables
  <2> QED
    BY <1>2, <2>1
<1>4. DesiredRules[d] = UNION {RulesOf(d, r) : r \in Applicable(d)}
  BY <1>1 DEF DesiredRules
<1> QED
  BY <1>2, <1>3, <1>4, OwnTables
-----------------------------------------------------------------------------
(***************************************************************************)
(* What the theorems suppose of the desired states and of the host.        *)
(***************************************************************************)
\* No two endpoints of a state have one address.  Validation asks it of the
\* endpoints of one VPC; the host has one main table for all of them.
AddressesTellApart ==
  \A d \in States : \A e, x \in Range(d.eps) : e.ip = x.ip => e = x

-----------------------------------------------------------------------------
(***************************************************************************)
(* The inductive invariant.                                                *)
(***************************************************************************)
HostCalls == DOMAIN After \cup {"veth", "default"}
EndpointCalls(e) == IF e.node = Here THEN HostCalls ELSE {"remote"}

AllLoops == Loops \cup {"allocate"}

\* The entries of todo.
Calls(d) ==
  {Loop(do) : do \in AllLoops}
    \cup (UNION {{[do |-> do, e |-> e] : do \in EndpointCalls(e)} : e \in Range(d.eps)})
    \cup {[do |-> "table", e |-> t] : t \in Table}

\* Only the first entry is under way, and what needs the tables of the target
\* comes after their allocation.
Shaped(q, d) ==
  /\ q \in Seq(Calls(d))
  /\ \A n \in DOMAIN q : n > 1 =>
       q[n].do \in AllLoops \cup {"table"} \/ q[n] = EnsureEndpoint(q[n].e)
  /\ \A n \in DOMAIN q : q[n].do \in {"staleTables", "deleteRules", "addRules"} =>
       ~Exhausted(d) \/ \E m \in DOMAIN q : m < n /\ q[m].do = "allocate"
  /\ \A n \in DOMAIN q : q[n].do = "table" => ~Exhausted(d) /\ q[n].e \in DOMAIN DesiredRoutes[d]

\* A pair is only moved and renamed after it was made.
Making ==
  todo # <<>> =>
    /\ Current.do = "move" => k.pair[Current.e.id] \in {"made", None}
    /\ Current.do = "rename" => k.pair[Current.e.id] \in {"moved", None}

\* What the entries of an Apply are there for.
NoStaleNamespaces(s, d) == s.ns \subseteq LocalIds(d)
NoStaleRoutes(s, kind, prefixes) ==
  \A p \in Ip : s.main[p] # None /\ s.main[p][1] = kind => p \in prefixes
RightTable(s, d, t) == s.tables[t] = DesiredRoutes[d][t]
OnlyDesiredRules(s, d) == \A r \in Range(s.rules) : ManagedRule(r) => r \in DesiredRules[d]

\* The calls left in a queue: a loop, the calls for an endpoint, a table.
Left(q, do) == \E n \in DOMAIN q : q[n].do = do
LeftOf(q, e) == \E n \in DOMAIN q : q[n].do \in EndpointCalls(e) /\ q[n].e = e
LeftTable(q, t) == \E n \in DOMAIN q : q[n].do = "table" /\ q[n].e = t

\* The invariant the steps need.
BInv == TypeOK /\ Shaped(todo, target) /\ Making
-----------------------------------------------------------------------------
(* Sequences of calls.                                                     *)

\* What is left of a queue when its first entry is done, and when it moves on.
LEMMA Popped ==
  ASSUME NEW S, NEW q \in Seq(S), q # <<>>
  PROVE  /\ 1 \in DOMAIN q /\ Head(q) = q[1] /\ q[1] \in S
         /\ Tail(q) \in Seq(S)
         /\ \A n \in DOMAIN Tail(q) : n + 1 \in DOMAIN q /\ Tail(q)[n] = q[n + 1] /\ n \in Nat /\ n > 0
         /\ \A n \in DOMAIN q : n # 1 => n - 1 \in DOMAIN Tail(q) /\ Tail(q)[n - 1] = q[n]
<1>1. Len(q) \in Nat /\ Len(q) > 0 /\ DOMAIN q = 1..Len(q)
  OBVIOUS
<1>2. /\ Head(q) = q[1] /\ q[1] \in S
      /\ Tail(q) \in Seq(S) /\ Len(Tail(q)) = Len(q) - 1
      /\ \A n \in 1..Len(Tail(q)) : Tail(q)[n] = q[n + 1]
  OBVIOUS
<1>3. DOMAIN Tail(q) = 1..(Len(q) - 1)
  BY <1>2
<1>4. \A n \in DOMAIN Tail(q) : n + 1 \in DOMAIN q /\ Tail(q)[n] = q[n + 1] /\ n \in Nat /\ n > 0
  BY <1>1, <1>2, <1>3
<1>5. ASSUME NEW n \in DOMAIN q, n # 1
      PROVE  n - 1 \in DOMAIN Tail(q) /\ Tail(q)[n - 1] = q[n]
  <2>1. n \in Nat /\ n - 1 \in 1..(Len(q) - 1) /\ (n - 1) + 1 = n
    BY <1>1, <1>5
  <2> QED
    BY <1>2, <1>3, <2>1
<1> QED
  BY <1>1, <1>2, <1>4, <1>5

LEMMA Replaced ==
  ASSUME NEW S, NEW q \in Seq(S), q # <<>>, NEW c \in S
  PROVE  LET u == [q EXCEPT ![1] = c]
         IN  /\ u \in Seq(S) /\ DOMAIN u = DOMAIN q /\ u # <<>>
             /\ u[1] = c /\ Head(u) = c
             /\ \A n \in DOMAIN q : n # 1 => u[n] = q[n]
<1> DEFINE u == [q EXCEPT ![1] = c]
<1>1. Len(q) \in Nat /\ Len(q) > 0 /\ DOMAIN q = 1..Len(q) /\ q \in [1..Len(q) -> S]
  OBVIOUS
<1>2. u \in [1..Len(q) -> S] /\ u[1] = c /\ \A n \in DOMAIN q : n # 1 => u[n] = q[n]
  BY <1>1
<1> HIDE DEF u
<1>3. u \in Seq(S) /\ Len(u) = Len(q) /\ DOMAIN u = DOMAIN q
  BY <1>1, <1>2
<1>4. u # <<>> /\ Head(u) = u[1]
  BY <1>1, <1>3
<1> QED
  BY <1>2, <1>3, <1>4 DEF u

-----------------------------------------------------------------------------
(* Validated states and what they make of policies.                        *)

LEMMA EndpointsAreNamed ==
  ASSUME NEW d \in States
  PROVE  /\ Range(d.eps) \subseteq Endpoint
         /\ \A e, x \in Range(d.eps) : e.id = x.id => e = x
<1>1. Validated(d)
  BY LinuxAssumption
<1>2. d.eps \in Seq(Endpoint) /\ \A m, n \in DOMAIN d.eps : d.eps[m].id = d.eps[n].id => m = n
  BY <1>1 DEF Validated
<1> QED
  BY <1>2 DEF Range

LEMMA NothingIsThere ==
  /\ None \notin {"made", "moved", "wired", "dying"}
  /\ \A i \in Id : None # Veth(i)
  /\ \A n \in STRING : None # Via(n)
  /\ None \notin [to : SUBSET Flow, act : STRING]
<1>1. /\ None \notin {"made", "moved", "wired", "dying"} /\ None \notin {"veth"} \X Id /\ None \notin {"via"} \X STRING
      /\ None \notin [to : SUBSET Flow, act : STRING]
  BY LinuxAssumption
<1> QED
  BY <1>1 DEF Veth, Via

LEMMA PoliciesAreTyped ==
  ASSUME NEW d \in States, NEW r \in d.routes
  PROVE  /\ r.prio \in Nat /\ r.act \in STRING /\ r.to \subseteq Flow
         /\ \A f \in r.parts : f \subseteq r.to
         /\ RouteOf(r) \in [to : SUBSET Flow, act : STRING]
         /\ LinuxPriority(r.prio) \in Int
<1>1. Validated(d)
  BY LinuxAssumption
<1>2. r \in Policy /\ UNION r.parts \subseteq r.to
  BY <1>1 DEF Validated
<1>3. PolicyRoutePriorityMax \in Nat
  BY DEF PolicyRoutePriorityMax
<1>4. r.prio \in Nat /\ r.act \in STRING /\ r.to \in SUBSET Flow
  BY <1>2, <1>3 DEF Policy
<1>5. LinuxPriority(r.prio) \in Int
  BY <1>4 DEF LinuxPriority
<1>6. RouteOf(r) \in [to : SUBSET Flow, act : STRING]
  BY <1>4 DEF RouteOf
<1> QED
  BY <1>2, <1>4, <1>5, <1>6

LEMMA DesiredRoutesAreTyped ==
  ASSUME Basics, NEW d \in States, ~Exhausted(d), NEW t \in DOMAIN DesiredRoutes[d]
  PROVE  t \in Table /\ DesiredRoutes[d][t] \in [to : SUBSET Flow, act : STRING]
<1>1. PICK r \in Needing(d) : t = TableOf(d, r)
  BY PoliciesHaveTables
<1>2. t \in Table /\ DesiredRoutes[d][t] = RouteOf(r)
  BY <1>1, PoliciesHaveTables
<1>3. r \in d.routes
  BY DEF Needing, Applicable
<1> QED
  BY <1>2, <1>3, PoliciesAreTyped

LEMMA DesiredRulesAreTyped ==
  ASSUME Basics, NEW d \in States, ~Exhausted(d), NEW x \in DesiredRules[d]
  PROVE  x \in Rule /\ ManagedRule(x)
<1>1. PICK r \in Applicable(d) : x \in RulesOf(d, r)
  BY PoliciesHaveTables
<1>2. PICK f \in r.parts :
        x = [prio |-> LinuxPriority(r.prio), table |-> TableOf(d, r), flows |-> f, own |-> TRUE]
  BY <1>1 DEF RulesOf
<1>3. r \in d.routes
  BY DEF Applicable
<1>4. LinuxPriority(r.prio) \in Int /\ f \subseteq Flow
  BY <1>3, PoliciesAreTyped
<1>5. TableSize \in Nat /\ Table \subseteq Nat
  BY TableNumbers DEF Table
<1>6. TableOf(d, r) \in Nat
  <2>1. CASE r.act = "allow"
    BY <1>5, <2>1 DEF TableOf, Main
  <2>2. CASE r.act # "allow"
    BY <1>5, <2>2, PoliciesHaveTables, ZenonT(60) DEF Needing
  <2> QED
    BY <2>1, <2>2
<1> QED
  BY <1>2, <1>4, <1>6 DEF Rule, ManagedRule
-----------------------------------------------------------------------------
(* The calls keep the kernel one.                                          *)

HostRoutes == {None} \cup ({"veth"} \X Id) \cup ({"via"} \X STRING)
TableRoutes == {None} \cup [to : SUBSET Flow, act : STRING]
Pairs == {None, "made", "moved", "wired", "dying"}

LEMMA KernelFields ==
  ASSUME NEW s
  PROVE  s \in Kernel <=>
           /\ s \in [ns : SUBSET Id, pair : [Id -> Pairs],
                     dressed : [Id -> SUBSET Dressed], addr : [Id -> SUBSET Ip],
                     main : [Ip -> HostRoutes], tables : [Table -> TableRoutes], rules : Seq(Rule)]
           /\ Ordered(s.rules)
BY ZenonT(60) DEF Kernel, HostRoutes, TableRoutes, Pairs

LEMMA RoutesOfEndpoints ==
  ASSUME NEW e \in Endpoint
  PROVE  Veth(e.id) \in HostRoutes /\ Via(e.node) \in HostRoutes
BY DEF Endpoint, Veth, Via, HostRoutes

LEMMA EffectOnKernel ==
  ASSUME NEW s \in Kernel, NEW e \in Endpoint, NEW do \in WorkloadCalls
  PROVE  /\ Effect(s, do, e) \in Kernel
         /\ Effect(s, do, e).tables = s.tables /\ Effect(s, do, e).rules = s.rules
<1> DEFINE u == Effect(s, do, e)
<1>1. /\ s \in [ns : SUBSET Id, pair : [Id -> Pairs],
                dressed : [Id -> SUBSET Dressed], addr : [Id -> SUBSET Ip],
                main : [Ip -> HostRoutes], tables : [Table -> TableRoutes], rules : Seq(Rule)]
      /\ Ordered(s.rules)
  BY KernelFields
<1>2. e.id \in Id /\ e.ip \in Ip
  BY DEF Endpoint
<1>3. Veth(e.id) \in HostRoutes /\ Via(e.node) \in HostRoutes
  BY RoutesOfEndpoints
<1>4. {"made", "moved", "wired"} \subseteq Pairs /\ {} \subseteq Dressed
  BY DEF Pairs
<1> SUFFICES /\ u \in [ns : SUBSET Id, pair : [Id -> Pairs],
                       dressed : [Id -> SUBSET Dressed], addr : [Id -> SUBSET Ip],
                       main : [Ip -> HostRoutes], tables : [Table -> TableRoutes], rules : Seq(Rule)]
             /\ u.tables = s.tables /\ u.rules = s.rules
  BY <1>1, KernelFields
<1>5. CASE do = "namespace"
  BY <1>1, <1>2, <1>5, ZenonT(60) DEF Effect
<1>6. CASE do = "add"
  <2>1. u = [s EXCEPT !.pair[e.id] = "made", !.dressed[e.id] = {}]
    BY <1>6 DEF Effect, Dressed
  <2> HIDE DEF u
  <2> QED
    BY <1>1, <1>2, <1>4, <2>1, ZenonT(60)
<1>7. CASE do = "move"
  BY <1>1, <1>2, <1>4, <1>7, ZenonT(60) DEF Effect
<1>8. CASE do = "rename"
  BY <1>1, <1>2, <1>4, <1>8, ZenonT(60) DEF Effect
<1>9. CASE do \in Dressed
  <2>1. u = [s EXCEPT !.dressed[e.id] = @ \cup {do}]
    BY <1>9 DEF Effect, Dressed
  <2> HIDE DEF u
  <2> QED
    BY <1>1, <1>2, <1>9, <2>1
<1>10. CASE do = "route"
  <2>1. u = [s EXCEPT !.main[e.ip] = Veth(e.id)]
    BY <1>10 DEF Effect, Dressed
  <2> HIDE DEF u
  <2> QED
    BY <1>1, <1>2, <1>3, <2>1, ZenonT(60)
<1>11. CASE do = "lookup"
  BY <1>1, <1>11 DEF Effect, Dressed
<1>12. CASE do = "stale"
  <2>1. u = [s EXCEPT !.addr[e.id] = @ \cap {e.ip}]
    BY <1>12 DEF Effect, Dressed, DropStaleAddresses
  <2> HIDE DEF u
  <2> QED
    BY <1>1, <1>2, <2>1, ZenonT(60)
<1>13. CASE do = "address"
  <2>1. u = [s EXCEPT !.addr[e.id] = @ \cup {e.ip}]
    BY <1>13 DEF Effect, Dressed
  <2> HIDE DEF u
  <2> QED
    BY <1>1, <1>2, <2>1, ZenonT(60)
<1>14. CASE do = "remote"
  <2>1. u = [s EXCEPT !.main[e.ip] = Via(e.node)]
    BY <1>14 DEF Effect, Dressed
  <2> HIDE DEF u
  <2> QED
    BY <1>1, <1>2, <1>3, <2>1, ZenonT(60)
<1> QED
  BY <1>5, <1>6, <1>7, <1>8, <1>9, <1>10, <1>11, <1>12, <1>13, <1>14, ZenonT(60) DEF WorkloadCalls, After, Dressed

LEMMA GoneFromKernel ==
  ASSUME NEW s \in Kernel, NEW i \in Id
  PROVE  /\ Gone(s, i) \in Kernel
         /\ Gone(s, i).ns = s.ns /\ Gone(s, i).tables = s.tables /\ Gone(s, i).rules = s.rules
         /\ \A j \in Id : j # i => /\ Gone(s, i).pair[j] = s.pair[j]
                                   /\ Gone(s, i).dressed[j] = s.dressed[j]
                                   /\ Gone(s, i).addr[j] = s.addr[j]
         /\ Gone(s, i).pair[i] = None
         /\ \A p \in Ip : Gone(s, i).main[p] = IF s.main[p] = Veth(i) THEN None ELSE s.main[p]
<1> DEFINE m == [p \in Ip |-> IF s.main[p] = Veth(i) THEN None ELSE s.main[p]]
<1>1. /\ s \in [ns : SUBSET Id, pair : [Id -> Pairs],
                dressed : [Id -> SUBSET Dressed], addr : [Id -> SUBSET Ip],
                main : [Ip -> HostRoutes], tables : [Table -> TableRoutes], rules : Seq(Rule)]
      /\ Ordered(s.rules)
  BY KernelFields
<1>2. m \in [Ip -> HostRoutes] /\ None \in Pairs
  BY <1>1 DEF HostRoutes, Pairs
<1>3. Gone(s, i) = [s EXCEPT !.pair[i] = None, !.dressed[i] = {}, !.addr[i] = {}, !.main = m]
  BY <1>1 DEF Gone
<1>4. \A p \in Ip : m[p] = IF s.main[p] = Veth(i) THEN None ELSE s.main[p]
  OBVIOUS
<1> HIDE DEF m
<1> DEFINE u == Gone(s, i)
<1> HIDE DEF u
<1>5. u = [s EXCEPT !.pair[i] = None, !.dressed[i] = {}, !.addr[i] = {}, !.main = m]
  BY <1>3 DEF u
<1>6. /\ u \in [ns : SUBSET Id, pair : [Id -> Pairs],
                dressed : [Id -> SUBSET Dressed], addr : [Id -> SUBSET Ip],
                main : [Ip -> HostRoutes], tables : [Table -> TableRoutes], rules : Seq(Rule)]
      /\ u.ns = s.ns /\ u.tables = s.tables /\ u.rules = s.rules /\ u.main = m
  BY <1>1, <1>2, <1>5, ZenonT(60)
<1>7. /\ u.pair[i] = None
      /\ \A j \in Id : j # i => /\ u.pair[j] = s.pair[j] /\ u.dressed[j] = s.dressed[j]
                                /\ u.addr[j] = s.addr[j]
  BY <1>1, <1>5
<1>8. u \in Kernel
  BY <1>1, <1>6, KernelFields
<1> QED
  BY <1>4, <1>6, <1>7, <1>8 DEF u
-----------------------------------------------------------------------------
(* What one iteration of each loop changes.                                *)

LEMMA StatesOfPlans ==
  ASSUME TypeOK
  PROVE  plan \in Plans /\ target \in States /\ desired \in States /\ plan.states \subseteq States
BY DEF TypeOK, States

LEMMA NamespaceRemoved ==
  ASSUME k \in Kernel, NEW u \in CleanupStaleNamespaces
  PROVE  /\ u \in Kernel
         /\ u.main = k.main /\ u.dressed = k.dressed /\ u.tables = k.tables /\ u.rules = k.rules
         /\ \E i \in k.ns \ LocalIds(target) :
              /\ u.ns = k.ns \ {i}
              /\ \A j \in Id : j # i => u.pair[j] = k.pair[j] /\ u.addr[j] = k.addr[j]
<1>1. PICK i \in k.ns \ LocalIds(target) :
        u = [k EXCEPT !.ns = @ \ {i}, !.addr[i] = {},
                      !.pair[i] = IF @ \in {"moved", "wired"} THEN "dying" ELSE @]
  BY ZenonT(60) DEF CleanupStaleNamespaces
<1>2. /\ k \in [ns : SUBSET Id, pair : [Id -> Pairs],
                dressed : [Id -> SUBSET Dressed], addr : [Id -> SUBSET Ip],
                main : [Ip -> HostRoutes], tables : [Table -> TableRoutes], rules : Seq(Rule)]
      /\ Ordered(k.rules)
  BY KernelFields
<1> DEFINE p == IF k.pair[i] \in {"moved", "wired"} THEN "dying" ELSE k.pair[i]
<1>3. i \in Id /\ p \in Pairs
  BY <1>2 DEF Pairs
<1>4. u = [k EXCEPT !.ns = @ \ {i}, !.addr[i] = {}, !.pair[i] = p]
  BY <1>1, <1>2
<1> HIDE DEF p
<1>5. /\ u \in [ns : SUBSET Id, pair : [Id -> Pairs],
                dressed : [Id -> SUBSET Dressed], addr : [Id -> SUBSET Ip],
                main : [Ip -> HostRoutes], tables : [Table -> TableRoutes], rules : Seq(Rule)]
      /\ u.main = k.main /\ u.dressed = k.dressed /\ u.tables = k.tables /\ u.rules = k.rules
      /\ u.ns = k.ns \ {i}
      /\ \A j \in Id : j # i => u.pair[j] = k.pair[j] /\ u.addr[j] = k.addr[j]
  BY <1>2, <1>3, <1>4, ZenonT(60)
<1>6. u \in Kernel
  BY <1>2, <1>5, KernelFields
<1> QED
  BY <1>5, <1>6

LEMMA RouteRemoved ==
  ASSUME k \in Kernel, NEW p \in Ip, NEW u, u = [k EXCEPT !.main[p] = None]
  PROVE  /\ u \in Kernel
         /\ u.ns = k.ns /\ u.pair = k.pair /\ u.dressed = k.dressed /\ u.addr = k.addr
         /\ u.tables = k.tables /\ u.rules = k.rules
         /\ u.main[p] = None /\ \A q \in Ip : q # p => u.main[q] = k.main[q]
<1>1. /\ k \in [ns : SUBSET Id, pair : [Id -> Pairs],
                dressed : [Id -> SUBSET Dressed], addr : [Id -> SUBSET Ip],
                main : [Ip -> HostRoutes], tables : [Table -> TableRoutes], rules : Seq(Rule)]
      /\ Ordered(k.rules)
  BY KernelFields
<1>2. None \in HostRoutes
  BY DEF HostRoutes
<1>3. /\ u \in [ns : SUBSET Id, pair : [Id -> Pairs],
                dressed : [Id -> SUBSET Dressed], addr : [Id -> SUBSET Ip],
                main : [Ip -> HostRoutes], tables : [Table -> TableRoutes], rules : Seq(Rule)]
      /\ u.rules = k.rules
  BY <1>1, <1>2, ZenonT(60)
<1>4. u \in Kernel
  BY <1>1, <1>3, KernelFields, ZenonT(60)
<1> QED
  BY <1>1, <1>4

LEMMA TableReplaced ==
  ASSUME k \in Kernel, NEW t \in Table, NEW route \in TableRoutes,
         NEW u, u = [k EXCEPT !.tables[t] = route]
  PROVE  /\ u \in Kernel
         /\ u.ns = k.ns /\ u.pair = k.pair /\ u.dressed = k.dressed /\ u.addr = k.addr
         /\ u.main = k.main /\ u.rules = k.rules
         /\ u.tables[t] = route /\ \A x : x # t => u.tables[x] = k.tables[x]
<1>1. /\ k \in [ns : SUBSET Id, pair : [Id -> Pairs],
                dressed : [Id -> SUBSET Dressed], addr : [Id -> SUBSET Ip],
                main : [Ip -> HostRoutes], tables : [Table -> TableRoutes], rules : Seq(Rule)]
      /\ Ordered(k.rules)
  BY KernelFields
<1>2. /\ u \in [ns : SUBSET Id, pair : [Id -> Pairs],
                dressed : [Id -> SUBSET Dressed], addr : [Id -> SUBSET Ip],
                main : [Ip -> HostRoutes], tables : [Table -> TableRoutes], rules : Seq(Rule)]
      /\ u.rules = k.rules
  BY <1>1, ZenonT(60)
<1>3. u \in Kernel
  BY <1>1, <1>2, KernelFields, ZenonT(60)
<1> QED
  BY <1>1, <1>3

LEMMA RulesReplaced ==
  ASSUME k \in Kernel, NEW rules \in Seq(Rule), Ordered(rules),
         NEW u, u = [k EXCEPT !.rules = rules]
  PROVE  /\ u \in Kernel
         /\ u.ns = k.ns /\ u.pair = k.pair /\ u.dressed = k.dressed /\ u.addr = k.addr
         /\ u.main = k.main /\ u.tables = k.tables /\ u.rules = rules
<1>1. /\ k \in [ns : SUBSET Id, pair : [Id -> Pairs],
                dressed : [Id -> SUBSET Dressed], addr : [Id -> SUBSET Ip],
                main : [Ip -> HostRoutes], tables : [Table -> TableRoutes], rules : Seq(Rule)]
      /\ Ordered(k.rules)
  BY KernelFields
<1>2. /\ u \in [ns : SUBSET Id, pair : [Id -> Pairs],
                dressed : [Id -> SUBSET Dressed], addr : [Id -> SUBSET Ip],
                main : [Ip -> HostRoutes], tables : [Table -> TableRoutes], rules : Seq(Rule)]
      /\ u.rules = rules
  BY <1>1, ZenonT(60)
<1>3. u \in Kernel
  BY <1>2, KernelFields, ZenonT(60)
<1> QED
  BY <1>1, <1>3
-----------------------------------------------------------------------------
(* A step keeps what is right for the state d.                             *)

KeepsEndpoints(s, u, d) ==
  /\ \A e \in Range(d.eps) : EndpointInPlace(s, e) => EndpointInPlace(u, e)
  /\ NoStaleNamespaces(s, d) => NoStaleNamespaces(u, d)
  /\ NoStaleRoutes(s, "via", RemotePrefixes(d)) => NoStaleRoutes(u, "via", RemotePrefixes(d))
  /\ NoStaleRoutes(s, "veth", LocalPrefixes(d)) => NoStaleRoutes(u, "veth", LocalPrefixes(d))

KeepsPolicies(s, u, d) ==
  /\ \A t \in DOMAIN DesiredRoutes[d] : RightTable(s, d, t) => RightTable(u, d, t)
  /\ OnlyDesiredRules(s, d) => OnlyDesiredRules(u, d)
  /\ \A r \in Range(s.rules) : r \in Range(u.rules) \/ (ManagedRule(r) /\ r \notin DesiredRules[d])
  /\ \A r \in Range(u.rules) : r \in Range(s.rules) \/ ManagedRule(r)

LEMMA UnchangedKeeps ==
  ASSUME NEW s, NEW u, NEW d
  PROVE  /\ (u.ns = s.ns /\ u.pair = s.pair /\ u.dressed = s.dressed /\ u.addr = s.addr
               /\ u.main = s.main) => KeepsEndpoints(s, u, d)
         /\ (u.tables = s.tables /\ u.rules = s.rules) => KeepsPolicies(s, u, d)
<1>1. ASSUME u.ns = s.ns, u.pair = s.pair, u.dressed = s.dressed, u.addr = s.addr, u.main = s.main
      PROVE  KeepsEndpoints(s, u, d)
  BY <1>1 DEF KeepsEndpoints, EndpointInPlace, NoStaleNamespaces, NoStaleRoutes
<1>2. ASSUME u.tables = s.tables, u.rules = s.rules PROVE KeepsPolicies(s, u, d)
  BY <1>2 DEF KeepsPolicies, RightTable, OnlyDesiredRules
<1> QED
  BY <1>1, <1>2

\* The loops remove what the target does not want, and add what it does.
LEMMA IterateKeeps ==
  ASSUME Basics, BInv, Iterate
  PROVE  k' \in Kernel /\ KeepsEndpoints(k, k', target) /\ KeepsPolicies(k, k', target)
<1>1. k \in Kernel /\ target \in States
  BY StatesOfPlans DEF BInv, TypeOK
<1>2. Current.do \in Loops /\ k' \in Iterations(Current.do)
  BY DEF Iterate
<1>3. /\ Range(target.eps) \subseteq Endpoint
      /\ \A e \in Range(target.eps) : e.id \in Id /\ e.ip \in Ip /\ e.node \in STRING
  BY <1>1, EndpointsAreNamed DEF Endpoint
<1>4. /\ \A e \in Range(target.eps) : e.node = Here => e.id \in LocalIds(target) /\ e.ip \in LocalPrefixes(target)
      /\ \A e \in Range(target.eps) : e.node # Here => e.ip \in RemotePrefixes(target)
  BY DEF LocalIds, LocalPrefixes, RemotePrefixes, Local
<1>5. CASE Current.do = "namespaces"
  <2>1. k' \in CleanupStaleNamespaces
    BY <1>2, <1>5 DEF Iterations
  <2>2. /\ k' \in Kernel
        /\ k'.main = k.main /\ k'.dressed = k.dressed /\ k'.tables = k.tables /\ k'.rules = k.rules
    BY <1>1, <2>1, NamespaceRemoved
  <2>3. PICK i \in k.ns \ LocalIds(target) :
          /\ k'.ns = k.ns \ {i}
          /\ \A j \in Id : j # i => k'.pair[j] = k.pair[j] /\ k'.addr[j] = k.addr[j]
    BY <1>1, <2>1, NamespaceRemoved
  <2>4. KeepsEndpoints(k, k', target)
    BY <1>3, <1>4, <2>2, <2>3 DEF KeepsEndpoints, EndpointInPlace, NoStaleNamespaces, NoStaleRoutes
  <2> QED
    BY <2>2, <2>4, UnchangedKeeps
<1>6. ASSUME NEW kind, kind \in {"via", "veth"}, NEW p \in Ip, k.main[p] # None, k.main[p][1] = kind,
             kind = "via" => p \notin RemotePrefixes(target),
             kind = "veth" => p \notin LocalPrefixes(target),
             k' = [k EXCEPT !.main[p] = None]
      PROVE  k' \in Kernel /\ KeepsEndpoints(k, k', target) /\ KeepsPolicies(k, k', target)
  <2>1. /\ k' \in Kernel
        /\ k'.ns = k.ns /\ k'.pair = k.pair /\ k'.dressed = k.dressed /\ k'.addr = k.addr
        /\ k'.tables = k.tables /\ k'.rules = k.rules
        /\ k'.main[p] = None /\ \A q \in Ip : q # p => k'.main[q] = k.main[q]
    BY <1>1, <1>6, RouteRemoved, ZenonT(60)
  <2>2. ASSUME NEW e \in Range(target.eps), EndpointInPlace(k, e) PROVE EndpointInPlace(k', e)
    <3>1. e.ip # p
      <4>1. CASE e.node = Here
        <5>1. k.main[e.ip][1] = "veth"
          BY <2>2, <4>1 DEF EndpointInPlace, Veth
        <5> QED
          BY <1>4, <1>6, <4>1, <5>1
      <4>2. CASE e.node # Here
        <5>1. k.main[e.ip][1] = "via"
          BY <2>2, <4>2 DEF EndpointInPlace, Via
        <5> QED
          BY <1>4, <1>6, <4>2, <5>1
      <4> QED
        BY <4>1, <4>2
    <3> QED
      BY <1>3, <2>1, <2>2, <3>1 DEF EndpointInPlace
  <2>3. KeepsEndpoints(k, k', target)
    BY <2>1, <2>2 DEF KeepsEndpoints, NoStaleNamespaces, NoStaleRoutes
  <2> QED
    BY <2>1, <2>3, UnchangedKeeps
<1>7. CASE Current.do = "remoteRoutes"
  <2>1. k' \in CleanupStaleRemoteRoutes
    BY <1>2, <1>7 DEF Iterations
  <2>2. PICK p \in Ip \ RemotePrefixes(target) :
          k.main[p] # None /\ k.main[p][1] = "via" /\ k' = [k EXCEPT !.main[p] = None]
    BY <2>1, ZenonT(60) DEF CleanupStaleRemoteRoutes
  <2> QED
    BY <1>6, <2>2
<1>8. CASE Current.do = "workloadRoutes"
  <2>1. k' \in CleanupStaleWorkloadRoutes
    BY <1>2, <1>8 DEF Iterations
  <2>2. PICK p \in Ip \ LocalPrefixes(target) :
          k.main[p] # None /\ k.main[p][1] = "veth" /\ k' = [k EXCEPT !.main[p] = None]
    BY <2>1, ZenonT(60) DEF CleanupStaleWorkloadRoutes
  <2> QED
    BY <1>6, <2>2
<1>9. CASE Current.do = "staleTables"
  <2>1. k' \in CleanupStaleTables
    BY <1>2, <1>9 DEF Iterations
  <2>2. PICK t \in Table \ DOMAIN DesiredRoutes[target] : k' = [k EXCEPT !.tables[t] = None]
    BY <2>1, ZenonT(60) DEF CleanupStaleTables
  <2>3. None \in TableRoutes
    BY DEF TableRoutes
  <2>4. /\ k' \in Kernel
        /\ k'.ns = k.ns /\ k'.pair = k.pair /\ k'.dressed = k.dressed /\ k'.addr = k.addr
        /\ k'.main = k.main /\ k'.rules = k.rules
        /\ \A x : x # t => k'.tables[x] = k.tables[x]
    BY <1>1, <2>2, <2>3, TableReplaced
  <2>5. KeepsPolicies(k, k', target)
    BY <2>2, <2>4 DEF KeepsPolicies, RightTable, OnlyDesiredRules
  <2> QED
    BY <2>4, <2>5, UnchangedKeeps
<1>10. k.rules \in Seq(Rule) /\ Ordered(k.rules)
  BY <1>1, KernelFields
<1>11. CASE Current.do = "deleteRules"
  <2>1. k' \in DeleteRules
    BY <1>2, <1>11 DEF Iterations
  <2>2. PICK n \in DOMAIN k.rules :
          /\ ManagedRule(k.rules[n]) /\ k.rules[n] \notin DesiredRules[target]
          /\ k' = [k EXCEPT !.rules = Without(k.rules, n)]
    BY <2>1, ZenonT(60) DEF DeleteRules
  <2> DEFINE rules == Without(k.rules, n)
  <2>3. /\ rules \in Seq(Rule) /\ Ordered(rules) /\ Range(rules) \subseteq Range(k.rules)
        /\ \A r \in Range(k.rules) : r # k.rules[n] => r \in Range(rules)
    BY <1>10, RuleRemoved
  <2>4. k' = [k EXCEPT !.rules = rules]
    BY <2>2
  <2> HIDE DEF rules
  <2>5. /\ k' \in Kernel
        /\ k'.ns = k.ns /\ k'.pair = k.pair /\ k'.dressed = k.dressed /\ k'.addr = k.addr
        /\ k'.main = k.main /\ k'.tables = k.tables /\ k'.rules = rules
    BY <1>1, <2>3, <2>4, RulesReplaced
  <2>6. KeepsPolicies(k, k', target)
    BY <2>2, <2>3, <2>5 DEF KeepsPolicies, RightTable, OnlyDesiredRules
  <2> QED
    BY <2>5, <2>6, UnchangedKeeps
<1>12. CASE Current.do = "addRules"
  <2>1. k' \in AddRules
    BY <1>2, <1>12 DEF Iterations
  <2>2. PICK r \in DesiredRules[target] \ Range(k.rules) : k' = [k EXCEPT !.rules = Insert(k.rules, r)]
    BY <2>1, ZenonT(60) DEF AddRules
  <2>3. ~Exhausted(target)
    <3>1. todo \in Seq(Calls(target)) /\ todo # <<>>
      BY DEF BInv, Shaped, Iterate
    <3>2. 1 \in DOMAIN todo /\ Current = todo[1] /\ \A m \in DOMAIN todo : ~(m < 1)
      BY <3>1, Popped DEF Current
    <3> QED
      BY <1>12, <3>2 DEF BInv, Shaped
  <2>4. r \in Rule /\ ManagedRule(r)
    BY <1>1, <2>3, DesiredRulesAreTyped
  <2> DEFINE rules == Insert(k.rules, r)
  <2>5. rules \in Seq(Rule) /\ Ordered(rules) /\ Range(rules) = Range(k.rules) \cup {r}
    BY <1>10, <2>4, RuleInserted
  <2>6. k' = [k EXCEPT !.rules = rules]
    BY <2>2
  <2> HIDE DEF rules
  <2>7. /\ k' \in Kernel
        /\ k'.ns = k.ns /\ k'.pair = k.pair /\ k'.dressed = k.dressed /\ k'.addr = k.addr
        /\ k'.main = k.main /\ k'.tables = k.tables /\ k'.rules = rules
    BY <1>1, <2>5, <2>6, RulesReplaced
  <2>8. KeepsPolicies(k, k', target)
    BY <2>2, <2>4, <2>5, <2>7 DEF KeepsPolicies, RightTable, OnlyDesiredRules
  <2> QED
    BY <2>7, <2>8, UnchangedKeeps
<1> QED
  BY <1>2, <1>5, <1>7, <1>8, <1>9, <1>11, <1>12 DEF Loops
LEMMA CallsAre ==
  ASSUME NEW d, NEW c \in Calls(d)
  PROVE  /\ c.do \in AllLoops \cup HostCalls \cup {"table", "remote"}
         /\ c = [do |-> c.do, e |-> c.e]
         /\ c.do \in HostCalls => c.e \in Range(d.eps) /\ c.e.node = Here
         /\ c.do = "remote" => c.e \in Range(d.eps) /\ c.e.node # Here
         /\ c.do = "table" => c.e \in Table
<1> DEFINE A == {Loop(do) : do \in AllLoops}
           B == UNION {{[do |-> do, e |-> e] : do \in EndpointCalls(e)} : e \in Range(d.eps)}
           C == {[do |-> "table", e |-> t] : t \in Table}
<1>1. CASE c \in A
  <2>1. PICK do \in AllLoops : c = [do |-> do, e |-> None]
    BY <1>1 DEF Loop
  <2> QED
    BY <2>1 DEF AllLoops, Loops, HostCalls, After
<1>2. CASE c \in B
  <2>1. PICK e \in Range(d.eps) : \E do \in EndpointCalls(e) : c = [do |-> do, e |-> e]
    BY <1>2
  <2>2. PICK do \in EndpointCalls(e) : c = [do |-> do, e |-> e]
    BY <2>1
  <2> QED
    BY <2>2 DEF EndpointCalls, HostCalls, After
<1>3. CASE c \in C
  BY <1>3 DEF HostCalls, After
<1>4. Calls(d) = A \cup B \cup C
  BY DEF Calls
<1> HIDE DEF A, B, C
<1> QED
  BY <1>1, <1>2, <1>3, <1>4

LEMMA CurrentCall ==
  ASSUME BInv, todo # <<>>
  PROVE  /\ Current = todo[1] /\ 1 \in DOMAIN todo
         /\ Current.do \in AllLoops \cup HostCalls \cup {"table", "remote"}
         /\ Current = [do |-> Current.do, e |-> Current.e]
         /\ Current.do \in HostCalls => Current.e \in Range(target.eps) /\ Current.e.node = Here
         /\ Current.do = "remote" => Current.e \in Range(target.eps) /\ Current.e.node # Here
         /\ Current.do \in WorkloadCalls => Current.do \in HostCalls \cup {"remote"}
         /\ Current.do = "table" => Current.e \in Table
<1>1. todo \in Seq(Calls(target))
  BY DEF BInv, Shaped
<1>2. Current = todo[1] /\ 1 \in DOMAIN todo /\ Current \in Calls(target)
  BY <1>1, Popped DEF Current
<1>3. \A do \in WorkloadCalls : do \in HostCalls \cup {"remote"}
  BY DEF WorkloadCalls, HostCalls
<1> QED
  BY <1>2, <1>3, CallsAre

\* The calls for an endpoint set what they set for the endpoint they are for;
\* another one with its address would lose its host route.
LEMMA WorkloadCallKeeps ==
  ASSUME BInv, AddressesTellApart, WorkloadCall
  PROVE  k' \in Kernel /\ KeepsEndpoints(k, k', target) /\ KeepsPolicies(k, k', target)
<1> DEFINE do == Current.do
           x == Current.e
<1>1. k \in Kernel /\ target \in States
  BY StatesOfPlans DEF BInv, TypeOK
<1>2. do \in WorkloadCalls /\ k' = Effect(k, do, x) /\ ~Refused(k, do, x) /\ todo # <<>>
  BY DEF WorkloadCall
<1>3. /\ x \in Range(target.eps)
      /\ do \in HostCalls => x.node = Here
      /\ do = "remote" => x.node # Here
  BY <1>2, CurrentCall
<1>4. /\ Range(target.eps) \subseteq Endpoint
      /\ \A e \in Range(target.eps) : e.id \in Id /\ e.ip \in Ip /\ e.node \in STRING
      /\ \A e \in Range(target.eps) : e # x => e.id # x.id /\ e.ip # x.ip
  BY <1>1, <1>3, EndpointsAreNamed DEF Endpoint, AddressesTellApart
<1>5. /\ k' \in Kernel /\ k'.tables = k.tables /\ k'.rules = k.rules
  BY <1>1, <1>2, <1>3, <1>4, EffectOnKernel
<1>6. /\ do = "move" => k.pair[x.id] \in {"made", None}
      /\ do = "rename" => k.pair[x.id] \in {"moved", None}
  BY <1>2 DEF BInv, Making
<1>7. /\ k \in [ns : SUBSET Id, pair : [Id -> Pairs],
                dressed : [Id -> SUBSET Dressed], addr : [Id -> SUBSET Ip],
                main : [Ip -> HostRoutes], tables : [Table -> TableRoutes], rules : Seq(Rule)]
  BY <1>1, KernelFields
<1>8. /\ x.node = Here => x.id \in LocalIds(target) /\ x.ip \in LocalPrefixes(target)
      /\ x.node # Here => x.ip \in RemotePrefixes(target)
  BY <1>3 DEF LocalIds, LocalPrefixes, RemotePrefixes, Local
<1> HIDE DEF do, x
<1>9. None # "wired"
  BY NothingIsThere
<1>10. CASE do = "namespace"
  <2>1. k' = [k EXCEPT !.ns = @ \cup {x.id}] /\ x.node = Here
    BY <1>2, <1>3, <1>10 DEF Effect, HostCalls, After, Dressed
  <2>2. KeepsEndpoints(k, k', target)
    BY <1>7, <1>8, <2>1 DEF KeepsEndpoints, EndpointInPlace, NoStaleNamespaces, NoStaleRoutes
  <2> QED
    BY <1>5, <2>2, UnchangedKeeps
<1>11. CASE do \in {"add", "move", "rename"}
  <2>1. k.pair[x.id] # "wired" /\ x.node = Here
    BY <1>2, <1>3, <1>6, <1>9, <1>11 DEF Refused, HostCalls, After
  <2>2. /\ k'.ns = k.ns /\ k'.main = k.main /\ k'.addr = k.addr
        /\ \A i \in Id : i # x.id => k'.pair[i] = k.pair[i] /\ k'.dressed[i] = k.dressed[i]
    BY <1>2, <1>4, <1>7, <1>11, ZenonT(60) DEF Effect, Dressed
  <2>3. KeepsEndpoints(k, k', target)
    BY <1>4, <2>1, <2>2 DEF KeepsEndpoints, EndpointInPlace, NoStaleNamespaces, NoStaleRoutes
  <2> QED
    BY <1>5, <2>3, UnchangedKeeps
<1>12. CASE do \in Dressed
  <2>1. k' = [k EXCEPT !.dressed[x.id] = @ \cup {do}]
    BY <1>2, <1>12 DEF Effect, Dressed
  <2>2. /\ k'.ns = k.ns /\ k'.main = k.main /\ k'.addr = k.addr /\ k'.pair = k.pair
        /\ \A i \in Id : i # x.id => k'.dressed[i] = k.dressed[i]
        /\ k.dressed[x.id] = Dressed => k'.dressed[x.id] = Dressed
    BY <1>3, <1>4, <1>7, <1>12, <2>1
  <2>3. KeepsEndpoints(k, k', target)
    BY <1>3, <1>4, <2>2 DEF KeepsEndpoints, EndpointInPlace, NoStaleNamespaces, NoStaleRoutes
  <2> QED
    BY <1>5, <2>3, UnchangedKeeps
<1>13. CASE do \in {"route", "remote"}
  <2> DEFINE to == IF do = "route" THEN Veth(x.id) ELSE Via(x.node)
  <2>1. k' = [k EXCEPT !.main[x.ip] = to]
    BY <1>2, <1>13 DEF Effect, Dressed
  <2>2. IF do = "route" THEN x.node = Here ELSE x.node # Here
    BY <1>3, <1>13 DEF HostCalls, After
  <2>3. /\ to # None => to[1] = IF do = "route" THEN "veth" ELSE "via"
        /\ to = IF x.node = Here THEN Veth(x.id) ELSE Via(x.node)
    BY <2>2 DEF Veth, Via
  <2> HIDE DEF to
  <2>4. /\ k'.ns = k.ns /\ k'.dressed = k.dressed /\ k'.addr = k.addr /\ k'.pair = k.pair
        /\ k'.main[x.ip] = to
        /\ \A p \in Ip : p # x.ip => k'.main[p] = k.main[p]
    BY <1>3, <1>4, <1>7, <2>1
  <2>5. ASSUME NEW e \in Range(target.eps), EndpointInPlace(k, e) PROVE EndpointInPlace(k', e)
    BY <1>4, <2>3, <2>4, <2>5 DEF EndpointInPlace
  <2>6. /\ NoStaleRoutes(k, "via", RemotePrefixes(target)) => NoStaleRoutes(k', "via", RemotePrefixes(target))
        /\ NoStaleRoutes(k, "veth", LocalPrefixes(target)) => NoStaleRoutes(k', "veth", LocalPrefixes(target))
    BY <1>8, <2>2, <2>3, <2>4 DEF NoStaleRoutes
  <2>7. KeepsEndpoints(k, k', target)
    BY <2>4, <2>5, <2>6 DEF KeepsEndpoints, NoStaleNamespaces
  <2> QED
    BY <1>5, <2>7, UnchangedKeeps
<1>14. CASE do = "lookup"
  <2>1. k' = k
    BY <1>2, <1>14 DEF Effect, Dressed
  <2> QED
    BY <1>5, <2>1, UnchangedKeeps
<1>15. CASE do \in {"stale", "address"}
  <2>1. /\ do = "stale" => k' = [k EXCEPT !.addr[x.id] = @ \cap {x.ip}]
        /\ do = "address" => k' = [k EXCEPT !.addr[x.id] = @ \cup {x.ip}]
    BY <1>2, <1>15 DEF Effect, Dressed, DropStaleAddresses
  <2>2. /\ k'.ns = k.ns /\ k'.main = k.main /\ k'.dressed = k.dressed /\ k'.pair = k.pair
        /\ \A i \in Id : i # x.id => k'.addr[i] = k.addr[i]
        /\ k.addr[x.id] = {x.ip} => k'.addr[x.id] = {x.ip}
    BY <1>3, <1>4, <1>7, <1>15, <2>1
  <2>3. KeepsEndpoints(k, k', target)
    BY <1>3, <1>4, <2>2 DEF KeepsEndpoints, EndpointInPlace, NoStaleNamespaces, NoStaleRoutes
  <2> QED
    BY <1>5, <2>3, UnchangedKeeps
<1> QED
  BY <1>2, <1>10, <1>11, <1>12, <1>13, <1>14, <1>15 DEF WorkloadCalls, After, Dressed
\* A table that has its route is written with what it has.
LEMMA SyncTableKeeps ==
  ASSUME Basics, BInv, SyncTable
  PROVE  /\ k' \in Kernel /\ KeepsEndpoints(k, k', target) /\ KeepsPolicies(k, k', target)
         /\ todo' = todo \/ (todo' = Tail(todo) /\ RightTable(k', target, Current.e))
<1> DEFINE t == Current.e
           now == k.tables[t]
           want == DesiredRoutes[target][t]
<1>1. k \in Kernel /\ target \in States
  BY StatesOfPlans DEF BInv, TypeOK
<1>2. Current.do = "table" /\ todo # <<>>
  BY DEF SyncTable
<1>3. ~Exhausted(target) /\ t \in DOMAIN DesiredRoutes[target]
  BY <1>2, CurrentCall DEF BInv, Shaped
<1>4. t \in Table /\ want \in TableRoutes /\ None \in TableRoutes
  BY <1>1, <1>3, DesiredRoutesAreTyped DEF TableRoutes
<1>5. \/ now # want /\ k' = [k EXCEPT !.tables[t] = None] /\ todo' = todo
      \/ k' = [k EXCEPT !.tables[t] = want] /\ todo' = Tail(todo)
  BY DEF SyncTable, Advance
<1>6. PICK route \in TableRoutes :
        /\ k' = [k EXCEPT !.tables[t] = route]
        /\ (now # want /\ todo' = todo) \/ (route = want /\ todo' = Tail(todo))
  BY <1>4, <1>5
<1>9. route \in TableRoutes /\ k' = [k EXCEPT !.tables[t] = route]
  BY <1>6
<1>10. t \in Table
  BY <1>4
<1>7. /\ k' \in Kernel
      /\ k'.ns = k.ns /\ k'.pair = k.pair /\ k'.dressed = k.dressed /\ k'.addr = k.addr
      /\ k'.main = k.main /\ k'.rules = k.rules
      /\ k'.tables[t] = route /\ \A x : x # t => k'.tables[x] = k.tables[x]
  <2>1. /\ k \in [ns : SUBSET Id, pair : [Id -> Pairs],
                  dressed : [Id -> SUBSET Dressed], addr : [Id -> SUBSET Ip],
                  main : [Ip -> HostRoutes], tables : [Table -> TableRoutes], rules : Seq(Rule)]
        /\ Ordered(k.rules)
    BY <1>1, KernelFields
  <2> HIDE DEF t
  <2>2. /\ k' \in [ns : SUBSET Id, pair : [Id -> Pairs],
                  dressed : [Id -> SUBSET Dressed], addr : [Id -> SUBSET Ip],
                  main : [Ip -> HostRoutes], tables : [Table -> TableRoutes], rules : Seq(Rule)]
        /\ k'.rules = k.rules
    BY <1>9, <1>10, <2>1, ZenonT(60)
  <2>3. k' \in Kernel
    BY <2>1, <2>2, KernelFields
  <2> QED
    BY <1>9, <1>10, <2>1, <2>3
<1>8. KeepsPolicies(k, k', target)
  BY <1>6, <1>7 DEF KeepsPolicies, RightTable, OnlyDesiredRules, now, want
<1> QED
  BY <1>6, <1>7, <1>8, UnchangedKeeps, ZenonT(60) DEF RightTable, t, want

\* A pair the kernel destroys was not in place any more.
LEMMA ReapKeeps ==
  ASSUME BInv, NEW i \in Id, Reap(i)
  PROVE  k' \in Kernel /\ KeepsEndpoints(k, k', target) /\ KeepsPolicies(k, k', target)
<1>1. k \in Kernel /\ target \in States
  BY StatesOfPlans DEF BInv, TypeOK
<1>2. k.pair[i] = "dying" /\ k' = Gone(k, i)
  BY DEF Reap
<1>3. /\ k' \in Kernel
      /\ k'.ns = k.ns /\ k'.tables = k.tables /\ k'.rules = k.rules
      /\ \A j \in Id : j # i => /\ k'.pair[j] = k.pair[j] /\ k'.dressed[j] = k.dressed[j]
                                /\ k'.addr[j] = k.addr[j]
      /\ \A p \in Ip : k'.main[p] = IF k.main[p] = Veth(i) THEN None ELSE k.main[p]
  BY <1>1, <1>2, GoneFromKernel
<1>4. \A e \in Range(target.eps) : e.id \in Id /\ e.ip \in Ip
  BY <1>1, EndpointsAreNamed DEF Endpoint
<1>5. ASSUME NEW e \in Range(target.eps), EndpointInPlace(k, e) PROVE EndpointInPlace(k', e)
  <2>1. CASE e.node = Here
    <3>1. e.id # i /\ k.main[e.ip] # Veth(i)
      BY <1>2, <1>5, <2>1 DEF EndpointInPlace, Veth
    <3> QED
      BY <1>3, <1>4, <1>5, <2>1, <3>1 DEF EndpointInPlace
  <2>2. CASE e.node # Here
    <3>1. k.main[e.ip] # Veth(i)
      BY <1>5, <2>2 DEF EndpointInPlace, Veth, Via
    <3> QED
      BY <1>3, <1>4, <1>5, <2>2, <3>1 DEF EndpointInPlace
  <2> QED
    BY <2>1, <2>2
<1>6. KeepsEndpoints(k, k', target)
  BY <1>3, <1>5 DEF KeepsEndpoints, NoStaleNamespaces, NoStaleRoutes
<1> QED
  BY <1>3, <1>6, UnchangedKeeps

-----------------------------------------------------------------------------
(* The entries of todo.                                                    *)

LEMMA Joined ==
  ASSUME NEW S, NEW a \in Seq(S), NEW b \in Seq(S)
  PROVE  /\ a \o b \in Seq(S) /\ Len(a \o b) = Len(a) + Len(b)
         /\ \A n \in 1..Len(a) : (a \o b)[n] = a[n]
         /\ \A n \in 1..Len(b) : (a \o b)[Len(a) + n] = b[n]
<1>1. /\ a \o b \in Seq(S) /\ Len(a \o b) = Len(a) + Len(b)
      /\ \A n \in 1..(Len(a) + Len(b)) :
           (a \o b)[n] = IF n <= Len(a) THEN a[n] ELSE b[n - Len(a)]
  BY Concatenated
<1>2. Len(a) \in Nat /\ Len(b) \in Nat
  OBVIOUS
<1>3. ASSUME NEW n \in 1..Len(b) PROVE (a \o b)[Len(a) + n] = b[n]
  <2>1. Len(a) + n \in 1..(Len(a) + Len(b)) /\ ~(Len(a) + n <= Len(a)) /\ (Len(a) + n) - Len(a) = n
    BY <1>2
  <2> QED
    BY <1>1, <2>1
<1> QED
  BY <1>1, <1>2, <1>3

\* Apply begins with all of its calls before it.
LEMMA AppliedCalls ==
  ASSUME NEW p, NEW d \in States, NEW q, q = ApplyCalls(p, d)
  PROVE  /\ q \in Seq(Calls(d)) /\ q # <<>>
         /\ \A n \in DOMAIN q : \/ q[n].do \in AllLoops
                                \/ q[n].e \in Range(d.eps) /\ q[n] = EnsureEndpoint(q[n].e)
         /\ \A n \in DOMAIN q : q[n].do \in {"staleTables", "deleteRules", "addRules"} =>
              \E m \in DOMAIN q : m < n /\ q[m].do = "allocate"
         /\ \A e \in Range(d.eps) : \E n \in DOMAIN q : q[n] = EnsureEndpoint(e)
         /\ \A do \in {"allocate", "deleteRules", "addRules"} : \E n \in DOMAIN q : q[n].do = do
         /\ p.cleanup => \A do \in {"namespaces", "remoteRoutes", "workloadRoutes"} :
                           \E n \in DOMAIN q : q[n].do = do
<1> DEFINE S == Calls(d)
           a == IF p.cleanup THEN <<Loop("namespaces")>> ELSE <<>>
           b == [n \in DOMAIN d.eps |-> EnsureEndpoint(d.eps[n])]
           c == IF p.cleanup THEN <<Loop("remoteRoutes"), Loop("workloadRoutes")>> ELSE <<>>
           l == <<Loop("allocate"), Loop("staleTables"), Loop("deleteRules"), Loop("addRules")>>
<1>1. ApplyCalls(p, d) = ((a \o b) \o c) \o l
  BY DEF ApplyCalls
<1>2. \A do \in AllLoops : Loop(do) \in S /\ Loop(do).do = do
  BY DEF Calls, Loop
<1>3. \A e \in Range(d.eps) : EnsureEndpoint(e) \in S /\ EnsureEndpoint(e).e = e
  <2> SUFFICES ASSUME NEW e \in Range(d.eps) PROVE EnsureEndpoint(e) \in S /\ EnsureEndpoint(e).e = e
    OBVIOUS
  <2> DEFINE do == IF e.node = Here THEN "namespace" ELSE "remote"
  <2>1. EnsureEndpoint(e) = [do |-> do, e |-> e] /\ do \in EndpointCalls(e)
    BY DEF EnsureEndpoint, EndpointCalls, HostCalls, After
  <2> QED
    BY <2>1 DEF Calls
<1>4. /\ a \in Seq(S) /\ Len(a) = (IF p.cleanup THEN 1 ELSE 0)
      /\ p.cleanup => a[1] = Loop("namespaces")
  BY <1>2 DEF AllLoops, Loops
<1>5. /\ c \in Seq(S) /\ Len(c) = (IF p.cleanup THEN 2 ELSE 0)
      /\ p.cleanup => c[1] = Loop("remoteRoutes") /\ c[2] = Loop("workloadRoutes")
  BY <1>2 DEF AllLoops, Loops
<1>6. /\ l \in Seq(S) /\ Len(l) = 4
      /\ l[1] = Loop("allocate") /\ l[2] = Loop("staleTables")
      /\ l[3] = Loop("deleteRules") /\ l[4] = Loop("addRules")
  BY <1>2 DEF AllLoops, Loops
<1>7. d.eps \in Seq(Endpoint) /\ Range(d.eps) = {d.eps[n] : n \in DOMAIN d.eps}
  BY LinuxAssumption DEF Validated, Range
<1>8. b \in Seq(S) /\ Len(b) = Len(d.eps) /\ \A n \in 1..Len(b) : b[n] = EnsureEndpoint(d.eps[n])
  <2>1. DOMAIN d.eps = 1..Len(d.eps) /\ Len(d.eps) \in Nat
    BY <1>7
  <2>2. \A n \in DOMAIN d.eps : EnsureEndpoint(d.eps[n]) \in S
    BY <1>3, <1>7
  <2>3. b \in [1..Len(d.eps) -> S]
    BY <2>1, <2>2
  <2> QED
    BY <2>1, <2>3
<1> HIDE DEF a, b, c, l, S
<1> DEFINE ab == a \o b
           abc == ab \o c
           A == Len(a)
           B == Len(b)
           C == Len(c)
<1>9. a \in Seq(S) /\ b \in Seq(S) /\ c \in Seq(S) /\ l \in Seq(S)
  BY <1>4, <1>5, <1>6, <1>8
<1>10. /\ ab \in Seq(S) /\ Len(ab) = A + B
       /\ \A n \in 1..A : ab[n] = a[n]
       /\ \A n \in 1..B : ab[A + n] = b[n]
  BY <1>9, Joined
<1> HIDE DEF ab
<1>26. ab \in Seq(S)
  BY <1>10
<1>11. /\ abc \in Seq(S) /\ Len(abc) = Len(ab) + C
       /\ \A n \in 1..Len(ab) : abc[n] = ab[n]
       /\ \A n \in 1..C : abc[Len(ab) + n] = c[n]
  BY <1>9, <1>26, Joined
<1> HIDE DEF abc
<1>27. abc \in Seq(S)
  BY <1>11
<1>25. q = abc \o l
  BY <1>1 DEF abc, ab
<1>12. /\ q \in Seq(S) /\ Len(q) = Len(abc) + Len(l) /\ DOMAIN q = 1..Len(q)
       /\ \A n \in 1..Len(abc) : q[n] = abc[n]
       /\ \A n \in 1..Len(l) : q[Len(abc) + n] = l[n]
  <2>1. /\ q \in Seq(S) /\ Len(q) = Len(abc) + Len(l)
        /\ \A n \in 1..Len(abc) : q[n] = abc[n]
        /\ \A n \in 1..Len(l) : q[Len(abc) + n] = l[n]
    BY <1>9, <1>25, <1>27, Joined
  <2> QED
    BY <2>1
<1>13. A \in Nat /\ B \in Nat /\ C \in Nat
  BY <1>9
<1> HIDE DEF A, B, C
<1>24. Len(ab) = A + B /\ Len(abc) = A + B + C /\ DOMAIN q = 1..(A + B + C + 4)
  BY <1>6, <1>10, <1>11, <1>12
<1>14. /\ \A n \in 1..A : n \in DOMAIN q /\ q[n] = a[n]
       /\ \A n \in 1..B : A + n \in DOMAIN q /\ q[A + n] = b[n]
       /\ \A n \in 1..C : A + B + n \in DOMAIN q /\ q[A + B + n] = c[n]
       /\ \A n \in 1..4 : A + B + C + n \in DOMAIN q /\ q[A + B + C + n] = l[n]
  <2>1. ASSUME NEW n \in 1..A PROVE n \in DOMAIN q /\ q[n] = a[n]
    <3>1. n \in 1..(A + B) /\ n \in 1..(A + B + C) /\ n \in 1..(A + B + C + 4)
      BY <1>13
    <3> QED
      BY <1>10, <1>11, <1>12, <1>24, <3>1
  <2>2. ASSUME NEW n \in 1..B PROVE A + n \in DOMAIN q /\ q[A + n] = b[n]
    <3>1. A + n \in 1..(A + B) /\ A + n \in 1..(A + B + C) /\ A + n \in 1..(A + B + C + 4)
      BY <1>13
    <3> QED
      BY <1>10, <1>11, <1>12, <1>24, <3>1
  <2>3. ASSUME NEW n \in 1..C PROVE A + B + n \in DOMAIN q /\ q[A + B + n] = c[n]
    <3>1. A + B + n \in 1..(A + B + C) /\ A + B + n \in 1..(A + B + C + 4)
      BY <1>13
    <3> QED
      BY <1>11, <1>12, <1>24, <3>1
  <2>4. ASSUME NEW n \in 1..4 PROVE A + B + C + n \in DOMAIN q /\ q[A + B + C + n] = l[n]
    <3>1. A + B + C + n \in 1..(A + B + C + 4)
      BY <1>13
    <3> QED
      BY <1>6, <1>12, <1>24, <3>1
  <2> QED
    BY <2>1, <2>2, <2>3, <2>4
<1>15. ASSUME NEW n \in DOMAIN q
       PROVE  \/ n \in 1..A
              \/ \E m \in 1..B : n = A + m
              \/ \E m \in 1..C : n = A + B + m
              \/ \E m \in 1..4 : n = A + B + C + m
  <2>1. \/ n \in 1..A \/ n - A \in 1..B \/ n - (A + B) \in 1..C \/ n - (A + B + C) \in 1..4
    BY <1>13, <1>24
  <2>2. n = A + (n - A) /\ n = A + B + (n - (A + B)) /\ n = A + B + C + (n - (A + B + C))
    BY <1>13, <1>24
  <2> QED
    BY <2>1, <2>2
<1>16. /\ \A n \in 1..A : p.cleanup /\ a[n] = Loop("namespaces")
       /\ \A n \in 1..C : p.cleanup /\ c[n] \in {Loop("remoteRoutes"), Loop("workloadRoutes")}
  BY <1>4, <1>5 DEF A, C
<1>17. \A n \in 1..B : d.eps[n] \in Range(d.eps) /\ b[n] = EnsureEndpoint(d.eps[n]) /\ b[n].e = d.eps[n]
  <2> SUFFICES ASSUME NEW n \in 1..B
               PROVE  d.eps[n] \in Range(d.eps) /\ b[n] = EnsureEndpoint(d.eps[n]) /\ b[n].e = d.eps[n]
    OBVIOUS
  <2>1. n \in DOMAIN d.eps /\ b[n] = EnsureEndpoint(d.eps[n])
    BY <1>7, <1>8 DEF B
  <2>2. d.eps[n] \in Range(d.eps)
    BY <1>7, <2>1
  <2> QED
    BY <1>3, <2>1, <2>2
<1>18. /\ \A do \in {"namespaces", "remoteRoutes", "workloadRoutes", "allocate",
                     "staleTables", "deleteRules", "addRules"} : Loop(do).do = do /\ do \in AllLoops
  BY DEF Loop, AllLoops, Loops
<1>19. ASSUME NEW n \in DOMAIN q
       PROVE  /\ \/ q[n].do \in AllLoops
                 \/ q[n].e \in Range(d.eps) /\ q[n] = EnsureEndpoint(q[n].e)
              /\ q[n].do \in {"staleTables", "deleteRules", "addRules"} =>
                   \E m \in DOMAIN q : m < n /\ q[m].do = "allocate"
  <2>1. CASE n \in 1..A
    BY <1>14, <1>16, <1>18, <2>1
  <2>2. CASE \E m \in 1..B : n = A + m
    <3>1. PICK m \in 1..B : n = A + m
      BY <2>2
    <3>2. q[n] = EnsureEndpoint(d.eps[m]) /\ q[n].e = d.eps[m] /\ d.eps[m] \in Range(d.eps)
      BY <1>14, <1>17, <3>1
    <3>3. q[n].do \in {"namespace", "remote"}
      BY <3>2 DEF EnsureEndpoint
    <3> QED
      BY <3>2, <3>3
  <2>3. CASE \E m \in 1..C : n = A + B + m
    <3>1. PICK m \in 1..C : n = A + B + m
      BY <2>3
    <3>2. q[n] \in {Loop("remoteRoutes"), Loop("workloadRoutes")}
      BY <1>14, <1>16, <3>1
    <3> QED
      BY <1>18, <3>2
  <2>4. CASE \E m \in 1..4 : n = A + B + C + m
    <3>1. PICK m \in 1..4 : n = A + B + C + m
      BY <2>4
    <3>2. q[n] = l[m]
      BY <1>14, <3>1
    <3>3. l[m].do \in AllLoops /\ (m = 1 => l[m].do = "allocate")
      <4>1. m = 1 \/ m = 2 \/ m = 3 \/ m = 4
        OBVIOUS
      <4> QED
        BY <1>6, <1>18, <4>1
    <3>4. A + B + C + 1 \in DOMAIN q /\ q[A + B + C + 1].do = "allocate"
      BY <1>6, <1>14, <1>18
    <3>5. m = 1 \/ A + B + C + 1 < n
      BY <1>13, <3>1
    <3> QED
      BY <3>2, <3>3, <3>4, <3>5
  <2> QED
    BY <1>15, <2>1, <2>2, <2>3, <2>4
<1>20. ASSUME NEW e \in Range(d.eps) PROVE \E n \in DOMAIN q : q[n] = EnsureEndpoint(e)
  <2>1. PICK n \in DOMAIN d.eps : e = d.eps[n]
    BY <1>7
  <2>2. n \in 1..B
    BY <1>7, <1>8 DEF B
  <2> QED
    BY <1>14, <1>17, <2>1, <2>2
<1>21. \A do \in {"allocate", "deleteRules", "addRules"} : \E n \in DOMAIN q : q[n].do = do
  <2>1. /\ A + B + C + 1 \in DOMAIN q /\ q[A + B + C + 1].do = "allocate"
        /\ A + B + C + 3 \in DOMAIN q /\ q[A + B + C + 3].do = "deleteRules"
        /\ A + B + C + 4 \in DOMAIN q /\ q[A + B + C + 4].do = "addRules"
    BY <1>6, <1>14, <1>18
  <2> QED
    BY <2>1
<1>22. ASSUME p.cleanup
       PROVE  \A do \in {"namespaces", "remoteRoutes", "workloadRoutes"} : \E n \in DOMAIN q : q[n].do = do
  <2>1. 1 \in 1..A /\ 1 \in 1..C /\ 2 \in 1..C
    BY <1>4, <1>5, <1>22 DEF A, C
  <2>2. /\ 1 \in DOMAIN q /\ q[1].do = "namespaces"
        /\ A + B + 1 \in DOMAIN q /\ q[A + B + 1].do = "remoteRoutes"
        /\ A + B + 2 \in DOMAIN q /\ q[A + B + 2].do = "workloadRoutes"
    BY <1>4, <1>5, <1>14, <1>18, <1>22, <2>1
  <2> QED
    BY <2>2
<1>23. q # <<>>
  BY <1>12, <1>13, <1>24
<1> QED
  BY <1>12, <1>19, <1>20, <1>21, <1>22, <1>23 DEF S
\* The tables of a state, in whatever order they come.
LEMMA TablesInOrder ==
  ASSUME Basics, NEW d \in States, ~Exhausted(d), NEW order \in Orders(DOMAIN DesiredRoutes[d])
  PROVE  LET q == [n \in DOMAIN order |-> [do |-> "table", e |-> order[n]]]
         IN  /\ q \in Seq(Calls(d))
             /\ \A n \in DOMAIN q : q[n].do = "table" /\ q[n].e \in DOMAIN DesiredRoutes[d]
             /\ \A t \in DOMAIN DesiredRoutes[d] : LeftTable(q, t)
<1> DEFINE T == DOMAIN DesiredRoutes[d]
           q == [n \in DOMAIN order |-> [do |-> "table", e |-> order[n]]]
<1>1. T \subseteq Table
  BY DesiredRoutesAreTyped
<1>2. Cardinality(T) \in Nat
  BY PoliciesHaveTables, OwnTables, ZenonT(60)
<1> HIDE DEF T
<1> DEFINE D == 1..Cardinality(T)
<1>4. order \in [D -> T]
  BY DEF Orders, Bijection, Injection, T
<1>9. \A t \in T : \E n \in D : order[n] = t
  BY DEF Orders, Bijection, Surjection, T
<1>10. \A t \in Table : [do |-> "table", e |-> t] \in Calls(d)
  BY ZenonT(60) DEF Calls
<1>11. DOMAIN q = D /\ \A n \in D : q[n] = [do |-> "table", e |-> order[n]] /\ q[n] \in Calls(d)
  BY <1>1, <1>4, <1>10 DEF T
<1>12. q \in [1..Cardinality(T) -> Calls(d)]
  BY <1>11
<1> HIDE DEF q
<1>13. q \in Seq(Calls(d))
  BY <1>2, <1>12
<1>14. \A n \in DOMAIN q : q[n].do = "table" /\ q[n].e \in T
  BY <1>4, <1>11
<1>15. \A t \in T : LeftTable(q, t)
  BY <1>9, <1>11 DEF LeftTable
<1> QED
  BY <1>13, <1>14, <1>15 DEF q, T

LEMMA PoppedIsShaped ==
  ASSUME NEW q, NEW d, Shaped(q, d), q # <<>>, q[1].do = "allocate" => ~Exhausted(d)
  PROVE  /\ Shaped(Tail(q), d)
         /\ Tail(q) # <<>> => \/ Head(Tail(q)).do \in AllLoops \cup {"table"}
                              \/ Head(Tail(q)) = EnsureEndpoint(Head(Tail(q)).e)
<1> DEFINE u == Tail(q)
<1>1. q \in Seq(Calls(d))
  BY DEF Shaped
<1>2. /\ 1 \in DOMAIN q /\ u \in Seq(Calls(d))
      /\ \A n \in DOMAIN u : n + 1 \in DOMAIN q /\ u[n] = q[n + 1] /\ n \in Nat /\ n > 0
      /\ \A n \in DOMAIN q : n # 1 => n - 1 \in DOMAIN u /\ u[n - 1] = q[n]
      /\ \A n \in DOMAIN q : n \in Nat
  BY <1>1, Popped
<1> HIDE DEF u
<1>3. ASSUME NEW n \in DOMAIN u
      PROVE  u[n].do \in AllLoops \cup {"table"} \/ u[n] = EnsureEndpoint(u[n].e)
  <2>1. n + 1 \in DOMAIN q /\ u[n] = q[n + 1] /\ n + 1 > 1
    BY <1>2
  <2>2. q[n + 1].do \in AllLoops \cup {"table"} \/ q[n + 1] = EnsureEndpoint(q[n + 1].e)
    BY <2>1, ZenonT(60) DEF Shaped
  <2> QED
    BY <2>1, <2>2, ZenonT(60)
<1>4. ASSUME NEW n \in DOMAIN u, u[n].do \in {"staleTables", "deleteRules", "addRules"}
      PROVE  ~Exhausted(d) \/ \E m \in DOMAIN u : m < n /\ u[m].do = "allocate"
  <2>1. n + 1 \in DOMAIN q /\ q[n + 1].do \in {"staleTables", "deleteRules", "addRules"} /\ n \in Nat
    BY <1>2, <1>4
  <2>2. CASE \E m \in DOMAIN q : m < n + 1 /\ q[m].do = "allocate"
    <3>1. PICK m \in DOMAIN q : m < n + 1 /\ q[m].do = "allocate"
      BY <2>2
    <3>2. m \in Nat
      BY <1>2, <3>1
    <3>3. CASE m = 1
      BY <3>1, <3>3
    <3>4. CASE m # 1
      <4>1. m - 1 \in DOMAIN u /\ u[m - 1].do = "allocate" /\ m - 1 < n
        BY <1>2, <2>1, <3>1, <3>2, <3>4
      <4> QED
        BY <4>1
    <3> QED
      BY <3>3, <3>4
  <2> QED
    BY <2>1, <2>2 DEF Shaped
<1>5. \A n \in DOMAIN u : u[n].do = "table" => ~Exhausted(d) /\ u[n].e \in DOMAIN DesiredRoutes[d]
  BY <1>2 DEF Shaped
<1>6. Shaped(u, d)
  BY <1>2, <1>3, <1>4, <1>5 DEF Shaped
<1>7. u # <<>> => 1 \in DOMAIN u /\ Head(u) = u[1]
  BY <1>2, Popped
<1> QED
  BY <1>3, <1>6, <1>7 DEF u

LEMMA AdvancedIsShaped ==
  ASSUME NEW q, NEW d, Shaped(q, d), q # <<>>, q[1].do \in HostCalls, NEW do \in HostCalls
  PROVE  LET u == [q EXCEPT ![1].do = do]
         IN  /\ Shaped(u, d) /\ u # <<>> /\ DOMAIN u = DOMAIN q
             /\ Head(u) = [do |-> do, e |-> q[1].e] /\ u[1] = [do |-> do, e |-> q[1].e]
             /\ \A n \in DOMAIN q : n # 1 => u[n] = q[n]
<1> DEFINE c == [do |-> do, e |-> q[1].e]
           u == [q EXCEPT ![1] = c]
<1>1. q \in Seq(Calls(d))
  BY DEF Shaped
<1>2. 1 \in DOMAIN q /\ q[1] \in Calls(d)
  BY <1>1, Popped
<1>3. q[1] = [do |-> q[1].do, e |-> q[1].e] /\ q[1].e \in Range(d.eps) /\ q[1].e.node = Here
  BY <1>2, CallsAre
<1>4. [q EXCEPT ![1].do = do] = u
  <2>1. [q[1] EXCEPT !.do = do] = c
    BY <1>3
  <2>2. [q EXCEPT ![1].do = do] = [q EXCEPT ![1] = [q[1] EXCEPT !.do = do]]
    OBVIOUS
  <2> QED
    BY <2>1, <2>2, ZenonT(60)
<1>5. c \in Calls(d)
  <2>1. do \in EndpointCalls(q[1].e)
    BY <1>3 DEF EndpointCalls
  <2> QED
    BY <1>3, <2>1 DEF Calls
<1> HIDE DEF c
<1>6. /\ u \in Seq(Calls(d)) /\ DOMAIN u = DOMAIN q /\ u # <<>>
      /\ u[1] = c /\ Head(u) = c
      /\ \A n \in DOMAIN q : n # 1 => u[n] = q[n]
  BY <1>1, <1>5, Replaced
<1> HIDE DEF u
<1>7. /\ c.do = do /\ do \notin {"table", "staleTables", "deleteRules", "addRules"}
      /\ q[1].do # "allocate"
  BY DEF c, HostCalls, After
<1>8. \A n \in DOMAIN q : n \in Nat /\ (n > 1 => n # 1)
  BY <1>1
<1>9. \A n \in DOMAIN u : n > 1 =>
        u[n].do \in AllLoops \cup {"table"} \/ u[n] = EnsureEndpoint(u[n].e)
  BY <1>6, <1>8 DEF Shaped
<1>10. \A n \in DOMAIN u : u[n].do \in {"staleTables", "deleteRules", "addRules"} =>
         ~Exhausted(d) \/ \E m \in DOMAIN u : m < n /\ u[m].do = "allocate"
  BY <1>6, <1>7 DEF Shaped
<1>11. \A n \in DOMAIN u : u[n].do = "table" => ~Exhausted(d) /\ u[n].e \in DOMAIN DesiredRoutes[d]
  BY <1>6, <1>7 DEF Shaped
<1>12. Shaped(u, d)
  BY <1>6, <1>9, <1>10, <1>11 DEF Shaped
<1> QED
  BY <1>4, <1>6, <1>12, ZenonT(60) DEF c
Allocation(order, q) == [n \in DOMAIN order |-> [do |-> "table", e |-> order[n]]] \o Tail(q)

LEMMA AllocatedIsShaped ==
  ASSUME Basics, NEW d \in States, ~Exhausted(d), NEW q, Shaped(q, d), q # <<>>, q[1].do = "allocate",
         NEW order \in Orders(DOMAIN DesiredRoutes[d]), NEW u, u = Allocation(order, q)
  PROVE  /\ Shaped(u, d)
         /\ \A n \in DOMAIN u : u[n].do \in AllLoops \cup {"table"} \/ u[n] = EnsureEndpoint(u[n].e)
         /\ \A t \in DOMAIN DesiredRoutes[d] : LeftTable(u, t)
         /\ \A n \in DOMAIN q : n # 1 => \E m \in DOMAIN u : u[m] = q[n]
<1> DEFINE tables == [n \in DOMAIN order |-> [do |-> "table", e |-> order[n]]]
           rest == Tail(q)
           Fresh(c) == c.do \in AllLoops \cup {"table"} \/ c = EnsureEndpoint(c.e)
<1>1. /\ tables \in Seq(Calls(d))
      /\ \A n \in DOMAIN tables : tables[n].do = "table" /\ tables[n].e \in DOMAIN DesiredRoutes[d]
      /\ \A t \in DOMAIN DesiredRoutes[d] : LeftTable(tables, t)
  BY TablesInOrder
<1>0. u = tables \o rest
  BY DEF Allocation
<1> HIDE DEF tables
<1>2. q \in Seq(Calls(d))
  BY DEF Shaped
<1>3. /\ rest \in Seq(Calls(d))
      /\ \A n \in DOMAIN rest : n + 1 \in DOMAIN q /\ rest[n] = q[n + 1] /\ n \in Nat /\ n > 0
      /\ \A n \in DOMAIN q : n # 1 => n - 1 \in DOMAIN rest /\ rest[n - 1] = q[n]
  BY <1>2, Popped
<1>4. ASSUME NEW n \in DOMAIN rest PROVE Fresh(rest[n])
  <2>1. n + 1 \in DOMAIN q /\ rest[n] = q[n + 1] /\ n + 1 > 1
    BY <1>3
  <2>2. Fresh(q[n + 1])
    BY <2>1, ZenonT(60) DEF Shaped
  <2> QED
    BY <2>1, <2>2, ZenonT(60)
<1>5. \A n \in DOMAIN rest : rest[n].do = "table" => rest[n].e \in DOMAIN DesiredRoutes[d]
  BY <1>3 DEF Shaped
<1> HIDE DEF rest
<1>6. /\ u \in Seq(Calls(d)) /\ Len(u) = Len(tables) + Len(rest)
      /\ \A n \in 1..Len(tables) : u[n] = tables[n]
      /\ \A n \in 1..Len(rest) : u[Len(tables) + n] = rest[n]
  BY <1>0, <1>1, <1>3, Joined
<1>7. /\ Len(tables) \in Nat /\ Len(rest) \in Nat
      /\ DOMAIN tables = 1..Len(tables) /\ DOMAIN rest = 1..Len(rest)
      /\ DOMAIN u = 1..(Len(tables) + Len(rest))
  BY <1>1, <1>3, <1>6
<1>8. ASSUME NEW n \in DOMAIN u
      PROVE  \/ n \in DOMAIN tables /\ u[n] = tables[n]
             \/ n - Len(tables) \in DOMAIN rest /\ u[n] = rest[n - Len(tables)]
  <2>1. n \in 1..Len(tables) \/ n - Len(tables) \in 1..Len(rest)
    BY <1>7
  <2>2. n = Len(tables) + (n - Len(tables))
    BY <1>7
  <2>3. CASE n \in 1..Len(tables)
    BY <1>6, <1>7, <2>3
  <2>4. CASE n - Len(tables) \in 1..Len(rest)
    <3>1. u[Len(tables) + (n - Len(tables))] = rest[n - Len(tables)]
      BY <1>6, <2>4
    <3> QED
      BY <1>7, <2>2, <2>4, <3>1
  <2> QED
    BY <2>1, <2>3, <2>4
<1>9. ASSUME NEW n \in DOMAIN u PROVE Fresh(u[n])
  <2>1. CASE n \in DOMAIN tables /\ u[n] = tables[n]
    BY <1>1, <2>1
  <2>2. CASE n - Len(tables) \in DOMAIN rest /\ u[n] = rest[n - Len(tables)]
    BY <1>4, <2>2
  <2> QED
    BY <1>8, <2>1, <2>2
<1>10. ASSUME NEW n \in DOMAIN u, u[n].do = "table" PROVE u[n].e \in DOMAIN DesiredRoutes[d]
  <2>1. CASE n \in DOMAIN tables /\ u[n] = tables[n]
    BY <1>1, <2>1
  <2>2. CASE n - Len(tables) \in DOMAIN rest /\ u[n] = rest[n - Len(tables)]
    BY <1>5, <1>10, <2>2
  <2> QED
    BY <1>8, <2>1, <2>2
<1>11. Shaped(u, d)
  BY <1>6, <1>9, <1>10 DEF Shaped
<1>12. ASSUME NEW t \in DOMAIN DesiredRoutes[d] PROVE LeftTable(u, t)
  <2>1. PICK n \in DOMAIN tables : tables[n].do = "table" /\ tables[n].e = t
    BY <1>1 DEF LeftTable
  <2>2. n \in DOMAIN u /\ u[n] = tables[n]
    BY <1>6, <1>7
  <2> QED
    BY <2>1, <2>2 DEF LeftTable
<1>13. ASSUME NEW n \in DOMAIN q, n # 1 PROVE \E m \in DOMAIN u : u[m] = q[n]
  <2>1. n - 1 \in DOMAIN rest /\ rest[n - 1] = q[n]
    BY <1>3, <1>13
  <2>2. Len(tables) + (n - 1) \in DOMAIN u /\ u[Len(tables) + (n - 1)] = rest[n - 1]
    BY <1>6, <1>7, <2>1
  <2> QED
    BY <2>1, <2>2
<1> QED
  BY <1>9, <1>11, <1>12, <1>13

-----------------------------------------------------------------------------
(* Types, the shape of todo and the making of pairs.                       *)

LEMMA LossesOfKernel ==
  ASSUME k \in Kernel, NEW u \in Losses
  PROVE  /\ u \in Kernel
         /\ \A j \in Id : u.pair[j] \in {k.pair[j], None}
         /\ Range(u.rules) \subseteq Range(k.rules)
<1> DEFINE A == {[k EXCEPT !.main[p] = None] : p \in Ip}
           B == {[k EXCEPT !.rules = Without(@, n)] : n \in {m \in DOMAIN k.rules : k.rules[m].own}}
           C == {[k EXCEPT !.tables[t] = None] : t \in Table}
           D == {[k EXCEPT !.addr[i] = {}] : i \in Id}
           E == {Gone(k, i) : i \in Id}
<1>1. Losses = A \cup B \cup C \cup D \cup E
  BY DEF Losses
<1>2. /\ k \in [ns : SUBSET Id, pair : [Id -> Pairs],
                dressed : [Id -> SUBSET Dressed], addr : [Id -> SUBSET Ip],
                main : [Ip -> HostRoutes], tables : [Table -> TableRoutes], rules : Seq(Rule)]
      /\ Ordered(k.rules)
  BY KernelFields
<1>3. CASE u \in A
  <2>1. PICK p \in Ip : u = [k EXCEPT !.main[p] = None]
    BY <1>3, ZenonT(60)
  <2>2. u \in Kernel /\ u.pair = k.pair /\ u.rules = k.rules
    BY <2>1, RouteRemoved
  <2> QED
    BY <2>2
<1>4. CASE u \in B
  <2>1. PICK n \in DOMAIN k.rules : u = [k EXCEPT !.rules = Without(k.rules, n)]
    BY <1>4, ZenonT(60)
  <2> DEFINE rules == Without(k.rules, n)
  <2>2. /\ rules \in Seq(Rule) /\ Ordered(rules) /\ Range(rules) \subseteq Range(k.rules)
    BY <1>2, RuleRemoved
  <2>3. u = [k EXCEPT !.rules = rules]
    BY <2>1
  <2> HIDE DEF rules
  <2>4. u \in Kernel /\ u.pair = k.pair /\ u.rules = rules
    BY <2>2, <2>3, RulesReplaced
  <2> QED
    BY <2>2, <2>4
<1>5. CASE u \in C
  <2>1. PICK t \in Table : u = [k EXCEPT !.tables[t] = None]
    BY <1>5, ZenonT(60)
  <2>2. None \in TableRoutes
    BY DEF TableRoutes
  <2>3. u \in Kernel /\ u.pair = k.pair /\ u.rules = k.rules
    BY <2>1, <2>2, TableReplaced
  <2> QED
    BY <2>3
<1>6. CASE u \in D
  <2>1. PICK i \in Id : u = [k EXCEPT !.addr[i] = {}]
    BY <1>6, ZenonT(60)
  <2>2. /\ u \in [ns : SUBSET Id, pair : [Id -> Pairs],
                  dressed : [Id -> SUBSET Dressed], addr : [Id -> SUBSET Ip],
                  main : [Ip -> HostRoutes], tables : [Table -> TableRoutes], rules : Seq(Rule)]
        /\ u.pair = k.pair /\ u.rules = k.rules
    BY <1>2, <2>1, ZenonT(60)
  <2>3. u \in Kernel
    BY <1>2, <2>2, KernelFields
  <2> QED
    BY <2>2, <2>3
<1>7. CASE u \in E
  <2>1. PICK i \in Id : u = Gone(k, i)
    BY <1>7, ZenonT(60)
  <2>2. /\ u \in Kernel /\ u.rules = k.rules /\ u.pair[i] = None
        /\ \A j \in Id : j # i => u.pair[j] = k.pair[j]
    BY <2>1, GoneFromKernel
  <2> QED
    BY <2>2
<1> HIDE DEF A, B, C, D, E
<1> QED
  BY <1>1, <1>3, <1>4, <1>5, <1>6, <1>7

LEMMA EmptyIsKernel ==
  Empty \in Kernel /\ Empty.rules = <<>>
<1>1. /\ Empty \in [ns : SUBSET Id, pair : [Id -> Pairs],
                    dressed : [Id -> SUBSET Dressed], addr : [Id -> SUBSET Ip],
                    main : [Ip -> HostRoutes], tables : [Table -> TableRoutes], rules : Seq(Rule)]
      /\ Empty.rules = <<>>
  BY DEF Empty, Pairs, HostRoutes, TableRoutes
<1>2. Ordered(Empty.rules)
  BY <1>1 DEF Ordered
<1> QED
  BY <1>1, <1>2, KernelFields

LEMMA NothingIsShaped ==
  ASSUME NEW d
  PROVE  Shaped(<<>>, d)
BY DEF Shaped

LEMMA FreshCalls ==
  ASSUME NEW c, c.do \in AllLoops \cup {"table"} \/ c = EnsureEndpoint(c.e)
  PROVE  c.do \notin {"move", "rename"} /\ (c.do \in HostCalls => c.do = "namespace")
BY DEF AllLoops, Loops, EnsureEndpoint, HostCalls, After

LEMMA BInit ==
  ASSUME Init
  PROVE  BInv
<1>1. plan \in Plans /\ k = plan.start /\ todo = <<>>
  BY DEF Init
<1>2. k \in Kernel
  BY <1>1, LinuxAssumption
<1>3. TypeOK
  BY <1>2, ZenonT(60) DEF TypeOK, Init
<1> QED
  BY <1>1, <1>3, NothingIsShaped DEF BInv, Making
LEMMA BegunIsShaped ==
  ASSUME NEW p, NEW d \in States, NEW q, q = ApplyCalls(p, d)
  PROVE  /\ Shaped(q, d) /\ q # <<>>
         /\ q[1] = Head(q)
         /\ q[1].do \notin {"move", "rename"} /\ (q[1].do \in HostCalls => q[1].do = "namespace")
<1>1. /\ q \in Seq(Calls(d)) /\ q # <<>>
      /\ \A n \in DOMAIN q : \/ q[n].do \in AllLoops
                             \/ q[n].e \in Range(d.eps) /\ q[n] = EnsureEndpoint(q[n].e)
      /\ \A n \in DOMAIN q : q[n].do \in {"staleTables", "deleteRules", "addRules"} =>
           \E m \in DOMAIN q : m < n /\ q[m].do = "allocate"
  BY AppliedCalls
<1>2. \A n \in DOMAIN q : q[n].do # "table"
  BY <1>1 DEF AllLoops, Loops, EnsureEndpoint
<1>3. Shaped(q, d)
  BY <1>1, <1>2 DEF Shaped
<1>4. 1 \in DOMAIN q /\ q[1] = Head(q)
  BY <1>1, Popped
<1> QED
  BY <1>1, <1>3, <1>4, FreshCalls

\* One call further: all but the last call for a local endpoint.
LEMMA Advancing ==
  ASSUME BInv, todo # <<>>, Current.do \in HostCalls, NEW do \in HostCalls,
         todo' = [todo EXCEPT ![1].do = do], target' = target
  PROVE  /\ Shaped(todo', target') /\ todo' # <<>>
         /\ Current'.do = do /\ Current'.e = Current.e
         /\ DOMAIN todo' = DOMAIN todo /\ todo'[1] = [do |-> do, e |-> Current.e]
         /\ \A n \in DOMAIN todo : n # 1 => todo'[n] = todo[n]
<1>1. Shaped(todo, target) /\ Current = todo[1]
  BY CurrentCall DEF BInv
<1> DEFINE u == [todo EXCEPT ![1].do = do]
<1>2. /\ Shaped(u, target) /\ u # <<>> /\ DOMAIN u = DOMAIN todo
      /\ Head(u) = [do |-> do, e |-> todo[1].e] /\ u[1] = [do |-> do, e |-> todo[1].e]
      /\ \A n \in DOMAIN todo : n # 1 => u[n] = todo[n]
  BY <1>1, AdvancedIsShaped, ZenonT(60)
<1> HIDE DEF u
<1>3. todo' = u
  BY DEF u
<1>4. Current' = Head(u)
  BY <1>3 DEF Current
<1>5. Shaped(todo', target') /\ todo' # <<>>
  BY <1>2, <1>3, ZenonT(60)
<1>6. Current'.do = do /\ Current'.e = Current.e
  BY <1>1, <1>2, <1>4
<1>7. /\ DOMAIN todo' = DOMAIN todo /\ todo'[1] = [do |-> do, e |-> Current.e]
      /\ \A n \in DOMAIN todo : n # 1 => todo'[n] = todo[n]
  BY <1>1, <1>2, <1>3, ZenonT(60)
<1> QED
  BY <1>5, <1>6, <1>7

\* On to the next entry.
LEMMA Popping ==
  ASSUME BInv, todo # <<>>, Current.do # "allocate", todo' = Tail(todo), target' = target
  PROVE  /\ Shaped(todo', target')
         /\ todo' # <<>> => /\ Current'.do \notin {"move", "rename"}
                            /\ Current'.do \in HostCalls => Current'.do = "namespace"
<1>1. Shaped(todo, target) /\ Current = todo[1]
  BY CurrentCall DEF BInv
<1>2. /\ Shaped(Tail(todo), target)
      /\ Tail(todo) # <<>> => \/ Head(Tail(todo)).do \in AllLoops \cup {"table"}
                              \/ Head(Tail(todo)) = EnsureEndpoint(Head(Tail(todo)).e)
  BY <1>1, PoppedIsShaped, ZenonT(60)
<1> QED
  BY <1>2, FreshCalls DEF Current

LEMMA CallsAfter ==
  /\ DOMAIN After \subseteq HostCalls
  /\ \A do \in DOMAIN After : After[do] \in HostCalls
  /\ \A do \in DOMAIN After : (After[do] = "move" => do = "add") /\ (After[do] = "rename" => do = "move")
BY DEF After, HostCalls

LEMMA WorkloadCallAdvances ==
  ASSUME BInv, WorkloadCall
  PROVE  BInv'
<1> DEFINE do == Current.do
           e == Current.e
<1>1. k \in Kernel /\ target \in States
  BY StatesOfPlans DEF BInv, TypeOK
<1>2. /\ do \in WorkloadCalls /\ k' = Effect(k, do, e) /\ todo # <<>> /\ target' = target
      /\ UNCHANGED <<plan, desired, changes, drifts, faults, whole>>
      /\ todo' = IF do \in DOMAIN After THEN [todo EXCEPT ![1].do = After[@]] ELSE Tail(todo)
      /\ settled' = (settled \/ (todo' = <<>> /\ whole))
  BY DEF WorkloadCall, Advance
<1>3. e \in Range(target.eps)
  BY <1>2, CurrentCall
<1>4. e \in Endpoint /\ e.id \in Id
  BY <1>1, <1>3, EndpointsAreNamed DEF Endpoint
<1>5. k' \in Kernel
  BY <1>1, <1>2, <1>4, EffectOnKernel
<1>6. settled' \in BOOLEAN
  BY <1>2
<1>7. TypeOK'
  BY <1>2, <1>5, <1>6 DEF BInv, TypeOK
<1>8. CASE do \in DOMAIN After
  <2>1. todo' = [todo EXCEPT ![1].do = After[do]]
    <3>1. todo[1].do = do
      BY <1>2, CurrentCall
    <3> QED
      BY <1>2, <1>8, <3>1
  <2>2. do \in HostCalls /\ After[do] \in HostCalls
    BY <1>8, CallsAfter
  <2>3. Shaped(todo', target') /\ Current'.do = After[do] /\ Current'.e = e
    BY <1>2, <2>1, <2>2, Advancing, ZenonT(60)
  <2>4. k.pair \in [Id -> Pairs] /\ k \in [ns : SUBSET Id, pair : [Id -> Pairs],
                dressed : [Id -> SUBSET Dressed], addr : [Id -> SUBSET Ip],
                main : [Ip -> HostRoutes], tables : [Table -> TableRoutes], rules : Seq(Rule)]
    BY <1>1, KernelFields
  <2>5. After[do] = "move" => k'.pair[e.id] = "made"
    <3> SUFFICES ASSUME do = "add" PROVE k'.pair[e.id] = "made"
      BY <1>8, CallsAfter
    <3>1. k' = [k EXCEPT !.pair[e.id] = "made", !.dressed[e.id] = {}]
      BY <1>2 DEF Effect, Dressed
    <3> QED
      BY <1>4, <2>4, <3>1
  <2>6. After[do] = "rename" => k'.pair[e.id] = "moved"
    <3> SUFFICES ASSUME do = "move" PROVE k'.pair[e.id] = "moved"
      BY <1>8, CallsAfter
    <3>1. k' = [k EXCEPT !.pair[e.id] = "moved"]
      BY <1>2 DEF Effect, Dressed
    <3> QED
      BY <1>4, <2>4, <3>1
  <2>7. Making'
    BY <2>3, <2>5, <2>6 DEF Making
  <2> QED
    BY <1>7, <2>3, <2>7 DEF BInv
<1>9. CASE do \notin DOMAIN After
  <2>1. todo' = Tail(todo) /\ do # "allocate"
    BY <1>2, <1>9 DEF WorkloadCalls
  <2>2. Shaped(todo', target') /\ (todo' # <<>> => Current'.do \notin {"move", "rename"})
    BY <1>2, <2>1, Popping
  <2>3. Making'
    BY <2>2 DEF Making
  <2> QED
    BY <1>7, <2>2, <2>3 DEF BInv
<1> QED
  BY <1>8, <1>9
\* The type invariant, with the shape of the calls that are left, is inductive.
LEMMA BNext ==
  ASSUME Basics, BInv, [Next]_vars
  PROVE  BInv'
<1> USE DEF BInv
<1>0. /\ k \in Kernel /\ target \in States /\ desired \in States /\ plan \in Plans
      /\ desired \in plan.states /\ target \in plan.states
      /\ changes \in Nat /\ drifts \in Nat /\ faults \in Nat
      /\ whole \in BOOLEAN /\ settled \in BOOLEAN
  BY StatesOfPlans DEF TypeOK
<1>1. ASSUME todo' = <<>>, TypeOK' PROVE BInv'
  BY <1>1, NothingIsShaped DEF Making
<1>2. CASE Begin
  <2>1. todo' = ApplyCalls(plan, desired) /\ target' = desired /\ k' = k
    BY <1>2 DEF Begin
  <2>2. TypeOK'
    BY <1>2 DEF Begin, TypeOK
  <2>3. /\ Shaped(todo', target') /\ todo' # <<>> /\ todo'[1] = Head(todo')
        /\ todo'[1].do \notin {"move", "rename"}
    BY <1>0, <2>1, BegunIsShaped
  <2>4. Making'
    BY <2>3 DEF Making, Current
  <2> QED
    BY <2>2, <2>3, <2>4
<1>3. CASE WorkloadCall
  BY <1>3, WorkloadCallAdvances
<1>4. CASE FindPair
  <2> DEFINE do == IF NeedsPair(Current.e.id) THEN "add" ELSE "gateway"
  <2>1. /\ todo # <<>> /\ Current.do = "veth" /\ k' = k /\ target' = target
        /\ todo' = [todo EXCEPT ![1].do = do]
        /\ UNCHANGED <<plan, desired, changes, drifts, faults, whole>>
        /\ settled' = (settled \/ (todo' = <<>> /\ whole))
    BY <1>4 DEF FindPair, Advance
  <2>2. do \in HostCalls /\ "veth" \in HostCalls /\ do \notin {"move", "rename"}
    BY DEF HostCalls, After
  <2> HIDE DEF do
  <2>3. Shaped(todo', target') /\ Current'.do = do
    BY <2>1, <2>2, Advancing, ZenonT(60)
  <2>4. TypeOK'
    BY <1>0, <2>1 DEF TypeOK
  <2> QED
    BY <2>2, <2>3, <2>4 DEF Making
<1>5. CASE CallRefused
  BY <1>1, <1>5 DEF CallRefused, TypeOK
<1>6. CASE Iterate
  <2>1. k' \in Kernel
    BY <1>6, IterateKeeps
  <2>2. /\ todo' = todo /\ target' = target /\ todo # <<>> /\ Current.do \in Loops
        /\ UNCHANGED <<plan, desired, changes, drifts, faults, whole>>
        /\ settled' = (settled \/ (todo' = <<>> /\ whole))
    BY <1>6 DEF Iterate, Advance
  <2>3. TypeOK'
    BY <1>0, <2>1, <2>2 DEF TypeOK
  <2>4. Current' = Current /\ Current.do \notin {"move", "rename"}
    BY <2>2 DEF Current, Loops
  <2> QED
    BY <2>2, <2>3, <2>4 DEF Making
<1>7. CASE EndLoop
  <2>1. /\ todo' = Tail(todo) /\ target' = target /\ todo # <<>> /\ Current.do \in Loops /\ k' = k
        /\ UNCHANGED <<plan, desired, changes, drifts, faults, whole>>
        /\ settled' = (settled \/ (todo' = <<>> /\ whole))
    BY <1>7 DEF EndLoop, Advance
  <2>2. Current.do # "allocate"
    BY <2>1 DEF Loops
  <2>3. Shaped(todo', target') /\ (todo' # <<>> => Current'.do \notin {"move", "rename"})
    BY <2>1, <2>2, Popping
  <2>4. TypeOK'
    BY <1>0, <2>1 DEF TypeOK
  <2> QED
    BY <2>3, <2>4 DEF Making
<1>8. CASE Allocate
  <2>1. /\ todo # <<>> /\ Current.do = "allocate" /\ ~Exhausted(target) /\ k' = k
        /\ UNCHANGED <<plan, desired, target, changes, drifts, faults, whole>>
        /\ settled' = (settled \/ (todo' = <<>> /\ whole))
    BY <1>8 DEF Allocate, Advance
  <2>2. PICK order \in Orders(DOMAIN DesiredRoutes[target]) :
          todo' = Allocation(order, todo)
    BY <1>8, ZenonT(60) DEF Allocate, Advance, Allocation
  <2>3. todo[1].do = "allocate"
    BY <2>1, CurrentCall
  <2>4. /\ Shaped(todo', target)
        /\ \A n \in DOMAIN todo' :
             todo'[n].do \in AllLoops \cup {"table"} \/ todo'[n] = EnsureEndpoint(todo'[n].e)
    BY <1>0, <2>1, <2>2, <2>3, AllocatedIsShaped
  <2>5. todo' \in Seq(Calls(target))
    BY <2>4 DEF Shaped
  <2>6. todo' # <<>> => 1 \in DOMAIN todo' /\ Head(todo') = todo'[1]
    BY <2>5, Popped
  <2>7. todo' # <<>> => Current'.do \notin {"move", "rename"}
    BY <2>4, <2>6, FreshCalls DEF Current
  <2>8. TypeOK'
    BY <1>0, <2>1 DEF TypeOK
  <2> QED
    BY <2>1, <2>4, <2>7, <2>8 DEF Making
<1>9. CASE AllocateRefused
  BY <1>1, <1>9 DEF AllocateRefused, TypeOK
<1>10. CASE SyncTable
  <2>1. /\ k' \in Kernel /\ (todo' = todo \/ todo' = Tail(todo))
    BY <1>10, SyncTableKeeps
  <2>2. /\ todo # <<>> /\ Current.do = "table" /\ target' = target
        /\ UNCHANGED <<plan, desired, changes, drifts, faults, whole>>
        /\ settled' = (settled \/ (todo' = <<>> /\ whole))
    BY <1>10 DEF SyncTable, Advance
  <2>3. TypeOK'
    BY <1>0, <2>1, <2>2 DEF TypeOK
  <2>4. CASE todo' = todo
    <3>1. Current' = Current
      BY <2>4 DEF Current
    <3> QED
      BY <2>2, <2>3, <2>4, <3>1 DEF Making
  <2>5. CASE todo' = Tail(todo)
    <3>1. Shaped(todo', target') /\ (todo' # <<>> => Current'.do \notin {"move", "rename"})
      BY <2>2, <2>5, Popping
    <3> QED
      BY <2>3, <3>1 DEF Making
  <2> QED
    BY <2>1, <2>4, <2>5
<1>11. ASSUME k' \in Kernel, \A j \in Id : k'.pair[j] \in {k.pair[j], None},
              todo' = todo, target' = target, TypeOK'
       PROVE  BInv'
  <2>1. Current' = Current
    BY <1>11 DEF Current
  <2>2. ASSUME todo # <<>>, Current.do \in {"move", "rename"}
        PROVE  k'.pair[Current.e.id] \in {k.pair[Current.e.id], None}
    <3>1. Current.do \in HostCalls
      BY <2>2 DEF HostCalls, After
    <3>2. Current.e \in Range(target.eps)
      BY <2>2, <3>1, CurrentCall
    <3>3. Current.e.id \in Id
      BY <1>0, <3>2, EndpointsAreNamed DEF Endpoint
    <3> QED
      BY <1>11, <3>3
  <2>3. Making'
    BY <1>11, <2>1, <2>2 DEF Making
  <2> QED
    BY <1>11, <2>3
<1>12. ASSUME NEW i \in Id, Reap(i) PROVE BInv'
  <2>1. k' = Gone(k, i) /\ todo' = todo /\ target' = target
    BY <1>12 DEF Reap
  <2>2. /\ k' \in Kernel /\ k'.pair[i] = None /\ \A j \in Id : j # i => k'.pair[j] = k.pair[j]
    BY <1>0, <2>1, GoneFromKernel
  <2>3. TypeOK'
    BY <1>0, <1>12, <2>2 DEF Reap, TypeOK
  <2> QED
    BY <1>11, <2>1, <2>2, <2>3
<1>13. CASE Fault
  BY <1>1, <1>13 DEF Fault, TypeOK
<1>14. CASE ChangeDesired
  <2>1. whole' \in BOOLEAN /\ settled' \in BOOLEAN
    BY <1>14, ZenonT(60) DEF ChangeDesired
  <2>2. /\ plan' = plan /\ desired' \in plan.states /\ target' = target /\ k' = k /\ todo' = todo
        /\ changes' = changes + 1 /\ drifts' = drifts /\ faults' = faults
    BY <1>14, ZenonT(60) DEF ChangeDesired
  <2>3. changes' \in Nat
    BY <1>0, <2>2
  <2>4. TypeOK'
    BY <1>0, <2>1, <2>2, <2>3 DEF TypeOK
  <2> QED
    BY <1>0, <1>11, <2>2, <2>4, ZenonT(60)
<1>15. CASE Lose
  <2>1. k' \in Kernel /\ \A j \in Id : k'.pair[j] \in {k.pair[j], None}
    BY <1>0, <1>15, LossesOfKernel DEF Lose
  <2>2. whole' \in BOOLEAN /\ settled' \in BOOLEAN
    BY <1>15, ZenonT(60) DEF Lose
  <2>3. /\ plan' = plan /\ desired' = desired /\ target' = target /\ todo' = todo
        /\ changes' = changes /\ drifts' \in Nat /\ faults' = faults
    BY <1>0, <1>15 DEF Lose
  <2>4. TypeOK'
    BY <1>0, <2>1, <2>2, <2>3 DEF TypeOK
  <2> QED
    BY <1>11, <2>1, <2>3, <2>4
<1>16. CASE Reboot
  <2>2. whole' \in BOOLEAN /\ settled' \in BOOLEAN
    BY <1>16, ZenonT(60) DEF Reboot
  <2>3. /\ plan' = plan /\ desired' = desired /\ target' = target /\ k' \in Kernel
        /\ changes' = changes /\ drifts' \in Nat /\ faults' = faults
    BY <1>0, <1>16, EmptyIsKernel DEF Reboot
  <2>1. TypeOK'
    BY <1>0, <2>2, <2>3 DEF TypeOK
  <2> QED
    BY <1>1, <1>16, <2>1 DEF Reboot
<1>17. CASE UNCHANGED vars
  <2>1. TypeOK' /\ k' = k /\ todo' = todo /\ target' = target
    BY <1>17 DEF vars, TypeOK
  <2> QED
    BY <1>0, <1>11, <2>1
<1> QED
  BY <1>2, <1>3, <1>4, <1>5, <1>6, <1>7, <1>8, <1>9, <1>10, <1>12, <1>13, <1>14, <1>15, <1>16, <1>17
     DEF Next, Apply

-----------------------------------------------------------------------------
(* Nothing right is disturbed.                                             *)

\* Whatever is not a loss keeps what the target wants.
LEMMA StepKeeps ==
  ASSUME Basics, BInv, AddressesTellApart, [Next]_vars, ~Lose, ~Reboot
  PROVE  KeepsEndpoints(k, k', target) /\ KeepsPolicies(k, k', target)
<1>1. CASE k' = k
  BY <1>1, UnchangedKeeps
<1>2. CASE WorkloadCall
  BY <1>2, WorkloadCallKeeps
<1>3. CASE Iterate
  BY <1>3, IterateKeeps
<1>4. CASE SyncTable
  BY <1>4, SyncTableKeeps
<1>5. ASSUME NEW i \in Id, Reap(i)
      PROVE  KeepsEndpoints(k, k', target) /\ KeepsPolicies(k, k', target)
  BY <1>5, ReapKeeps
<1>6. \/ k' = k \/ WorkloadCall \/ Iterate \/ SyncTable \/ \E i \in Id : Reap(i)
  BY DEF Next, Apply, Begin, FindPair, CallRefused, EndLoop, Allocate, AllocateRefused,
         Fault, ChangeDesired, vars
<1> QED
  BY <1>1, <1>2, <1>3, <1>4, <1>5, <1>6

LEMMA PolicyStays ==
  ASSUME Basics, NEW d \in States, ~Exhausted(d), NEW r \in Applicable(d), NEW s, NEW u,
         KeepsPolicies(s, u, d), PolicyInPlace(s, d, r)
  PROVE  PolicyInPlace(u, d, r)
<1>1. RulesOf(d, r) \subseteq DesiredRules[d]
  BY PoliciesHaveTables
<1>2. RulesOf(d, r) \subseteq Range(u.rules)
  BY <1>1 DEF PolicyInPlace, KeepsPolicies
<1>3. ASSUME r.act # "allow" PROVE u.tables[TableOf(d, r)] = RouteOf(r)
  <2>1. r \in Needing(d)
    BY <1>3 DEF Needing
  <2>2. TableOf(d, r) \in DOMAIN DesiredRoutes[d] /\ DesiredRoutes[d][TableOf(d, r)] = RouteOf(r)
    BY <2>1, PoliciesHaveTables
  <2>3. RightTable(s, d, TableOf(d, r))
    BY <1>3, <2>2 DEF PolicyInPlace, RightTable
  <2>4. RightTable(u, d, TableOf(d, r))
    BY <2>2, <2>3, ZenonT(60) DEF KeepsPolicies
  <2> QED
    BY <2>2, <2>4 DEF RightTable
<1> QED
  BY <1>2, <1>3 DEF PolicyInPlace
=============================================================================
