----------------------------- MODULE PolicyPath -----------------------------
(***************************************************************************)
(* From rules and DNS answers to verdicts: the agent's reconcile           *)
(* (cmd/netloom-agent/main.go, internal/agent/reconcile.go) reads the      *)
(* observations, compiles an endpoint's program and installs it in its     *)
(* policy map and in the tries of the TCX programs, while observers add to *)
(* the observations and time passes.                                       *)
(***************************************************************************)
EXTENDS PolicyDatapath, DNSObserver

CONSTANT Plans   \* see PlanType

\* ep: the endpoint; ctxs: the desired states it may be compiled from;
\* packets: the traffic looked at; the rest is for the observers.
PlanType(p) == DNSPlan(p) /\ {"ep", "ctxs", "packets"} \subseteq DOMAIN p

ASSUME PathAssumption == \A p \in Plans : PlanType(p)

VARIABLES
  desired,    \* the desired state, a context without observations
  installed   \* {} or what the last successful reconcile installed

vars == <<dnsVars, desired, installed>>

Init ==
  /\ plan \in Plans
  /\ InitDNS
  /\ desired \in plan.ctxs
  /\ installed = {}

-----------------------------------------------------------------------------
\* withDNSObservationsAtContextStore; the compiler reads the same clock.
WithObservations(ctx, records, now) ==
  [ctx EXCEPT !.records = PruneExpired(MergeDNSRecords(@, records), now), !.now = now]

Tries(program, ep) ==
  [d \in Direction |-> TrieOf(ProjectProgram(program, ep.ip.fam, d).rules)]

\* What a reconcile installs when nothing is refused; the set is empty when
\* the compiler, the encoding or the projection refuses the program.
Outcome(ctx, ep) ==
  IF CompileFails(ctx, ep) THEN {}
  ELSE LET program == Program(ctx, ep)
           encoded == EncodeProgram(ctx, program)
       IN  IF encoded.refused \/ \E d \in Direction : ProjectProgram(program, ep.ip.fam, d).refused
           THEN {}
           ELSE {[ctx |-> ctx, program |-> program, entries |-> encoded.entries,
                  tries |-> Tries(program, ep)]}

\* A reconcile that returns an error leaves what is installed.
Reconcile ==
  /\ LET out == Outcome(WithObservations(desired, view["agent"].dns, clock), plan.ep)
     IN  installed' = IF out = {} THEN installed ELSE out
  /\ UNCHANGED <<dnsVars, desired>>

ChangeDesired ==
  /\ \E c \in plan.ctxs \ {desired} : desired' = c
  /\ UNCHANGED <<dnsVars, installed>>

Observe ==
  /\ \/ \E o \in Observers : Answer(o) \/ Load(o) \/ Save(o) \/ SaveFails(o)
     \/ AgentSaves
     \/ \E p \in Processes : Deliver(p)
     \/ Tick
  /\ UNCHANGED <<desired, installed>>

Next == Reconcile \/ ChangeDesired \/ Observe

Spec == Init /\ [][Next]_vars

-----------------------------------------------------------------------------
(***************************************************************************)
(* What the rules of an endpoint ask for, read off the desired state.      *)
(***************************************************************************)
Selects(ctx, ep, rule, p) ==
  LET kind == rule.remote[1]
      in(cidrs) == \E c \in cidrs : Has(c, p.remote)
      entity(e) ==
        CASE e = "all" -> TRUE
          [] e = "none" -> FALSE
          [] e = "world" -> ~in(ctx.subnets)
          [] e = "world-ipv4" -> p.remote.fam = 4 /\ ~in(ctx.subnets)
          [] e = "world-ipv6" -> p.remote.fam = 6 /\ ~in(ctx.subnets)
          [] e = "cluster" -> in(ctx.subnets)
          [] e = "private" -> in(Private)
          [] e = "host" -> \E g \in ctx.gateways : g.ip = p.remote
          [] e = "remote-node" -> \E g \in ctx.gateways : g.ip = p.remote /\ g.node # ep.node
  IN CASE kind = "any" -> TRUE
       [] kind = "cidr" -> Has(rule.remote[2], p.remote) /\ ~in(ToSet(rule.remote[3]))
       [] kind = "cidrgroup" -> \E e \in ctx.cidrgroups[rule.remote[2]] :
                                  Has(e.cidr, p.remote) /\ ~in(ToSet(e.except))
       [] kind = "entities" -> \E e \in rule.remote[2] : entity(e)
       [] kind = "service" -> \E f \in ctx.services[rule.remote[2]] :
                                f.vip = p.remote /\ f.proto = p.proto /\ f.port = p.l4
       [] kind = "fqdn" -> \E n \in rule.remote[2] : p.remote \in IndexDNS(ctx, n)
       [] OTHER -> \E m \in Members(ctx, ep, rule.remote) :
                     m.ip = p.remote /\ <<"endpoint", m.id>> \in p.ident

\* The ports a rule names, those of the endpoint that receives the packet.
AsksForPort(ctx, ep, rule, p) ==
  LET receivers == IF rule.dir = "ingress" THEN {ep} ELSE {m \in ctx.eps : m.ip = p.remote}
      named == UNION {NamedPort(r, rule.proto, n) : <<r, n>> \in receivers \X rule.named}
  IN  CASE rule.proto = "icmp" ->
             /\ Len(rule.icmp) > 0 => p.l4 \div Half = rule.icmp[1]
             /\ Len(rule.icmp) > 1 => p.l4 % Half = rule.icmp[2]
        [] rule.ports = {} /\ rule.named = {} -> TRUE
        [] OTHER -> p.l4 \in named \/ \E r \in rule.ports : p.l4 \in r[1] .. r[2]

\* An ICMP rule without a remote is about IPv4 alone.
AsksForProto(rule, p) ==
  \/ rule.proto \in {"any", p.proto}
  \/ rule.proto = "icmp" /\ p.proto = "icmp6" /\ rule.remote[1] # "any"

Applies(ctx, ep, rule, p) ==
  /\ rule.dir = p.dir
  /\ AsksForProto(rule, p) /\ AsksForPort(ctx, ep, rule, p) /\ Selects(ctx, ep, rule, p)

Outranks(r, s) == r.tier < s.tier \/ (r.tier = s.tier /\ r.prio < s.prio)

\* Some applicable rule denies and no applicable rule that allows outranks it;
\* with no applicable rule at all the direction's default decides.
IntentDenies(ctx, ep, p) ==
  LET rules == {r \in ToSet(AttachedRules(ctx, ep)) : Applies(ctx, ep, r, p)}
  IN  /\ ~AlwaysPasses(p)
      /\ IF rules = {} THEN ~DefaultDenyDisabled(ctx, ep, p.dir)
         ELSE \E r \in rules : /\ Denies(r.action)
                               /\ ~\E s \in rules : ~Denies(s.action) /\ Outranks(s, r)

\* An installed policy map gives every packet the verdict that the rules, in
\* the order of tier, priority and deny, ask for: expansion, subtraction of
\* exceptions, merging of prefixes, port blocks, the dropping of entries with
\* the same key and hash collisions between identities lose nothing.
CompiledMeansIntent ==
  \A i \in installed, p \in plan.packets :
     Denies(Evaluate(i.entries, p)) = IntentDenies(i.ctx, plan.ep, p)

-----------------------------------------------------------------------------
\* The compiled rules the kernel is given and that match the packet.
FastRules(i, p) ==
  {c \in ToSet(i.program) :
     /\ Projects(c, p.remote.fam, p.dir)
     /\ c.proto = p.proto \/ (c.proto = "icmp" /\ p.proto = "icmp6")
     /\ \A q \in c.cidr : Has(q, p.remote)
     /\ \E l \in TCXPorts(c) : SameBits(PortBits, l[2], l[1], p.l4)}

FastIntent(i, p) ==
  LET rules == FastRules(i, p)
      best == {c \in rules : \A d \in rules : RulePrecedence(d.rule) <= RulePrecedence(c.rule)}
  IN  ~KernelSkips(p) /\ \E c \in best : Denies(c.rule.action)

\* Rules whose matches are nested or disjoint for the trie as well: whole
\* prefixes, and hosts with exact ports.
Nests(c) ==
  \/ \A l \in TCXPorts(c) : l[2] = 0
  \/ \A l \in TCXPorts(c) : l[2] = PortBits /\ \A q \in c.cidr : q.bits = AddrBits

\* The longest match in the trie gives the verdict of the best rule among
\* those projected into it: the rules left out while projecting are those
\* that could never decide.
FastPathFollowsPrecedence ==
  \A i \in installed, p \in plan.packets :
     (\A c \in ToSet(i.program) : Projects(c, p.remote.fam, p.dir) => Nests(c))
       => (KernelVerdict(i.tries[p.dir], p) = "drop") = FastIntent(i, p)

\* The same of every program: remote prefixes and port ranges are matched
\* together.
FastPathMatchesRanges ==
  \A i \in installed, p \in plan.packets :
     (KernelVerdict(i.tries[p.dir], p) = "drop") = FastIntent(i, p)

-----------------------------------------------------------------------------
\* An answer says that name has ip, along a chain of records all of which
\* are alive; a record with a TTL of zero is not.
RECURSIVE Says(_, _, _, _, _)
Says(resp, name, ip, age, hops) ==
  \/ \E a \in resp.addrs : a.name = name /\ a.ip = ip /\ age < a.ttl
  \/ /\ hops > 0 /\ name \in DOMAIN resp.cnames
     /\ age < resp.cnames[name].ttl
     /\ Says(resp, resp.cnames[name].target, ip, age, hops - 1)

\* An address is granted because of a name only while the desired state says
\* so or some observer gave a client an answer that says so, no record of
\* which had run out when the program was compiled.
GrantsAreLive ==
  \A i \in installed : \A n \in UNION {r.remote[2] : r \in {x \in ToSet(AttachedRules(i.ctx, plan.ep)) :
                                                              x.remote[1] = "fqdn"}} :
    \A ip \in IndexDNS(i.ctx, n) :
       \/ \E c \in plan.ctxs : \E r \in c.records :
            r.name = n /\ ip \in r.ips /\ ~Expired(r, i.ctx.now)
       \/ \E h \in heard : Says(h.resp, n, ip, i.ctx.now - h.at, Cardinality(DOMAIN h.resp.cnames))

\* An observation whose save was reported to succeed stays, until it expires
\* or a newer one of the same name and addresses takes its place, whatever
\* the order in which answers get the observer's lock.
SavedIsKept ==
  \A r \in kept :
     \/ \E s \in kept : SameRecord(r, s) /\ s.at >= r.at /\ Expired(s, clock)
     \/ \E s \in db.dns : SameRecord(r, s) /\ (s.ttl = 0 \/ s.at >= r.at)

\* What the agent stored under its own keys is not undone by an observer.
OwnKeysStay == db.own = saves
=============================================================================
