--------------------------- MODULE PolicyDatapath ---------------------------
(***************************************************************************)
(* What becomes of a compiled program: the entries of the endpoint's       *)
(* policy map (internal/dataplane/policymap.go), the verdict the evaluator *)
(* reads off them (internal/dataplane/evaluator.go), and the projection of *)
(* the same program into the longest-prefix trie that the TCX programs     *)
(* look packets up in (internal/dataplane/tcx.go).                         *)
(*                                                                         *)
(* A packet is a record of dir, remote address, identity, protocol and l4, *)
(* the destination port or the ICMP type and code.  An identity is the set *)
(* of names that hash to the same number; the empty set is number 0.       *)
(***************************************************************************)
EXTENDS PolicyCompiler

CONSTANTS
  FragNeeded,   \* the ICMP type and code of "fragmentation needed"
  TooBig,       \* the ICMPv6 type of "packet too big"
  Neighbour     \* the ICMPv6 types of neighbour discovery

Half == 2^(PortBits \div 2)

RECURSIVE SplitPortRange(_, _)
\* The aligned blocks that make up a range, as <<port, prefix bits>>.
SplitPortRange(from, to) ==
  IF from > to THEN {}
  ELSE LET fits == {k \in 0 .. PortBits : from % 2^k = 0 /\ from + 2^k - 1 <= to}
           k == CHOOSE x \in fits : \A y \in fits : y <= x
       IN  {<<from, PortBits - k>>} \cup SplitPortRange(from + 2^k, to)

\* l4PortPrefixes and icmpPrefixes: <<value, bits>>; 8 is the protocol alone.
L4Prefixes(c) ==
  CASE c.proto = "icmp" -> {CASE c.rule.icmp = <<>> -> <<0, 8>>
                              [] Len(c.rule.icmp) = 1 -> <<c.rule.icmp[1] * Half, 8 + PortBits \div 2>>
                              [] OTHER -> <<c.rule.icmp[1] * Half + c.rule.icmp[2], 8 + PortBits>>}
    [] c.proto # "icmp" /\ c.ports = {} -> {<<0, IF c.proto = "any" THEN 0 ELSE 8>>}
    [] OTHER -> {<<b[1], 8 + b[2]>> : b \in UNION {SplitPortRange(r[1], r[2]) : r \in c.ports}}

\* remoteIdentity, with the names the hash does not tell apart.
RemoteIdentity(ctx, c) ==
  LET name == CASE c.tag[1] = "endpoint" -> <<"endpoint", c.tag[2]>>
                [] c.tag[1] \in {"entity", "service"} -> <<c.tag[1], c.tag[2], c.cidr>>
                [] OTHER -> <<"cidr", c.cidr>>
  IN  IF c.tag[1] = "any" THEN {} ELSE {name} \cup UNION {s \in ctx.alike : name \in s}

\* Entry encoding; ICMP for an IPv6 prefix is ICMPv6.
EncodeEntry(ctx, c, l4) ==
  [key |-> [ident |-> RemoteIdentity(ctx, c), dir |-> c.rule.dir, port |-> l4[1], bits |-> l4[2],
            proto |-> IF c.proto = "icmp" /\ \E p \in c.cidr : p.fam = 6 THEN "icmp6" ELSE c.proto],
   val |-> [prec |-> RulePrecedence(c.rule), action |-> c.rule.action, stateful |-> c.rule.stateful,
            exact |-> c.tag[1] = "endpoint", cookie |-> <<c.rule.sg, c.rule.id>>],
   cidr |-> c.cidr]

ActionRank(action) == CASE action = "reject" -> 2 [] action = "drop" -> 1 [] OTHER -> 0

BetterPolicyMapEntry(e, f) ==
  \/ e.val.prec > f.val.prec
  \/ e.val.prec = f.val.prec /\ ActionRank(e.val.action) > ActionRank(f.val.action)

\* canonicalPolicyMapEntries: one entry per key; entries that contradict each
\* other refuse the whole program.
AddEntry(acc, e) ==
  LET old == {f \in acc.entries : f.key = e.key}
      f == CHOOSE x \in old : TRUE
  IN  CASE acc.refused -> acc
        [] ~acc.refused /\ old = {} -> [acc EXCEPT !.entries = @ \cup {e}]
        [] ~acc.refused /\ old # {} ->
             CASE f.cidr # e.cidr -> [acc EXCEPT !.refused = TRUE]
               [] f.cidr = e.cidr /\ BetterPolicyMapEntry(e, f) ->
                    [acc EXCEPT !.entries = (@ \ {f}) \cup {e}]
               [] OTHER -> [acc EXCEPT !.refused = e.val.prec = f.val.prec /\ e.val # f.val]

EncodeProgram(ctx, program) ==
  LET entries(c) == SetToSeq({EncodeEntry(ctx, c, l4) : l4 \in L4Prefixes(c)})
  IN  FoldLeft(AddEntry, [refused |-> FALSE, entries |-> {}],
               FlattenSeq([i \in DOMAIN program |-> entries(program[i])]))

-----------------------------------------------------------------------------
(***************************************************************************)
(* The evaluator.                                                          *)
(***************************************************************************)
SameBits(width, bits, x, y) == x \div 2^(width - bits) = y \div 2^(width - bits)

Matches(e, p) ==
  /\ e.key.dir = p.dir
  /\ \A c \in e.cidr : Has(c, p.remote)
  /\ e.key.ident \in {{}, p.ident} \/ (~e.val.exact /\ e.cidr # {})
  /\ e.key.bits > 0 => e.key.proto = p.proto
  /\ e.key.bits > 8 => SameBits(PortBits, e.key.bits - 8, e.key.port, p.l4)

\* What neither the evaluator nor the kernel programs look up.
AlwaysPasses(p) ==
  \/ p.proto = "icmp" /\ p.l4 = FragNeeded[1] * Half + FragNeeded[2]
  \/ p.proto = "icmp6" /\ p.l4 \div Half = TooBig
  \/ p.proto = "icmp6" /\ p.l4 \div Half \in Neighbour /\ p.l4 % Half = 0

BetterMatch(e, f, p) ==
  LET rank(x) == <<x.val.prec, x.key.bits, ActionRank(x.val.action),
                   IF x.key.ident # {} /\ x.key.ident = p.ident THEN 1 ELSE 0,
                   IF x.cidr = {} THEN -1 ELSE (CHOOSE c \in x.cidr : TRUE).bits>>
  IN  \E i \in 1 .. 5 : /\ rank(e)[i] > rank(f)[i]
                        /\ \A j \in 1 .. i - 1 : rank(e)[j] = rank(f)[j]

\* Entries that tie agree on the verdict: their action is the same.
Evaluate(entries, p) ==
  LET hits == {e \in entries : Matches(e, p)}
      best == {e \in hits : ~\E f \in hits : BetterMatch(f, e, p)}
  IN  CASE AlwaysPasses(p) -> "allow"
        [] ~AlwaysPasses(p) /\ hits = {} -> "drop"
        [] OTHER -> LET a == (CHOOSE e \in best : TRUE).val.action
                    IN  IF Denies(a) THEN a ELSE "allow"

-----------------------------------------------------------------------------
(***************************************************************************)
(* The projection into the trie of one family and direction.               *)
(***************************************************************************)
\* icmpTCXMatch and splitTCXPortRange: <<value, bits>>.
TCXPorts(c) ==
  CASE c.proto = "icmp" -> {<<l[1], l[2] - 8>> : l \in L4Prefixes(c)}
    [] c.proto # "icmp" /\ c.ports = {} -> {<<0, 0>>}
    [] OTHER -> UNION {SplitPortRange(r[1], r[2]) : r \in c.ports}

Projects(c, fam, dir) == c.rule.dir = dir /\ c.proto # "any" /\ \E p \in c.cidr : p.fam = fam

TCXRules(c) ==
  LET peer == CHOOSE p \in c.cidr : TRUE
  IN  {[peer |-> peer, proto |-> c.proto, port |-> l[1], bits |-> l[2],
        drop |-> Denies(c.rule.action), reject |-> c.rule.action = "reject",
        prec |-> RulePrecedence(c.rule), cookie |-> <<c.rule.sg, c.rule.id>>] : l \in TCXPorts(c)}

TCXKey(r) == <<r.proto, r.peer.n, r.port, r.peer.bits + r.bits>>

TCXRank(r) == CASE r.drop /\ r.reject -> 2 [] r.drop /\ ~r.reject -> 1 [] OTHER -> 0

RuleCovers(r, s) ==
  /\ r.proto = s.proto /\ Covers(r.peer, s.peer)
  /\ r.bits <= s.bits /\ SameBits(PortBits, r.bits, r.port, s.port)

\* Mutant: a candidate is appended whatever the list already holds.
AppendUnpruned(acc, c) == [acc EXCEPT !.rules = Append(@, c)]

\* appendIPv4ProjectedRule, appendIPv6ProjectedRule: a rule that a better one
\* covers is left out, or taken out again when the better one comes later;
\* rules of one key and precedence are merged.
AppendProjected(acc, c) ==
  LET same(r) == TCXKey(r) = TCXKey(c) /\ r.prec = c.prec
      hides(r) == RuleCovers(r, c) /\ r.prec >= c.prec
      kept(rs) == SelectSeq(rs, LAMBDA r : ~(RuleCovers(c, r) /\ c.prec > r.prec))
      i == SelectInSeq(acc.rules, LAMBDA r : same(r) \/ hides(r))
      r == acc.rules[i]
  IN  CASE acc.refused -> acc
        [] ~acc.refused /\ i = 0 -> [acc EXCEPT !.rules = Append(kept(acc.rules), c)]
        [] OTHER ->
             IF same(r) /\ r.drop = c.drop /\ r.reject = c.reject /\ r.cookie # c.cookie
             THEN [acc EXCEPT !.refused = TRUE]
             ELSE [acc EXCEPT !.rules =
                     kept(SubSeq(@, 1, i - 1))
                       \o <<IF same(r) /\ TCXRank(c) > TCXRank(r) THEN c ELSE r>>
                       \o SubSeq(@, i + 1, Len(@))]

ProjectProgram(program, fam, dir) ==
  LET chosen == SelectSeq(program, LAMBDA c : Projects(c, fam, dir))
  IN  FoldLeft(AppendProjected, [refused |-> FALSE, rules |-> <<>>],
               FlattenSeq([i \in DOMAIN chosen |-> SetToSeq(TCXRules(chosen[i]))]))

\* The most significant bit first.
BitsOf(n, width) == [i \in 1 .. width |-> (n \div 2^(width - i)) % 2]

\* The trie compares bits in the order of memory: the peer in network order,
\* then the port in the host's, low byte first.
TrieBits(addr, port) ==
  BitsOf(addr, AddrBits) \o BitsOf(port % Half, PortBits \div 2) \o BitsOf(port \div Half, PortBits \div 2)

\* Put: a key is as many bits as the peer's and the port's prefix have.
PutRule(trie, r) ==
  LET key == <<r.proto, SubSeq(TrieBits(r.peer.n, r.port), 1, r.peer.bits + r.bits)>>
  IN  (key :> r.drop) @@ trie

TrieOf(rules) == FoldLeft(PutRule, <<>>, rules)

KernelSkips(p) ==
  \/ p.proto = "icmp" /\ p.l4 = FragNeeded[1] * Half + FragNeeded[2]
  \/ p.proto = "icmp6" /\ p.l4 \div Half \in {TooBig} \cup Neighbour /\ p.l4 % Half = 0

\* The TCX program: the longest key that the packet starts with decides; a
\* packet with none passes.
KernelVerdict(trie, p) ==
  LET bits == TrieBits(p.remote.n, p.l4)
      proto == IF p.proto = "icmp6" THEN "icmp" ELSE p.proto
      hits == {k \in DOMAIN trie : k[1] = proto /\ IsPrefix(k[2], bits)}
      longest == CHOOSE k \in hits : \A h \in hits : Len(h[2]) <= Len(k[2])
  IN  IF ~KernelSkips(p) /\ hits # {} /\ trie[longest] THEN "drop" ELSE "pass"
=============================================================================
