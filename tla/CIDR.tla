-------------------------------- MODULE CIDR --------------------------------
(***************************************************************************)
(* Addresses and prefixes as the policy compiler handles them              *)
(* (internal/policy/compiler.go): containment, the prefixes left when some *)
(* are taken out of another, and the merging of neighbours.  An address is *)
(* a number of AddrBits bits, 32 or 128 in the code.                       *)
(***************************************************************************)
EXTENDS Integers, Sequences, SequencesExt

CONSTANT AddrBits

ASSUME CIDRAssumption == AddrBits \in Nat \ {0}

Family == {4, 6}
Addr == [fam : Family, n : 0 .. 2^AddrBits - 1]
Size(p) == 2^(AddrBits - p.bits)

\* The masked prefixes: desired state validation accepts no others.
Prefix ==
  {p \in [fam : Family, n : 0 .. 2^AddrBits - 1, bits : 0 .. AddrBits] : p.n % Size(p) = 0}

Host(a) == [fam |-> a.fam, n |-> a.n, bits |-> AddrBits]
Everything(f) == [fam |-> f, n |-> 0, bits |-> 0]

Has(p, a) == p.fam = a.fam /\ a.n \in p.n .. p.n + Size(p) - 1
Covers(p, q) == p.bits <= q.bits /\ Has(p, q)

Left(p) == [p EXCEPT !.bits = @ + 1]
Right(p) == [p EXCEPT !.bits = @ + 1, !.n = @ + Size(p) \div 2]

RECURSIVE SubtractPrefix(_, _)
SubtractPrefix(base, except) ==
  CASE ~Covers(base, except) -> {base}
    [] base = except -> {}
    [] OTHER -> SubtractPrefix(Left(base), except) \cup SubtractPrefix(Right(base), except)

\* The prefixes left of cidrs when the exceptions are taken out one by one.
SubtractAll(cidrs, exceptions) ==
  FoldLeft(LAMBDA cs, e : UNION {SubtractPrefix(c, e) : c \in cs}, cidrs, exceptions)

\* Mutant: any two prefixes of the same length under the same grandparent.
MergesWidely(l, r) == l # r /\ l.fam = r.fam /\ l.bits = r.bits /\ l.bits > 0

\* mergeSiblingCIDRs: whether two prefixes are the halves of one.
Siblings(l, r) ==
  /\ l.fam = r.fam /\ l.bits = r.bits /\ l.bits > 0
  /\ \E p \in {[l EXCEPT !.bits = @ - 1], [r EXCEPT !.bits = @ - 1]} :
       p \in Prefix /\ {l, r} = {Left(p), Right(p)}

SortCIDRs(cidrs) ==
  SetToSortSeq(cidrs, LAMBDA p, q : \/ p.fam < q.fam
                                    \/ p.fam = q.fam /\ p.n < q.n
                                    \/ p.fam = q.fam /\ p.n = q.n /\ p.bits < q.bits)

\* One pass over the sorted prefixes, merging each sibling pair it meets.
RECURSIVE CompactOnce(_)
CompactOnce(cs) ==
  CASE Len(cs) < 2 -> ToSet(cs)
    [] Len(cs) >= 2 /\ Siblings(cs[1], cs[2]) ->
         {[cs[1] EXCEPT !.bits = @ - 1]} \cup CompactOnce(SubSeq(cs, 3, Len(cs)))
    [] OTHER -> {cs[1]} \cup CompactOnce(Tail(cs))

RECURSIVE CompactCIDRs(_)
CompactCIDRs(cidrs) ==
  LET next == CompactOnce(SortCIDRs(cidrs))
  IN  IF next = cidrs THEN cidrs ELSE CompactCIDRs(next)
=============================================================================
