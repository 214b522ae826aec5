----------------------------- MODULE DNSRecords -----------------------------
(***************************************************************************)
(* DNS records as policies use them: what a response says                  *)
(* (internal/dnsobserver/parser.go), how observed records are merged and   *)
(* pruned (internal/control/dns_observation.go) and when one has expired   *)
(* (internal/model/model.go).                                              *)
(*                                                                         *)
(* A response is a set of address records [name, ip, ttl] and a function   *)
(* from aliases to [target, ttl]; an observed record has a name, its       *)
(* addresses, a time to live and the time it was observed, both 0 when it  *)
(* never expires.                                                          *)
(***************************************************************************)
EXTENDS Integers, FiniteSets

CONSTANT DefaultTTL   \* for answers without one; 0 is none

ASSUME DNSAssumption == DefaultTTL \in Nat

MinOf(S) == CHOOSE x \in S : \A y \in S : x <= y

MinDNSTTL(l, r) == IF l = 0 \/ r = 0 THEN 0 ELSE MinOf({l, r})

\* appendRecord, over all the address records of a name: the smallest TTL
\* that is not zero.
RRSetTTL(resp, name) ==
  LET ttls == {a.ttl : a \in {x \in resp.addrs : x.name = name}} \ {0}
  IN  IF ttls = {} THEN 0 ELSE MinOf(ttls)

\* Mutant: an alias lives as long as the addresses it leads to.
TerminalTTL(resp, name, ttl) == RRSetTTL(resp, name)

ChainTTL(resp, name, ttl) == MinDNSTTL(ttl, RRSetTTL(resp, name))

\* An alias is followed to the first name with addresses; a loop ends it.
RECURSIVE Follow(_, _, _, _)
Follow(resp, target, ttl, seen) ==
  LET ips == {a.ip : a \in {x \in resp.addrs : x.name = target}}
      next == resp.cnames[target]
  IN  CASE ips # {} -> {[ips |-> ips, ttl |-> ChainTTL(resp, target, ttl)]}
        [] ips = {} /\ target \in DOMAIN resp.cnames /\ next.target \notin seen ->
             Follow(resp, next.target, MinDNSTTL(ttl, next.ttl), seen \cup {next.target})
        [] OTHER -> {}

Record(name, ips, ttl, at) ==
  LET lifetime == IF ttl = 0 THEN DefaultTTL ELSE ttl
  IN  [name |-> name, ips |-> ips, ttl |-> lifetime, at |-> IF lifetime = 0 THEN 0 ELSE at]

\* The records of a response; a name is an alias or has addresses, not both.
RecordsFromResponse(resp, at) ==
  LET owners == {a.name : a \in resp.addrs}
      ips(n) == {a.ip : a \in {x \in resp.addrs : x.name = n}}
  IN  {Record(n, ips(n), RRSetTTL(resp, n), at) : n \in owners}
        \cup UNION {{Record(n, f.ips, f.ttl, at) :
                       f \in Follow(resp, resp.cnames[n].target, resp.cnames[n].ttl, {n})} :
                     n \in DOMAIN resp.cnames}

-----------------------------------------------------------------------------
\* A record with no time to live never expires.
Expired(rec, now) == rec.ttl > 0 /\ now >= rec.at + rec.ttl

SameRecord(r, s) == r.name = s.name /\ r.ips = s.ips

\* Mutant: what was there first stays.
PreferFirst(current, candidate) == current

Preferred(current, candidate) ==
  CASE current.ttl = 0 -> current
    [] current.ttl # 0 /\ (candidate.ttl = 0 \/ candidate.at > current.at) -> candidate
    [] OTHER -> current

\* Records of the same name and addresses become one.
MergeDNSRecords(base, observed) ==
  LET alone(S, T) == {r \in S : ~\E s \in T : SameRecord(r, s)}
      pairs == {<<b, o>> \in base \X observed : SameRecord(b, o)}
  IN  alone(base, observed) \cup alone(observed, base) \cup {Preferred(p[1], p[2]) : p \in pairs}

PruneExpired(records, now) == {r \in records : ~Expired(r, now)}
=============================================================================
