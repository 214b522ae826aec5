----------------------------- MODULE IdentityFeed -----------------------------
(***************************************************************************)
(* Where the identity groups of a reconcile pass come from                 *)
(* (internal/control/identity_observation.go): the desired state, the      *)
(* observations kept on the node, and a feed over HTTP with a cache, entity *)
(* tags, patches and a backoff.  A group is a record of its name, the time *)
(* it was observed, its time to live (0: it is static) and its members.    *)
(* Time is counted in reconcile passes.                                    *)
(***************************************************************************)
EXTENDS Integers

CONSTANTS
  Edition,        \* edition (1, 2, ...) -> the groups the feed has in it
  FeedBackoff,    \* BackoffMax; BackoffBase is 1
  MaxTime         \* the clock stops here: everything that expires has expired

VARIABLES
  serving,   \* the feed answers
  edition,   \* the edition it has
  cache,     \* IdentityGroupObservationCache
  clock      \* the time

feed == <<serving, edition, cache, clock>>

NoCache == [etag |-> 0, groups |-> {}, failures |-> 0, wait |-> 0]

Init(now) ==
  /\ serving = TRUE
  /\ edition = 1
  /\ cache = NoCache
  /\ clock = now

-----------------------------------------------------------------------------
(* The groups.                                                             *)
Named(groups, name) == {g \in groups : g.name = name}
Names(groups) == {g.name : g \in groups}

\* preferredIdentityGroup
Preferred(current, candidate) ==
  IF current.ttl = 0 THEN current
  ELSE IF candidate.ttl = 0 \/ candidate.at > current.at THEN candidate
  ELSE current

\* MergeIdentityGroups, with one group of a name on each side.
MergeIdentityGroups(base, observed) ==
  {g \in base : \A h \in Named(observed, g.name) : Preferred(g, h) = g}
    \cup {h \in observed : \A g \in Named(base, h.name) : Preferred(g, h) = h}

Expired(g, now) == g.ttl # 0 /\ now >= g.at + g.ttl

\* PruneExpiredIdentityGroups
PruneExpired(groups, now) == {g \in groups : ~Expired(g, now)}

\* What a feed tells a client that has the groups `old': the groups to put
\* and the names to delete.
Patches(old, new) ==
  [upsert |-> new \ old, delete |-> Names(old) \ Names(new)]

\* Mutant: deletions are not applied.
ApplyPatchesKeeps(groups, p) ==
  {g \in groups : g.name \notin Names(p.upsert)} \cup p.upsert

\* ApplyIdentityGroupObservationPatches
ApplyPatches(groups, p) ==
  {g \in groups : g.name \notin Names(p.upsert) \cup p.delete} \cup p.upsert

-----------------------------------------------------------------------------
(* loadIdentityGroupObservationsURL, by the answer it gets.                *)

\* identityGroupFeedBackoff
Backoff(n) == IF 2 ^ (n - 1) > FeedBackoff THEN FeedBackoff ELSE 2 ^ (n - 1)

Succeeded(groups) ==
  cache' = [etag |-> edition, groups |-> groups, failures |-> 0, wait |-> 0]

\* The cache is asked before the backoff is over, or answers for a feed
\* that does not.
CachedAnswer ==
  /\ cache.wait > 0
  /\ UNCHANGED feed

FailureTolerated ==
  /\ cache.wait = 0 /\ ~serving /\ cache.groups # {}
  /\ LET n == IF cache.failures > 0 /\ Backoff(cache.failures) = FeedBackoff
              THEN cache.failures ELSE cache.failures + 1
     IN  cache' = [etag |-> cache.etag, groups |-> cache.groups,
                   failures |-> n, wait |-> Backoff(n)]
  /\ UNCHANGED <<serving, edition, clock>>

\* 304 for the tag the request carries, or all the groups, or patches for
\* a client with a tag.
Fetch ==
  /\ cache.wait = 0 /\ serving
  /\ \/ cache.etag = edition /\ Succeeded(cache.groups)
     \/ Succeeded(Edition[edition])
     \/ /\ cache.etag \notin {0, edition} /\ cache.groups # {}
        /\ Succeeded(ApplyPatches(cache.groups,
                       Patches(Edition[cache.etag], Edition[edition])))
  /\ UNCHANGED <<serving, edition, clock>>

\* The pass fails: nothing cached to fall back on, or to patch.
FetchFails ==
  /\ cache.wait = 0 /\ cache.groups = {}
  /\ ~serving \/ cache.etag \notin {0, edition}
  /\ UNCHANGED feed

\* A pass later.
TimePasses ==
  /\ clock' = IF clock < MaxTime THEN clock + 1 ELSE clock
  /\ cache' = [cache EXCEPT !.wait = IF @ = 0 THEN 0 ELSE @ - 1]

-----------------------------------------------------------------------------
(* The feed's side.                                                        *)
FeedStops == serving /\ serving' = FALSE /\ UNCHANGED <<edition, cache, clock>>
FeedStarts == ~serving /\ serving' = TRUE /\ UNCHANGED <<edition, cache, clock>>
FeedChanges ==
  /\ edition' \in DOMAIN Edition \ {edition}
  /\ UNCHANGED <<serving, cache, clock>>

-----------------------------------------------------------------------------
\* What the merge is for: of the groups of a name in several sources the
\* first that is static, or else the one observed last, and none that has
\* expired.
Newest(sources, now) ==
  LET Earlier(g, h) == \E i \in DOMAIN sources : g \in sources[i]
                          /\ \A j \in 1..i : h \notin sources[j]
      all == UNION {sources[i] : i \in DOMAIN sources}
      Beats(g, h) ==
        CASE g.ttl = 0 /\ h.ttl = 0 -> Earlier(g, h)
          [] g.ttl # 0 /\ h.ttl # 0 -> g.at > h.at \/ (g.at = h.at /\ Earlier(g, h))
          [] OTHER -> g.ttl = 0
  IN  {g \in all : ~Expired(g, now)
                     /\ \A h \in Named(all, g.name) \ {g} : Beats(g, h)}
=============================================================================
