--------------------------- MODULE EBPFPolicyStore ---------------------------
(***************************************************************************)
(* The eBPF policy store (internal/dataplane/ebpf_store.go).  A call holds *)
(* the store's mutex from start to end, but the kernel map, the bpffs pin  *)
(* and the metadata file change one system call at a time: each of them    *)
(* may fail, and the process may die between any two.  A call in progress  *)
(* is `op'; its program counter is op.pc.                                  *)
(***************************************************************************)
EXTENDS Integers, FiniteSets

CONSTANTS
  Endpoint,      \* endpoint ids
  Key, Value,    \* policy map keys and values
  Absent,        \* what a map holds at a key it does not have
  MaxEntries,    \* capacity of a policy map
  Pinned,        \* PinRoot is configured: maps are pinned in bpffs
  OverflowClear, \* OverflowAction is "clear" (otherwise "reject")
  Faults,        \* the system calls that may fail: "map", "meta", "unlink"
  Drift,         \* somebody else may write the pinned maps between calls
  MaxRevision    \* bound on the revisions explored

\* No file; one this store can use; one of another schema version or
\* capacity; one that does not decode.
MetaStates == {"none", "current", "outdated", "truncated"}

Contents == [Key -> Value \cup {Absent}]
Empty == [k \in Key |-> Absent]
Keys(c) == {k \in Key : c[k] # Absent}

ASSUME StoreConfig ==
  /\ Absent \notin Value /\ IsFiniteSet(Key)
  /\ MaxEntries \in Nat \ {0} /\ MaxRevision \in Nat
  /\ Pinned \in BOOLEAN /\ OverflowClear \in BOOLEAN /\ Drift \in BOOLEAN
  /\ Faults \subseteq {"map", "meta", "unlink"}

VARIABLES
  live,      \* endpoint -> contents of its kernel map (Empty without one)
  pin,       \* endpoint -> its map is pinned in bpffs
  meta,      \* endpoint -> its metadata file, one of MetaStates
  open,      \* endpoint -> s.maps holds its map
  entries,   \* endpoint -> s.entries
  revision,  \* endpoint -> s.revisions
  seen,      \* endpoint -> s.lastSeen holds a time
  event,     \* endpoint -> the last PolicyUpdateEvent recorded
  op         \* the call in progress

vars == <<live, pin, meta, open, entries, revision, seen, event, op>>

NoEvent == [prev |-> 0, rev |-> 0, success |-> TRUE]

\* No call in progress; how the last one ended.
Done(result) == [pc |-> "idle", result |-> result]
Busy == op.pc # "idle"

Init ==
  /\ live = [e \in Endpoint |-> Empty]
  /\ pin = [e \in Endpoint |-> FALSE]
  /\ meta = [e \in Endpoint |-> "none"]
  /\ open = [e \in Endpoint |-> FALSE]
  /\ entries = [e \in Endpoint |-> Empty]
  /\ revision = [e \in Endpoint |-> 0]
  /\ seen = [e \in Endpoint |-> FALSE]
  /\ event = [e \in Endpoint |-> NoEvent]
  /\ op = Done("ok")

Record(e, ok) ==
  event' = [event EXCEPT ![e] =
    [prev |-> revision[e], rev |-> revision[e] + 1, success |-> ok]]

-----------------------------------------------------------------------------
(* ReplaceEndpoint: checks, plan, and the choice of a way to the new map.  *)

\* Mutant: the capacity check is off by one.
FitsOneMore(c) == Cardinality(Keys(c)) <= MaxEntries + 1

Fits(c) == Cardinality(Keys(c)) <= MaxEntries

PlanPut(old, next) == {k \in Keys(next) : old[k] # next[k]}
PlanDelete(old, next) == Keys(old) \ Keys(next)

Loadable(e) == pin[e] /\ meta[e] = "current"

\* policyUpdateSequence: adds come before deletes when both fit the map.
DeleteFirst(old, next) ==
  Cardinality(Keys(old)) + Cardinality(Keys(next) \ Keys(old)) > MaxEntries

\* Mutant: an open map is trusted to hold what the store last wrote.
PrepareTrusting(e, next) ==
  LET old == entries[e]
      steps(pc, puts, dels) == [pc |-> pc, puts |-> puts, dels |-> dels]
  IN IF ~open[e] /\ ~Loadable(e) THEN steps("create", Keys(next), {})
     ELSE IF ~open[e] \/ Keys(old) = {}
          THEN steps("clear", PlanPut(old, next), {})
     ELSE steps("write", PlanPut(old, next), PlanDelete(old, next))

\* Where preparePolicyMapLocked starts, and the keys it puts and deletes.
Prepare(e, next) ==
  LET old == entries[e]
      steps(pc, puts, dels) == [pc |-> pc, puts |-> puts, dels |-> dels]
  IN IF ~Pinned THEN steps("write", Keys(next), {})
     ELSE IF ~open[e] /\ ~Loadable(e) THEN steps("create", Keys(next), {})
     ELSE IF ~open[e] \/ Keys(old) = {}
          THEN steps("clear", PlanPut(old, next), {})
     ELSE IF live[e] # next THEN steps("clear", Keys(next), {})
     ELSE steps(IF DeleteFirst(old, next) THEN "delete" ELSE "write",
                PlanPut(old, next), PlanDelete(old, next))

Begin(e, kind, next) ==
  LET how == Prepare(e, next) IN
  op' = [pc |-> IF kind = "overflow" /\ ~Pinned /\ ~open[e]
                THEN "commit" ELSE how.pc,
         ep |-> e, kind |-> kind, next |-> next,
         puts |-> how.puts, dels |-> how.dels,
         created |-> FALSE, fresh |-> Empty, before |-> live[e]]

ReplaceEndpoint(e, next) ==
  /\ ~Busy /\ revision[e] < MaxRevision
  /\ Fits(next)
  /\ Begin(e, "replace", next)
  /\ UNCHANGED <<live, pin, meta, open, entries, revision, seen, event>>

\* Too many entries, and the store clears the endpoint instead.
ReplaceOverflowClears(e, next) ==
  /\ ~Busy /\ revision[e] < MaxRevision
  /\ OverflowClear /\ ~Fits(next)
  /\ Begin(e, "overflow", Empty)
  /\ UNCHANGED <<live, pin, meta, open, entries, revision, seen, event>>

\* Too many entries and the store rejects them, or two entries of the call
\* conflict for one key (canonicalPolicyMapEntries).
ReplaceRejected(e) ==
  /\ ~Busy
  /\ Record(e, FALSE)
  /\ op' = Done("error")
  /\ UNCHANGED <<live, pin, meta, open, entries, revision, seen>>

-----------------------------------------------------------------------------
(* The system calls of a replacement, one action each.                     *)

\* The map being written: a map nobody sees yet, or the pinned one.
Target == IF Pinned THEN live[op.ep] ELSE op.fresh

\* Mutant: the endpoint's map is always written in place.
SetTargetInPlace(c, next) ==
  live' = [live EXCEPT ![op.ep] = c] /\ op' = [next EXCEPT !.fresh = c]

SetTarget(c, next) ==
  IF Pinned
  THEN live' = [live EXCEPT ![op.ep] = c] /\ op' = next
  ELSE live' = live /\ op' = [next EXCEPT !.fresh = c]

\* createPinnedPolicyMap (after migratePinnedMap when the pinned map cannot
\* be loaded): the old files go, an empty map is created and pinned.
CreatePinned ==
  /\ op.pc = "create"
  /\ live' = [live EXCEPT ![op.ep] = Empty]
  /\ pin' = [pin EXCEPT ![op.ep] = TRUE]
  /\ meta' = [meta EXCEPT ![op.ep] = "none"]
  /\ op' = [op EXCEPT !.pc = "stamp", !.created = TRUE]
  /\ UNCHANGED <<open, entries, revision, seen, event>>

\* ... and its metadata file is written.
StampPinned ==
  /\ op.pc = "stamp"
  /\ meta' = [meta EXCEPT ![op.ep] = "current"]
  /\ op' = [op EXCEPT !.pc = "write"]
  /\ UNCHANGED <<live, pin, open, entries, revision, seen, event>>

\* clearMap deletes the keys it iterates over.
ClearKey(k) ==
  /\ op.pc = "clear"
  /\ k \in Keys(live[op.ep])
  /\ live' = [live EXCEPT ![op.ep][k] = Absent]
  /\ UNCHANGED <<pin, meta, open, entries, revision, seen, event, op>>

ClearDone ==
  /\ op.pc = "clear"
  /\ Keys(live[op.ep]) = {}
  /\ op' = [op EXCEPT !.pc = "write"]
  /\ UNCHANGED <<live, pin, meta, open, entries, revision, seen, event>>

\* The kernel refuses a Put into a full map; PutsHaveRoom is why there is no
\* action for it.
HasRoom(k) == k \in Keys(Target) \/ Cardinality(Keys(Target)) < MaxEntries

WriteKey(k) ==
  /\ op.pc = "write"
  /\ k \in op.puts /\ HasRoom(k)
  /\ SetTarget([Target EXCEPT ![k] = op.next[k]],
               [op EXCEPT !.puts = @ \ {k}])
  /\ UNCHANGED <<pin, meta, open, entries, revision, seen, event>>

WriteDone ==
  /\ op.pc = "write"
  /\ op.puts = {}
  /\ op' = [op EXCEPT !.pc = IF op.dels # {} THEN "delete" ELSE "commit"]
  /\ UNCHANGED <<live, pin, meta, open, entries, revision, seen, event>>

\* The new map becomes the endpoint's map and the bookkeeping follows it.
Commit ==
  /\ op.pc = "commit"
  /\ live' = IF Pinned THEN live ELSE [live EXCEPT ![op.ep] = op.fresh]
  /\ open' = [open EXCEPT ![op.ep] = @ \/ Pinned \/ op.kind = "replace"]
  /\ entries' = [entries EXCEPT ![op.ep] = op.next]
  /\ revision' = [revision EXCEPT ![op.ep] = @ + 1]
  /\ seen' = [seen EXCEPT ![op.ep] = TRUE]
  /\ Record(op.ep, TRUE)
  /\ op' = IF Pinned THEN [op EXCEPT !.pc = "meta"] ELSE Done("ok")
  /\ UNCHANGED <<pin, meta>>

\* writeMapMetadata after the commit.
WriteMeta ==
  /\ op.pc = "meta"
  /\ meta' = [meta EXCEPT ![op.ep] = "current"]
  /\ op' = Done("ok")
  /\ UNCHANGED <<live, pin, open, entries, revision, seen, event>>

-----------------------------------------------------------------------------
(* Failures of a replacement.                                              *)

\* The files of an endpoint after some of {"pin", "meta"} were removed; an
\* unpinned map that no handle keeps is gone.
RemoveFiles(e, removed, held) ==
  /\ pin' = [pin EXCEPT ![e] = @ /\ "pin" \notin removed]
  /\ meta' = [meta EXCEPT ![e] = IF "meta" \in removed THEN "none" ELSE @]
  /\ live' = [live EXCEPT ![e] = IF "pin" \in removed /\ ~held
                                 THEN Empty ELSE @]

\* A failed removal leaves any of the two files behind.
Removals == IF "unlink" \in Faults THEN SUBSET {"pin", "meta"}
            ELSE {{"pin", "meta"}}

Fail ==
  /\ Record(op.ep, FALSE)
  /\ op' = Done("error")
  /\ UNCHANGED <<open, entries, revision, seen>>

\* A system call on the map fails, or the context ends before it.  A pinned
\* map created by this call is removed again; one that existed stays as the
\* call left it.
MapCallFails ==
  /\ "map" \in Faults
  /\ op.pc \in {"create", "clear", "write", "delete"}
  /\ Fail
  /\ IF op.created \/ op.pc = "create"
     THEN \E removed \in Removals : RemoveFiles(op.ep, removed, FALSE)
     ELSE UNCHANGED <<live, pin, meta>>

StampFails ==
  /\ "meta" \in Faults
  /\ op.pc = "stamp"
  /\ Fail
  /\ \E removed \in Removals : RemoveFiles(op.ep, removed, FALSE)

\* The kernel refuses the Delete of a key the map does not have.  The plan is
\* only followed when the map already equals the desired entries, so that
\* every Delete of it is refused (DeletesComeTooLate): there is no action for
\* one that succeeds.
DeleteMissing(k) ==
  /\ op.pc = "delete"
  /\ k \in op.dels /\ k \notin Keys(live[op.ep])
  /\ Fail
  /\ UNCHANGED <<live, pin, meta>>

\* The metadata file cannot be written after the commit: the call returns an
\* error, and os.WriteFile may have truncated the file.
WriteMetaFails ==
  /\ "meta" \in Faults
  /\ op.pc = "meta"
  /\ \E m \in {meta[op.ep], "truncated"} : meta' = [meta EXCEPT ![op.ep] = m]
  /\ op' = Done("error")
  /\ UNCHANGED <<live, pin, open, entries, revision, seen, event>>

-----------------------------------------------------------------------------
(* DeleteEndpoint, SweepPolicyEndpoints, status reads, restarts and drift. *)

Forget(gone) ==
  /\ open' = [e \in Endpoint |-> open[e] /\ e \notin gone]
  /\ entries' = [e \in Endpoint |-> IF e \in gone THEN Empty ELSE entries[e]]
  /\ revision' = [e \in Endpoint |-> IF e \in gone THEN 0 ELSE revision[e]]
  /\ seen' = [e \in Endpoint |-> seen[e] /\ e \notin gone]

\* Endpoints whose deletion leaves an event (endpointDeleteEventLocked).
Known(e) == revision[e] # 0 \/ open[e] \/ seen[e] \/ pin[e]

DeleteEndpoints(gone) ==
  /\ live' = [e \in Endpoint |-> IF e \in gone THEN Empty ELSE live[e]]
  /\ pin' = [e \in Endpoint |-> pin[e] /\ e \notin gone]
  /\ meta' = [e \in Endpoint |-> IF e \in gone THEN "none" ELSE meta[e]]
  /\ event' = [e \in Endpoint |->
       IF e \in gone /\ Known(e)
       THEN [prev |-> revision[e], rev |-> revision[e] + 1, success |-> TRUE]
       ELSE event[e]]
  /\ Forget(gone)

DeleteEndpoint(e) ==
  /\ ~Busy
  /\ DeleteEndpoints({e})
  /\ op' = Done("ok")

\* removePinnedMap tries both files and reports the first error; the rest of
\* the endpoint is then left alone.
DeleteEndpointFails(e) ==
  /\ ~Busy /\ Pinned /\ "unlink" \in Faults
  /\ \E removed \in {{}, {"pin"}, {"meta"}} : RemoveFiles(e, removed, open[e])
  /\ op' = Done("error")
  /\ UNCHANGED <<open, entries, revision, seen, event>>

\* managedEndpointIDsLocked: what the store knows or finds metadata of.
Managed == {e \in Endpoint : \/ open[e] \/ revision[e] # 0 \/ seen[e]
                             \/ meta[e] \in {"current", "outdated"}}

\* policyMapEntriesLocked fails on a pinned map it cannot load.
Unreadable(e) == ~open[e] /\ pin[e] /\ ~Loadable(e)

\* PolicyMapUsage, PolicyMapDrift, PolicyEndpointStatuses, PolicyRuleMetrics:
\* one unreadable map fails them all; dating an endpoint from its metadata is
\* their only effect.
ReadStatuses ==
  /\ ~Busy
  /\ \A e \in Managed : ~Unreadable(e)
  /\ seen' = [e \in Endpoint |-> seen[e] \/ (e \in Managed /\ meta[e] # "none")]
  /\ op' = Done("ok")
  /\ UNCHANGED <<live, pin, meta, open, entries, revision, event>>

ReadStatusesFails ==
  /\ ~Busy
  /\ \E e \in Managed : Unreadable(e)
  /\ op' = Done("error")
  /\ UNCHANGED <<live, pin, meta, open, entries, revision, seen, event>>

\* The managed endpoints out of `keep' that were idle for too long.
Sweep(idle) ==
  /\ ~Busy
  /\ idle \subseteq Managed
  /\ DeleteEndpoints(idle)
  /\ op' = Done("ok")

\* The process dies, or closes the store and exits, and a new one starts with
\* an empty store on the same bpffs; a new schema version or capacity makes
\* the old files unusable.
Restart(upgraded) ==
  /\ Forget(Endpoint)
  /\ live' = [e \in Endpoint |-> IF pin[e] THEN live[e] ELSE Empty]
  /\ meta' = [e \in Endpoint |-> IF upgraded /\ meta[e] = "current"
                                 THEN "outdated" ELSE meta[e]]
  /\ event' = [e \in Endpoint |-> NoEvent]
  /\ op' = Done("restarted")
  /\ UNCHANGED pin

\* Somebody else changes one key of a pinned map.
DriftKey(e, k) ==
  /\ Drift /\ ~Busy /\ pin[e]
  /\ \E v \in Value \cup {Absent} : live' = [live EXCEPT ![e][k] = v]
  /\ Fits(live'[e])
  /\ UNCHANGED <<pin, meta, open, entries, revision, seen, event, op>>

-----------------------------------------------------------------------------
Call ==
  \/ \E e \in Endpoint :
       \/ \E next \in Contents : \/ ReplaceEndpoint(e, next)
                                \/ ReplaceOverflowClears(e, next)
       \/ ReplaceRejected(e)
       \/ DeleteEndpoint(e)
       \/ DeleteEndpointFails(e)
  \/ \E idle \in SUBSET Endpoint : Sweep(idle)
  \/ ReadStatuses \/ ReadStatusesFails

Progress ==
  \/ CreatePinned \/ StampPinned \/ ClearDone \/ WriteDone
  \/ \E k \in Key : ClearKey(k) \/ WriteKey(k) \/ DeleteMissing(k)
  \/ Commit \/ WriteMeta

Fault == MapCallFails \/ StampFails \/ WriteMetaFails

Environment ==
  \/ \E upgraded \in BOOLEAN : Restart(upgraded)
  \/ \E e \in Endpoint, k \in Key : DriftKey(e, k)

Next == Call \/ Progress \/ Fault \/ Environment

\* The goroutine that holds the mutex keeps running.
Spec == Init /\ [][Next]_vars /\ WF_vars(Progress)

-----------------------------------------------------------------------------
Event == [prev : Nat, rev : Nat, success : BOOLEAN]

OpType ==
  [pc : {"create", "stamp", "clear", "write", "delete", "commit", "meta"},
   ep : Endpoint, kind : {"replace", "overflow"}, next : Contents,
   puts : SUBSET Key, dels : SUBSET Key,
   created : BOOLEAN, fresh : Contents, before : Contents]

TypeOK ==
  /\ live \in [Endpoint -> Contents]
  /\ pin \in [Endpoint -> BOOLEAN]
  /\ meta \in [Endpoint -> MetaStates]
  /\ open \in [Endpoint -> BOOLEAN]
  /\ entries \in [Endpoint -> Contents]
  /\ revision \in [Endpoint -> Nat]
  /\ seen \in [Endpoint -> BOOLEAN]
  /\ event \in [Endpoint -> Event]
  /\ Busy => op \in OpType

(* Whatever path ReplaceEndpoint takes (a fresh map, a reloaded one, the   *)
(* rewrite of a drifted one, puts and deletes in place), and whatever      *)
(* state earlier failures, crashes and foreign writes left behind, the map *)
(* holds exactly the desired entries when the store commits to them.       *)
CommitInstallsNext ==
  [][Busy /\ revision'[op.ep] > revision[op.ep]
       => live'[op.ep] = op.next /\ entries'[op.ep] = op.next]_vars

(* No Put of a call that passed validatePolicyMapCapacity meets a full     *)
(* map, whichever of adds and deletes goes first.                          *)
PutsHaveRoom ==
  op.pc = "write" => Cardinality(Keys(Target) \cup op.puts) <= MaxEntries

(* The audit trail agrees with the stored revision (see PolicyStore).      *)
AuditTrail ==
  \A e \in Endpoint :
    LET ev == event[e] IN
    ev # NoEvent =>
      /\ ev.rev = ev.prev + 1
      /\ ev.success => revision[e] \in {ev.rev, 0}
      /\ ~ev.success => revision[e] = ev.prev

(* A call that returned no error left the endpoint with usable metadata    *)
(* and a map it created pinned, so the next process can load it.  (A map   *)
(* that is open while a failed delete takes its pin away never gets it     *)
(* back.)                                                                  *)
SuccessIsDurable ==
  [][op.pc = "meta" /\ op'.pc = "idle" /\ op'.result = "ok"
       => meta'[op.ep] = "current" /\ (op.created => pin'[op.ep])]_vars

(* Every replacement returns: no path through the map's keys loops.        *)
CallsReturn == Busy ~> ~Busy

(* A failed replacement of an endpoint the store manages leaves its        *)
(* installed policy, the entries the store believes in and the stored      *)
(* revision as they were.                                                  *)
FailedReplaceKeepsPolicy ==
  [][Busy /\ open[op.ep] /\ op'.pc = "idle" /\ op'.result = "error"
       => /\ live'[op.ep] = op.before
          /\ entries'[op.ep] = entries[op.ep]
          /\ revision'[op.ep] = revision[op.ep]]_vars

(* The deletes of a plan are only reached in a map that lost its keys      *)
(* already: preparePolicyMapLocked rewrites every map that differs from    *)
(* the desired entries before it looks at the plan.                        *)
DeletesComeTooLate ==
  op.pc = "delete" => op.dels \cap Keys(live[op.ep]) = {}

(* A replacement within the capacity fails only when a system call does:   *)
(* the program never asks for the deletion of a key that is not there.     *)
DeletesFindTheirKeys == op.pc = "delete" => op.dels \subseteq Keys(live[op.ep])

(* Without pinning, the store built from kernel maps is one that installs  *)
(* whole policies atomically (PolicyStore): the create-populate-swap path  *)
(* shows no intermediate state and a failure leaves everything but the     *)
(* audit trail alone.                                                      *)
Abstract == INSTANCE PolicyStore WITH
  Policy <- Contents, NoEntries <- Empty, policy <- live

ImplementsPolicyStore == Abstract!Spec
=============================================================================
