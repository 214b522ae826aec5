---------------------------- MODULE DNSObserver -----------------------------
(***************************************************************************)
(* The DNS observers (cmd/netloom-dns-observer/main.go) and the column they *)
(* share.  An observer answers its client, then adds what the answer says   *)
(* to the observations kept under one key of Open_vSwitch.external_ids:     *)
(* load, merge, prune, save, one answer at a time.  The agent keeps its own *)
(* state under other keys of the same column.  A save replaces the whole    *)
(* column by the copy the process has cached of it, with one key changed    *)
(* (SetOpenVSwitchExternalID, internal/linuxdatapath/libovsdb_vswitch.go).  *)
(***************************************************************************)
EXTENDS DNSRecords

CONSTANTS
  Observers,   \* the observer processes
  MaxClock,    \* bound on time
  MaxAnswers,  \* bound on the answers observed
  MaxFaults    \* bound on failed saves

ASSUME ObserverAssumption ==
  /\ "agent" \notin Observers /\ MaxClock \in Nat /\ MaxAnswers \in Nat /\ MaxFaults \in Nat

\* lag: whether a process may read its cache before a change reaches it;
\* saves: bound on the agent's saves; responses: what DNS servers may answer.
DNSPlan(p) == p.lag \in BOOLEAN /\ p.saves \in Nat /\ "responses" \in DOMAIN p

VARIABLES
  plan,     \* what this behaviour exercises
  clock,
  db,       \* the column: dns, the observations; own, what the agent keeps
  view,     \* what each process has cached of it
  pending,  \* answers whose records wait for the observer's lock
  merged,   \* what the observer holding its lock is about to save, as a set
  answers, saves, faults,
  heard,    \* history: the answers given, with their times
  kept      \* history: the records whose save was reported to succeed

dnsVars == <<plan, clock, db, view, pending, merged, answers, saves, faults, heard, kept>>

Processes == Observers \cup {"agent"}

InitDNS ==
  /\ clock = 1
  /\ db = [dns |-> {}, own |-> 0]
  /\ view = [p \in Processes |-> db]
  /\ pending = [o \in Observers |-> {}]
  /\ merged = [o \in Observers |-> {}]
  /\ answers = 0 /\ saves = 0 /\ faults = 0
  /\ heard = {} /\ kept = {}

\* The proxy returns the response, then parses it; every query has its own
\* goroutine.
Answer(o) ==
  /\ answers < MaxAnswers
  /\ answers' = answers + 1
  /\ \E resp \in plan.responses :
       LET records == RecordsFromResponse(resp, clock)
       IN  /\ heard' = heard \cup {[resp |-> resp, at |-> clock]}
           /\ pending' = IF records = {} THEN pending
                         ELSE [pending EXCEPT ![o] = @ \cup {[records |-> records, at |-> clock]}]
  /\ UNCHANGED <<plan, clock, db, view, merged, saves, faults, kept>>

\* mergeAndSaveDNSObservations up to the save, for any of the waiting answers.
Load(o) ==
  /\ merged[o] = {}
  /\ \E w \in pending[o] :
       /\ pending' = [pending EXCEPT ![o] = @ \ {w}]
       /\ merged' = [merged EXCEPT ![o] =
            {[all |-> PruneExpired(MergeDNSRecords(view[o].dns, w.records), w.at),
              new |-> w.records]}]
  /\ UNCHANGED <<plan, clock, db, view, answers, saves, faults, heard, kept>>

\* A write of the column reaches the other processes now or, with a lag, later.
Write(p, column) ==
  /\ db' = column
  /\ view' = [q \in Processes |-> IF q = p \/ ~plan.lag THEN column ELSE view[q]]

Save(o) ==
  \E m \in merged[o] :
    /\ Write(o, [view[o] EXCEPT !.dns = m.all])
    /\ merged' = [merged EXCEPT ![o] = {}]
    /\ kept' = kept \cup m.new
    /\ UNCHANGED <<plan, clock, pending, answers, saves, faults, heard>>

\* The error is dropped and with it the observation.
SaveFails(o) ==
  /\ faults < MaxFaults
  /\ merged[o] # {}
  /\ merged' = [merged EXCEPT ![o] = {}]
  /\ faults' = faults + 1
  /\ UNCHANGED <<plan, clock, db, view, pending, answers, saves, heard, kept>>

\* The agent stores a status, a freeze or a rollout under a key of its own.
AgentSaves ==
  /\ saves < plan.saves
  /\ saves' = saves + 1
  /\ Write("agent", [view["agent"] EXCEPT !.own = saves + 1])
  /\ UNCHANGED <<plan, clock, pending, merged, answers, faults, heard, kept>>

\* A change reaches a process's cache.
Deliver(p) ==
  /\ view[p] # db
  /\ view' = [view EXCEPT ![p] = db]
  /\ UNCHANGED <<plan, clock, db, pending, merged, answers, saves, faults, heard, kept>>

\* Time passes; without names in the plan nothing depends on it.
Tick ==
  /\ plan.responses # {}
  /\ clock < MaxClock
  /\ clock' = clock + 1
  /\ UNCHANGED <<plan, db, view, pending, merged, answers, saves, faults, heard, kept>>
=============================================================================
