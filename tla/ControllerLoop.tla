---------------------------- MODULE ControllerLoop ----------------------------
(***************************************************************************)
(* The controller's reconcile loop (stateFileReconciler of                 *)
(* cmd/netloom-controller/main.go) with everything a pass depends on: the  *)
(* connection to the northbound cluster, the desired state in the          *)
(* Open_vSwitch row, identity groups from a feed, and the health of load   *)
(* balancer backends.  Next to it, `netloom-agent desired-state-import'    *)
(* and the agent's freeze requests write the same row.  What applying a    *)
(* state does to the northbound database is the subject of NBTopology.     *)
(***************************************************************************)
EXTENDS Integers, Sequences

CONSTANTS
  \* Version (1, 2, ...) -> the desired state: its health-checked ports, in
  \* order, and its identity groups.
  Document,
  Local,     \* the observations kept in the row
  Scenario   \* feature -> how often, at most, it disturbs a behaviour

CONSTANTS
  Servers, LeaderProbe, Cooldown, MaxBackoff, Edition, FeedBackoff, MaxTime,
  Backend, SuccessCount, FailureCount, Endpoint, Request, SaveFaults

Version == DOMAIN Document

\* The controller has a client to read the desired state and one to report.
Controller == {"reader", "reporter"}

\* The controller and the agent are there or not; the others are events.
Feature == {"controller", "agent", "nb", "feed", "backends", "import", "freeze", "restart"}

ASSUME LoopAssumption ==
  /\ Scenario \subseteq [Feature -> Nat]
  /\ Servers \in Nat \ {0} /\ LeaderProbe \in BOOLEAN
  /\ Cooldown \in Nat /\ MaxBackoff \in Nat \ {0}
  /\ FeedBackoff \in Nat \ {0} /\ MaxTime \in Nat
  /\ SuccessCount \in Nat \ {0} /\ FailureCount \in Nat \ {0}
  /\ SaveFaults \in BOOLEAN
  /\ 1 \in Version

\* A list of identity groups has no two of the same name.
ASSUME GroupAssumption ==
  /\ 1 \in DOMAIN Edition /\ 0 \notin DOMAIN Edition
  /\ \A groups \in {Document[v].groups : v \in Version} \cup {Local}
                     \cup {Edition[e] : e \in DOMAIN Edition} :
       /\ \A g \in groups : g.at \in Int /\ g.ttl \in Nat
       /\ \A g, h \in groups : g.name = h.name => g = h

VARIABLES
  left,      \* feature -> how often it may still disturb
  stage,     \* where the pass is
  pass,      \* what it has put together
  applied,   \* what the northbound database was last made to hold
  importer   \* the import in progress

VARIABLES ids, view, lost
Row == INSTANCE OpenVSwitchRow

VARIABLES answers, session, cooling, wait, failures, check
NB == INSTANCE NBConnection

VARIABLES serving, edition, cache, clock
Feed == INSTANCE IdentityFeed

VARIABLES alive, tracker, probed
LB == INSTANCE BackendHealth

VARIABLES frozen, late, request, owed
Agent == INSTANCE PolicyFreeze

row == <<ids, view, lost>>
conn == <<answers, session, cooling, wait, failures, check>>
feed == <<serving, edition, cache, clock>>
health == <<alive, tracker, probed>>
freezer == <<frozen, late, request, owed>>
loop == <<stage, pass, applied>>
vars == <<left, loop, importer, row, conn, feed, health, freezer>>

Runs(process) == left[process] > 0

NoPass == [version |-> 0]
NoImport == [pc |-> "none"]

Init ==
  /\ left \in Scenario
  /\ stage = (IF Runs("controller") THEN "idle" ELSE "down") /\ pass = NoPass /\ applied = NoPass
  /\ importer = NoImport
  /\ \E version \in {0, 1} :
       Row!Init([state |-> version, revision |-> version, freeze |-> Agent!NoneFrozen],
                (IF Runs("controller") THEN Controller ELSE {})
                  \cup (IF Runs("agent") THEN {"agent"} ELSE {}))
  /\ NB!Init /\ Feed!Init(IF left.feed > 0 THEN 0 ELSE MaxTime) /\ LB!Init(Backend) /\ Agent!Init

Happens(feature) ==
  left[feature] > 0 /\ left' = [left EXCEPT ![feature] = @ - 1]

-----------------------------------------------------------------------------
(* stateFileReconciler.reconcile                                           *)

\* The interval is over.
Begin ==
  /\ stage = "idle"
  /\ stage' = "begun"
  /\ NB!TimersRun /\ Feed!TimePasses
  /\ UNCHANGED <<left, pass, applied, importer, row, health, freezer,
                 answers, session, failures, check, serving, edition>>

\* probeOVNHealth
CheckConnection ==
  /\ stage = "begun"
  /\ NB!HealthCheck
  /\ stage' = "checking"
  /\ UNCHANGED <<left, pass, applied, importer, row, feed, health, freezer>>

Reconnect ==
  /\ stage = "checking"
  /\ NB!Dial \/ NB!GiveUp \/ NB!EchoAgain
  /\ UNCHANGED <<left, loop, importer, row, feed, health, freezer>>

\* An error ends the pass with an event, and with nothing else.
Fails == stage' = "event" /\ pass' = NoPass /\ applied' = applied

CheckFailed ==
  /\ stage = "checking" /\ check.pc = "failed"
  /\ Fails
  /\ UNCHANGED <<left, importer, row, conn, feed, health, freezer>>

\* loadDesiredStateFromPathOrOVSDB reads the state, if there is one ...
LoadState ==
  /\ stage = "checking" /\ check.pc = "ok"
  /\ IF view["reader"].state \in Version
     THEN /\ pass' = [version |-> view["reader"].state]
          /\ stage' = "loading" /\ UNCHANGED applied
     ELSE Fails
  /\ UNCHANGED <<left, importer, row, conn, feed, health, freezer>>

\* ValidateDesiredStateRevision
Accepts(version, revision) == revision \in {0, version}

\* ... and then, separately, its revision.
LoadRevision ==
  /\ stage = "loading"
  /\ IF Accepts(pass.version, view["reader"].revision)
     THEN stage' = "identities" /\ UNCHANGED <<pass, applied>>
     ELSE Fails
  /\ UNCHANGED <<left, importer, row, conn, feed, health, freezer>>

\* MergeIdentityGroupObservations
Identities(version, observed) ==
  Feed!PruneExpired(
    Feed!MergeIdentityGroups(
      Feed!MergeIdentityGroups(Document[version].groups, Local), observed),
    clock)

MergeIdentities ==
  /\ stage = "identities"
  /\ \/ /\ Feed!CachedAnswer \/ Feed!FailureTolerated \/ Feed!Fetch
        /\ pass' = [version |-> pass.version,
                    groups |-> Identities(pass.version, cache'.groups)]
        /\ stage' = "backends" /\ UNCHANGED applied
     \/ Feed!FetchFails /\ Fails
  /\ UNCHANGED <<left, importer, row, conn, health, freezer>>

\* applyLoadBalancerHealthChecks
ProbeBackends ==
  /\ stage = "backends"
  /\ LET ports == Document[pass.version].ports IN
     \/ /\ LB!CheckBackends(ports)
        /\ pass' = [version |-> pass.version, groups |-> pass.groups,
                    served |-> {b \in Backend : tracker'[b].healthy}]
        /\ stage' = "apply" /\ UNCHANGED applied
     \/ LB!CheckFails(ports) /\ Fails
  /\ UNCHANGED <<left, importer, row, conn, feed, freezer>>

\* Controller.Reconcile.  When it fails, how much was done is open.
Apply ==
  /\ stage = "apply"
  /\ IF session.state = "live"
     THEN applied' = pass /\ stage' = "report"
     ELSE applied' = NoPass /\ stage' = "event"
  /\ pass' = NoPass
  /\ UNCHANGED <<left, importer, row, conn, feed, health, freezer>>

\* syncOVSDBControlStatus, then syncOVSDBControllerEvent.
Report ==
  /\ stage \in {"report", "event"}
  /\ Row!Report("reporter")
  /\ stage' = IF stage = "report" THEN "event" ELSE "idle"
  /\ UNCHANGED <<left, pass, applied, importer, conn, feed, health, freezer>>

\* The process ends ...
Exit ==
  /\ Happens("restart") /\ stage # "down"
  /\ stage' = "down" /\ pass' = NoPass
  /\ check' = NB!Verdict("none")
  /\ cache' = Feed!NoCache
  /\ LB!Forget
  /\ Row!Disconnect(Controller)
  /\ UNCHANGED <<applied, importer, freezer, serving, edition, clock,
                 answers, session, cooling, wait, failures>>

\* ... and another one gets through newStateFileReconciler, which fails
\* without a northbound server.
Start ==
  /\ stage = "down" /\ Runs("controller")
  /\ NB!ConnectAfresh
  /\ Row!Connect(Controller)
  /\ stage' = "idle"
  /\ UNCHANGED <<left, pass, applied, importer, feed, health, freezer>>

Loop ==
  \/ Begin \/ CheckConnection \/ Reconnect \/ CheckFailed
  \/ LoadState \/ LoadRevision \/ MergeIdentities \/ ProbeBackends
  \/ Apply \/ Report \/ Start

-----------------------------------------------------------------------------
(* netloom-agent desired-state-import                                      *)

\* A new client, and a state that LoadDesiredStateJSON and
\* ValidateDesiredState accept.  Versions are numbered as they come.
ImportBegins ==
  /\ Happens("import") /\ importer = NoImport
  /\ \E v \in Version :
       /\ v > ids.state
       /\ importer' = [pc |-> "owner", version |-> v]
  /\ Row!Connect({"importer"})
  /\ UNCHANGED <<loop, conn, feed, health, freezer>>

\* Its writes: a mark of ownership, the state, its revision, and a summary.
\* The mark is there already, usually, and the summary may be the same.
ImportWrites ==
  /\ importer # NoImport /\ importer.pc # "done"
  /\ IF importer.pc \in {"state", "revision"}
     THEN Row!Set("importer", importer.pc, importer.version)
     ELSE Row!Report("importer") \/ UNCHANGED row
  /\ importer' = [importer EXCEPT !.pc =
       CASE @ = "owner" -> "state" [] @ = "state" -> "revision"
         [] @ = "revision" -> "summary" [] OTHER -> "done"]
  /\ UNCHANGED <<left, loop, conn, feed, health, freezer>>

\* It returns, or fails or is interrupted between two writes.
ImportEnds ==
  /\ importer # NoImport
  /\ importer' = NoImport
  /\ Row!Disconnect({"importer"})
  /\ UNCHANGED <<left, loop, conn, feed, health, freezer>>

-----------------------------------------------------------------------------
(* The agent's freeze requests                                             *)
Freeze ==
  /\ Runs("agent")
  /\ \E r \in Request :
       \/ /\ Happens("freeze")
          /\ \E e \in Endpoint, entry \in Agent!Entry : Agent!Change(r, e, entry)
       \/ UNCHANGED left /\ (Agent!Prune(r) \/ Agent!Restore(r))
  /\ UNCHANGED <<loop, importer, row, conn, feed, health>>

\* A failed write may have taken effect.
SaveFreeze ==
  /\ Runs("agent")
  /\ \E r \in Request :
       \/ Agent!Save(r) /\ Row!Set("agent", "freeze", request[r].next)
       \/ /\ Agent!SaveFails(r)
          /\ Row!Set("agent", "freeze", request[r].next) \/ UNCHANGED row
  /\ UNCHANGED <<left, loop, importer, conn, feed, health>>

\* The agent reports about its passes like the controller.
AgentReports ==
  /\ Runs("agent")
  /\ Row!Report("agent")
  /\ UNCHANGED <<left, loop, importer, conn, feed, health, freezer>>

AgentRestarts ==
  /\ Runs("agent")
  /\ Agent!Restart(ids.freeze, "freeze" \in lost)
  /\ Row!Connect({"agent"})
  /\ UNCHANGED <<left, loop, importer, conn, feed, health>>

DeadlinePasses ==
  /\ Runs("agent") /\ Agent!Deadline
  /\ UNCHANGED <<left, loop, importer, row, conn, feed, health>>

-----------------------------------------------------------------------------
(* The rest of the world.                                                  *)
Monitor(c) ==
  /\ Row!Deliver(c)
  /\ UNCHANGED <<left, loop, importer, conn, feed, health, freezer>>

Disturbance ==
  /\ \/ /\ Happens("nb")
        /\ (\E s \in 1..Servers : NB!ServerStops(s)) \/ NB!ConnectionBreaks
        /\ UNCHANGED <<feed, health>>
     \/ /\ Happens("feed")
        /\ Feed!FeedStops \/ Feed!FeedChanges
        /\ UNCHANGED <<conn, health>>
     \/ /\ Happens("backends")
        /\ \E b \in Backend : LB!BackendStops(b)
        /\ UNCHANGED <<conn, feed>>
  /\ UNCHANGED <<loop, importer, row, freezer>>

Recovery ==
  /\ \/ \E s \in 1..Servers : NB!ServerStarts(s) /\ UNCHANGED <<feed, health>>
     \/ Feed!FeedStarts /\ UNCHANGED <<conn, health>>
     \/ \E b \in Backend : LB!BackendStarts(b) /\ UNCHANGED <<conn, feed>>
  /\ UNCHANGED <<left, loop, importer, row, freezer>>

Next ==
  \/ Loop \/ Exit
  \/ ImportBegins \/ ImportWrites \/ ImportEnds
  \/ Freeze \/ SaveFreeze \/ AgentReports \/ AgentRestarts
  \/ DeadlinePasses
  \/ \E c \in DOMAIN view : Monitor(c)
  \/ Disturbance \/ Recovery

\* A step of the controller is possible.
CanStep == stage # "down" \/ (Runs("controller") /\ answers # {})
CanRead == "reader" \in DOMAIN view /\ view["reader"] # ids

\* runReconcileLoop goes on after every error, a supervisor starts the process
\* again, and monitors deliver: weak fairness of both, with their guards
\* written out.
Fairness ==
  /\ []<>~CanStep \/ []<><<Loop>>_vars
  /\ []<>~CanRead \/ []<><<CanRead /\ Monitor("reader")>>_vars

Spec == Init /\ [][Next]_vars /\ Fairness

-----------------------------------------------------------------------------
(* Properties                                                              *)

(* A reconnection is given up only when no server answered throughout it:  *)
(* every endpoint is dialled, also those that failed lately, wherever the  *)
(* round starts (Connect, main.go:2672-2731).                              *)
GivesUpOnlyWhenNoneAnswers ==
  check.pc = "dial" /\ DOMAIN check.todo = {} => check.steady = {}

(* A pass works with the newest identity groups: of the desired state, the *)
(* node, and the edition of the feed whose tag the cache would send,       *)
(* whatever mixture of snapshots, patches, outages and restarts brought    *)
(* the cache there (identity_observation.go:224-505).                      *)
IdentitiesAreTheNewest ==
  stage = "backends" =>
    pass.groups = Feed!Newest(<<Document[pass.version].groups, Local,
                                IF cache.etag = 0 THEN {} ELSE Edition[cache.etag]>>, clock)

(* A verdict turns exactly when FailureCount probes failed in a row or     *)
(* SuccessCount succeeded, across reconcile passes, passes that another    *)
(* port failed included, and never otherwise: "honors the configured       *)
(* success_count and failure_count across reconcile loops"                 *)
(* (docs/design/cilium-ebpf-acl.md:166, lb_health.go:111-134).             *)
VerdictsFollowProbes ==
  [][\A b \in Backend : LB!Tracked(tracker'[b]) =>
       LET before == tracker[b].healthy \/ ~LB!Tracked(tracker[b]) IN
       tracker'[b].healthy =
         IF LB!InARow(probed'[b], "failed", FailureCount) THEN FALSE
         ELSE IF LB!InARow(probed'[b], "ok", SuccessCount) THEN TRUE
         ELSE before]_health

(* A confirmed freeze or unfreeze is what the readers of the frozen set    *)
(* see, across failures of other requests, restarts and other writers of   *)
(* the row, until the next request for the endpoint or its deadline        *)
(* (main.go:6438-6491).  What a client with an outdated cache turns back   *)
(* in the row is out of its hands.                                         *)
ConfirmedIsInForce ==
  \A e \in Endpoint : \E entry \in owed[e] :
    Agent!Expired(entry, late) \/ frozen[e] = entry

\* Nothing outside the controller stands in the way of a pass: a northbound
\* server answers, the row has a state and its revision, every port has a
\* backend that answers, and the feed does not fail, or send patches, while
\* nothing is cached.
Able ==
  /\ Runs("controller") /\ answers # {}
  /\ ids.state # 0 /\ Accepts(ids.state, ids.revision)
  /\ \A i \in DOMAIN Document[ids.state].ports : Document[ids.state].ports[i].up \cap alive # {}
  /\ cache.groups # {} \/ (serving /\ cache.etag \in {0, edition})

\* What the database should hold then.
Wanted ==
  [version |-> ids.state,
   groups |-> Identities(ids.state, IF serving THEN Edition[edition] ELSE cache.groups),
   served |-> UNION {Document[ids.state].ports[i].up \cap alive :
                       i \in DOMAIN Document[ids.state].ports}]

(* However servers, connections, the feed, backends, imports and the       *)
(* process itself failed before, once nothing stands in the way the        *)
(* controller reconnects and applies the state in the row, with the        *)
(* identity groups of the feed's last edition and the backends that        *)
(* answer: no backoff, cooldown, cache or counter keeps it from that.      *)
Recovers == <>[]Able => <>[](ids.state # 0 => applied = Wanted)
=============================================================================
