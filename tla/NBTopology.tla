----------------------------- MODULE NBTopology -----------------------------
(***************************************************************************)
(* The controller's reconcile loop over the northbound database:           *)
(* Controller.Reconcile (internal/control/controller.go) with the libovsdb *)
(* topology writer, retried by the loop of cmd/netloom-controller/main.go. *)
(* A reconcile is one cleanup transaction and one transaction per desired  *)
(* object, in a fixed order; the first error ends it.  Between any two of  *)
(* them the desired state may change, rows may drift under the controller, *)
(* a transaction may fail - before it took effect or, as seen from the     *)
(* client, after - and the process may restart.                            *)
(***************************************************************************)
EXTENDS NBAudit, Resolver

CONSTANTS
  Plans,        \* what a behaviour exercises, by name: see PlanType
  MaxChanges,   \* bound on the changes of the desired state
  MaxDrifts,    \* bound on the changes made under the controller
  MaxFaults     \* bound on failed transactions and restarts

\* states: the desired states; later: those a change may lead to; tables:
\* the tables whose rows may drift; drifts: how; start: the rows an earlier
\* run or somebody else left.
PlanType(p) ==
  /\ DOMAIN p = {"states", "later", "tables", "drifts", "start"}
  /\ p.tables \subseteq Table /\ p.drifts \subseteq {"delete", "column", "detach", "rename"}

ASSUME NBAssumption ==
  /\ \A n \in DOMAIN Plans : PlanType(Plans[n])
  /\ MaxChanges \in Nat /\ MaxDrifts \in Nat /\ MaxFaults \in Nat

VARIABLES
  plan,     \* the plan of this behaviour
  desired,  \* the desired state
  nb,       \* the northbound database
  last,     \* desired state of the writer's last successful cleanup
  seen,     \* whether the writer has had one
  todo,     \* Ensure calls left in this reconcile; empty between reconciles
  changes, drifts, faults,
  whole,    \* nothing but the controller acted since this reconcile began
  quiet     \* completed reconciles since anything else acted, up to 2

vars == <<order, plan, desired, nb, last, seen, todo, changes, drifts, faults, whole, quiet>>

Init ==
  /\ order \in {"asc", "desc"}
  /\ plan \in DOMAIN Plans
  /\ desired \in Plans[plan].states
  /\ nb = Plans[plan].start
  /\ last = <<>> /\ seen = FALSE
  /\ todo = <<>>
  /\ changes = 0 /\ drifts = 0 /\ faults = 0
  /\ whole = FALSE /\ quiet = 0

-----------------------------------------------------------------------------
Repairs(db, d) ==
  <<RepairCoreNames(db, d), RepairEndpointPorts(db, d), RepairEndpointDHCP(db, d),
    RepairRoutes(db, d), RepairGateways(db, d), RepairDNS(db, d), RepairNATRules(db, d)>>

\* The first repair that has anything to do is the only one made.
Repaired(db, d) ==
  LET done == SelectSeq(Repairs(db, d), LAMBDA b : b # db)
      lbs == RepairLoadBalancers(db, d)
  IN  CASE done # <<>> -> Head(done)
        [] done = <<>> /\ lbs # db -> lbs
        [] OTHER -> RepairSubnetPorts(db, d)

\* The live rows are only looked at on the first cleanup after a start and
\* when the desired state asks for no removal, the repairs when those ask
\* for none either.
Cleaned(db, d) ==
  LET diff == SnapshotDiff(db, last, d)
      rest(live) == IF ~seen \/ live # db THEN live ELSE Repaired(db, d)
  IN  IF seen /\ diff # db THEN diff ELSE Once(UnexpectedLive(db, d), rest)

\* The load balancers are looked at when nothing before them was done.
RepairFails(db, d) ==
  /\ seen /\ LBRepairFails(db, d)
  /\ SnapshotDiff(db, last, d) = db /\ UnexpectedLive(db, d) = db
  /\ ToSet(Repairs(db, d)) = {db}

CleanupFails(db, d) == RepairFails(db, d) \/ \E b \in {Cleaned(db, d)} : IndexClash(b)

\* A reconcile of a state that is not valid ends before it has begun.
Rejected ==
  /\ todo = <<>>
  /\ Rejects(desired)
  /\ UNCHANGED vars

\* CleanupTopology, at the start of a reconcile of the state just loaded.
Cleanup ==
  /\ todo = <<>>
  /\ ~Rejects(desired)
  /\ ~CleanupFails(nb, desired)
  /\ nb' = Settle(Cleaned(nb, desired))
  /\ last' = desired /\ seen' = TRUE
  /\ todo' = WorkList(desired)
  /\ whole' = TRUE
  /\ UNCHANGED <<order, plan, desired, changes, drifts, faults, quiet>>

\* The client reports an error although the cleanup was committed.
CleanupUnconfirmed ==
  /\ faults < MaxFaults
  /\ todo = <<>>
  /\ ~Rejects(desired)
  /\ ~CleanupFails(nb, desired)
  /\ nb' = Settle(Cleaned(nb, desired))
  /\ faults' = faults + 1
  /\ UNCHANGED <<order, plan, desired, last, seen, todo, changes, drifts, whole, quiet>>

\* The next Ensure call; the last one completes the reconcile.
EnsureNext ==
  /\ todo # <<>>
  /\ ~EnsureFails(nb, last, Head(todo))
  /\ nb' = Settle(Ensure(nb, last, Head(todo)))
  /\ todo' = Tail(todo)
  /\ quiet' = IF Tail(todo) = <<>> /\ whole THEN IF quiet = 0 THEN 1 ELSE 2 ELSE quiet
  /\ UNCHANGED <<order, plan, desired, last, seen, changes, drifts, faults, whole>>

\* An Ensure call that finds its parents missing ends the reconcile.
EnsureRefused ==
  /\ todo # <<>>
  /\ EnsureFails(nb, last, Head(todo))
  /\ todo' = <<>>
  /\ UNCHANGED <<order, plan, desired, nb, last, seen, changes, drifts, faults, whole, quiet>>

\* A transaction fails; committed tells whether it took effect all the same.
EnsureFault(committed) ==
  /\ faults < MaxFaults
  /\ todo # <<>>
  /\ ~EnsureFails(nb, last, Head(todo))
  /\ nb' = IF committed THEN Settle(Ensure(nb, last, Head(todo))) ELSE nb
  /\ faults' = faults + 1
  /\ todo' = <<>>
  /\ UNCHANGED <<order, plan, desired, last, seen, changes, drifts, whole, quiet>>

\* The process ends and starts again: the writer forgets what it did.
Restart ==
  /\ faults < MaxFaults
  /\ faults' = faults + 1
  /\ last' = <<>> /\ seen' = FALSE
  /\ todo' = <<>>
  /\ UNCHANGED <<order, plan, desired, nb, changes, drifts, whole, quiet>>

ChangeDesired ==
  /\ changes < MaxChanges
  /\ \E d \in Plans[plan].later \ {desired} : desired' = d
  /\ changes' = changes + 1
  /\ whole' = FALSE /\ quiet' = 0
  /\ UNCHANGED <<order, plan, nb, last, seen, todo, drifts, faults>>

\* A row changes under the controller.
Drifted(x, how) ==
  CASE how = "delete" -> Drop(nb, {x})
    [] how = "column" -> (nb \ {x}) \cup {[x EXCEPT !.val[1] = "drifted"]}
    [] how = "rename" -> (nb \ {x}) \cup {[x EXCEPT !.name = <<"renamed">>]}
    [] how = "detach" -> (nb \ {x}) \cup {[x EXCEPT !.up = {}]}

Drift ==
  /\ drifts < MaxDrifts
  /\ \E x \in nb, how \in Plans[plan].drifts :
       /\ x.own /\ x.tb \in Plans[plan].tables
       /\ how = "rename" => x.tb \in {"lr", "ls", "lrp", "lsp"}
       /\ nb' = Settle(Drifted(x, how))
  /\ drifts' = drifts + 1
  /\ whole' = FALSE /\ quiet' = 0
  /\ UNCHANGED <<order, plan, desired, last, seen, todo, changes, faults>>

Next ==
  \/ Rejected
  \/ Cleanup
  \/ CleanupUnconfirmed
  \/ EnsureNext
  \/ EnsureRefused
  \/ \E committed \in BOOLEAN : EnsureFault(committed)
  \/ Restart
  \/ ChangeDesired
  \/ Drift

\* The controller's loop, which reconciles again after its interval, also
\* after an error.  Waiting is when it has nothing to do that changes anything.
Loop == Cleanup \/ EnsureNext \/ EnsureRefused
Waiting == todo = <<>> /\ (Rejects(desired) \/ CleanupFails(nb, desired))

\* WF_vars(Loop), with ENABLED written out.
Fairness == []<>Waiting \/ []<><<Loop>>_vars

Spec == Init /\ [][Next]_vars /\ Fairness

-----------------------------------------------------------------------------
(***************************************************************************)
(* Properties.                                                             *)
(***************************************************************************)
RefersTo(db, x) == {y.key : y \in {z \in db : z.id \in x.up}}

\* The database has what is expected, once.
Holds(db, e) ==
  \E x \in db : /\ Mine(db, e.w.tb, e.w.key) = {x}
                /\ x.name = e.w.name /\ x.front = e.w.front /\ x.val = e.w.val
                /\ RefersTo(db, x) = e.up

\* States that are valid and yet ask for what one row cannot hold: rules that
\* differ in nothing the writer tells NAT rows apart by, two gateways of one
\* VPC, and two BFD sessions of one port with one next hop.
SharesRow(d) ==
  \/ ~Pairwise(d, "nat", LAMBDA a, b : a.vpc = b.vpc /\ NATWant(a).front = NATWant(b).front)
  \/ ~Pairwise(d, "gw", LAMBDA a, b : a.vpc = b.vpc)
  \/ \E s, t \in Objects(d, "rt") : \E b \in BFDRows(s), c \in BFDRows(t) : b # c /\ b.val = c.val

\* One undisturbed reconcile that returns without error leaves every desired
\* object in the database, whatever failed, drifted or was lost before it,
\* and no later reconcile, error or restart takes it away again.  A second
\* one leaves no managed row the desired state does not ask for: the first
\* may skip the live rows because it had removals of its own.
DesiredIsInstalled ==
  /\ quiet >= 1 /\ ~SharesRow(desired) => \A e \in ExpectedRows(desired) : Holds(nb, e)
  /\ quiet = 2 => \A x \in nb : x.own => \E e \in ExpectedRows(desired) :
                                              e.w.tb = x.tb /\ e.w.key = x.key

\* What the state being reconciled asks for, without the objects it changes.
Standing ==
  LET target == IF todo = <<>> THEN desired ELSE last
      kept == SelectSeq(target, LAMBDA o : o \in ToSet(last))
  IN  ExpectedRows(target) \cap (IF seen THEN ExpectedRows(kept) ELSE ExpectedRows(target))

\* A step of a reconcile never takes away or changes, not even until a later
\* step, a row that is right and whose object is not being changed: traffic
\* of the other objects is not interrupted.  Once two reconciles went well,
\* further ones change nothing, also after errors and restarts.
RightRowsStay ==
  [][drifts' = drifts /\ nb' # nb /\ ~SharesRow(desired) =>
       /\ \A e \in Standing : Holds(nb, e) => Holds(nb', e)
       /\ quiet = 2 => quiet' # 2]_vars

\* A row of somebody else is neither removed nor changed while the router it
\* is on stays, unless its columns are those of a desired object.
ForeignRowsStay ==
  [][\A x \in nb :
       x.own \/ x \in nb' \/ x.up \cap Ids(nb') = {}
         \/ \E e \in ExpectedRows(IF todo = <<>> THEN desired ELSE last) :
               e.w.tb = x.tb /\ RowMatches(x, e.w)]_vars

\* Once changes, drift and faults end, the database becomes what the desired
\* state asks for and stays so, if the state is valid and shares no row.
Converges == <>[](quiet = 2 \/ Rejects(desired) \/ SharesRow(desired))

\* What the validation lets through the writer can do: a reconcile nobody
\* interferes with meets no Ensure call that finds its parents missing.
AcceptedIsNotRefused ==
  whole /\ todo # <<>> => ~ParentsMissing(nb, last, Head(todo))

\* The audit reports nothing exactly when the database has what is expected
\* and nothing else.  It looks at no DHCP settings of a switch, and with an
\* empty desired state at nothing; objects that share a row, like two gateways
\* of a VPC, it can only compare with one of them.
AuditTellsTheTruth ==
  desired # <<>> /\ ~SharesRow(desired) =>
    LET wants == ExpectedRows(desired)
        blind(e) == IF e.w.tb = "ls" THEN [e EXCEPT !.w.val[2] = ~@] ELSE e
    IN  Audit(nb, desired) = NoIssues
          <=> /\ \A e \in wants : Holds(nb, e) \/ Holds(nb, blind(e))
              /\ \A x \in nb : x.own => \E e \in wants : e.w.tb = x.tb /\ e.w.key = x.key

\* The validation leaves no two objects that would answer for one packet:
\* route-explain gives one answer, whatever the order of maps and of the file.
RoutesAreUnambiguous ==
  quiet = 2 => \A p \in Packets : /\ Cardinality(Resolve(desired, p)) = 1
                                  /\ Resolve(Reverse(desired), p) = Resolve(desired, p)
=============================================================================
