--------------------------- MODULE ProviderNetwork ---------------------------
(***************************************************************************)
(* Provider networks on a node: the provider part of Apply                 *)
(* (internal/linuxdatapath/netlink.go, datapath.go).  It picks the parent  *)
(* device of every network, makes one VLAN link per network and VLAN,      *)
(* removes its other links, brings the Open_vSwitch database in line with  *)
(* one transaction computed from the client's cache, and reads back what   *)
(* is still wrong.  The agent calls it again after an interval, also after *)
(* an error.  Devices come and go, the desired state changes, rows change  *)
(* under the agent and a call may end anywhere.                            *)
(***************************************************************************)
EXTENDS ProviderRows

CONSTANTS
  Nic,          \* parent devices
  Plans,        \* what a behaviour exercises: see PlanType
  MaxChanges,   \* bound on changes of the desired state and of devices
  MaxDrifts,    \* bound on the changes made under the agent
  MaxFaults     \* bound on calls that fail or end halfway

\* states: the desired states; nics: what devices may become; drifts: how rows
\* may change; start: the rows there at first; cleanup: the option CleanupStale.
PlanType(p) ==
  /\ DOMAIN p = {"states", "nics", "drifts", "start", "cleanup"}
  /\ p.nics \subseteq {"up", "down", "absent"} /\ p.cleanup \in BOOLEAN

ASSUME ProviderAssumption ==
  /\ \A p \in Plans : PlanType(p)
  /\ MaxChanges \in Nat /\ MaxDrifts \in Nat /\ MaxFaults \in Nat

VARIABLES
  plan,      \* the plan of this behaviour
  desired,   \* the desired state
  nics,      \* the state of every device
  links,     \* names of the VLAN links there are
  db,        \* the Open_vSwitch database
  stage,     \* where the call of Apply is
  goal,      \* specifications and identity groups of this call
  todo,      \* specifications whose link is not ensured yet
  txn,       \* operations about to be sent
  seen,      \* ids of the rows in the cache they were computed from
  issues,    \* issues reported by the last call
  changes, drifts, faults,
  whole,     \* nothing but the agent acted since this call began
  quiet      \* an undisturbed call returned since anything else acted

vars == <<order, plan, desired, nics, links, db, stage, goal, todo, txn, seen, issues,
          changes, drifts, faults, whole, quiet>>
world == <<order, plan, desired, nics, changes, drifts>>

NoGoal == [specs |-> {}, groups |-> ""]

Init ==
  /\ order \in {"asc", "desc"}
  /\ plan \in Plans
  /\ desired \in plan.states
  /\ nics = [n \in Nic |-> "up"]
  /\ links = {}
  /\ db = plan.start
  /\ stage = "idle" /\ goal = NoGoal /\ todo = {} /\ txn = <<>> /\ seen = {} /\ issues = {}
  /\ changes = 0 /\ drifts = 0 /\ faults = 0
  /\ whole = FALSE /\ quiet = FALSE

-----------------------------------------------------------------------------
(***************************************************************************)
(* Planning: desiredProviderNetworkLinkSpecs.  The desired state is        *)
(* [nets, subnets, local, groups]; a network is [net, nic, cands,         *)
(* fallback, iso, ctls, qos, queues], "" for no device named on this node. *)
(***************************************************************************)
\* The first candidate that is up, or else the first there is.
SelectCandidate(cands) ==
  LET ready == SelectSeq(cands, LAMBDA c : nics[c] = "up")
      there == SelectSeq(cands, LAMBDA c : nics[c] # "absent")
  IN  CASE ready # <<>> -> Head(ready)
        [] ready = <<>> /\ there # <<>> -> Head(there)
        [] OTHER -> ""

Unresolved(n) == n.nic = "" /\ n.cands # <<>> /\ SelectCandidate(n.cands) = ""

Parent(n) ==
  CASE n.nic # "" -> n.nic
    [] n.nic = "" /\ n.cands # <<>> -> SelectCandidate(n.cands)
    [] OTHER -> n.fallback

Spec1(n, vlan) ==
  [net |-> n.net, nic |-> Parent(n), vlan |-> vlan, iso |-> n.iso,
   ctls |-> n.ctls, qos |-> n.qos, queues |-> n.queues]

LinkSpecs(d) ==
  {Spec1(n, s.vlan) : <<n, s>> \in {x \in d.nets \X d.subnets : x[1].net = x[2].net /\ Parent(x[1]) # ""}}

PlanIssues(d) ==
  {<<"candidate", n.net>> : n \in {x \in d.nets : Unresolved(x)}}
    \cup {<<"unmapped", n.net>> : n \in {x \in d.nets : Parent(x) = "" /\ x.net \in d.local}}
    \cup {<<"shared", s.net>> : s \in {x \in LinkSpecs(d) : \E y \in LinkSpecs(d) :
                                         x.nic = y.nic /\ x.net # y.net}}

\* The first issue met ends the call.
PlanRefused ==
  /\ stage = "idle"
  /\ \E i \in PlanIssues(desired) : issues' = {i}
  /\ UNCHANGED <<world, links, db, stage, goal, todo, txn, seen, faults, whole, quiet>>

PlanLinks ==
  /\ stage = "idle"
  /\ PlanIssues(desired) = {}
  /\ stage' = "links"
  /\ goal' = [specs |-> LinkSpecs(desired), groups |-> desired.groups]
  /\ todo' = LinkSpecs(desired)
  /\ issues' = {}
  /\ whole' = TRUE
  /\ UNCHANGED <<world, links, db, txn, seen, faults, quiet>>

-----------------------------------------------------------------------------
(***************************************************************************)
(* VLAN links: ensureProviderNetworkLink, cleanupStaleProviderNetworkLinks.*)
(* The kernel has one link per device and VLAN; that it refuses a second   *)
(* is not taken for an error, that the link is not there then is.          *)
(***************************************************************************)
Taken(s) == \E l \in links : l # LinkName(s) /\ Tail(l) = <<s.nic, s.vlan>>
CannotEnsure(s) == nics[s.nic] = "absent" \/ Taken(s)

EnsureLink ==
  /\ stage = "links"
  /\ \E s \in todo :
       /\ ~CannotEnsure(s)
       /\ links' = links \cup {LinkName(s)}
       /\ issues' = IF nics[s.nic] = "up" THEN issues ELSE issues \cup {<<"link", LinkName(s)>>}
       /\ todo' = todo \ {s}
  /\ UNCHANGED <<world, db, stage, goal, txn, seen, faults, whole, quiet>>

EnsureLinkRefused ==
  /\ stage = "links"
  /\ \E s \in todo :
       /\ CannotEnsure(s)
       /\ issues' = issues \cup {<<"link", LinkName(s)>>}
  /\ stage' = "idle" /\ goal' = NoGoal /\ todo' = {}
  /\ UNCHANGED <<world, links, db, txn, seen, faults, whole, quiet>>

CleanupLinks ==
  /\ stage = "links" /\ todo = {}
  /\ links' = IF plan.cleanup THEN links \cap {LinkName(s) : s \in goal.specs} ELSE links
  /\ stage' = "read"
  /\ UNCHANGED <<world, db, goal, todo, txn, seen, issues, faults, whole, quiet>>

-----------------------------------------------------------------------------
(***************************************************************************)
(* The database: executeProviderOVSDBSync, appendProviderOVSDBIssues.      *)
(***************************************************************************)
SyncRead ==
  /\ stage = "read"
  /\ \E ctl \in {"asc", "desc"} : txn' = SyncOps(db, goal.specs, goal.groups, plan.cleanup, ctl)
  /\ seen' = Ids(db)
  /\ stage' = "commit"
  /\ UNCHANGED <<world, links, db, goal, todo, issues, faults, whole, quiet>>

SyncCommit ==
  /\ stage = "commit"
  /\ \E b \in {Run(db, txn)} : Valid(b) /\ db' = b
  /\ stage' = "status" /\ txn' = <<>> /\ seen' = {}
  /\ UNCHANGED <<world, links, goal, todo, issues, faults, whole, quiet>>

\* The server refuses the transaction.
SyncRefused ==
  /\ stage = "commit"
  /\ ~Valid(Run(db, txn))
  /\ stage' = "idle" /\ goal' = NoGoal /\ txn' = <<>> /\ seen' = {}
  /\ UNCHANGED <<world, links, db, todo, issues, faults, whole, quiet>>

ReadStatus ==
  /\ stage = "status"
  /\ \E ctl \in {"asc", "desc"} : issues' = issues \cup StatusIssues(db, goal.specs, ctl)
  /\ stage' = "idle" /\ goal' = NoGoal
  /\ quiet' = (quiet \/ whole)
  /\ UNCHANGED <<world, links, db, todo, txn, seen, faults, whole>>

\* A call fails where it is, or the agent restarts; committed tells whether
\* the transaction took effect all the same.
Fault(committed) ==
  /\ faults < MaxFaults
  /\ stage # "idle"
  /\ committed => stage = "commit" /\ Valid(Run(db, txn))
  /\ db' = IF committed THEN Run(db, txn) ELSE db
  /\ stage' = "idle" /\ goal' = NoGoal /\ todo' = {} /\ txn' = <<>> /\ seen' = {}
  /\ faults' = faults + 1
  /\ UNCHANGED <<world, links, issues, whole, quiet>>

-----------------------------------------------------------------------------
(***************************************************************************)
(* What others do.                                                         *)
(***************************************************************************)
ChangeDesired ==
  /\ changes < MaxChanges
  /\ \E d \in plan.states \ {desired} : desired' = d
  /\ changes' = changes + 1
  /\ whole' = FALSE /\ quiet' = FALSE
  /\ UNCHANGED <<order, plan, nics, drifts, links, db, stage, goal, todo, txn, seen, issues, faults>>

\* The links on a device go with it.
ChangeNic ==
  /\ changes < MaxChanges
  /\ \E n \in Nic : \E st \in plan.nics \ {nics[n]} :
       /\ nics' = [nics EXCEPT ![n] = st]
       /\ links' = IF st = "absent" THEN {l \in links : l[2] # n} ELSE links
  /\ changes' = changes + 1
  /\ whole' = FALSE /\ quiet' = FALSE
  /\ UNCHANGED <<order, plan, desired, drifts, db, stage, goal, todo, txn, seen, issues, faults>>

Replace(b, x, y) == (b \ {x}) \cup {y}
Unlinked(b, id) == {[x EXCEPT !.refs = {r \in @ : r[2] # id}] : x \in b}
Relinked(b, id, new) ==
  {[x EXCEPT !.refs = UNION {IF r[2] = id THEN {<<r[1], n>> : n \in new} ELSE {r} : r \in @}] : x \in b}

ForeignRow(tb, refs) ==
  [id |-> 100 + drifts, tb |-> tb, name |-> <<"other", tb>>, own |-> FALSE, val |-> <<"other">>, refs |-> refs]

\* Where a row of x's kind is put by somebody else instead of netloom's.
Slot(x) == CASE x.tb = "port" -> "qos" [] x.tb = "bridge" -> "controller" [] OTHER -> ""

Drifted(x, how) ==
  CASE how = "delete" -> Unlinked(db \ {x}, x.id)
    [] how = "column" ->
         Replace(db, x, [x EXCEPT !.val = IF x.tb = "root" THEN <<{}, "drifted", "root">>
                                          ELSE [@ EXCEPT ![1] = "drifted"]])
    [] how = "disown" -> Replace(db, x, [x EXCEPT !.own = FALSE])
    [] how = "detach" ->
         Replace(db, x, [x EXCEPT !.refs = {r \in @ : r[1] \notin {"qos", "controller"} \cup QueueId}])
    [] how = "copy" ->
         Relinked(db, x.id, {x.id, 100 + drifts}) \cup {[x EXCEPT !.id = 100 + drifts]}
    [] how = "swap" ->
         Relinked(db, x.id, {100 + drifts}) \cup {[x EXCEPT !.id = 100 + drifts]}
    [] how = "usurp" ->
         Replace(db, x, [x EXCEPT !.refs = {r \in @ : r[1] # Slot(x)} \cup {<<Slot(x), 100 + drifts>>}])
           \cup {ForeignRow(IF x.tb = "port" THEN "qos" ELSE "controller", {})}
    [] how = "move" ->
         {IF b.tb = "bridge" /\ ~b.own THEN [b EXCEPT !.refs = @ \cup {<<"ports", x.id>>}] ELSE b :
            b \in Unlinked(db, x.id)}
    [] how = "bridge" ->
         Replace(db, x, [x EXCEPT !.refs = @ \cup {<<"bridges", 100 + drifts>>}]) \cup {ForeignRow("bridge", {})}

Applies(x, how) ==
  CASE how = "bridge" -> x.tb = "root"
    [] how = "column" -> TRUE
    [] how \in {"delete", "disown"} -> x.tb # "root"
    [] how = "detach" -> x.tb \in {"port", "bridge", "qos"}
    [] how = "copy" -> x.tb = "controller"
    [] how = "swap" -> x.tb \in {"qos", "queue"}
    [] how = "usurp" -> x.tb \in {"port", "bridge"}
    [] how = "move" -> x.tb = "port"

\* A row changes under the agent.
Drift ==
  /\ drifts < MaxDrifts
  /\ \E x \in db, how \in plan.drifts :
       /\ x.own /\ Applies(x, how)
       /\ db' = Settle(Drifted(x, how))
  /\ Valid(db')
  /\ drifts' = drifts + 1
  /\ whole' = FALSE /\ quiet' = FALSE
  /\ UNCHANGED <<order, plan, desired, nics, changes, links, stage, goal, todo, txn, seen, issues, faults>>

Next ==
  \/ PlanRefused
  \/ PlanLinks
  \/ EnsureLink
  \/ EnsureLinkRefused
  \/ CleanupLinks
  \/ SyncRead
  \/ SyncCommit
  \/ SyncRefused
  \/ ReadStatus
  \/ \E committed \in BOOLEAN : Fault(committed)
  \/ ChangeDesired
  \/ ChangeNic
  \/ Drift

\* The agent's loop calls Apply after every interval.
Spec ==
  /\ Init /\ [][Next]_vars
  /\ WF_vars(PlanLinks) /\ WF_vars(EnsureLink) /\ WF_vars(EnsureLinkRefused) /\ WF_vars(CleanupLinks)
  /\ WF_vars(SyncRead) /\ WF_vars(SyncCommit) /\ WF_vars(SyncRefused) /\ WF_vars(ReadStatus)

-----------------------------------------------------------------------------
(***************************************************************************)
(* Properties.                                                             *)
(***************************************************************************)
\* The rows a row refers to, as a wanted row does.
Described(b, x) ==
  {<<r[1], y.tb, y.name>> : <<r, y>> \in {z \in x.refs \X b : z[1][2] = z[2].id}}

Right(b, x, w) == x.val = w.val /\ w.refs \subseteq Described(b, x)

\* An undisturbed call that returns without error leaves every VLAN link and
\* every row of the provider networks as desired, whatever happened before it;
\* with CleanupStale it leaves no other link and no other row of netloom's.
InSync ==
  LET specs == LinkSpecs(desired)
      names == {LinkName(s) : s \in specs}
  IN  quiet =>
        /\ names \subseteq links
        /\ Root(db).val = RootVal(specs, desired.groups)
        /\ \A w \in Wants(specs) : \E x \in Mine(db, w.tb, w.name) : Right(db, x, w)
        /\ \A p \in At(db, "port") : p.name \in names => Cardinality(Holding(db, "bridge", p.id)) = 1
        /\ plan.cleanup =>
             /\ links \subseteq names
             /\ \A x \in db : x.own /\ x.tb # "root" =>
                  /\ Mine(db, x.tb, x.name) = {x}
                  /\ \E w \in Wants(specs) : w.tb = x.tb /\ w.name = x.name

\* A row of somebody else outlives every transaction computed from a cache that
\* had it, but for controllers, which netloom's take the place of.
ForeignStays ==
  [][\A x \in db : x.name[1] = "other" /\ x.tb # "controller" /\ x.id \in seen
       => \E y \in db' : y.id = x.id /\ y.val = x.val /\ ~y.own]_vars

\* When the status reader finds nothing wrong, the rows are as desired, but for
\* the targets of controllers; and when they are, it finds nothing wrong, but
\* for the root if there are identity groups, and the ports of exclusive
\* networks, neither of which it compares with what was written.
StatusTellsTheTruth ==
  LET specs == LinkSpecs(desired)
      off == StatusIssues(db, specs, order)
      known == {<<"root", LinkName(s)>> : s \in {x \in specs : desired.groups # ""}}
                 \cup {<<"port", LinkName(s)>> : s \in {x \in specs : x.iso # ""}}
  IN  /\ quiet => off \subseteq known
      /\ specs # {} /\ off = {} =>
           \A w \in Wants(specs) : w.tb # "controller" =>
             \E x \in Mine(db, w.tb, w.name) : Right(db, x, w)

\* What the server refuses: emptying a port that is not, or no longer,
\* netloom's of an interface that is and is not wanted; and taking two such
\* queues from one QoS, where each of the updates restores the other queue.
Orphaned ==
  LET stale(tb) == Stale(db, tb, Wants(LinkSpecs(desired)))
  IN  \/ \E p \in At(db, "port"), i \in stale("interface") :
             ~p.own /\ Refs(p, "interfaces") = {<<"interfaces", i.id>>}
      \/ \E x \in At(db, "qos") : \E q1, q2 \in stale("queue") :
             ~x.own /\ q1 # q2 /\ {q1.id, q2.id} \subseteq {r[2] : r \in x.refs}

Stuck ==
  \/ PlanIssues(desired) # {}
  \/ \E s \in LinkSpecs(desired) : CannotEnsure(s)
  \/ Orphaned

\* Once changes, drift and faults end, a call succeeds, unless the plan is
\* refused, a device is missing, another link is in the way of a wanted one,
\* or the server refuses to remove the interface of an orphaned port.
Converges == <>[](quiet \/ Stuck)
=============================================================================
