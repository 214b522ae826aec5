---------------------------- MODULE AgentReconcile ----------------------------
(***************************************************************************)
(* The agent's reconcile loop (Reconciler.Reconcile and prepareReconcile   *)
(* of internal/agent/reconcile.go, reconcileStateFile of                   *)
(* cmd/netloom-agent/main.go) over an atomic policy store, next to the     *)
(* HTTP handlers that act on the same store without a common lock: which   *)
(* endpoint policies are installed, removed or quarantined, what a freeze  *)
(* holds, and which connection tracking state survives.  Rollouts, which   *)
(* take over the installation when the desired state has one, are the      *)
(* subject of Rollout; TCX attachments that of TCXSync.                    *)
(***************************************************************************)
EXTENDS Integers, FiniteSets

CONSTANTS
  Endpoint,   \* endpoint ids
  Version,    \* compiled policies that allow some stateful flow
  Gone,       \* no policy: not installed, or not on this node
  Deny,       \* the deny-all entries of a quarantine
  Uses        \* the sets of features an agent may be run with

\* With "pinned", endpoint policies outlive the process.
Feature ==
  {"exit", "pinned", "freeze", "rollout", "pressure", "sweep", "api", "flow"}

ASSUME AgentAssumption ==
  /\ Uses \subseteq SUBSET Feature
  /\ Gone # Deny /\ {Gone, Deny} \cap Version = {}

VARIABLES
  features,   \* what happens in this run: an element of Uses
  desired,    \* endpoint -> compiled policy on this node, or Gone
  rollouts,   \* TRUE: the desired state has an active rollout for the node
  policy,     \* endpoint -> installed policy
  frozen,     \* m.frozenEndpoints
  published,  \* the desired state of the last successful reconcile, or Gone
  signatures, \* r.conntrackSignatures, Gone when there is none
  conntrack,  \* endpoint -> policies under which a live entry was created
  loop,       \* the reconcile in progress
  api         \* the handler in progress between its checks and its write

spec == <<features, desired, rollouts>>
memory == <<published, signatures, conntrack>>
vars == <<features, desired, rollouts, policy, frozen, published,
          signatures, conntrack, loop, api>>

Nothing == [e \in Endpoint |-> Gone]
NoFlows == [e \in Endpoint |-> {}]
Idle(result) == [stage |-> "idle", result |-> result]
NoAction == [act |-> "none"]

Init ==
  /\ features \in Uses
  /\ desired \in [Endpoint -> Version \cup {Gone}]
  /\ rollouts = FALSE
  /\ policy = Nothing
  /\ frozen = {}
  /\ published = Gone
  /\ signatures = Nothing
  /\ conntrack = NoFlows
  /\ loop = Idle("none")
  /\ api = NoAction

Local(want) == {e \in Endpoint : want[e] # Gone}
Installed == {e \in Endpoint : policy[e] # Gone}

\* Mutant: only the local endpoints are kept.
KeepLocal(l) == Local(l.want)

\* policyEndpointKeepSet
Keep(l) == Local(l.want) \cup l.frozen
-----------------------------------------------------------------------------
(* The reconcile loop                                                      *)

\* The desired state is loaded and the frozen endpoints are copied.
Begin ==
  /\ loop.stage = "idle"
  /\ loop' = [stage |-> "apply", want |-> desired, deferred |-> rollouts,
              frozen |-> frozen, todo |-> Local(desired)]
  /\ UNCHANGED <<spec, policy, frozen, memory, api>>

\* prepareReconcile compiles and applies one local endpoint.
Apply(e) ==
  /\ loop.stage = "apply" /\ e \in loop.todo
  /\ policy' = IF loop.deferred \/ e \in loop.frozen THEN policy
               ELSE [policy EXCEPT ![e] = loop.want[e]]
  /\ loop' = [loop EXCEPT !.todo = @ \ {e}]
  /\ UNCHANGED <<spec, frozen, memory, api>>

\* The stages after the endpoints.  Pressure mitigation runs twice.
NextStage(stage) ==
  CASE stage = "apply" -> "mitigate"
    [] stage = "mitigate" -> "sweep"
    [] stage = "sweep" -> "sync"
    [] stage = "sync" -> "mitigate again"
    [] stage = "mitigate again" -> "conntrack"

\* Mutant: the store is only cleaned of idle endpoints.
ToDeleteLazy(stage) ==
  CASE stage \in {"mitigate", "mitigate again"} -> {{}}
    [] OTHER -> IF "sweep" \in features
                THEN SUBSET (Installed \ Keep(loop)) ELSE {{}}

\* The endpoints a stage lists for deletion: all that are not kept when the
\* maps are under pressure, the idle ones of these for the sweep, all that
\* are not kept for syncPolicyStore.
ToDelete(stage) ==
  LET stale == Installed \ Keep(loop) IN
  CASE stage \in {"mitigate", "mitigate again"} ->
         IF "pressure" \in features THEN {{}, stale} ELSE {{}}
    [] stage = "sweep" ->
         IF "sweep" \in features THEN SUBSET stale ELSE {{}}
    [] stage = "sync" -> {stale}
    [] OTHER -> {{}}

EnterStage ==
  /\ loop.stage \in {"apply", "mitigate", "sweep", "sync", "mitigate again"}
  /\ loop.todo = {}
  /\ \E es \in ToDelete(NextStage(loop.stage)) :
       loop' = [loop EXCEPT !.stage = NextStage(loop.stage), !.todo = es]
  /\ UNCHANGED <<spec, policy, frozen, memory, api>>

DeleteStale(e) ==
  /\ loop.stage # "idle" /\ loop.stage # "apply" /\ e \in loop.todo
  /\ policy' = [policy EXCEPT ![e] = Gone]
  /\ loop' = [loop EXCEPT !.todo = @ \ {e}]
  /\ UNCHANGED <<spec, frozen, memory, api>>

\* quarantinePolicyMapPressureResult: the endpoint with the fullest map.
QuarantinePressured(e) ==
  /\ "pressure" \in features
  /\ loop.stage \in {"mitigate", "mitigate again"} /\ loop.todo = {}
  /\ e \in Installed \cap Keep(loop) /\ e \notin loop.frozen
  /\ policy' = [policy EXCEPT ![e] = Deny]
  /\ \E es \in ToDelete(NextStage(loop.stage)) :
       loop' = [loop EXCEPT !.stage = NextStage(loop.stage), !.todo = es]
  /\ UNCHANGED <<spec, frozen, memory, api>>

\* Mutant: the flows of changed endpoints are kept.
SyncConntrackKeeps ==
  /\ loop.stage = "conntrack"
  /\ conntrack' = [e \in Endpoint |-> IF loop.want[e] = Gone THEN {}
                                      ELSE conntrack[e]]
  /\ signatures' = loop.want
  /\ loop' = [loop EXCEPT !.stage = IF loop.deferred THEN "rollout"
                                    ELSE "finish"]
  /\ UNCHANGED <<spec, policy, frozen, published, api>>

\* syncConntrackPrograms.  Entries that idle out only disappear, which no
\* property here depends on.
SyncConntrack ==
  /\ loop.stage = "conntrack"
  /\ conntrack' = [e \in Endpoint |->
                     IF signatures[e] \notin {Gone, loop.want[e]} THEN {}
                     ELSE conntrack[e]]
  /\ signatures' = loop.want
  /\ loop' = [loop EXCEPT !.stage = IF loop.deferred THEN "rollout"
                                    ELSE "finish"]
  /\ UNCHANGED <<spec, policy, frozen, published, api>>

\* ApplyPolicyRollouts, with a fresh copy of the frozen endpoints, brings
\* some of the endpoints up to date.
ApplyRollouts ==
  /\ loop.stage = "rollout"
  /\ \E es \in SUBSET (Local(loop.want) \ frozen) :
       policy' = [e \in Endpoint |-> IF e \in es THEN loop.want[e]
                                     ELSE policy[e]]
  /\ loop' = [loop EXCEPT !.stage = "finish"]
  /\ UNCHANGED <<spec, frozen, memory, api>>

Finish ==
  /\ loop.stage = "finish"
  /\ published' = loop.want
  /\ loop' = Idle("ok")
  /\ UNCHANGED <<spec, policy, frozen, signatures, conntrack, api>>

\* Any error of a reconcile ends the process.  It restarts with the frozen
\* endpoints it had persisted and nothing else but pinned maps.
Exit ==
  /\ "exit" \in features /\ loop.stage # "idle"
  /\ policy' = IF "pinned" \in features THEN policy ELSE Nothing
  /\ published' = Gone
  /\ signatures' = Nothing
  /\ conntrack' = NoFlows
  /\ loop' = Idle("exit")
  /\ api' = NoAction
  /\ UNCHANGED <<spec, frozen>>

Loop ==
  \/ Begin \/ EnterStage \/ SyncConntrack \/ ApplyRollouts \/ Finish
  \/ \E e \in Endpoint : Apply(e) \/ DeleteStale(e) \/ QuarantinePressured(e)
-----------------------------------------------------------------------------
(* Everything else: the operator's desired state, the API, the traffic     *)

EditDesired(e) ==
  /\ desired' \in {[desired EXCEPT ![e] = v] : v \in Version \cup {Gone}}
  /\ UNCHANGED <<features, rollouts, policy, frozen, memory, loop, api>>

EditRollouts ==
  /\ "rollout" \in features
  /\ rollouts' = ~rollouts
  /\ UNCHANGED <<features, desired, policy, frozen, memory, loop, api>>

Freeze(e) ==
  /\ "freeze" \in features /\ published # Gone
  /\ frozen' = frozen \cup {e}
  /\ UNCHANGED <<spec, policy, memory, loop, api>>

Unfreeze(e) ==
  /\ e \in frozen
  /\ frozen' = frozen \ {e}
  /\ UNCHANGED <<spec, policy, memory, loop, api>>

\* A handler has found its endpoint on this node and not frozen ...
HandlerChecks(e) ==
  /\ "api" \in features /\ api = NoAction
  /\ published # Gone /\ e \notin frozen
  /\ published[e] # Gone
  /\ \E act \in {"reset", "regenerate", "quarantine"} :
       api' = [act |-> act, endpoint |-> e, want |-> published[e]]
  /\ UNCHANGED <<spec, policy, frozen, memory, loop>>

\* ... and then acts on the store.  unquarantine and rollback regenerate.
HandlerActs ==
  /\ api # NoAction
  /\ policy' = [policy EXCEPT ![api.endpoint] =
                  CASE api.act = "reset" -> Gone
                    [] api.act = "regenerate" -> api.want
                    [] api.act = "quarantine" -> Deny]
  /\ api' = NoAction
  /\ UNCHANGED <<spec, frozen, memory, loop>>

\* A stateful allow adds the reverse flow; a drop adds nothing.
Flow(e) ==
  /\ "flow" \in features /\ policy[e] \in Version
  /\ conntrack' = [conntrack EXCEPT ![e] = @ \cup {policy[e]}]
  /\ UNCHANGED <<spec, policy, frozen, published, signatures, loop, api>>

Next ==
  \/ Loop \/ Exit
  \/ EditRollouts \/ HandlerActs
  \/ \E e \in Endpoint : \/ EditDesired(e) \/ Freeze(e) \/ Unfreeze(e)
                         \/ HandlerChecks(e) \/ Flow(e)

Spec == Init /\ [][Next]_vars

\* The loop goes on after its interval, and a handler returns.
FairSpec == Spec /\ WF_vars(Loop) /\ WF_vars(HandlerActs)
-----------------------------------------------------------------------------
TypeOK ==
  /\ features \in Uses
  /\ desired \in [Endpoint -> Version \cup {Gone}]
  /\ rollouts \in BOOLEAN /\ frozen \subseteq Endpoint
  /\ policy \in [Endpoint -> Version \cup {Gone, Deny}]
  /\ published = Gone \/ published \in [Endpoint -> Version \cup {Gone}]
  /\ signatures \in [Endpoint -> Version \cup {Gone}]
  /\ conntrack \in [Endpoint -> SUBSET Version]
  /\ loop.stage # "idle" => loop.todo \subseteq Endpoint

(* No stage of a reconcile writes an endpoint that was frozen when the     *)
(* reconcile began and still is: not the apply, not mitigation, sweep or   *)
(* cleanup although it may be gone from the desired state, not a rollout   *)
(* (reconcile.go:2406, 2575-2583; main.go:4208).                           *)
FrozenIsHeld ==
  [][Loop => \A e \in Endpoint :
       loop.stage # "idle" /\ e \in loop.frozen \cap frozen
         => policy'[e] = policy[e]]_vars

(* Once the desired state is left alone, nothing is frozen, no rollout is  *)
(* active and neither handlers, errors nor map pressure interfere, the     *)
(* installed policies become and stay exactly the desired ones.            *)
Quiet ==
  [][/\ UNCHANGED spec /\ frozen' = frozen /\ ~HandlerActs /\ ~Exit
     /\ \A e \in Endpoint : ~QuarantinePressured(e)]_vars

Settles ==
  (<>Quiet /\ <>[](frozen = {} /\ ~rollouts)) => <>[](policy = desired)

(* After a reconcile, no connection survives that only an older policy of  *)
(* its endpoint admitted (reconcile.go:2320-2338) ...                      *)
ConntrackFollowsPolicy ==
  loop.stage = "idle" =>
    \A e \in Endpoint : conntrack[e] \subseteq {policy[e]}

(* ... provided nothing but reconciles installs policies and they install  *)
(* what they compiled: the signatures are those of compiled, not of        *)
(* installed policies.                                                     *)
NoStaleConntrack ==
  features \subseteq {"exit", "flow", "sweep"} => ConntrackFollowsPolicy

(* From the moment a freeze is confirmed, the endpoint's policy stays what *)
(* it is (docs/design/cilium-ebpf-acl.md:192).                             *)
FreezeIsImmediate ==
  [][\A e \in frozen \cap frozen' : policy'[e] # policy[e] => Exit]_vars

(* An operator's quarantine lasts until an operator ends it                *)
(* (docs/design/cilium-ebpf-acl.md:214-217).                               *)
QuarantineLasts ==
  [][\A e \in Endpoint : policy[e] = Deny /\ policy'[e] # Deny =>
       HandlerActs \/ Exit \/ desired[e] = Gone]_vars
=============================================================================
