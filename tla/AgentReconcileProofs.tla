------------------------ MODULE AgentReconcileProofs ------------------------
(***************************************************************************)
(* Proofs about the agent's reconcile loop, for every set of endpoints and *)
(* policies and every combination of features.  FrozenIsHeld rests on what *)
(* a stage may have on its deletion list; NoStaleConntrack on how far the  *)
(* installed policies, the signatures and the connections have moved from  *)
(* the last desired state to the one being reconciled at each stage.       *)
(***************************************************************************)
EXTENDS AgentReconcile, TLAPS

Stage == {"apply", "mitigate", "sweep", "sync", "mitigate again",
          "conntrack", "rollout", "finish"}

Compiled == Version \cup {Gone}

LoopType ==
  [stage : Stage, want : [Endpoint -> Compiled], deferred : BOOLEAN,
   frozen : SUBSET Endpoint, todo : SUBSET Endpoint]

ApiType == [act : {"reset", "regenerate", "quarantine"},
            endpoint : Endpoint, want : Compiled]

Types ==
  /\ TypeOK
  /\ loop.stage # "idle" => loop \in LoopType
  /\ api # NoAction => api \in ApiType

\* No stage after the installation deletes a frozen endpoint.
ListsSpareFrozen ==
  loop.stage \notin {"idle", "apply"} => loop.todo \cap loop.frozen = {}

\* Only reconciles write, and what they write is what they compiled.
Plain == features \subseteq {"exit", "flow", "sweep"}

Undisturbed ==
  /\ frozen = {} /\ ~rollouts /\ api = NoAction
  /\ loop.stage # "idle" =>
       /\ loop.frozen = {} /\ ~loop.deferred /\ loop.stage # "rollout"
       /\ IF loop.stage = "apply" THEN loop.todo \subseteq Local(loop.want)
          ELSE loop.todo \cap Local(loop.want) = {}

\* Between two reconciles the signature is the installed policy's; at a stage
\* of one, the endpoint is still at its signature, has been brought to what is
\* wanted, or is gone.
Installation(e) ==
  /\ loop.stage = "idle" => policy[e] = signatures[e]
  /\ loop.stage = "apply" =>
       policy[e] = IF e \in Local(loop.want) \ loop.todo THEN loop.want[e]
                   ELSE signatures[e]
  /\ loop.stage \in {"mitigate", "sweep", "sync"} =>
       \/ policy[e] = loop.want[e]
       \/ loop.want[e] = Gone /\ policy[e] = signatures[e]
  /\ loop.stage = "sync" => e \in loop.todo \/ policy[e] = loop.want[e]
  /\ loop.stage \in {"mitigate again", "conntrack", "finish"} =>
       policy[e] = loop.want[e]
  /\ loop.stage = "finish" => signatures[e] = loop.want[e]

\* A live connection was admitted under the policy of the last signature or
\* under the one being installed.
Connections(e) ==
  conntrack[e] \subseteq
    {signatures[e]} \cup (IF loop.stage = "idle" THEN {} ELSE {loop.want[e]})

Followed ==
  Plain => Undisturbed /\ \A e \in Endpoint : Installation(e) /\ Connections(e)

IInv == Types /\ ListsSpareFrozen /\ Followed

-----------------------------------------------------------------------------
\* The stages follow each other as in Reconcile.
LEMMA StagesAdvance ==
  ASSUME NEW s \in {"apply", "mitigate", "sweep", "sync", "mitigate again"}
  PROVE  /\ NextStage(s) \in Stage \ {"apply", "rollout", "finish"}
         /\ NextStage(s) = "mitigate" => s = "apply"
         /\ NextStage(s) = "sweep" => s = "mitigate"
         /\ NextStage(s) = "sync" => s = "sweep"
         /\ NextStage(s) = "mitigate again" => s = "sync"
         /\ NextStage(s) = "conntrack" => s = "mitigate again"
  BY DEF NextStage, Stage

\* What a stage lists for deletion is installed and not kept; the cleanup
\* lists all of that.
LEMMA ListsAreStale ==
  ASSUME NEW s \in Stage, NEW es \in ToDelete(s)
  PROVE  /\ es \subseteq Installed \ Keep(loop)
         /\ s = "sync" => es = Installed \ Keep(loop)
  BY DEF ToDelete, Stage

LEMMA InitIInv == Init => IInv
<1> SUFFICES ASSUME Init PROVE IInv
  OBVIOUS
<1>1. Types
  BY DEF Init, Types, TypeOK, Nothing, NoFlows, Idle
<1>2. loop.stage = "idle" /\ frozen = {} /\ ~rollouts /\ api = NoAction
  BY DEF Init, Idle
<1>3. \A e \in Endpoint : Installation(e) /\ Connections(e)
  BY <1>2 DEF Init, Installation, Connections, Nothing, NoFlows
<1> QED
  BY <1>1, <1>2, <1>3 DEF IInv, ListsSpareFrozen, Followed, Undisturbed

LEMMA BeginIInv == IInv /\ Begin => IInv'
<1> SUFFICES ASSUME IInv, Begin PROVE IInv'
  OBVIOUS
<1>1. /\ loop' = [stage |-> "apply", want |-> desired, deferred |-> rollouts,
                  frozen |-> frozen, todo |-> Local(desired)]
      /\ UNCHANGED <<spec, policy, frozen, memory, api>>
  BY DEF Begin
<1>2. loop' \in LoopType
  BY <1>1 DEF IInv, Types, TypeOK, LoopType, Stage, Compiled, Local
<1>3. Types'
  BY <1>1, <1>2 DEF IInv, Types, TypeOK, LoopType, spec, memory
<1>4. Followed'
  <2> SUFFICES ASSUME Plain
               PROVE  Undisturbed' /\ \A e \in Endpoint : (Installation(e) /\ Connections(e))'
    BY <1>1 DEF Followed, Plain, spec
  <2>1. Undisturbed /\ \A e \in Endpoint : Installation(e) /\ Connections(e)
    BY DEF IInv, Followed
  <2>2. Undisturbed'
    BY <1>1, <2>1 DEF Undisturbed, spec
  <2>3. ASSUME NEW e \in Endpoint PROVE Installation(e)' /\ Connections(e)'
    BY <1>1, <2>1 DEF Installation, Connections, Begin, spec, memory
  <2> QED
    BY <2>2, <2>3
<1> QED
  BY <1>1, <1>3, <1>4 DEF IInv, ListsSpareFrozen

LEMMA ApplyIInv ==
  ASSUME IInv, NEW e \in Endpoint, Apply(e)
  PROVE  IInv'
<1>1. loop \in LoopType /\ loop.stage = "apply" /\ e \in loop.todo
  BY DEF Apply, IInv, Types
<1>2. /\ loop' \in LoopType /\ loop'.stage = "apply"
      /\ loop'.todo = loop.todo \ {e} /\ loop'.want = loop.want
      /\ loop'.frozen = loop.frozen /\ loop'.deferred = loop.deferred
  BY <1>1 DEF Apply, LoopType
<1>3. UNCHANGED <<spec, frozen, memory, api>>
  BY DEF Apply
<1>4. policy' \in [Endpoint -> Version \cup {Gone, Deny}]
  BY <1>1 DEF Apply, IInv, Types, TypeOK, LoopType, Compiled
<1>5. Types'
  BY <1>1, <1>2, <1>3, <1>4 DEF IInv, Types, TypeOK, LoopType, spec, memory
<1>6. Followed'
  <2> SUFFICES ASSUME Plain
               PROVE  Undisturbed' /\ \A d \in Endpoint : (Installation(d) /\ Connections(d))'
    BY <1>3 DEF Followed, Plain, spec
  <2>1. Undisturbed /\ \A d \in Endpoint : Installation(d) /\ Connections(d)
    BY DEF IInv, Followed
  <2>2. policy' = [policy EXCEPT ![e] = loop.want[e]]
    BY <1>1, <2>1 DEF Undisturbed, Apply
  <2>3. Undisturbed'
    BY <1>1, <1>2, <1>3, <2>1 DEF Undisturbed, spec, Local
  <2>4. e \in Local(loop.want)
    BY <1>1, <2>1 DEF Undisturbed
  <2>5. ASSUME NEW d \in Endpoint PROVE Installation(d)' /\ Connections(d)'
    BY <1>1, <1>2, <1>3, <2>1, <2>2, <2>4
    DEF Installation, Connections, Local, spec, memory, IInv, Types, TypeOK
  <2> QED
    BY <2>3, <2>5
<1> QED
  BY <1>2, <1>5, <1>6 DEF IInv, ListsSpareFrozen

\* Entering the next stage with its deletion list, after a step that left the
\* policies alone or, under pressure, quarantined one of them.
LEMMA EnterStageIInv ==
  ASSUME IInv,
         loop.stage \in {"apply", "mitigate", "sweep", "sync", "mitigate again"},
         loop.todo = {},
         NEW es \in ToDelete(NextStage(loop.stage)),
         loop' = [loop EXCEPT !.stage = NextStage(loop.stage), !.todo = es],
         policy' \in [Endpoint -> Version \cup {Gone, Deny}],
         Plain => policy' = policy,
         UNCHANGED <<spec, frozen, memory, api>>
  PROVE  IInv'
<1> DEFINE next == NextStage(loop.stage)
<1>1. loop \in LoopType
  BY DEF IInv, Types
<1>2. next \in Stage \ {"apply", "rollout", "finish"}
  BY StagesAdvance
<1>3. /\ es \subseteq Installed \ Keep(loop)
      /\ next = "sync" => es = Installed \ Keep(loop)
  BY <1>2, ListsAreStale
<1>4. /\ loop' \in LoopType /\ loop'.stage = next
      /\ loop'.todo = es /\ loop'.want = loop.want
      /\ loop'.frozen = loop.frozen /\ loop'.deferred = loop.deferred
  BY <1>1, <1>2, <1>3 DEF LoopType, Installed
<1>5. Types'
  BY <1>1, <1>4 DEF IInv, Types, TypeOK, LoopType, spec, memory
<1>6. ListsSpareFrozen'
  BY <1>3, <1>4 DEF ListsSpareFrozen, Keep
<1>7. Followed'
  <2> SUFFICES ASSUME Plain
               PROVE  Undisturbed' /\ \A d \in Endpoint : (Installation(d) /\ Connections(d))'
    BY DEF Followed, Plain, spec
  <2>1. Undisturbed /\ \A d \in Endpoint : Installation(d) /\ Connections(d)
    BY DEF IInv, Followed
  <2>2. Undisturbed'
    BY <1>2, <1>3, <1>4, <2>1 DEF Undisturbed, spec, Keep, Local
  <2>3. \A d \in Endpoint : Connections(d)'
    BY <1>2, <1>4, <2>1 DEF Connections, memory, Stage
  <2>4. ASSUME NEW d \in Endpoint PROVE Installation(d)'
    <3>1. Installation(d) /\ policy'[d] = policy[d] /\ signatures' = signatures
      BY <2>1 DEF memory
    <3>2. CASE next = "mitigate"
      BY <1>4, <3>1, <3>2, StagesAdvance DEF Installation, Local
    <3>3. CASE next = "sweep"
      BY <1>4, <3>1, <3>3, StagesAdvance DEF Installation
    <3>4. CASE next = "sync"
      <4>1. es = Installed \ Keep(loop) /\ loop.stage = "sweep"
        BY <1>3, <3>4, StagesAdvance
      <4>2. loop.frozen = {}
        BY <2>1, <4>1 DEF Undisturbed
      <4> QED
        BY <1>4, <3>1, <3>4, <4>1, <4>2 DEF Installation, Keep, Local, Installed
    <3>5. CASE next = "mitigate again"
      BY <1>4, <3>1, <3>5, StagesAdvance DEF Installation
    <3>6. CASE next = "conntrack"
      BY <1>4, <3>1, <3>6, StagesAdvance DEF Installation
    <3> QED
      BY <1>2, <3>2, <3>3, <3>4, <3>5, <3>6 DEF Stage
  <2> QED
    BY <2>2, <2>3, <2>4
<1> QED
  BY <1>5, <1>6, <1>7 DEF IInv

LEMMA DeleteStaleIInv ==
  ASSUME IInv, NEW e \in Endpoint, DeleteStale(e)
  PROVE  IInv'
<1>1. /\ loop \in LoopType /\ loop.stage \notin {"idle", "apply"}
      /\ e \in loop.todo
  BY DEF DeleteStale, IInv, Types
<1>2. /\ loop' \in LoopType /\ loop'.stage = loop.stage
      /\ loop'.todo = loop.todo \ {e} /\ loop'.want = loop.want
      /\ loop'.frozen = loop.frozen /\ loop'.deferred = loop.deferred
  BY <1>1 DEF DeleteStale, LoopType
<1>3. /\ UNCHANGED <<spec, frozen, memory, api>>
      /\ policy' = [policy EXCEPT ![e] = Gone]
  BY DEF DeleteStale
<1>4. Types'
  BY <1>1, <1>2, <1>3 DEF IInv, Types, TypeOK, LoopType, spec, memory
<1>5. ListsSpareFrozen'
  BY <1>1, <1>2 DEF IInv, ListsSpareFrozen
<1>6. Followed'
  <2> SUFFICES ASSUME Plain
               PROVE  Undisturbed' /\ \A d \in Endpoint : (Installation(d) /\ Connections(d))'
    BY <1>3 DEF Followed, Plain, spec
  <2>1. Undisturbed /\ \A d \in Endpoint : Installation(d) /\ Connections(d)
    BY DEF IInv, Followed
  <2>2. Undisturbed'
    BY <1>1, <1>2, <1>3, <2>1 DEF Undisturbed, spec, Local
  <2>3. loop.want[e] = Gone
    BY <1>1, <2>1 DEF Undisturbed, Local
  <2>4. ASSUME NEW d \in Endpoint PROVE Installation(d)' /\ Connections(d)'
    BY <1>1, <1>2, <1>3, <2>1, <2>3
    DEF Installation, Connections, spec, memory, IInv, Types, TypeOK
  <2> QED
    BY <2>2, <2>4
<1> QED
  BY <1>4, <1>5, <1>6 DEF IInv

LEMMA QuarantinePressuredIInv ==
  ASSUME IInv, NEW e \in Endpoint, QuarantinePressured(e)
  PROVE  IInv'
<1>1. policy' \in [Endpoint -> Version \cup {Gone, Deny}]
  BY DEF QuarantinePressured, IInv, Types, TypeOK
<1>2. ~Plain
  BY DEF QuarantinePressured, Plain
<1> QED
  BY <1>1, <1>2, EnterStageIInv DEF QuarantinePressured

\* A changed endpoint loses its connections, so those of the others are the
\* only ones left, and they were admitted by the policy that is wanted.
LEMMA SyncConntrackIInv == IInv /\ SyncConntrack => IInv'
<1> SUFFICES ASSUME IInv, SyncConntrack PROVE IInv'
  OBVIOUS
<1>1. loop \in LoopType /\ loop.stage = "conntrack"
  BY DEF SyncConntrack, IInv, Types
<1>2. /\ loop' \in LoopType
      /\ loop'.stage = IF loop.deferred THEN "rollout" ELSE "finish"
      /\ loop'.todo = loop.todo /\ loop'.want = loop.want
      /\ loop'.frozen = loop.frozen /\ loop'.deferred = loop.deferred
  BY <1>1 DEF SyncConntrack, LoopType, Stage
<1>3. UNCHANGED <<spec, policy, frozen, published, api>>
      /\ signatures' = loop.want
  BY DEF SyncConntrack
<1>4. conntrack' \in [Endpoint -> SUBSET Version]
  BY DEF SyncConntrack, IInv, Types, TypeOK
<1>5. Types'
  BY <1>1, <1>2, <1>3, <1>4 DEF IInv, Types, TypeOK, LoopType, Compiled, spec
<1>6. ListsSpareFrozen'
  BY <1>1, <1>2 DEF IInv, ListsSpareFrozen
<1>7. Followed'
  <2> SUFFICES ASSUME Plain
               PROVE  Undisturbed' /\ \A d \in Endpoint : (Installation(d) /\ Connections(d))'
    BY <1>3 DEF Followed, Plain, spec
  <2>1. Undisturbed /\ \A d \in Endpoint : Installation(d) /\ Connections(d)
    BY DEF IInv, Followed
  <2>2. loop'.stage = "finish"
    BY <1>1, <1>2, <2>1 DEF Undisturbed
  <2>3. Undisturbed'
    BY <1>1, <1>2, <1>3, <2>1, <2>2 DEF Undisturbed, spec, Local
  <2>4. ASSUME NEW d \in Endpoint PROVE Installation(d)'
    BY <1>1, <1>2, <1>3, <2>1, <2>2 DEF Installation
  <2>5. ASSUME NEW d \in Endpoint PROVE Connections(d)'
    <3>1. conntrack'[d] = IF signatures[d] \notin {Gone, loop.want[d]} THEN {}
                          ELSE conntrack[d]
      BY DEF SyncConntrack
    <3>2. conntrack[d] \subseteq {signatures[d], loop.want[d]}
      BY <1>1, <2>1 DEF Connections
    <3>3. Gone \notin conntrack[d]
      BY AgentAssumption DEF IInv, Types, TypeOK
    <3> QED
      BY <1>2, <1>3, <3>1, <3>2, <3>3 DEF Connections
  <2> QED
    BY <2>3, <2>4, <2>5
<1> QED
  BY <1>5, <1>6, <1>7 DEF IInv

LEMMA ApplyRolloutsIInv == IInv /\ ApplyRollouts => IInv'
<1> SUFFICES ASSUME IInv, ApplyRollouts PROVE IInv'
  OBVIOUS
<1>1. loop \in LoopType /\ loop.stage = "rollout"
  BY DEF ApplyRollouts, IInv, Types
<1>2. /\ loop' \in LoopType /\ loop'.stage = "finish"
      /\ loop'.todo = loop.todo /\ loop'.frozen = loop.frozen
  BY <1>1 DEF ApplyRollouts, LoopType, Stage
<1>3. policy' \in [Endpoint -> Version \cup {Gone, Deny}]
  BY <1>1 DEF ApplyRollouts, IInv, Types, TypeOK, LoopType, Compiled
<1>4. Types'
  BY <1>1, <1>2, <1>3 DEF ApplyRollouts, IInv, Types, TypeOK, LoopType, spec, memory
<1>5. ~Plain
  BY <1>1 DEF IInv, Followed, Undisturbed
<1> QED
  BY <1>1, <1>2, <1>4, <1>5
  DEF ApplyRollouts, IInv, ListsSpareFrozen, Followed, Plain, spec

LEMMA FinishIInv == IInv /\ Finish => IInv'
<1> SUFFICES ASSUME IInv, Finish PROVE IInv'
  OBVIOUS
<1>1. loop \in LoopType /\ loop.stage = "finish"
  BY DEF Finish, IInv, Types
<1>2. loop'.stage = "idle" /\ published' = loop.want
      /\ UNCHANGED <<spec, policy, frozen, signatures, conntrack, api>>
  BY DEF Finish, Idle
<1>3. Types'
  BY <1>1, <1>2 DEF IInv, Types, TypeOK, LoopType, Compiled, spec
<1>4. Followed'
  <2> SUFFICES ASSUME Plain
               PROVE  Undisturbed' /\ \A d \in Endpoint : (Installation(d) /\ Connections(d))'
    BY <1>2 DEF Followed, Plain, spec
  <2>1. Undisturbed /\ \A d \in Endpoint : Installation(d) /\ Connections(d)
    BY DEF IInv, Followed
  <2>2. Undisturbed'
    BY <1>2, <2>1 DEF Undisturbed, spec
  <2>3. ASSUME NEW d \in Endpoint PROVE Installation(d)' /\ Connections(d)'
    BY <1>1, <1>2, <2>1 DEF Installation, Connections
  <2> QED
    BY <2>2, <2>3
<1> QED
  BY <1>2, <1>3, <1>4 DEF IInv, ListsSpareFrozen

LEMMA ExitIInv == IInv /\ Exit => IInv'
<1> SUFFICES ASSUME IInv, Exit PROVE IInv'
  OBVIOUS
<1>1. /\ loop'.stage = "idle" /\ published' = Gone /\ signatures' = Nothing
      /\ conntrack' = NoFlows /\ api' = NoAction /\ UNCHANGED <<spec, frozen>>
      /\ policy' = IF "pinned" \in features THEN policy ELSE Nothing
  BY DEF Exit, Idle
<1>2. Types'
  BY <1>1 DEF IInv, Types, TypeOK, Nothing, NoFlows, spec
<1>3. Followed'
  BY <1>1 DEF IInv, Followed, Plain, Undisturbed, Installation, Connections,
              Nothing, NoFlows, spec
<1> QED
  BY <1>1, <1>2, <1>3 DEF IInv, ListsSpareFrozen

\* The operator and the handlers do not touch a plain reconcile.
LEMMA OthersIInv ==
  ASSUME IInv, NEW e,
         \/ EditRollouts \/ HandlerActs
         \/ /\ e \in Endpoint
            /\ EditDesired(e) \/ Freeze(e) \/ Unfreeze(e) \/ HandlerChecks(e)
  PROVE  IInv'
<1>1. CASE EditRollouts
  <2>1. ~Plain
    BY <1>1 DEF EditRollouts, Plain
  <2>2. rollouts' \in BOOLEAN
    BY <1>1 DEF EditRollouts, IInv, Types, TypeOK
  <2> QED
    BY <1>1, <2>1, <2>2
    DEF EditRollouts, IInv, Types, TypeOK, ListsSpareFrozen, Followed, Plain, memory
<1>2. CASE HandlerActs
  <2>1. ~Plain
    BY <1>2 DEF HandlerActs, IInv, Followed, Undisturbed
  <2>2. api \in ApiType
    BY <1>2 DEF HandlerActs, IInv, Types
  <2>3. policy' \in [Endpoint -> Version \cup {Gone, Deny}]
    BY <1>2, <2>2 DEF HandlerActs, IInv, Types, TypeOK, ApiType, Compiled
  <2> QED
    BY <1>2, <2>1, <2>3
    DEF HandlerActs, IInv, Types, TypeOK, ListsSpareFrozen, Followed, Plain,
        spec, memory
<1>3. CASE e \in Endpoint /\ EditDesired(e)
  <2>1. desired' \in [Endpoint -> Version \cup {Gone}]
    BY <1>3 DEF EditDesired, IInv, Types, TypeOK
  <2>2. UNCHANGED <<features, rollouts, policy, frozen, memory, loop, api>>
    BY <1>3 DEF EditDesired
  <2>3. Types' /\ ListsSpareFrozen'
    BY <2>1, <2>2 DEF IInv, Types, TypeOK, ListsSpareFrozen, memory
  <2>4. Followed'
    BY <2>2 DEF IInv, Followed, Plain, Undisturbed, Installation, Connections,
                memory, Local
  <2> QED
    BY <2>3, <2>4 DEF IInv
<1>4. CASE e \in Endpoint /\ Freeze(e)
  BY <1>4 DEF Freeze, IInv, Types, TypeOK, ListsSpareFrozen, Followed, Plain,
              spec, memory
<1>5. CASE e \in Endpoint /\ Unfreeze(e)
  <2>1. ~Plain
    BY <1>5 DEF Unfreeze, IInv, Followed, Undisturbed
  <2> QED
    BY <1>5, <2>1 DEF Unfreeze, IInv, Types, TypeOK, ListsSpareFrozen, Followed,
                      Plain, spec, memory
<1>6. CASE e \in Endpoint /\ HandlerChecks(e)
  <2>1. ~Plain
    BY <1>6 DEF HandlerChecks, Plain
  <2>2. published[e] \in Compiled
    BY <1>6 DEF HandlerChecks, IInv, Types, TypeOK, Compiled
  <2>3. api' \in ApiType
    BY <1>6, <2>2 DEF HandlerChecks, ApiType
  <2> QED
    BY <1>6, <2>1, <2>3
    DEF HandlerChecks, IInv, Types, TypeOK, ListsSpareFrozen, Followed, Plain,
        spec, memory
<1> QED
  BY <1>1, <1>2, <1>3, <1>4, <1>5, <1>6

\* Traffic adds a connection that the installed policy admits.
LEMMA FlowIInv ==
  ASSUME IInv, NEW e \in Endpoint, Flow(e)
  PROVE  IInv'
<1>1. /\ UNCHANGED <<spec, policy, frozen, published, signatures, loop, api>>
      /\ conntrack' = [conntrack EXCEPT ![e] = @ \cup {policy[e]}]
      /\ policy[e] \in Version
  BY DEF Flow
<1>2. conntrack' \in [Endpoint -> SUBSET Version]
  BY <1>1 DEF IInv, Types, TypeOK
<1>3. Types' /\ ListsSpareFrozen'
  BY <1>1, <1>2 DEF IInv, Types, TypeOK, ListsSpareFrozen, spec
<1>4. Followed'
  <2> SUFFICES ASSUME Plain
               PROVE  Undisturbed' /\ \A d \in Endpoint : (Installation(d) /\ Connections(d))'
    BY <1>1 DEF Followed, Plain, spec
  <2>1. Undisturbed /\ \A d \in Endpoint : Installation(d) /\ Connections(d)
    BY DEF IInv, Followed
  <2>2. Undisturbed' /\ \A d \in Endpoint : Installation(d)'
    BY <1>1, <2>1 DEF Undisturbed, Installation, Local, spec
  <2>3. loop.stage # "idle" => policy[e] \in {signatures[e], loop.want[e]}
    <3> SUFFICES ASSUME loop.stage # "idle"
                 PROVE  policy[e] \in {signatures[e], loop.want[e]}
      OBVIOUS
    <3>1. Installation(e) /\ loop.stage \in Stage \ {"rollout"}
      BY <2>1 DEF IInv, Types, LoopType, Undisturbed
    <3> QED
      BY <3>1 DEF Installation, Stage
  <2>4. loop.stage = "idle" => policy[e] = signatures[e]
    BY <2>1 DEF Installation
  <2>5. ASSUME NEW d \in Endpoint PROVE Connections(d)'
    <3>1. Connections(d) /\ conntrack'[d] = IF d = e THEN conntrack[d] \cup {policy[e]}
                                             ELSE conntrack[d]
      BY <1>1, <2>1 DEF IInv, Types, TypeOK
    <3> QED
      BY <1>1, <2>3, <2>4, <3>1 DEF Connections
  <2> QED
    BY <2>2, <2>5
<1> QED
  BY <1>3, <1>4 DEF IInv

\* Every step of the loop, of the handlers and of the traffic keeps IInv.
LEMMA NextIInv == IInv /\ [Next]_vars => IInv'
<1> SUFFICES ASSUME IInv, [Next]_vars PROVE IInv'
  OBVIOUS
<1>1. CASE UNCHANGED vars
  BY <1>1 DEF vars, IInv, Types, TypeOK, ListsSpareFrozen, Followed, Plain,
              Undisturbed, Installation, Connections, Local
<1>2. CASE Loop
  <2>1. CASE EnterStage
    <3>1. policy' \in [Endpoint -> Version \cup {Gone, Deny}] /\ policy' = policy
      BY <2>1 DEF EnterStage, IInv, Types, TypeOK
    <3> QED
      BY <2>1, <3>1, EnterStageIInv DEF EnterStage
  <2> QED
    BY <1>2, <2>1, BeginIInv, ApplyIInv, DeleteStaleIInv,
       QuarantinePressuredIInv, SyncConntrackIInv, ApplyRolloutsIInv, FinishIInv
    DEF Loop
<1>3. CASE EditRollouts \/ HandlerActs
  BY <1>3, OthersIInv
<1> QED
  BY <1>1, <1>2, <1>3, ExitIInv, OthersIInv, FlowIInv DEF Next

-----------------------------------------------------------------------------
(* The agent's variables keep their types, whatever handlers, freezes,     *)
(* rollouts and exits do between two steps of a reconcile.                 *)
THEOREM AgentTypeOK == Spec => []TypeOK
<1>1. IInv => TypeOK
  BY DEF IInv, Types
<1> QED
  BY <1>1, InitIInv, NextIInv, PTL DEF Spec

(* No stage of Reconcile writes an endpoint that was frozen when the       *)
(* reconcile copied m.frozenEndpoints and still is frozen: neither its     *)
(* installation, nor mitigation, sweep and cleanup, nor a rollout.         *)
THEOREM ReconcilesHoldFrozen == Spec => FrozenIsHeld
<1>1. ASSUME IInv, [Next]_vars
      PROVE  [Loop => \A e \in Endpoint :
                loop.stage # "idle" /\ e \in loop.frozen \cap frozen
                  => policy'[e] = policy[e]]_vars
  <2> SUFFICES ASSUME Loop, NEW e \in Endpoint, loop.stage # "idle",
                      e \in loop.frozen, e \in frozen
               PROVE  policy'[e] = policy[e]
    BY <1>1
  <2>1. policy \in [Endpoint -> Version \cup {Gone, Deny}]
    BY <1>1 DEF IInv, Types, TypeOK
  <2>2. ASSUME NEW d \in Endpoint, Apply(d) PROVE policy'[e] = policy[e]
    BY <2>1, <2>2 DEF Apply
  <2>3. ASSUME NEW d \in Endpoint, DeleteStale(d) PROVE policy'[e] = policy[e]
    BY <1>1, <2>1, <2>3 DEF DeleteStale, IInv, ListsSpareFrozen
  <2>4. ASSUME NEW d \in Endpoint, QuarantinePressured(d)
        PROVE  policy'[e] = policy[e]
    BY <2>1, <2>4 DEF QuarantinePressured
  <2>5. CASE ApplyRollouts
    BY <2>1, <2>5 DEF ApplyRollouts
  <2>6. CASE Begin \/ EnterStage \/ SyncConntrack \/ Finish
    BY <2>6 DEF Begin, EnterStage, SyncConntrack, Finish
  <2> QED
    BY <2>2, <2>3, <2>4, <2>5, <2>6 DEF Loop
<1> QED
  BY <1>1, InitIInv, NextIInv, PTL DEF Spec, FrozenIsHeld

(* When only reconciles install policies and they install what they        *)
(* compiled, syncConntrackPrograms leaves no connection that an older      *)
(* policy of its endpoint admitted, although traffic adds connections at   *)
(* every stage and the process may exit at any.                            *)
THEOREM StaleConntrackIsFlushed == Spec => []NoStaleConntrack
<1>1. IInv => NoStaleConntrack
  BY DEF IInv, NoStaleConntrack, ConntrackFollowsPolicy, Followed, Plain,
         Installation, Connections
<1> QED
  BY <1>1, InitIInv, NextIInv, PTL DEF Spec
=============================================================================
