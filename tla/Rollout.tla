------------------------------- MODULE Rollout -------------------------------
(***************************************************************************)
(* A desired-state policy rollout as the agent's loop runs it, cycle after *)
(* cycle: RolloutPolicyEndpoints of internal/agent/reconcile.go over an    *)
(* atomic policy store (PolicyStore), the resume state that                *)
(* cmd/netloom-agent/main.go loads before and saves after it, the operator *)
(* who edits the rollout and resets or freezes endpoints meanwhile, and    *)
(* the process that may end at any point.  Endpoints are numbered in the   *)
(* rollout's order; a policy is the version of the desired state it was    *)
(* compiled from.                                                          *)
(***************************************************************************)
EXTENDS Integers, Sequences, FiniteSets, FiniteSetsExt

CONSTANTS
  N,              \* number of endpoints of the rollout
  BatchSize,      \* requested batch size
  PressureSizes,  \* batch sizes map pressure may shrink it to
  Options,        \* the options an operator may give: see OptionType
  Blocking,       \* versions whose plan has a blocking change
  Gated,          \* TRUE: batches are checked (SLO gate or traffic probes)
  Settings,       \* the settings a behaviour may have: sets of Setting
  MaxVersion,     \* bound on the versions of the desired state
  MaxFrozen       \* bound on the endpoints frozen at a time

\* What may fail or be done to a rollout, "explicit": the operator names the
\* revision and keeps it, "pinned": endpoint policies outlive the process.
Setting == {"apply", "rollback", "unhealthy", "exit", "reset", "freeze",
            "explicit", "pinned"}

\* The ways RolloutPolicyEndpoints returns before it applies anything, in
\* the order it tries them.  "signature" is an error, the others a result.
GateOrder ==
  <<"dry_run", "risk_ack_pending", "operator_cancelled", "approval_expired",
    "approval_pending", "signature", "approval_callback", "change_poll",
    "ack_expired", "ack_pending", "finalize_expired", "operator_paused">>

Gate == {GateOrder[g] : g \in DOMAIN GateOrder}

\* closed: the gates the options and the external systems keep shut.
OptionType == [closed : SUBSET Gate, pauseAfter : Nat, percent : Nat,
               finalizePending : BOOLEAN]

ASSUME RolloutAssumption ==
  /\ N \in Nat \ {0} /\ BatchSize \in Nat \ {0} /\ MaxVersion \in Nat \ {0, 1}
  /\ PressureSizes \subseteq 1..BatchSize
  /\ \A o \in Options : /\ o.closed \subseteq Gate
                        /\ o.pauseAfter \in Nat /\ o.percent \in Nat
                        /\ o.finalizePending \in BOOLEAN
  /\ Settings \subseteq SUBSET Setting
  /\ Gated \in BOOLEAN /\ MaxFrozen \in Nat

Item == 1..N
NoPolicy == 0    \* the store has no such endpoint
OldPolicy == 1   \* what was installed before the first rollout
Version == 0..MaxVersion

VARIABLES
  setting,  \* the setting of this behaviour
  policy,   \* endpoint -> installed version
  version,  \* version of the desired state
  options,  \* options of the rollout in the desired state
  granted,  \* what the options since the version is desired may Reach
  frozen,   \* endpoints frozen through the API
  resume,   \* Open_vSwitch.external_ids:netloom_policy_rollout_state
  run       \* the RolloutPolicyEndpoints call in progress, or its outcome

spec == <<setting, version, options, granted>>
vars == <<spec, policy, frozen, resume, run>>

NoResume == [revision |-> 0, applied |-> {}]
Revision(v) == IF "explicit" \in setting THEN 1 ELSE v

\* The status reported to the change system and the rollout history.
Ended(status) == [pc |-> "idle", status |-> status]

-----------------------------------------------------------------------------
(* Batches, promotion and pauses                                           *)

PromotionLimit(percent) ==
  IF percent = 0 \/ percent >= 100 THEN 0
  ELSE (N * percent + 99) \div 100

Batch(size, i) == (i - 1) \div size

BatchComplete(r) == r.i = N \/ Batch(r.size, r.i + 1) # Batch(r.size, r.i)

AppliedItems(r) == {j \in Item : r.phase[j] \in {"applied", "resumed_applied"}}

\* Mutant: batches are not counted against the pause.
ShouldPauseUncounted(r, completed) ==
  LET limit == PromotionLimit(r.options.percent) IN
  /\ r.i < N
  /\ \/ r.options.finalizePending /\ completed > 0
     \/ limit > 0 /\ Cardinality(AppliedItems(r)) >= limit

\* Mutant: no pause configured counts as a pause after no batch.
ShouldPauseZero(r, completed) == r.i < N /\ completed >= r.options.pauseAfter

ShouldPause(r, completed) ==
  LET limit == PromotionLimit(r.options.percent) IN
  /\ r.i < N
  /\ \/ r.options.finalizePending /\ completed > 0
     \/ r.options.pauseAfter > 0 /\ completed >= r.options.pauseAfter
     \/ limit > 0 /\ Cardinality(AppliedItems(r)) >= limit

\* The items after the current one end in phase p.
Rest(r, p) == [j \in Item |-> IF j > r.i THEN p ELSE r.phase[j]]

NextItem(r) ==
  IF r.i = N THEN [r EXCEPT !.pc = "finish"]
  ELSE [r EXCEPT !.pc = "item", !.i = @ + 1]

\* The current item is done; at the end of its batch the rollout may pause.
EndItem(r) ==
  IF ~BatchComplete(r) THEN NextItem(r)
  ELSE LET s == [r EXCEPT !.completed = @ + 1] IN
       IF ShouldPause(s, s.completed)
       THEN [s EXCEPT !.pc = "finish", !.paused = TRUE,
                      !.phase = Rest(s, "paused")]
       ELSE NextItem(s)

Fail(r) == [r EXCEPT !.pc = "rollback", !.failed = TRUE,
                     !.phase = Rest(r, "skipped")]

Sizes == {BatchSize} \cup PressureSizes

\* In batches of that size, endpoint i comes before every pause point of o.
BeforePauses(o, size, i) ==
  LET limit == PromotionLimit(o.percent) IN
  /\ o.finalizePending => Batch(size, i) = 0
  /\ o.pauseAfter > 0 => Batch(size, i) < o.pauseAfter
  /\ limit > 0 => Batch(size, i) * size < limit

\* The endpoints options o let a rollout reach at some batch size.
Reach(o) == {i \in Item : \E size \in Sizes : BeforePauses(o, size, i)}

Init ==
  /\ setting \in Settings
  /\ policy \in [Item -> {NoPolicy, OldPolicy}]
  /\ version = OldPolicy + 1
  /\ options \in Options
  /\ granted = Reach(options)
  /\ frozen = {}
  /\ resume = NoResume
  /\ run = Ended("none")
-----------------------------------------------------------------------------
(* One cycle of the agent                                                  *)

\* The resume state and the frozen endpoints are read, every endpoint is
\* compiled and compared with what is installed.
Plan ==
  /\ run.pc = "idle"
  /\ \E size \in Sizes :
       run' = [pc |-> "gates", version |-> version, options |-> options,
               size |-> size, frozen |-> frozen,
               resumed |-> IF resume.revision = Revision(version)
                           THEN resume.applied ELSE {},
               changed |-> {i \in Item : policy[i] # version},
               phase |-> [i \in Item |-> "planned"],
               snapshot |-> policy, i |-> 0, applied |-> <<>>,
               unchecked |-> {}, completed |-> 0,
               paused |-> FALSE, failed |-> FALSE]
  /\ UNCHANGED <<spec, policy, frozen, resume>>

\* The gates that return: the risk gate only for a plan with a blocking
\* change, the others whenever they are shut.
ShutGates(r) ==
  {g \in DOMAIN GateOrder :
     /\ GateOrder[g] \in r.options.closed
     /\ GateOrder[g] = "risk_ack_pending" =>
          r.version \in Blocking /\ r.changed # {}}

\* pauseRolloutItems, cancelRolloutItems, or a dry run of the plan, which
\* fails the frozen endpoints.
GateReturns ==
  /\ run.pc = "gates" /\ ShutGates(run) # {}
  /\ LET gate == GateOrder[Min(ShutGates(run))]
         dry == gate = "dry_run"
         phase == CASE dry -> "planned"
                    [] gate = "operator_cancelled" -> "cancelled"
                    [] OTHER -> "paused"
     IN /\ gate # "signature"
        /\ run' = [run EXCEPT !.pc = "finish",
                              !.phase = [i \in Item |->
                                 IF dry /\ i \in run.frozen THEN "failed"
                                 ELSE phase],
                              !.paused = phase = "paused",
                              !.failed = dry /\ run.frozen # {}]
  /\ UNCHANGED <<spec, policy, frozen, resume>>

\* Every gate is open: snapshotRolloutPolicyEndpoints, then the first item.
GatesOpen ==
  /\ run.pc = "gates" /\ ShutGates(run) = {}
  /\ run' = [run EXCEPT !.pc = "item", !.i = 1, !.snapshot = policy]
  /\ UNCHANGED <<spec, policy, frozen, resume>>

Skippable(r) == r.i \in r.resumed /\ r.i \notin r.changed

\* Applied in an earlier cycle and unchanged since the plan.
ItemResumed ==
  /\ run.pc = "item" /\ Skippable(run)
  /\ run' = EndItem([run EXCEPT !.phase[run.i] = "resumed_applied"])
  /\ UNCHANGED <<spec, policy, frozen, resume>>

ItemFrozen ==
  /\ run.pc = "item" /\ ~Skippable(run) /\ run.i \in run.frozen
  /\ run' = Fail([run EXCEPT !.phase[run.i] = "failed"])
  /\ UNCHANGED <<spec, policy, frozen, resume>>

ItemApply ==
  /\ run.pc = "item" /\ ~Skippable(run) /\ run.i \notin run.frozen
  /\ policy' = [policy EXCEPT ![run.i] = run.version]
  /\ LET r == [run EXCEPT !.phase[run.i] = "applied",
                          !.applied = Append(@, run.i),
                          !.unchecked = @ \cup {run.i}]
     IN run' = IF Gated /\ BatchComplete(r) THEN [r EXCEPT !.pc = "check"]
               ELSE EndItem(r)
  /\ UNCHANGED <<spec, frozen, resume>>

ItemApplyFails ==
  /\ run.pc = "item" /\ ~Skippable(run) /\ run.i \notin run.frozen
  /\ "apply" \in setting
  /\ run' = Fail([run EXCEPT !.phase[run.i] = "failed"])
  /\ UNCHANGED <<spec, policy, frozen, resume>>

\* evaluateRolloutSLO and evaluateRolloutProbes on what this cycle applied.
CheckPasses ==
  /\ run.pc = "check"
  /\ run' = EndItem([run EXCEPT !.unchecked = {}])
  /\ UNCHANGED <<spec, policy, frozen, resume>>

CheckFails ==
  /\ run.pc = "check" /\ "unhealthy" \in setting
  /\ run' = Fail([run EXCEPT !.unchecked = {}])
  /\ UNCHANGED <<spec, policy, frozen, resume>>

\* Mutant: an endpoint the snapshot does not have is left as it is.
RollbackKeepsNew(ok) ==
  /\ run.pc = "rollback" /\ run.applied # <<>>
  /\ LET i == run.applied[Len(run.applied)] IN
     /\ run' = [run EXCEPT
                  !.applied = SubSeq(@, 1, Len(@) - 1),
                  !.phase[i] = IF ok THEN "rolled_back" ELSE "rollback_failed"]
     /\ policy' = IF ok /\ run.snapshot[i] # NoPolicy
                  THEN [policy EXCEPT ![i] = run.snapshot[i]] ELSE policy
  /\ ok \/ "rollback" \in setting
  /\ UNCHANGED <<spec, frozen, resume>>

\* rollbackRolloutPolicyEndpoints: the latest first, a failure is passed.
\* An endpoint the snapshot does not have is deleted.
Rollback(ok) ==
  /\ run.pc = "rollback" /\ run.applied # <<>>
  /\ LET i == run.applied[Len(run.applied)] IN
     /\ run' = [run EXCEPT
                  !.applied = SubSeq(@, 1, Len(@) - 1),
                  !.phase[i] = IF ok THEN "rolled_back" ELSE "rollback_failed"]
     /\ policy' = IF ok THEN [policy EXCEPT ![i] = run.snapshot[i]] ELSE policy
  /\ ok \/ "rollback" \in setting
  /\ UNCHANGED <<spec, frozen, resume>>

RollbackDone ==
  /\ run.pc = "rollback" /\ run.applied = <<>>
  /\ run' = [run EXCEPT !.pc = "finish"]
  /\ UNCHANGED <<spec, policy, frozen, resume>>

\* policyRolloutChangeStatus, with one status for all that is pending.
Status(r) ==
  CASE \E i \in Item : r.phase[i] = "cancelled" -> "cancelled"
    [] r.failed -> "failed"
    [] r.paused -> "paused"
    [] AppliedItems(r) # {} -> "applied"
    [] OTHER -> "planned"

\* Mutant: the resume state keeps the endpoints that were rolled back.
SavedResumeAll(r) ==
  IF r.paused \/ r.failed
  THEN [revision |-> Revision(r.version), applied |-> Item]
  ELSE NoResume

SavedResume(r) ==
  IF AppliedItems(r) # {} /\ (r.paused \/ r.failed)
  THEN [revision |-> Revision(r.version), applied |-> AppliedItems(r)]
  ELSE NoResume

\* savePolicyRolloutResume replaces what this node had saved.
Finish ==
  /\ run.pc = "finish"
  /\ resume' = SavedResume(run)
  /\ run' = Ended(Status(run))
  /\ UNCHANGED <<spec, policy, frozen>>

\* The process ends: by an error RolloutPolicyEndpoints or the save returns
\* (a bad signature, unreadable telemetry, status or resume state), or by a
\* crash.  Nothing is rolled back and nothing is saved.
ProcessEnds ==
  /\ run' = Ended("exit")
  /\ policy' = IF "pinned" \in setting THEN policy ELSE [i \in Item |-> NoPolicy]
  /\ UNCHANGED <<spec, frozen, resume>>

SignatureRejected ==
  /\ run.pc = "gates" /\ ShutGates(run) # {}
  /\ GateOrder[Min(ShutGates(run))] = "signature"
  /\ ProcessEnds

Exit ==
  /\ run.pc # "idle" /\ "exit" \in setting
  /\ ProcessEnds

Cycle ==
  \/ Plan \/ GateReturns \/ GatesOpen \/ SignatureRejected
  \/ ItemResumed \/ ItemFrozen \/ ItemApply \/ ItemApplyFails
  \/ CheckPasses \/ CheckFails
  \/ (\E ok \in BOOLEAN : Rollback(ok)) \/ RollbackDone
  \/ Finish
-----------------------------------------------------------------------------
(* The operator, at any time                                               *)

EditOptions ==
  /\ options' \in Options \ {options}
  /\ granted' = granted \cup Reach(options')
  /\ UNCHANGED <<setting, policy, version, frozen, resume, run>>

\* The endpoint policies of the desired state change.
EditPolicies ==
  /\ version < MaxVersion
  /\ version' = version + 1
  /\ granted' = Reach(options)
  /\ UNCHANGED <<setting, policy, options, frozen, resume, run>>

\* DELETE of an endpoint's policy through the API.
Reset(i) ==
  /\ "reset" \in setting
  /\ i \notin frozen /\ policy[i] # NoPolicy
  /\ policy' = [policy EXCEPT ![i] = NoPolicy]
  /\ UNCHANGED <<spec, frozen, resume, run>>

Freeze(i) ==
  /\ "freeze" \in setting
  /\ i \in frozen \/ Cardinality(frozen) < MaxFrozen
  /\ frozen' = IF i \in frozen THEN frozen \ {i} ELSE frozen \cup {i}
  /\ UNCHANGED <<spec, policy, resume, run>>

Next ==
  \/ Cycle \/ Exit
  \/ EditOptions \/ EditPolicies
  \/ \E i \in Item : Reset(i) \/ Freeze(i)

Spec == Init /\ [][Next]_vars

\* The loop never stops for good: a cycle in progress goes on, and the timer
\* starts the next one.
FairSpec == Spec /\ WF_vars(Cycle)
-----------------------------------------------------------------------------
Phase == {"planned", "paused", "cancelled", "skipped", "applied", "failed",
          "resumed_applied", "rolled_back", "rollback_failed"}

TypeOK ==
  /\ policy \in [Item -> Version]
  /\ setting \in Settings
  /\ version \in Version /\ options \in Options /\ granted \subseteq Item
  /\ frozen \subseteq Item
  /\ resume \in [revision : Version, applied : SUBSET Item]
  /\ run.pc # "idle" => run.phase \in [Item -> Phase] /\ run.i \in 0..N

(* What a cycle reports of each endpoint is what is installed: applied and *)
(* resumed endpoints have the new policy, rolled back ones and those not   *)
(* reached have what they had before the cycle (reconcile.go:652-793),     *)
(* unless the operator deletes policies meanwhile.                         *)
PhasesTellTheTruth ==
  "reset" \notin setting /\ run.pc \in {"item", "check", "rollback", "finish"} =>
    \A i \in Item :
      CASE run.phase[i] \in {"applied", "resumed_applied", "rollback_failed"}
             -> policy[i] = run.version
        [] OTHER -> policy[i] = run.snapshot[i]

(* The blast radius: whatever is retried, resumed, rolled back or cut      *)
(* short, and whatever the batch size shrinks to, a policy version is only *)
(* installed on endpoints that come before the pause points of the options *)
(* the operator gave it (reconcile.go:1197-1208).                          *)
BlastRadius == \A i \in Item : policy[i] = version => i \in granted

(* Resume state never claims an endpoint the last saved cycle gave up: an  *)
(* endpoint listed for the revision in force has that version unless the   *)
(* process has lost the maps since (main.go:5685-5728).                    *)
ResumeIsInstalled ==
  /\ "pinned" \in setting /\ setting \cap {"reset", "explicit"} = {}
  /\ run.pc = "idle" /\ resume.revision = version
  => \A i \in resume.applied : policy[i] = version

(* Once the operator leaves every gate open and nothing frozen and resets  *)
(* no more endpoints, and nothing fails, every endpoint ends with the      *)
(* desired policy.                                                         *)
Open == /\ options.closed = {} /\ options.pauseAfter = 0
        /\ options.percent = 0 /\ ~options.finalizePending
        /\ frozen = {}

Disturbance ==
  \/ ItemApplyFails \/ CheckFails \/ Exit
  \/ \E i \in Item : Reset(i)

Converges ==
  (<>[]Open /\ <>[][~Disturbance]_vars)
    => <>[](\A i \in Item : policy[i] = version)

(* After each batch the health of what was applied is checked before the   *)
(* next batch begins (docs/design/cilium-ebpf-acl.md:425).                 *)
CheckedBeforeNextBatch ==
  Gated /\ run.pc = "item" =>
    \A i \in run.unchecked : Batch(run.size, i) = Batch(run.size, run.i)

(* A failed rollout whose rollback succeeded leaves no endpoint with the   *)
(* new policy (docs/analysis/sdn-gap-vs-cilium-kube-ovn.md:104).           *)
FailedIsUndone ==
  run.pc = "finish" /\ run.failed
    /\ (\A i \in Item : run.phase[i] # "rollback_failed") =>
      \A i \in Item : policy[i] # run.version

(* A failed rollout is left alone until an operator has reviewed it        *)
(* (docs/operations/prometheus-alerts.yml:278): no cycle applies it again  *)
(* under the options and the policies that failed.                         *)
FailedWaitsForReview ==
  [][run.pc = "idle" /\ run.status = "failed" => ~Plan]_vars

(* The resume state tells which endpoints of a paused rollout have been    *)
(* applied (docs/design/cilium-ebpf-acl.md:433).                           *)
PausedIsRemembered ==
  run.pc = "idle" /\ run.status = "paused" =>
    {i \in Item : policy[i] = version} \subseteq resume.applied
=============================================================================
