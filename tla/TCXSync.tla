------------------------------- MODULE TCXSync -------------------------------
(***************************************************************************)
(* The TCX attachments of the agent's reconciler (internal/agent/          *)
(* reconcile.go): which links a reconcile asks for, how syncTCXTargets     *)
(* moves the kernel from the links it has to the ones it wants, and what a *)
(* failing attach or close leaves behind.  An attachment's two links of a  *)
(* dual-stack policy are attached and closed together and count as one.    *)
(***************************************************************************)
EXTENDS Integers, FiniteSets

CONSTANTS
  Endpoint,   \* local endpoints
  Program,    \* compiled programs: [ingress, egress : BOOLEAN, ver : ...],
              \* the directions it has enforcing L4 rules for, and the rest
  Settings,   \* the settings a behaviour may have: sets of Setting
  NoHandle,   \* r.attachments[key] of a key it does not have
  MaxHandles  \* bound on the attachments made in one process

Direction == {"ingress", "egress"}

\* The calls that may fail, "workload": one target per workload veth instead
\* of one interface, "retries": the caller reconciles again after an error.
Setting == {"attach", "close", "metrics", "workload", "retries"}

\* An attachment, and the programs it was made for (tcxTargetSignature).
Handle == [id : Nat, sig : SUBSET (Endpoint \X Program)]

ASSUME TCXAssumption ==
  /\ Program \subseteq [ingress : BOOLEAN, egress : BOOLEAN, ver : Nat]
  /\ Settings \subseteq SUBSET Setting
  /\ MaxHandles \in Nat /\ NoHandle \notin Handle

VARIABLES
  setting,      \* the setting of this behaviour
  attachments,  \* target key -> the handle r.attachments holds, or NoHandle
  links,        \* the links in the kernel: [id, key, sig]
  made,         \* number of attachments made by this process
  op            \* the sync in progress

vars == <<setting, attachments, links, made, op>>

\* tcxTargetKey: an interface and a policy direction.
Key == (IF "workload" \in setting THEN Endpoint ELSE {"interface"}) \X Direction

NoHandles == [k \in Key |-> NoHandle]

Done(result) == [pc |-> "idle", result |-> result]
Busy == op.pc # "idle"

Init ==
  /\ setting \in Settings
  /\ attachments = NoHandles
  /\ links = {}
  /\ made = 0
  /\ op = Done("ok")

\* tcxTargets: the programs each key enforces, {} for a key without target.
\* Frozen endpoints are left out before the targets are built.
Targets(programs, frozen) ==
  [k \in Key |->
     {<<e, programs[e]>> :
        e \in {x \in Endpoint \ frozen :
                 ("workload" \in setting => x = k[1]) /\ programs[x][k[2]]}}]

\* Links that close when the handles of the keys ks are closed.  A failed
\* close may leave its link behind.
LinksOf(handles, ks) ==
  {l \in links : l.key \in ks /\ handles[l.key] # NoHandle
                 /\ handles[l.key].id = l.id}

CloseResults(closing) ==
  IF "close" \in setting THEN {links \ gone : gone \in SUBSET closing}
  ELSE {links \ closing}
-----------------------------------------------------------------------------
(* syncTCXTargets                                                          *)

\* Mutant: an attachment is kept whatever its signature.
ReusableAny(want, k) == want[k] # {} /\ attachments[k] # NoHandle

Reusable(want, k) ==
  want[k] # {} /\ attachments[k] # NoHandle /\ attachments[k].sig = want[k]

SyncBegin(programs, frozen) ==
  LET want == Targets(programs, frozen)
      reused == {k \in Key : Reusable(want, k)}
      asked == {k \in Key : want[k] # {}}
  IN /\ ~Busy
     /\ op.result # "error" \/ "retries" \in setting
     /\ made + Cardinality(asked \ reused) <= MaxHandles
     /\ op' = [pc |-> IF asked = {} THEN "closeall" ELSE "attach",
               want |-> want, todo |-> asked \ reused, attached |-> {},
               next |-> [k \in Key |-> IF k \in reused THEN attachments[k]
                                       ELSE NoHandle],
               failed |-> FALSE, frozen |-> frozen]
     /\ UNCHANGED <<attachments, links, made>>

\* No target is left: closeTCXAttachments closes and forgets every handle.
CloseAll(k) ==
  /\ op.pc = "closeall"
  /\ attachments[k] # NoHandle
  /\ attachments' = [attachments EXCEPT ![k] = NoHandle]
  /\ \/ links' = links \ LinksOf(attachments, {k}) /\ UNCHANGED op
     \/ /\ "close" \in setting
        /\ links' \in CloseResults(LinksOf(attachments, {k}))
        /\ op' = [op EXCEPT !.failed = TRUE]
  /\ UNCHANGED made

CloseAllDone ==
  /\ op.pc = "closeall"
  /\ attachments = NoHandles
  /\ op' = Done(IF op.failed THEN "error" ELSE "ok")
  /\ UNCHANGED <<attachments, links, made>>

\* r.attach: the new links join the ones the key already has.
Attach(k) ==
  /\ op.pc = "attach" /\ k \in op.todo
  /\ made' = made + 1
  /\ links' = links \cup {[id |-> made', key |-> k, sig |-> op.want[k]]}
  /\ op' = [op EXCEPT !.next[k] = [id |-> made', sig |-> op.want[k]],
                      !.attached = @ \cup {k}, !.todo = @ \ {k}]
  /\ UNCHANGED attachments

\* Mutant: the rollback closes every handle of the next generation.
AttachFailsClosesAll(k) ==
  /\ op.pc = "attach" /\ k \in op.todo
  /\ "attach" \in setting
  /\ links' \in CloseResults(LinksOf(op.next, Key))
  /\ op' = Done("error")
  /\ UNCHANGED <<attachments, made>>

\* An attach fails: the handles attached by this sync are closed again and
\* r.attachments stays what it was.
AttachFails(k) ==
  /\ op.pc = "attach" /\ k \in op.todo
  /\ "attach" \in setting
  /\ links' \in CloseResults(LinksOf(op.next, op.attached))
  /\ op' = Done("error")
  /\ UNCHANGED <<attachments, made>>

\* Mutant: every old handle counts as stale.
AttachDoneAllStale ==
  /\ op.pc = "attach" /\ op.todo = {}
  /\ op' = [op EXCEPT !.pc = "stale",
                      !.todo = {k \in Key : attachments[k] # NoHandle}]
  /\ UNCHANGED <<attachments, links, made>>

AttachDone ==
  /\ op.pc = "attach" /\ op.todo = {}
  /\ op' = [op EXCEPT !.pc = "stale",
                      !.todo = {k \in Key : attachments[k] # NoHandle
                                            /\ op.next[k] = NoHandle}]
  /\ UNCHANGED <<attachments, links, made>>

\* The handles of keys that are no longer asked for.
CloseStale(k) ==
  /\ op.pc = "stale" /\ k \in op.todo
  /\ \/ /\ links' = links \ LinksOf(attachments, {k})
        /\ op' = [op EXCEPT !.todo = @ \ {k}]
     \/ /\ "close" \in setting
        /\ links' \in CloseResults(LinksOf(attachments, {k}))
        /\ op' = [op EXCEPT !.todo = @ \ {k}, !.failed = TRUE]
  /\ UNCHANGED <<attachments, made>>

\* All of them closed: the next generation is installed ...
Install ==
  /\ op.pc = "stale" /\ op.todo = {} /\ ~op.failed
  /\ attachments' = op.next
  /\ op' = [op EXCEPT !.pc = "metrics"]
  /\ UNCHANGED <<links, made>>

\* ... or one close failed: the whole next generation is closed, the reused
\* handles included, and r.attachments stays what it was.
StaleFailed ==
  /\ op.pc = "stale" /\ op.todo = {} /\ op.failed
  /\ links' \in CloseResults(LinksOf(op.next, Key))
  /\ op' = Done("error")
  /\ UNCHANGED <<attachments, made>>

Metrics ==
  /\ op.pc = "metrics"
  /\ \/ op' = Done("ok")
     \/ "metrics" \in setting /\ op' = Done("error")
  /\ UNCHANGED <<attachments, links, made>>

-----------------------------------------------------------------------------
(* attachTCXTargets: without an interval the agent attaches, holds the     *)
(* attachments for a while and closes them on its way out.                 *)

OnceBegin(programs) ==
  LET want == Targets(programs, {}) IN
  /\ ~Busy /\ made = 0
  /\ Cardinality({k \in Key : want[k] # {}}) \in 1..MaxHandles
  /\ op' = [pc |-> "once", want |-> want,
            todo |-> {k \in Key : want[k] # {}}, attached |-> {},
            next |-> NoHandles, failed |-> FALSE, frozen |-> {}]
  /\ UNCHANGED <<attachments, links, made>>

OnceAttach(k) ==
  /\ op.pc = "once" /\ k \in op.todo
  /\ made' = made + 1
  /\ links' = links \cup {[id |-> made', key |-> k, sig |-> op.want[k]]}
  /\ op' = [op EXCEPT !.next[k] = [id |-> made', sig |-> op.want[k]],
                      !.attached = @ \cup {k}, !.todo = @ \ {k}]
  /\ UNCHANGED attachments

\* The hold ends (or it is cancelled, or an attach or the metrics fail).
OnceReturns ==
  /\ op.pc = "once"
  /\ op.todo = {} \/ "attach" \in setting
  /\ links' \in CloseResults(LinksOf(op.next, op.attached))
  /\ op' = Done(IF op.todo = {} THEN "ok" ELSE "error")
  /\ UNCHANGED <<attachments, made>>

-----------------------------------------------------------------------------
\* The finalizer of a file descriptor nobody refers to any more closes it.
Held == {h.id : h \in {attachments[k] : k \in Key} \ {NoHandle}}
        \cup (IF Busy THEN {h.id : h \in {op.next[k] : k \in Key} \ {NoHandle}}
              ELSE {})

Collect(l) ==
  /\ l.id \notin Held
  /\ links' = links \ {l}
  /\ UNCHANGED <<attachments, made, op>>

\* The process ends, by Reconciler.Close or by dying: links die with their
\* file descriptors.
Exit ==
  /\ attachments' = NoHandles
  /\ links' = {}
  /\ made' = 0
  /\ op' = Done("exit")

Sync ==
  \/ \E k \in Key : \/ CloseAll(k) \/ Attach(k) \/ AttachFails(k)
                    \/ CloseStale(k) \/ OnceAttach(k)
  \/ CloseAllDone \/ AttachDone \/ Install \/ StaleFailed \/ Metrics
  \/ OnceReturns

Next ==
  /\ UNCHANGED setting
  /\ \/ \E programs \in [Endpoint -> Program] :
          \/ \E frozen \in SUBSET Endpoint : SyncBegin(programs, frozen)
          \/ OnceBegin(programs)
     \/ Sync
     \/ \E l \in links : Collect(l)
     \/ Exit

\* The goroutine of a sync keeps running.
Spec == Init /\ [][Next]_vars /\ WF_vars(Sync /\ UNCHANGED setting)

-----------------------------------------------------------------------------
TypeOK ==
  /\ setting \in Settings
  /\ attachments \in [Key -> Handle \cup {NoHandle}]
  /\ \A l \in links : l.key \in Key /\ l.id \in 1..made
  /\ made \in 0..MaxHandles
  /\ Busy => /\ op.next \in [Key -> Handle \cup {NoHandle}]
             /\ op.todo \subseteq Key /\ op.attached \subseteq Key

\* The link of a handle.
Link(k, h) == [id |-> h.id, key |-> k, sig |-> h.sig]

(* Every handle r.attachments holds has its link in the kernel between two *)
(* syncs, unless a close failed: what the next sync reuses is enforced.    *)
HeldIsAttached ==
  "close" \notin setting /\ ~Busy => \A k \in Key :
    attachments[k] # NoHandle => Link(k, attachments[k]) \in links

(* Make before break: a key that is enforced and still asked for has a     *)
(* complete attachment at every moment of the sync, whether it is reused,  *)
(* replaced or the sync fails on the way.                                  *)
NeverUnenforced ==
  Busy /\ op.pc # "once" =>
    \A k \in Key :
      attachments[k] # NoHandle /\ op.want[k] # {} =>
        \E l \in links : l.key = k

(* After a successful sync r.attachments is exactly what was asked for:    *)
(* every target has a handle with its signature and nothing else has one.  *)
SyncInstallsTargets ==
  [][op.pc = "metrics" /\ op'.pc = "idle" /\ op'.result # "exit" =>
       \A k \in Key :
         /\ (attachments'[k] # NoHandle) <=> (op.want[k] # {})
         /\ op.want[k] # {} => /\ attachments'[k].sig = op.want[k]
                               /\ Link(k, attachments'[k]) \in links']_vars

(* Every sync returns, whatever it has to attach and close.                *)
SyncReturns == Busy ~> ~Busy

(* After a successful sync a key is enforced by the policy asked for and   *)
(* by no other: a replaced attachment is gone.                             *)
ReplacedIsClosed ==
  [][op.pc = "metrics" /\ op'.pc = "idle" /\ op'.result # "exit" =>
       \A l \in links' : l.sig = op.want[l.key]]_vars

(* A reconcile that finds an endpoint frozen leaves its links alone.       *)
FrozenKeepsLinks ==
  [][Busy /\ Busy' =>
       \A k \in Key :
         k[1] \in op.frozen /\ attachments[k] # NoHandle
           /\ Link(k, attachments[k]) \in links
           => Link(k, attachments[k]) \in links']_vars
=============================================================================
