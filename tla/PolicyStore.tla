---------------------------- MODULE PolicyStore ----------------------------
(***************************************************************************)
(* What the agent relies on when it talks to a policy store, and what the  *)
(* in-memory store of internal/dataplane/policymap.go does: every call is  *)
(* one atomic step that either installs a whole endpoint policy under the  *)
(* next revision, or changes nothing but the audit trail.                  *)
(***************************************************************************)
EXTENDS Integers

CONSTANTS
  Endpoint,     \* endpoint ids
  Policy,       \* canonical endpoint policies (sets of map entries)
  NoEntries,    \* the policy without entries
  MaxRevision   \* bound on the revisions explored

VARIABLES
  policy,       \* endpoint -> the installed policy
  revision,     \* endpoint -> the stored revision, 0 when there is none
  event         \* endpoint -> the last PolicyUpdateEvent recorded, or NoEvent

vars == <<policy, revision, event>>

NoEvent == [prev |-> 0, rev |-> 0, success |-> TRUE]

Init ==
  /\ policy = [e \in Endpoint |-> NoEntries]
  /\ revision = [e \in Endpoint |-> 0]
  /\ event = [e \in Endpoint |-> NoEvent]

\* The event of a call that attempts the revision after the stored one.
Attempt(e, ok) ==
  [prev |-> revision[e], rev |-> revision[e] + 1, success |-> ok]

Replace(e, p) ==
  /\ revision[e] < MaxRevision
  /\ policy' = [policy EXCEPT ![e] = p]
  /\ revision' = [revision EXCEPT ![e] = @ + 1]
  /\ event' = [event EXCEPT ![e] = Attempt(e, TRUE)]

ReplaceFails(e) ==
  /\ event' = [event EXCEPT ![e] = Attempt(e, FALSE)]
  /\ UNCHANGED <<policy, revision>>

\* The endpoints an idle sweep or a DeleteEndpoint call removes.  Only an
\* endpoint the store knows leaves an event.
Delete(gone) ==
  /\ policy' = [e \in Endpoint |-> IF e \in gone THEN NoEntries ELSE policy[e]]
  /\ event' = [e \in Endpoint |-> IF e \in gone /\ revision[e] # 0
                                  THEN Attempt(e, TRUE) ELSE event[e]]
  /\ revision' = [e \in Endpoint |-> IF e \in gone THEN 0 ELSE revision[e]]

\* The process ends: nothing of the store outlives it.
Restart == policy' = [e \in Endpoint |-> NoEntries]
        /\ revision' = [e \in Endpoint |-> 0]
        /\ event' = [e \in Endpoint |-> NoEvent]

Next ==
  \/ \E e \in Endpoint : \/ \E p \in Policy : Replace(e, p)
                         \/ ReplaceFails(e)
  \/ \E es \in SUBSET Endpoint : Delete(es)
  \/ Restart

Spec == Init /\ [][Next]_vars

=============================================================================
