----------------------------- MODULE PolicyFreeze -----------------------------
(***************************************************************************)
(* The set of frozen endpoints of cmd/netloom-agent/main.go: HTTP requests *)
(* that change it in memory under m.mu, persist a copy of it without the   *)
(* lock, and take their change back when that fails; readers that prune    *)
(* expired entries; and a restart that loads what was persisted.  What a   *)
(* save does to Open_vSwitch.external_ids is the subject of OpenVSwitchRow,*)
(* which ControllerLoop composes with this module.                         *)
(***************************************************************************)
CONSTANTS
  Endpoint,
  Request,     \* goroutines that may be at work at the same time
  SaveFaults   \* TRUE: writing Open_vSwitch.external_ids may fail

\* An entry of the map: none, one without expiry, one with a deadline.
Entry == {"none", "forever", "timed"}

VARIABLES
  frozen,   \* m.frozenEndpoints
  late,     \* the deadline of timed entries has passed
  request,  \* goroutine -> what it is doing
  owed      \* endpoint -> entries the operator may expect to find in force

freezer == <<frozen, late, request, owed>>

Free == [pc |-> "free"]
NoneFrozen == [e \in Endpoint |-> "none"]

Init ==
  /\ frozen = NoneFrozen
  /\ late = FALSE
  /\ request = [r \in Request |-> Free]
  /\ owed = [e \in Endpoint |-> {"none"}]

Expired(entry, now) == entry = "timed" /\ now

\* normalizePolicyFreezeStateEntries, and the filter of the loader.
Unexpired(f, now) ==
  [e \in Endpoint |-> IF Expired(f[e], now) THEN "none" ELSE f[e]]
-----------------------------------------------------------------------------
\* Requests under way for the same endpoint: whoever overlaps with one can
\* rely on neither answer.
Rivals(e) == {q \in Request : request[q] # Free /\ e \in request[q].endpoint}

\* freezePolicyEndpoint and unfreezePolicyEndpoint up to m.mu.Unlock().
Change(r, e, entry) ==
  /\ request[r] = Free
  /\ entry = "timed" => ~late
  /\ frozen' = [frozen EXCEPT ![e] = entry]
  /\ request' = [q \in Request |->
       IF q = r
       THEN [pc |-> "save", endpoint |-> {e}, entry |-> entry,
             alone |-> Rivals(e) = {}, before |-> owed[e],
             previous |-> frozen, next |-> Unexpired(frozen', late)]
       ELSE IF q \in Rivals(e) THEN [request[q] EXCEPT !.alone = FALSE]
       ELSE request[q]]
  /\ owed' = [owed EXCEPT ![e] = Entry]
  /\ UNCHANGED late

\* pruneExpiredFrozenPolicyEndpoints up to m.mu.Unlock().
Prune(r) ==
  /\ request[r] = Free
  /\ frozen # Unexpired(frozen, late)
  /\ frozen' = Unexpired(frozen, late)
  /\ request' = [request EXCEPT ![r] =
       [pc |-> "save", endpoint |-> {}, entry |-> "none",
        alone |-> TRUE, before |-> {},
        previous |-> frozen', next |-> frozen']]
  /\ UNCHANGED <<late, owed>>

Save(r) ==
  /\ request[r].pc = "save"
  /\ request' = [request EXCEPT ![r] = Free]
  /\ owed' = [e \in Endpoint |->
                IF request[r].alone /\ e \in request[r].endpoint
                THEN {request[r].entry} ELSE owed[e]]
  /\ UNCHANGED <<frozen, late>>

\* The write fails.  A prune only logs the error.
SaveFails(r) ==
  /\ SaveFaults /\ request[r].pc = "save"
  /\ request' = [request EXCEPT ![r] =
       IF request[r].endpoint = {} THEN Free ELSE [@ EXCEPT !.pc = "restore"]]
  /\ UNCHANGED <<frozen, late, owed>>

\* After an error the operator expects what was in force before, or the
\* change if it was written.
OwedAfterFailure(r) ==
  [e \in Endpoint |-> IF request[r].alone /\ e \in request[r].endpoint
                      THEN request[r].before \cup {request[r].entry}
                      ELSE owed[e]]

\* Mutant: the change is taken back by unfreezing.
RestoreUnfreezes(r) ==
  /\ request[r].pc = "restore"
  /\ frozen' = [e \in Endpoint |-> IF e \in request[r].endpoint THEN "none"
                                   ELSE frozen[e]]
  /\ request' = [request EXCEPT ![r] = Free]
  /\ owed' = OwedAfterFailure(r)
  /\ UNCHANGED late

Restore(r) ==
  /\ request[r].pc = "restore"
  /\ frozen' = request[r].previous
  /\ request' = [request EXCEPT ![r] = Free]
  /\ owed' = OwedAfterFailure(r)
  /\ UNCHANGED late

\* configurePolicyFreezeState with the entries it finds.  What was owed in
\* memory is owed after it, unless somebody else turned the entries back;
\* requests under way get no answer.
Restart(saved, turnedBack) ==
  /\ frozen' = Unexpired(saved, late)
  /\ request' = [r \in Request |-> Free]
  /\ owed' = IF turnedBack THEN [e \in Endpoint |-> Entry] ELSE owed
  /\ UNCHANGED late

Deadline == ~late /\ late' = TRUE /\ UNCHANGED <<frozen, request, owed>>
=============================================================================
