------------------------- MODULE ControllerLoopProofs -------------------------
(***************************************************************************)
(* Proofs about ControllerLoop, for every number of servers, every desired *)
(* state, set of endpoints and history of the feed, and all thresholds: a  *)
(* reconnection dials every server before it gives up, the verdicts on     *)
(* backends follow their probes, a reconcile pass works with the newest    *)
(* identity groups, and a confirmed freeze stays in force whatever else    *)
(* happens in the loop and to the Open_vSwitch row.                        *)
(***************************************************************************)
EXTENDS ControllerLoop, TLAPS

\* The provers get time to answer while the next steps are prepared.
USE SMTT(60)

-----------------------------------------------------------------------------
(***************************************************************************)
(* What the steps leave alone.                                             *)
(***************************************************************************)
\* Steps of the importer, the agent and the monitors.
Outside ==
  \/ ImportBegins \/ ImportWrites \/ ImportEnds
  \/ Freeze \/ SaveFreeze \/ AgentReports \/ AgentRestarts \/ DeadlinePasses
  \/ \E c \in DOMAIN view : Monitor(c)

LEMMA OutsideSteps == ASSUME Outside PROVE UNCHANGED <<loop, conn, feed, health>>
<1>1. CASE ImportBegins \/ ImportWrites \/ ImportEnds
  BY <1>1 DEF ImportBegins, ImportWrites, ImportEnds
<1>2. CASE Freeze \/ SaveFreeze \/ AgentReports \/ AgentRestarts \/ DeadlinePasses
  BY <1>2 DEF Freeze, SaveFreeze, AgentReports, AgentRestarts, DeadlinePasses
<1>3. CASE \E c \in DOMAIN view : Monitor(c)
  BY <1>3 DEF Monitor
<1> QED
  BY <1>1, <1>2, <1>3 DEF Outside

\* Only these steps are about the connection ...
LEMMA ConnectionSteps ==
  ASSUME [Next]_vars
  PROVE  \/ UNCHANGED <<answers, check>>
         \/ CheckConnection \/ Reconnect \/ Exit \/ Start \/ Disturbance \/ Recovery
<1>1. CASE Outside \/ UNCHANGED vars
  BY <1>1, OutsideSteps DEF vars, conn
<1>2. CASE Begin \/ CheckFailed \/ LoadState \/ LoadRevision
  BY <1>2 DEF Begin, CheckFailed, LoadState, LoadRevision, conn
<1>3. CASE MergeIdentities \/ ProbeBackends \/ Apply \/ Report
  BY <1>3 DEF MergeIdentities, ProbeBackends, Apply, Report, conn
<1> QED
  BY <1>1, <1>2, <1>3 DEF Next, Loop, Outside

\* ... these about the backends ...
LEMMA BackendSteps ==
  ASSUME [Next]_vars
  PROVE  UNCHANGED <<tracker, probed>> \/ ProbeBackends \/ Exit
<1>1. CASE Outside \/ UNCHANGED vars
  BY <1>1, OutsideSteps DEF vars, health
<1>2. CASE Begin \/ CheckConnection \/ Reconnect \/ CheckFailed \/ LoadState \/ LoadRevision
  BY <1>2 DEF Begin, CheckConnection, Reconnect, CheckFailed, LoadState, LoadRevision, health
<1>3. CASE MergeIdentities \/ Apply \/ Report \/ Start
  BY <1>3 DEF MergeIdentities, Apply, Report, Start, health
<1>4. CASE Disturbance
  BY <1>4 DEF Disturbance, LB!BackendStops, health
<1>5. CASE Recovery
  BY <1>5 DEF Recovery, LB!BackendStarts, health
<1> QED
  BY <1>1, <1>2, <1>3, <1>4, <1>5 DEF Next, Loop, Outside

\* ... and these about the pass or the feed.
LEMMA PassSteps ==
  ASSUME [Next]_vars
  PROVE  \/ UNCHANGED <<stage, pass, edition, cache, clock>>
         \/ Begin \/ CheckConnection \/ CheckFailed \/ LoadState \/ LoadRevision
         \/ MergeIdentities \/ ProbeBackends \/ Apply \/ Report \/ Start \/ Exit \/ Disturbance
<1>1. CASE Outside \/ UNCHANGED vars
  BY <1>1, OutsideSteps DEF vars, loop, feed
<1>2. CASE Reconnect
  BY <1>2 DEF Reconnect, loop, feed
<1>3. CASE Recovery
  BY <1>3 DEF Recovery, Feed!FeedStarts, loop, feed
<1> QED
  BY <1>1, <1>2, <1>3 DEF Next, Loop, Outside

-----------------------------------------------------------------------------
(* What the window of results says after one more.                         *)
LEMMA OneMoreResult ==
  ASSUME NEW p \in Seq(LB!Outcome), NEW ok \in LB!Outcome, NEW v \in LB!Outcome,
         NEW n \in 1..LB!Window
  PROVE  /\ LB!Recent(Append(p, ok)) \in Seq(LB!Outcome)
         /\ LB!InARow(LB!Recent(Append(p, ok)), v, n)
              <=> (ok = v /\ (n = 1 \/ LB!InARow(p, v, n - 1)))
<1> DEFINE q == Append(p, ok)
           w == LB!Window
           r == LB!Recent(q)
<1>1. w \in Nat /\ w >= 1 /\ n \in Nat /\ 1 <= n /\ n <= w
  BY LoopAssumption DEF LB!Window
<1>2. /\ q \in Seq(LB!Outcome) /\ Len(q) = Len(p) + 1 /\ Len(p) \in Nat
      /\ q[Len(q)] = ok /\ \A i \in 1..Len(p) : q[i] = p[i]
  OBVIOUS
<1> HIDE DEF q, w
<1>3. /\ r \in Seq(LB!Outcome)
      /\ Len(r) = IF Len(q) <= w THEN Len(q) ELSE w
      /\ \A i \in 1..Len(r) : r[i] = q[i + Len(q) - Len(r)]
  <2>1. CASE Len(q) <= w
    BY <1>1, <1>2, <2>1 DEF LB!Recent, w
  <2>2. CASE Len(q) > w
    <3>1. r = SubSeq(q, Len(q) - w + 1, Len(q))
      BY <1>1, <1>2, <2>2 DEF LB!Recent, w
    <3>2. Len(q) - w + 1 \in Nat /\ Len(q) - w + 1 >= 1 /\ Len(q) - w + 1 <= Len(q)
      BY <1>1, <1>2, <2>2
    <3>3. Len(r) = w
      BY <3>1, <3>2, <1>1, <1>2
    <3>4. \A i \in 1..w : r[i] = q[i + Len(q) - w]
      BY <3>1, <3>2, <1>1, <1>2
    <3>5. r \in Seq(LB!Outcome)
      BY <3>1, <3>2, <1>1, <1>2
    <3> QED BY <3>3, <3>4, <3>5, <1>1, <1>2, <2>2
  <2> QED BY <1>1, <1>2, <2>1, <2>2
<1> HIDE DEF r
<1>4. LB!InARow(r, v, n) <=> LB!InARow(q, v, n)
  <2> DEFINE lq == Len(q)
             lr == Len(r)
  <2>1. /\ lq \in Nat /\ lr \in Nat /\ lr <= lq /\ n \in Nat /\ 1 <= n
        /\ lr >= n <=> lq >= n
        /\ \A i \in 1..lr : r[i] = q[i + lq - lr]
    <3>1. lq \in Nat /\ lr = IF lq <= w THEN lq ELSE w
      BY <1>2, <1>3
    <3>2. \A i \in 1..lr : r[i] = q[i + lq - lr]
      BY <1>3
    <3> HIDE DEF lq, lr
    <3> QED BY <3>1, <3>2, <1>1
  <2> HIDE DEF lq, lr
  <2>2. ASSUME lq >= n
        PROVE (\A i \in lr - n + 1 .. lr : r[i] = v) <=> (\A i \in lq - n + 1 .. lq : q[i] = v)
    <3>1. ASSUME \A i \in lr - n + 1 .. lr : r[i] = v, NEW i \in lq - n + 1 .. lq
          PROVE  q[i] = v
      <4>1. /\ i - lq + lr \in lr - n + 1 .. lr /\ i - lq + lr \in 1..lr
            /\ (i - lq + lr) + lq - lr = i
        BY <2>1, <2>2
      <4>2. r[i - lq + lr] = v /\ r[i - lq + lr] = q[(i - lq + lr) + lq - lr]
        BY <4>1, <3>1, <2>1
      <4> QED BY <4>1, <4>2
    <3>2. ASSUME \A i \in lq - n + 1 .. lq : q[i] = v, NEW i \in lr - n + 1 .. lr
          PROVE  r[i] = v
      <4>1. i + lq - lr \in lq - n + 1 .. lq /\ i \in 1..lr
        BY <2>1, <2>2
      <4> QED BY <4>1, <3>2, <2>1
    <3> QED BY <3>1, <3>2
  <2> QED BY <2>1, <2>2 DEF LB!InARow, lq, lr
<1>5. LB!InARow(q, v, n) <=> (ok = v /\ (n = 1 \/ LB!InARow(p, v, n - 1)))
  <2>1. CASE n = 1
    BY <2>1, <1>1, <1>2 DEF LB!InARow
  <2>2. CASE n > 1
    BY <2>2, <1>1, <1>2 DEF LB!InARow
  <2> QED BY <1>1, <2>1, <2>2
<1> QED BY <1>3, <1>4, <1>5 DEF q, r

-----------------------------------------------------------------------------
(* The counters of an entry t are the lengths of the rows that end its     *)
(* results p, and a verdict contradicts no row of full length.             *)
EntryInv(t, p) ==
  /\ t \in [healthy : BOOLEAN, successes : Nat, failures : Nat]
  /\ p \in Seq(LB!Outcome)
  /\ \A n \in 1..SuccessCount : t.successes >= n <=> LB!InARow(p, "ok", n)
  /\ \A n \in 1..FailureCount : t.failures >= n <=> LB!InARow(p, "failed", n)
  /\ t.successes >= SuccessCount => t.healthy
  /\ t.failures >= FailureCount => ~t.healthy

HealthInv == \A b \in Backend : EntryInv(tracker[b], probed[b])

\* VerdictsFollowProbes for an entry t that becomes u with results q.
Turns(t, u, q) ==
  LB!Tracked(u) =>
    u.healthy = IF LB!InARow(q, "failed", FailureCount) THEN FALSE
                ELSE IF LB!InARow(q, "ok", SuccessCount) THEN TRUE
                ELSE t.healthy \/ ~LB!Tracked(t)

LEMMA NoRowInNothing ==
  ASSUME NEW v, NEW n \in Nat \ {0}
  PROVE  ~LB!InARow(<<>>, v, n)
BY DEF LB!InARow

LEMMA UntrackedType ==
  /\ LB!Untracked \in [healthy : BOOLEAN, successes : Nat, failures : Nat]
  /\ ~LB!Tracked(LB!Untracked)
BY DEF LB!Untracked, LB!Tracked

LEMMA UntrackedEntry ==
  ASSUME NEW t \in [healthy : BOOLEAN, successes : Nat, failures : Nat], ~LB!Tracked(t)
  PROVE  EntryInv(t, <<>>)
<1>1. t.successes = 0 /\ t.failures = 0
  BY DEF LB!Tracked
<1>2. <<>> \in Seq(LB!Outcome)
  OBVIOUS
<1> QED BY <1>1, <1>2, NoRowInNothing, LoopAssumption DEF EntryInv

\* An entry that stays what it was.
LEMMA KeptEntry ==
  ASSUME NEW t, NEW p, EntryInv(t, p)
  PROVE  Turns(t, t, p)
<1>1. /\ t.healthy \in BOOLEAN
      /\ LB!InARow(p, "failed", FailureCount) => ~t.healthy
      /\ LB!InARow(p, "ok", SuccessCount) => t.healthy
  BY LoopAssumption DEF EntryInv
<1> QED BY <1>1, ZenonT(60) DEF Turns

\* Count goes up to its limit.
LEMMA CountReaches ==
  ASSUME NEW k \in Nat, NEW limit \in Nat \ {0}, NEW n \in 1..limit
  PROVE  LB!Count(k, limit) >= n <=> (n = 1 \/ k >= n - 1)
BY DEF LB!Count

LEMMA CountPositive ==
  ASSUME NEW k \in Nat, NEW limit \in Nat \ {0}
  PROVE  LB!Count(k, limit) \in Nat /\ LB!Count(k, limit) > 0
BY DEF LB!Count

LEMMA UpdatedEntry ==
  ASSUME NEW t, NEW p, EntryInv(t, p), NEW ok \in LB!Outcome
  PROVE  LET u == LB!Update(t, ok)
             q == LB!Recent(Append(p, ok))
         IN LB!Tracked(u) /\ EntryInv(u, q) /\ Turns(t, u, q)
<1> DEFINE u == LB!Update(t, ok)
           q == LB!Recent(Append(p, ok))
           s == LB!Count(t.successes, SuccessCount)
           f == LB!Count(t.failures, FailureCount)
           healthy == t.healthy \/ ~LB!Tracked(t)
<1>1. /\ t.successes \in Nat /\ t.failures \in Nat /\ healthy \in BOOLEAN
      /\ p \in Seq(LB!Outcome)
      /\ SuccessCount \in Nat \ {0} /\ FailureCount \in Nat \ {0}
      /\ SuccessCount \in 1..LB!Window /\ FailureCount \in 1..LB!Window
  BY LoopAssumption DEF EntryInv, LB!Tracked, LB!Window
<1>2. s \in Nat /\ s > 0 /\ f \in Nat /\ f > 0
  BY <1>1, CountPositive, ZenonT(60)
<1>3. q \in Seq(LB!Outcome)
  BY <1>1, OneMoreResult
<1>4. CASE ok = "ok"
  <2>1. u = [healthy |-> healthy \/ s >= SuccessCount, successes |-> s, failures |-> 0]
    BY <1>4 DEF LB!Update
  <2>2. \A n \in 1..SuccessCount : s >= n <=> LB!InARow(q, "ok", n)
    <3> TAKE n \in 1..SuccessCount
    <3>1. s >= n <=> (n = 1 \/ t.successes >= n - 1)
      BY <1>1, CountReaches
    <3>2. n \in 1..LB!Window /\ ok = "ok" /\ "ok" \in LB!Outcome
      BY <1>1, <1>4 DEF LB!Outcome, LB!Window
    <3>3. LB!InARow(q, "ok", n) <=> (n = 1 \/ LB!InARow(p, "ok", n - 1))
      BY <1>1, <3>2, OneMoreResult
    <3>4. CASE n = 1
      BY <3>1, <3>3, <3>4
    <3>5. CASE n # 1
      <4>1. n - 1 \in 1..SuccessCount
        BY <1>1, <3>5
      <4> QED BY <4>1, <3>1, <3>3, <3>5 DEF EntryInv
    <3> QED BY <3>4, <3>5
  <2>3. \A n \in 1..FailureCount : ~LB!InARow(q, "failed", n)
    <3> TAKE n \in 1..FailureCount
    <3>1. n \in 1..LB!Window /\ ok # "failed" /\ "failed" \in LB!Outcome
      BY <1>1, <1>4 DEF LB!Outcome, LB!Window
    <3> QED BY <1>1, <3>1, OneMoreResult
  <2> HIDE DEF u, q, s, f, healthy
  <2>4. u.healthy = (healthy \/ s >= SuccessCount) /\ u.successes = s /\ u.failures = 0
    BY <2>1
  <2>5. u \in [healthy : BOOLEAN, successes : Nat, failures : Nat] /\ LB!Tracked(u)
    BY <2>1, <1>1, <1>2 DEF LB!Tracked
  <2>6. (s >= SuccessCount <=> LB!InARow(q, "ok", SuccessCount)) /\ ~LB!InARow(q, "failed", FailureCount)
    BY <2>2, <2>3, <1>1, <1>2
  <2>7. EntryInv(u, q)
    BY <2>2, <2>3, <2>4, <2>5, <1>1, <1>2, <1>3 DEF EntryInv
  <2>8. u.healthy = IF LB!InARow(q, "failed", FailureCount) THEN FALSE
                    ELSE IF LB!InARow(q, "ok", SuccessCount) THEN TRUE
                    ELSE healthy
    BY <2>4, <2>6, <1>1, ZenonT(60)
  <2> QED BY <2>5, <2>7, <2>8, ZenonT(60) DEF Turns, healthy, u, q
<1>5. CASE ok = "failed"
  <2>1. u = [healthy |-> healthy /\ f < FailureCount, successes |-> 0, failures |-> f]
    BY <1>5 DEF LB!Update
  <2>2. \A n \in 1..FailureCount : f >= n <=> LB!InARow(q, "failed", n)
    <3> TAKE n \in 1..FailureCount
    <3>1. f >= n <=> (n = 1 \/ t.failures >= n - 1)
      BY <1>1, CountReaches
    <3>2. n \in 1..LB!Window /\ ok = "failed" /\ "failed" \in LB!Outcome
      BY <1>1, <1>5 DEF LB!Outcome, LB!Window
    <3>3. LB!InARow(q, "failed", n) <=> (n = 1 \/ LB!InARow(p, "failed", n - 1))
      BY <1>1, <3>2, OneMoreResult
    <3>4. CASE n = 1
      BY <3>1, <3>3, <3>4
    <3>5. CASE n # 1
      <4>1. n - 1 \in 1..FailureCount
        BY <1>1, <3>5
      <4> QED BY <4>1, <3>1, <3>3, <3>5 DEF EntryInv
    <3> QED BY <3>4, <3>5
  <2>3. \A n \in 1..SuccessCount : ~LB!InARow(q, "ok", n)
    <3> TAKE n \in 1..SuccessCount
    <3>1. n \in 1..LB!Window /\ ok # "ok" /\ "ok" \in LB!Outcome
      BY <1>1, <1>5 DEF LB!Outcome, LB!Window
    <3> QED BY <1>1, <3>1, OneMoreResult
  <2> HIDE DEF u, q, s, f, healthy
  <2>4. u.healthy = (healthy /\ f < FailureCount) /\ u.successes = 0 /\ u.failures = f
    BY <2>1
  <2>5. u \in [healthy : BOOLEAN, successes : Nat, failures : Nat] /\ LB!Tracked(u)
    BY <2>1, <1>1, <1>2 DEF LB!Tracked
  <2>6. (f < FailureCount <=> ~LB!InARow(q, "failed", FailureCount)) /\ ~LB!InARow(q, "ok", SuccessCount)
    BY <2>2, <2>3, <1>1, <1>2
  <2>7. EntryInv(u, q)
    BY <2>2, <2>3, <2>4, <2>5, <1>1, <1>2, <1>3 DEF EntryInv
  <2>8. u.healthy = IF LB!InARow(q, "failed", FailureCount) THEN FALSE
                    ELSE IF LB!InARow(q, "ok", SuccessCount) THEN TRUE
                    ELSE healthy
    BY <2>4, <2>6, <1>1, ZenonT(60)
  <2> QED BY <2>5, <2>7, <2>8, ZenonT(60) DEF Turns, healthy, u, q
<1> QED BY <1>4, <1>5 DEF LB!Outcome

\* A pass that probes, to its end or to a port that fails.
LEMMA ProbingStep ==
  ASSUME HealthInv, NEW ports, NEW b \in Backend,
         LB!CheckBackends(ports) \/ LB!CheckFails(ports)
  PROVE  EntryInv(tracker'[b], probed'[b]) /\ Turns(tracker[b], tracker'[b], probed'[b])
<1>1. EntryInv(tracker[b], probed[b])
  BY DEF HealthInv
<1>2. LB!Remember(LB!Seen(ports))
  BY DEF LB!CheckBackends, LB!CheckFails
<1>3. CASE b \in LB!Seen(ports)
  <2>1. tracker'[b] = LB!Update(tracker[b], LB!Probe(b))
    BY <1>3 DEF LB!CheckBackends, LB!CheckFails, LB!Probed, LB!Prune
  <2>2. LB!Probe(b) \in LB!Outcome
    BY DEF LB!Probe, LB!Outcome
  <2>3. LB!Tracked(tracker'[b])
    BY <1>1, <2>1, <2>2, UpdatedEntry
  <2>4. probed'[b] = LB!Recent(Append(probed[b], LB!Probe(b)))
    BY <1>2, <1>3, <2>3 DEF LB!Remember
  <2> QED BY <1>1, <2>1, <2>2, <2>4, UpdatedEntry
<1>4. CASE b \notin LB!Seen(ports)
  <2>1. tracker'[b] = LB!Untracked \/ tracker'[b] = tracker[b]
    BY <1>4 DEF LB!CheckBackends, LB!CheckFails, LB!Probed, LB!Prune
  <2>2. tracker'[b] \in [healthy : BOOLEAN, successes : Nat, failures : Nat]
    BY <1>1, <2>1, UntrackedType DEF EntryInv
  <2>3. CASE LB!Tracked(tracker'[b])
    <3>1. tracker'[b] = tracker[b]
      BY <2>1, <2>3 DEF LB!Tracked, LB!Untracked
    <3>2. probed'[b] = probed[b]
      BY <1>2, <1>4, <2>3 DEF LB!Remember
    <3> QED BY <1>1, <3>1, <3>2, KeptEntry
  <2>4. CASE ~LB!Tracked(tracker'[b])
    <3>1. probed'[b] = <<>>
      BY <1>2, <2>4 DEF LB!Remember
    <3> QED BY <2>2, <2>4, <3>1, UntrackedEntry, ZenonT(60) DEF Turns
  <2> QED BY <2>3, <2>4
<1> QED BY <1>3, <1>4

LEMMA InitHealth == Init => HealthInv
<1> SUFFICES ASSUME Init, NEW b \in Backend PROVE EntryInv(tracker[b], probed[b])
  BY DEF HealthInv
<1>1. tracker[b] = LB!Untracked /\ probed[b] = <<>>
  BY DEF Init, LB!Init
<1> QED BY <1>1, UntrackedType, UntrackedEntry

LEMMA NextHealth ==
  ASSUME HealthInv, [Next]_vars, NEW b \in Backend
  PROVE  EntryInv(tracker'[b], probed'[b]) /\ Turns(tracker[b], tracker'[b], probed'[b])
<1>1. CASE UNCHANGED <<tracker, probed>>
  BY <1>1, KeptEntry DEF HealthInv
<1>2. CASE ProbeBackends
  <2>1. PICK ports : LB!CheckBackends(ports) \/ LB!CheckFails(ports)
    BY <1>2 DEF ProbeBackends
  <2> QED BY <2>1, ProbingStep
<1>3. CASE Exit
  <2>1. tracker'[b] = LB!Untracked /\ probed'[b] = <<>>
    BY <1>3 DEF Exit, LB!Forget
  <2> QED BY <2>1, UntrackedType, UntrackedEntry, ZenonT(60) DEF Turns
<1> QED BY <1>1, <1>2, <1>3, BackendSteps

(* For every number of ports and backends and all thresholds, a verdict    *)
(* turns exactly when the row of probes calls for it, across passes,       *)
(* passes that another port failed, and pruning (lb_health.go).            *)
THEOREM VerdictsFollow == Spec => VerdictsFollowProbes
<1>1. HealthInv /\ [Next]_vars => HealthInv'
  BY NextHealth DEF HealthInv
<1>2. HealthInv /\ [Next]_vars =>
        [\A b \in Backend : LB!Tracked(tracker'[b]) =>
           LET before == tracker[b].healthy \/ ~LB!Tracked(tracker[b]) IN
           tracker'[b].healthy =
             IF LB!InARow(probed'[b], "failed", FailureCount) THEN FALSE
             ELSE IF LB!InARow(probed'[b], "ok", SuccessCount) THEN TRUE
             ELSE before]_health
  BY NextHealth, ZenonT(60) DEF Turns
<1> QED BY <1>1, <1>2, InitHealth, PTL DEF Spec, VerdictsFollowProbes

-----------------------------------------------------------------------------
(***************************************************************************)
(* A confirmed freeze stays in force.                                      *)
(***************************************************************************)
Entries == {"none", "forever", "timed"}
Maps == [Endpoint -> Entries]

\* One of the entries the operator may expect is `x', or has expired.
InForce(entries, x, now) ==
  \E entry \in entries : (entry = "timed" /\ now) \/ x = entry

AllInForce(expected, f, now) == \A e \in Endpoint : InForce(expected[e], f[e], now)

\* One request at a time.
Single == \A q, r \in Request : q = r

Columns(c) == DOMAIN c = {"state", "revision", "freeze"} /\ c["freeze"] \in Maps

\* The row: a client's cache is a column, and the agent's has the entries of
\* the server unless somebody turned them back.
RowInv ==
  /\ Columns(ids)
  /\ \A c \in DOMAIN view : Columns(view[c])
  /\ left \in [Feature -> Nat]
  /\ left["agent"] > 0 => "agent" \in DOMAIN view
  /\ "agent" \in DOMAIN view /\ "freeze" \notin lost
       => view["agent"]["freeze"] = ids["freeze"]

\* What the request q is about to write or to put back.
RequestInv(q) ==
  /\ q.pc \in {"save", "restore"} /\ q.alone = TRUE
  /\ q.endpoint \subseteq Endpoint /\ q.entry \in Entries /\ q.before \subseteq Entries
  /\ q.next \in Maps /\ q.previous \in Maps
  /\ \A e \in Endpoint \ q.endpoint :
       InForce(owed[e], q.next[e], late) /\ InForce(owed[e], q.previous[e], late)
  /\ \A e \in q.endpoint :
       /\ owed[e] = Entries /\ q.next[e] = q.entry
       /\ q.pc = "save" => frozen[e] = q.entry
       /\ InForce(q.before, q.previous[e], late)
       /\ "freeze" \notin lost => InForce(q.before \cup {q.entry}, ids["freeze"][e], late)

FreezeInv ==
  /\ frozen \in Maps /\ late \in BOOLEAN
  /\ owed \in [Endpoint -> SUBSET Entries]
  /\ DOMAIN request = Request
  /\ AllInForce(owed, frozen, late)
  /\ "freeze" \notin lost => AllInForce(owed, ids["freeze"], late)
  /\ \A r \in Request : request[r] = [pc |-> "free"] \/ RequestInv(request[r])

IInv == RowInv /\ FreezeInv

-----------------------------------------------------------------------------
(* Entries                                                                 *)

\* normalizePolicyFreezeStateEntries drops only what has expired.
LEMMA UnexpiredInForce ==
  ASSUME NEW f \in Maps, NEW expected \in [Endpoint -> SUBSET Entries],
         NEW now \in BOOLEAN, AllInForce(expected, f, now)
  PROVE  Agent!Unexpired(f, now) \in Maps /\ AllInForce(expected, Agent!Unexpired(f, now), now)
BY DEF Agent!Unexpired, Agent!Expired, AllInForce, InForce, Maps, Entries

LEMMA InitIInv == Init => IInv
<1> SUFFICES ASSUME Init PROVE IInv
  OBVIOUS
<1>1. left \in [Feature -> Nat]
  BY LoopAssumption DEF Init
<1>2. PICK version \in {0, 1} :
        Row!Init([state |-> version, revision |-> version, freeze |-> Agent!NoneFrozen],
                 (IF Runs("controller") THEN Controller ELSE {})
                   \cup (IF Runs("agent") THEN {"agent"} ELSE {}))
  BY DEF Init
<1>3. Agent!NoneFrozen \in Maps
  BY DEF Agent!NoneFrozen, Maps, Entries
<1>4. RowInv
  BY <1>1, <1>2, <1>3 DEF Row!Init, RowInv, Columns, Runs
<1>5. FreezeInv
  BY <1>2, <1>3, ZenonT(60) DEF Init, Agent!Init, Row!Init, Agent!NoneFrozen, Agent!Free, FreezeInv,
     AllInForce, InForce, Maps, Entries
<1> QED
  BY <1>4, <1>5 DEF IInv

-----------------------------------------------------------------------------
(* The row                                                                 *)

\* Whoever writes, the frozen endpoints are left alone or turned back.
Bystander ==
  /\ Columns(ids') /\ \A c \in DOMAIN view' : Columns(view'[c])
  /\ "freeze" \in lost => "freeze" \in lost'
  /\ "freeze" \notin lost' => ids'["freeze"] = ids["freeze"]
  /\ "agent" \in DOMAIN view => "agent" \in DOMAIN view'
  /\ "agent" \in DOMAIN view' /\ "freeze" \notin lost'
       => view'["agent"]["freeze"] = ids'["freeze"]

\* The agent stays there or not.
LeftStep == left' \in [Feature -> Nat] /\ left'["agent"] = left["agent"]

\* An update that carries the entries of the sender's cache.
LEMMA SendStandsBy ==
  ASSUME RowInv, NEW c \in DOMAIN view, NEW value, Columns(value), NEW key, "freeze" \notin key,
         value["freeze"] = view[c]["freeze"], Row!Send(c, value, key)
  PROVE  Bystander
<1>1. "freeze" \notin lost' => "freeze" \notin lost /\ value["freeze"] = ids["freeze"]
  BY DEF Row!Send, Row!Key
<1>2. ids' = value /\ DOMAIN view' = DOMAIN view /\ view'[c] = value
      /\ \A d \in DOMAIN view : d # c => view'[d] = view[d]
  BY DEF Row!Send
<1> QED
  BY <1>1, <1>2 DEF RowInv, Bystander, Row!Send

LEMMA UnchangedStandsBy == ASSUME RowInv, UNCHANGED row PROVE Bystander
BY DEF row, RowInv, Bystander

LEMMA ReportStandsBy ==
  ASSUME RowInv, NEW c \in DOMAIN view, Row!Report(c) PROVE Bystander
BY SendStandsBy DEF Row!Report, RowInv

LEMMA SetStandsBy ==
  ASSUME RowInv, NEW c \in DOMAIN view, NEW key \in {"state", "revision"}, NEW value,
         Row!Set(c, key, value)
  PROVE  Bystander
<1>1. CASE view[c][key] = value
  BY <1>1, UnchangedStandsBy DEF Row!Set, Row!row, row
<1>2. CASE view[c][key] # value
  <2> DEFINE new == [view[c] EXCEPT ![key] = value]
  <2>1. Columns(new) /\ new["freeze"] = view[c]["freeze"]
    BY DEF RowInv, Columns
  <2>2. Row!Send(c, new, {key})
    BY <1>2 DEF Row!Set
  <2> QED
    BY <2>1, <2>2, SendStandsBy, ZenonT(60)
<1> QED
  BY <1>1, <1>2

LEMMA CacheStandsBy ==
  ASSUME RowInv, NEW clients,
         \/ Row!Connect(clients)
         \/ Row!Disconnect(clients) /\ "agent" \notin clients
         \/ \E c \in DOMAIN view : Row!Deliver(c)
  PROVE  Bystander
<1>1. CASE Row!Connect(clients)
  BY <1>1 DEF Row!Connect, RowInv, Bystander
<1>2. CASE Row!Disconnect(clients) /\ "agent" \notin clients
  BY <1>2 DEF Row!Disconnect, RowInv, Bystander
<1>3. CASE \E c \in DOMAIN view : Row!Deliver(c)
  BY <1>3 DEF Row!Deliver, RowInv, Bystander
<1> QED
  BY <1>1, <1>2, <1>3

LEMMA HappensStep ==
  ASSUME RowInv, NEW f \in Feature \ {"agent"}, Happens(f) PROVE LeftStep
BY DEF RowInv, Happens, LeftStep

LEMMA UnchangedLeft == ASSUME RowInv, UNCHANGED left PROVE LeftStep
BY DEF RowInv, LeftStep

\* Steps that are none of the agent's preserve the invariant.
LEMMA BystanderIInv ==
  ASSUME IInv, Bystander, LeftStep, UNCHANGED freezer PROVE IInv'
<1>1. RowInv'
  BY DEF IInv, RowInv, Bystander, LeftStep
<1>2. ASSUME NEW q, RequestInv(q) PROVE RequestInv(q)'
  BY <1>2 DEF RequestInv, Bystander, freezer
<1>3. FreezeInv'
  BY <1>2 DEF IInv, FreezeInv, AllInForce, Bystander, freezer
<1> QED
  BY <1>1, <1>3 DEF IInv

-----------------------------------------------------------------------------
(* The agent's steps                                                       *)

LEMMA RowUnchanged == ASSUME RowInv, UNCHANGED row, LeftStep PROVE RowInv'
BY DEF RowInv, row, LeftStep

\* A request changes the set in memory: it is the only one.
LEMMA ChangeIInv ==
  ASSUME Single, IInv, LeftStep, UNCHANGED row,
         NEW r \in Request, NEW e \in Endpoint, NEW entry \in Entries, Agent!Change(r, e, entry)
  PROVE  IInv'
<1> DEFINE q == request'[r]
<1>a. /\ RowInv /\ frozen \in Maps /\ late \in BOOLEAN /\ owed \in [Endpoint -> SUBSET Entries]
      /\ AllInForce(owed, frozen, late)
  BY DEF IInv, FreezeInv
<1>b. "freeze" \notin lost => AllInForce(owed, ids["freeze"], late)
  BY DEF IInv, FreezeInv
<1>1. RowInv'
  BY <1>a, RowUnchanged
<1>2. frozen' \in Maps /\ frozen' = [frozen EXCEPT ![e] = entry]
      /\ owed' = [owed EXCEPT ![e] = Entries] /\ late' = late
  BY <1>a DEF Agent!Change, Agent!Entry, Maps, Entries
<1>3. owed' \in [Endpoint -> SUBSET Entries] /\ AllInForce(owed', frozen', late')
  BY <1>a, <1>2 DEF AllInForce, InForce, Maps
<1>4. Agent!Unexpired(frozen', late) \in Maps
      /\ AllInForce(owed', Agent!Unexpired(frozen', late), late)
  BY <1>a, <1>2, <1>3, UnexpiredInForce, ZenonT(60)
<1>5. "freeze" \notin lost' => AllInForce(owed', ids'["freeze"], late')
  BY <1>a, <1>b, <1>2 DEF row, AllInForce, InForce, Maps, Entries, RowInv, Columns
<1>6. Agent!Rivals(e) = {}
  BY DEF Agent!Rivals, Agent!Change, Single
<1>7. /\ DOMAIN request' = Request
      /\ q = [pc |-> "save", endpoint |-> {e}, entry |-> entry, alone |-> TRUE,
              before |-> owed[e], previous |-> frozen, next |-> Agent!Unexpired(frozen', late)]
  BY <1>6, ZenonT(60) DEF Agent!Change
<1>8. q.next[e] = entry
  BY <1>a, <1>2, <1>7 DEF Agent!Change, Agent!Unexpired, Agent!Expired, Maps
<1>9. RequestInv(request[r])'
  <2>1. q.pc = "save" /\ q.alone = TRUE /\ q.endpoint = {e} /\ q.entry = entry
        /\ q.before = owed[e] /\ q.previous = frozen /\ q.next = Agent!Unexpired(frozen', late)
    BY <1>7
  <2>2. owed[e] \subseteq Entries /\ q.next \in Maps /\ q.previous \in Maps
    BY <1>a, <1>4, <2>1
  <2>3. \A x \in Endpoint \ {e} : InForce(owed'[x], q.next[x], late') /\ InForce(owed'[x], q.previous[x], late')
    <3>1. \A x \in Endpoint \ {e} : owed'[x] = owed[x]
      BY <1>a, <1>2
    <3> QED
      BY <1>a, <1>2, <1>4, <2>1, <3>1, ZenonT(60) DEF AllInForce
  <2>4. owed'[e] = Entries /\ q.next[e] = q.entry /\ frozen'[e] = q.entry
    BY <1>a, <1>2, <1>8, <2>1 DEF Maps
  <2>5. InForce(q.before, q.previous[e], late')
    BY <1>a, <1>2, <2>1, ZenonT(60) DEF AllInForce
  <2>6. "freeze" \notin lost' => InForce(q.before \cup {q.entry}, ids'["freeze"][e], late')
    BY <1>b, <1>2, <2>1 DEF row, AllInForce, InForce
  <2> QED
    BY <2>1, <2>2, <2>3, <2>4, <2>5, <2>6, ZenonT(60) DEF RequestInv
<1>10. \A p \in Request : p = r
  BY ZenonT(60) DEF Single
<1> QED
  BY <1>a, <1>1, <1>2, <1>3, <1>5, <1>7, <1>9, <1>10, ZenonT(60) DEF IInv, FreezeInv

\* A reader drops what has expired.
LEMMA PruneIInv ==
  ASSUME Single, IInv, LeftStep, UNCHANGED row, NEW r \in Request, Agent!Prune(r)
  PROVE  IInv'
<1> DEFINE q == request'[r]
<1>a. /\ RowInv /\ frozen \in Maps /\ late \in BOOLEAN /\ owed \in [Endpoint -> SUBSET Entries]
      /\ AllInForce(owed, frozen, late) /\ DOMAIN request = Request
  BY DEF IInv, FreezeInv
<1>b. "freeze" \notin lost => AllInForce(owed, ids["freeze"], late)
  BY DEF IInv, FreezeInv
<1>1. RowInv'
  BY <1>a, RowUnchanged, ZenonT(60)
<1>2. frozen' = Agent!Unexpired(frozen, late) /\ late' = late /\ owed' = owed
  BY ZenonT(60) DEF Agent!Prune
<1>3. frozen' \in Maps /\ AllInForce(owed', frozen', late')
  BY <1>a, <1>2, UnexpiredInForce, ZenonT(60)
<1>4. /\ DOMAIN request' = Request
      /\ q = [pc |-> "save", endpoint |-> {}, entry |-> "none", alone |-> TRUE,
              before |-> {}, previous |-> frozen', next |-> frozen']
  BY <1>a DEF Agent!Prune
<1>5. RequestInv(request[r])'
  <2>1. q.pc = "save" /\ q.alone = TRUE /\ q.endpoint = {} /\ q.entry = "none"
        /\ q.before = {} /\ q.previous = frozen' /\ q.next = frozen'
    BY <1>4
  <2>2. q.entry \in Entries
    BY <2>1 DEF Entries
  <2> QED
    BY <1>3, <2>1, <2>2, ZenonT(60) DEF RequestInv, AllInForce
<1>6. \A p \in Request : p = r
  BY DEF Single
<1>7. "freeze" \notin lost' => AllInForce(owed', ids'["freeze"], late')
  BY <1>b, <1>2 DEF row, AllInForce
<1> QED
  BY <1>a, <1>1, <1>2, <1>3, <1>4, <1>5, <1>6, <1>7, ZenonT(60) DEF IInv, FreezeInv

\* A request that could not be saved puts the set back.
LEMMA RestoreIInv ==
  ASSUME Single, IInv, LeftStep, UNCHANGED row, NEW r \in Request, Agent!Restore(r)
  PROVE  IInv'
<1> DEFINE q == request[r]
<1>a. /\ RowInv /\ late \in BOOLEAN /\ owed \in [Endpoint -> SUBSET Entries]
      /\ DOMAIN request = Request
  BY DEF IInv, FreezeInv
<1>b. "freeze" \notin lost => AllInForce(owed, ids["freeze"], late)
  BY DEF IInv, FreezeInv
<1>1. RowInv'
  BY <1>a, RowUnchanged, ZenonT(60)
<1>2. RequestInv(q)
  BY DEF Agent!Restore, IInv, FreezeInv
<1>c. /\ q.alone = TRUE /\ q.endpoint \subseteq Endpoint /\ q.entry \in Entries
      /\ q.before \subseteq Entries /\ q.previous \in Maps
  BY <1>2 DEF RequestInv
<1>d. /\ \A e \in Endpoint \ q.endpoint : InForce(owed[e], q.previous[e], late)
      /\ \A e \in q.endpoint : InForce(q.before, q.previous[e], late)
      /\ \A e \in q.endpoint :
           "freeze" \notin lost => InForce(q.before \cup {q.entry}, ids["freeze"][e], late)
  BY <1>2, ZenonT(60) DEF RequestInv
<1>3. /\ frozen' = q.previous /\ late' = late
      /\ DOMAIN request' = Request /\ request'[r] = [pc |-> "free"]
      /\ owed' = [e \in Endpoint |-> IF e \in q.endpoint THEN q.before \cup {q.entry} ELSE owed[e]]
  BY <1>a, <1>c DEF Agent!Restore, Agent!OwedAfterFailure, Agent!Free
<1>4. owed' \in [Endpoint -> SUBSET Entries] /\ frozen' \in Maps
  BY <1>a, <1>c, <1>3
<1>5. AllInForce(owed', frozen', late')
  BY <1>3, <1>d DEF AllInForce, InForce
<1>6. "freeze" \notin lost' => AllInForce(owed', ids'["freeze"], late')
  BY <1>b, <1>d, <1>3 DEF AllInForce, row
<1>7. \A p \in Request : p = r
  BY DEF Single
<1> QED
  BY <1>a, <1>1, <1>3, <1>4, <1>5, <1>6, <1>7, ZenonT(60) DEF IInv, FreezeInv

\* A write of the agent's: the row has the entries unless they stay lost.
LEMMA SetFreeze ==
  ASSUME RowInv, LeftStep, "agent" \in DOMAIN view, NEW f \in Maps,
         Row!Set("agent", "freeze", f)
  PROVE  RowInv' /\ ("freeze" \notin lost' => ids'["freeze"] = f)
<1>1. CASE view["agent"]["freeze"] = f
  BY <1>1 DEF Row!Set, Row!row, RowInv, LeftStep
<1>2. CASE view["agent"]["freeze"] # f
  <2> DEFINE new == [view["agent"] EXCEPT !["freeze"] = f]
  <2>1. Columns(new) /\ new["freeze"] = f
    BY DEF RowInv, Columns
  <2>2. ids' = new /\ DOMAIN view' = DOMAIN view /\ view'["agent"] = new
        /\ \A d \in DOMAIN view : d # "agent" => view'[d] = view[d]
    BY <1>2 DEF Row!Set, Row!Send
  <2> HIDE DEF new
  <2> QED
    BY <2>1, <2>2 DEF RowInv, LeftStep
<1> QED
  BY <1>1, <1>2

LEMMA SaveIInv ==
  ASSUME Single, IInv, LeftStep, "agent" \in DOMAIN view, NEW r \in Request,
         Agent!Save(r), Row!Set("agent", "freeze", request[r].next)
  PROVE  IInv'
<1> DEFINE q == request[r]
<1>a. /\ RowInv /\ late \in BOOLEAN /\ owed \in [Endpoint -> SUBSET Entries]
      /\ DOMAIN request = Request /\ frozen \in Maps /\ AllInForce(owed, frozen, late)
  BY DEF IInv, FreezeInv
<1>1. RequestInv(q) /\ q.pc = "save"
  BY DEF Agent!Save, IInv, FreezeInv
<1>b. /\ q.alone = TRUE /\ q.endpoint \subseteq Endpoint /\ q.entry \in Entries /\ q.next \in Maps
  BY <1>1 DEF RequestInv
<1>c. /\ \A e \in Endpoint \ q.endpoint : InForce(owed[e], q.next[e], late)
      /\ \A e \in q.endpoint : q.next[e] = q.entry /\ frozen[e] = q.entry
  BY <1>1, ZenonT(60) DEF RequestInv
<1>3. RowInv' /\ ("freeze" \notin lost' => ids'["freeze"] = q.next)
  BY <1>a, <1>b, SetFreeze, ZenonT(60)
<1>4. /\ frozen' = frozen /\ late' = late
      /\ DOMAIN request' = Request /\ request'[r] = [pc |-> "free"]
      /\ owed' = [e \in Endpoint |-> IF e \in q.endpoint THEN {q.entry} ELSE owed[e]]
  BY <1>a, <1>b DEF Agent!Save, Agent!Free
<1>5. owed' \in [Endpoint -> SUBSET Entries]
  BY <1>a, <1>b, <1>4
<1>6. AllInForce(owed', frozen', late')
  BY <1>a, <1>c, <1>4 DEF AllInForce, InForce
<1>7. AllInForce(owed', q.next, late')
  BY <1>c, <1>4 DEF AllInForce, InForce
<1>8. \A p \in Request : p = r
  BY DEF Single
<1> QED
  BY <1>a, <1>3, <1>4, <1>5, <1>6, <1>7, <1>8, ZenonT(60) DEF IInv, FreezeInv

\* A failed write, which may have taken effect.
LEMMA SaveFailsIInv ==
  ASSUME Single, IInv, LeftStep, "agent" \in DOMAIN view, NEW r \in Request,
         Agent!SaveFails(r),
         Row!Set("agent", "freeze", request[r].next) \/ UNCHANGED row
  PROVE  IInv'
<1> DEFINE q == request[r]
<1>a. /\ RowInv /\ late \in BOOLEAN /\ owed \in [Endpoint -> SUBSET Entries]
      /\ DOMAIN request = Request /\ frozen \in Maps /\ AllInForce(owed, frozen, late)
  BY DEF IInv, FreezeInv
<1>b. "freeze" \notin lost => AllInForce(owed, ids["freeze"], late)
  BY DEF IInv, FreezeInv
<1>1. RequestInv(q) /\ q.pc = "save"
  BY DEF Agent!SaveFails, IInv, FreezeInv
<1>c. q.next \in Maps /\ q.entry \in Entries
  BY <1>1 DEF RequestInv
<1>d. /\ \A e \in Endpoint \ q.endpoint : InForce(owed[e], q.next[e], late)
      /\ \A e \in q.endpoint : owed[e] = Entries /\ q.next[e] = q.entry
      /\ \A e \in q.endpoint :
           "freeze" \notin lost => InForce(q.before \cup {q.entry}, ids["freeze"][e], late)
  BY <1>1, ZenonT(60) DEF RequestInv
<1>3. /\ RowInv'
      /\ "freeze" \notin lost' => \/ ids'["freeze"] = q.next
                                  \/ "freeze" \notin lost /\ ids'["freeze"] = ids["freeze"]
  BY <1>a, <1>c, SetFreeze, RowUnchanged, ZenonT(60) DEF row
<1>4. /\ UNCHANGED <<frozen, late, owed>>
      /\ DOMAIN request' = Request
      /\ \/ request'[r] = [pc |-> "free"]
         \/ request'[r] = [q EXCEPT !.pc = "restore"]
  BY <1>a DEF Agent!SaveFails, Agent!Free
<1>5. AllInForce(owed, q.next, late)
  BY <1>c, <1>d DEF AllInForce, InForce
<1>6. "freeze" \notin lost' => AllInForce(owed', ids'["freeze"], late')
  BY <1>b, <1>3, <1>4, <1>5, ZenonT(60) DEF AllInForce
<1>7. ASSUME request'[r] = [q EXCEPT !.pc = "restore"] PROVE RequestInv(request[r])'
  <2> DEFINE p == request'[r]
  <2>1. p.pc = "restore" /\ p.alone = q.alone /\ p.endpoint = q.endpoint /\ p.entry = q.entry
        /\ p.before = q.before /\ p.next = q.next /\ p.previous = q.previous
    BY <1>1, <1>7 DEF RequestInv
  <2>2. \A e \in q.endpoint : "freeze" \notin lost'
          => InForce(q.before \cup {q.entry}, ids'["freeze"][e], late')
    BY <1>d, <1>3, <1>4 DEF InForce
  <2> QED
    BY <1>1, <1>4, <2>1, <2>2, ZenonT(60) DEF RequestInv
<1>8. \A p \in Request : p = r
  BY DEF Single
<1> QED
  BY <1>a, <1>3, <1>4, <1>6, <1>7, <1>8, ZenonT(60) DEF IInv, FreezeInv

\* A new process has what the row has.
LEMMA RestartIInv ==
  ASSUME IInv, LeftStep, Row!Connect({"agent"}), Agent!Restart(ids["freeze"], "freeze" \in lost)
  PROVE  IInv'
<1>a. RowInv /\ late \in BOOLEAN /\ owed \in [Endpoint -> SUBSET Entries]
  BY DEF IInv, FreezeInv
<1>b. "freeze" \notin lost => AllInForce(owed, ids["freeze"], late)
  BY DEF IInv, FreezeInv
<1>1. RowInv'
  BY <1>a, CacheStandsBy, ZenonT(60) DEF Bystander, LeftStep, RowInv
<1>2. ids["freeze"] \in Maps /\ ids' = ids /\ lost' = lost /\ late' = late
  BY <1>a DEF RowInv, Columns, Row!Connect, Agent!Restart
<1>3. /\ frozen' = Agent!Unexpired(ids["freeze"], late)
      /\ DOMAIN request' = Request /\ \A r \in Request : request'[r] = [pc |-> "free"]
  BY DEF Agent!Restart, Agent!Free
<1>4. CASE "freeze" \in lost
  <2>1. owed' = [e \in Endpoint |-> Entries]
    BY <1>4, ZenonT(60) DEF Agent!Restart, Agent!Entry, Entries
  <2>2. frozen' \in Maps
    BY <1>2, <1>3 DEF Agent!Unexpired, Maps, Entries
  <2>3. AllInForce(owed', frozen', late')
    BY <2>1, <2>2 DEF AllInForce, InForce, Maps
  <2>4. owed' \in [Endpoint -> SUBSET Entries]
    BY <2>1
  <2> QED
    BY <1>a, <1>1, <1>2, <1>3, <1>4, <2>2, <2>3, <2>4, ZenonT(60) DEF IInv, FreezeInv
<1>5. CASE "freeze" \notin lost
  <2>1. owed' = owed
    BY <1>5 DEF Agent!Restart
  <2>2. frozen' \in Maps /\ AllInForce(owed', frozen', late')
    BY <1>a, <1>b, <1>2, <1>3, <1>5, <2>1, UnexpiredInForce, ZenonT(60)
  <2>3. AllInForce(owed', ids'["freeze"], late')
    BY <1>b, <1>2, <1>5, <2>1 DEF AllInForce
  <2> QED
    BY <1>a, <1>1, <1>2, <1>3, <2>1, <2>2, <2>3, ZenonT(60) DEF IInv, FreezeInv
<1> QED
  BY <1>4, <1>5, ZenonT(60)

\* What is in force stays so when deadlines pass.
LEMMA DeadlineIInv ==
  ASSUME IInv, LeftStep, UNCHANGED row, Agent!Deadline PROVE IInv'
<1>1. RowInv'
  BY RowUnchanged DEF IInv
<1>2. late' = TRUE /\ UNCHANGED <<frozen, request, owed>>
  BY DEF Agent!Deadline
<1>3. ASSUME NEW entries, NEW x, InForce(entries, x, late) PROVE InForce(entries, x, TRUE)
  BY <1>3 DEF InForce
<1>4. ASSUME NEW q, RequestInv(q) PROVE RequestInv(q)'
  BY <1>2, <1>3, <1>4, ZenonT(60) DEF RequestInv, row
<1> QED
  BY <1>1, <1>2, <1>3, <1>4, ZenonT(60) DEF IInv, FreezeInv, AllInForce, row

-----------------------------------------------------------------------------
(* All steps                                                               *)

\* Processes that run are connected.
ClientInv ==
  /\ stage # "down" => "reporter" \in DOMAIN view
  /\ importer # [pc |-> "none"] =>
       "importer" \in DOMAIN view /\ importer.pc \in {"owner", "state", "revision", "summary", "done"}

Quiet == Begin \/ CheckConnection \/ Reconnect \/ CheckFailed \/ LoadState \/ LoadRevision
           \/ MergeIdentities \/ ProbeBackends \/ Apply

LEMMA QuietSteps ==
  ASSUME Quiet PROVE UNCHANGED <<left, row, freezer, importer>> /\ stage # "down" /\ stage' # "down"
<1>1. CASE Begin
  BY <1>1 DEF Begin
<1>2. CASE CheckConnection
  BY <1>2 DEF CheckConnection
<1>3. CASE Reconnect
  BY <1>3 DEF Reconnect, loop
<1>4. CASE CheckFailed
  BY <1>4 DEF CheckFailed, Fails
<1>5. CASE LoadState
  BY <1>5 DEF LoadState, Fails
<1>6. CASE LoadRevision
  BY <1>6 DEF LoadRevision, Fails
<1>7. CASE MergeIdentities
  BY <1>7 DEF MergeIdentities, Fails
<1>8. CASE ProbeBackends
  BY <1>8 DEF ProbeBackends, Fails
<1>9. CASE Apply
  BY <1>9 DEF Apply
<1> QED
  BY <1>1, <1>2, <1>3, <1>4, <1>5, <1>6, <1>7, <1>8, <1>9 DEF Quiet

LEMMA InitClientInv == Init => ClientInv
BY DEF Init, ClientInv, Row!Init, Runs, Controller, NoImport

\* An update connects and disconnects nobody.
LEMMA SendKeepsClients ==
  ASSUME \/ \E c, value, key : Row!Send(c, value, key)
         \/ \E c, key, value : Row!Set(c, key, value)
         \/ \E c : Row!Report(c)
         \/ \E c : Row!Deliver(c)
         \/ UNCHANGED row
  PROVE  DOMAIN view' = DOMAIN view
BY DEF Row!Send, Row!Set, Row!Report, Row!Deliver, Row!row, row

LEMMA NextClientInv == ASSUME ClientInv, [Next]_vars PROVE ClientInv'
<1>1. CASE Quiet
  BY <1>1, QuietSteps DEF ClientInv, row
<1>2. CASE Report
  BY <1>2, SendKeepsClients DEF Report, ClientInv
<1>3. CASE Start
  BY <1>3 DEF Start, Row!Connect, ClientInv, Controller
<1>4. CASE Exit
  BY <1>4 DEF Exit, Row!Disconnect, ClientInv, Controller
<1>5. CASE ImportBegins
  BY <1>5 DEF ImportBegins, Row!Connect, ClientInv, loop
<1>6. CASE ImportWrites
  <2>1. DOMAIN view' = DOMAIN view
    BY <1>6, SendKeepsClients DEF ImportWrites
  <2>2. "importer" \in DOMAIN view
    BY <1>6 DEF ImportWrites, ClientInv, NoImport
  <2>3. importer'.pc \in {"state", "revision", "summary", "done"} /\ stage' = stage
    BY <1>6 DEF ImportWrites, ClientInv, NoImport, loop
  <2> QED
    BY <2>1, <2>2, <2>3 DEF ClientInv
<1>7. CASE ImportEnds
  BY <1>7 DEF ImportEnds, Row!Disconnect, ClientInv, NoImport, loop
<1>8. CASE Freeze \/ DeadlinePasses \/ Disturbance \/ Recovery \/ UNCHANGED vars
  BY <1>8 DEF Freeze, DeadlinePasses, Disturbance, Recovery, ClientInv, loop, row, vars
<1>9. CASE SaveFreeze
  BY <1>9, SendKeepsClients DEF SaveFreeze, ClientInv, loop
<1>10. CASE AgentReports
  BY <1>10, SendKeepsClients DEF AgentReports, ClientInv, loop
<1>11. CASE AgentRestarts
  BY <1>11 DEF AgentRestarts, Row!Connect, ClientInv, loop
<1>12. CASE \E c \in DOMAIN view : Monitor(c)
  BY <1>12, SendKeepsClients DEF Monitor, ClientInv, loop
<1> QED
  BY <1>1, <1>2, <1>3, <1>4, <1>5, <1>6, <1>7, <1>8, <1>9, <1>10, <1>11, <1>12
  DEF Next, Loop, Quiet

\* The steps of everyone but the agent.
LEMMA OthersIInv ==
  ASSUME IInv, ClientInv,
         \/ Quiet \/ Report \/ Start \/ Exit \/ ImportBegins \/ ImportWrites \/ ImportEnds
         \/ AgentReports \/ Disturbance \/ Recovery \/ UNCHANGED vars
         \/ \E c \in DOMAIN view : Monitor(c)
  PROVE  IInv'
<1> SUFFICES Bystander /\ LeftStep /\ UNCHANGED freezer
  BY BystanderIInv
<1>0. RowInv
  BY DEF IInv
<1>1. CASE Quiet \/ UNCHANGED vars
  BY <1>0, <1>1, QuietSteps, UnchangedStandsBy, UnchangedLeft DEF vars
<1>2. CASE Report
  BY <1>0, <1>2, ReportStandsBy, UnchangedLeft DEF Report, ClientInv
<1>3. CASE Start
  BY <1>0, <1>3, CacheStandsBy, UnchangedLeft DEF Start
<1>4. CASE Exit
  <2>1. Row!Disconnect(Controller) /\ "agent" \notin Controller
    BY <1>4 DEF Exit, Controller
  <2>2. Bystander
    BY <1>0, <2>1, CacheStandsBy
  <2> QED
    BY <1>0, <1>4, <2>2, HappensStep DEF Exit, Feature
<1>5. CASE ImportBegins
  <2>1. Bystander
    BY <1>0, <1>5, CacheStandsBy DEF ImportBegins
  <2> QED
    BY <1>0, <1>5, <2>1, HappensStep DEF ImportBegins, Feature
<1>6. CASE ImportWrites
  <2>1. "importer" \in DOMAIN view /\ importer.pc \in {"owner", "state", "revision", "summary"}
    BY <1>6 DEF ImportWrites, ClientInv, NoImport
  <2>2. CASE importer.pc \in {"owner", "summary"}
    BY <1>0, <1>6, <2>1, <2>2, ReportStandsBy, UnchangedStandsBy, UnchangedLeft
    DEF ImportWrites
  <2>3. CASE importer.pc \in {"state", "revision"}
    <3>1. Row!Set("importer", importer.pc, importer.version)
      BY <1>6, <2>3 DEF ImportWrites
    <3> QED
      BY <1>0, <1>6, <2>1, <2>3, <3>1, SetStandsBy, UnchangedLeft DEF ImportWrites
  <2> QED
    BY <2>1, <2>2, <2>3
<1>7. CASE ImportEnds
  BY <1>0, <1>7, CacheStandsBy, UnchangedLeft DEF ImportEnds
<1>8. CASE AgentReports
  <2>1. "agent" \in DOMAIN view
    BY <1>0, <1>8 DEF AgentReports, Runs, RowInv
  <2> QED
    BY <1>0, <1>8, <2>1, ReportStandsBy, UnchangedLeft DEF AgentReports
<1>9. CASE Disturbance
  <2>1. UNCHANGED <<row, freezer>> /\ (Happens("nb") \/ Happens("feed") \/ Happens("backends"))
    BY <1>9 DEF Disturbance
  <2> QED
    BY <1>0, <2>1, UnchangedStandsBy, HappensStep DEF Feature
<1>10. CASE Recovery
  BY <1>0, <1>10, UnchangedStandsBy, UnchangedLeft DEF Recovery
<1>11. CASE \E c \in DOMAIN view : Monitor(c)
  BY <1>0, <1>11, CacheStandsBy, UnchangedLeft DEF Monitor
<1> QED
  BY <1>1, <1>2, <1>3, <1>4, <1>5, <1>6, <1>7, <1>8, <1>9, <1>10, <1>11

LEMMA NextIInv == ASSUME Single, IInv, ClientInv, [Next]_vars PROVE IInv'
<1>0. RowInv
  BY DEF IInv
<1>1. CASE Freeze
  <2>1. UNCHANGED row
    BY <1>1 DEF Freeze
  <2>2. PICK r \in Request :
          \/ /\ Happens("freeze")
             /\ \E e \in Endpoint, entry \in Agent!Entry : Agent!Change(r, e, entry)
          \/ UNCHANGED left /\ (Agent!Prune(r) \/ Agent!Restore(r))
    BY <1>1 DEF Freeze
  <2>3. LeftStep
    BY <1>0, <2>2, HappensStep, UnchangedLeft DEF Feature
  <2>4. Agent!Entry = Entries
    BY DEF Agent!Entry, Entries
  <2> QED
    BY <2>1, <2>2, <2>3, <2>4, ChangeIInv, PruneIInv, RestoreIInv
<1>2. CASE SaveFreeze
  <2>1. LeftStep /\ "agent" \in DOMAIN view
    BY <1>0, <1>2, UnchangedLeft DEF SaveFreeze, RowInv, Runs
  <2> QED
    BY <1>2, <2>1, SaveIInv, SaveFailsIInv DEF SaveFreeze
<1>3. CASE AgentRestarts
  <2>1. LeftStep /\ Row!Connect({"agent"}) /\ Agent!Restart(ids["freeze"], "freeze" \in lost)
    BY <1>0, <1>3, UnchangedLeft DEF AgentRestarts
  <2> QED
    BY <2>1, RestartIInv
<1>4. CASE DeadlinePasses
  BY <1>0, <1>4, UnchangedLeft, DeadlineIInv DEF DeadlinePasses
<1> QED
  BY <1>1, <1>2, <1>3, <1>4, OthersIInv DEF Next, Loop, Quiet

(* Requests that do not overlap: what was confirmed to the operator is in  *)
(* force, for every set of endpoints, every document, cluster, feed and    *)
(* set of backends, and however often requests fail, the agent restarts    *)
(* and other clients write the row (ConfirmedIsInForce; main.go:6387-6491).*)
THEOREM ConfirmedStaysInForce == ASSUME Single PROVE Spec => []ConfirmedIsInForce
<1>1. IInv => ConfirmedIsInForce
  BY DEF IInv, FreezeInv, AllInForce, InForce, ConfirmedIsInForce, Agent!Expired
<1>2. Init => IInv /\ ClientInv
  BY InitIInv, InitClientInv
<1>3. (IInv /\ ClientInv) /\ [Next]_vars => (IInv /\ ClientInv)'
  BY NextIInv, NextClientInv
<1> QED
  BY <1>1, <1>2, <1>3, PTL DEF Spec

-----------------------------------------------------------------------------
(* The groups.                                                             *)
WellFormed(groups) ==
  /\ \A g \in groups : g.at \in Int /\ g.ttl \in Nat
  /\ \A g, h \in groups : g.name = h.name => g = h

\* Patches computed from the groups a client has turn them into the new ones.
LEMMA PatchesApply ==
  ASSUME NEW old, NEW new, WellFormed(old), WellFormed(new)
  PROVE  Feed!ApplyPatches(old, Feed!Patches(old, new)) = new
<1> DEFINE p == Feed!Patches(old, new)
<1>1. p.upsert = new \ old /\ p.delete = Feed!Names(old) \ Feed!Names(new)
  BY DEF Feed!Patches
<1>2. Feed!ApplyPatches(old, p) =
        {g \in old : g.name \notin Feed!Names(new \ old) \cup (Feed!Names(old) \ Feed!Names(new))}
          \cup (new \ old)
  BY <1>1 DEF Feed!ApplyPatches
<1>3. ASSUME NEW g \in old,
             g.name \notin Feed!Names(new \ old) \cup (Feed!Names(old) \ Feed!Names(new))
      PROVE  g \in new
  <2>1. PICK h \in new : h.name = g.name
    BY <1>3 DEF Feed!Names
  <2>2. h \in old
    BY <1>3, <2>1 DEF Feed!Names
  <2> QED BY <2>1, <2>2 DEF WellFormed
<1>4. ASSUME NEW g \in old, g \in new
      PROVE  g.name \notin Feed!Names(new \ old) \cup (Feed!Names(old) \ Feed!Names(new))
  BY <1>4 DEF Feed!Names, WellFormed
<1> QED BY <1>2, <1>3, <1>4

\* The first of two groups of a name wins, as `first' says which of them
\* comes from an earlier source.
Wins(g, h, first) ==
  IF g.ttl = 0 THEN h.ttl # 0 \/ first
  ELSE h.ttl # 0 /\ (g.at > h.at \/ (g.at = h.at /\ first))

\* What is left of two sources.
LEMMA MergeOfTwo ==
  ASSUME NEW B, NEW O, WellFormed(B), WellFormed(O)
  PROVE  \A g : g \in Feed!MergeIdentityGroups(B, O) <=>
           \/ g \in B /\ \A h \in O : h.name = g.name /\ h # g => Wins(g, h, TRUE)
           \/ g \in O /\ \A h \in B : h.name = g.name /\ h # g => Wins(g, h, FALSE)
<1>1. ASSUME NEW g \in B, NEW h \in O
      PROVE  /\ Feed!Preferred(g, h) = g <=> (g = h \/ Wins(g, h, TRUE))
             /\ Feed!Preferred(g, h) = h <=> (g = h \/ Wins(h, g, FALSE))
  BY DEF Feed!Preferred, Wins, WellFormed
<1> QED BY <1>1, ZenonT(60) DEF Feed!MergeIdentityGroups, Feed!Named

LEMMA MergeWellFormed ==
  ASSUME NEW B, NEW O, WellFormed(B), WellFormed(O)
  PROVE  WellFormed(Feed!MergeIdentityGroups(B, O))
<1> DEFINE M == Feed!MergeIdentityGroups(B, O)
<1>1. \A g \in M : g.at \in Int /\ g.ttl \in Nat
  BY MergeOfTwo, ZenonT(60) DEF WellFormed
<1>2. ASSUME NEW g \in M, NEW h \in M, g.name = h.name, g # h
      PROVE  FALSE
  <2>1. CASE g \in B /\ h \in B
    BY <1>2, <2>1 DEF WellFormed
  <2>2. CASE g \in O /\ h \in O
    BY <1>2, <2>2 DEF WellFormed
  <2>3. CASE g \in B /\ h \in O /\ g \notin O /\ h \notin B
    BY <1>1, <1>2, <2>3, MergeOfTwo DEF Wins
  <2>4. CASE g \in O /\ h \in B /\ g \notin B /\ h \notin O
    BY <1>1, <1>2, <2>4, MergeOfTwo DEF Wins
  <2> QED BY <1>2, <2>1, <2>2, <2>3, <2>4, MergeOfTwo, ZenonT(60)
<1> QED BY <1>1, <1>2 DEF WellFormed

\* What is left of three: each group that wins against all others of its
\* name.
Before(D, L, g, h) == (g \in D /\ h \notin D) \/ (g \in L /\ h \notin D \cup L)

LEMMA MergeOfThree ==
  ASSUME NEW D, NEW L, NEW E, WellFormed(D), WellFormed(L), WellFormed(E)
  PROVE  \A g : g \in Feed!MergeIdentityGroups(Feed!MergeIdentityGroups(D, L), E) <=>
           /\ g \in D \cup L \cup E
           /\ \A h \in D \cup L \cup E :
                h.name = g.name /\ h # g => Wins(g, h, Before(D, L, g, h))
<1> DEFINE M == Feed!MergeIdentityGroups(D, L)
           N == Feed!MergeIdentityGroups(M, E)
           All == D \cup L \cup E
<1>1. WellFormed(M)
  BY MergeWellFormed
<1>2. \A g : g \in M <=>
        \/ g \in D /\ \A h \in L : h.name = g.name /\ h # g => Wins(g, h, TRUE)
        \/ g \in L /\ \A h \in D : h.name = g.name /\ h # g => Wins(g, h, FALSE)
  BY MergeOfTwo, ZenonT(60)
<1>3. \A g : g \in N <=>
        \/ g \in M /\ \A h \in E : h.name = g.name /\ h # g => Wins(g, h, TRUE)
        \/ g \in E /\ \A h \in M : h.name = g.name /\ h # g => Wins(g, h, FALSE)
  BY <1>1, MergeOfTwo, ZenonT(60)
<1>4. \A g \in All : g.at \in Int /\ g.ttl \in Nat
  BY DEF WellFormed
<1> HIDE DEF M, N
<1>5. ASSUME NEW g \in All,
             \A h \in All : h.name = g.name /\ h # g => Wins(g, h, Before(D, L, g, h))
      PROVE  g \in N
  <2>1. CASE g \in D \cup L
    <3>1. g \in M
      BY <1>2, <1>4, <1>5, <2>1 DEF Wins, Before, WellFormed
    <3>2. \A h \in E : h.name = g.name /\ h # g => Wins(g, h, TRUE)
      BY <1>4, <1>5 DEF Wins
    <3> QED BY <1>3, <3>1, <3>2, ZenonT(60)
  <2>2. CASE g \in E /\ g \notin D \cup L
    <3>1. \A h \in M : h.name = g.name /\ h # g => Wins(g, h, FALSE)
      BY <1>2, <1>5, <2>2 DEF Before, Wins
    <3> QED BY <1>3, <2>2, <3>1, ZenonT(60)
  <2> QED BY <2>1, <2>2
<1>6. ASSUME NEW g \in N, NEW h \in All, h.name = g.name, h # g
      PROVE  Wins(g, h, Before(D, L, g, h))
  <2>1. ASSUME NEW x \in All, NEW y \in All, x.name = y.name, x # y
        PROVE  /\ Wins(x, y, FALSE) => \A b \in BOOLEAN : Wins(x, y, b)
               /\ ~Wins(x, y, TRUE) => Wins(y, x, FALSE)
               /\ ~Wins(x, y, FALSE) => Wins(y, x, TRUE)
    BY <1>4 DEF Wins
  <2>2. Before(D, L, g, h) \in BOOLEAN
    BY DEF Before
  <2>3. g \in All
    BY <1>2, <1>3, ZenonT(60)
  <2>4. CASE g \in M /\ \A e \in E : e.name = g.name /\ e # g => Wins(g, e, TRUE)
    <3>1. CASE h \in E /\ h \notin D \cup L
      <4>1. Before(D, L, g, h)
        BY <1>2, <2>4, <3>1, ZenonT(60) DEF Before
      <4> QED BY <1>6, <2>4, <3>1, <4>1 DEF Wins
    <3>2. CASE g \in D /\ \A l \in L : l.name = g.name /\ l # g => Wins(g, l, TRUE)
      <4>1. h \notin D
        BY <1>6, <3>2 DEF WellFormed
      <4> QED BY <1>6, <2>4, <3>2, <4>1 DEF Before, Wins
    <3>3. CASE g \in L /\ \A d \in D : d.name = g.name /\ d # g => Wins(g, d, FALSE)
      <4>1. h \notin L
        BY <1>6, <3>3 DEF WellFormed
      <4>2. CASE h \in D
        <5>1. Wins(g, h, FALSE)
          BY <1>6, <3>3, <4>2, ZenonT(60)
        <5> QED BY <1>6, <2>1, <2>2, <2>3, <5>1, ZenonT(60)
      <4> QED BY <3>1, <4>1, <4>2
    <3> QED BY <1>2, <2>4, <3>2, <3>3, ZenonT(60)
  <2>5. CASE g \in E /\ \A m \in M : m.name = g.name /\ m # g => Wins(g, m, FALSE)
    <3>1. h \notin E
      BY <1>6, <2>5 DEF WellFormed
    <3>2. ASSUME NEW m \in M, m.name = g.name, m # g, m # h, Wins(m, h, TRUE)
          PROVE  Wins(g, h, FALSE)
      <4>1. Wins(g, m, FALSE) /\ m \in All
        BY <1>2, <2>5, <3>2, ZenonT(60)
      <4> QED BY <1>4, <2>3, <3>2, <4>1 DEF Wins
    <3>3. CASE h \in M
      BY <1>6, <2>1, <2>2, <2>3, <2>5, <3>3, ZenonT(60)
    <3>4. CASE h \in D /\ h \notin M
      <4>1. PICK l \in L : l.name = h.name /\ l # h /\ ~Wins(h, l, TRUE)
        BY <1>2, <3>4, ZenonT(60)
      <4>2. Wins(l, h, FALSE) /\ Wins(l, h, TRUE)
        BY <2>1, <4>1, ZenonT(60)
      <4>3. l \in M
        BY <1>2, <3>4, <4>1, <4>2, ZenonT(60) DEF WellFormed
      <4>4. Wins(g, h, FALSE)
        BY <1>6, <3>2, <4>1, <4>2, <4>3, ZenonT(60)
      <4> QED BY <1>6, <2>1, <2>2, <2>3, <4>4, ZenonT(60)
    <3>5. CASE h \in L /\ h \notin D /\ h \notin M
      <4>1. PICK d \in D : d.name = h.name /\ d # h /\ ~Wins(h, d, FALSE)
        BY <1>2, <3>5, ZenonT(60)
      <4>2. Wins(d, h, TRUE)
        BY <2>1, <4>1, ZenonT(60)
      <4>3. d \in M
        <5>1. \A l \in L : l.name = d.name => l = h
          BY <3>5, <4>1 DEF WellFormed
        <5> QED BY <1>2, <4>1, <4>2, <5>1, ZenonT(60)
      <4>4. CASE d = g
        BY <3>5, <4>1, <4>2, <4>4 DEF Before, Wins
      <4>5. CASE d # g
        <5>1. Wins(g, h, FALSE)
          BY <1>6, <3>2, <4>1, <4>2, <4>3, <4>5, ZenonT(60)
        <5> QED BY <1>6, <2>1, <2>2, <2>3, <5>1, ZenonT(60)
      <4> QED BY <4>4, <4>5
    <3> QED BY <1>6, <3>1, <3>3, <3>4, <3>5
  <2> QED BY <1>3, <1>6, <2>4, <2>5, ZenonT(60)
<1>7. \A g \in N : g \in All
  BY <1>2, <1>3, ZenonT(60)
<1> QED BY <1>5, <1>6, <1>7 DEF M, N

\* Merging and pruning computes what it is for.
LEMMA MergeIsNewest ==
  ASSUME NEW D, NEW L, NEW E, WellFormed(D), WellFormed(L), WellFormed(E), NEW now
  PROVE  Feed!PruneExpired(
           Feed!MergeIdentityGroups(Feed!MergeIdentityGroups(D, L), E), now)
             = Feed!Newest(<<D, L, E>>, now)
<1> DEFINE S == <<D, L, E>>
           All == D \cup L \cup E
           Earlier(g, h) == \E i \in DOMAIN S : g \in S[i] /\ \A j \in 1..i : h \notin S[j]
           Beats(g, h) ==
             CASE g.ttl = 0 /\ h.ttl = 0 -> Earlier(g, h)
               [] g.ttl # 0 /\ h.ttl # 0 -> g.at > h.at \/ (g.at = h.at /\ Earlier(g, h))
               [] OTHER -> g.ttl = 0
<1>1. /\ DOMAIN S = 1..3 /\ S[1] = D /\ S[2] = L /\ S[3] = E
      /\ UNION {S[i] : i \in DOMAIN S} = All
  OBVIOUS
<1>2. Feed!Newest(S, now) =
        {g \in All : ~Feed!Expired(g, now)
                        /\ \A h \in Feed!Named(All, g.name) \ {g} : Beats(g, h)}
  BY <1>1 DEF Feed!Newest
<1>3. ASSUME NEW g \in All, NEW h \in All
      PROVE  Earlier(g, h) <=> Before(D, L, g, h)
  BY <1>1 DEF Before
<1> HIDE DEF S
<1>4. ASSUME NEW g \in All, NEW h \in All
      PROVE  Beats(g, h) <=> Wins(g, h, Before(D, L, g, h))
  BY <1>3 DEF Wins, WellFormed
<1> HIDE DEF Beats
<1> QED BY <1>2, <1>4, MergeOfThree DEF Feed!PruneExpired, Feed!Named, S

-----------------------------------------------------------------------------
(* The cache has exactly the groups of the edition whose tag it carries,   *)
(* and a pass keeps what it merged until it is used.                       *)
Told(etag) == IF etag = 0 THEN {} ELSE Edition[etag]

CacheInv ==
  /\ edition \in DOMAIN Edition
  /\ cache.etag \in {0} \cup DOMAIN Edition
  /\ cache = [etag |-> cache.etag, groups |-> Told(cache.etag),
              failures |-> cache.failures, wait |-> cache.wait]

PassInv ==
  /\ stage \in {"loading", "identities", "backends"} => pass.version \in Version
  /\ stage = "backends" => pass.groups = Identities(pass.version, cache.groups)

LEMMA AllWellFormed ==
  /\ \A v \in Version : WellFormed(Document[v].groups)
  /\ WellFormed(Local)
  /\ \A e \in DOMAIN Edition : WellFormed(Edition[e])
  /\ \A e \in {0} \cup DOMAIN Edition : WellFormed(Told(e))
<1>1. /\ \A v \in Version : WellFormed(Document[v].groups)
      /\ WellFormed(Local)
      /\ \A e \in DOMAIN Edition : WellFormed(Edition[e])
  BY GroupAssumption DEF WellFormed
<1>2. WellFormed({})
  BY DEF WellFormed
<1> QED BY <1>1, <1>2 DEF Told

LEMMA InitIdentity == Init => CacheInv /\ PassInv
<1> SUFFICES ASSUME Init PROVE CacheInv /\ PassInv
  OBVIOUS
<1>1. CacheInv
  BY GroupAssumption DEF Init, Feed!Init, Feed!NoCache, CacheInv, Told
<1>2. PassInv
  BY DEF Init, PassInv
<1> QED BY <1>1, <1>2

\* A fetch leaves the cache with the edition whose tag came with it.
LEMMA FetchInv ==
  ASSUME CacheInv, Feed!Fetch
  PROVE  CacheInv'
<1>1. /\ edition \in DOMAIN Edition /\ edition # 0
      /\ UNCHANGED edition
  BY GroupAssumption DEF CacheInv, Feed!Fetch
<1>2. ASSUME NEW groups, Feed!Succeeded(groups), groups = Edition[edition]
      PROVE  CacheInv'
  BY <1>1, <1>2 DEF Feed!Succeeded, CacheInv, Told
<1>3. CASE cache.etag = edition /\ Feed!Succeeded(cache.groups)
  BY <1>1, <1>2, <1>3 DEF CacheInv, Told
<1>4. CASE Feed!Succeeded(Edition[edition])
  BY <1>2, <1>4
<1>5. CASE /\ cache.etag \notin {0, edition}
           /\ Feed!Succeeded(Feed!ApplyPatches(cache.groups,
                Feed!Patches(Edition[cache.etag], Edition[edition])))
  <2>1. cache.groups = Edition[cache.etag] /\ cache.etag \in DOMAIN Edition
    BY <1>5 DEF CacheInv, Told
  <2>2. Feed!ApplyPatches(cache.groups,
          Feed!Patches(Edition[cache.etag], Edition[edition])) = Edition[edition]
    BY <1>1, <2>1, AllWellFormed, PatchesApply
  <2> QED BY <1>2, <1>5, <2>2
<1> QED BY <1>3, <1>4, <1>5 DEF Feed!Fetch

LEMMA NextIdentity == CacheInv /\ PassInv /\ [Next]_vars => CacheInv' /\ PassInv'
<1> SUFFICES ASSUME CacheInv, PassInv, [Next]_vars PROVE CacheInv' /\ PassInv'
  OBVIOUS
<1>1. ASSUME UNCHANGED <<edition, cache>> PROVE CacheInv'
  BY <1>1 DEF CacheInv
<1>2. ASSUME UNCHANGED <<stage, pass, cache, clock>> PROVE PassInv'
  BY <1>2 DEF PassInv, Identities
<1>3. CASE Begin
  <2>1. CacheInv'
    BY <1>3 DEF Begin, Feed!TimePasses, CacheInv
  <2>2. PassInv'
    BY <1>3 DEF Begin, PassInv
  <2> QED BY <2>1, <2>2
<1>4. CASE MergeIdentities
  <2>1. CASE Feed!FetchFails /\ Fails
    BY <1>1, <2>1 DEF Feed!FetchFails, Feed!feed, Fails, PassInv
  <2>2. CASE /\ Feed!CachedAnswer \/ Feed!FailureTolerated \/ Feed!Fetch
             /\ pass' = [version |-> pass.version,
                         groups |-> Identities(pass.version, cache'.groups)]
             /\ stage' = "backends"
    <3>1. CacheInv'
      <4>1. CASE Feed!CachedAnswer
        BY <1>1, <4>1 DEF Feed!CachedAnswer, Feed!feed
      <4>2. CASE Feed!FailureTolerated
        <5>1. UNCHANGED edition
          BY <4>2 DEF Feed!FailureTolerated
        <5>2. PICK n, w : cache' = [etag |-> cache.etag, groups |-> cache.groups,
                                    failures |-> n, wait |-> w]
          BY <4>2, ZenonT(60) DEF Feed!FailureTolerated
        <5> QED BY <5>1, <5>2 DEF CacheInv
      <4>3. CASE Feed!Fetch
        BY <4>3, FetchInv
      <4> QED BY <2>2, <4>1, <4>2, <4>3
    <3>2. UNCHANGED clock
      BY <2>2 DEF Feed!CachedAnswer, Feed!FailureTolerated, Feed!Fetch, Feed!feed
    <3>3. pass.version \in Version
      BY <1>4 DEF MergeIdentities, PassInv
    <3>4. PassInv'
      BY <2>2, <3>2, <3>3 DEF PassInv, Identities
    <3> QED BY <3>1, <3>4
  <2> QED BY <1>4, <2>1, <2>2, ZenonT(60) DEF MergeIdentities
<1>5. CASE LoadState
  BY <1>5, <1>1 DEF LoadState, Fails, feed, PassInv
<1>6. CASE LoadRevision
  BY <1>6, <1>1 DEF LoadRevision, Fails, feed, PassInv
<1>7. CASE ProbeBackends
  BY <1>7, <1>1 DEF ProbeBackends, Fails, feed, PassInv
<1>8. CASE CheckConnection \/ CheckFailed \/ Apply \/ Report
  BY <1>8, <1>1 DEF CheckConnection, CheckFailed, Apply, Report, Fails, feed, PassInv
<1>9. CASE Start
  BY <1>9, <1>1 DEF Start, feed, PassInv
<1>10. CASE Exit
  <2>1. CacheInv'
    BY <1>10 DEF Exit, Feed!NoCache, CacheInv, Told
  <2>2. PassInv'
    BY <1>10 DEF Exit, PassInv
  <2> QED BY <2>1, <2>2
<1>11. CASE Disturbance
  <2>1. UNCHANGED <<stage, pass, cache, clock>>
    BY <1>11 DEF Disturbance, Feed!FeedStops, Feed!FeedChanges, loop, feed
  <2>2. UNCHANGED edition \/ edition' \in DOMAIN Edition
    BY <1>11 DEF Disturbance, Feed!FeedStops, Feed!FeedChanges, feed
  <2> QED BY <1>2, <2>1, <2>2 DEF CacheInv
<1>12. CASE UNCHANGED <<stage, pass, edition, cache, clock>>
  BY <1>1, <1>2, <1>12
<1> QED
  BY <1>3, <1>4, <1>5, <1>6, <1>7, <1>8, <1>9, <1>10, <1>11, <1>12, PassSteps

(* Whatever the desired state, the node and the feed say, and whichever    *)
(* snapshots, patches, outages and restarts brought the cache to its tag,  *)
(* a pass works with the newest groups of the three sources                *)
(* (identity_observation.go:224-505).                                      *)
THEOREM IdentitiesStayNewest == Spec => []IdentitiesAreTheNewest
<1>1. CacheInv /\ PassInv => IdentitiesAreTheNewest
  <2> SUFFICES ASSUME CacheInv, PassInv, stage = "backends"
               PROVE  pass.groups = Feed!Newest(<<Document[pass.version].groups, Local,
                                                  Told(cache.etag)>>, clock)
    BY DEF IdentitiesAreTheNewest, Told
  <2>1. pass.groups = Identities(pass.version, Told(cache.etag))
    <3>1. cache.groups = Told(cache.etag)
      BY DEF CacheInv
    <3> QED BY <3>1, ZenonT(60) DEF PassInv
  <2>2. /\ WellFormed(Document[pass.version].groups)
        /\ WellFormed(Local) /\ WellFormed(Told(cache.etag))
    BY AllWellFormed, ZenonT(60) DEF PassInv, CacheInv
  <2> QED BY <2>1, <2>2, MergeIsNewest DEF Identities
<1> QED BY <1>1, InitIdentity, NextIdentity, PTL DEF Spec

-----------------------------------------------------------------------------
(* The servers that answer throughout a round are still to be dialled.     *)
RoundInv ==
  /\ answers \subseteq 1..Servers
  /\ check.pc = "dial" =>
       /\ check = [pc |-> "dial", todo |-> check.todo, force |-> check.force,
                   steady |-> check.steady]
       /\ check.steady \subseteq (DOMAIN check.todo) \cap answers

LEMMA InitRound == Init => RoundInv
BY DEF Init, NB!Init, NB!Server, NB!Verdict, RoundInv

\* A round starts with all servers to dial.
LEMMA StartRoundInv ==
  ASSUME RoundInv, NEW force, NB!StartRound(force), UNCHANGED answers
  PROVE  RoundInv'
BY DEF NB!StartRound, NB!AttemptPlan, NB!Server, RoundInv

LEMMA DialInv == RoundInv /\ NB!Dial => RoundInv'
<1> SUFFICES ASSUME RoundInv, NB!Dial PROVE RoundInv'
  OBVIOUS
<1>1. PICK s \in DOMAIN check.todo :
        IF s \in answers THEN check' = [pc |-> "echo", force |-> check.force]
        ELSE check' = [check EXCEPT !.todo = [t \in DOMAIN @ \ {s} |-> @[t]]]
  BY ZenonT(60) DEF NB!Dial
<1>2. CASE s \in answers
  BY <1>1, <1>2 DEF NB!Dial, RoundInv
<1>3. CASE s \notin answers
  BY <1>1, <1>3 DEF NB!Dial, RoundInv
<1> QED BY <1>2, <1>3

LEMMA NextRound == RoundInv /\ [Next]_vars => RoundInv'
<1> SUFFICES ASSUME RoundInv, [Next]_vars PROVE RoundInv'
  OBVIOUS
<1>1. CASE UNCHANGED <<answers, check>>
  BY <1>1 DEF RoundInv
<1>2. CASE CheckConnection
  <2>1. CASE session.state = "live"
    BY <1>2, <2>1 DEF CheckConnection, NB!HealthCheck, NB!Verdict, RoundInv
  <2>2. CASE session.state # "live"
    <3>1. PICK force : check' = NB!Verdict("failed") \/ NB!StartRound(force)
      BY <1>2, <2>2 DEF CheckConnection, NB!HealthCheck, NB!Reconnect
    <3>2. UNCHANGED answers
      BY <1>2, <2>2 DEF CheckConnection, NB!HealthCheck
    <3> QED BY <3>1, <3>2, StartRoundInv DEF NB!Verdict, RoundInv
  <2> QED BY <2>1, <2>2
<1>3. CASE Reconnect
  <2>1. CASE NB!Dial
    BY <2>1, DialInv
  <2>2. CASE NB!GiveUp
    BY <2>2 DEF NB!GiveUp, NB!Verdict, RoundInv
  <2>3. CASE NB!EchoAgain
    <3>1. UNCHANGED answers
      BY <2>3 DEF NB!EchoAgain
    <3>2. CASE session.state = "live" \/ check.force
      <4>1. check' = NB!Verdict("ok") \/ check' = NB!Verdict("failed")
        BY <2>3, <3>2, ZenonT(60) DEF NB!EchoAgain
      <4> QED BY <4>1, <3>1 DEF NB!Verdict, RoundInv
    <3>3. CASE ~(session.state = "live" \/ check.force)
      <4>1. NB!StartRound(TRUE)
        BY <2>3, <3>3, ZenonT(60) DEF NB!EchoAgain
      <4> QED BY <4>1, <3>1, StartRoundInv, ZenonT(60)
    <3> QED BY <3>2, <3>3
  <2> QED BY <1>3, <2>1, <2>2, <2>3 DEF Reconnect
<1>4. CASE Exit
  BY <1>4 DEF Exit, NB!Verdict, RoundInv
<1>5. CASE Start
  BY <1>5 DEF Start, NB!ConnectAfresh, RoundInv
<1>6. CASE Disturbance
  BY <1>6 DEF Disturbance, NB!ServerStops, NB!ConnectionBreaks, conn, RoundInv
<1>7. CASE Recovery
  BY <1>7 DEF Recovery, NB!ServerStarts, NB!Server, conn, RoundInv
<1> QED
  BY <1>1, <1>2, <1>3, <1>4, <1>5, <1>6, <1>7, ConnectionSteps

(* However many servers there are, wherever a round starts, and whichever  *)
(* of them are cooling off or fail during it, it is given up only when     *)
(* none of them answered throughout it (Connect, main.go:2672-2731).       *)
THEOREM EveryServerIsTried == Spec => []GivesUpOnlyWhenNoneAnswers
<1>1. RoundInv => GivesUpOnlyWhenNoneAnswers
  BY DEF RoundInv, GivesUpOnlyWhenNoneAnswers
<1> QED BY <1>1, InitRound, NextRound, PTL DEF Spec
=============================================================================
