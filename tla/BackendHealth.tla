---------------------------- MODULE BackendHealth ----------------------------
(***************************************************************************)
(* The health of load balancer backends (internal/control/lb_health.go):   *)
(* every pass probes the backends of the TCP ports of load balancers with  *)
(* a health check, port after port, and a tracker that lives as long as    *)
(* the process turns the results into verdicts.                            *)
(***************************************************************************)
EXTENDS Integers, Sequences

CONSTANTS
  Backend,        \* (load balancer, port, address): the tracker's keys
  SuccessCount,   \* loadBalancerHealthSuccessThreshold
  FailureCount    \* loadBalancerHealthFailureThreshold

VARIABLES
  alive,     \* the backends that accept connections
  tracker,   \* backend -> its entry, or Untracked
  probed     \* backend -> its latest probe results while it was tracked

health == <<alive, tracker, probed>>

\* TCPBackendProbe
Outcome == {"ok", "failed"}
Probe(b) == IF b \in alive THEN "ok" ELSE "failed"

\* An entry, and none.
Untracked == [healthy |-> FALSE, successes |-> 0, failures |-> 0]
Tracked(t) == t.successes + t.failures > 0

Init(up) ==
  /\ alive = up
  /\ tracker = [b \in Backend |-> Untracked]
  /\ probed = [b \in Backend |-> <<>>]

\* Counters beyond the thresholds decide nothing.
Count(n, limit) == IF n < limit THEN n + 1 ELSE n

\* Mutant: a success does not end a row of failures.
UpdateAdding(t, outcome) ==
  LET healthy == t.healthy \/ ~Tracked(t)
      s == Count(t.successes, SuccessCount)
      f == Count(t.failures, FailureCount)
  IN IF outcome = "ok"
     THEN [healthy |-> healthy \/ s >= SuccessCount, successes |-> s, failures |-> t.failures]
     ELSE [healthy |-> healthy /\ f < FailureCount, successes |-> 0, failures |-> f]

\* LoadBalancerHealthTracker.update.  A backend seen for the first time is
\* healthy: one declared unhealthy never gets here.
Update(t, outcome) ==
  LET healthy == t.healthy \/ ~Tracked(t)
      s == Count(t.successes, SuccessCount)
      f == Count(t.failures, FailureCount)
  IN IF outcome = "ok"
     THEN [healthy |-> healthy \/ s >= SuccessCount, successes |-> s, failures |-> 0]
     ELSE [healthy |-> healthy /\ f < FailureCount, successes |-> 0, failures |-> f]

\* probeLoadBalancerBackends for a port of `up', the backends that are not
\* declared unhealthy, and `down', the others: no healthy one is left.
Failing(port) == \A b \in port.up : ~Update(tracker[b], Probe(b)).healthy

\* The ports ApplyLoadBalancerHealthChecksWithTracker gets to: up to the
\* first that fails.  No two ports share a backend.
Reached(ports) ==
  {ports[i] : i \in {j \in DOMAIN ports : \A k \in 1..(j - 1) : ~Failing(ports[k])}}

Seen(ports) == UNION {port.up : port \in Reached(ports)}

\* The tracker after that.
Probed(ports) ==
  [b \in Backend |->
     IF b \in Seen(ports) THEN Update(tracker[b], Probe(b))
     ELSE IF \E port \in Reached(ports) : b \in port.down THEN Untracked
     ELSE tracker[b]]

\* prune drops what no port of the pass has; a pass that fails does not
\* get there.
Prune(t, seen) == [b \in Backend |-> IF b \in seen THEN t[b] ELSE Untracked]

\* The last results, oldest first, as many as the verdict depends on.
Window == IF SuccessCount > FailureCount THEN SuccessCount ELSE FailureCount
Recent(results) ==
  IF Len(results) <= Window THEN results
  ELSE SubSeq(results, Len(results) - Window + 1, Len(results))

\* Remembers the results behind the new entries.
Remember(seen) ==
  probed' = [b \in Backend |->
    IF ~Tracked(tracker'[b]) THEN <<>>
    ELSE IF b \in seen THEN Recent(Append(probed[b], Probe(b)))
    ELSE probed[b]]

CheckBackends(ports) ==
  /\ \A i \in DOMAIN ports : ~Failing(ports[i])
  /\ tracker' = Prune(Probed(ports), Seen(ports))
  /\ Remember(Seen(ports))
  /\ UNCHANGED alive

\* A port has no healthy backend left.
CheckFails(ports) ==
  /\ \E i \in DOMAIN ports : Failing(ports[i])
  /\ tracker' = Probed(ports)
  /\ Remember(Seen(ports))
  /\ UNCHANGED alive

\* The process ends.
Forget ==
  /\ tracker' = [b \in Backend |-> Untracked]
  /\ probed' = [b \in Backend |-> <<>>]
  /\ UNCHANGED alive

BackendStops(b) == b \in alive /\ alive' = alive \ {b} /\ UNCHANGED <<tracker, probed>>
BackendStarts(b) == b \notin alive /\ alive' = alive \cup {b} /\ UNCHANGED <<tracker, probed>>

-----------------------------------------------------------------------------
\* The last n results were this one.
InARow(results, outcome, n) ==
  Len(results) >= n /\ \A i \in Len(results) - n + 1 .. Len(results) : results[i] = outcome
=============================================================================
