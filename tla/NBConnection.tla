----------------------------- MODULE NBConnection -----------------------------
(***************************************************************************)
(* The controller's connection to the OVN northbound cluster: HealthCheck  *)
(* and its reconnection (internal/ovn/libovsdb_health.go) on top of the    *)
(* connector that tries the endpoints in turn                              *)
(* (libovsdbClusterConnector of cmd/netloom-controller/main.go).  Servers  *)
(* and connections may fail between any two steps.  Backoff and cooldown   *)
(* are counted in reconcile passes.                                        *)
(***************************************************************************)
EXTENDS Integers

CONSTANTS
  Servers,       \* number of configured endpoints
  LeaderProbe,   \* TRUE: a probe that names the leader is configured
  Cooldown,      \* endpointFailureCooldown
  MaxBackoff     \* reconnectMaxBackoff; the initial one is 1

Server == 1..Servers

VARIABLES
  answers,   \* the servers that accept connections and answer
  session,   \* the client: its server, and "live", "dropped" or "mute"
  cooling,   \* server -> passes until the failure of a dial is forgotten
  wait,      \* passes until nextReconnect
  failures,  \* reconnectFailures, as far as the backoff depends on it
  check      \* the health check in progress

conn == <<answers, session, cooling, wait, failures, check>>

Verdict(result) == [pc |-> result]
Checking == check.pc \in {"dial", "echo"}

Init ==
  /\ answers = Server
  /\ session = [server |-> 1, state |-> "live"]
  /\ cooling = [s \in Server |-> 0]
  /\ wait = 0 /\ failures = 0
  /\ check = Verdict("none")

-----------------------------------------------------------------------------
(* reconnectBackoff: doubles with every failure up to the limit.           *)
Backoff(n) ==
  IF n = 0 THEN 0 ELSE IF 2 ^ (n - 1) > MaxBackoff THEN MaxBackoff ELSE 2 ^ (n - 1)

\* One more failure changes the backoff no more.
Saturated(n) == Backoff(n) = MaxBackoff

\* How far a server is from `start' in the order of the configuration.
Offset(s, start) == (s + Servers - start) % Servers

\* Mutant: servers that failed lately are left out.
AttemptPlanSkips(start) ==
  [s \in {t \in Server : cooling[t] = 0} |-> Offset(s, start)]

\* endpointAttemptPlan: the servers to dial, with their rank.  Those that
\* failed lately come last.
AttemptPlan(start) ==
  [s \in Server |-> Offset(s, start) + (IF cooling[s] > 0 THEN Servers ELSE 0)]

\* Connect starts after the server it had, or with the leader if the probe
\* names one of the endpoints.
Starts == {1 + (session.server % Servers)} \cup (IF LeaderProbe THEN Server ELSE {})

\* The first Connect of a process, whole: nothing is known of the servers.
ConnectAfresh ==
  \E start \in {1} \cup (IF LeaderProbe THEN Server ELSE {}), s \in answers :
    LET failed == {t \in Server : Offset(t, start) < Offset(s, start)} IN
    /\ failed \cap answers = {}
    /\ session' = [server |-> s, state |-> "live"]
    /\ cooling' = [t \in Server |-> IF t \in failed THEN Cooldown ELSE 0]
    /\ wait' = 0 /\ failures' = 0
    /\ UNCHANGED <<answers, check>>

StartRound(force) ==
  \E start \in Starts :
    check' = [pc |-> "dial", todo |-> AttemptPlan(start), force |-> force,
              steady |-> answers]

\* reconnectHealthClient up to the dialling.
Reconnect(force) ==
  IF wait > 0 THEN check' = Verdict("failed") ELSE StartRound(force)

\* Mutant: a client that is connected is not asked for an echo.
HealthCheckTrusting ==
  IF session.state # "dropped"
  THEN /\ check' = Verdict("ok") /\ wait' = 0 /\ failures' = 0
       /\ UNCHANGED <<answers, session, cooling>>
  ELSE /\ Reconnect(FALSE)
       /\ UNCHANGED <<answers, session, cooling, wait, failures>>

\* HealthCheck up to the first answer to Connected and Echo.
HealthCheck ==
  IF session.state = "live"
  THEN /\ check' = Verdict("ok") /\ wait' = 0 /\ failures' = 0
       /\ UNCHANGED <<answers, session, cooling>>
  ELSE /\ Reconnect(session.state = "mute")
       /\ UNCHANGED <<answers, session, cooling, wait, failures>>

\* One dial of Connect; the old client is closed once there is a new one.
Dial ==
  /\ check.pc = "dial"
  /\ \E s \in DOMAIN check.todo :
       /\ \A t \in DOMAIN check.todo : check.todo[s] <= check.todo[t]
       /\ IF s \in answers
          THEN /\ session' = [server |-> s, state |-> "live"]
               /\ cooling' = [cooling EXCEPT ![s] = 0]
               /\ wait' = 0 /\ failures' = 0
               /\ check' = [pc |-> "echo", force |-> check.force]
          ELSE /\ cooling' = [cooling EXCEPT ![s] = Cooldown]
               /\ check' = [check EXCEPT !.todo = [t \in DOMAIN @ \ {s} |-> @[t]]]
               /\ UNCHANGED <<session, wait, failures>>
  /\ UNCHANGED answers

\* Nobody accepted: recordHealthReconnectFailureLocked.
GiveUp ==
  /\ check.pc = "dial" /\ DOMAIN check.todo = {}
  /\ failures' = IF Saturated(failures) THEN failures ELSE failures + 1
  /\ wait' = Backoff(failures')
  /\ check' = Verdict("failed")
  /\ UNCHANGED <<answers, session, cooling>>

\* The echo on the new connection.  One that replaced a connection found
\* closed may be replaced once more: the backoff was cleared with it.
EchoAgain ==
  /\ check.pc = "echo"
  /\ IF session.state = "live" THEN check' = Verdict("ok")
     ELSE IF check.force THEN check' = Verdict("failed")
     ELSE StartRound(TRUE)
  /\ UNCHANGED <<answers, session, cooling, wait, failures>>

\* A pass later.
Less(n) == IF n = 0 THEN 0 ELSE n - 1
TimersRun ==
  /\ cooling' = [s \in Server |-> Less(cooling[s])]
  /\ wait' = Less(wait)

-----------------------------------------------------------------------------
(* The servers and the network.                                            *)

\* A round under way no longer counts on the server.
ServerStops(s) ==
  /\ s \in answers
  /\ answers' = answers \ {s}
  /\ session' \in IF session = [server |-> s, state |-> "live"]
                  THEN {[session EXCEPT !.state = how] : how \in {"dropped", "mute"}}
                  ELSE {session}
  /\ check' = IF check.pc = "dial" THEN [check EXCEPT !.steady = @ \ {s}] ELSE check
  /\ UNCHANGED <<cooling, wait, failures>>

\* A connection that did not notice may go on.
ServerStarts(s) ==
  /\ s \in Server \ answers
  /\ answers' = answers \cup {s}
  /\ session' \in IF session = [server |-> s, state |-> "mute"]
                  THEN {[session EXCEPT !.state = how] : how \in {"dropped", "live"}}
                  ELSE {session}
  /\ UNCHANGED <<cooling, wait, failures, check>>

ConnectionBreaks ==
  /\ session.state = "live"
  /\ session' \in {[session EXCEPT !.state = how] : how \in {"dropped", "mute"}}
  /\ UNCHANGED <<answers, cooling, wait, failures, check>>

=============================================================================
