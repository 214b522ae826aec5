--------------------------- MODULE MCControllerLoop ---------------------------
(* Small documents, feeds and scenarios for ControllerLoop.                *)
EXTENDS ControllerLoop

CONSTANTS b1, b2, b3, a, b, r1

MCBackend == {b1, b2, b3}
MCEndpoint == {a, b}
MCRequest == {r1}

Port(up, down) == [up |-> up, down |-> down]
Static(name, who) == [name |-> name, at |-> 0, ttl |-> 0, who |-> who]
Seen(name, at, ttl, who) == [name |-> name, at |-> at, ttl |-> ttl, who |-> who]

\* Two load balancers; one of two backends is declared unhealthy; one load
\* balancer is gone.
MCDocument ==
  <<[ports |-> <<Port({b1, b2}, {}), Port({b3}, {})>>, groups |-> {Static("db", "state")}],
    [ports |-> <<Port({b1}, {b2})>>, groups |-> {Seen("web", 0, 2, "state")}]>>

\* What the node has observed and the feed has to say.
MCLocal == {Seen("web", 1, 2, "node")}
MCEdition ==
  <<{Seen("web", 1, 1, "feed"), Seen("db", 1, 0, "feed")}, {Seen("web", 2, 9, "feed")}, {}>>

Quiet == [f \in Feature |-> IF f = "controller" THEN 1 ELSE 0]

\* Each part of the world in turn is the one that fails most.
MCScenario ==
  {[Quiet EXCEPT !.nb = 3, !.restart = 1],
   [Quiet EXCEPT !.feed = 4, !.restart = 1],
   [Quiet EXCEPT !.backends = 3, !.restart = 1],
   [Quiet EXCEPT !.import = 1, !.backends = 1],
   [Quiet EXCEPT !.import = 2, !.restart = 1],
   [Quiet EXCEPT !.controller = 0, !.agent = 1, !.freeze = 4],
   [Quiet EXCEPT !.controller = 0, !.agent = 1, !.freeze = 1, !.import = 1]}
=============================================================================
