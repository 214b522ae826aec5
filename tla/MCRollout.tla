------------------------------ MODULE MCRollout ------------------------------
(* Option sets for model checking Rollout.                                 *)
EXTENDS Rollout

Opt(closed, pauseAfter, percent, finalizePending) ==
  [closed |-> closed, pauseAfter |-> pauseAfter, percent |-> percent,
   finalizePending |-> finalizePending]

\* A canary, an operator's pause, and the whole rollout.
MCCanary ==
  {Opt({}, 1, 0, FALSE), Opt({"operator_paused"}, 0, 0, FALSE),
   Opt({}, 0, 0, FALSE)}

\* Each kind of pause, and gates that are a result, an error, or shut only
\* for a version with a blocking change.
MCMixed ==
  {Opt({}, 0, 0, FALSE), Opt({}, 1, 0, FALSE),
   Opt({"risk_ack_pending"}, 0, 34, FALSE),
   Opt({"signature"}, 0, 0, TRUE)}

\* Failures of every kind over pinned policies, deletions and lost maps under
\* a revision the operator keeps, and freezes with failing rollbacks.
MCSettings ==
  {{"pinned", "apply", "rollback", "unhealthy", "exit"},
   {"explicit", "exit", "reset"},
   {"pinned", "freeze", "rollback"}}
MCUnhealthy == {{"pinned", "unhealthy"}}
MCReset == {{"pinned", "reset"}}
=============================================================================
