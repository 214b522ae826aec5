--------------------------- MODULE MCAgentReconcile ---------------------------
(* Model values and symmetry for AgentReconcile.                           *)
EXTENDS AgentReconcile, TLC

CONSTANTS e1, e2, v1, v2

MCEndpoint == {e1, e2}
MCVersion == {v1, v2}
MCOneVersion == {v1}
MCSymmetry == Permutations(MCEndpoint) \cup Permutations(MCVersion)

\* What the operator and the node do besides editing the desired state.
MCUses ==
  {{"exit", "flow", "sweep"}, {"exit", "pinned", "freeze", "api"},
   {"freeze", "rollout", "pressure", "sweep"}}
MCFreezeUse == {{"pinned", "freeze"}}
MCApiUse == {{"pinned", "api"}}
MCFlowUse == {{"freeze", "flow"}}
=============================================================================
