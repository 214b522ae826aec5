--------------------------- MODULE MCLinuxDatapath ---------------------------
(***************************************************************************)
(* Small instances of LinuxDatapath.                                       *)
(***************************************************************************)
EXTENDS LinuxDatapath, TLC

CONSTANTS w1, w2

MCId == {w1, w2}
MCIp == {"i1", "i2"}

\* Policies 1 and 3 hash to the same table, and there is one table too few
\* for four of them.
MCOffset == (1 :> 0) @@ (2 :> 1) @@ (3 :> 0) @@ (4 :> 2)

E(id, ip, node, vpc) == [id |-> id, ip |-> ip, node |-> node, vpc |-> vpc]
R(key, prio, act, parts) ==
  [key |-> key, vpc |-> "v", prio |-> prio, act |-> act, to |-> UNION parts, parts |-> parts]

\* A rule of somebody else, behind the agent's.
Foreign == [prio |-> 20000, table |-> TableSize + 1, flows |-> {}, own |-> FALSE]
Fresh == [Empty EXCEPT !.rules = <<Foreign>>]

\* A workload comes, moves to the other node and back, or takes over the
\* address of another.
Workloads(cleanup) ==
  [start |-> Fresh, cleanup |-> cleanup,
   states |-> {[eps |-> <<E(w1, "i1", Here, "v"), E(w2, "i2", "there", "v")>>, routes |-> {}],
               [eps |-> <<E(w1, "i1", "there", "v"), E(w2, "i2", Here, "v")>>, routes |-> {}],
               [eps |-> <<E(w1, "i2", Here, "v")>>, routes |-> {}]}]

\* Policies come and go around a workload that stays; the last state is of a
\* VPC with no workload here.
Steady == <<E(w1, "i1", Here, "v")>>
Routed(routes) == [eps |-> Steady, routes |-> routes]
Drop3 == R(3, 100, "drop", {{"f1"}, {"f2"}})
Hop1 == R(1, 300, "hop", {{"f1", "f3"}})
Hop2 == R(2, 200, "hop", {{"f2"}})
Allow4 == R(4, 400, "allow", {{"f1"}})
Reject4 == R(4, 50, "reject", {{"f3"}})
Policies ==
  [start |-> Fresh, cleanup |-> TRUE,
   states |-> {Routed({Drop3, Hop2}), Routed({Hop1, Drop3}), Routed({Allow4, Hop1, Drop3}),
               Routed({Hop1, Hop2, Drop3, Reject4})}]

AllPlans == {Workloads(TRUE), Workloads(FALSE), Policies}
OnlyWorkloads == {Workloads(TRUE)}
OnlyPolicies == {Policies}

\* Two overlapping policies of priorities above what the RPDB can tell apart.
High ==
  [Policies EXCEPT !.states = {Routed({R(1, 12000, "hop", {{"f1"}}), R(2, 11000, "drop", {{"f1"}})})}]
OnlyHigh == {High}
=============================================================================
