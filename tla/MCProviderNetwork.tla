-------------------------- MODULE MCProviderNetwork --------------------------
(***************************************************************************)
(* Plans for ProviderNetwork.                                              *)
(***************************************************************************)
EXTENDS ProviderNetwork

Net(n, nic, cands, fallback) ==
  [net |-> n, nic |-> nic, cands |-> cands, fallback |-> fallback, iso |-> "",
   ctls |-> {}, qos |-> "", queues |-> {}]
Queue(n, val) == [n |-> n, tenant |-> "v", val |-> val]
State(nets, subnets, local, groups) ==
  [nets |-> nets, subnets |-> {[net |-> s[1], vlan |-> s[2]] : s \in subnets}, local |-> local, groups |-> groups]

Row(id, tb, name, own, val, refs) ==
  [id |-> id, tb |-> tb, name |-> name, own |-> own, val |-> val, refs |-> refs]

\* A database with the integration bridge on it.
Fresh ==
  {Row(1, "root", <<"root">>, TRUE, <<{}, "", "">>, {<<"bridges", 2>>}),
   Row(2, "bridge", <<"other", "int">>, FALSE, <<"other">>, {<<"ports", 3>>}),
   Row(3, "port", <<"other", "int">>, FALSE, <<"other">>, {<<"interfaces", 4>>}),
   Row(4, "interface", <<"other", "int">>, FALSE, <<"other">>, {})}

Plan(states, devices, hows, cleanup) ==
  [states |-> states, nics |-> devices, drifts |-> hows, start |-> Fresh, cleanup |-> cleanup]

\* Parents picked from candidates, named or taken from the fallback; a VLAN
\* that moves to another network, and a network that becomes local.
Devices ==
  LET unmapped == {Net("n2", "e1", <<>>, ""), Net("n1", "", <<>>, "")}
      subnets == {<<"n2", "20">>, <<"n1", "10">>}
  IN  Plan({State({Net("n1", "", <<"e1", "e2">>, "")}, {<<"n1", "10">>, <<"n1", "20">>}, {}, ""),
            State({Net("n1", "", <<"e1">>, ""), Net("n2", "", <<>>, "e2")}, {<<"n1", "10">>, <<"n2", "10">>}, {}, ""),
            State(unmapped, subnets, {}, ""), State(unmapped, subnets, {"n1"}, "")},
           {"up", "down", "absent"}, {"move"}, TRUE)

\* Rates and queues that come, change and go.
Shaping ==
  LET shaped(qos, queues) == {[Net("n1", "e1", <<>>, "") EXCEPT !.qos = qos, !.queues = queues]}
  IN  Plan({State(shaped("r1", {Queue("1", "a"), Queue("2", "b")}), {<<"n1", "10">>}, {}, ""),
            State(shaped("r2", {Queue("2", "a")}), {<<"n1", "10">>}, {}, ""),
            State(shaped("", {Queue("1", "b")}), {<<"n1", "20">>}, {}, ""),
            State(shaped("", {}), {<<"n1", "10">>}, {}, "")},
           {}, {"delete", "column", "disown", "detach", "swap", "usurp"}, TRUE)

\* Controllers, an exclusive network, identity groups, and no network at all.
Steering ==
  LET ruled(ctls, iso) == {[Net("n1", "e1", <<>>, "") EXCEPT !.ctls = ctls, !.iso = iso]}
  IN  Plan({State(ruled({"t1", "t2"}, ""), {<<"n1", "10">>}, {}, ""),
            State(ruled({"t2"}, "exclusive"), {<<"n1", "10">>}, {}, "g"),
            State(ruled({}, ""), {<<"n1", "10">>}, {}, ""),
            State({}, {}, {}, "")},
           {}, {"delete", "column", "disown", "detach", "copy", "usurp", "bridge"}, TRUE)

\* An agent that removes nothing.
Keeping == [Devices EXCEPT !.cleanup = FALSE, !.nics = {}, !.drifts = {"bridge"}]

AllPlans == {Devices, Shaping, Steering, Keeping}
=============================================================================
