----------------------------- MODULE MCTCXSync -----------------------------
(***************************************************************************)
(* The TCX attachments of two endpoints.  Programs: one without enforcing  *)
(* rules, two versions for ingress, one for both directions.               *)
(***************************************************************************)
EXTENDS TCXSync

MCProgram ==
  {[ingress |-> FALSE, egress |-> FALSE, ver |-> 0],
   [ingress |-> TRUE, egress |-> FALSE, ver |-> 1],
   [ingress |-> TRUE, egress |-> FALSE, ver |-> 2],
   [ingress |-> TRUE, egress |-> TRUE, ver |-> 3]}

\* A workload veth each with retries, and one interface where a close may
\* fail, which ends the loop.
MCSettings ==
  {{"workload", "attach", "metrics", "retries"},
   {"attach", "close", "metrics"}}
MCQuiet == {{"workload", "retries"}}
=============================================================================
