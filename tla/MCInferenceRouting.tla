-------------------------- MODULE MCInferenceRouting --------------------------
(* Small instances of InferenceRouting for TLC. *)
EXTENDS InferenceRouting

\* The members of the first generation are the first nodes, in the order of names.
Stable(members, requests) ==
  [members |-> members, joiners |-> {}, requests |-> requests, drops |-> 0,
   serverFails |-> FALSE, timesOut |-> FALSE, hangsUp |-> FALSE, tcpPort |-> FALSE]

\* Three nodes that stay; or one, with another that joins, both may be lost, and
\* all that can fail does.
StableOrChurning ==
  {Stable(<<1, 2, 3>>, {"r1", "r2"}),
   [Stable(<<1>>, {"r1"}) EXCEPT !.joiners = {2}, !.drops = 2, !.serverFails = TRUE,
                                 !.timesOut = TRUE, !.hangsUp = TRUE]}

\* Two nodes, of which one may be lost.
OneDrop == {[Stable(<<1, 2>>, {"r1", "r2"}) EXCEPT !.drops = 1]}

\* Two nodes that stay, and listen on the TCP port.
OverTcp == {[Stable(<<1, 2>>, {"r1"}) EXCEPT !.tcpPort = TRUE]}
================================================================================
