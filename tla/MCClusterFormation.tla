------------------------- MODULE MCClusterFormation -------------------------
(* Small instances of ClusterFormation for TLC. *)
EXTENDS ClusterFormation

\* The ids of the connections of two nodes.
MCNodes == Names \X (1 .. MaxConns)

\* Nodes connect and are lost one at a time, restart from nothing, and load.
Calm(first) ==
  [first |-> first, loadsFail |-> FALSE, losesProcess |-> TRUE,
   oneAtATime |-> TRUE, promptReads |-> TRUE]

\* They do so at any moment, and may fail to load.
Rough(first) == [Calm(first) EXCEPT !.loadsFail = TRUE, !.oneAtATime = FALSE]

\* Two nodes that connect once, or one that connects three times, at any moment;
\* or two nodes that connect twice, one at a time.
RoughOrCalm ==
  {Rough(<<MaxConns - 1, MaxConns - 1>>), Rough(<<0, MaxConns>>),
   Calm(<<MaxConns - 2, MaxConns - 2>>)}

\* A node that only loses its connection and comes back with its layers.
Reconnecting == {[Calm(<<0>>) EXCEPT !.losesProcess = FALSE]}

\* Two nodes that connect once and load, at any moment.
Overlapping == {[Calm(<<0, 0>>) EXCEPT !.oneAtATime = FALSE]}
============================================================================
