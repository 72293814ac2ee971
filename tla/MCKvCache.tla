------------------------------ MODULE MCKvCache ------------------------------
EXTENDS KvCache, TLC

CONSTANTS r1, r2, r3

Bounded(n1, n2, n3) == (r1 :> n1) @@ (r2 :> n2) @@ (r3 :> n3)

\* Two requests for one cache, where everything may go wrong; and three for two,
\* so that the order of use decides which of them goes.
TwoForOne ==
  [role : {"first", "overTcp", "overHttp"}, capacity : {1},
   passes : {Bounded(2, 2, 0)}, faults : {TRUE}]
ThreeForTwo ==
  [role : {"overHttp"}, capacity : {2},
   passes : {Bounded(3, 1, 1)}, faults : {FALSE}]
AllWorlds == TwoForOne \cup ThreeForTwo
=============================================================================
