------------------------- MODULE MCServingClusters -------------------------
(* Small instances of ServingClusters for TLC. *)
EXTENDS ServingClusters, TLC

\* The nodes are told apart only by their place in a roster, and every order
\* of every roster is tried.
Symmetry == Permutations(Nodes)

\* The loop of rebalance, run literally: where the range of the i-th of n
\* nodes ends, for every split up to the bound.
LoopEnd[n \in 1 .. 30, i \in 0 .. 30] ==
  IF i = 0 THEN 0
  ELSE LoopEnd[n, i - 1] + (TotalLayers \div n)
         + (IF i - 1 < TotalLayers % n THEN 1 ELSE 0)

ASSUME BoundaryIsTheLoop ==
  \A n \in 1 .. 30 : \A i \in 0 .. n : Boundary(i, n) = LoopEnd[n, i]
============================================================================
