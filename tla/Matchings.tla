------------------------------- MODULE Matchings -------------------------------
(***************************************************************************)
(* What internal/engine/pools.go looks for when it joins label values to   *)
(* published groups: a group of its own for every value.  PoolMapping is   *)
(* written with the definition, PoolMatching is the search.                *)
(***************************************************************************)

\* Every way to give each of the values a group of its own, along its edges.
Perfect(values, ids, edges) ==
  {f \in [values -> ids] :
     /\ \A v \in values : f[v] \in edges[v]
     /\ \A v, w \in values : f[v] = f[w] => v = w}
===============================================================================
