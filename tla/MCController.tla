----------------------------- MODULE MCController -----------------------------
(***************************************************************************)
(* Instances of Controller for TLC: two nodes, of which the first by name  *)
(* is the least loaded.                                                    *)
(***************************************************************************)
EXTENDS Controller, TLC

CONSTANTS p, q

ByName == [n \in Nodes |-> n]

\* Nothing tells the replicas apart.
Symmetry == Permutations(Procs)
===============================================================================
