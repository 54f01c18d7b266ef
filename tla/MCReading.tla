------------------------------- MODULE MCReading -------------------------------
(***************************************************************************)
(* An instance of Reading for TLC: three replicas, two of them on the node *)
(* under drain.                                                            *)
(***************************************************************************)
EXTENDS Reading, TLC

CONSTANTS a, b, c

TwoHere == [p \in Pods |-> IF p = c THEN "elsewhere" ELSE "node"]
Symmetry == Permutations({a, b})
===============================================================================
