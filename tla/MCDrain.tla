-------------------------------- MODULE MCDrain --------------------------------
(***************************************************************************)
(* Instances of Drain for TLC: workloads of one pod each, and a spare slot *)
(* for the replacement.                                                    *)
(***************************************************************************)
EXTENDS Drain, TLC

CONSTANTS a1, a2, b1, b2, A, B

TwoWorkloads == [p \in Pods |-> IF p \in {a1, a2} THEN A ELSE B]

\* 1, then doubled up to 2.
ShortRest == [n \in 1..MaxAttempts |-> IF n = 1 THEN 1 ELSE 2]

\* Sound where the pods have one owner, one temper and one starting place.
Symmetry == Permutations(Pods)
===============================================================================
