---------------------------- MODULE MCEvictability ----------------------------
(***************************************************************************)
(* Evictability for TLC: two pods and two budgets, in the combinations     *)
(* that matter.                                                            *)
(***************************************************************************)
EXTENDS Evictability

CONSTANTS p1, p2, b1, b2

Plain == [safe |-> "unset", controlled |-> TRUE, local |-> FALSE,
          system |-> FALSE, young |-> FALSE]

\* A pod of kube-system that is young, a scratch volume, and one permitted.
Mixed == {Plain, [Plain EXCEPT !.system = TRUE, !.young = TRUE],
          [Plain EXCEPT !.local = TRUE],
          [Plain EXCEPT !.controlled = FALSE, !.safe = "true"]}

\* One budget of any kind over plain pods; the other covers nothing.
OneBudget ==
  /\ \A p \in Pods : trait[p] = Plain
  /\ budget[b1].covers = Pods
  /\ budget[b2].covers = {} /\ budget[b2].policy = "IfHealthyBudget"
  /\ budget[b2].desired = 1 /\ others[b2] = 0

\* Two budgets that may overlap, a healthy pod, and one the autoscaler may refuse.
TwoBudgets ==
  /\ p1 \in budget[b1].covers
  /\ trait[p1] = Plain /\ pod[p1].ready
  /\ \A b \in Budgets : budget[b].policy = "IfHealthyBudget" /\ budget[b].desired = 1
  /\ others[b1] = 0

MCInit == Init /\ (OneBudget \/ TwoBudgets)
MCSpec == MCInit /\ [][Next]_vars /\ Fairness
===============================================================================
