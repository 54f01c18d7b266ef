------------------------------- MODULE MCPacking -------------------------------
(***************************************************************************)
(* Small clusters for Packing.                                             *)
(***************************************************************************)
EXTENDS Packing

CONSTANTS a, b, c, d, n0, n1, n2, n3

FourNodes == <<n0, n1, n2, n3>>
FourPods == <<a, b, c, d>>
AnyOrder == {<<a, b, c, d>>, <<d, b, c, a>>}

Size(memory, cpu) == [memory |-> memory, cpu |-> cpu, pods |-> 1]
Room == [n \in Nodes |-> IF n = n0 THEN [memory |-> 12, cpu |-> 9, pods |-> 4]
                         ELSE IF n = n1 THEN [memory |-> 4, cpu |-> 5, pods |-> 3]
                         ELSE [memory |-> 5, cpu |-> 4, pods |-> 3]]
Zones == [n \in Nodes |-> IF n = n2 THEN "east" ELSE "west"]

\* Three pods to move and one that stays.
OneStays == {[p \in Pods |-> IF p = d THEN n ELSE n0] : n \in {n1, n2}}
\* Two to move, and one on each of the other nodes.
TwoStay == {[p \in Pods |-> IF p = c THEN n1 ELSE IF p = d THEN n2 ELSE n0]}

Plain == [kind |-> "relocatable", held |-> Size(1, 1), asked |-> Size(1, 1), app |-> "a",
          repels |-> "nothing", tolerant |-> FALSE, selects |-> Nodes, template |-> "readable",
          unsupported |-> FALSE]
Sized(memory, cpu) == [Plain EXCEPT !.held = Size(memory, cpu), !.asked = Size(memory, cpu)]

Sizes == {Sized(m, k) : m \in 1..3, k \in 1..3}
MemorySizes == {Sized(m, 1) : m \in 1..4}

\* Resized in place, tolerant, choosy, hostile, odd, unreadable, bound to its node.
Mixed == {Plain, Sized(2, 1), [Sized(3, 2) EXCEPT !.tolerant = TRUE],
          [Sized(1, 1) EXCEPT !.asked = Size(3, 1)], [Sized(2, 1) EXCEPT !.selects = {n2}],
          [Plain EXCEPT !.app = "b", !.repels = "a"], [Plain EXCEPT !.unsupported = TRUE],
          [Plain EXCEPT !.template = "unreadable"],
          [Sized(1, 2) EXCEPT !.kind = "local"]}

AllTraits == Mixed \union Sizes \union MemorySizes
AllPlacements == OneStays \union TwoStay

\* Pods of every kind, or of every size.
MCInit ==
  /\ \/ traits \in [Pods -> MemorySizes] /\ at \in OneStays
     \/ traits \in [Pods -> Sizes] /\ at \in TwoStay
     \/ traits \in [Pods -> Mixed] /\ at \in OneStays
  /\ Begins

MCSpec == MCInit /\ [][Next]_vars
===============================================================================
