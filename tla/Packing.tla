-------------------------------- MODULE Packing --------------------------------
(***************************************************************************)
(* Would the pods of a node fit on the others?  internal/engine/simulate.go *)
(* packs their replacements hardest first, each onto the fullest node that *)
(* takes it, and wants room left for a pod of every shape in the cluster.  *)
(* Around it one drain runs to its end: it is simulated again before every *)
(* eviction, and the scheduler puts each replacement where it likes.       *)
(***************************************************************************)
EXTENDS Naturals, SequencesExt

CONSTANTS
  NodeOrder, PodOrder,   \* nodes and pods, sorted by name
  Listings,              \* the orders in which an API server may list the pods
  Candidate,             \* the node to empty
  Capacity,              \* [Nodes -> [Resources -> Nat]], allocatable
  Zone,                  \* [Nodes -> topology domain]
  Tainted, Doomed,       \* nodes tainted NoSchedule; nodes being removed
  Traits,                \* what pods may be like
  Placements,            \* where pods may be at first, a subset of [Pods -> Nodes]
  Reserve,               \* policy.Sim.ReserveForLargestPod
  Obedient,              \* the scheduler places a pod where the simulation did
  NoPod, NoNode

Nodes == ToSet(NodeOrder)
Pods == ToSet(PodOrder)
Resources == {"memory", "cpu", "pods"}
Amounts == [Resources -> Nat]

\* held is what the kubelet handed out, asked what a replacement will ask for.
Trait == [kind: STRING, held: Amounts, asked: Amounts, app: STRING, repels: STRING,
          tolerant: BOOLEAN, selects: SUBSET Nodes, template: STRING, unsupported: BOOLEAN]

ASSUME PackingAssumption ==
  /\ NodeOrder \in Seq(Nodes) /\ IsInjective(NodeOrder)
  /\ PodOrder \in Seq(Pods) /\ IsInjective(PodOrder)
  /\ Listings \subseteq {l \in [1..Len(PodOrder) -> Pods] : ToSet(l) = Pods}
  /\ Candidate \in Nodes /\ Tainted \subseteq Nodes /\ Doomed \subseteq Nodes
  /\ Capacity \in [Nodes -> Amounts] /\ DOMAIN Zone = Nodes
  /\ Traits \subseteq Trait
  /\ Placements \subseteq [Pods -> Nodes]
  /\ Reserve \in BOOLEAN /\ Obedient \in BOOLEAN
  /\ NoPod \notin Pods /\ NoNode \notin Nodes

VARIABLES
  traits,      \* [Pods -> Traits]
  at,          \* [Pods -> Nodes \union {NoNode}], where a pod or its replacement is
  waiting,     \* the replacement the scheduler has to place
  planned,     \* the node the simulation put it on
  committed,   \* a pod has been evicted
  stage        \* "idle", "draining", "abandoned" or "drained"

vars == <<traits, at, waiting, planned, committed, stage>>

-------------------------------------------------------------------------------
(***************************************************************************)
(* Room.                                                                   *)
(***************************************************************************)
Minus(free, need) ==
  [r \in Resources |-> IF free[r] > need[r] THEN free[r] - need[r] ELSE 0]

Fits(need, free) == \A r \in Resources : need[r] <= free[r]

\* What a node has left; its pods weigh what the kubelet handed out.
Free(n) ==
  LET left[i \in 0..Len(PodOrder)] ==
        IF i = 0 THEN Capacity[n]
        ELSE IF at[PodOrder[i]] = n THEN Minus(left[i - 1], traits[PodOrder[i]].held)
        ELSE left[i - 1]
  IN  left[Len(PodOrder)]

Cordoned(n) == n = Candidate /\ stage = "draining"

Tolerates(p, n) == n \in Tainted => traits[p].tolerant

\* A required anti-affinity term rejects in the whole of its topology domain.
Rejected(p, n) ==
  \E q \in Pods : /\ traits[q].repels = traits[p].app
                  /\ at[q] # NoNode /\ Zone[at[q]] = Zone[n]

CanFit(p, n, free) ==
  /\ ~traits[p].unsupported /\ traits[p].repels = "nothing"
  /\ ~Rejected(p, n) /\ ~Cordoned(n) /\ Tolerates(p, n) /\ n \in traits[p].selects
  /\ Fits(traits[p].asked, free)

-------------------------------------------------------------------------------
(***************************************************************************)
(* Simulate: the replacements, hardest first, each onto the fullest node.  *)
(***************************************************************************)
Before(order, x, y) ==
  (CHOOSE i \in DOMAIN order : order[i] = x) < (CHOOSE i \in DOMAIN order : order[i] = y)

OnNode(n, kind) == {p \in Pods : at[p] = n /\ traits[p].kind = kind}

\* Variant: the taint alone keeps pods off a node being removed.
AllOthers == Nodes \ {Candidate}

Destinations == Nodes \ (Doomed \union {Candidate})

\* The most that any destination has free of r.
Largest(r) == CHOOSE most \in {Free(n)[r] : n \in Destinations} \union {0} :
                \A n \in Destinations : Free(n)[r] <= most

\* A share of the largest room, as a fraction: over zero it is infinite.
Less(x, y) == x[1] * y[2] < y[1] * x[2]

Share(p, r) == IF traits[p].asked[r] = 0 THEN <<0, 1>> ELSE <<traits[p].asked[r], Largest(r)>>

\* difficultyOf: the worst share, the pod's slot aside.
Difficulty(p) ==
  IF Less(Share(p, "cpu"), Share(p, "memory")) THEN Share(p, "memory") ELSE Share(p, "cpu")

\* Variant: nothing breaks a tie.
HardestFirst(hardness, p, q) == Less(hardness[q], hardness[p])

Precedes(hardness, p, q) ==
  \/ Less(hardness[q], hardness[p])
  \/ ~Less(hardness[p], hardness[q]) /\ Before(PodOrder, p, q)

\* The first of what is left, where what the order leaves open stays as listed.
First(listing, hardness, left) ==
  CHOOSE p \in left :
    \A q \in left \ {p} :
      \/ Precedes(hardness, p, q)
      \/ ~Precedes(hardness, q, p) /\ Before(listing, p, q)

\* place: the fullest destination that takes the pod, the first by name of equals.
Place(p, free) ==
  LET takes == {n \in Destinations : CanFit(p, n, free[n])}
      sooner(m, n) ==
        IF free[m]["memory"] = free[n]["memory"] THEN Before(NodeOrder, m, n)
        ELSE free[m]["memory"] < free[n]["memory"]
  IN  IF takes = {} THEN NoNode
      ELSE CHOOSE n \in takes : \A m \in takes \ {n} : sooner(n, m)

PlaceNext(s, p) ==
  LET n == IF s.ok THEN Place(p, s.free) ELSE NoNode
  IN  IF n = NoNode THEN [s EXCEPT !.ok = FALSE]
      ELSE [s EXCEPT !.left = @ \ {p}, !.free[n] = Minus(@, traits[p].asked),
                     !.placed = Append(@, [pod |-> p, node |-> n])]

Packed(listing, pods) ==
  LET hardness == [p \in pods |-> Difficulty(p)]
      unpacked == [ok |-> TRUE, left |-> pods, free |-> [n \in Destinations |-> Free(n)],
                   placed |-> <<>>]
      after[i \in 0..Cardinality(pods)] ==
        IF i = 0 THEN unpacked
        ELSE LET s == after[i - 1] IN PlaceNext(s, First(listing, hardness, s.left))
  IN  after[Cardinality(pods)]

-------------------------------------------------------------------------------
(***************************************************************************)
(* checkHeadroom: room for every shape that no other one covers.           *)
(***************************************************************************)
Sizeable == {p \in Pods : at[p] # NoNode /\ traits[p].kind = "relocatable"}

\* Variant: the largest in memory covers the rest.
LargestInMemory(p, q) ==
  LET larger == traits[p].asked
      smaller == traits[q].asked
  IN  /\ traits[p].tolerant = traits[q].tolerant
      /\ IF larger["memory"] = smaller["memory"] THEN Before(PodOrder, p, q)
         ELSE larger["memory"] > smaller["memory"]

Dominates(p, q) ==
  LET larger == traits[p].asked
      smaller == traits[q].asked
  IN  /\ traits[p].tolerant = traits[q].tolerant
      /\ Fits(smaller, larger)
      /\ (larger # smaller \/ Before(PodOrder, p, q))

MaximalShapes == {p \in Sizeable : \A q \in Sizeable \ {p} : ~Dominates(q, p)}

\* A probe has a size and tolerations, and nothing else of the pod.
RoomFor(p, free) ==
  \E n \in Destinations : ~Cordoned(n) /\ Tolerates(p, n) /\ Fits(traits[p].asked, free[n])

Headroom(free) ==
  /\ \A p \in Sizeable : traits[p].template # "unreadable"
  /\ \A p \in MaximalShapes : RoomFor(p, free)

Leaving == OnNode(Candidate, "relocatable")

\* Simulate: is it feasible, and where does each pod go?
Simulate(listing, reserve) ==
  LET packed == Packed(listing, Leaving)
  IN  [feasible |-> /\ \A p \in Leaving : traits[p].template = "readable"
                    /\ packed.ok
                    /\ reserve => Headroom(packed.free),
       relocated |-> packed.placed, free |-> packed.free]

-------------------------------------------------------------------------------
(***************************************************************************)
(* One drain.                                                              *)
(***************************************************************************)
Begins ==
  /\ \A n \in Nodes, r \in Resources :
       FoldSet(LAMBDA p, sum : sum + traits[p].held[r], 0, {p \in Pods : at[p] = n})
         <= Capacity[n][r]
  /\ waiting = NoPod /\ planned = NoNode /\ committed = FALSE /\ stage = "idle"

Init == traits \in [Pods -> Traits] /\ at \in Placements /\ Begins

\* Decide and Begin: the node is cordoned.
Begin ==
  /\ stage = "idle" /\ \E listing \in Listings : Simulate(listing, Reserve).feasible
  /\ stage' = "draining"
  /\ UNCHANGED <<traits, at, waiting, planned, committed>>

\* Revalidate: the reserve is asked about until the first eviction only.
Revalidated(listing) == Simulate(listing, Reserve /\ ~committed)

\* Advance, while nothing is waiting: evict the first of the plan.
Evict ==
  /\ stage = "draining" /\ waiting = NoPod
  /\ \E listing \in Listings :
       LET plan == Revalidated(listing)
       IN  /\ plan.feasible /\ plan.relocated # <<>>
           /\ waiting' = Head(plan.relocated).pod
           /\ planned' = Head(plan.relocated).node
           /\ at' = [at EXCEPT ![Head(plan.relocated).pod] = NoNode]
  /\ committed' = TRUE
  /\ UNCHANGED <<traits, stage>>

\* The plan is done: what has no destination goes with the node.
Complete ==
  /\ stage = "draining" /\ waiting = NoPod /\ Leaving = {}
  /\ \E listing \in Listings : Revalidated(listing).feasible
  /\ at' = [p \in Pods |-> IF at[p] = Candidate THEN NoNode ELSE at[p]]
  /\ stage' = "drained"
  /\ UNCHANGED <<traits, waiting, planned, committed>>

Abandon ==
  /\ stage = "draining" /\ waiting = NoPod
  /\ \E listing \in Listings : ~Revalidated(listing).feasible
  /\ stage' = "abandoned"
  /\ UNCHANGED <<traits, at, waiting, planned, committed>>

\* The scheduler: any node that takes the replacement as it is, where the
\* autoscaler's taint is all that keeps it off a node being removed.
Takes(n) ==
  /\ ~Rejected(waiting, n) /\ ~Cordoned(n) /\ Tolerates(waiting, n)
  /\ n \in traits[waiting].selects
  /\ Fits(traits[waiting].asked, Free(n))

Schedule(n) ==
  /\ waiting # NoPod /\ Takes(n)
  /\ n \in Doomed => traits[waiting].tolerant
  /\ Obedient => n = planned
  /\ at' = [at EXCEPT ![waiting] = n]
  /\ traits' = [traits EXCEPT ![waiting].held = traits[waiting].asked]
  /\ waiting' = NoPod /\ planned' = NoNode
  /\ UNCHANGED <<committed, stage>>

Next == Begin \/ Evict \/ Complete \/ Abandon \/ \E n \in Nodes : Schedule(n)

Spec == Init /\ [][Next]_vars

-------------------------------------------------------------------------------
(***************************************************************************)
(* Properties.                                                             *)
(***************************************************************************)

\* A wrong consolidation costs a scale-up: as long as nobody else takes the room, a
\* replacement that was evicted into being has a node that takes it, wherever the
\* scheduler put those before it.
NobodyIsStranded == waiting # NoPod => \E n \in Nodes \ Doomed : Takes(n)

\* The reserve is for every workload and not for the largest in one dimension: what
\* is approved leaves room, once done, for a pod of every shape that runs.
RoomForEveryShape ==
  stage = "idle" =>
    LET simulation == Simulate(PodOrder, TRUE)
    IN  simulation.feasible => \A p \in Sizeable : RoomFor(p, simulation.free)

\* explain is a preview of run: the decision is the cluster's, and does not hang on
\* the order in which a cache happens to list the pods.
TheReadingDecides ==
  LET simulation == Simulate(PodOrder, Reserve)
  IN  \A listing \in Listings : Simulate(listing, Reserve) = simulation

\* A drain that goes as planned is not abandoned half way: with each replacement where
\* the simulation put it, and nothing else changing, what was feasible stays feasible.
PlansHold == stage # "abandoned"
===============================================================================
