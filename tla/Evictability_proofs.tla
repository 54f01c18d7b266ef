-------------------------- MODULE Evictability_proofs --------------------------
(***************************************************************************)
(* What CheckEvictable approves, the API server does not refuse, unless    *)
(* something changed after the reading: for every number of pods, budgets  *)
(* and changes.                                                            *)
(***************************************************************************)
EXTENDS Evictability, FiniteSetTheorems, TLAPS

\* An eviction about to be sent, with nothing changed since the reading, is one
\* the API server accepts; and a refused one was raced.
Unraced == pc = "evict" /\ ~history.raced => ~Refused(victim)

Aimed == pc = "evict" => victim \in Pods

Inv == TypeOK /\ Aimed /\ Unraced /\ RefusalsAreRaces

-------------------------------------------------------------------------------
\* The controller's recount is a budget again.
LEMMA CountedType ==
  ASSUME TypeOK, NEW b \in Budgets
  PROVE  Counted(b) \in Budget
<1>1. IsFiniteSet({p \in budget[b].covers : Healthy(p)})
  <2>1. {p \in budget[b].covers : Healthy(p)} \subseteq Pods
    BY DEF TypeOK, Budget
  <2> QED
    BY <2>1, EvictabilityAssumption, FS_Subset
<1>2. Cardinality({p \in budget[b].covers : Healthy(p)}) \in Nat
  BY <1>1, FS_CardinalityType
<1>3. budget[b] \in Budget /\ others[b] \in Nat
  BY EvictabilityAssumption DEF TypeOK
<1> DEFINE n == Cardinality({p \in budget[b].covers : Healthy(p)})
           healthy == others[b] + n
           wanted == budget[b].desired
           allowed == IF healthy > wanted THEN healthy - wanted ELSE 0
<1>4. healthy \in Nat /\ wanted \in Nat
  BY <1>2, <1>3, EvictabilityAssumption DEF Budget
<1>5. allowed \in Nat
  BY <1>4
<1>6. Counted(b) = [budget[b] EXCEPT !.healthy = healthy, !.observed = TRUE,
                                     !.allowed = allowed]
  BY DEF Counted
<1> HIDE DEF healthy, allowed
<1> QED
  BY <1>3, <1>4, <1>5, <1>6 DEF Budget

\* An accepted eviction draws on an allowance that was there.
LEMMA LeavesType ==
  ASSUME TypeOK, NEW p \in Pods, ~Refused(p), Leaves(p)
  PROVE  pod' \in [Pods -> Pod] /\ budget' \in [Budgets -> Budget]
<1>1. pod' \in [Pods -> Pod]
  BY DEF TypeOK, Leaves, Pod
<1>2. ASSUME NEW b \in Budgets, pod[p].at = "node", b \in Charged(p)
      PROVE  [budget[b] EXCEPT !.allowed = @ - 1] \in Budget
  <2>1. budget[b].allowed # 0
    BY <1>2 DEF Refused, Charged
  <2>2. budget[b] \in Budget
    BY DEF TypeOK
  <2>3. budget[b].allowed - 1 \in Nat
    BY <2>1, <2>2 DEF Budget
  <2> QED
    BY <2>2, <2>3 DEF Budget
<1> QED
  BY <1>1, <1>2 DEF Leaves, TypeOK

\* A budget that covers a pod no other one covers is its only one.
LEMMA OnlyBudget ==
  ASSUME NEW p, NEW b \in Matching(p), ~(Cardinality(Matching(p)) > 1)
  PROVE  Matching(p) = {b}
<1>1. Matching(p) \subseteq Budgets
  BY DEF Matching
<1>2. IsFiniteSet(Matching(p)) /\ Cardinality(Matching(p)) \in Nat
  BY <1>1, EvictabilityAssumption, FS_Subset, FS_CardinalityType
<1>3. Cardinality(Matching(p)) # 0
  BY <1>2, FS_EmptySet
<1>4. Cardinality(Matching(p)) = 1
  BY <1>2, <1>3
<1> QED
  BY <1>2, <1>4, FS_Singleton

\* What the API server would charge a pod to, the prediction has counted it for.
LEMMA ChargedIsAsked ==
  ASSUME TypeOK, ~Blocked, NEW p \in Evicting, NEW b \in Charged(p)
  PROVE  p \in Demand(b)
<1>1. p \in Pods /\ p \in Governed /\ b \in Matching(p)
  BY DEF Blocked, Refusing, Governed, PDBsIgnored, Evicting, Charged
<1>2. Matching(p) = {b}
  BY <1>1, OnlyBudget DEF Blocked, Overlapping
<1>3. ~EvictableWhileUnready(p, b)
  BY DEF Charged, FreeAtServer, EvictableWhileUnready
<1> QED
  BY <1>1, <1>2, <1>3 DEF Demand

(***************************************************************************)
(* The reading: no blocker means that the first eviction goes through.     *)
(***************************************************************************)
LEMMA ApprovedIsAccepted ==
  ASSUME TypeOK, ~Blocked, NEW p \in Evicting
  PROVE  ~Refused(p)
<1>1. CASE pod[p].pending
  BY <1>1 DEF Refused
<1>2. CASE ~pod[p].pending
  <2>1. p \in Pods /\ p \in Governed
    BY <1>2 DEF Blocked, Refusing, Governed, PDBsIgnored, Evicting
  <2>3. ~(Cardinality(Matching(p)) > 1)
    BY <2>1 DEF Blocked, Overlapping
  <2>4. ASSUME NEW b \in Charged(p)
        PROVE  budget[b].observed /\ budget[b].allowed # 0
    <3>1. b \in Budgets
      BY DEF Charged, Matching
    <3>4. p \in Demand(b)
      BY ChargedIsAsked
    <3>5. b \in Drawn
      BY <3>1, <3>4 DEF Drawn
    <3>6. budget[b].observed
      BY <3>5 DEF Blocked, Stale
    <3>7. ~(Cardinality(Demand(b)) > budget[b].allowed)
      BY <3>5, <3>6 DEF Blocked, Short, Stale
    <3>8. IsFiniteSet(Demand(b)) /\ Cardinality(Demand(b)) \in Nat
      <4>1. Demand(b) \subseteq Pods
        BY DEF Demand, Governed, Evicting
      <4>2. IsFiniteSet(Demand(b))
        BY <4>1, EvictabilityAssumption, FS_Subset
      <4> QED
        BY <4>2, FS_CardinalityType
    <3>9. Cardinality(Demand(b)) # 0
      BY <3>4, <3>8, FS_EmptySet
    <3>10. budget[b].allowed \in Nat
      BY <3>1 DEF TypeOK, Budget
    <3> QED
      BY <3>6, <3>7, <3>8, <3>9, <3>10
  <2> QED
    BY <2>3, <2>4 DEF Refused
<1> QED
  BY <1>1, <1>2

-------------------------------------------------------------------------------
LEMMA InitInv == Init => Inv
<1> SUFFICES ASSUME Init PROVE Inv
  OBVIOUS
<1>1. pod \in [Pods -> Pod] /\ trait \in [Pods -> Trait] /\ others \in [Budgets -> 0..MaxOthers]
  BY EvictabilityAssumption DEF Init
<1>2. budget \in [Budgets -> Budget]
  <2>1. PICK covers \in [Budgets -> SUBSET Pods], policy \in [Budgets -> Policies],
             desired \in [Budgets -> 0..MaxDesired] :
       budget = [b \in Budgets |->
         LET healthy == others[b] + Cardinality(
                          {p \in covers[b] : pod[p].ready /\ ~pod[p].pending})
         IN  [covers |-> covers[b], policy |-> policy[b], desired |-> desired[b],
              healthy |-> healthy, observed |-> TRUE,
              allowed |-> IF healthy > desired[b] THEN healthy - desired[b] ELSE 0]]
    BY DEF Init
  <2>2. ASSUME NEW b \in Budgets
        PROVE  budget[b] \in Budget
    <3> DEFINE ready == {p \in covers[b] : pod[p].ready /\ ~pod[p].pending}
               healthy == others[b] + Cardinality(ready)
               allowed == IF healthy > desired[b] THEN healthy - desired[b] ELSE 0
    <3>1. ready \subseteq Pods
      OBVIOUS
    <3>2. Cardinality(ready) \in Nat
      BY <3>1, EvictabilityAssumption, FS_Subset, FS_CardinalityType
    <3>3. others[b] \in Nat /\ desired[b] \in 0..MaxDesired /\ desired[b] \in Nat
      BY <1>1, EvictabilityAssumption
    <3>4. budget[b] = [covers |-> covers[b], policy |-> policy[b], desired |-> desired[b],
              healthy |-> healthy, observed |-> TRUE, allowed |-> allowed]
      BY <2>1
    <3>5. covers[b] \subseteq Pods /\ policy[b] \in Policies
      OBVIOUS
    <3> HIDE DEF ready
    <3>6. healthy \in Nat /\ allowed \in Nat
      BY <3>2, <3>3
    <3> HIDE DEF healthy, allowed
    <3> QED
      BY <3>3, <3>4, <3>5, <3>6 DEF Budget
  <2>3. \E f : budget = [b \in Budgets |-> f[b]]
    <3>1. budget = [b \in Budgets |-> budget[b]]
      BY <2>1
    <3> QED
      BY <3>1
  <2> QED
    BY <2>2, <2>3
<1>3. history \in History /\ ~history.refused
  <2>1. 0 \in 0..MaxEdits
    BY EvictabilityAssumption
  <2> QED
    BY <2>1 DEF Init, History
<1> QED
  BY <1>1, <1>2, <1>3 DEF Init, Inv, TypeOK, Aimed, Unraced, RefusalsAreRaces

LEMMA ReadInv == ASSUME Inv, Read PROVE Inv'
<1>0. TypeOK
  BY DEF Inv
<1>1. UNCHANGED <<pod, trait, budget, others>>
  BY DEF Read
<1>2. /\ history' \in History /\ ~history'.raced /\ ~history'.refused
  BY <1>0 DEF Read, TypeOK, History
<1>3. /\ pc' \in {"idle", "evict", "handback"} /\ victim' \in Pods \union {NoPod}
      /\ paused' \in BOOLEAN
      /\ pc' = "evict" => ~Blocked /\ victim' \in Evicting
  BY DEF Read, Evicting
<1>4. TypeOK'
  BY <1>0, <1>1, <1>2, <1>3 DEF TypeOK
<1>5. pc' = "evict" => ~Refused(victim')
  BY <1>0, <1>3, ApprovedIsAccepted
<1>6. Unraced'
  <2>1. ASSUME pc' = "evict" PROVE ~Refused(victim)'
    BY <1>1, <1>5, <2>1 DEF Refused, Charged, Matching, FreeAtServer
  <2> QED
    BY <2>1 DEF Unraced
<1> QED
  BY <1>1, <1>2, <1>3, <1>4, <1>6 DEF Inv, Aimed, RefusalsAreRaces, Evicting

LEMMA EvictInv == ASSUME Inv, Evict PROVE Inv'
<1>0. TypeOK /\ Unraced
  BY DEF Inv
<1>1. pc' = "idle" /\ victim' = NoPod /\ UNCHANGED <<trait, others, paused>>
  BY DEF Evict
<1>2. history' = [history EXCEPT !.refused = Refused(victim)]
  BY DEF Evict
<1>3. Refused(victim) \in BOOLEAN
  BY DEF Refused
<1>4. history' \in History /\ history'.refused = Refused(victim)
      /\ history'.raced = history.raced
  BY <1>0, <1>2, <1>3 DEF TypeOK, History
<1>5. pod' \in [Pods -> Pod] /\ budget' \in [Budgets -> Budget]
  <2>1. CASE Refused(victim)
    BY <1>0, <2>1 DEF Evict, TypeOK
  <2>2. CASE ~Refused(victim)
    <3>1. victim \in Pods
      BY DEF Inv, Aimed, Evict
    <3> QED
      BY <1>0, <2>2, <3>1, LeavesType DEF Evict
  <2> QED
    BY <2>1, <2>2
<1> QED
  BY <1>0, <1>1, <1>4, <1>5 DEF Inv, TypeOK, Aimed, Unraced, RefusalsAreRaces, Evict

\* Whatever is recorded as having changed keeps the invariant, being a race.
LEMMA RacedInv ==
  ASSUME Inv, TypeOK', history'.raced, UNCHANGED <<pc, victim>>
  PROVE  Inv'
  BY DEF Inv, Aimed, Unraced, RefusalsAreRaces

LEMMA DisturbType ==
  ASSUME TypeOK, Disturb
  PROVE  history' \in History /\ history'.raced
<1>1. history \in History /\ history.edits + 1 \in 0..MaxEdits
  BY EvictabilityAssumption DEF TypeOK, Disturb, History
<1>2. history' = [history EXCEPT !.edits = @ + 1, !.disturbed = TRUE, !.raced = TRUE]
  BY DEF Disturb
<1> QED
  BY <1>1, <1>2 DEF History

LEMMA KubectlInv == ASSUME Inv, NEW p \in Pods, KubectlEvicts(p) PROVE Inv'
<1>0. TypeOK /\ UNCHANGED <<trait, others, pc, victim, paused>>
  BY DEF Inv, KubectlEvicts
<1>1. history' \in History /\ history'.raced
  BY <1>0 DEF KubectlEvicts, TypeOK, History
<1>2. pod' \in [Pods -> Pod] /\ budget' \in [Budgets -> Budget]
  BY <1>0, LeavesType DEF KubectlEvicts
<1>3. TypeOK'
  BY <1>0, <1>1, <1>2 DEF TypeOK
<1> QED
  BY <1>0, <1>1, <1>3, RacedInv

LEMMA SyncInv == ASSUME Inv, NEW b \in Budgets, Sync(b) PROVE Inv'
<1>0. TypeOK /\ UNCHANGED <<pod, trait, others, pc, victim, paused>>
  BY DEF Inv, Sync
<1>1. history' \in History /\ history'.raced
  BY <1>0 DEF Sync, TypeOK, History
<1>2. budget' \in [Budgets -> Budget]
  BY <1>0, CountedType DEF Sync, TypeOK
<1>3. TypeOK'
  BY <1>0, <1>1, <1>2 DEF TypeOK
<1> QED
  BY <1>0, <1>1, <1>3, RacedInv

LEMMA EditInv == ASSUME Inv, NEW b \in Budgets, Edit(b) PROVE Inv'
<1>0. TypeOK /\ UNCHANGED <<pod, trait, others, pc, victim, paused>>
  BY DEF Inv, Edit
<1>1. history' \in History /\ history'.raced
  BY <1>0, DisturbType DEF Edit
<1>2. budget' \in [Budgets -> Budget]
  <2>1. PICK covers \in SUBSET Pods, desired \in 0..MaxDesired :
          budget' = [budget EXCEPT ![b].covers = covers, ![b].desired = desired,
                                   ![b].observed = FALSE]
    BY DEF Edit
  <2>2. [[[budget[b] EXCEPT !.covers = covers] EXCEPT !.desired = desired]
                    EXCEPT !.observed = FALSE] \in Budget
    BY <1>0 DEF TypeOK, Budget
  <2>3. budget' = [budget EXCEPT ![b] =
          [[[budget[b] EXCEPT !.covers = covers] EXCEPT !.desired = desired]
                    EXCEPT !.observed = FALSE]]
    BY <1>0, <2>1 DEF TypeOK
  <2> QED
    BY <1>0, <2>2, <2>3 DEF TypeOK
<1>3. TypeOK'
  BY <1>0, <1>1, <1>2 DEF TypeOK
<1> QED
  BY <1>0, <1>1, <1>3, RacedInv

LEMMA TurnsInv == ASSUME Inv, NEW p \in Pods, Turns(p) PROVE Inv'
<1>0. TypeOK /\ UNCHANGED <<trait, budget, others, pc, victim, paused>>
  BY DEF Inv, Turns
<1>1. history' \in History /\ history'.raced
  BY <1>0, DisturbType DEF Turns
<1>2. pod' \in [Pods -> Pod]
  BY <1>0 DEF Turns, TypeOK, Pod
<1>3. TypeOK'
  BY <1>0, <1>1, <1>2 DEF TypeOK
<1> QED
  BY <1>0, <1>1, <1>3, RacedInv

\* A pod that ends was leaving already, and the API server says so.
LEMMA FinishInv == ASSUME Inv, NEW p \in Pods, Finish(p) PROVE Inv'
<1>0. TypeOK /\ Unraced /\ UNCHANGED <<trait, budget, others, pc, victim, paused, history>>
  BY DEF Inv, Finish
<1>1. pod' = [pod EXCEPT ![p].at = "gone"] /\ pod[p].at = "leaving"
  BY DEF Finish
<1>2. pod' \in [Pods -> Pod]
  BY <1>0, <1>1 DEF TypeOK, Pod
<1>3. ~Refused(victim) => ~Refused(victim)'
  <2>1. CASE victim = p
    <3>1. pod'[victim].at = "gone"
      BY <1>0, <1>1, <2>1 DEF TypeOK, Pod
    <3> QED
      BY <1>0, <3>1 DEF Refused
  <2>2. CASE victim # p
    <3>1. pod'[victim] = pod[victim]
      BY <1>0, <1>1, <2>2 DEF TypeOK
    <3> QED
      BY <1>0, <3>1 DEF Refused, Charged, Matching, FreeAtServer
  <2> QED
    BY <2>1, <2>2
<1> QED
  BY <1>0, <1>2, <1>3 DEF Inv, TypeOK, Aimed, Unraced, RefusalsAreRaces

LEMMA AsideInv ==
  ASSUME Inv,
         \/ \E p \in Pods : Ages(p)
         \/ \E b \in Budgets : Replaced(b)
         \/ UNCHANGED vars
  PROVE  Inv'
<1>0. TypeOK /\ UNCHANGED <<pod, budget, pc, victim, paused>>
  BY DEF Inv, Ages, Replaced, vars
<1>3. /\ history' \in History
      /\ history'.refused = history.refused /\ history'.raced = history.raced
  BY <1>0 DEF Ages, Replaced, vars, TypeOK, History
<1>1. trait' \in [Pods -> Trait]
  <2>1. ASSUME NEW p \in Pods PROVE [trait[p] EXCEPT !.young = FALSE] \in Trait
    BY <1>0 DEF TypeOK, Trait
  <2> QED
    BY <1>0, <2>1 DEF Ages, Replaced, vars, TypeOK
<1>2. others' \in [Budgets -> 0..MaxOthers]
  BY <1>0, EvictabilityAssumption DEF Ages, Replaced, vars, TypeOK
<1> QED
  BY <1>0, <1>1, <1>2, <1>3 DEF Inv, TypeOK, Aimed, Unraced, RefusalsAreRaces, Refused,
     Charged, Matching, FreeAtServer

LEMMA NextInv == Inv /\ [Next]_vars => Inv'
  BY ReadInv, EvictInv, KubectlInv, SyncInv, EditInv, TurnsInv, FinishInv, AsideInv
     DEF Next, Binpack, Cluster

THEOREM InvHolds == Spec => []Inv
  BY InitInv, NextInv, PTL DEF Spec

-------------------------------------------------------------------------------
\* No allowance is ever overdrawn, and nothing else leaves its domain.
THEOREM TypeCorrect == Spec => []TypeOK
<1>1. Inv => TypeOK
  BY DEF Inv
<1> QED
  BY <1>1, InvHolds, PTL

\* The API server refuses an eviction of a drain CheckEvictable approved only over
\* something that changed between the reading and the eviction.
THEOREM RefusalsRaced == Spec => []RefusalsAreRaces
<1>1. Inv => RefusalsAreRaces
  BY DEF Inv
<1> QED
  BY <1>1, InvHolds, PTL

-------------------------------------------------------------------------------
(***************************************************************************)
(* A drain that was approved finishes.  What has to be kept is the room of *)
(* each budget: what it allows covers what the rest of the drain asks of   *)
(* it, and still will when the disruption controller recounts, which       *)
(* counts only what is healthy and charges the unready as well.            *)
(***************************************************************************)

\* What the disruption controller counts as healthy here.
Counts(b) == {p \in budget[b].covers : Healthy(p)}

\* What the drain asks of a budget for pods that nobody counts.
Unready(b) == {p \in Demand(b) : ~pod[p].ready}

Room(b) ==
  /\ budget[b].observed
  /\ Cardinality(Demand(b)) <= budget[b].allowed
  /\ Demand(b) # {} => others[b] >= budget[b].desired + Cardinality(Unready(b))
  /\ budget[b].healthy >= budget[b].desired => others[b] >= budget[b].desired

\* Until a reading approves, an undisturbed cluster stays as it was.
Before ==
  ~history.approved =>
    /\ pc = "idle" /\ ~history.refused
    /\ ~history.disturbed =>
         /\ \A p \in Pods : pod[p].at = "node"
         /\ \A b \in Budgets : budget[b] = Counted(b)

After ==
  history.approved /\ ~history.disturbed =>
    /\ ~history.refused /\ pc # "handback"
    /\ Refusing = {} /\ Overlapping = {}
    /\ \A b \in Budgets : Room(b)

\* The sets that are counted are finite.
LEMMA Sizes ==
  ASSUME TypeOK, NEW b \in Budgets
  PROVE  /\ IsFiniteSet(Demand(b)) /\ Cardinality(Demand(b)) \in Nat
         /\ IsFiniteSet(Counts(b)) /\ Cardinality(Counts(b)) \in Nat
         /\ IsFiniteSet(Unready(b)) /\ Cardinality(Unready(b)) \in Nat
<1>1. Demand(b) \subseteq Pods
  BY DEF Demand, Governed, Evicting
<1>2. Unready(b) \subseteq Pods
  BY <1>1 DEF Unready
<1>3. Counts(b) \subseteq Pods
  BY DEF Counts, TypeOK, Budget
<1> QED
  BY <1>1, <1>2, <1>3, EvictabilityAssumption, FS_Subset, FS_CardinalityType

\* What a recount changes.
LEMMA CountedFields ==
  ASSUME TypeOK, NEW b \in Budgets
  PROVE  /\ Counted(b).covers = budget[b].covers
         /\ Counted(b).policy = budget[b].policy
         /\ Counted(b).desired = budget[b].desired
         /\ Counted(b).observed
         /\ Counted(b).healthy = others[b] + Cardinality(Counts(b))
         /\ Counted(b).allowed = IF Counted(b).healthy > budget[b].desired
                                  THEN Counted(b).healthy - budget[b].desired ELSE 0
<1>1. budget[b] \in Budget
  BY DEF TypeOK
<1> DEFINE n == others[b] + Cardinality(Counts(b))
           m == IF n > budget[b].desired THEN n - budget[b].desired ELSE 0
<1>2. Counted(b) = [budget[b] EXCEPT !.healthy = n, !.observed = TRUE, !.allowed = m]
  BY DEF Counted, Counts
<1> HIDE DEF n, m
<1>3. /\ Counted(b).covers = budget[b].covers /\ Counted(b).policy = budget[b].policy
      /\ Counted(b).desired = budget[b].desired /\ Counted(b).observed
      /\ Counted(b).healthy = n /\ Counted(b).allowed = m
  BY <1>1, <1>2 DEF Budget
<1> QED
  BY <1>3 DEF n, m

\* With no pod refusing and no two budgets on one, whatever is healthy under a budget
\* is asked of it.
LEMMA DemandSplits ==
  ASSUME TypeOK, Refusing = {}, Overlapping = {}, NEW b \in Budgets
  PROVE  /\ Counts(b) \subseteq Demand(b)
         /\ Cardinality(Demand(b)) = Cardinality(Counts(b)) + Cardinality(Unready(b))
<1>1. ASSUME NEW p \in Counts(b)
      PROVE  p \in Demand(b) /\ p \notin Unready(b)
  <2>1. p \in Pods /\ b \in Matching(p) /\ p \in Evicting /\ pod[p].ready /\ ~pod[p].pending
    BY DEF Counts, Healthy, Matching, Evicting, TypeOK, Budget
  <2>2. p \in Governed
    BY <2>1 DEF Governed, Refusing, PDBsIgnored
  <2>3. Matching(p) = {b}
    BY <2>1, <2>2, OnlyBudget DEF Overlapping
  <2> QED
    BY <2>1, <2>2, <2>3 DEF Demand, Unready, EvictableWhileUnready
<1>2. ASSUME NEW p \in Demand(b), p \notin Unready(b)
      PROVE  p \in Counts(b)
  BY <1>2 DEF Demand, Unready, Governed, Evicting, PDBsIgnored, Matching, Counts, Healthy
<1>3. Demand(b) = Counts(b) \union Unready(b) /\ Counts(b) \intersect Unready(b) = {}
  BY <1>1, <1>2 DEF Unready
<1>4. Cardinality(Counts(b) \union Unready(b)) = Cardinality(Counts(b))
        + Cardinality(Unready(b)) - Cardinality(Counts(b) \intersect Unready(b))
  BY Sizes, FS_Union
<1>5. Cardinality(Counts(b) \intersect Unready(b)) = 0
  BY <1>3, FS_EmptySet
<1>6. Cardinality(Counts(b)) \in Nat /\ Cardinality(Unready(b)) \in Nat
  BY Sizes
<1>7. Cardinality(Demand(b)) = Cardinality(Counts(b)) + Cardinality(Unready(b))
  BY <1>3, <1>4, <1>5, <1>6
<1> QED
  BY <1>1, <1>7

(***************************************************************************)
(* What may happen to a cluster nobody disturbs: pods leave, their budgets *)
(* are recounted, and some become easier to evict.                         *)
(***************************************************************************)
Fades ==
  /\ \A p \in Pods :
       /\ pod'[p].at = "node" => pod[p].at = "node"
       /\ pod'[p].pending = pod[p].pending /\ pod'[p].ready = pod[p].ready
       /\ trait'[p] = trait[p] \/ trait'[p] = [trait[p] EXCEPT !.young = FALSE]
  /\ \A b \in Budgets :
       /\ budget'[b].covers = budget[b].covers
       /\ budget'[b].policy = budget[b].policy
       /\ budget'[b].desired = budget[b].desired

\* No pod becomes a blocker by itself.
LEMMA FadesPods ==
  ASSUME TypeOK, Fades, Refusing = {}, Overlapping = {}
  PROVE  /\ Refusing' = {} /\ Overlapping' = {}
         /\ \A p \in Pods : Matching(p)' = Matching(p)
         /\ \A p \in Evicting' : p \in Evicting /\ CheckPod(p) = "none"
<1>1. \A p \in Pods : Matching(p)' = Matching(p)
  BY DEF Fades, Matching
<1>2. \A p \in Evicting' : p \in Evicting /\ CheckPod(p) = "none"
  BY DEF Fades, Evicting, Refusing
<1>3. ASSUME NEW p \in Evicting'
      PROVE  CheckPod(p)' = "none"
  <2>1. p \in Pods /\ CheckPod(p) = "none" /\ Matching(p)' = Matching(p)
    BY <1>1, <1>2 DEF Evicting
  <2>2. trait[p] \in Trait
    BY <2>1 DEF TypeOK
  <2>3. /\ trait'[p].safe = trait[p].safe /\ trait'[p].controlled = trait[p].controlled
        /\ trait'[p].local = trait[p].local /\ trait'[p].system = trait[p].system
        /\ trait'[p].young => trait[p].young
    BY <2>1, <2>2 DEF Fades, Trait
  <2> QED
    BY <2>1, <2>3 DEF CheckPod
<1>4. Refusing' = {}
  BY <1>3 DEF Refusing
<1>5. ASSUME NEW p \in Overlapping'
      PROVE  FALSE
  <2>1. p \in Pods /\ p \in Evicting' /\ ~pod'[p].pending /\ Cardinality(Matching(p)') > 1
    BY DEF Overlapping, Governed, Evicting, PDBsIgnored
  <2>2. p \in Governed
    BY <1>2, <2>1 DEF Governed, Fades, PDBsIgnored
  <2> QED
    BY <1>1, <2>1, <2>2 DEF Overlapping
<1> QED
  BY <1>1, <1>2, <1>4, <1>5

\* Nor does a pod start to draw on a budget: what is free stays so while there is as
\* much left elsewhere as the budget asks for.
LEMMA FadesDemand ==
  ASSUME TypeOK, Fades, Refusing = {}, Overlapping = {}, NEW b \in Budgets,
         budget[b].healthy >= budget[b].desired => budget'[b].healthy >= budget[b].desired
  PROVE  /\ Demand(b)' \subseteq Demand(b)
         /\ Unready(b)' \subseteq Unready(b)
<1>1. ASSUME NEW p \in Demand(b)'
      PROVE  p \in Demand(b)
  <2>1. /\ p \in Pods /\ p \in Evicting' /\ ~pod'[p].pending
        /\ Matching(p)' = {b} /\ ~EvictableWhileUnready(p, b)'
    BY DEF Demand, Governed, Evicting, PDBsIgnored
  <2>2. p \in Governed /\ Matching(p) = {b}
    BY <2>1, FadesPods DEF Governed, Fades, PDBsIgnored
  <2>3. ~EvictableWhileUnready(p, b)
    BY <2>1 DEF EvictableWhileUnready, Fades
  <2> QED
    BY <2>2, <2>3 DEF Demand
<1>2. \A p \in Demand(b)' : p \in Pods
  BY DEF Demand, Governed, Evicting
<1> QED
  BY <1>1, <1>2 DEF Unready, Fades

\* Room is kept where the allowance keeps up.
LEMMA FadesRoom ==
  ASSUME TypeOK, TypeOK', Fades, Refusing = {}, Overlapping = {}, NEW b \in Budgets,
         Room(b), others'[b] >= others[b], budget'[b].observed,
         budget[b].healthy >= budget[b].desired => budget'[b].healthy >= budget[b].desired,
         budget'[b].healthy >= budget[b].desired => others'[b] >= budget[b].desired,
         Cardinality(Demand(b)') <= budget'[b].allowed
  PROVE  Room(b)'
<1>1. Demand(b)' \subseteq Demand(b) /\ Unready(b)' \subseteq Unready(b)
  BY FadesDemand
<1>2. /\ Cardinality(Unready(b)') <= Cardinality(Unready(b))
      /\ Cardinality(Unready(b)') \in Nat /\ Cardinality(Unready(b)) \in Nat
  BY <1>1, Sizes, FS_Subset, FS_CardinalityType
<1>3. /\ others[b] \in Nat /\ others'[b] \in Nat /\ budget[b].desired \in Nat
      /\ budget'[b].desired = budget[b].desired
  BY EvictabilityAssumption DEF TypeOK, Budget, Fades
<1>4. Demand(b)' # {} => others'[b] >= budget[b].desired + Cardinality(Unready(b)')
  BY <1>1, <1>2, <1>3 DEF Room
<1> QED
  BY <1>3, <1>4 DEF Room

\* A reading that found no blocker found room under every budget that was counted.
LEMMA ApprovalHasRoom ==
  ASSUME TypeOK, ~Blocked, NEW b \in Budgets, budget[b] = Counted(b)
  PROVE  Room(b)
<1> DEFINE n == Cardinality(Counts(b))
           u == Cardinality(Unready(b))
           d == Cardinality(Demand(b))
           want == budget[b].desired
<1>1. /\ n \in Nat /\ u \in Nat /\ d \in Nat
      /\ others[b] \in Nat /\ want \in Nat
  BY Sizes, EvictabilityAssumption DEF TypeOK, Budget
<1>2. /\ budget[b].observed /\ budget[b].healthy = others[b] + n
      /\ budget[b].allowed = IF others[b] + n > want THEN others[b] + n - want ELSE 0
  <2>1. budget[b].healthy = others[b] + n /\ budget[b].observed
    BY CountedFields
  <2>2. budget[b].allowed = IF budget[b].healthy > want THEN budget[b].healthy - want ELSE 0
    BY CountedFields
  <2> QED
    BY <1>1, <2>1, <2>2
<1>3. Counts(b) \subseteq Demand(b) /\ d = n + u
  BY DemandSplits DEF Blocked
<1>4. d <= budget[b].allowed
  <2>1. CASE Demand(b) = {}
    BY <1>1, <1>2, <2>1, FS_EmptySet
  <2>2. CASE Demand(b) # {}
    <3>1. b \notin Short /\ b \in Drawn \ Stale
      BY <1>2, <2>2 DEF Blocked, Drawn, Stale
    <3> QED
      BY <1>1, <1>2, <3>1 DEF Short
  <2> QED
    BY <2>1, <2>2
<1>5. Demand(b) # {} => d # 0
  BY Sizes, FS_EmptySet
<1>6. Demand(b) = {} => n = 0
  BY <1>3, FS_EmptySet
<1> HIDE DEF n, u, d, want
<1>7. Demand(b) # {} => others[b] >= want + u
  BY <1>1, <1>2, <1>3, <1>4, <1>5
<1>8. budget[b].healthy >= want => others[b] >= want
  BY <1>1, <1>2, <1>6, <1>7
<1> QED
  BY <1>2, <1>4, <1>7, <1>8 DEF Room, u, d, want

\* An approved drain that was not disturbed would be approved again.
LEMMA RoomIsApproval ==
  ASSUME TypeOK, Refusing = {}, Overlapping = {}, \A b \in Budgets : Room(b)
  PROVE  ~Blocked
<1>1. Stale = {}
  BY DEF Stale, Drawn, Room
<1>2. ASSUME NEW b \in Short
      PROVE  FALSE
  <2>1. b \in Budgets /\ Cardinality(Demand(b)) > budget[b].allowed
    BY DEF Short, Drawn
  <2>2. Cardinality(Demand(b)) \in Nat /\ budget[b].allowed \in Nat
    BY <2>1, Sizes DEF TypeOK, Budget
  <2> QED
    BY <2>1, <2>2 DEF Room
<1> QED
  BY <1>1, <1>2 DEF Blocked

\* Room is about the pods and the budgets alone.
LEMMA SameRoom ==
  ASSUME UNCHANGED <<pod, trait, budget, others>>
  PROVE  /\ Refusing' = Refusing /\ Overlapping' = Overlapping
         /\ \A b \in Budgets : (Room(b)' <=> Room(b)) /\ Counted(b)' = Counted(b)
<1>1. \A p : CheckPod(p)' = CheckPod(p) /\ Matching(p)' = Matching(p)
  BY DEF CheckPod, Matching
<1>2. Evicting' = Evicting /\ \A p, b : EvictableWhileUnready(p, b)' = EvictableWhileUnready(p, b)
  BY DEF Evicting, EvictableWhileUnready
<1>3. Governed' = Governed
  BY <1>1, <1>2 DEF Governed, PDBsIgnored
<1>4. \A b : Demand(b)' = Demand(b) /\ Unready(b)' = Unready(b)
  BY <1>1, <1>2, <1>3 DEF Demand, Unready
<1>5. \A b \in Budgets : Room(b)' <=> Room(b)
  BY <1>4 DEF Room
<1>6. \A b \in Budgets : Counted(b)' = Counted(b)
  BY DEF Counted, Healthy
<1> QED
  BY <1>1, <1>2, <1>3, <1>5, <1>6 DEF Refusing, Overlapping

Calm == Before /\ After

LEMMA ReadCalm ==
  ASSUME TypeOK, Calm, Read
  PROVE  Calm'
<1>1. UNCHANGED <<pod, trait, budget, others>> /\ pc = "idle"
  BY DEF Read
<1>2. /\ history'.approved <=> history.approved \/ ~Blocked
      /\ history'.disturbed = history.disturbed /\ ~history'.refused
  BY DEF Read, TypeOK, History
<1>3. pc' = "evict" => ~Blocked
  BY DEF Read
<1>4. pc' = "handback" => history.approved /\ Blocked
  BY DEF Read
<1>5. Before'
  BY <1>1, <1>2, <1>3, <1>4, SameRoom DEF Calm, Before, Read
<1>6. ASSUME history'.approved, ~history'.disturbed
      PROVE  ~Blocked /\ \A b \in Budgets : Room(b)
  <2>1. CASE history.approved
    BY <1>2, <1>6, <2>1, RoomIsApproval DEF Calm, After
  <2>2. CASE ~history.approved
    BY <1>2, <1>6, <2>2, ApprovalHasRoom DEF Calm, Before
  <2> QED
    BY <2>1, <2>2
<1>7. After'
  BY <1>1, <1>2, <1>4, <1>6, SameRoom DEF After, Blocked
<1> QED
  BY <1>5, <1>7 DEF Calm

\* An eviction takes from a budget what the drain asked of it for that pod.
LEMMA EvictCalm ==
  ASSUME Inv, TypeOK', Calm, Evict
  PROVE  Calm'
<1>0. TypeOK /\ victim \in Pods /\ UNCHANGED <<trait, others>> /\ pc' = "idle"
  BY DEF Inv, Aimed, Evict
<1>1. history.approved
  BY DEF Calm, Before, Evict
<1>2. /\ history'.approved = history.approved /\ history'.disturbed = history.disturbed
      /\ history'.refused <=> Refused(victim)
  BY <1>0 DEF Evict, TypeOK, History, Refused
<1>3. Before'
  BY <1>1, <1>2 DEF Before
<1>4. ASSUME ~history.disturbed
      PROVE  /\ ~Refused(victim)
             /\ Refusing' = {} /\ Overlapping' = {} /\ \A b \in Budgets : Room(b)'
  <2>1. Refusing = {} /\ Overlapping = {} /\ \A b \in Budgets : Room(b)
    BY <1>1, <1>4 DEF Calm, After
  <2>2. ~Blocked
    BY <1>0, <2>1, RoomIsApproval
  <2>3. ~Refused(victim)
    <3>1. CASE victim \in Evicting
      BY <1>0, <2>2, <3>1, ApprovedIsAccepted
    <3> QED
      BY <1>0, <3>1 DEF Refused, Evicting
  <2>4. Leaves(victim)
    BY <2>3 DEF Evict
  <2>5. ASSUME NEW b \in Budgets
        PROVE  \/ budget'[b] = budget[b]
               \/ /\ pod[victim].at = "node" /\ b \in Charged(victim)
                  /\ budget'[b] = [budget[b] EXCEPT !.allowed = budget[b].allowed - 1]
    BY <2>4 DEF Leaves
  <2>6. \A b \in Budgets : /\ budget'[b].covers = budget[b].covers
                           /\ budget'[b].policy = budget[b].policy
                           /\ budget'[b].desired = budget[b].desired
                           /\ budget'[b].healthy = budget[b].healthy
                           /\ budget'[b].observed = budget[b].observed
    BY <1>0, <2>5 DEF TypeOK, Budget
  <2>7. /\ \A p \in Pods \ {victim} : pod'[p] = pod[p]
        /\ pod'[victim].pending = pod[victim].pending
        /\ pod'[victim].ready = pod[victim].ready
        /\ pod'[victim].at # "node"
    BY <1>0, <2>4 DEF Leaves, TypeOK, Pod
  <2>8. Fades
    BY <1>0, <2>6, <2>7 DEF Fades
  <2>9. ASSUME NEW b \in Budgets
        PROVE  Room(b)'
    <3>1. Demand(b)' \subseteq Demand(b) \ {victim}
      <4>1. Demand(b)' \subseteq Demand(b)
        BY <1>0, <2>1, <2>6, <2>8, FadesDemand
      <4> QED
        BY <2>7, <4>1 DEF Demand, Governed, Evicting
    <3>2. Cardinality(Demand(b)') <= budget'[b].allowed
      <4> DEFINE D == Demand(b)
                 E == Demand(b)'
                 m == budget[b].allowed
      <4>1. /\ IsFiniteSet(D) /\ Cardinality(D) \in Nat /\ m \in Nat /\ Cardinality(D) <= m
            /\ E \subseteq D \ {victim}
        BY <1>0, <2>1, <3>1, Sizes DEF Room, TypeOK, Budget
      <4> HIDE DEF D, E
      <4>2. CASE budget'[b] = budget[b]
        <5>1. Cardinality(E) <= Cardinality(D) /\ Cardinality(E) \in Nat
          BY <4>1, FS_Subset, FS_CardinalityType
        <5> QED
          BY <4>1, <4>2, <5>1 DEF E
      <4>3. CASE /\ pod[victim].at = "node" /\ b \in Charged(victim)
                 /\ budget'[b] = [budget[b] EXCEPT !.allowed = budget[b].allowed - 1]
        <5>1. victim \in D
          BY <1>0, <2>2, <4>3, ChargedIsAsked DEF Evicting, D
        <5>2. /\ Cardinality(D \ {victim}) = Cardinality(D) - 1
              /\ IsFiniteSet(D \ {victim})
          BY <4>1, <5>1, FS_RemoveElement
        <5>3. Cardinality(E) <= Cardinality(D \ {victim}) /\ Cardinality(E) \in Nat
          BY <4>1, <5>2, FS_Subset, FS_CardinalityType
        <5>4. budget'[b].allowed = budget[b].allowed - 1
          BY <1>0, <4>3 DEF TypeOK, Budget
        <5> QED
          BY <4>1, <5>2, <5>3, <5>4 DEF E
      <4> QED
        BY <2>5, <4>2, <4>3
    <3>3. others'[b] >= others[b]
      BY <1>0, EvictabilityAssumption DEF TypeOK
    <3> QED
      BY <1>0, <2>1, <2>6, <2>8, <3>2, <3>3, FadesRoom DEF Room
  <2> QED
    BY <1>0, <2>1, <2>3, <2>8, <2>9, FadesPods
<1>5. After'
  BY <1>0, <1>2, <1>4 DEF After
<1> QED
  BY <1>3, <1>5 DEF Calm

\* A recount finds the room that was left.
LEMMA SyncCalm ==
  ASSUME Inv, TypeOK', Calm, NEW c \in Budgets, Sync(c)
  PROVE  Calm'
<1>0. TypeOK /\ UNCHANGED <<pod, trait, others, pc>>
  BY DEF Inv, Sync
<1>1. /\ history'.approved = history.approved /\ history'.disturbed = history.disturbed
      /\ history'.refused = history.refused
  BY <1>0 DEF Sync, TypeOK, History
<1>2. /\ budget[c] # Counted(c)
      /\ \A b \in Budgets : budget'[b] = IF b = c THEN Counted(c) ELSE budget[b]
  BY <1>0 DEF Sync, TypeOK
<1>3. Before'
  BY <1>0, <1>1, <1>2 DEF Calm, Before
<1>4. ASSUME history.approved, ~history.disturbed
      PROVE  Refusing' = {} /\ Overlapping' = {} /\ \A b \in Budgets : Room(b)'
  <2>1. Refusing = {} /\ Overlapping = {} /\ \A b \in Budgets : Room(b)
    BY <1>4 DEF Calm, After
  <2>2. Fades
    BY <1>0, <1>2, CountedFields DEF Fades
  <2>3. ASSUME NEW b \in Budgets
        PROVE  Room(b)'
    <3> DEFINE n == Cardinality(Counts(b))
               u == Cardinality(Unready(b))
               d == Cardinality(Demand(b))
               e == Cardinality(Demand(b)')
               want == budget[b].desired
    <3>1. /\ n \in Nat /\ u \in Nat /\ d \in Nat
          /\ others[b] \in Nat /\ want \in Nat
          /\ budget[b].allowed \in Nat /\ budget[b].healthy \in Nat
      BY <1>0, Sizes, EvictabilityAssumption DEF TypeOK, Budget
    <3>2. CASE b # c
      <4>1. budget'[b] = budget[b] /\ others'[b] >= others[b]
        BY <1>0, <1>2, <3>1, <3>2
      <4>2. Demand(b)' \subseteq Demand(b)
        BY <1>0, <2>1, <2>2, <4>1, FadesDemand
      <4>3. e <= d /\ e \in Nat
        BY <1>0, <4>2, Sizes, FS_Subset, FS_CardinalityType
      <4> HIDE DEF e, d
      <4>4. d <= budget[b].allowed
        BY <2>1 DEF Room, d
      <4>5. e <= budget'[b].allowed
        BY <3>1, <4>1, <4>3, <4>4
      <4> QED
        BY <1>0, <2>1, <2>2, <4>1, <4>5, FadesRoom DEF Room, e
    <3>3. CASE b = c
      <4>1. /\ budget'[b].observed /\ budget'[b].healthy = others[b] + n
            /\ budget'[b].allowed =
                 IF others[b] + n > want THEN others[b] + n - want ELSE 0
        <5>1. budget'[b] = Counted(b)
          BY <1>2, <3>3
        <5>2. budget'[b].observed /\ budget'[b].healthy = others[b] + n
          BY <1>0, <5>1, CountedFields
        <5>3. budget'[b].allowed =
                IF budget'[b].healthy > want THEN budget'[b].healthy - want ELSE 0
          BY <1>0, <5>1, CountedFields
        <5> QED
          BY <3>1, <5>2, <5>3
      <4>2. d = n + u /\ Counts(b) \subseteq Demand(b)
        BY <1>0, <2>1, DemandSplits
      <4>3. Demand(b) = {} => n = 0
        BY <4>2, FS_EmptySet
      <4>4. /\ Demand(b) # {} => others[b] >= want + u
            /\ budget[b].healthy >= want => others[b] >= want
        BY <2>1 DEF Room
      <4>5. budget[b].healthy >= want => budget'[b].healthy >= want
        BY <3>1, <4>1, <4>4
      <4>6. Demand(b)' \subseteq Demand(b)
        BY <1>0, <2>1, <2>2, <4>5, FadesDemand
      <4>7. /\ e <= d /\ e \in Nat
            /\ Demand(b) = {} => e = 0
        <5>1. IsFiniteSet(Demand(b))
          BY <1>0, Sizes
        <5>2. Demand(b) = {} => Demand(b)' = {}
          BY <4>6
        <5> QED
          BY <4>6, <5>1, <5>2, FS_Subset, FS_CardinalityType, FS_EmptySet
      <4> HIDE DEF n, u, d, e, want
      <4>8. budget'[b].healthy >= want => others[b] >= want
        BY <3>1, <4>1, <4>3, <4>4
      <4>9. e <= budget'[b].allowed
        BY <3>1, <4>1, <4>2, <4>3, <4>4, <4>7
      <4>10. others'[b] = others[b] /\ others'[b] >= others[b]
        BY <1>0, <3>1
      <4> QED
        BY <1>0, <2>1, <2>2, <4>1, <4>5, <4>8, <4>9, <4>10, FadesRoom DEF want, e
    <3> QED
      BY <3>2, <3>3
  <2> QED
    BY <1>0, <2>1, <2>2, <2>3, FadesPods
<1>5. After'
  BY <1>0, <1>1, <1>4 DEF Calm, After
<1> QED
  BY <1>3, <1>5 DEF Calm

\* What else an undisturbed cluster does takes nothing from any budget.
LEMMA AsideCalm ==
  ASSUME Inv, TypeOK', Calm,
         \/ \E p \in Pods : Finish(p) \/ Ages(p)
         \/ \E b \in Budgets : Replaced(b)
  PROVE  Calm'
<1>0. TypeOK /\ UNCHANGED <<budget, pc>>
  BY DEF Inv, Finish, Ages, Replaced
<1>1. /\ history'.approved = history.approved /\ history'.disturbed = history.disturbed
      /\ history'.refused = history.refused
  BY <1>0 DEF Finish, Ages, Replaced, TypeOK, History
<1>2. Fades /\ \A b \in Budgets : others'[b] >= others[b]
  <2>1. \A b \in Budgets : others[b] \in Nat
    BY <1>0, EvictabilityAssumption DEF TypeOK
  <2>2. CASE \E p \in Pods : Finish(p)
    BY <1>0, <2>1, <2>2 DEF Finish, Fades, TypeOK, Pod
  <2>3. CASE \E p \in Pods : Ages(p)
    <3>1. PICK q \in Pods : trait' = [trait EXCEPT ![q].young = FALSE]
      BY <2>3 DEF Ages
    <3>2. trait' = [trait EXCEPT ![q] = [trait[q] EXCEPT !.young = FALSE]]
      BY <3>1
    <3>3. \A p \in Pods : trait'[p] = trait[p] \/ trait'[p] = [trait[p] EXCEPT !.young = FALSE]
      BY <1>0, <3>2 DEF TypeOK
    <3> QED
      BY <1>0, <2>1, <2>3, <3>3 DEF Ages, Fades
  <2>4. CASE \E b \in Budgets : Replaced(b)
    BY <1>0, <2>1, <2>4 DEF Replaced, Fades, TypeOK
  <2> QED
    BY <2>2, <2>3, <2>4
<1>3. ASSUME ~history.approved, ~history.disturbed
      PROVE  UNCHANGED <<pod, others>>
  <2>1. \A p \in Pods : pod[p].at = "node"
    BY <1>3 DEF Calm, Before
  <2>2. \A b \in Budgets : budget[b].covers \subseteq Pods
    BY <1>0 DEF TypeOK, Budget
  <2> QED
    BY <2>1, <2>2 DEF Finish, Ages, Replaced
<1>4. Before'
  <2>1. ASSUME UNCHANGED <<pod, others>>, NEW b \in Budgets
        PROVE  Counted(b)' = Counted(b)
    BY <1>0, <2>1 DEF Counted, Healthy
  <2> QED
    BY <1>0, <1>1, <1>3, <2>1 DEF Calm, Before
<1>5. ASSUME history.approved, ~history.disturbed
      PROVE  Refusing' = {} /\ Overlapping' = {} /\ \A b \in Budgets : Room(b)'
  <2>1. Refusing = {} /\ Overlapping = {} /\ \A b \in Budgets : Room(b)
    BY <1>5 DEF Calm, After
  <2>2. ASSUME NEW b \in Budgets
        PROVE  Room(b)'
    <3>1. Demand(b)' \subseteq Demand(b)
      BY <1>0, <1>2, <2>1, FadesDemand
    <3>2. /\ Cardinality(Demand(b)') <= Cardinality(Demand(b))
          /\ Cardinality(Demand(b)') \in Nat /\ Cardinality(Demand(b)) \in Nat
      BY <1>0, <3>1, Sizes, FS_Subset, FS_CardinalityType
    <3>3. /\ others[b] \in Nat /\ others'[b] \in Nat /\ budget[b].desired \in Nat
          /\ budget[b].allowed \in Nat
      BY <1>0, EvictabilityAssumption DEF TypeOK, Budget
    <3>4. Cardinality(Demand(b)') <= budget'[b].allowed
      BY <1>0, <2>1, <3>2, <3>3 DEF Room
    <3>5. budget'[b].healthy >= budget[b].desired => others'[b] >= budget[b].desired
      BY <1>0, <1>2, <2>1, <3>3 DEF Room
    <3> QED
      BY <1>0, <1>2, <2>1, <3>4, <3>5, FadesRoom DEF Room
  <2> QED
    BY <1>0, <1>2, <2>1, <2>2, FadesPods
<1>6. After'
  BY <1>0, <1>1, <1>5 DEF Calm, After
<1> QED
  BY <1>4, <1>6 DEF Calm

\* The first statuses are those of a disruption controller that has answered.
LEMMA InitCounted ==
  ASSUME Init, NEW b \in Budgets
  PROVE  budget[b] = Counted(b)
<1>0. TypeOK
  BY InitInv DEF Inv
<1>1. PICK covers \in [Budgets -> SUBSET Pods], policy \in [Budgets -> Policies],
           desired \in [Budgets -> 0..MaxDesired] :
     budget = [c \in Budgets |->
       LET healthy == others[c] + Cardinality(
                        {p \in covers[c] : pod[p].ready /\ ~pod[p].pending})
       IN  [covers |-> covers[c], policy |-> policy[c], desired |-> desired[c],
            healthy |-> healthy, observed |-> TRUE,
            allowed |-> IF healthy > desired[c] THEN healthy - desired[c] ELSE 0]]
  BY DEF Init
<1> DEFINE ready == {p \in covers[b] : pod[p].ready /\ ~pod[p].pending}
           healthy == others[b] + Cardinality(ready)
           allowed == IF healthy > desired[b] THEN healthy - desired[b] ELSE 0
<1>2. budget[b] = [covers |-> covers[b], policy |-> policy[b], desired |-> desired[b],
                   healthy |-> healthy, observed |-> TRUE, allowed |-> allowed]
  BY <1>1
<1>3. Counts(b) = ready
  <2>1. covers[b] \subseteq Pods /\ budget[b].covers = covers[b]
    BY <1>2
  <2> QED
    BY <2>1 DEF Counts, Healthy, Init
<1>4. Cardinality({p \in budget[b].covers : Healthy(p)}) = Cardinality(ready)
  BY <1>3 DEF Counts
<1>5. budget[b].desired = desired[b]
  BY <1>2
<1>6. Counted(b) = [budget[b] EXCEPT !.healthy = healthy, !.observed = TRUE,
                                     !.allowed = allowed]
  <2> HIDE DEF ready
  <2> QED
    BY <1>4, <1>5 DEF Counted
<1> HIDE DEF healthy, allowed
<1>7. budget[b] \in Budget /\ Counted(b) \in Budget
  BY <1>0, CountedType DEF TypeOK
<1>8. /\ Counted(b).healthy = healthy /\ Counted(b).observed = TRUE
      /\ Counted(b).allowed = allowed /\ Counted(b).covers = budget[b].covers
      /\ Counted(b).policy = budget[b].policy /\ Counted(b).desired = budget[b].desired
  BY <1>6, <1>7 DEF Budget
<1> QED
  BY <1>2, <1>7, <1>8 DEF Budget

LEMMA CalmInit == Init => Calm
<1> SUFFICES ASSUME Init PROVE Calm
  OBVIOUS
<1>0. TypeOK
  BY InitInv DEF Inv
<1>1. \A p \in Pods : pod[p].at = "node"
  BY DEF Init
<1>2. ASSUME NEW b \in Budgets
      PROVE  budget[b] = Counted(b)
  BY InitCounted
<1> QED
  BY <1>1, <1>2 DEF Calm, Before, After, Init

LEMMA CalmNext == Inv /\ TypeOK' /\ Calm /\ [Next]_vars => Calm'
<1> SUFFICES ASSUME Inv, TypeOK', Calm, [Next]_vars PROVE Calm'
  OBVIOUS
<1>1. CASE Read
  BY <1>1, ReadCalm DEF Inv
<1>2. CASE Evict
  BY <1>2, EvictCalm
<1>3. CASE \/ \E p \in Pods : KubectlEvicts(p) \/ Turns(p)
           \/ \E b \in Budgets : Edit(b)
  <2>1. /\ history'.disturbed /\ history'.approved = history.approved
        /\ history'.refused = history.refused /\ pc' = pc
    BY <1>3 DEF Inv, TypeOK, History, KubectlEvicts, Turns, Edit, Disturb
  <2> QED
    BY <2>1 DEF Calm, Before, After
<1>4. CASE \E b \in Budgets : Sync(b)
  BY <1>4, SyncCalm
<1>5. CASE \/ \E p \in Pods : Finish(p) \/ Ages(p)
           \/ \E b \in Budgets : Replaced(b)
  BY <1>5, AsideCalm
<1>6. CASE UNCHANGED vars
  BY <1>6, SameRoom DEF vars, Calm, Before, After
<1> QED
  BY <1>1, <1>2, <1>3, <1>4, <1>5, <1>6 DEF Next, Binpack, Cluster

-------------------------------------------------------------------------------
(***************************************************************************)
(* A node whose drain the budgets declined cannot be emptied.  One of      *)
(* three things is so, and stays so: two budgets are on one pod, a budget  *)
(* has nothing to spare, or one would have to give away its last.          *)
(***************************************************************************)
Torn ==
  \E p \in Pods :
    pod[p].at = "node" /\ ~pod[p].pending /\ Cardinality(Matching(p)) > 1

\* It asks for more than there is, and charges for a pod that is here.
Starved(b) ==
  /\ budget[b].healthy < budget[b].desired /\ budget[b].allowed = 0
  /\ others[b] + Cardinality(Counts(b)) < budget[b].desired
  /\ \E p \in budget[b].covers :
       /\ pod[p].at = "node" /\ ~pod[p].pending
       /\ pod[p].ready \/ budget[b].policy # "AlwaysAllow"

\* It needs some of what is healthy here.
Leaning(b) ==
  /\ others[b] < budget[b].desired /\ budget[b].desired <= budget[b].healthy
  /\ budget[b].desired + budget[b].allowed <= others[b] + Cardinality(Counts(b))

Ordinary == \A b \in Budgets : budget[b].desired > 0 /\ budget[b].policy # "unknown"

Stuck ==
  history.declined /\ history.edits = 0 /\ ~history.replaced /\ Ordinary
    => Torn \/ \E b \in Budgets : Starved(b) \/ Leaning(b)

\* Either way a pod is still there.
LEMMA StuckIsOccupied ==
  ASSUME TypeOK, Stuck
  PROVE  DeclinedNodesStayOccupied
<1>1. Torn => Evicting # {}
  BY DEF Torn, Evicting
<1>2. ASSUME NEW b \in Budgets, Starved(b)
      PROVE  Evicting # {}
  BY <1>2 DEF Starved, Evicting, TypeOK, Budget
<1>3. ASSUME NEW b \in Budgets, Leaning(b)
      PROVE  Evicting # {}
  <2>1. /\ others[b] \in Nat /\ budget[b].desired \in Nat /\ budget[b].allowed \in Nat
        /\ Cardinality(Counts(b)) \in Nat
    BY Sizes, EvictabilityAssumption DEF TypeOK, Budget
  <2>2. Cardinality(Counts(b)) # 0
    BY <1>3, <2>1 DEF Leaning
  <2>3. Counts(b) # {}
    BY <2>2, FS_EmptySet
  <2> QED
    BY <2>3 DEF Counts, Healthy, Evicting, TypeOK, Budget
<1> QED
  BY <1>1, <1>2, <1>3 DEF Stuck, Ordinary, DeclinedNodesStayOccupied

LEMMA StuckInit == Init => Stuck
<1> SUFFICES ASSUME Init, history.declined, Ordinary, ~Torn
             PROVE  \E b \in Budgets : Starved(b) \/ Leaning(b)
  BY DEF Stuck
<1>0. TypeOK
  BY InitInv DEF Inv
<1>1. Overlapping = {}
  BY DEF Overlapping, Governed, Evicting, PDBsIgnored, Torn
<1>2. PICK b \in Short : TRUE
  BY <1>1 DEF Init
<1> DEFINE n == Cardinality(Counts(b))
           d == Cardinality(Demand(b))
           want == budget[b].desired
<1>3. b \in Budgets /\ Demand(b) # {} /\ d > budget[b].allowed
  BY DEF Short, Drawn
<1>4. /\ n \in Nat /\ d \in Nat /\ others[b] \in Nat /\ want \in Nat
      /\ budget[b].allowed \in Nat /\ budget[b].healthy \in Nat
  BY <1>0, <1>3, Sizes, EvictabilityAssumption DEF TypeOK, Budget
<1>5. /\ budget[b].healthy = others[b] + n
      /\ budget[b].allowed = IF budget[b].healthy > want
                             THEN budget[b].healthy - want ELSE 0
  <2>1. budget[b] = Counted(b)
    BY <1>3, InitCounted
  <2>2. budget[b].healthy = others[b] + n
    BY <1>0, <1>3, <2>1, CountedFields
  <2>3. budget[b].allowed = IF budget[b].healthy > want THEN budget[b].healthy - want ELSE 0
    BY <1>0, <1>3, <2>1, CountedFields
  <2> QED
    BY <2>2, <2>3
<1>6. CASE budget[b].healthy < want
  <2>1. PICK p \in Demand(b) : TRUE
    BY <1>3
  <2>2. /\ p \in budget[b].covers /\ pod[p].at = "node" /\ ~pod[p].pending
        /\ pod[p].ready \/ budget[b].policy # "AlwaysAllow"
    BY <2>1 DEF Demand, Governed, Evicting, PDBsIgnored, Matching, EvictableWhileUnready
  <2>3. budget[b].allowed = 0 /\ others[b] + n < want
    BY <1>4, <1>5, <1>6
  <2> QED
    BY <1>3, <1>6, <2>2, <2>3 DEF Starved
<1>7. CASE ~(budget[b].healthy < want)
  <2>1. ASSUME NEW p \in Demand(b)
        PROVE  p \in Counts(b)
    <3>1. p \in budget[b].covers /\ pod[p].at = "node" /\ ~pod[p].pending
      BY DEF Demand, Governed, Evicting, PDBsIgnored, Matching
    <3>2. budget[b].policy \in {"IfHealthyBudget", "AlwaysAllow"}
      BY <1>0, <1>3, EvictabilityAssumption DEF TypeOK, Budget, Ordinary
    <3>3. pod[p].ready
      BY <1>3, <1>4, <1>7, <3>2 DEF Demand, EvictableWhileUnready, Ordinary
    <3> QED
      BY <3>1, <3>3 DEF Counts, Healthy
  <2>2. d <= n
    BY <1>0, <1>3, <2>1, Sizes, FS_Subset
  <2> HIDE DEF n, d, want
  <2>3. others[b] < want /\ want <= budget[b].healthy /\ want + budget[b].allowed <= others[b] + n
    BY <1>3, <1>4, <1>5, <1>7, <2>2
  <2> QED
    BY <1>3, <2>3 DEF Leaning, n, want
<1> QED
  BY <1>6, <1>7

\* An eviction the API server lets through leaves it so.
LEMMA StuckLeaves ==
  ASSUME TypeOK, NEW q \in Pods, ~Refused(q), Leaves(q), UNCHANGED others, Ordinary
  PROVE  /\ Torn => Torn'
         /\ \A b \in Budgets : Starved(b) => Starved(b)'
         /\ \A b \in Budgets : Leaning(b) => Leaning(b)'
<1>1. /\ \A p \in Pods \ {q} : pod'[p] = pod[p]
      /\ pod'[q].pending = pod[q].pending /\ pod'[q].ready = pod[q].ready
      /\ pod'[q].at # "node"
      /\ pod[q].at # "node" => pod'[q].at = pod[q].at
  BY DEF Leaves, TypeOK, Pod
<1>2. ASSUME NEW b \in Budgets
      PROVE  \/ budget'[b] = budget[b] /\ (pod[q].at # "node" \/ b \notin Charged(q))
             \/ /\ pod[q].at = "node" /\ b \in Charged(q)
                /\ budget'[b] = [budget[b] EXCEPT !.allowed = budget[b].allowed - 1]
  BY DEF Leaves
<1>3. \A b \in Budgets : /\ budget'[b].covers = budget[b].covers
                         /\ budget'[b].policy = budget[b].policy
                         /\ budget'[b].desired = budget[b].desired
                         /\ budget'[b].healthy = budget[b].healthy
  BY <1>2 DEF TypeOK, Budget
<1>4. Torn => Torn'
  <2>1. \A p \in Pods : Matching(p)' = Matching(p)
    BY <1>3 DEF Matching
  <2> QED
    BY <1>1, <2>1 DEF Torn, Refused
<1>5. ASSUME NEW b \in Budgets
      PROVE  Counts(b)' = Counts(b) \ {q}
  BY <1>1, <1>3 DEF Counts, Healthy, TypeOK, Budget
<1>6. ASSUME NEW b \in Budgets, Starved(b)
      PROVE  Starved(b)'
  <2>1. ASSUME q \in budget[b].covers, pod[q].at = "node", ~pod[q].pending
        PROVE  FreeAtServer(q, b)
    BY <1>6, <2>1 DEF Starved, Refused, Charged, Matching
  <2>2. budget[b].healthy \in Nat /\ budget[b].desired \in Nat
    BY EvictabilityAssumption DEF TypeOK, Budget
  <2>3. ASSUME q \in budget[b].covers, pod[q].at = "node", ~pod[q].pending
        PROVE  ~pod[q].ready /\ budget[b].policy = "AlwaysAllow"
    BY <1>6, <2>1, <2>2, <2>3 DEF Starved, FreeAtServer
  <2>4. q \notin Counts(b)
    BY <2>3 DEF Counts, Healthy
  <2>5. Counts(b)' = Counts(b)
    BY <1>5, <2>4
  <2>6. budget'[b] = budget[b]
    BY <1>2, <2>1 DEF Charged, Matching
  <2> QED
    BY <1>1, <1>6, <2>3, <2>5, <2>6 DEF Starved, TypeOK, Budget
<1>7. ASSUME NEW b \in Budgets, Leaning(b)
      PROVE  Leaning(b)'
  <2> DEFINE n == Cardinality(Counts(b))
             m == Cardinality(Counts(b)')
             want == budget[b].desired
             have == budget[b].allowed
  <2>1. /\ n \in Nat /\ others[b] \in Nat /\ want \in Nat /\ have \in Nat
        /\ budget[b].healthy \in Nat /\ IsFiniteSet(Counts(b))
    BY Sizes, EvictabilityAssumption DEF TypeOK, Budget
  <2>2. m = IF q \in Counts(b) THEN n - 1 ELSE n
    BY <1>5, <2>1, FS_RemoveElement
  <2>3. ASSUME b \in Charged(q), pod[q].at = "node"
        PROVE  q \in Counts(b)
    BY <1>7, <2>1, <2>3 DEF Leaning, Charged, FreeAtServer, Ordinary, Matching, Counts, Healthy
  <2>4. ASSUME q \in Counts(b)
        PROVE  b \in Charged(q) /\ pod[q].at = "node"
    BY <2>4 DEF Counts, Healthy, Charged, Matching, FreeAtServer
  <2>5. budget'[b].allowed = IF q \in Counts(b) THEN have - 1 ELSE have
    BY <1>2, <2>3, <2>4 DEF TypeOK, Budget
  <2>6. want + have <= others[b] + n
    BY <1>7 DEF Leaning
  <2> HIDE DEF n, m, want, have
  <2>7. want + budget'[b].allowed <= others[b] + m
    BY <2>1, <2>2, <2>5, <2>6
  <2> QED
    BY <1>3, <1>7, <2>7 DEF Leaning, m, want
<1> QED
  BY <1>4, <1>6, <1>7

\* So does a recount, which counts no more than there is.
LEMMA StuckSync ==
  ASSUME TypeOK, NEW c \in Budgets, Sync(c)
  PROVE  /\ Torn => Torn'
         /\ \A b \in Budgets : Starved(b) => Starved(b)'
         /\ \A b \in Budgets : Leaning(b) => Leaning(b)'
         /\ Ordinary' <=> Ordinary
<1>1. \A b \in Budgets : budget'[b] = IF b = c THEN Counted(c) ELSE budget[b]
  BY DEF Sync, TypeOK
<1>2. UNCHANGED <<pod, others>>
  BY DEF Sync
<1>3. \A b \in Budgets : /\ budget'[b].covers = budget[b].covers
                         /\ budget'[b].policy = budget[b].policy
                         /\ budget'[b].desired = budget[b].desired
  BY <1>1, CountedFields
<1>4. \A b \in Budgets : Counts(b)' = Counts(b)
  BY <1>2, <1>3 DEF Counts, Healthy
<1>5. \A p : Matching(p)' = Matching(p)
  BY <1>3 DEF Matching
<1>6. ASSUME NEW b \in Budgets
      PROVE  /\ Starved(b) => Starved(b)'
             /\ Leaning(b) => Leaning(b)'
  <2>1. CASE b # c
    BY <1>1, <1>2, <1>4, <2>1 DEF Starved, Leaning
  <2>2. CASE b = c
    <3> DEFINE n == Cardinality(Counts(b))
               want == budget[b].desired
    <3>1. /\ n \in Nat /\ others[b] \in Nat /\ want \in Nat
          /\ budget[b].allowed \in Nat /\ budget[b].healthy \in Nat
      BY Sizes, EvictabilityAssumption DEF TypeOK, Budget
    <3>2. budget'[b] = Counted(b)
      BY <1>1, <2>2
    <3>3. budget'[b].healthy = others[b] + n
      BY <3>2, CountedFields
    <3>4. budget'[b].allowed =
            IF budget'[b].healthy > want THEN budget'[b].healthy - want ELSE 0
      BY <3>2, CountedFields
    <3>5. n = Cardinality(Counts(b)') /\ want = budget'[b].desired /\ others' = others
      BY <1>2, <1>3, <1>4
    <3>6. Starved(b) => Starved(b)'
      <4>1. Starved(b) => budget'[b].healthy < want /\ budget'[b].allowed = 0
                          /\ others[b] + n < want
        BY <3>1, <3>3, <3>4 DEF Starved
      <4> QED
        BY <1>2, <1>3, <3>5, <4>1 DEF Starved
    <3>7. Leaning(b) => Leaning(b)'
      <4>1. Leaning(b) => /\ others[b] < want /\ want <= budget'[b].healthy
                          /\ want + budget'[b].allowed <= others[b] + n
        BY <3>1, <3>3, <3>4 DEF Leaning
      <4> QED
        BY <3>5, <4>1 DEF Leaning
    <3> QED
      BY <3>6, <3>7
  <2> QED
    BY <2>1, <2>2
<1> QED
  BY <1>2, <1>3, <1>5, <1>6 DEF Torn, Ordinary

LEMMA StuckNext == Inv /\ Stuck /\ [Next]_vars => Stuck'
<1> SUFFICES ASSUME Inv, Stuck, [Next]_vars PROVE Stuck'
  OBVIOUS
<1>0. TypeOK
  BY DEF Inv
<1>1. CASE \/ Read \/ UNCHANGED vars \/ \E p \in Pods : Ages(p)
  <2>1. /\ UNCHANGED <<pod, budget, others>>
        /\ history'.declined = history.declined /\ history'.edits = history.edits
        /\ history'.replaced = history.replaced
    BY <1>0, <1>1 DEF Read, vars, Ages, TypeOK, History
  <2>2. /\ Torn' <=> Torn
        /\ \A b \in Budgets : (Starved(b)' <=> Starved(b)) /\ (Leaning(b)' <=> Leaning(b))
        /\ Ordinary' <=> Ordinary
    BY <2>1 DEF Torn, Matching, Starved, Leaning, Counts, Healthy, Ordinary
  <2> QED
    BY <2>1, <2>2 DEF Stuck
<1>2. CASE Evict \/ \E p \in Pods : KubectlEvicts(p)
  <2>1. /\ history'.declined = history.declined /\ history'.edits = history.edits
        /\ history'.replaced = history.replaced /\ UNCHANGED others
    BY <1>0, <1>2 DEF Evict, KubectlEvicts, TypeOK, History
  <2>2. CASE UNCHANGED <<pod, budget>>
    <3>1. /\ Torn' <=> Torn
          /\ \A b \in Budgets : (Starved(b)' <=> Starved(b)) /\ (Leaning(b)' <=> Leaning(b))
          /\ Ordinary' <=> Ordinary
      BY <2>1, <2>2 DEF Torn, Matching, Starved, Leaning, Counts, Healthy, Ordinary
    <3> QED
      BY <2>1, <3>1 DEF Stuck
  <2>3. CASE \E q \in Pods : ~Refused(q) /\ Leaves(q)
    <3>1. PICK q \in Pods : ~Refused(q) /\ Leaves(q)
      BY <2>3
    <3>2. \A b \in Budgets : /\ budget'[b].desired = budget[b].desired
                             /\ budget'[b].policy = budget[b].policy
      BY <1>0, <3>1 DEF Leaves, TypeOK, Budget
    <3>3. Ordinary' <=> Ordinary
      BY <3>2 DEF Ordinary
    <3> QED
      BY <1>0, <2>1, <3>1, <3>3, StuckLeaves DEF Stuck
  <2> QED
    BY <1>2, <2>2, <2>3 DEF Evict, KubectlEvicts, Inv, Aimed
<1>3. CASE \E p \in Pods : Finish(p)
  <2>1. UNCHANGED <<budget, others, history>>
    BY <1>3 DEF Finish
  <2>2. ASSUME NEW p \in Pods
        PROVE  /\ (pod'[p].at = "node") <=> (pod[p].at = "node")
               /\ pod'[p].pending = pod[p].pending /\ pod'[p].ready = pod[p].ready
    BY <1>0, <1>3 DEF Finish, TypeOK, Pod
  <2>3. \A b \in Budgets : Counts(b)' = Counts(b)
    BY <1>0, <2>1, <2>2 DEF Counts, Healthy, TypeOK, Budget
  <2>4. /\ Torn' <=> Torn
        /\ \A b \in Budgets : (Starved(b)' <=> Starved(b)) /\ (Leaning(b)' <=> Leaning(b))
        /\ Ordinary' <=> Ordinary
    BY <1>0, <2>1, <2>2, <2>3 DEF Torn, Matching, Starved, Leaning, Ordinary, TypeOK, Budget
  <2> QED
    BY <2>1, <2>4 DEF Stuck
<1>4. CASE \E b \in Budgets : Sync(b)
  <2>1. /\ history'.declined = history.declined /\ history'.edits = history.edits
        /\ history'.replaced = history.replaced
    BY <1>0, <1>4 DEF Sync, TypeOK, History
  <2> QED
    BY <1>0, <1>4, <2>1, StuckSync DEF Stuck
<1>5. CASE \/ \E p \in Pods : Turns(p)
           \/ \E b \in Budgets : Edit(b) \/ Replaced(b)
  <2>1. history'.edits > 0 \/ history'.replaced
    <3>1. history \in History /\ history.edits \in Nat
      BY <1>0 DEF TypeOK, History
    <3>2. ASSUME Disturb
          PROVE  history'.edits > 0
      <4>1. history'.edits = history.edits + 1
        BY <3>1, <3>2 DEF Disturb, History
      <4> QED
        BY <3>1, <4>1
    <3>3. ASSUME NEW b \in Budgets, Replaced(b)
          PROVE  history'.replaced
      BY <3>1, <3>3 DEF Replaced, History
    <3> QED
      BY <1>5, <3>2, <3>3 DEF Turns, Edit
  <2> QED
    BY <2>1 DEF Stuck
<1> QED
  BY <1>1, <1>2, <1>3, <1>4, <1>5 DEF Next, Binpack, Cluster

-------------------------------------------------------------------------------
\* For every number of pods and budgets: a drain that was approved is not refused and
\* not handed back, unless something else changed.
THEOREM ApprovedDrainsDoFinish == Spec => []ApprovedDrainsFinish
<1>1. Inv => TypeOK
  BY DEF Inv
<1>2. Calm => ApprovedDrainsFinish
  BY DEF Calm, After, ApprovedDrainsFinish
<1> QED
  BY <1>1, <1>2, InvHolds, CalmInit, CalmNext, PTL DEF Spec

\* Nor is one declined that could have been finished: whoever evicts what the API
\* server lets go, in any order, leaves the node occupied.
THEOREM DeclinedNodesDoStayOccupied == Spec => []DeclinedNodesStayOccupied
<1>1. Inv /\ Stuck => DeclinedNodesStayOccupied
  BY StuckIsOccupied DEF Inv
<1> QED
  BY <1>1, InvHolds, StuckInit, StuckNext, PTL DEF Spec
===============================================================================
