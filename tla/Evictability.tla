----------------------------- MODULE Evictability -----------------------------
(***************************************************************************)
(* CheckEvictable (internal/engine/evict.go) predicts whether every pod of *)
(* a node can leave it; the API server then decides, one eviction at a     *)
(* time, against disruption budgets the disruption controller recomputes   *)
(* in between.  Here the prediction meets that reality: an evaluation      *)
(* reads the pods and the budgets, predicts, and evicts one pod later on.  *)
(***************************************************************************)
EXTENDS Naturals, FiniteSets

CONSTANTS
  Pods,        \* the pods a drain of the node would evict
  Budgets,     \* the PodDisruptionBudgets of their namespace
  Traits,      \* what a pod may be like, see Trait
  Policies,    \* the UnhealthyPodEvictionPolicy a budget may declare
  MaxDesired,  \* bound: the healthy pods a budget may ask for
  MaxOthers,   \* bound: the healthy pods a budget covers on other nodes
  MaxEdits,    \* bound: changes nobody announced (see Disturb)
  SkipSystem, SkipLocal,  \* the autoscaler's flags, EvictConfig
  NoPod

\* What checkPod looks at: the safe-to-evict annotation, a controller, a volume
\* that is local, neither tmpfs nor declared disposable, the kube-system
\* namespace, and an age below the autoscaler's patience with such pods.
Trait == [safe: {"unset", "true", "false"}, controlled: BOOLEAN, local: BOOLEAN,
          system: BOOLEAN, young: BOOLEAN]

ASSUME EvictabilityAssumption ==
  /\ IsFiniteSet(Pods) /\ IsFiniteSet(Budgets)
  /\ NoPod \notin Pods
  /\ Traits \subseteq Trait
  /\ Policies \subseteq {"IfHealthyBudget", "AlwaysAllow", "unknown"}
  /\ MaxDesired \in Nat /\ MaxOthers \in Nat /\ MaxEdits \in Nat
  /\ {SkipSystem, SkipLocal} \subseteq BOOLEAN

VARIABLES
  pod,       \* [Pods -> where it is and how it is]
  trait,     \* [Pods -> Trait]
  budget,    \* [Budgets -> spec and status]
  others,    \* [Budgets -> healthy pods on other nodes]
  pc,        \* "idle", "evict", or the "handback" of the node
  victim,    \* the pod the evaluation under way evicts
  paused,    \* the last reading found nothing but transient blockers
  history    \* what happened, for the properties only

vars == <<pod, trait, budget, others, pc, victim, paused, history>>

Pod == [at: {"node", "leaving", "gone"}, pending: BOOLEAN, ready: BOOLEAN]

\* covers is empty for a selector that is null or cannot be parsed.
Budget == [covers: SUBSET Pods, policy: Policies, desired: 0..MaxDesired,
           healthy: Nat, allowed: Nat, observed: BOOLEAN]

\* approved: a reading found no blocker.  disturbed, raced: something changed by
\* itself, at any time, since the reading under way.  declined: the first reading
\* found a budget short, two budgets on a pod.  refused: the API server's answers.
\* replaced: a pod has become healthy elsewhere.
History == [approved: BOOLEAN, disturbed: BOOLEAN, raced: BOOLEAN, declined: BOOLEAN,
            refused: BOOLEAN, replaced: BOOLEAN, edits: 0..MaxEdits]

TypeOK ==
  /\ pod \in [Pods -> Pod] /\ trait \in [Pods -> Trait]
  /\ budget \in [Budgets -> Budget] /\ others \in [Budgets -> 0..MaxOthers]
  /\ pc \in {"idle", "evict", "handback"} /\ victim \in Pods \union {NoPod}
  /\ paused \in BOOLEAN /\ history \in History

(***************************************************************************)
(* The disruption controller's arithmetic.                                 *)
(***************************************************************************)
Healthy(p) == pod[p].at = "node" /\ pod[p].ready /\ ~pod[p].pending

Counted(b) ==
  LET healthy == others[b] + Cardinality({p \in budget[b].covers : Healthy(p)})
      wanted == budget[b].desired
  IN  [budget[b] EXCEPT !.healthy = healthy, !.observed = TRUE,
                        !.allowed = IF healthy > wanted THEN healthy - wanted ELSE 0]

-------------------------------------------------------------------------------
(***************************************************************************)
(* The prediction.                                                         *)
(***************************************************************************)

\* The pods to evict: a terminating one is node-local and not among them.
Evicting == {p \in Pods : pod[p].at = "node"}

Matching(p) == {b \in Budgets : p \in budget[b].covers}

\* checkPod: the code of a pod the autoscaler would not move, or "none".
CheckPod(p) ==
  LET t == trait[p]
      permitted == t.safe = "true"
  IN  IF t.safe = "false" THEN "safe-to-evict-false"
      ELSE IF ~t.controlled /\ ~permitted THEN "bare-pod"
      ELSE IF SkipLocal /\ t.local /\ ~permitted THEN "local-storage"
      ELSE IF SkipSystem /\ t.system /\ ~permitted /\ Matching(p) = {} /\ t.young
             THEN "system-pod"
      ELSE "none"

\* Eviction deletes a pod that has not started without reading any budget.
\* Variant: nor for one that is not ready.
UnreadyIsIgnored(p) == ~pod[p].ready
PDBsIgnored(p) == pod[p].pending

\* An unready pod that is not charged to its budget.  Variant: any unready pod
\* is free.
UnreadyIsFree(p, b) == ~pod[p].ready

EvictableWhileUnready(p, b) ==
  /\ ~pod[p].ready
  /\ \/ budget[b].policy = "AlwaysAllow"
     \/ /\ budget[b].policy = "IfHealthyBudget"
        /\ budget[b].healthy >= budget[b].desired
        /\ budget[b].desired > 0

\* The budgets' own part of the prediction.
Governed == {p \in Evicting : CheckPod(p) = "none" /\ ~PDBsIgnored(p)}
Overlapping == {p \in Governed : Cardinality(Matching(p)) > 1}
\* Variant: a pod that needs no allowance is counted.
DemandOfAll(b) == {p \in Governed : Matching(p) = {b}}
Demand(b) == {p \in Governed : Matching(p) = {b} /\ ~EvictableWhileUnready(p, b)}

Drawn == {b \in Budgets : Demand(b) # {}}
Stale == {b \in Drawn : ~budget[b].observed}

\* Variant: each eviction is held against the allowance on its own.
ShortForOne == {b \in Drawn \ Stale : budget[b].allowed < 1}
Short == {b \in Drawn \ Stale : Cardinality(Demand(b)) > budget[b].allowed}

Refusing == {p \in Evicting : CheckPod(p) # "none"}

Blocked == Refusing # {} \/ Overlapping # {} \/ Short # {} \/ Stale # {}

\* A blocker that does not lift on its own (not Transient) ends a drain under way.
\* Variant: a short budget is given time as well.
PodsAlone == Refusing # {} \/ Overlapping # {}
Durable == Refusing # {} \/ Overlapping # {} \/ Short # {}

-------------------------------------------------------------------------------
(***************************************************************************)
(* The API server's eviction, which knows one pod at a time (external:     *)
(* Create and checkAndDecrement in pkg/registry/core/pod/storage).         *)
(***************************************************************************)
FreeAtServer(p, b) ==
  /\ ~pod[p].ready
  /\ \/ budget[b].policy = "AlwaysAllow"
     \/ budget[b].healthy >= budget[b].desired /\ budget[b].desired > 0

Charged(p) == {b \in Matching(p) : ~pod[p].pending /\ ~FreeAtServer(p, b)}

Refused(p) ==
  /\ pod[p].at = "node" /\ ~pod[p].pending
  /\ \/ Cardinality(Matching(p)) > 1
     \/ \E b \in Charged(p) : ~budget[b].observed \/ budget[b].allowed = 0

Leaves(p) ==
  /\ pod' = [pod EXCEPT ![p].at = IF @ = "node" THEN "leaving" ELSE @]
  /\ budget' = [b \in Budgets |->
       IF pod[p].at = "node" /\ b \in Charged(p)
         THEN [budget[b] EXCEPT !.allowed = @ - 1]
         ELSE budget[b]]

-------------------------------------------------------------------------------
Init ==
  /\ pod \in [Pods -> {x \in Pod : x.at = "node" /\ (x.pending => ~x.ready)}]
  /\ trait \in [Pods -> Traits]
  /\ others \in [Budgets -> 0..MaxOthers]
  /\ \E covers \in [Budgets -> SUBSET Pods], policy \in [Budgets -> Policies],
        desired \in [Budgets -> 0..MaxDesired] :
       budget = [b \in Budgets |->
         LET healthy == others[b] + Cardinality(
                          {p \in covers[b] : pod[p].ready /\ ~pod[p].pending})
         IN  [covers |-> covers[b], policy |-> policy[b], desired |-> desired[b],
              healthy |-> healthy, observed |-> TRUE,
              allowed |-> IF healthy > desired[b] THEN healthy - desired[b] ELSE 0]]
  /\ pc = "idle" /\ victim = NoPod /\ paused = FALSE
  /\ history = [approved |-> FALSE, disturbed |-> FALSE, raced |-> FALSE,
                declined |-> Overlapping # {} \/ Short # {}, refused |-> FALSE,
                replaced |-> FALSE, edits |-> 0]

\* One evaluation's reading: it evicts, pauses, or hands the node back (a node
\* that was not approved yet is not chosen, and looked at again).
Read ==
  /\ pc = "idle" /\ Evicting # {}
  /\ IF ~Blocked
       THEN \E p \in Evicting : victim' = p /\ pc' = "evict"
       ELSE /\ pc' = IF history.approved /\ Durable THEN "handback" ELSE "idle"
            /\ victim' = NoPod
  /\ paused' = (history.approved /\ Blocked /\ ~Durable)
  /\ history' = [history EXCEPT !.approved = @ \/ ~Blocked,
                             !.raced = FALSE, !.refused = FALSE]
  /\ UNCHANGED <<pod, trait, budget, others>>

\* Variant: a Delete, which asks nobody.
Deletes ==
  /\ pc = "evict"
  /\ pc' = "idle" /\ victim' = NoPod
  /\ Leaves(victim)
  /\ UNCHANGED <<trait, others, paused, history>>

Evict ==
  /\ pc = "evict"
  /\ pc' = "idle" /\ victim' = NoPod
  /\ history' = [history EXCEPT !.refused = Refused(victim)]
  /\ IF Refused(victim) THEN UNCHANGED <<pod, budget>> ELSE Leaves(victim)
  /\ UNCHANGED <<trait, others, paused>>

Binpack == Read \/ Evict

(***************************************************************************)
(* The cluster.                                                            *)
(***************************************************************************)

\* A drain of its own, by somebody who does not predict.
KubectlEvicts(p) ==
  /\ pod[p].at = "node" /\ ~Refused(p)
  /\ Leaves(p)
  /\ history' = [history EXCEPT !.disturbed = TRUE, !.raced = TRUE]
  /\ UNCHANGED <<trait, others, pc, victim, paused>>

Finish(p) ==
  /\ pod[p].at = "leaving"
  /\ pod' = [pod EXCEPT ![p].at = "gone"]
  /\ UNCHANGED <<trait, budget, others, pc, victim, paused, history>>

\* The disruption controller recomputes a budget, as it does after every change.
Sync(b) ==
  /\ budget[b] # Counted(b)
  /\ budget' = [budget EXCEPT ![b] = Counted(b)]
  /\ history' = [history EXCEPT !.raced = TRUE]
  /\ UNCHANGED <<pod, trait, others, pc, victim, paused>>

\* A replacement becomes ready elsewhere, and the drain is none the worse.
Replaced(b) ==
  /\ others[b] < MaxOthers
  /\ \E p \in budget[b].covers : pod[p].at = "gone"
  /\ others' = [others EXCEPT ![b] = @ + 1]
  /\ history' = [history EXCEPT !.replaced = TRUE]
  /\ UNCHANGED <<pod, trait, budget, pc, victim, paused>>

Disturb ==
  /\ history.edits < MaxEdits
  /\ history' = [history EXCEPT !.edits = @ + 1, !.disturbed = TRUE, !.raced = TRUE]

\* Somebody edits, creates or deletes a budget.
Edit(b) ==
  /\ Disturb
  /\ \E covers \in SUBSET Pods, desired \in 0..MaxDesired :
       budget' = [budget EXCEPT ![b].covers = covers, ![b].desired = desired,
                                ![b].observed = FALSE]
  /\ UNCHANGED <<pod, trait, others, pc, victim, paused>>

\* A container starts, becomes ready, or breaks.
Turns(p) ==
  /\ Disturb /\ pod[p].at = "node"
  /\ \E ready \in BOOLEAN : pod' = [pod EXCEPT ![p].pending = FALSE, ![p].ready = ready]
  /\ UNCHANGED <<trait, budget, others, pc, victim, paused>>

\* The autoscaler loses its patience with a kube-system pod.
Ages(p) ==
  /\ trait[p].young
  /\ trait' = [trait EXCEPT ![p].young = FALSE]
  /\ UNCHANGED <<pod, budget, others, pc, victim, paused, history>>

Cluster ==
  \/ \E p \in Pods : KubectlEvicts(p) \/ Finish(p) \/ Turns(p) \/ Ages(p)
  \/ \E b \in Budgets : Sync(b) \/ Replaced(b) \/ Edit(b)

Next == Binpack \/ Cluster

\* The controller evaluates for as long as it runs, and the disruption controller
\* answers every change of a budget.
Fairness == WF_vars(Binpack) /\ \A b \in Budgets : WF_vars(Sync(b))

Spec == Init /\ [][Next]_vars /\ Fairness

-------------------------------------------------------------------------------
(***************************************************************************)
(* Properties.                                                             *)
(***************************************************************************)

\* A drain that was approved is never refused an eviction and never handed back
\* over a budget, in whatever order its pods go and whenever the disruption
\* controller recounts, unless something else changed: the demand is aggregated
\* over the whole drain (checkAllowances).
ApprovedDrainsFinish ==
  history.approved /\ ~history.disturbed => ~history.refused /\ pc # "handback"

\* A refusal during a drain is a race: whatever was edited, evicted or broken
\* before the reading, recounted or not, is in the prediction, so the API server's
\* 429, and its 500 for two budgets, answer something that changed after it.
RefusalsAreRaces == history.refused => history.raced

\* No needless refusal: when the budgets decline a drain, somebody who evicts what
\* the API server lets go as the budgets are, in any order, does not empty the node
\* either.
\* (A budget that asks for nothing is recounted upwards, and a policy binpack does
\* not know is charged for where the API server may not.)
DeclinedNodesStayOccupied ==
  /\ history.declined /\ history.edits = 0 /\ ~history.replaced
  /\ \A b \in Budgets : budget[b].desired > 0 /\ budget[b].policy # "unknown"
  => Evicting # {}

\* A pause is short: a drain that waits for a budget to be recounted goes on or is
\* handed back, or somebody else empties the node, since no blocker that needs
\* somebody to act is called transient.
PausesEnd == paused ~> ~paused \/ Evicting = {}
===============================================================================
