--------------------------------- MODULE Drain ---------------------------------
(***************************************************************************)
(* One node's drain, as binpack carries it out against the API server.     *)
(*                                                                         *)
(* binpack is one process.  An evaluation reads the cluster once (Decide   *)
(* or Advance, internal/executor/drain.go) and everything it then writes   *)
(* follows from that one reading; the writes reach the API server one at a *)
(* time, and between any two of them the cluster moves, a write is         *)
(* refused, or the process dies (Abort).  Nothing but the node's own       *)
(* markers survives into the next evaluation.                              *)
(*                                                                         *)
(* Around it move the workload controllers, the scheduler, the kubelet,    *)
(* the cluster-autoscaler, an operator and the clock.                      *)
(***************************************************************************)
EXTENDS DrainRules

CONSTANTS
  Pods,          \* slots for pod objects; a slot is reused once its pod is gone
  Owners,        \* the controllers the pods belong to
  Owner,         \* [Pods -> Owners]
  Residents,     \* the pods on the node at the start
  Elsewhere,     \* the pods of the same controllers on other nodes
  Tolerating,    \* pods that tolerate the cordon, so may land on the node
  Expendable,    \* pods below the priority cutoff: evicted with no destination
  Churning,      \* pods their controller replaces at will (a rolling workload)
  Grace,         \* terminationGracePeriodSeconds, the same for every pod
  Rest,          \* [1..MaxAttempts -> Nat]: drain.Backoff's wait per attempt
  MaxAttempts,   \* bound: drains tried before the model stops starting them
  MaxLag,        \* bound: how long one evaluation's writes may take
  MaxUpsets,     \* bound: disturbances from outside (see Upset)
  Facts,         \* which of AllFacts the cluster may hold against the node
  NoPod

\* What the rest of the cluster may hold against the node, one fact at a time:
\* the engine reports the first that applies, so a set of them shows as one.
AllFacts == {"none", "not-autoscaled", "pool-disabled", "cooldown-after-drain",
             "pool-at-minimum", "annotated", "protected-pod",
             "infeasible", "too-many-pods", "blocked", "transient"}

ASSUME DrainAssumption ==
  /\ IsFiniteSet(Pods)
  /\ Owner \in [Pods -> Owners]
  /\ Residents \subseteq Pods
  /\ Elsewhere \subseteq Pods \ Residents
  /\ Tolerating \subseteq Pods
  /\ Expendable \subseteq Pods
  /\ Churning \subseteq Pods
  /\ Grace \in Nat
  /\ MaxAttempts \in Nat
  /\ MaxLag \in 0..AgeCap
  /\ MaxUpsets \in Nat
  /\ Rest \in [1..MaxAttempts -> Nat]
  /\ NoPod \notin Pods
  /\ {"none", "settled"} \cap Owners = {}
  /\ Facts \subseteq AllFacts

VARIABLES
  node,        \* the draining node: its spec, its markers, its taint
  pod,         \* where each pod is and what the scheduler says of it
  autoscaler,  \* what the cluster-autoscaler publishes
  pc,          \* the next write of the evaluation under way, or "idle"
  job,         \* what that evaluation read and decided
  past,        \* history: what really happened, for the properties only
  upsets       \* disturbances so far

vars == <<node, pod, autoscaler, pc, job, past, upsets>>

(***************************************************************************)
(* States.                                                                 *)
(***************************************************************************)

\* drain-awaiting is absent, the settled sentinel, or names a controller.
Awaiting == {"none", "settled"} \union Owners

\* absent: no such object.  leaving: on the node with a deletion timestamp.
Places == {"absent", "unbound", "node", "leaving", "other"}
Conditions == {"none", "gated", "refused"}

AbandonCodes == {"stuck", "stalled", "not-removed", "replacement-unschedulable",
                 "unaccounted-pods"}

\* The conditions that express a preference about starting a drain, which a
\* drain that has disrupted something must not be ended for (ADR-0009).
Preferences == {"cooldown-after-drain", "cooldown-after-scale-up", "too-many-pods"}

Codes == AbandonCodes \union (AllFacts \ {"transient"}) \union Preferences \union
         {"autoscaler-not-live", "backoff", "being-removed"}

Writes == {"mark", "cordon", "settle", "repair", "record", "commit", "evict",
           "identify", "handback", "handover"}

NoJob == [code |-> "none", next |-> "idle", repair |-> FALSE, victim |-> NoPod,
          progressed |-> FALSE, remaining |-> 0, lag |-> 0, seen |-> {}]

Node == [exists: BOOLEAN, unschedulable: BOOLEAN, taint: BOOLEAN, marked: BOOLEAN,
         progress: 0..AgeCap, remaining: Nat \union {NoCount}, awaiting: Awaiting,
         attempts: 0..MaxAttempts, backoff: Nat]
Pod == [at: Places, cond: Conditions, left: Int, late: BOOLEAN, fresh: BOOLEAN]
Autoscaler == [live: BOOLEAN, scaleUp: BOOLEAN, growth: 0..AgeCap, trusted: BOOLEAN]
Job == [code: Codes, next: {"handback", "commit", "record", "idle"}, repair: BOOLEAN,
        victim: Pods \union {NoPod}, progressed: BOOLEAN, remaining: Nat,
        lag: 0..MaxLag, seen: SUBSET Pods]
Past == [disrupted: BOOLEAN, inflight: SUBSET Owners, lost: BOOLEAN, early: BOOLEAN,
         joined: BOOLEAN, uncounted: BOOLEAN, quiet: 0..AgeCap]

TypeOK ==
  /\ node \in Node
  /\ pod \in [Pods -> Pod]
  /\ autoscaler \in Autoscaler
  /\ pc \in Writes \union {"idle"}
  /\ job \in Job
  /\ past \in Past
  /\ upsets \in 0..MaxUpsets

NoMark(n) == [n EXCEPT !.marked = FALSE, !.progress = 0, !.remaining = NoCount,
                       !.awaiting = "none"]

PodAt(place) == [at |-> place, cond |-> "none", left |-> 0,
                 late |-> FALSE, fresh |-> FALSE]
Absent == PodAt("absent")

\* The history of one drain: whether an eviction was accepted, the controllers
\* whose replacement is not bound yet, whether an identity patch was lost,
\* whether the controller of an evicted pod had created one since the reading,
\* whether a pod joined the node, whether one left it before binpack had
\* recorded a count, the time since one last left it.
NoPast == [disrupted |-> FALSE, inflight |-> {}, lost |-> FALSE, early |-> FALSE,
           joined |-> FALSE, uncounted |-> FALSE, quiet |-> AgeCap]

Init ==
  /\ node = [exists |-> TRUE, unschedulable |-> FALSE, taint |-> FALSE,
             marked |-> FALSE, progress |-> 0, remaining |-> NoCount,
             awaiting |-> "none", attempts |-> 0, backoff |-> 0]
  /\ pod = [p \in Pods |-> PodAt(IF p \in Residents THEN "node"
                             ELSE IF p \in Elsewhere THEN "other" ELSE "absent")]
  /\ autoscaler = [live |-> TRUE, scaleUp |-> FALSE, growth |-> AgeCap,
                   trusted |-> FALSE]
  /\ pc = "idle"
  /\ job = NoJob
  /\ past = NoPast
  /\ upsets = 0

-------------------------------------------------------------------------------
(***************************************************************************)
(* What an evaluation reads.                                               *)
(***************************************************************************)

\* The pods the drain answers for, terminating ones included.
PodsToMove == {p \in Pods : pod[p].at \in {"node", "leaving"}}
Terminating == {p \in Pods : pod[p].at = "leaving"}

\* The pods the simulation names: it needs no destination for one on its way out.
Named == PodsToMove \ Terminating

\* The pods that were there when the drain started.  The variant forgets to ask.
EveryArrival == PodsToMove
ResidentSince == {p \in PodsToMove : ~pod[p].late}

Assessment ==
  Assess(PodsToMove, {pod[p].left : p \in Terminating}, node.remaining,
         node.progress, ScaleDownPaused(autoscaler.scaleUp, autoscaler.growth))

\* What became of the pod the named controller owes the drain.
Owed == node.awaiting \in Owners

\* Variant: any pod of the controller will do.
AnyReplica ==
  IF \E p \in Pods : Owner[p] = node.awaiting /\ pod[p].at = "other" THEN "landed"
  ELSE "awaited"

ReplacementFor ==
  LET theirs == {p \in Pods : /\ Owner[p] = node.awaiting
                              /\ pod[p].fresh
                              /\ pod[p].at \in {"unbound", "other"}}
      some(c) == \E p \in theirs : pod[p].at = "unbound" /\ pod[p].cond = c
  IN  IF some("refused") THEN "refused"
      ELSE IF some("gated") THEN "gated"
      ELSE IF \E p \in theirs : pod[p].at = "other" THEN "landed"
      ELSE "awaited"

\* Variant: the wait ends with the pod that was evicted.
UntilItIsGone == Owed /\ ReplacementFor = "awaited" /\ Terminating # {}
Waiting == Owed /\ ReplacementFor = "awaited"

EndsTheDrain(replacement) == replacement \in {"refused", "gated"}

\* The cooldowns decline a node unless its drain has already moved something.
\* Variant: unless it is owed a pod at this moment.
NamesAController == Owed
CommittedDrain == node.awaiting # "none"

Cooling ==
  \/ autoscaler.scaleUp
  \/ autoscaler.trusted /\ autoscaler.growth < ScaleUpPause

\* A fact the simulation or the budgets report needs a pod to be about.  The
\* reserve for the largest pod can make an empty node infeasible, and is asked
\* only of a drain that has not committed.
Possible(fact) ==
  /\ fact \in {"too-many-pods", "blocked", "transient"} => Named # {}
  /\ fact = "infeasible" => Named # {} \/ ~CommittedDrain

(***************************************************************************)
(* Revalidate, in the order eligibility and drainable ask: a skip code, a  *)
(* verdict, "transient" for blockers that all lift on their own, or        *)
(* "drainable".                                                            *)
(***************************************************************************)
Revalidate(fact) ==
  IF ~autoscaler.live THEN "autoscaler-not-live"
  ELSE IF fact \in {"not-autoscaled", "pool-disabled"} THEN fact
  ELSE IF Cooling /\ ~CommittedDrain THEN "cooldown-after-scale-up"
  ELSE IF fact = "cooldown-after-drain" /\ ~CommittedDrain THEN fact
  ELSE IF fact \in {"pool-at-minimum", "annotated"} THEN fact
  ELSE IF node.backoff > 0 THEN "backoff"
  ELSE IF ~node.unschedulable THEN "uncordoned"
  ELSE IF node.taint THEN "being-removed"
  ELSE IF fact \in {"protected-pod", "infeasible"} THEN fact
  ELSE IF fact = "too-many-pods" /\ ~CommittedDrain THEN fact
  ELSE IF fact \in {"blocked", "transient"} THEN fact
  ELSE "drainable"

AutoscalerCanFinish(code) == code \notin {"autoscaler-not-live", "not-autoscaled"}

(***************************************************************************)
(* Why Advance ends the drain under verdict v, or "none".                  *)
(***************************************************************************)
\* Variants: a pause, or a node holding late arrivals alone, is not bounded.
PausesForEver(v) ==
  IF v = "transient"
    THEN IF Owed /\ EndsTheDrain(ReplacementFor) THEN "replacement-unschedulable"
         ELSE "none"
    ELSE IF v \notin {"drainable", "uncordoned"} THEN v ELSE Assessment.code

WaitsOutArrivals(v) ==
  IF v \notin {"drainable", "transient", "uncordoned"} THEN v
  ELSE IF ResidentSince = {} /\ PodsToMove # {} THEN "none"
  ELSE Assessment.code

Ending(v) ==
  IF v = "uncordoned" THEN Assessment.code
  ELSE IF v \notin {"drainable", "transient"} THEN v
  ELSE IF Owed /\ EndsTheDrain(ReplacementFor) THEN "replacement-unschedulable"
  ELSE IF Assessment.code # "none" THEN Assessment.code
  ELSE IF v = "drainable" /\ ~Waiting /\ Terminating = {} /\ ResidentSince # {}
          /\ ResidentSince \cap Named = {} THEN "unaccounted-pods"
  ELSE "none"

\* The pods Advance may evict next under verdict v: the simulation's own
\* order, so those it found a place for before the expendable ones.  Which of
\* them is hardest to place is left open.
NextToEvict(v) ==
  LET staying == ResidentSince \cap Named
      relocated == staying \ Expendable
  IN  IF v # "drainable" \/ Terminating # {} \/ Waiting THEN {}
      ELSE IF relocated # {} THEN relocated ELSE staying

\* progressMarkers has something to say.
Recordable == Assessment.progressed \/ node.remaining = NoCount

-------------------------------------------------------------------------------
(***************************************************************************)
(* An evaluation.  Taking the reading is one step; it leaves pc at the     *)
(* first write.                                                            *)
(***************************************************************************)
Listed == {p \in Pods : pod[p].at # "absent"}

\* The candidate passes every check and nothing is marked: start a drain.
Decide ==
  /\ pc = "idle" /\ node.exists /\ ~node.marked
  /\ autoscaler.live /\ ~Cooling
  /\ node.backoff = 0 /\ ~node.taint /\ ~node.unschedulable
  /\ node.attempts < MaxAttempts
  /\ pc' = "mark"
  /\ job' = [NoJob EXCEPT !.seen = Listed]
  /\ UNCHANGED <<node, pod, autoscaler, past, upsets>>

\* The writes of an evaluation that reads verdict v and picks victim next.
Plan(v, victim) ==
  LET code == Ending(v)
      next == IF code # "none" THEN "handback"
              ELSE IF victim # NoPod THEN "commit"
              ELSE IF Recordable THEN "record"
              ELSE "idle"
      settle == Owed /\ ReplacementFor = "landed"
      repair == v = "uncordoned"
  IN  /\ job' = [code |-> code, next |-> next, repair |-> repair, victim |-> victim,
                 progressed |-> Assessment.progressed,
                 remaining |-> Assessment.remaining, lag |-> 0, seen |-> Listed]
      /\ pc' = IF settle THEN "settle" ELSE IF repair THEN "repair" ELSE next

Advance(fact) ==
  LET v == Revalidate(fact) IN
  /\ pc = "idle" /\ node.exists /\ node.marked
  /\ Possible(fact)
  /\ IF node.taint /\ AutoscalerCanFinish(v)
       THEN /\ pc' = "handover"
            /\ job' = NoJob
       ELSE IF Ending(v) = "none" /\ NextToEvict(v) # {}
       THEN \E victim \in NextToEvict(v) : Plan(v, victim)
       ELSE Plan(v, NoPod)
  /\ UNCHANGED <<node, pod, autoscaler, past, upsets>>

(***************************************************************************)
(* The writes.  A patch names only the keys it sets; stamps carry the time *)
(* of the reading, which is job.lag ago.                                   *)
(***************************************************************************)
Done == pc' = "idle" /\ job' = NoJob

\* The pods created since the reading.
Newer == {p \in Pods : pod[p].at # "absent" /\ p \notin job.seen}

Goto(next) == IF next = "idle" THEN Done ELSE pc' = next /\ UNCHANGED job

Patch(label, patched) ==
  /\ pc = label /\ node.exists
  /\ node' = patched
  /\ UNCHANGED <<autoscaler, upsets>>

\* Variant: progress is counted and not dated.
CountAlone(n) ==
  [n EXCEPT !.remaining = IF job.progressed \/ @ = NoCount THEN job.remaining ELSE @]

ProgressMarkers(n) ==
  [n EXCEPT !.progress = IF job.progressed THEN job.lag ELSE @,
            !.remaining = IF job.progressed \/ @ = NoCount THEN job.remaining ELSE @]

\* engine.AwaitingSettled: something was disrupted and nothing is owed.
\* Variant: the key is removed, as if nothing had been.
Cleared == "none"
Settled == "settled"

\* The controller an eviction leaves owing a pod.  Variant: the pod.
PodIdentity(p) == p
AwaitingMarker(p) == Owner[p]

\* Begin's first write: pods the reading did not see arrived after drain-started.
Mark ==
  /\ Patch("mark", [node EXCEPT !.marked = TRUE, !.progress = job.lag])
  /\ pod' = [p \in Pods |-> [pod[p] EXCEPT !.late = p \in Newer]]
  /\ past' = NoPast
  /\ Goto("cordon")

\* Begin's second write.
Cordon ==
  /\ Patch("cordon", [node EXCEPT !.unschedulable = TRUE])
  /\ Goto("idle")
  /\ UNCHANGED <<pod, past>>

\* The same write, of an evaluation that found the mark without the cordon.
Repair ==
  /\ Patch("repair", [node EXCEPT !.unschedulable = TRUE])
  /\ Goto(job.next)
  /\ UNCHANGED <<pod, past>>

\* The replacement has landed: nothing is owed, something was disrupted.
Settle ==
  /\ Patch("settle", [node EXCEPT !.awaiting = Settled])
  /\ Goto(IF job.repair THEN "repair" ELSE job.next)
  /\ UNCHANGED <<pod, past>>

Record ==
  /\ Patch("record", ProgressMarkers(node))
  /\ Goto("idle")
  /\ UNCHANGED <<pod, past>>

Commit ==
  /\ Patch("commit", [ProgressMarkers(node) EXCEPT !.awaiting = Settled])
  /\ Goto("evict")
  /\ UNCHANGED <<pod, past>>

\* The eviction is accepted, or finds the pod already going or gone.  A
\* replacement is owed unless the pod was expendable.
Evict ==
  LET p == job.victim
      owes == p \notin Expendable
  IN  /\ pc = "evict"
      /\ IF pod[p].at = "node"
           THEN /\ pod' = [pod EXCEPT ![p].at = "leaving", ![p].left = Grace]
                /\ past' = [past EXCEPT !.disrupted = TRUE,
                              !.inflight = IF owes THEN @ \union {Owner[p]} ELSE @,
                              !.early = @ \/ \E q \in Newer : Owner[q] = Owner[p]]
           ELSE UNCHANGED <<pod, past>>
      /\ Goto(IF owes THEN "identify" ELSE "idle")
      /\ UNCHANGED <<node, autoscaler, upsets>>

\* Two budgets now cover the pod: the API server refuses it for good.
EvictImpossible ==
  /\ pc = "evict" /\ pod[job.victim].at = "node"
  /\ pc' = "handback"
  /\ job' = [job EXCEPT !.code = "blocked"]
  /\ UNCHANGED <<node, pod, autoscaler, past, upsets>>

\* Name the controller that now owes a pod; the reading's own time is since.
Identify ==
  /\ Patch("identify", [node EXCEPT !.awaiting = AwaitingMarker(job.victim)])
  /\ pod' = [p \in Pods |-> [pod[p] EXCEPT !.fresh = p \in Newer]]
  /\ Goto("idle")
  /\ UNCHANGED past

HandOver ==
  /\ Patch("handover", [node EXCEPT !.progress = job.lag])
  /\ Goto("idle")
  /\ UNCHANGED <<pod, past>>

\* Abandon: the cordon lifts, the markers clear and the backoff appears in one
\* patch.  Variant: the cordon is forgotten.
MarkersAlone(n, until) == [NoMark(n) EXCEPT !.attempts = @ + 1, !.backoff = until]

HandedBack(n, until) ==
  [NoMark(n) EXCEPT !.unschedulable = FALSE, !.attempts = @ + 1, !.backoff = until]

HandBack ==
  LET wait == Rest[node.attempts + 1]
      until == IF wait > job.lag THEN wait - job.lag ELSE 0
  IN  /\ Patch("handback", HandedBack(node, until))
      /\ pod' = [p \in Pods |-> [pod[p] EXCEPT !.late = FALSE, !.fresh = FALSE]]
      /\ past' = NoPast
      /\ Goto("idle")

\* The evaluation ends early: a write is refused (a budget answers 429, the
\* node is gone, the API server is unreachable), the lease is lost, or the
\* process dies.  What was written stays written.
Abort ==
  /\ pc # "idle"
  /\ past' = [past EXCEPT !.lost = @ \/ pc = "identify"]
  /\ Done
  /\ UNCHANGED <<node, pod, autoscaler, upsets>>

Binpack ==
  \/ Decide \/ \E fact \in Facts : Advance(fact)
  \/ Mark \/ Cordon \/ Repair \/ Settle \/ Record \/ Commit
  \/ Evict \/ EvictImpossible \/ Identify \/ HandOver \/ HandBack
  \/ Abort

-------------------------------------------------------------------------------
(***************************************************************************)
(* The cluster around it.                                                  *)
(***************************************************************************)
Upset == upsets < MaxUpsets /\ upsets' = upsets + 1

\* A controller replaces what it lost.  It keeps as many pods as it started
\* with, and a name an eviction in flight uses is not given out again.
Wanted(o) == Cardinality({p \in Residents \union Elsewhere : Owner[p] = o})

Create(p) ==
  /\ pod[p].at = "absent" /\ p # job.victim
  /\ Cardinality({q \in Pods : Owner[q] = Owner[p] /\
                    pod[q].at \in {"unbound", "node", "other"}}) < Wanted(Owner[p])
  /\ \E cond \in {"none", "gated"} :
       pod' = [pod EXCEPT ![p] = [PodAt("unbound") EXCEPT !.cond = cond,
                                    !.late = node.marked,
                                    !.fresh = node.awaiting = Owner[p]]]
  /\ job' = [job EXCEPT !.seen = @ \ {p}]
  /\ UNCHANGED <<node, autoscaler, pc, past, upsets>>

Ungate(p) ==
  /\ pod[p].at = "unbound" /\ pod[p].cond = "gated"
  /\ pod' = [pod EXCEPT ![p].cond = "none"]
  /\ UNCHANGED <<node, autoscaler, pc, job, past, upsets>>

\* The scheduler finds no node for the pod, or binds it.
Refuse(p) ==
  /\ pod[p].at = "unbound" /\ pod[p].cond = "none"
  /\ pod' = [pod EXCEPT ![p].cond = "refused"]
  /\ UNCHANGED <<node, autoscaler, pc, job, past, upsets>>

\* Created since its controller was owed a pod, or about to be found so.
Replacement(p) == pod[p].fresh \/ (pc = "identify" /\ p \notin job.seen)

BindElsewhere(p) ==
  /\ pod[p].at = "unbound" /\ pod[p].cond # "gated"
  /\ pod' = [pod EXCEPT ![p].at = "other", ![p].cond = "none", ![p].late = FALSE]
  /\ past' = [past EXCEPT !.inflight = IF Replacement(p) THEN @ \ {Owner[p]} ELSE @]
  /\ UNCHANGED <<node, autoscaler, pc, job, upsets>>

BindHere(p) ==
  /\ pod[p].at = "unbound" /\ pod[p].cond # "gated"
  /\ node.exists /\ ~node.taint
  /\ node.unschedulable => p \in Tolerating
  /\ pod' = [pod EXCEPT ![p].at = "node", ![p].cond = "none"]
  /\ past' = [past EXCEPT !.joined = @ \/ node.marked]
  /\ UNCHANGED <<node, autoscaler, pc, job, upsets>>

\* The kubelet finishes a pod, sooner or later or never.
Finish(p) ==
  /\ pod[p].at = "leaving"
  /\ pod' = [pod EXCEPT ![p] = Absent]
  /\ past' = [past EXCEPT !.quiet = IF node.marked THEN 0 ELSE @,
                          !.uncounted = @ \/ (node.marked /\ node.remaining = NoCount)]
  /\ UNCHANGED <<node, autoscaler, pc, job, upsets>>

\* Somebody other than binpack deletes a pod on the node: the autoscaler
\* emptying a node it has tainted, a rolling workload, or anyone once.
Delete(p) ==
  /\ pod[p].at = "node"
  /\ \/ /\ node.taint \/ p \in Churning
        /\ UNCHANGED upsets
     \/ Upset
  /\ pod' = [pod EXCEPT ![p].at = "leaving", ![p].left = Grace]
  /\ UNCHANGED <<node, autoscaler, pc, job, past>>

DeleteElsewhere(p) ==
  /\ pod[p].at = "other" /\ Upset
  /\ pod' = [pod EXCEPT ![p] = Absent]
  /\ UNCHANGED <<node, autoscaler, pc, job, past>>

\* The autoscaler commits to deleting the node, deletes it, or rolls back.
Taint ==
  /\ node.exists /\ ~node.taint /\ autoscaler.live /\ ~autoscaler.scaleUp
  /\ node' = [node EXCEPT !.taint = TRUE]
  /\ UNCHANGED <<pod, autoscaler, pc, job, past, upsets>>

RemoveNode ==
  /\ node.exists /\ node.taint /\ autoscaler.live
  /\ node' = [NoMark(node) EXCEPT !.exists = FALSE, !.unschedulable = FALSE,
                                  !.taint = FALSE]
  /\ pod' = [p \in Pods |-> IF p \in PodsToMove THEN Absent
                              ELSE [pod[p] EXCEPT !.late = FALSE, !.fresh = FALSE]]
  /\ past' = NoPast
  /\ UNCHANGED <<autoscaler, pc, job, upsets>>

Untaint ==
  /\ node.taint /\ autoscaler.live /\ Upset
  /\ node' = [node EXCEPT !.taint = FALSE]
  /\ UNCHANGED <<pod, autoscaler, pc, job, past>>

\* Its status stops being refreshed; a new process restamps the transition
\* without the cluster having grown, and clears its taints.
AutoscalerDies ==
  /\ autoscaler.live /\ Upset
  /\ autoscaler' = [autoscaler EXCEPT !.live = FALSE]
  /\ UNCHANGED <<node, pod, pc, job, past>>

AutoscalerRestarts ==
  /\ ~autoscaler.live
  /\ autoscaler' = [live |-> TRUE, scaleUp |-> FALSE, growth |-> 0, trusted |-> FALSE]
  /\ node' = [node EXCEPT !.taint = FALSE]
  /\ UNCHANGED <<pod, pc, job, past, upsets>>

ScaleUpBegins ==
  /\ autoscaler.live /\ ~autoscaler.scaleUp /\ Upset
  /\ autoscaler' = [autoscaler EXCEPT !.scaleUp = TRUE, !.growth = 0, !.trusted = TRUE]
  /\ UNCHANGED <<node, pod, pc, job, past>>

ScaleUpEnds ==
  /\ autoscaler.live /\ autoscaler.scaleUp
  /\ autoscaler' = [autoscaler EXCEPT !.scaleUp = FALSE]
  /\ UNCHANGED <<node, pod, pc, job, past, upsets>>

\* An operator answers an unexpected SchedulingDisabled.
Uncordon ==
  /\ node.unschedulable /\ Upset
  /\ node' = [node EXCEPT !.unschedulable = FALSE]
  /\ UNCHANGED <<pod, autoscaler, pc, job, past>>

\* Time passes.  An evaluation in flight bounds it, being a few API calls.
Tick ==
  /\ pc # "idle" => job.lag < MaxLag
  /\ job' = [job EXCEPT !.lag = IF pc = "idle" THEN 0 ELSE @ + 1]
  /\ node' = [node EXCEPT !.progress = IF node.marked THEN Older(@) ELSE @,
                          !.backoff = IF @ > 0 THEN @ - 1 ELSE 0]
  /\ pod' = [p \in Pods |-> [pod[p] EXCEPT !.left =
               IF pod[p].at = "leaving" /\ ~Stuck(@) THEN @ - 1 ELSE @]]
  /\ autoscaler' = [autoscaler EXCEPT !.growth = Older(@)]
  /\ past' = [past EXCEPT !.quiet = Older(@)]
  /\ UNCHANGED <<pc, upsets>>

Cluster ==
  \/ \E p \in Pods : \/ Create(p) \/ Ungate(p) \/ Refuse(p) \/ BindElsewhere(p)
                     \/ BindHere(p) \/ Finish(p) \/ Delete(p)
                     \/ DeleteElsewhere(p)
  \/ Taint \/ RemoveNode \/ Untaint
  \/ AutoscalerDies \/ AutoscalerRestarts \/ ScaleUpBegins \/ ScaleUpEnds
  \/ Uncordon \/ Tick

Next == Binpack \/ Cluster

SafetySpec == Init /\ [][Next]_vars

(***************************************************************************)
(* The controller evaluates once an interval for as long as it runs, and   *)
(* an evaluation ends.  A fact may hold against the node for ever, so only *)
(* the readings that find it are promised.  A node patch may fail any      *)
(* number of times but not for ever; an eviction may be refused for ever,  *)
(* and a pod may never finish.  A live autoscaler deletes what it tainted  *)
(* and ends its scale-ups, and time passes.                                *)
(***************************************************************************)
Fairness ==
  /\ \E held \in Facts : WF_vars(Advance(IF Possible(held) THEN held ELSE "none"))
  /\ WF_vars(pc # "idle" /\ Binpack)
  /\ SF_vars(Repair) /\ SF_vars(Settle) /\ SF_vars(Record) /\ SF_vars(Commit)
  /\ SF_vars(HandBack)
  /\ WF_vars(RemoveNode) /\ WF_vars(ScaleUpEnds)
  /\ SF_vars(Tick)

Spec == SafetySpec /\ Fairness

-------------------------------------------------------------------------------
(***************************************************************************)
(* What a drain must never get wrong.                                      *)
(***************************************************************************)

\* A drain that has evicted a pod is known to have done so by its marker alone,
\* whatever write was lost or refused and whenever the process died: commit
\* writes it before the eviction and nothing but the end of the drain clears it.
DisruptionIsCommitted == node.exists /\ past.disrupted => node.awaiting # "none"

\* The cordon binpack put on a node never outlives the marker by which the next
\* evaluation finds it: Begin marks first and Abandon clears both in one patch.
CordonIsMarked == node.unschedulable => node.marked

\* A drain that has disrupted a workload is never ended by a preference about
\* starting drains (ADR-0009: the cooldowns and the pod cap).
PreferencesSpareDisruptedDrains ==
  pc = "handback" /\ job.code \in Preferences => ~past.disrupted

\* The pod the API server is about to evict.
Evicts == Evict /\ pod[job.victim].at = "node"

\* Sequential eviction: no pod is evicted while the replacement of an earlier
\* one is still unbound.  Two exceptions: an identity patch lost after its
\* eviction, which the code accepts, and a controller that created a pod between
\* the reading and the eviction, which the marker's time cannot tell from the
\* replacement.
OneReplacementInFlight ==
  [][Evicts => past.inflight = {} \/ past.lost \/ past.early]_vars

\* What the comments of awaiting and replacementFor say, without the second.
NeverTwoInFlight == [][Evicts => past.inflight = {} \/ past.lost]_vars

\* No pod that came to the node after the drain started is ever evicted, so a
\* workload that tolerates the cordon is not churned.
LateArrivalsStay == [][Evicts => ~pod[job.victim].late]_vars

\* The drain is given up for a reason it did not have a step ago.
GivesUp(code) == job.code # code /\ job'.code = code

\* Every drain ends, the node removed or handed back: each branch of Advance that
\* keeps the cordon is bounded by the assessment, and the hand-over by the
\* autoscaler.
DrainEnds == node.marked ~> ~node.marked

\* A pod leaving the node is progress: a drain is abandoned for having been quiet
\* only when nothing has left for the whole of the timeout it is judged by.
\* Writes lost in between, restarts and the other waits do not move that clock.
\* Two things hide a departure from the count: a pod that joined the node, and
\* there being no count yet.
ClocksAreReal ==
  [][/\ GivesUp("stalled") => past.quiet > StallTimeout \/ past.joined \/ past.uncounted
     /\ GivesUp("not-removed") =>
          past.quiet > RemovalTimeout \/ past.joined \/ past.uncounted]_vars

\* What the comment in Assess says of the second clause, without the last
\* exception: a node seen empty for the first time gets the whole window.
EmptyNodesGetTheRemovalWindow ==
  [][GivesUp("not-removed") => past.quiet > RemovalTimeout \/ past.joined]_vars

(***************************************************************************)
(* The promise kept: the phase of a node is read off its markers.          *)
(***************************************************************************)
Phase ==
  IF ~node.exists THEN "gone"
  ELSE IF ~node.marked THEN "free"
  ELSE IF CommittedDrain THEN "committed"
  ELSE "claimed"

Lifecycle == INSTANCE DrainLifecycle
  WITH phase <- Phase, cordoned <- node.unschedulable,
       disrupted <- past.disrupted, inflight <- past.inflight,
       excused <- past.lost \/ past.early

\* Begin, Advance and Abandon, with every write that may fail and every end an
\* evaluation may come to, implement DrainLifecycle: no pod is evicted from a node
\* that is not claimed and committed, the cordon is only ever held under a claim,
\* and a drain lets go of marker, commitment and cordon in one step.
KeepsThePromise == Lifecycle!Spec
===============================================================================
