# binpack in TLA+

binpack is a Kubernetes controller that empties under-used nodes so that the
cluster-autoscaler removes them. It decides from one reading of the cluster, marks and
cordons one node, evicts that node's pods one at a time, and hands the node back when
the drain cannot finish. Everything it must remember lives in the node's own labels and
annotations, because the process may be replaced between any two API calls.

This directory models that protocol and the decisions it rests on, checks them on small
instances with TLC, and proves the central safety properties for every instance with
TLAPS. Section 1 is an inventory of the system, 2 the modules and how they correspond to
the code, 3 the properties and runs, 4 the proofs, 5 what is left out, 6 what the checks
found, 7 what is planned.

## 1. Inventory of the system

Sizes are lines of Go without tests. "Correct when" is what the properties are for.

| Component | Source | State it keeps | Operations | Correct when |
|---|---|---|---|---|
| Drain executor | `internal/executor/drain.go`, `executor.go` (1257) | none of its own: the node's `draining` label, `drain-started`, `drain-progress`, `drain-pods-remaining`, `drain-awaiting`, `drain-attempts`, `backoff-until`, and its cordon | `Begin`, `Advance` (twelve ways out), `Abandon`, and the patches and the eviction they send | a cordon never outlives its marker; a disrupted drain says so; one replacement in flight; late arrivals stay; every drain ends |
| Drain assessment | `internal/drain/drain.go` (604) | none: reads the markers and the pods | `Assess`, `PodsToMove`, `StateFor`, `PolicyFor` | only quiet drains are given up, and every quiet drain is |
| Backoff | `internal/drain/backoff.go` (79) | `drain-attempts`, `backoff-until` | `Backoff` | the wait doubles up to its cap and never wraps |
| Decision and revalidation | `internal/engine/decide.go` (1398) | none: a function of a snapshot | `Decide`, `Revalidate`, `Marked`, `cooling`, `eligibility` | a committed drain is asked about soundness and not about preference; one drain at a time |
| Pod classes | `internal/engine/classify.go` (144) | none | `Classify`, `NodeBound`, `Occupies` | the simulation and the drain agree which pods need a destination |
| Packing simulation | `internal/engine/simulate.go` (1279) | none | `Simulate`, `place`, `checkHeadroom`, `maximalShapes` | a feasible answer has a valid assignment; the frontier misses no shape |
| Evictability | `internal/engine/evict.go` (555) | none | `CheckEvictable`, `checkAllowances` | no drain starts that a budget must refuse; what lifts on its own pauses and does not end a drain |
| Node pools | `internal/engine/pools.go` (849) | none | `ResolvePools`, `derive`, `match`, `matching` | an ambiguous mapping is refused |
| Scheduler predicates | `internal/fit` (856) | none | `CanFit`, `UnsupportedPod`, `UnsupportedDestination` | never accepts what kube-scheduler would refuse |
| Controller loop | `internal/controller` (1370) | `active`, `lastDrain`, `earliestProbe`, `watchedScaleUp`, `consecutiveFailures`; the lease | `Start`, `attempt`, `drainInProgress`, `advance`, `frozen`, `failed`, `rememberAutoscaler` | resume before deciding; a completion counted once; exits after five failures in a row and not on a shutdown |
| Cluster reading | `internal/collect` (573) | watch caches | `Snapshot`, `ParseAutoscalerStatus` | one reading is used for one evaluation |
| Configuration | `api/v1alpha1` (942) | none | `Load`, `SetDefaults`, `Validate`, `PolicyFor` | what is validated is what is applied |
| Diagnoses, command line, metrics | `engine/diagnose.go`, `internal/cli`, `internal/metrics` | counters | reports | they describe and never act |

How they interact. Once an interval (60 s by default) `controller.attempt` takes a
`Snapshot`; if a node is marked it calls `executor.Advance`, which calls
`engine.Revalidate` (eligibility, simulation, budgets) and `drain.Assess` on the same
snapshot and then writes to the API server; otherwise `engine.Decide` chooses a node and
`executor.Begin` marks and cordons it. Nothing is shared in memory between two drains:
the node's metadata is the only channel, also between two processes. Around them the
workload controllers, the scheduler, the kubelet, the cluster-autoscaler and operators
act at any time.

What is hard about it:

* an evaluation acts on a reading that is already old, through several writes any of
  which may be refused, with the process able to die between two of them;
* "nothing has happened" must be told from "it happened while nobody looked", across
  restarts, with a count and a timestamp as the only memory;
* every way of staying in a drain keeps a cordon on a node, so each needs a bound, and
  one of them (the hand-over) waits on another program;
* binpack does not place pods: a replacement may land elsewhere, come back, be refused,
  be gated, or be confused with another pod of its controller;
* the node whose drain just failed is the best candidate for the next one.

`PROJECT.json` lists these as hazards, each at the line where it bites.

## 2. Modules

| Module | Part of the system | Checked by |
|---|---|---|
| `DrainRules` | `internal/drain` as operators without state: `Assess`, `Stuck`, `ScaleDownPaused` | through `Drain` |
| `Drain` | one node's drain: `Begin`, `Advance`, `Abandon` against a moving cluster | `MCDrain`; `Drain_proofs` |
| `DrainLifecycle` | the abstract promise of one drain, which `Drain` implements | `MCDrain`; `Drain_proofs` |
| `Backoff` | the backoff loop with the width of a duration | `MCTimes`; `Times_proofs` |
| `Controller` | the evaluation loop over several nodes, its replicas, their lease and memory | `MCController`; `Controller_proofs` |
| `AutoscalerMemory` | what is remembered of the autoscaler's status and believed of it | `MCTimes`; `Times_proofs` |
| `Evictability` | the prediction of which evictions the API server accepts, and the API server | `MCEvictability`; `Evictability_proofs` |
| `PoolMapping` | the join of nodes to pools and the overrides | `MCPools`; `Pools_proofs` |
| `PoolMatching`, `Matchings` | the search for the only matching; what it is to find | `MCPools`; `Pools_proofs` |
| `Packing` | the packing of replacements, the reserve, and the scheduler predicates | `MCPacking`; `Packing_proofs` |
| `Selection` | `Decide` and `Revalidate`: which rows are asked when | itself; `Selection_proofs` |
| `Reading` | a reading made of lists of different ages, and pods that keep their names | `MCReading`; `Reading_proofs` |

How they compose. `Drain` follows one drain through each of its writes and takes as a
*fact* what the rest of the cluster answers to `Revalidate`. The facts are the subject of
`Selection` (the rows and their order), and the rows are computed by `Packing` (is it
feasible), `Evictability` (the blockers), `PoolMapping` (is the node managed, which policy
governs it) and `AutoscalerMemory` (is a scale-up over). `Controller` is the level above:
a step of a drain is there one of its possible writes, and the question is which node it is
a step of. `Drain` implements `DrainLifecycle` by the refinement mapping `Lifecycle` of
`Drain`. `PoolMapping` takes what the matching finds from its
definition (`Perfect`, of `Matchings`), and `PoolMatching` is the search, whose answer is that
definition's. `MCPools` runs the two beside one another.
`Reading` relaxes what `Drain` fixes: that a reading is atomic and that pods have identity.

### Drain: state and code

`node` is the node object (cordon, `ToBeDeleted` taint, markers). `pod` gives each pod
slot a place (absent, unbound, on the node, leaving it, on another node), what the
scheduler says of it, and two facts that timestamps decide in the code: `late` (created
after `drain-started`) and `fresh` (not created before the time in `drain-awaiting`).
`autoscaler` is its published status. `pc` is the next write of the evaluation under way
and `job` what that evaluation read and decided. `past` is history for the properties;
no action of binpack reads it.

| Action | Code |
|---|---|
| `Decide` | `engine.Decide` choosing this node; the writes of `Begin` follow |
| `Advance(fact)` | `executor.Advance` up to its first write: the hand-over test, `Revalidate`, `Assess`, the replacement, the choice of the pod. `fact` is what the rest of the cluster holds against the node |
| `Mark`, `Cordon` | the two patches of `Begin` |
| `Settle`, `Repair`, `Record`, `Commit` | the patches of the same names' branches |
| `Evict`, `EvictImpossible` | the eviction subresource accepting (or finding the pod gone), or refusing for good because of two budgets |
| `Identify` | the patch that names the controller owing a replacement |
| `HandOver`, `HandBack` | the patch of the hand-over branch; `Abandon`'s single patch |
| `Abort` | any error return: a refused patch, a 429, a lost lease, a shutdown, a crash |

Writes are separate steps, so everything in the cluster may happen between them. A patch
sets the keys the code's patch names and leaves the others as they are *then*, not as
they were read. `job.lag` is the age of the reading: a stamp written late is already that
old.

Times are kept as distances to the present (an age, or a time left), because the code
only ever subtracts or compares them with `now`. Ages saturate at `AgeCap`, one past the
largest bound any of them is compared with.

The environment: `Create`, `Ungate`, `Refuse`, `BindElsewhere`, `BindHere`, `Finish`,
`Delete`, `DeleteElsewhere` for pods; `Taint`, `RemoveNode`, `Untaint`,
`AutoscalerDies`, `AutoscalerRestarts`, `ScaleUpBegins`, `ScaleUpEnds` for the
autoscaler; `Uncordon` for an operator; `Tick`. A controller keeps as many pods as it
started with. `Upset` marks the steps that are disturbances; `MaxUpsets` bounds them.

### What Drain abstracts

* `Revalidate` keeps the order of the reasons and which of them a committed drain is
  spared. What the pools, the simulation and the budgets answer is `fact`, one at a time
  and free to change at every evaluation (the code reports the first that applies).
  Growth under way and the cooldown after it share one code.
* All pods have one grace period. DaemonSet, mirror and completed pods, which
  `PodsToMove` filters out, do not exist.
* Every pod has a controller (a pod without one makes the node infeasible).
* Creation times have a resolution of one second in Kubernetes. The model orders a
  creation and a reading, or a creation and a mark, exactly; two of them within the same
  second count in the code as "not after" and "not before".
* The only unreadable annotation is a missing count. Annotations edited by hand are not
  modelled.
* A reading is atomic, although it is several lists in the code, and pods have identity:
  a slot is not reused while an eviction holds it. `Reading` drops both.
* `Decide` starts a drain only when every check passes; how it ranks several nodes does
  not matter to one, and is in `Controller`.

### Backoff

One step per iteration of the loop, for every pair of bounds the validation admits
(`initial > 0`, `max >= initial`), with arithmetic that wraps at `MaxDuration`.

### DrainLifecycle

The promise without the means: a node is claimed before it is cordoned, committed to
before anything is displaced, one displaced controller waits at a time, and claim,
commitment and cordon end in one step. `Drain` maps the node's markers to `phase`, its own
cordon to `cordoned` and its history to the other three; `excused` stands for the two
events `OneReplacementInFlight` names as exceptions. Ticks, pod moves and records map to
stuttering steps.

### Controller

`node` is the cluster, `cache[p]` what process p's watch cache holds of it (the reading,
when `Lagging`), `leader` the lease, `proc[p]` the process: its ticker (`due`), `active`,
what is left of the cooldown (`lastDrain` as a distance), `consecutiveFailures`, and the
writes its evaluation still has to make. `resolves` is whether `ResolvePools` accepts the
configuration. Everything in `proc` is lost by a restart.

| Action | Code |
|---|---|
| `ReadFails` | `Snapshot` returning an error, and `failed` |
| `Resume` | `drainInProgress` and `advance`: a node still there gets one step of its drain, one that has gone is a completion |
| `Freeze` | `frozen`: dry run with a marker on |
| `RefuseConfig` | `ResolvePools` failing, after the resume: a drain half way through is carried on first |
| `Decide` | `engine.Decide` and `Begin`'s two writes |
| `Lands`, `Bounces`, `AnswerLost` | a write applied, refused, applied without an answer |
| `Acquire`, `Pause`, `Notice` | the lease: taken, lost by a suspended process, and noticed |
| `Restart` | a crash, a rollout, dry run switched on or off |

`StepsOf` lets a step of a drain end in every way `Advance` can that matters here: nothing,
a repair, an eviction, the hand-back, and the hand-back for certain once nothing has moved
for `Patience` intervals. Rank and name order are separate, since `Decide` goes by one and
`Marked` by the other.

### AutoscalerMemory

`doc` is the status document as published, `mem` the controller's three fields
(`earliestProbe`, `watchedScaleUp` and whether a scale-up was under way), `verdict` what
`trustScaleUp` said of the present document. `Evaluate` is `rememberAutoscaler` followed by
`trustScaleUp` over what `collect` reads, where a missing document is one with zero times.
The autoscaler scans, restarts (its next scan stamps a phantom) and its document vanishes;
binpack restarts and forgets.

### Evictability

The prediction is `CheckEvictable`: `CheckPod` per pod and `checkAllowances` over the
aggregate `Demand` on each budget, with `Short` durable and `Stale` transient. The API
server (external, marked so in the map) is `Refused` and `Leaves`: one pod at a time,
charging a status that the disruption controller recounts (`Sync`) whenever it likes.
`Read` is one evaluation's prediction, `Evict` its eviction some time later. Around them
somebody drains with kubectl, containers turn ready or break, budgets are edited, young
system pods age and replacements become healthy elsewhere. `history` says what changed by
itself since the approval and since the reading.

### PoolMatching and PoolMapping

`PoolMatching` is `match` from its edges on, a turn of a loop a step. `asked` is the stack of
`assign`'s calls: `Take` is a call that finds a free group, whereupon every call returns true
and each value moves (`Moved`), `Ask` a call of the holder, `GiveUp` a call that returns false.
`Withhold` begins the next search without the next pair of the first matching (`InForce` is
`without`); `NoMatching`, `AnotherMatching` and `OnlyMatching` are `match`'s three returns.

In `PoolMapping` `ResolveMapping` has the four outcomes of
`resolveMapping` (unknown, as configured, stated by the operator, derived), `Derive` and
`Resolves` the derivation by label values that are parts of identifiers, with the window
a pool changing size is given (`Plausible`), `Accepted` the three refusals of
`ResolvePools`, and `PolicyForNode` the precedence of the four names an override may use.
Around them pools scale, the status counts later than the nodes register, a label is
rolled out node by node (unless it is the provider's, `rollout`), and the status goes silent.
`cluster` is what the labels and the configuration say; it never changes.

### Packing

Three resources. `Difficulty` and `Place` are `difficultyOf` and `place` (the fullest node
that takes the pod); `Precedes` is the comparison Simulate sorts by, tie break included, and
`First` the pod such a sort leaves in front, for any comparison and any listing; `CanFit` is the order of
`fit.CanFit` with the unsupported features as one trait; `Dominates`, `MaximalShapes` and
`Headroom` are the frontier and `checkHeadroom`. A pod holds what the kubelet handed out
(`held`) and its replacement asks for its template (`asked`); whether the two could be put
together is the trait `template`. Around them a drain runs: simulated again before each
eviction, without the reserve once something was evicted, with a scheduler that binds each
replacement to any node that takes it (or, when `Obedient`, to the planned one). Pods are
listed in any of `Listings`, since a cache lists in the order of a Go map.

### Selection

`Rows(resuming)` are the rows of `eligibility` in their order, `Drainable` is `drainable`,
`Decide` and `Revalidate` the two questions. Each fact a row looks at is a field of
`facts` and changes by itself (`Change`); `Begin`, `Evict`, `Repair`, `Abandon`, `TimesOut`
and `Removed` are what the two answers lead to, the drain being otherwise as in `Drain`.

### Reading

One controller's replicas keep their names. `cache` holds the list of pods and the node's
marker, each as old as it likes where `PodLag`, `NodeLag` allow; `Read` is the part of
`Advance` about replacements (`replacementFor`, `residentSince`), and `Evict` names a pod
and disrupts whichever has that name by then, as `executor.evict` sends no UID.

## 3. Properties and runs

| Property | What it says | Run |
|---|---|---|
| `Drain!TypeOK`, `Controller!TypeOK`, `Evictability!TypeOK`, `Reading!TypeOK` | types of every variable; in `Evictability`, no allowance is overdrawn | drain, loop, evictability, reading |
| `DisruptionIsCommitted` | a drain that evicted a pod carries `drain-awaiting` | drain |
| `CordonIsMarked` | binpack's cordon is never without its marker | drain |
| `PreferencesSpareDisruptedDrains` | no disrupted drain is ended by a cooldown or the pod cap (ADR-0009, ADR-0010) | drain |
| `OneReplacementInFlight` | no eviction while an earlier one's replacement is unbound; excepted are an identity patch lost after its eviction (which the code's comment accepts) and a controller that created a pod between the reading and the eviction (section 6, early) | drain |
| `ClocksAreReal` | a drain is given up as `stalled` or `not-removed` only if no pod left the node for the whole timeout; excepted are nodes a pod joined and nodes without a count yet | drain |
| `KeepsThePromise` | `Drain` implements `DrainLifecycle` | drain |
| `LateArrivalsStay` | no pod created after the mark is ever evicted | ends |
| `DrainEnds` | every marked node is eventually removed or handed back | ends |
| `WaitWithinBounds`, `ReturnsDoubled` | the backoff stays between its bounds; it is the doubled one | times |
| `OneDrain` | at most one node is marked, over failures, lost answers, restarts and changes of leader | loop |
| `CordonsAreMarked` | no node is left cordoned and unmarked by several processes either | loop |
| `CooldownHolds` | no node is marked within the cooldown of a drain the living leader finished | loop |
| `CompletionsAreReal` | a completion is counted only of a node removed with its marker on, or whose marker vanished where the process could not see it | loop |
| `DrainsResolve` | every marked node is removed or handed back, the second of two as well, one a deposed leader marked, and with the configuration broken, unless from some time on whoever leads is in dry run | resolve, deposed |
| `OthersGetTheirTurn` | a node whose drain keeps failing does not keep the others from theirs | resolve |
| `FailuresEnd` | a row of failures ends, by a success or by the process's exit | resolve |
| `PhantomsAreSeenThrough` | the stamp a restarted autoscaler leaves is not taken for growth by a binpack that was watching | times |
| `WatchedEpisodesCount` | the end of a scale-up binpack saw is trusted, however long the document was missing | times |
| `ApprovedDrainsFinish` | an approved drain is never refused an eviction nor handed back over a budget, unless something else changed | evictability |
| `RefusalsAreRaces` | what the API server refuses answers a change made after the reading | evictability |
| `DeclinedNodesStayOccupied` | a node declined over its budgets could not be emptied by somebody who just tries | evictability |
| `PausesEnd` | a pause ends: no blocker that needs somebody to act is called transient | evictability |
| `ProviderKeysAreRight` | where the provider writes a key of its own, no node is placed in another pool | pools |
| `OverridesGovernTheirPools` | an accepted override governs the nodes of its pool and no others, by each of the four names and under each way the join came about | pools |
| `PlacesAllItCan`, `AmbiguityIsFound` | the search gives up on a value only when it and those before it have no matching, and answers that a join is the only one exactly when it is, against the set of all matchings | pools |
| `NobodyIsStranded` | an evicted pod's replacement has a node that takes it, wherever the scheduler put those before | packing |
| `RoomForEveryShape` | what is approved leaves room for a pod of every shape that runs, not only of the maximal ones | packing |
| `TheReadingDecides` | the order in which a cache lists the pods decides nothing | packing |
| `DecisionsSurviveTheirStart` | a node that was chosen passes the revalidation that follows, its own marker and cordon notwithstanding | selection |
| `WorkIsNotUndoneByTaste` | once a pod has left, a change of preference alone ends no drain | selection |
| `HandoversEnd` | no drain waits for ever on an autoscaler that stopped answering or gave the pool up | selection |
| `OneAway` | one replacement in flight, from a list of pods of any age | reading |
| `NamesakesStay` | an eviction disrupts the pod that was decided about, not a later one of its name | reading |

| Run | Instance | Why this instance |
|---|---|---|
| drain | two pods of one controller, both on the node, the facts of `Drain`, lag 1, one disturbance, timeouts of 1 | the smallest with a second eviction to be sequential about and a clock to be restarted by a departure half way |
| ends | one tolerating pod, facts none and transient, one disturbance, fairness | liveness needs the whole graph; a pod that tolerates the cordon comes back, which is the hardest way to end |
| loop | two replicas, two nodes, one disturbance, lagging caches, faults, suspensions, cooldown 2 | one node to drain and one to be marked too early; one process to be deposed and one to take over |
| resolve | one process, two nodes, one disturbance, faults, no lag, fairness | a row of failures, and a second drain to be picked up after the first |
| deposed | two replicas, two nodes, one disturbance, suspensions, neither faults nor lag, fairness | a mark that was due when its process was suspended lands after the next leader handed that node back and marked the other: two marked nodes, one of them by a late write |
| times | seven scans; or durations of five bits and up to eight attempts | a restart, an episode and a gap in any order, with a scan between each two; every pair of bounds of that width, half and twice of each included |
| evictability | two pods, two budgets that may overlap, three policies, one edit | the aggregate of two pods on one allowance, and both budgets on one pod |
| pools | two pools, three nodes, five clusters; all graphs of three values and three groups | a pool of two beside a pool of one, with overrides by each name; and the smallest graphs in which augmenting displaces a placed value |
| packing | four pods, four nodes (one tainted and being removed), three families of pods | three replacements to pack, in which order matters, and one pod that stays |
| selection | the facts that `Selection` has, except that a protected pod stays one, and two pods to move | each pair of rows in both orders |
| reading | three replicas, two of them on the node, four evaluations, one deletion | a name used again while its namesake elsewhere could pass for it |
| unseeded | one pod, `MCDrain` | finds a violation (section 6) |

Bounds. `MaxAttempts = 1`: a second drain starts from a node that differs only in
`drain-attempts`; the theorems hold for any number. `MaxLag = 1` (0 in ends): one unit is
enough for a stamp to be older than what happened after it. `MaxUpsets`, `MaxEdits` are 1:
each disturbance is tried at each step of a drain; the theorems have no such bound.
Timeouts of 1 or 2 units let a bound be missed, met and passed. `MaxFailures` is 2, so that
a failure is survived and a row of them is not. In `Controller` a node's `quiet` saturates
one past `Patience`; `Patience` is 0 in loop, where giving up early adds behaviours.
`MaxTime` in `AutoscalerMemory` and `Reading` ends the run rather than the system.

Initial states. Every combination of pods and budgets would be too many, so `MCSpec` starts
`Evictability` from two families: one budget of any kind over plain pods (`OneBudget`), and
two budgets of the usual kind over pods of mixed kinds (`TwoBudgets`). `MCPacking` starts
from pods of every size in memory, of every size in two resources, and of every kind;
`MCPools` from a running cluster or from the search of a graph, and `MCTimes` from an
autoscaler to remember or from a wait to compute, which run beside one another in one state
space. The modules' own `Spec` has no such restriction.

Clusters. The five of pools are chosen for the overrides. `Overridden` uses the value a
derived join reads, and binds while no node is labelled. `Readable` uses the readable name,
and binds under the derived join, under equality with the label on some nodes or on all, and
while the status is silent. `Stating` uses a value of the operator's table (`configuration`,
half rolled out as well) beside an identifier. In `Provided` the configured label is the
provider's own with values no identifier contains, the join is derived by another key, and
the override is found by the third of the four lookups. `Crossed` has no override and is for
`ProviderKeysAreRight`. Leaving out any one of the four lookups violates
`OverridesGovernTheirPools`. All five are `WellNamed`. What does not occur is a derived join
with the label half rolled out: in step, a node with a true label would have settled the join.

Why two instances for `DrainsResolve`. In resolve there is one process, and as it reads what
is there it never marks a node while another is marked; deposed is where two are. The
suspended process may stay suspended over any number of ticks. There the variant of `Marked` that takes
two markers for a state to refuse (`TheOnlyOne`) violates the property, and in resolve it does
not. What a late *cordon* or repair leaves is a cordon without a marker, of which
`DrainsResolve` says nothing (section 6, pauses).

Constraint. The run loop explores `InStep` states only, as its properties say nothing of the
others: past a divergence (a write after the lease was lost, an evaluation of marks that
are not the cluster's) each of them may fail, and section 6 shows how. `InStep` never becomes
true again, so nothing that returns to it is cut off.

Symmetry. Pods in drain, replicas in loop, the two pods on the node in reading: nothing
tells them apart in these instances. It is used in runs without liveness properties only.

Deadlock is checked in drain, ends, unseeded, loop, resolve and deposed (`Tick` keeps an idle
system moving). It is off where the modelled system really stops: the backoff loop
returns (times), every pod has left the node (evictability), a search is over (pools), a drain is
done or abandoned (packing), a node is gone (selection), the evaluations are used up
(reading).

Each property of a passing run is shown to bite by a mutant: a variant of one definition,
written before it in the module, that a plausible change of the code would make
(`PROJECT.json`, "mutants"). None of the variants is used by a specification.

### Fairness

`DrainEnds`:

* `WF(Advance)` and `WF(Binpack)` while a write is due: the loop evaluates once an
  interval for as long as the process runs, a Deployment restarts it, and an evaluation
  is a finite sequence of calls with deadlines. Which fact the evaluations find is not
  promised: one of them (a transient blocker, for instance) may hold for ever, so the
  fairness is of the readings that find it. An evaluation that decides to do nothing is a
  stuttering step, and fairness of "some reading" would have made another fact true.
* `SF` of the patches `Repair`, `Settle`, `Record`, `Commit`, `HandBack`: the API server
  may refuse a node patch any number of times and not for ever. Evictions get no such
  promise (a budget may refuse for ever), nor does a pod finishing.
* `WF(RemoveNode)`, `WF(ScaleUpEnds)`: a live autoscaler finishes what it began. Nothing
  says it stays alive or comes back.
* `SF(Tick)`: time passes, also between two writes.

`Controller`: `SF(Resume)` and `SF(Decide)`, `SF(Lands)`: reads and writes may fail any number of
times, each disabling the other way to go on, and not for ever; `WF(Freeze)`,
`WF(RefuseConfig)`, `WF(Bounces)`, `WF(Acquire)`, `WF(Notice)`, which nothing disables for
long: the ticker fires, a refused call returns, the lease finds a holder, a deposed process
ends; `SF(Sync)`, `SF(Tick)`. Nothing says that the autoscaler removes anything or that a
node empties.

`Evictability`: `WF(Binpack)`, and `WF(Sync(b))` as the disruption controller answers every
change of a budget. `Selection`: `WF(Step)`, the loop evaluating.

### Conditions in the properties

`InStep` (of `Controller`) holds until a process writes after its lease had gone or goes by
marks that are not the cluster's. `OthersGetTheirTurn` excepts the latter, failures and
disturbances: a backoff may then be over by the time the other node is looked at.
`past.unsure` (of `Reading`) holds from the loss of an identity patch, or from somebody
else's deletion of a pod, until a victim is chosen from an up-to-date list with every replica
bound. `DeclinedNodesStayOccupied` speaks of unedited budgets that ask for something and of
a cluster in which no replacement has become healthy yet, since either raises the allowance.
`InStep` (of `PoolMapping`) is that the pools with a node are those with a ready one, in
sizes the growth window admits. `ProviderKey` asks more of a key than that its values are
parts of the right identifiers: were all of them parts of all identifiers, the key would not
resolve, and another that does would decide alone. Where a condition stands for a divergence rather than for a
choice the code states, a cfg of section 6 shows what happens without it.

## 4. What is proved

All theorems hold for every value of the constants under the modules' named assumptions
(`DurationsAssumption`, `DrainAssumption`, `BackoffAssumption`, `ControllerAssumption`,
`MaxTimeAssumption`, `EvictabilityAssumption`, `PoolAssumption`, `MatchingAssumption`,
`PackingAssumption`, `SelectionAssumption`, `ReadingAssumption`), which the runs evaluate: any finite set of
pods, nodes, processes or budgets, any timeouts, lag, grace and numbers of attempts,
failures, edits and disturbances.

`Drain_proofs`. The invariant `Inv` adds to the three state properties what makes them
inductive: a marked node exists and is within its attempts (`MarkedIsThere`); a write
other than `Begin`'s first is only ever due on a marked node (`WritesToMarked`); an
evaluation about to evict has its commitment on the node and a pod as victim
(`EvictsCommitted`); a preference ends a drain only before it committed
(`PreferencesAreEarly`). The last two carry the argument: the reading is old, but what it
concluded about *commitment* cannot be overtaken, because only binpack's own writes
change it. From it follow `TypeCorrect`, `DisruptionCommitted`, `CordonMarked`,
`PreferencesSpare`.

Sequential eviction. `OneReplacementInFlight` relates a step to the whole history,
so the invariant (`SequentialInv`) is about what is in flight: with no identity patch lost
and no pod created early, it is at most one controller, which the marker names or is about to
name, and no pod that would pass for its replacement is bound (`InFlightIsNamed`). Hence an
evaluation that finds the replacement landed or nothing owed has nothing in flight, and
that stays so until its last write (`AimsAtOne`): the cluster can only end a flight, never
start one. The victim of an evaluation under way was a resident when it was chosen, and
`late` changes for a pod only when its slot is reused, which it is not while an eviction
holds it (`AimsAtResidents`). From these follow `SequentialEviction` and
`LateArrivalsSpared`.

Refinement. `PromiseKept`: every step of `Drain` is a step of `DrainLifecycle` or a
stutter. It rests on the two invariants above and on one more (`FreshInv`), that a drain
starts on an unmarked node and an unmarked node carries no commitment; each group of actions
is mapped in a lemma of its own (`MarkClaims`, `CordonsHold`, `SettlingCommits`,
`EvictDisplaces`, `HandBackEnds`, `AbortExcuses`, `RemovalRemoves`).

The clocks. `ClocksReal`: that a drain is given up only after a quiet timeout is not said of
any stamp but of what really left, so the invariant (`Clocks`) relates the two. While the
count on the node is no higher than what is left (it falls as pods leave, `CountsFall`), the
stamp is no older than the last departure (`StampsHold`); where a pod left since the stamp,
the count shows it (`Shows`), and the evaluation that would give up sees progress and writes
a stamp instead. An evaluation under way took its reading earlier, so the same is said of the
reading at its lag (`ReadingsHold`), and of the hand-over's stamp (`HandOversHold`). The two
exceptions of the property, a pod that joined and a node without a count, are exactly where
`Shows` fails (`Hidden`).

`Controller_proofs`. The invariant `Exclusive` says that a node that is gone leaves nothing
behind and no cache is ahead of the cluster (`Faithful`), and, while the leader is in step,
that at most one node is marked, that every cordon is accounted for (`CordonsShown`), and
that what the leader still has to write (`WritesOf`) is either a whole `Begin`, due where no
node is marked, or one write of a drain, which marks none and cordons only what is marked.
What any other process writes makes the state `late`, so nothing need be said of it. The
lemmas go action by action: an evaluation that
reads the marks as they are decides only when there are none (`DecideStep`), a write lands
on the mark it was planned under (`LandsStep`, `AnswerLostStep`), and whatever the
surroundings do to a node takes marks away (`FadeStep`). It gives `OneDrainHolds` and
`CordonsMarked`, on top of `TypeCorrect`. For `CompletionsHold` and `CooldownKept` a second
invariant says what the leader remembers: that the node it calls active is one whose drain
it has seen, or owes a decision about (`Known`), and that the time left of its own cooldown is
not less than what the history says it owes (`Debt`). A restart or a change of leader forgets
both, which is what the properties' conditions on the living leader are for.

`Times_proofs`, the memory of the autoscaler. `PhantomsSeenThrough` and `EpisodesCount` from an invariant that
orders the remembered scan, the stamp and the present: a phantom is never older than the
first scan of a binpack that was watching before it, and an episode seen under way is
watched until it is counted.

`Evictability_proofs`. `RefusalsRaced`: with nothing raced since the reading, the victim of
an evaluation under way is a pod the API server would accept (`Unraced`), because every
charged pod is in the prediction's demand and demand is at most the allowance
(`ApprovedIsAccepted`). `ApprovedDrainsDoFinish` is about a whole drain: as long as nothing
else changed, the pods still to go charge each budget no more than it has room for (`Room`,
in `Calm`), where the room is the allowance as last counted less what was charged since, so
that an eviction takes as much from the demand as from the room and a recount by the
disruption controller takes nothing. `DeclinedNodesDoStayOccupied` is its converse: a budget
that was short has, whoever evicts, more charged pods on the node than it will ever allow
(`Stuck`). `TypeCorrect` has the one part that is not about types, that no allowance goes
below zero: the API server charges only what it has checked.

`Selection_proofs`. Two invariants about the rows. `SoundToDrain`: no row that
`DecisionsSurvive` is about can hold of a node whose marker and cordon are binpack's own, so
that what was chosen is what the revalidation sees (`ChosenIsSound`). `ToTaste`: once a pod
has left, the code of the row that ends a drain is not a preference, row by row
(`WorkIsSound`), for `WorkIsKept`. The rows are ordered, so each argument is by the first row
that holds.

`Reading_proofs`. `Sure` is what makes a list of pods of any age safe to act on: unless
somebody deleted a pod or an identity patch was lost, the marker names what is away, and a
pod in the list that would pass for its replacement is one that has come (`InThePast`,
`AwayIsGone`). `OneAwayHolds` and `NamesakesStayHolds` assume `~NodeLag`: the node itself is
read up to date, as the code relies on. `MCReading_old_node` shows that without it `OneAway`
fails.

`Packing_proofs`. The difficulties a simulation compares are fractions that may be infinite;
that they order the pods (`LessIsWeak`, by cross-multiplication) and that the name breaks
every tie make the order total (`PrecedesIsTotal`), so the first of what is left is one
whatever the listing (`FirstIs`), and so is the node it goes to (`PlaceIs`). `PackedIs` follows
the packing to its end: every listing leads to the same state, in which what was placed first
fits on what was free before anything was placed. From it follow `ReadingsDecide` and, with
an argument that a node whose pods stay keeps what it has left (`FreeStays`),
`NobodyStranded`. `RoomForEvery` rests on domination being a strict order on finitely many
shapes, so that every shape has a maximal one above it (`ShapesAreCovered`, `Highest`), and on
what takes the larger taking the smaller.

`Times_proofs`, the backoff. `WaitBounded` for every width: below half the cap, twice the wait is a
duration. `ReturnsDoubledHolds`: the wait in the loop is the initial one times the power of
two of its counter, where the power is a recursive function.

`Pools_proofs`, the search. `SearchPlaces` and `SearchDecides`, for any number of values and
groups and any edges. `Matched` says that the groups held are a matching of the settled values;
it survives `Take` because the calls are those of one path (`OnePath`): every value asked to
move holds a group that the value before it may join, and none is asked twice. That a search
which gives up was right to is Hall's condition: a call that has returned has tried all its
edges (`Exhausted`), so the values asked so far have edges only to the groups they hold, of
which there is one fewer than of them (`GivenUp`, by the pigeonhole principle). That a join
reported is the only one rests on `Tried`: a pair that has been taken away in vain is in every
matching, and when all have been there is no other.

`Pools_proofs`, the join. `ProviderKeysRight` needs no induction over steps beyond the types
(`PoolTypes`): in every state in which status and nodes agree, the values of a provider's key
and the live groups correspond (`ProviderValues`), that correspondence is a matching, and any
other would mix up some pools among themselves, none of whose names is then its own
(`ProviderKeyResolves`). So the key is a winner, and agreement does the rest.
`OverridesGovern` is about every cluster whose names mean what they say (`WellNamed`: the
configured label tells the truth where it is set, or is on every node and names no pool, and
no name an override uses is a name of another pool); those of the pools run are. It goes by the three ways a join may have come about
(`ThreeJoins`). In each the nodes placed in a pool have the same names (`PlacedAtHome`),
although the label may be rolled out to some of them only: a node without it is placed only by a
derived join, and a join is derived only while no node of a pool has it.

Induction. The provers cannot instantiate a theorem whose parameter is an operator, so there
is no induction by citation. Where a proof needs one (the powers of `Backoff`, the recursive
functions of `Packing`) it goes by a set of numbers: the least counterexample, which exists
since the naturals are well founded (`LeastNumber`), or a set that climbs (`Climbed`). That a
recursion has a solution at all is proved first (`Recursion`).

Only model-checked: everything temporal (`DrainEnds`, `DrainsResolve`,
`OthersGetTheirTurn`, `FailuresEnd`, `PausesEnd`, `HandoversEnd`), since liveness under
fairness is out of the prover's reach.

## 5. Not modelled

* `diagnose.go`, `explain`, the command line, metrics, rendering, events: reports over one
  snapshot. Nothing they say changes the cluster or what `run` decides next.
* The reports and summaries of `decide.go`, the near misses and messages of `pools.go`, the
  reasons a pod is blocked in `simulate.go`.
* How a replacement's template and the running pod are merged (`replacement` in
  `simulate.go`): a trait of the pod says whether it could be, and `asked` is the result. It
  is a field-by-field copy of Kubernetes objects without state or order.
* The list of scheduler features binpack declines (`UnsupportedPod`,
  `UnsupportedDestination`): one trait.
* Parsing: the status document, durations, quantities, the configuration file and its
  defaults. The bounds the validation establishes are assumptions of the modules.
* The one-shot run and the start-up checks of the controller, its leader election
  library, watch setup and signal handling: `Restart`, `Acquire`, `Notice` and `Pause` are
  what they amount to.
* DaemonSet, mirror and completed pods: outside the set a drain answers for.
* Test support (`mother`, `permute`, the differential oracle).

## 6. Findings

One run, unseeded, is expected to fail: a node that empties between `Begin` and the first
evaluation that succeeds is handed back as `not-removed` as soon as that evaluation comes
later than `removalTimeout`. `Begin` writes no count, so `Assess` cannot see that the pods
left; the comment in `Assess` (`drain.go:408`) promises such a node the whole window.

The other places where the code and its comments part are documented by a cfg each. They
are not part of the runs; TLC finds each counterexample within seconds to minutes. The
passing properties carry the corresponding condition.

| cfg | What it shows | What is said |
|---|---|---|
| `MCDrain_early` (`NeverTwoInFlight`) | `awaitingMarker` stamps the time of the reading. A pod the controller creates between the reading and the eviction, for a replica lost elsewhere, is "not before" it and is taken for the replacement; the next pod is evicted with the replacement unbound. | `executor/drain.go:799`: "Never more than one replacement in flight is how that requirement is kept" |
| `MCDrain_churn` (`DrainEnds`) | A workload that tolerates the cordon and is replaced at will keeps a drain going: each pod on its way out is progress, and each record lowers the count the next departure is measured against. | `executor/drain.go:613` describes this clock reset as avoided |
| `MCController_two_drains` (`OneDrainAlways`) | `Begin`'s first patch takes effect and its answer is lost, the next evaluation reads a cache that does not show it, and a second node is marked. Both are resolved one after the other. | `decide.go:886`: "One drain at a time is the invariant" |
| `MCController_counted` (`OnlyFinishedDrainsCount`) | `Abandon`'s answer is lost, the process still remembers the node, and its removal counts as a completion with a cluster-wide cooldown. | `controller.go:935`: "Only a drain that finished" |
| `MCController_pauses` (`CordonsAreAlwaysMarked`) | A process suspended between `Begin`'s two patches sends its cordon after the next leader handed the node back: cordoned, unmarked, and no evaluation lifts it. | `executor/drain.go:47`: "Marking first leaves evidence instead" |
| `MCAutoscalerMemory_late` (`PhantomsAreNeverOlder`) | A binpack that starts after the autoscaler restarted reads a document later than the phantom and trusts it. | `decide.go:985`: "it can never be older than the earliest scan binpack has seen" |
| `MCPools_misplaced` (`NoNodeIsMisplaced`) | Of two pools in one zone one has no ready node and the other grows: the zone label resolves on its own and places the nodes of both in the live one. | `pools.go:363`: "Nothing resolves unless *every published pool* is claimed at once" |
| `MCPools_empty_pool` (`EmptyPoolsAreHarmless`) | A readable pool name is known from nodes only, so an override that uses it is refused once the pool is scaled to zero. | `decide_test.go:822`: "Rejecting the override then would take binpack down over a pool that is merely empty" |
| `MCPools_unheeded` (`StatementsAreHeeded`) | The stated table is used only when some node reaches a live pool by it; otherwise the derivation answers without a refusal. | `pools.go:716`: "the operator's own statement about their cluster is the thing that gets ignored" |
| `MCPacking_plans` (`PlansHold`) | After a first replacement went exactly where it was planned, difficulties are measured against the room left by then, the order changes and the greedy packing fails for pods it had placed. | `simulate.go:202`: "a drain abandoned halfway has wasted every eviction before the one that failed" |

Two more cfgs are about a lagging cache of *nodes*. With `MCReading_old_node` (`OneAway` with
`NodeLag`) TLC finds that an evaluation which reads its own node as it was before its last
write evicts with a replacement in flight; the code relies on the cache catching up within
the interval, as the property of the run reading does. With `MCController_behind` the
liveness properties of resolve hold under `Lagging` too, in a smaller instance (one process,
no disturbances, no cooldown), in which two nodes are marked as in two_drains.

## 7. What is planned

1. What the liveness properties rest on, as action properties that can be proved: measures
   that each evaluation lowers, of a drain (`DrainEnds`) and of the search of `PoolMatching`.
2. The other refusals of `ResolvePools` for clusters that are not `WellNamed`: which of them
   keep an override from reaching a pool it is not meant for.
