------------------------------ MODULE PoolMapping ------------------------------
(***************************************************************************)
(* Which autoscaling pool is a node in?  internal/engine/pools.go answers  *)
(* anew from every reading: by a label whose value is the identifier the   *)
(* autoscaler publishes, by a table the operator states, or by a label     *)
(* whose values the identifiers were built from.  Around it pools scale,   *)
(* and the autoscaler's status follows the nodes at its own pace.          *)
(***************************************************************************)
EXTENDS Naturals, FiniteSets, SequencesExt, Matchings

CONSTANTS
  Nodes,
  Groups,         \* the identifiers the autoscaler publishes
  KeyOrder,       \* the label keys, sorted
  Names,          \* the labels' values and the identifiers
  IDLabel,        \* discovery.nodeGroupIDLabel
  NameLabel,      \* discovery.poolNameLabel
  Clusters,       \* what the nodes' labels and the configuration may say
  MaxSize,        \* bound: nodes of one pool
  Static, Gone, NoValue

Keys == ToSet(KeyOrder)

\* labels: what the nodes of a pool, and those outside, carry.  inside: the values
\* that are substrings of an identifier.  stated: discovery.nodeGroups, from values
\* to identifiers.  byPool: pools[], from the names used to the pools meant.  rollout:
\* IDLabel is one the operator puts on the nodes; or it is the provider's, on every node.
ASSUME PoolAssumption ==
  /\ IsFiniteSet(Nodes) /\ IsFiniteSet(Groups)
  /\ Groups \subseteq Names /\ NoValue \notin Names
  /\ Static \notin Groups /\ Gone \notin Groups \union {Static}
  /\ KeyOrder \in Seq(Keys) /\ {IDLabel, NameLabel} \subseteq Keys
  /\ \A c \in Clusters :
       /\ c.labels \in [Groups \union {Static} -> [Keys -> Names \union {NoValue}]]
       /\ c.inside \in [Groups -> SUBSET Names]
       /\ c.rollout \in BOOLEAN
       /\ DOMAIN c.stated \subseteq Names /\ DOMAIN c.byPool \subseteq Names
       /\ \A name \in DOMAIN c.byPool : c.byPool[name] \in Groups
  /\ MaxSize \in Nat

VARIABLES
  cluster, \* the member of Clusters this one is, for good
  home,    \* [Nodes -> the pool the node is in, Static, or Gone]
  ready,   \* [Groups -> what the status says is ready]
  target,  \* [Groups -> cloudProviderTarget]
  labelled, \* the nodes that carry IDLabel so far
  live     \* the status is being refreshed

vars == <<cluster, home, ready, target, labelled, live>>

LabelsOf == cluster.labels
Inside == cluster.inside
Stated == cluster.stated
ByPool == cluster.byPool

Members(g) == {n \in Nodes : home[n] = g}
Present == {n \in Nodes : home[n] # Gone}
Label(n, key) ==
  IF key = IDLabel /\ n \notin labelled THEN NoValue ELSE LabelsOf[home[n]][key]

-------------------------------------------------------------------------------
(***************************************************************************)
(* The join.                                                               *)
(***************************************************************************)
Mapping(source, key, groups) == [source |-> source, key |-> key, groups |-> groups]
NoGroups == [v \in {} |-> NoValue]

\* Named, and with a ready node in it.
LiveGroups == {g \in Groups : ready[g] > 0}

GroupOf(m, n) ==
  LET value == Label(n, m.key)
  IN  IF value \in DOMAIN m.groups THEN m.groups[value] ELSE value

(***************************************************************************)
(* match: one candidate key, its join or none.                             *)
(***************************************************************************)
Carrying(key, value) == {n \in Present : Label(n, key) = value}
Values(key) == {v \in Names : Carrying(key, v) # {}}

\* A pool changing size holds anything between what is ready and what was asked for.
Plausible(g, n) ==
  \/ ready[g] <= n /\ n <= target[g]
  \/ target[g] <= n /\ n <= ready[g]

Edges(key) ==
  [v \in Values(key) |->
     {g \in LiveGroups : v \in Inside[g] /\ Plausible(g, Cardinality(Carrying(key, v)))}]

\* What matching finds; PoolMatching is the search itself.
JoinsBy(key) == Perfect(Values(key), LiveGroups, Edges(key))

Resolves(key) ==
  /\ Cardinality(Values(key)) = Cardinality(LiveGroups)
  /\ \E f \in JoinsBy(key) : JoinsBy(key) = {f}

Join(key) == Mapping("name", key, CHOOSE f \in JoinsBy(key) : TRUE)

\* derive: the first key that resolves, if all that do agree about every node.
\* Variant: the first key, whatever the others say.
Winners == {key \in Keys : Resolves(key)}
First == KeyOrder[CHOOSE i \in DOMAIN KeyOrder :
                    /\ Resolves(KeyOrder[i])
                    /\ \A j \in 1..(i - 1) : ~Resolves(KeyOrder[j])]

TakesTheFirst ==
  IF Winners = {} THEN Mapping("nothing", IDLabel, NoGroups) ELSE Join(First)

Derive ==
  LET agree == \A key \in Winners, n \in Present :
                 GroupOf(Join(key), n) = GroupOf(Join(First), n)
  IN  IF Winners # {} /\ agree THEN Join(First) ELSE Mapping("nothing", IDLabel, NoGroups)

(***************************************************************************)
(* resolveMapping, in precedence order.                                    *)
(***************************************************************************)
AsStated == Mapping("value", IDLabel, Stated)

\* No evidence is not a failed mapping: the configured label is read as it is.
NoEvidence == ~live \/ Present = {} \/ LiveGroups = {}

ResolveMapping ==
  LET matched == {n \in Present : GroupOf(AsStated, n) \in LiveGroups}
  IN  IF NoEvidence THEN Mapping("unknown", IDLabel, NoGroups)
      ELSE IF matched = {} THEN Derive
      ELSE IF \E n \in matched : Label(n, IDLabel) \in DOMAIN Stated
        THEN Mapping("configuration", IDLabel, Stated)
      ELSE AsStated

-------------------------------------------------------------------------------
(***************************************************************************)
(* ResolvePools: the join, and the three ways a configuration is refused.  *)
(***************************************************************************)

\* Every name a pools[] entry may use for the pool of node n.
PoolNames(m, n) ==
  {GroupOf(m, n), Label(n, m.key), Label(n, IDLabel), Label(n, NameLabel)} \ {NoValue}

KnownNames(m) == Groups \union UNION {PoolNames(m, n) : n \in Present}

NoMapping(m) == m.source = "nothing"
StatedJoinUnknown == live /\ \E v \in DOMAIN Stated : Stated[v] \notin Groups
OverridesUnknown(m) == DOMAIN ByPool \ KnownNames(m)

Accepted ==
  LET m == ResolveMapping
  IN  ~NoMapping(m) /\ ~StatedJoinUnknown /\ OverridesUnknown(m) = {}

\* policyFor: the first of the names an override uses, or the default policy.
\* Variant: only the group and the value that the join reads are looked up.
TwoNames(m, n) ==
  CHOOSE name \in Names \union {NoValue} :
    IF GroupOf(m, n) \in DOMAIN ByPool THEN name = GroupOf(m, n)
    ELSE IF Label(n, m.key) \in DOMAIN ByPool THEN name = Label(n, m.key)
    ELSE name = NoValue

PolicyForNode(m, n) ==
  CHOOSE name \in Names \union {NoValue} :
    IF GroupOf(m, n) \in DOMAIN ByPool THEN name = GroupOf(m, n)
    ELSE IF Label(n, m.key) \in DOMAIN ByPool THEN name = Label(n, m.key)
    ELSE IF Label(n, IDLabel) \in DOMAIN ByPool THEN name = Label(n, IDLabel)
    ELSE IF Label(n, NameLabel) \in DOMAIN ByPool THEN name = Label(n, NameLabel)
    ELSE name = NoValue

-------------------------------------------------------------------------------
(***************************************************************************)
(* Pools scale, and the status follows.                                    *)
(***************************************************************************)
Init ==
  /\ cluster \in Clusters
  /\ home \in [Nodes -> Groups \union {Static, Gone}]
  /\ \A g \in Groups : Cardinality(Members(g)) \in 1..MaxSize
  /\ ready = [g \in Groups |-> Cardinality(Members(g))]
  /\ target = ready
  /\ labelled \in IF cluster.rollout THEN {{}, Nodes} ELSE {Nodes}
  /\ live = TRUE

ScaleUp(g) ==
  /\ live /\ target[g] < MaxSize
  /\ target' = [target EXCEPT ![g] = @ + 1]
  /\ UNCHANGED <<cluster, home, ready, labelled, live>>

Register(n, g) ==
  /\ home[n] = Gone /\ Cardinality(Members(g)) < target[g]
  /\ home' = [home EXCEPT ![n] = g]
  /\ UNCHANGED <<cluster, ready, target, labelled, live>>

\* binpack empties a node, the autoscaler lowers the target and it goes.
LowerTarget(n) ==
  /\ live /\ home[n] \in Groups /\ target[home[n]] > 0
  /\ target' = [target EXCEPT ![home[n]] = @ - 1]
  /\ UNCHANGED <<cluster, home, ready, labelled, live>>

Deregister(n) ==
  /\ home[n] \in Groups /\ Cardinality(Members(home[n])) > target[home[n]]
  /\ home' = [home EXCEPT ![n] = Gone]
  /\ UNCHANGED <<cluster, ready, target, labelled, live>>

\* The autoscaler counts a pool again; some of its nodes may not be ready.
Count(g) ==
  /\ live
  /\ \E counted \in 0..Cardinality(Members(g)) : ready' = [ready EXCEPT ![g] = counted]
  /\ UNCHANGED <<cluster, home, target, labelled, live>>

\* The operator rolls the label out, or takes it back, one node at a time.
Relabel(n) ==
  /\ cluster.rollout /\ home[n] # Gone
  /\ labelled' = IF n \in labelled THEN labelled \ {n} ELSE labelled \union {n}
  /\ UNCHANGED <<cluster, home, ready, target, live>>

Dies == live /\ live' = FALSE /\ UNCHANGED <<cluster, home, ready, target, labelled>>
Returns == ~live /\ live' = TRUE /\ UNCHANGED <<cluster, home, ready, target, labelled>>

Next ==
  \/ \E n \in Nodes : LowerTarget(n) \/ Deregister(n) \/ Relabel(n)
  \/ \E n \in Nodes, g \in Groups : Register(n, g)
  \/ \E g \in Groups : ScaleUp(g) \/ Count(g)
  \/ Dies \/ Returns

Spec == Init /\ [][Next]_vars

-------------------------------------------------------------------------------
(***************************************************************************)
(* Properties.                                                             *)
(***************************************************************************)
Placed(m, n) == GroupOf(m, n) \in Groups

\* A key the provider wrote: it names each pool by a value of its own, a part of
\* that pool's identifier, and nothing outside the pools; and the names are not wholly
\* crosswise, so that of any pools one has a name that none of the others' identifiers
\* has as a part.  ("web" may be in the identifiers of web and web-2, while "web-2" is
\* only in its own.)
ProviderKey(key) ==
  /\ key # IDLabel
  /\ \A g \in Groups : LabelsOf[g][key] \in Inside[g]
  /\ \A g, h \in Groups : LabelsOf[g][key] = LabelsOf[h][key] => g = h
  /\ LabelsOf[Static][key] = NoValue
  /\ \A pools \in SUBSET Groups : pools # {} =>
       \E g \in pools : \A h \in pools : LabelsOf[g][key] \in Inside[h] => h = g

\* The status and the nodes agree as far as a pool that is changing size can: the
\* pools with a node are those with a ready one, and their sizes are in the window.
InStep == \A g \in Groups :
            /\ (g \in LiveGroups) = (Members(g) # {})
            /\ g \in LiveGroups => Plausible(g, Cardinality(Members(g)))

\* Where a provider writes a key of its own and the status keeps up, no node is taken
\* for one of another pool, and no static node for one of any, whatever other labels
\* the nodes carry and however the pools scale: unique matching, and agreement of
\* every key that has one.
ProviderKeysAreRight ==
  LET m == ResolveMapping IN
  m.source = "name" /\ InStep /\ (\E key \in Keys : ProviderKey(key)) =>
    \A n \in Present : Placed(m, n) => GroupOf(m, n) = home[n]

\* What the head of pools.go warns of and derive says its bijection rules out: a
\* node that is placed is placed in its own pool.
NoNodeIsMisplaced ==
  LET m == ResolveMapping IN
  \A n \in Present : Placed(m, n) /\ home[n] \in Groups => GroupOf(m, n) = home[n]

\* What the next property needs of a cluster in general: some key is the provider's;
\* the label configured for the identifier says, where it is set and by the operator's
\* table where that names it, the pool of the node, or says nothing of pools and is on
\* every node; and the name an override uses is a name of the pool it is meant for alone.
NamesOf(g) == {g} \union {LabelsOf[g][key] : key \in Keys}

WellNamed ==
  /\ \E key \in Keys : ProviderKey(key)
  /\ \A g \in Groups :
       LET value == LabelsOf[g][IDLabel] IN
       /\ value \in DOMAIN Stated => Stated[value] = g
       /\ value \in Groups => value = g
       /\ value \notin DOMAIN Stated \union Groups => value = NoValue \/ ~cluster.rollout
  /\ LabelsOf[Static][IDLabel] = NoValue
  /\ \A name \in DOMAIN ByPool :
       /\ \A g \in Groups : name \in NamesOf(g) => ByPool[name] = g
       /\ \A key \in Keys : LabelsOf[Static][key] # name

\* An override that preflight accepts governs the nodes of the pool it was written for
\* and no others, whichever of a pool's names it uses and whichever way the join came
\* about this time: an accepted name that resolution does not look at would leave a
\* pool running that its operator switched off.
OverridesGovernTheirPools ==
  LET m == ResolveMapping
      Meant(n) == {name \in DOMAIN ByPool : ByPool[name] = home[n]}
  IN  Accepted /\ InStep => \A n \in Present : Placed(m, n) =>
        PolicyForNode(m, n) \in IF Meant(n) = {} THEN {NoValue} ELSE Meant(n)

\* A pool that is empty is no reason to stop: no override of a pool that the
\* autoscaler publishes is refused.
EmptyPoolsAreHarmless == live => OverridesUnknown(ResolveMapping) = {}

\* The operator's own statement about the cluster is not ignored: a node whose label
\* it names is in the pool it names, or binpack refuses.
StatementsAreHeeded ==
  LET m == ResolveMapping IN
  Accepted /\ ~NoEvidence => \A n \in Present : Label(n, IDLabel) \in DOMAIN Stated =>
                               GroupOf(m, n) = Stated[Label(n, IDLabel)]
===============================================================================
