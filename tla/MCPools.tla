-------------------------------- MODULE MCPools --------------------------------
(***************************************************************************)
(* The join of pools.go for TLC.  Either a cluster of two pools runs, with *)
(* labels and a configuration from Clusters; or match searches a graph,    *)
(* any graph of three values and three groups.                             *)
(***************************************************************************)
EXTENDS PoolMapping, PoolMatching, TLC

CONSTANTS v1, v2, v3, g1, g2, g3

Ids == {"id-1", "id-2"}
SortedKeys == <<"app", "id", "nodegroup", "pool", "zone">>
AllNames ==
  {"a", "api", "blue", "front", "green", "id-1", "id-2", "web", "web-2"}

Labels(id, nodegroup, app, pool, zone) ==
  ("id" :> id) @@ ("nodegroup" :> nodegroup) @@ ("app" :> app) @@ ("pool" :> pool)
    @@ ("zone" :> zone)

None == [v \in {} |-> "none"]

\* "web" is a part of both identifiers, and the zone of every node of both too; the
\* nodes of each pool carry an app named after the other.
Crossed ==
  [labels |-> ("id-1" :> Labels("id-1", "web", "web-2", "front", "a"))
               @@ ("id-2" :> Labels("id-2", "web-2", "web", "api", "a"))
               @@ (Static :> Labels("none", "none", "web-2", "none", "a")),
   inside |-> ("id-1" :> {"web", "a", "id-1"}) @@ ("id-2" :> {"web", "web-2", "a", "id-2"}),
   rollout |-> TRUE, stated |-> None, byPool |-> None]

\* Two pools of which neither is named within the other, in one zone.
Plain ==
  [labels |-> ("id-1" :> Labels("id-1", "web", "none", "front", "a"))
               @@ ("id-2" :> Labels("id-2", "api", "none", "none", "a"))
               @@ (Static :> Labels("none", "none", "none", "none", "none")),
   inside |-> ("id-1" :> {"web", "a", "id-1"}) @@ ("id-2" :> {"api", "a", "id-2"}),
   rollout |-> TRUE, stated |-> None, byPool |-> None]

\* One pool overridden by the value a derived join reads, the other by its identifier.
Overridden == [Plain EXCEPT !.byPool = ("web" :> "id-1") @@ ("id-2" :> "id-2")]
\* One by its readable name, which only the nodes say, under any join.
Readable == [Plain EXCEPT !.byPool = ("front" :> "id-1") @@ ("id-2" :> "id-2")]
\* The nodes of one pool carry a value that the operator's table translates.
Translated == [Plain EXCEPT !.labels["id-1"]["id"] = "blue",
                            !.labels["id-2"]["id"] = "none",
                            !.stated = "blue" :> "id-1"]
\* That pool overridden by the value; the other's nodes carry their identifier.
Stating == [Translated EXCEPT !.labels["id-2"]["id"] = "id-2",
                              !.byPool = ("blue" :> "id-1") @@ ("id-2" :> "id-2")]
\* The configured label is the provider's own and its values are in no identifier: the
\* join is derived by another key, and one pool overridden by the label's value.
Provided == [Plain EXCEPT !.labels["id-1"]["id"] = "blue",
                          !.labels["id-2"]["id"] = "green",
                          !.rollout = FALSE,
                          !.byPool = ("blue" :> "id-1") @@ ("api" :> "id-2")]

Checked == {Crossed, Overridden, Readable, Stating, Provided}
PlainOnly == {Plain}
ReadableOnly == {Readable}
TranslatedOnly == {Translated}

-------------------------------------------------------------------------------
SortedGroups == <<g1, g2, g3>>
SortedValues == <<v1, v2, v3>>

NoEdges == [v \in ValueSet |-> {}]

\* The search is over, for a graph without an edge.
NoGraph ==
  /\ edges = NoEdges /\ byGroup = Nowhere
  /\ asked = <<>> /\ seen = {} /\ next = 1
  /\ pairs = [v \in ValueSet |-> Nothing]
  /\ untried = ValueSet /\ withheld = Nothing
  /\ answer = "none"

\* A cluster that stands still while a graph is matched.
AtRest ==
  /\ Init
  /\ cluster = CHOOSE c \in Clusters : TRUE
  /\ labelled = {}
  /\ home = CHOOSE h \in [Nodes -> Groups] : \A g \in Groups : \E n \in Nodes : h[n] = g

Scale == edges = NoEdges /\ answer = "none" /\ Next /\ UNCHANGED searchVars
Search == SearchNext /\ UNCHANGED vars

MCSpec ==
  /\ (Init /\ NoGraph) \/ (AtRest /\ SearchInit)
  /\ [][Scale \/ Search]_<<vars, searchVars>>
===============================================================================
