----------------------------- MODULE PoolMatching -----------------------------
(***************************************************************************)
(* The search of internal/engine/pools.go for the join of label values to  *)
(* published groups.  matching places the values one after the other, by   *)
(* augmenting paths: assign takes the first group that is free, or asks    *)
(* the value that holds one to move.  match then takes every pair of the   *)
(* first matching away in turn and searches again: a join that is not the  *)
(* only one is refused.  Every step is a turn of assign's loop, or of      *)
(* match's.                                                                *)
(***************************************************************************)
EXTENDS Naturals, SequencesExt, Matchings

CONSTANTS
  ValueOrder,   \* the values of one key, sorted
  GroupOrder,   \* the live groups, sorted by identifier
  Nothing

ValueSet == ToSet(ValueOrder)
IdSet == ToSet(GroupOrder)

\* A key without a value is passed over before the search.
ASSUME MatchingAssumption ==
  /\ ValueOrder \in Seq(ValueSet) /\ ValueOrder # <<>> /\ IsInjective(ValueOrder)
  /\ GroupOrder \in Seq(IdSet)
  /\ Nothing \notin ValueSet \union IdSet

VARIABLES
  edges,    \* [ValueSet -> the groups a value may join]
  byGroup,  \* [IdSet -> the value a group is held by]
  asked,    \* assign's calls: the value being placed, and those asked to move for it
  seen,     \* the groups asked about for the value being placed
  next,     \* the position in ValueOrder of that value
  pairs,    \* the first matching
  untried,  \* the values whose pair has not been taken away yet
  withheld, \* the value whose pair is, or Nothing in the first search
  answer    \* match's: "open" until it returns

searchVars == <<edges, byGroup, asked, seen, next, pairs, untried, withheld, answer>>

Answers == {"open", "none", "ambiguous", "only"}

Nowhere == [g \in IdSet |-> Nothing]

\* What is left to place at position n.
Calls(n) == IF n <= Len(ValueOrder) THEN <<ValueOrder[n]>> ELSE <<>>
Searching == asked # <<>>
Succeeded == next > Len(ValueOrder)

\* without: the edges of this search.
InForce ==
  IF withheld = Nothing THEN edges
  ELSE [edges EXCEPT ![withheld] = @ \ {pairs[withheld]}]

SearchInit ==
  /\ edges \in [ValueSet -> SUBSET IdSet]
  /\ byGroup = Nowhere
  /\ asked = Calls(1) /\ seen = {} /\ next = 1
  /\ pairs = [v \in ValueSet |-> Nothing]
  /\ untried = ValueSet /\ withheld = Nothing
  /\ answer = "open"

-------------------------------------------------------------------------------
(***************************************************************************)
(* assign.                                                                 *)
(***************************************************************************)

\* The edges of the value whose call is running that no call has tried.  Variant:
\* and that are free.
FreeOnes == {g \in InForce[Last(asked)] : byGroup[g] = Nothing}
Untouched == InForce[Last(asked)] \ seen

\* The loop takes them in the groups' order.
Tries(g) ==
  /\ Searching /\ g \in Untouched
  /\ \E i \in DOMAIN GroupOrder :
       GroupOrder[i] = g /\ \A j \in 1..(i - 1) : GroupOrder[j] \notin Untouched

\* Who holds a group once the calls have returned: each value asked to move gives its
\* group to the one that asked, and the last of them takes g.
Moved(g) ==
  [h \in IdSet |->
     IF h = g THEN Last(asked)
     ELSE IF \E k \in 2..Len(asked) : asked[k] = byGroup[h]
       THEN asked[(CHOOSE k \in 2..Len(asked) : asked[k] = byGroup[h]) - 1]
     ELSE byGroup[h]]

\* The group is free: every call returns true, and the next value is placed.
Take(g) ==
  /\ Tries(g) /\ byGroup[g] = Nothing
  /\ byGroup' = Moved(g)
  /\ next' = next + 1 /\ asked' = Calls(next + 1) /\ seen' = {}
  /\ UNCHANGED <<edges, pairs, untried, withheld, answer>>

\* It is held: its holder is asked to move.
Ask(g) ==
  /\ Tries(g) /\ byGroup[g] # Nothing
  /\ seen' = seen \union {g}
  /\ asked' = Append(asked, byGroup[g])
  /\ UNCHANGED <<edges, byGroup, next, pairs, untried, withheld, answer>>

\* No edge is left: the call returns false, and its caller's loop goes on.
GiveUp ==
  /\ Searching /\ Untouched = {}
  /\ asked' = Front(asked)
  /\ UNCHANGED <<edges, byGroup, seen, next, pairs, untried, withheld, answer>>

-------------------------------------------------------------------------------
(***************************************************************************)
(* match, once a search is over.                                           *)
(***************************************************************************)
Over == answer = "open" /\ ~Searching

Found == [v \in ValueSet |-> CHOOSE g \in IdSet : byGroup[g] = v]

NoMatching ==
  /\ Over /\ withheld = Nothing /\ ~Succeeded
  /\ answer' = "none"
  /\ UNCHANGED <<edges, byGroup, asked, seen, next, pairs, untried, withheld>>

\* The pairs are a map: they are taken away in any order.
Withhold(v) ==
  /\ Over /\ v \in untried
  /\ Succeeded <=> withheld = Nothing
  /\ pairs' = IF withheld = Nothing THEN Found ELSE pairs
  /\ withheld' = v /\ untried' = untried \ {v}
  /\ byGroup' = Nowhere /\ asked' = Calls(1) /\ seen' = {} /\ next' = 1
  /\ UNCHANGED <<edges, answer>>

AnotherMatching ==
  /\ Over /\ withheld # Nothing /\ Succeeded
  /\ answer' = "ambiguous"
  /\ UNCHANGED <<edges, byGroup, asked, seen, next, pairs, untried, withheld>>

\* Variant: the first pair is enough.
AfterTheFirst ==
  /\ Over /\ withheld # Nothing /\ ~Succeeded
  /\ answer' = "only"
  /\ UNCHANGED <<edges, byGroup, asked, seen, next, pairs, untried, withheld>>

OnlyMatching ==
  /\ Over /\ withheld # Nothing /\ ~Succeeded /\ untried = {}
  /\ answer' = "only"
  /\ UNCHANGED <<edges, byGroup, asked, seen, next, pairs, untried, withheld>>

SearchNext ==
  \/ \E g \in IdSet : Take(g) \/ Ask(g)
  \/ \E v \in ValueSet : Withhold(v)
  \/ GiveUp \/ NoMatching \/ AnotherMatching \/ OnlyMatching

SearchSpec == SearchInit /\ [][SearchNext]_searchVars

-------------------------------------------------------------------------------
(***************************************************************************)
(* Properties.                                                             *)
(***************************************************************************)
Settled == {ValueOrder[i] : i \in 1..(next - 1)}

\* Augmenting never unplaces a value it has placed or places two in one group, and
\* assign gives up on a value exactly when it and the values before it cannot be
\* placed together in any way at all.
PlacesAllItCan ==
  /\ [v \in Settled |-> CHOOSE g \in IdSet : byGroup[g] = v]
       \in Perfect(Settled, IdSet, InForce)
  /\ ~Searching /\ ~Succeeded =>
       Perfect(Settled \union {ValueOrder[next]}, IdSet, InForce) = {}

\* A join is reported only when it is the only one: taking the pairs away one by one
\* finds a second matching whenever there is one, and no other refusal is for want of
\* a search.
AmbiguityIsFound ==
  LET all == Perfect(ValueSet, IdSet, edges) IN
  /\ answer = "none" => all = {}
  /\ answer = "only" => all = {pairs}
  /\ answer = "ambiguous" => \E f, g \in all : f # g
===============================================================================
