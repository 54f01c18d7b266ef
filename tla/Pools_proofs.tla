----------------------------- MODULE Pools_proofs -----------------------------
(***************************************************************************)
(* The search finds a matching whenever there is one and knows whether it  *)
(* is the only one, for any number of values and groups and any edges; and *)
(* a key that a provider wrote joins every node to its own pool.           *)
(***************************************************************************)
EXTENDS PoolMapping, PoolMatching, FiniteSetTheorems, SequenceTheorems,
        WellFoundedInduction, TLAPS

-------------------------------------------------------------------------------
(***************************************************************************)
(* The search.                                                             *)
(***************************************************************************)
Root == ValueOrder[next]

SearchTypeOK ==
  /\ edges \in [ValueSet -> SUBSET IdSet]
  /\ byGroup \in [IdSet -> ValueSet \union {Nothing}]
  /\ asked \in Seq(ValueSet)
  /\ seen \subseteq IdSet
  /\ next \in 1..(Len(ValueOrder) + 1)
  /\ pairs \in [ValueSet -> IdSet \union {Nothing}]
  /\ untried \subseteq ValueSet
  /\ withheld \in ValueSet \union {Nothing}
  /\ answer \in Answers

\* byGroup is a matching of the settled values, all of them and no others.
Matched ==
  /\ \A g \in IdSet : byGroup[g] # Nothing =>
       byGroup[g] \in Settled /\ g \in InForce[byGroup[g]]
  /\ \A g, h \in IdSet : byGroup[g] = byGroup[h] /\ byGroup[g] # Nothing => g = h
  /\ \A v \in Settled : \E g \in IdSet : byGroup[g] = v

\* The calls are those of one path: each value asked to move holds a group that the
\* one before it may join, and none is asked twice.
OnePath ==
  /\ asked # <<>> => next <= Len(ValueOrder) /\ asked[1] = Root
  /\ \A k \in 2..Len(asked) :
       \E g \in seen : byGroup[g] = asked[k] /\ g \in InForce[asked[k - 1]]
  /\ \A k, l \in 1..Len(asked) : asked[k] = asked[l] => k = l
  /\ \A g \in seen : byGroup[g] # Nothing

\* Who has been asked for the value being placed, itself included; and a call that
\* has returned has tried every edge of its value.
Askers == {Root} \union {byGroup[g] : g \in seen}
Exhausted ==
  next <= Len(ValueOrder) =>
    \A v \in Askers : InForce[v] \subseteq seen \/ \E k \in 1..Len(asked) : asked[k] = v

\* A pair that has been taken away is in every matching.
Tried ==
  /\ withheld = Nothing => untried = ValueSet
  /\ withheld # Nothing =>
       /\ pairs \in Perfect(ValueSet, IdSet, edges)
       /\ withheld \notin untried
       /\ \A f \in Perfect(ValueSet, IdSet, edges), v \in ValueSet \ (untried \union {withheld}) :
            f[v] = pairs[v]

SearchInv ==
  /\ SearchTypeOK /\ Matched /\ OnePath /\ Exhausted /\ Tried
  /\ AmbiguityIsFound

\* The sequences list their sets, the values once each.
LEMMA OrderFacts ==
  /\ Len(ValueOrder) \in Nat /\ Len(ValueOrder) >= 1
  /\ \A i \in 1..Len(ValueOrder) : ValueOrder[i] \in ValueSet
  /\ \A v \in ValueSet : \E i \in 1..Len(ValueOrder) : ValueOrder[i] = v
  /\ \A i, j \in 1..Len(ValueOrder) : ValueOrder[i] = ValueOrder[j] => i = j
  /\ Nothing \notin ValueSet /\ Nothing \notin IdSet
  /\ IsFiniteSet(IdSet)
<1>1. ValueOrder \in Seq(ValueSet) /\ ValueOrder # <<>>
  BY MatchingAssumption
<1>2. DOMAIN ValueOrder = 1..Len(ValueOrder) /\ Len(ValueOrder) \in Nat
  BY <1>1
<1>3. Len(ValueOrder) >= 1
  BY <1>1, <1>2, SMT
<1>4. \A v \in ValueSet : \E i \in 1..Len(ValueOrder) : ValueOrder[i] = v
  BY <1>2 DEF ValueSet, ToSet
<1>5. \A i \in 1..Len(ValueOrder) : ValueOrder[i] \in ValueSet
  BY <1>2 DEF ValueSet, ToSet
<1>6. \A i, j \in 1..Len(ValueOrder) : ValueOrder[i] = ValueOrder[j] => i = j
  BY <1>2, MatchingAssumption DEF IsInjective
<1>7. IsFiniteSet(IdSet)
  <2>1. DOMAIN GroupOrder = 1..Len(GroupOrder) /\ Len(GroupOrder) \in Nat
    BY MatchingAssumption
  <2> DEFINE at == [i \in 1..Len(GroupOrder) |-> GroupOrder[i]]
  <2>2. at \in Surjection(1..Len(GroupOrder), IdSet)
    BY <2>1 DEF Surjection, IdSet, ToSet
  <2>3. IsFiniteSet(1..Len(GroupOrder))
    BY <2>1, FS_Interval, SMT
  <2> QED
    BY <2>2, <2>3, FS_Surjection
<1> QED
  BY <1>2, <1>3, <1>4, <1>5, <1>6, <1>7, MatchingAssumption

\* A search of more values begins with the call for the first of them.
LEMMA CallsFacts ==
  ASSUME NEW n \in 1..(Len(ValueOrder) + 1)
  PROVE  /\ Calls(n) \in Seq(ValueSet)
         /\ Calls(n) # <<>> <=> n <= Len(ValueOrder)
         /\ n <= Len(ValueOrder) => Len(Calls(n)) = 1 /\ Calls(n)[1] = ValueOrder[n]
         /\ n > Len(ValueOrder) => Calls(n) = <<>> /\ Len(Calls(n)) = 0
<1>1. CASE n <= Len(ValueOrder)
  <2>1. ValueOrder[n] \in ValueSet
    BY <1>1, OrderFacts, SMT
  <2>2. Calls(n) = <<ValueOrder[n]>>
    BY <1>1 DEF Calls
  <2> QED
    BY <1>1, <2>1, <2>2, OrderFacts, SMT
<1>2. CASE n > Len(ValueOrder)
  <2>1. Calls(n) = <<>>
    BY <1>2, OrderFacts, SMT DEF Calls
  <2> QED
    BY <1>2, <2>1, OrderFacts, SMT
<1> QED
  BY <1>1, <1>2, OrderFacts, SMT

\* The settled values are those before the one being placed.
LEMMA SettledFacts ==
  ASSUME SearchTypeOK
  PROVE  /\ Settled \subseteq ValueSet
         /\ \A v \in Settled : \E i \in 1..(next - 1) : v = ValueOrder[i]
         /\ next <= Len(ValueOrder) => Root \in ValueSet /\ Root \notin Settled
         /\ Succeeded => Settled = ValueSet
<1> USE DEF SearchTypeOK
<1>1. next \in 1..(Len(ValueOrder) + 1) /\ next \in Nat
  BY OrderFacts, SMT
<1>2. \A i \in 1..(next - 1) : i \in 1..Len(ValueOrder)
  BY <1>1, OrderFacts, SMT
<1>3. Settled \subseteq ValueSet
  BY <1>2, OrderFacts DEF Settled
<1>4. ASSUME next <= Len(ValueOrder)
      PROVE  Root \in ValueSet /\ Root \notin Settled
  <2>1. next \in 1..Len(ValueOrder)
    BY <1>1, <1>4, OrderFacts, SMT
  <2>2. ASSUME NEW i \in 1..(next - 1), ValueOrder[i] = Root PROVE FALSE
    <3>1. i = next
      BY <1>2, <2>1, <2>2, OrderFacts DEF Root
    <3> QED
      BY <3>1, <1>1, SMT
  <2> QED
    BY <2>1, <2>2, OrderFacts DEF Root, Settled
<1>5. ASSUME Succeeded PROVE ValueSet \subseteq Settled
  <2>1. next - 1 = Len(ValueOrder)
    BY <1>1, <1>5, OrderFacts, SMT DEF Succeeded
  <2> QED
    BY <2>1, OrderFacts DEF Settled
<1> QED
  BY <1>3, <1>4, <1>5 DEF Settled

\* A pair taken away is one edge fewer for its value, and the others' edges stay.
LEMMA InForceFacts ==
  ASSUME SearchTypeOK
  PROVE  /\ InForce \in [ValueSet -> SUBSET IdSet]
         /\ \A v \in ValueSet : InForce[v] = edges[v] \ (IF v = withheld THEN {pairs[v]} ELSE {})
<1> USE DEF SearchTypeOK
<1>1. CASE withheld = Nothing
  BY <1>1, OrderFacts DEF InForce
<1>2. CASE withheld \in ValueSet
  <2>1. withheld # Nothing
    BY <1>2, OrderFacts
  <2>2. InForce = [edges EXCEPT ![withheld] = @ \ {pairs[withheld]}]
    BY <2>1 DEF InForce
  <2> QED
    BY <1>2, <2>2
<1> QED
  BY <1>1, <1>2

\* A matching of more values is one of fewer, if their edges allow it.
LEMMA Restricted ==
  ASSUME NEW A, NEW B \in SUBSET A, NEW ids, NEW e, NEW d,
         NEW f \in Perfect(A, ids, e), \A v \in B : f[v] \in d[v]
  PROVE  [v \in B |-> f[v]] \in Perfect(B, ids, d)
<1> DEFINE part == [v \in B |-> f[v]]
<1>1. f \in [A -> ids] /\ \A v, w \in A : f[v] = f[w] => v = w
  BY DEF Perfect
<1>2. part \in [B -> ids]
  BY <1>1
<1>3. \A v \in B : part[v] \in d[v]
  OBVIOUS
<1>4. \A v, w \in B : part[v] = part[w] => v = w
  BY <1>1
<1> HIDE DEF part
<1>5. part \in Perfect(B, ids, d)
  BY <1>2, <1>3, <1>4 DEF Perfect
<1> QED
  BY <1>5 DEF part

\* The settled values are matched by the groups they hold.
LEMMA HoldersMatch ==
  ASSUME SearchTypeOK, Matched
  PROVE  [v \in Settled |-> CHOOSE g \in IdSet : byGroup[g] = v]
           \in Perfect(Settled, IdSet, InForce)
<1> DEFINE place == [v \in Settled |-> CHOOSE g \in IdSet : byGroup[g] = v]
<1>1. \A v \in Settled : place[v] \in IdSet /\ byGroup[place[v]] = v
  BY DEF Matched
<1>2. \A v \in Settled : v # Nothing
  BY SettledFacts, OrderFacts
<1>3. \A v \in Settled : place[v] \in InForce[v]
  BY <1>1, <1>2 DEF Matched
<1>4. \A v, w \in Settled : place[v] = place[w] => v = w
  BY <1>1
<1>5. place \in [Settled -> IdSet]
  BY <1>1
<1> HIDE DEF place
<1>6. place \in Perfect(Settled, IdSet, InForce)
  BY <1>3, <1>4, <1>5 DEF Perfect
<1> QED
  BY <1>6 DEF place

\* When the call for a value has returned false, those that were asked for it have no
\* edges but to the groups they hold, which are one too few.
LEMMA GivenUp ==
  ASSUME SearchTypeOK, Matched, OnePath, Exhausted, ~Searching, ~Succeeded
  PROVE  Perfect(Settled \union {Root}, IdSet, InForce) = {}
<1> SUFFICES ASSUME NEW f \in Perfect(Settled \union {Root}, IdSet, InForce)
             PROVE  FALSE
  OBVIOUS
<1> USE DEF SearchTypeOK
<1>1. next <= Len(ValueOrder)
  BY OrderFacts, SMT DEF Succeeded
<1>2. Root \in ValueSet /\ Root \notin Settled /\ Settled \subseteq ValueSet
  BY <1>1, SettledFacts
<1>3. \A g \in seen : byGroup[g] \in Settled
  BY DEF OnePath, Matched
<1>4. Askers \subseteq Settled \union {Root}
  BY <1>3 DEF Askers
<1>5. \A v \in Askers : InForce[v] \subseteq seen
  BY <1>1, SMT DEF Exhausted, Searching
<1>6. \A v \in Askers : f[v] \in seen
  BY <1>4, <1>5 DEF Perfect
<1>7. \A v, w \in Askers : f[v] = f[w] => v = w
  BY <1>4 DEF Perfect
<1>8. Root \in Askers
  BY DEF Askers
<1> DEFINE others == Askers \ {Root}
           moves == [v \in Askers |-> byGroup[f[v]]]
<1>9. moves \in [Askers -> others]
  BY <1>2, <1>3, <1>6 DEF Askers
<1>10. \A v, w \in Askers : moves[v] = moves[w] => v = w
  <2> TAKE v, w \in Askers
  <2> HAVE moves[v] = moves[w]
  <2>1. byGroup[f[v]] = byGroup[f[w]] /\ byGroup[f[v]] # Nothing
    BY <1>6 DEF OnePath
  <2>2. f[v] = f[w]
    BY <2>1, <1>6 DEF Matched
  <2> QED
    BY <2>2, <1>7
<1>11. IsFiniteSet(Askers)
  <2>1. IsFiniteSet(seen)
    BY OrderFacts, FS_Subset
  <2>2. [v \in Askers |-> f[v]] \in Injection(Askers, seen)
    BY <1>6, <1>7 DEF Injection, IsInjective
  <2> QED
    BY <2>1, <2>2, FS_Injection
<1>12. IsFiniteSet(others) /\ Cardinality(others) = Cardinality(Askers) - 1
       /\ Cardinality(Askers) \in Nat
  BY <1>8, <1>11, FS_RemoveElement, FS_CardinalityType, Zenon
<1>13. Cardinality(others) < Cardinality(Askers)
  BY <1>12, SMT
<1> HIDE DEF others, moves
<1>14. \E v, w \in Askers : v # w /\ moves[v] = moves[w]
  BY <1>9, <1>11, <1>12, <1>13, FS_PigeonHole, Zenon
<1> QED
  BY <1>10, <1>14

\* A search that starts over has nothing to keep.
LEMMA FreshSearch ==
  ASSUME next = 1, byGroup = Nowhere, asked = Calls(1), seen = {}
  PROVE  /\ byGroup \in [IdSet -> ValueSet \union {Nothing}]
         /\ asked \in Seq(ValueSet) /\ next \in 1..(Len(ValueOrder) + 1)
         /\ Matched /\ OnePath /\ Exhausted
<1>1. 1 \in 1..(Len(ValueOrder) + 1) /\ 1 <= Len(ValueOrder)
  BY OrderFacts, SMT
<1>2. asked \in Seq(ValueSet) /\ Len(asked) = 1 /\ asked[1] = Root
  BY <1>1, CallsFacts DEF Root
<1>3. \A g \in IdSet : byGroup[g] = Nothing
  BY DEF Nowhere
<1>4. Settled = {}
  <2>1. \A i \in 1..(next - 1) : FALSE
    BY SMT
  <2> QED
    BY <2>1 DEF Settled
<1>5. Matched
  BY <1>3, <1>4 DEF Matched
<1>6. OnePath
  <2>1. 2..1 = {} /\ 1..1 = {1}
    BY SMT
  <2>2. 2..Len(asked) = {} /\ 1..Len(asked) = {1}
    BY <1>2, <2>1, Zenon
  <2>3. next <= Len(ValueOrder)
    BY <1>1
  <2> QED
    BY <1>2, <2>2, <2>3 DEF OnePath
<1>7. Exhausted
  <2>1. 1 \in 1..Len(asked)
    BY <1>2, SMT
  <2> QED
    BY <1>2, <2>1 DEF Exhausted, Askers
<1> QED
  BY <1>1, <1>2, <1>3, <1>5, <1>6, <1>7 DEF Nowhere

LEMMA SearchStarts == SearchInit => SearchInv
<1> SUFFICES ASSUME SearchInit PROVE SearchInv
  OBVIOUS
<1>1. Matched /\ OnePath /\ Exhausted
  BY FreshSearch DEF SearchInit
<1>2. SearchTypeOK
  BY FreshSearch DEF SearchInit, SearchTypeOK, Answers
<1>3. Tried
  BY DEF Tried, SearchInit
<1>4. AmbiguityIsFound
  BY DEF AmbiguityIsFound, SearchInit
<1> QED
  BY <1>1, <1>2, <1>3, <1>4 DEF SearchInv

\* The call that runs, and what it may try.
LEMMA RunningCall ==
  ASSUME SearchTypeOK, OnePath, Searching
  PROVE  /\ Len(asked) \in Nat /\ Len(asked) >= 1
         /\ Last(asked) = asked[Len(asked)] /\ Last(asked) \in ValueSet
         /\ \A k \in 1..Len(asked) : asked[k] \in ValueSet
         /\ asked[1] = Root /\ next <= Len(ValueOrder)
         /\ Untouched \subseteq IdSet
<1> USE DEF SearchTypeOK
<1>1. asked \in Seq(ValueSet) /\ asked # <<>>
  BY DEF Searching
<1>2. Len(asked) \in Nat /\ Len(asked) >= 1 /\ \A k \in 1..Len(asked) : asked[k] \in ValueSet
  BY <1>1, SMT
<1>3. Last(asked) = asked[Len(asked)]
  BY DEF Last
<1>4. Last(asked) \in ValueSet
  BY <1>2, <1>3, SMT
<1>5. Untouched \subseteq IdSet
  BY <1>4, InForceFacts DEF Untouched
<1> QED
  BY <1>1, <1>2, <1>3, <1>4, <1>5 DEF OnePath

\* The edges of a search stay what they are until it is over.
LEMMA SameEdges ==
  ASSUME UNCHANGED <<edges, pairs, withheld>>
  PROVE  InForce' = InForce
BY DEF InForce

\* Moving along the path keeps every settled value in a group of its own, and settles
\* the value at its root.
LEMMA TakeKeepsMatched ==
  ASSUME SearchInv, NEW t \in IdSet, Take(t)
  PROVE  /\ byGroup' \in [IdSet -> ValueSet \union {Nothing}]
         /\ Matched'
<1> USE DEF SearchInv
<1> DEFINE n == Len(asked)
           Shifts(g) == g # t /\ \E k \in 2..n : asked[k] = byGroup[g]
<1>1. /\ n \in Nat /\ n >= 1 /\ Last(asked) = asked[n] /\ Last(asked) \in ValueSet
      /\ \A k \in 1..n : asked[k] \in ValueSet
      /\ asked[1] = Root /\ next <= Len(ValueOrder)
  BY RunningCall DEF Take, Tries
<1>2. next \in Nat /\ next >= 1 /\ Root \in ValueSet /\ Root \notin Settled
      /\ Settled \subseteq ValueSet
  BY <1>1, SettledFacts, OrderFacts, SMT DEF SearchTypeOK
<1>3. InForce' = InForce
  BY SameEdges DEF Take
<1>4. Settled' = Settled \union {Root}
  <2>1. next' = next + 1
    BY DEF Take
  <2>2. Settled' = {ValueOrder[i] : i \in 1..next}
    BY <1>2, <2>1, SMT DEF Settled
  <2>3. 1..next = (1..(next - 1)) \union {next}
    BY <1>2, SMT
  <2> QED
    BY <2>2, <2>3 DEF Settled, Root
<1>5. /\ byGroup[t] = Nothing
      /\ \A g \in IdSet : byGroup'[g] = Moved(t)[g]
      /\ byGroup' = Moved(t)
  BY DEF Take
<1>6. byGroup'[t] = asked[n] /\ t \in InForce[asked[n]]
  BY <1>1, <1>5 DEF Moved, Take, Tries, Untouched
<1>7. ASSUME NEW k \in 2..n
      PROVE  /\ k - 1 \in 1..n /\ k - 1 # n /\ k \in 1..n
             /\ \E g \in IdSet : byGroup[g] = asked[k] /\ g \in InForce[asked[k - 1]]
             /\ asked[k] \in Settled /\ asked[k] \in ValueSet
  <2>1. k - 1 \in 1..n /\ k - 1 # n /\ k \in 1..n
    BY <1>1, SMT
  <2>2. PICK g \in seen : byGroup[g] = asked[k] /\ g \in InForce[asked[k - 1]]
    BY DEF OnePath
  <2>3. g \in IdSet /\ byGroup[g] # Nothing
    BY <2>2 DEF SearchTypeOK, OnePath
  <2>4. asked[k] \in Settled
    BY <2>2, <2>3 DEF Matched
  <2> QED
    BY <1>2, <2>1, <2>2, <2>3, <2>4
<1>8. ASSUME NEW g \in IdSet, Shifts(g)
      PROVE  \E k \in 2..n : /\ asked[k] = byGroup[g] /\ byGroup'[g] = asked[k - 1]
                             /\ g \in InForce[asked[k - 1]]
  <2> DEFINE k == CHOOSE i \in 2..n : asked[i] = byGroup[g]
  <2>1. k \in 2..n /\ asked[k] = byGroup[g]
    BY <1>8
  <2>2. byGroup'[g] = asked[k - 1]
    BY <1>5, <1>8 DEF Moved
  <2> HIDE DEF k
  <2>3. PICK h \in IdSet : byGroup[h] = asked[k] /\ h \in InForce[asked[k - 1]]
    BY <1>7, <2>1
  <2>4. asked[k] # Nothing
    BY <1>7, <2>1, OrderFacts
  <2>5. h = g
    BY <2>1, <2>3, <2>4 DEF Matched
  <2> QED
    BY <2>1, <2>2, <2>3, <2>5
<1>9. ASSUME NEW g \in IdSet, g # t, ~Shifts(g)
      PROVE  byGroup'[g] = byGroup[g]
  BY <1>5, <1>9 DEF Moved
<1>10. byGroup' \in [IdSet -> ValueSet \union {Nothing}]
  <2>1. ASSUME NEW g \in IdSet PROVE byGroup'[g] \in ValueSet \union {Nothing}
    <3>1. CASE g = t
      BY <1>1, <1>6, <3>1
    <3>2. CASE Shifts(g)
      BY <1>7, <1>8, <1>1, <3>2
    <3>3. CASE g # t /\ ~Shifts(g)
      BY <1>9, <3>3 DEF SearchTypeOK
    <3> QED
      BY <3>1, <3>2, <3>3
  <2>2. byGroup' = [g \in IdSet |-> byGroup'[g]]
    BY <1>5 DEF Moved
  <2> QED
    BY <2>1, <2>2
<1>11. ASSUME NEW j \in 1..n PROVE asked[j] \in Settled \union {Root}
  <2>1. CASE j = 1
    BY <1>1, <2>1
  <2>2. CASE j # 1
    <3>1. j \in 2..n
      BY <1>1, <2>2, SMT
    <3> QED
      BY <1>7, <3>1
  <2> QED
    BY <2>1, <2>2
<1>12. \A g \in IdSet : byGroup'[g] # Nothing =>
         byGroup'[g] \in Settled' /\ g \in InForce'[byGroup'[g]]
  <2> TAKE g \in IdSet
  <2> HAVE byGroup'[g] # Nothing
  <2>1. CASE g = t
    <3>1. n \in 1..n
      BY <1>1, SMT
    <3> QED
      BY <1>3, <1>4, <1>6, <1>11, <2>1, <3>1
  <2>2. CASE Shifts(g)
    BY <1>3, <1>4, <1>7, <1>8, <1>11, <2>2
  <2>3. CASE g # t /\ ~Shifts(g)
    BY <1>3, <1>4, <1>9, <2>3 DEF Matched
  <2> QED
    BY <2>1, <2>2, <2>3
\* A value that stays where it is is not on the path.
<1>13. ASSUME NEW g \in IdSet, g # t, ~Shifts(g), NEW j \in 1..n, byGroup[g] = asked[j]
       PROVE  FALSE
  <2>1. CASE j = 1
    <3>1. byGroup[g] = Root /\ byGroup[g] # Nothing
      BY <1>1, <1>2, <1>13, <2>1, OrderFacts
    <3> QED
      BY <1>2, <3>1 DEF Matched
  <2>2. CASE j # 1
    <3>1. j \in 2..n
      BY <1>1, <2>2, SMT
    <3> QED
      BY <1>13, <3>1
  <2> QED
    BY <2>1, <2>2
<1>14. \A g, h \in IdSet : byGroup'[g] = byGroup'[h] /\ byGroup'[g] # Nothing => g = h
  <2>1. n \in 1..n
    BY <1>1, SMT
  <2>2. ASSUME NEW g \in IdSet, NEW h \in IdSet, Shifts(g), Shifts(h),
               byGroup'[g] = byGroup'[h]
        PROVE  g = h
    <3>1. PICK k \in 2..n : asked[k] = byGroup[g] /\ byGroup'[g] = asked[k - 1]
      BY <1>8, <2>2
    <3>2. PICK l \in 2..n : asked[l] = byGroup[h] /\ byGroup'[h] = asked[l - 1]
      BY <1>8, <2>2
    <3>3. k - 1 \in 1..n /\ l - 1 \in 1..n /\ asked[k - 1] = asked[l - 1]
      BY <1>7, <2>2, <3>1, <3>2
    <3>4. k - 1 = l - 1
      BY <3>3 DEF OnePath
    <3>5. k = l
      BY <3>4, SMT
    <3>6. byGroup[g] = byGroup[h] /\ byGroup[g] # Nothing
      BY <1>7, <3>1, <3>2, <3>5, OrderFacts
    <3> QED
      BY <3>6 DEF Matched
  <2>3. ASSUME NEW g \in IdSet, Shifts(g), byGroup'[g] = byGroup'[t]
        PROVE  FALSE
    <3>1. PICK k \in 2..n : asked[k] = byGroup[g] /\ byGroup'[g] = asked[k - 1]
      BY <1>8, <2>3
    <3>2. k - 1 = n
      BY <1>6, <1>7, <2>1, <2>3, <3>1 DEF OnePath
    <3> QED
      BY <1>7, <3>2
  <2>4. ASSUME NEW g \in IdSet, g # t, ~Shifts(g), byGroup'[g] = byGroup'[t]
        PROVE  FALSE
    BY <1>6, <1>9, <1>13, <2>1, <2>4
  <2>5. ASSUME NEW g \in IdSet, g # t, ~Shifts(g), NEW h \in IdSet, Shifts(h),
               byGroup'[g] = byGroup'[h]
        PROVE  FALSE
    <3>1. PICK k \in 2..n : asked[k] = byGroup[h] /\ byGroup'[h] = asked[k - 1]
      BY <1>8, <2>5
    <3>2. byGroup[g] = asked[k - 1] /\ k - 1 \in 1..n
      BY <1>7, <1>9, <2>5, <3>1
    <3> QED
      BY <1>13, <2>5, <3>2
  <2>6. ASSUME NEW g \in IdSet, g # t, ~Shifts(g), NEW h \in IdSet, h # t, ~Shifts(h),
               byGroup'[g] = byGroup'[h], byGroup'[g] # Nothing
        PROVE  g = h
    BY <1>9, <2>6 DEF Matched
  <2> QED
    BY <2>2, <2>3, <2>4, <2>5, <2>6
<1>15. \A v \in Settled' : \E g \in IdSet : byGroup'[g] = v
  <2> TAKE v \in Settled'
  <2>1. ASSUME NEW j \in 1..n, v = asked[j] PROVE \E g \in IdSet : byGroup'[g] = v
    <3>1. CASE j = n
      BY <1>6, <2>1, <3>1
    <3>2. CASE j # n
      <4>1. j + 1 \in 2..n /\ (j + 1) - 1 = j
        BY <1>1, <3>2, SMT
      <4>2. PICK g \in IdSet : byGroup[g] = asked[j + 1] /\ asked[j + 1] \in ValueSet
        BY <1>7, <4>1
      <4>3. Shifts(g)
        BY <1>5, <4>1, <4>2, OrderFacts
      <4>4. PICK k \in 2..n : asked[k] = byGroup[g] /\ byGroup'[g] = asked[k - 1]
        BY <1>8, <4>3
      <4>5. k = j + 1
        BY <1>7, <4>1, <4>2, <4>4 DEF OnePath
      <4> QED
        BY <2>1, <4>1, <4>4, <4>5
    <3> QED
      BY <3>1, <3>2
  <2>2. ASSUME \A j \in 1..n : v # asked[j] PROVE \E g \in IdSet : byGroup'[g] = v
    <3>1. v \in Settled
      <4>1. 1 \in 1..n
        BY <1>1, SMT
      <4> QED
        BY <1>1, <1>4, <2>2, <4>1
    <3>2. PICK g \in IdSet : byGroup[g] = v
      BY <3>1 DEF Matched
    <3>3. g # t /\ ~Shifts(g)
      BY <1>2, <1>5, <1>7, <2>2, <3>1, <3>2, OrderFacts
    <3> QED
      BY <1>9, <3>2, <3>3
  <2> QED
    BY <2>1, <2>2
<1> QED
  BY <1>10, <1>12, <1>14, <1>15 DEF Matched

\* What a step of assign leaves alone stays true.
LEMMA AssignKeepsTheRest ==
  ASSUME SearchInv, UNCHANGED <<edges, pairs, untried, withheld, answer>>
  PROVE  Tried' /\ AmbiguityIsFound'
BY DEF SearchInv, Tried, AmbiguityIsFound

LEMMA TakeKeeps ==
  ASSUME SearchInv, NEW t \in IdSet, Take(t)
  PROVE  SearchInv'
<1> USE DEF SearchInv
<1>1. next <= Len(ValueOrder) /\ next \in Nat /\ next >= 1
  BY RunningCall, OrderFacts, SMT DEF Take, Tries, SearchTypeOK
<1>2. next' = next + 1 /\ asked' = Calls(next + 1) /\ seen' = {}
  BY DEF Take
<1>3. next' \in 1..(Len(ValueOrder) + 1)
  BY <1>1, <1>2, OrderFacts, SMT
<1>4. /\ asked' \in Seq(ValueSet)
      /\ next' <= Len(ValueOrder) => Len(asked') = 1 /\ asked'[1] = ValueOrder[next']
      /\ ~(next' <= Len(ValueOrder)) => asked' = <<>> /\ Len(asked') = 0
  <2>1. asked' = Calls(next')
    BY <1>2
  <2>2. ~(next' <= Len(ValueOrder)) => next' > Len(ValueOrder)
    BY <1>3, OrderFacts, SMT
  <2> QED
    BY <1>3, <2>1, <2>2, CallsFacts
<1>5. byGroup' \in [IdSet -> ValueSet \union {Nothing}] /\ Matched'
  BY TakeKeepsMatched
<1>6. SearchTypeOK'
  BY <1>2, <1>3, <1>4, <1>5 DEF SearchTypeOK, Take
<1>7. OnePath'
  <2>1. 2..1 = {} /\ 1..1 = {1} /\ 2..0 = {} /\ 1..0 = {}
    BY SMT
  <2>2. CASE next' <= Len(ValueOrder)
    <3>1. 2..Len(asked') = {} /\ 1..Len(asked') = {1} /\ asked'[1] = Root'
      BY <1>4, <2>1, <2>2 DEF Root
    <3> QED
      BY <1>2, <2>2, <3>1 DEF OnePath
  <2>3. CASE ~(next' <= Len(ValueOrder))
    <3>1. 2..Len(asked') = {} /\ 1..Len(asked') = {} /\ asked' = <<>>
      BY <1>4, <2>1, <2>3
    <3> QED
      BY <1>2, <3>1 DEF OnePath
  <2> QED
    BY <2>2, <2>3
<1>8. Exhausted'
  <2> SUFFICES ASSUME next' <= Len(ValueOrder), NEW v \in Askers'
               PROVE  \E k \in 1..Len(asked') : asked'[k] = v
    BY DEF Exhausted
  <2>1. v = Root' /\ asked'[1] = Root' /\ Len(asked') = 1
    BY <1>2, <1>4 DEF Askers, Root
  <2>2. 1 \in 1..Len(asked')
    BY <2>1, SMT
  <2> QED
    BY <2>1, <2>2
<1>9. Tried' /\ AmbiguityIsFound'
  BY AssignKeepsTheRest DEF Take
<1> QED
  BY <1>5, <1>6, <1>7, <1>8, <1>9

\* The holder that is asked to move has not been asked before.
LEMMA AskKeeps ==
  ASSUME SearchInv, NEW t \in IdSet, Ask(t)
  PROVE  SearchInv'
<1> USE DEF SearchInv
<1> DEFINE n == Len(asked)
           holder == byGroup[t]
<1>1. /\ n \in Nat /\ n >= 1 /\ Last(asked) = asked[n] /\ Last(asked) \in ValueSet
      /\ \A k \in 1..n : asked[k] \in ValueSet
      /\ asked[1] = Root /\ next <= Len(ValueOrder) /\ asked # <<>>
  BY RunningCall DEF Ask, Tries, Searching
<1>2. Root \notin Settled
  BY <1>1, SettledFacts
<1>3. holder \in ValueSet /\ holder # Nothing /\ holder \in Settled
  BY DEF Ask, Matched, SearchTypeOK
<1>4. t \in InForce[asked[n]] /\ t \notin seen
  BY <1>1 DEF Ask, Tries, Untouched
<1>5. UNCHANGED <<edges, byGroup, next, pairs, untried, withheld, answer>>
      /\ seen' = seen \union {t}
  BY DEF Ask
<1>6. /\ asked' \in Seq(ValueSet) /\ Len(asked') = n + 1 /\ asked' # <<>>
      /\ \A k \in 1..n : asked'[k] = asked[k]
      /\ asked'[n + 1] = holder
  <2>1. asked' = Append(asked, holder)
    BY DEF Ask
  <2>2. asked \in Seq(ValueSet)
    BY DEF SearchTypeOK
  <2> QED
    BY <1>3, <2>1, <2>2
<1>7. InForce' = InForce /\ Settled' = Settled /\ Root' = Root
  BY <1>5, SameEdges DEF Settled, Root
<1>8. SearchTypeOK'
  BY <1>5, <1>6 DEF SearchTypeOK
<1>9. Matched'
  BY <1>5, <1>7 DEF Matched
<1>10. ASSUME NEW k \in 1..n PROVE asked[k] # holder
  <2>1. CASE k = 1
    BY <1>1, <1>2, <1>3, <2>1
  <2>2. CASE k # 1
    <3>1. k \in 2..n
      BY <1>1, <2>2, SMT
    <3>2. PICK g \in seen : byGroup[g] = asked[k]
      BY <3>1 DEF OnePath
    <3>3. g \in IdSet /\ g # t
      BY <1>4 DEF SearchTypeOK
    <3> QED
      BY <1>3, <3>2, <3>3 DEF Matched
  <2> QED
    BY <2>1, <2>2
<1>11. OnePath'
  <2>1. next' <= Len(ValueOrder) /\ asked'[1] = Root'
    <3>1. 1 \in 1..n
      BY <1>1, SMT
    <3> QED
      BY <1>1, <1>5, <1>6, <1>7, <3>1
  <2>2. ASSUME NEW k \in 2..Len(asked')
        PROVE  \E g \in seen' : byGroup'[g] = asked'[k] /\ g \in InForce'[asked'[k - 1]]
    <3>1. CASE k = n + 1
      <4>1. k - 1 = n /\ n \in 1..n
        BY <1>1, <3>1, SMT
      <4> QED
        BY <1>4, <1>5, <1>6, <1>7, <3>1, <4>1
    <3>2. CASE k # n + 1
      <4>1. k \in 2..n /\ k \in 1..n /\ k - 1 \in 1..n
        BY <1>1, <1>6, <3>2, SMT
      <4> QED
        BY <1>5, <1>6, <1>7, <4>1 DEF OnePath
    <3> QED
      BY <3>1, <3>2
  <2>3. ASSUME NEW k \in 1..Len(asked'), NEW l \in 1..Len(asked'), asked'[k] = asked'[l]
        PROVE  k = l
    <3>1. (k \in 1..n \/ k = n + 1) /\ (l \in 1..n \/ l = n + 1)
      BY <1>1, <1>6, SMT
    <3> QED
      BY <1>6, <1>10, <2>3, <3>1 DEF OnePath
  <2>4. \A g \in seen' : byGroup'[g] # Nothing
    BY <1>3, <1>5 DEF OnePath
  <2> QED
    BY <2>1, <2>2, <2>3, <2>4 DEF OnePath
<1>12. Exhausted'
  <2> SUFFICES ASSUME NEW v \in Askers'
               PROVE  InForce'[v] \subseteq seen' \/ \E k \in 1..Len(asked') : asked'[k] = v
    BY DEF Exhausted
  <2>1. v \in Askers \/ v = holder
    BY <1>5, <1>7 DEF Askers
  <2>2. n + 1 \in 1..Len(asked') /\ \A k \in 1..n : k \in 1..Len(asked')
    BY <1>1, <1>6, SMT
  <2> QED
    BY <1>1, <1>5, <1>6, <1>7, <2>1, <2>2 DEF Exhausted
<1>13. Tried' /\ AmbiguityIsFound'
  BY <1>5, AssignKeepsTheRest
<1> QED
  BY <1>8, <1>9, <1>11, <1>12, <1>13

\* The calls that are left when one returns.
LEMMA FrontFacts ==
  ASSUME NEW S, NEW s \in Seq(S), s # <<>>
  PROVE  /\ Front(s) \in Seq(S) /\ Len(Front(s)) = Len(s) - 1
         /\ \A k \in 1..(Len(s) - 1) : Front(s)[k] = s[k]
<1>1. Len(s) \in Nat /\ Len(s) # 0 /\ \A k \in 1..Len(s) : s[k] \in S
  BY SMT
<1> DEFINE last == Len(s) - 1
<1>2. last \in Nat /\ \A k \in 1..last : s[k] \in S
  BY <1>1, SMT
<1>3. Front(s) = SubSeq(s, 1, last)
  BY DEF Front
<1> HIDE DEF last
<1>4. /\ SubSeq(s, 1, last) \in Seq(S) /\ Len(SubSeq(s, 1, last)) = last
      /\ \A k \in 1..last : SubSeq(s, 1, last)[k] = s[k]
  BY <1>2, SMT
<1> QED
  BY <1>3, <1>4 DEF last

\* A call that returns false has tried all its edges.
LEMMA GiveUpKeeps ==
  ASSUME SearchInv, GiveUp
  PROVE  SearchInv'
<1> USE DEF SearchInv
<1> DEFINE n == Len(asked)
<1>1. /\ n \in Nat /\ n >= 1 /\ Last(asked) = asked[n]
      /\ asked[1] = Root /\ next <= Len(ValueOrder)
  BY RunningCall DEF GiveUp
<1>2. UNCHANGED <<edges, byGroup, seen, next, pairs, untried, withheld, answer>>
  BY DEF GiveUp
<1>3. /\ asked' \in Seq(ValueSet) /\ Len(asked') = n - 1
      /\ \A k \in 1..(n - 1) : asked'[k] = asked[k]
  <2>1. asked \in Seq(ValueSet) /\ asked # <<>> /\ asked' = Front(asked)
    BY DEF SearchTypeOK, GiveUp, Searching
  <2> QED
    BY <2>1, FrontFacts
<1>4. InForce' = InForce /\ Settled' = Settled /\ Root' = Root /\ Askers' = Askers
  BY <1>2, SameEdges DEF Settled, Root, Askers
<1>5. SearchTypeOK'
  BY <1>2, <1>3 DEF SearchTypeOK
<1>6. Matched'
  BY <1>2, <1>4 DEF Matched
<1>7. \A k \in 1..Len(asked') : k \in 1..n /\ asked'[k] = asked[k]
  BY <1>1, <1>3, SMT
<1>8. OnePath'
  <2>1. asked' # <<>> => next' <= Len(ValueOrder) /\ asked'[1] = Root'
    <3>1. asked' # <<>> => 1 \in 1..Len(asked')
      BY <1>1, <1>3, SMT
    <3> QED
      BY <1>1, <1>2, <1>4, <1>7, <3>1
  <2>2. ASSUME NEW k \in 2..Len(asked')
        PROVE  \E g \in seen' : byGroup'[g] = asked'[k] /\ g \in InForce'[asked'[k - 1]]
    <3>1. k \in 2..n /\ k \in 1..Len(asked') /\ k - 1 \in 1..Len(asked')
      BY <1>1, <1>3, SMT
    <3> QED
      BY <1>2, <1>4, <1>7, <3>1 DEF OnePath
  <2>3. \A k, l \in 1..Len(asked') : asked'[k] = asked'[l] => k = l
    <3> TAKE k, l \in 1..Len(asked')
    <3>1. k \in 1..n /\ l \in 1..n /\ asked'[k] = asked[k] /\ asked'[l] = asked[l]
      BY <1>7
    <3> QED
      BY <3>1 DEF OnePath
  <2>4. \A g \in seen' : byGroup'[g] # Nothing
    BY <1>2 DEF OnePath
  <2> QED
    BY <2>1, <2>2, <2>3, <2>4 DEF OnePath
<1>9. Exhausted'
  <2> SUFFICES ASSUME NEW v \in Askers
               PROVE  InForce[v] \subseteq seen \/ \E k \in 1..Len(asked') : asked'[k] = v
    BY <1>2, <1>4 DEF Exhausted
  <2>1. InForce[asked[n]] \subseteq seen
    BY <1>1 DEF GiveUp, Untouched
  <2>2. ASSUME NEW k \in 1..n, asked[k] = v, k # n
        PROVE  \E l \in 1..Len(asked') : asked'[l] = v
    <3>1. k \in 1..Len(asked')
      BY <1>1, <1>3, <2>2, SMT
    <3> QED
      BY <1>7, <2>2, <3>1
  <2> QED
    BY <1>1, <2>1, <2>2 DEF Exhausted
<1>10. Tried' /\ AmbiguityIsFound'
  BY <1>2, AssignKeepsTheRest
<1> QED
  BY <1>5, <1>6, <1>8, <1>9, <1>10

\* A search that succeeds has placed every value.
LEMMA FoundMatches ==
  ASSUME SearchInv, Succeeded
  PROVE  Found \in Perfect(ValueSet, IdSet, InForce)
<1>1. Settled = ValueSet
  BY SettledFacts DEF SearchInv
<1> QED
  BY <1>1, HoldersMatch DEF SearchInv, Found

\* If it fails, no matching has edges in force only.
LEMMA NoneInForce ==
  ASSUME SearchInv, ~Searching, ~Succeeded, NEW f \in Perfect(ValueSet, IdSet, edges)
  PROVE  withheld \in ValueSet /\ f[withheld] = pairs[withheld]
<1> USE DEF SearchInv
<1> SUFFICES ASSUME ~(withheld \in ValueSet /\ f[withheld] = pairs[withheld])
             PROVE  FALSE
  OBVIOUS
<1> DEFINE some == Settled \union {Root}
<1>1. next <= Len(ValueOrder)
  BY OrderFacts, SMT DEF Succeeded, SearchTypeOK
<1>2. some \in SUBSET ValueSet
  BY <1>1, SettledFacts
<1>3. \A v \in some : f[v] \in InForce[v]
  BY <1>2, InForceFacts DEF Perfect
<1>4. [v \in some |-> f[v]] \in Perfect(some, IdSet, InForce)
  BY <1>2, <1>3, Restricted
<1> QED
  BY <1>4, GivenUp

LEMMA NoMatchingKeeps ==
  ASSUME SearchInv, NoMatching
  PROVE  SearchInv'
<1> USE DEF SearchInv
<1>1. UNCHANGED <<edges, byGroup, asked, seen, next, pairs, untried, withheld>>
      /\ answer' = "none"
  BY DEF NoMatching
<1>2. Perfect(ValueSet, IdSet, edges) = {}
  BY NoneInForce, OrderFacts DEF NoMatching, Over
<1>3. InForce' = InForce /\ Settled' = Settled /\ Root' = Root /\ Askers' = Askers
  BY <1>1, SameEdges DEF Settled, Root, Askers
<1>4. Matched' /\ OnePath' /\ Exhausted'
  BY <1>1, <1>3 DEF Matched, OnePath, Exhausted
<1>5. Tried' /\ SearchTypeOK'
  BY <1>1 DEF Tried, SearchTypeOK, Answers
<1>6. AmbiguityIsFound'
  BY <1>1, <1>2 DEF AmbiguityIsFound
<1> QED
  BY <1>4, <1>5, <1>6

LEMMA AnotherMatchingKeeps ==
  ASSUME SearchInv, AnotherMatching
  PROVE  SearchInv'
<1> USE DEF SearchInv
<1>1. UNCHANGED <<edges, byGroup, asked, seen, next, pairs, untried, withheld>>
      /\ answer' = "ambiguous"
  BY DEF AnotherMatching
<1>2. withheld \in ValueSet /\ pairs \in Perfect(ValueSet, IdSet, edges)
  BY DEF AnotherMatching, Tried, SearchTypeOK
<1>3. Found \in Perfect(ValueSet, IdSet, InForce)
  BY FoundMatches DEF AnotherMatching
<1>4. Found \in Perfect(ValueSet, IdSet, edges) /\ Found[withheld] # pairs[withheld]
  BY <1>2, <1>3, InForceFacts DEF Perfect
<1>5. InForce' = InForce /\ Settled' = Settled /\ Root' = Root /\ Askers' = Askers
  BY <1>1, SameEdges DEF Settled, Root, Askers
<1>6. Matched' /\ OnePath' /\ Exhausted'
  BY <1>1, <1>5 DEF Matched, OnePath, Exhausted
<1>7. Tried' /\ SearchTypeOK'
  BY <1>1 DEF Tried, SearchTypeOK, Answers
<1>8. AmbiguityIsFound'
  BY <1>1, <1>2, <1>4 DEF AmbiguityIsFound
<1> QED
  BY <1>6, <1>7, <1>8

LEMMA OnlyMatchingKeeps ==
  ASSUME SearchInv, OnlyMatching
  PROVE  SearchInv'
<1> USE DEF SearchInv
<1>1. UNCHANGED <<edges, byGroup, asked, seen, next, pairs, untried, withheld>>
      /\ answer' = "only"
  BY DEF OnlyMatching
<1>2. pairs \in Perfect(ValueSet, IdSet, edges)
  BY DEF OnlyMatching, Tried
<1>3. ASSUME NEW f \in Perfect(ValueSet, IdSet, edges)
      PROVE  f = pairs
  <2>1. f \in [ValueSet -> IdSet] /\ pairs \in [ValueSet -> IdSet]
    BY <1>2 DEF Perfect
  <2>2. \A v \in ValueSet : f[v] = pairs[v]
    BY NoneInForce DEF OnlyMatching, Over, Tried
  <2> QED
    BY <2>1, <2>2
<1>4. InForce' = InForce /\ Settled' = Settled /\ Root' = Root /\ Askers' = Askers
  BY <1>1, SameEdges DEF Settled, Root, Askers
<1>5. Matched' /\ OnePath' /\ Exhausted'
  BY <1>1, <1>4 DEF Matched, OnePath, Exhausted
<1>6. Tried' /\ SearchTypeOK'
  BY <1>1 DEF Tried, SearchTypeOK, Answers
<1>7. Perfect(ValueSet, IdSet, edges) = {pairs}
  BY <1>2, <1>3
<1>8. AmbiguityIsFound'
  BY <1>1, <1>7 DEF AmbiguityIsFound
<1> QED
  BY <1>5, <1>6, <1>8

\* The search starts over without one edge more, and with what the last one showed.
LEMMA WithholdKeeps ==
  ASSUME SearchInv, NEW w \in ValueSet, Withhold(w)
  PROVE  SearchInv'
<1> USE DEF SearchInv
<1>1. /\ next' = 1 /\ byGroup' = Nowhere /\ asked' = Calls(1) /\ seen' = {}
      /\ withheld' = w /\ untried' = untried \ {w} /\ w \in untried
      /\ pairs' = IF withheld = Nothing THEN Found ELSE pairs
      /\ edges' = edges /\ answer' = answer /\ answer = "open"
      /\ ~Searching
  BY DEF Withhold, Over
<1>2. /\ byGroup' \in [IdSet -> ValueSet \union {Nothing}]
      /\ asked' \in Seq(ValueSet) /\ next' \in 1..(Len(ValueOrder) + 1)
      /\ Matched' /\ OnePath' /\ Exhausted'
  <2>1. (next = 1 /\ byGroup = Nowhere /\ asked = Calls(1) /\ seen = {})'
    BY <1>1 DEF Nowhere, Calls
  <2>2. ((next = 1 /\ byGroup = Nowhere /\ asked = Calls(1) /\ seen = {}) =>
           /\ byGroup \in [IdSet -> ValueSet \union {Nothing}]
           /\ asked \in Seq(ValueSet) /\ next \in 1..(Len(ValueOrder) + 1)
           /\ Matched /\ OnePath /\ Exhausted)'
    BY FreshSearch, PTL
  <2> QED
    BY <2>1, <2>2
<1>3. pairs' \in Perfect(ValueSet, IdSet, edges)
  <2>1. CASE withheld = Nothing
    <3>1. Succeeded /\ pairs' = Found
      BY <1>1, <2>1 DEF Withhold
    <3>2. InForce = edges
      BY <2>1 DEF InForce
    <3> QED
      BY <3>1, <3>2, FoundMatches
  <2>2. CASE withheld # Nothing
    BY <1>1, <2>2 DEF Tried
  <2> QED
    BY <2>1, <2>2
<1>4. ASSUME NEW f \in Perfect(ValueSet, IdSet, edges),
             NEW v \in ValueSet \ (untried' \union {w})
      PROVE  f[v] = pairs'[v]
  <2>1. v \notin untried
    BY <1>1
  <2>2. withheld # Nothing /\ pairs' = pairs
    BY <1>1, <2>1 DEF Tried
  <2>3. ~Succeeded
    BY <2>2 DEF Withhold
  <2> QED
    BY <1>1, <2>1, <2>2, <2>3, NoneInForce DEF Tried
<1>5. SearchTypeOK'
  <2>1. pairs' \in [ValueSet -> IdSet]
    BY <1>3 DEF Perfect
  <2>2. pairs' \in [ValueSet -> IdSet \union {Nothing}]
    BY <2>1
  <2> QED
    BY <1>1, <1>2, <2>2 DEF SearchTypeOK
<1>6. Tried'
  BY <1>1, <1>3, <1>4, OrderFacts DEF Tried
<1>7. AmbiguityIsFound'
  BY <1>1 DEF AmbiguityIsFound
<1> QED
  BY <1>2, <1>5, <1>6, <1>7

LEMMA SearchStands == SearchInv /\ UNCHANGED searchVars => SearchInv'
<1> SUFFICES ASSUME SearchInv, UNCHANGED searchVars PROVE SearchInv'
  OBVIOUS
<1>1. UNCHANGED <<edges, byGroup, asked, seen, next, pairs, untried, withheld, answer>>
  BY DEF searchVars
<1>2. InForce' = InForce /\ Settled' = Settled /\ Root' = Root /\ Askers' = Askers
  BY <1>1, SameEdges DEF Settled, Root, Askers
<1>3. Matched' /\ OnePath' /\ Exhausted'
  BY <1>1, <1>2 DEF SearchInv, Matched, OnePath, Exhausted
<1> QED
  BY <1>1, <1>3 DEF SearchInv, Tried, AmbiguityIsFound, SearchTypeOK

LEMMA SearchStep == SearchInv /\ [SearchNext]_searchVars => SearchInv'
<1> SUFFICES ASSUME SearchInv, [SearchNext]_searchVars PROVE SearchInv'
  OBVIOUS
<1>1. ASSUME NEW g \in IdSet, Take(g) PROVE SearchInv'
  BY <1>1, TakeKeeps
<1>2. ASSUME NEW g \in IdSet, Ask(g) PROVE SearchInv'
  BY <1>2, AskKeeps
<1>3. ASSUME NEW v \in ValueSet, Withhold(v) PROVE SearchInv'
  BY <1>3, WithholdKeeps
<1>4. CASE GiveUp
  BY <1>4, GiveUpKeeps
<1>5. CASE NoMatching
  BY <1>5, NoMatchingKeeps
<1>6. CASE AnotherMatching
  BY <1>6, AnotherMatchingKeeps
<1>7. CASE OnlyMatching
  BY <1>7, OnlyMatchingKeeps
<1>8. CASE UNCHANGED searchVars
  BY <1>8, SearchStands
<1> QED
  BY <1>1, <1>2, <1>3, <1>4, <1>5, <1>6, <1>7, <1>8 DEF SearchNext

\* The search is never wrong about what can be placed: matching returns false only for
\* values that no assignment of groups could serve, and what it builds is a matching.
THEOREM SearchPlaces == SearchSpec => []PlacesAllItCan
<1>1. SearchInv => PlacesAllItCan
  <2> SUFFICES ASSUME SearchInv PROVE PlacesAllItCan
    OBVIOUS
  <2>1. ~Searching /\ ~Succeeded =>
          Perfect(Settled \union {ValueOrder[next]}, IdSet, InForce) = {}
    BY GivenUp DEF SearchInv, Root
  <2> QED
    BY <2>1, HoldersMatch DEF SearchInv, PlacesAllItCan
<1> QED
  BY <1>1, SearchStarts, SearchStep, PTL DEF SearchSpec

\* match answers what the definition does: none when there is no matching, the one
\* there is, or that there are several.
THEOREM SearchDecides == SearchSpec => []AmbiguityIsFound
<1>1. SearchInv => AmbiguityIsFound
  BY DEF SearchInv
<1> QED
  BY <1>1, SearchStarts, SearchStep, PTL DEF SearchSpec

-------------------------------------------------------------------------------
(***************************************************************************)
(* The join.                                                               *)
(***************************************************************************)
PoolTypeOK ==
  /\ cluster \in Clusters
  /\ home \in [Nodes -> Groups \union {Static, Gone}]
  /\ ~cluster.rollout => labelled = Nodes

LEMMA PoolTypes == Spec => []PoolTypeOK
<1>1. Init => PoolTypeOK
  BY DEF Init, PoolTypeOK
<1>2. PoolTypeOK /\ [Next]_vars => PoolTypeOK'
  <2> SUFFICES ASSUME PoolTypeOK, [Next]_vars PROVE PoolTypeOK'
    OBVIOUS
  <2> USE DEF PoolTypeOK
  <2>1. ASSUME NEW n \in Nodes, LowerTarget(n) \/ Relabel(n) PROVE PoolTypeOK'
    BY <2>1 DEF LowerTarget, Relabel
  <2>2. ASSUME NEW n \in Nodes, Deregister(n) PROVE PoolTypeOK'
    BY <2>2 DEF Deregister
  <2>3. ASSUME NEW n \in Nodes, NEW g \in Groups, Register(n, g) PROVE PoolTypeOK'
    BY <2>3 DEF Register
  <2>4. ASSUME NEW g \in Groups, ScaleUp(g) \/ Count(g) PROVE PoolTypeOK'
    BY <2>4 DEF ScaleUp, Count
  <2>5. CASE Dies \/ Returns \/ UNCHANGED vars
    BY <2>5 DEF Dies, Returns, vars
  <2> QED
    BY <2>1, <2>2, <2>3, <2>4, <2>5 DEF Next
<1> QED
  BY <1>1, <1>2, PTL DEF Spec

\* Where the status and the nodes agree, the values of a provider's key are those of
\* the pools with a node, one each, carried by the nodes of that pool.
LEMMA ProviderValues ==
  ASSUME PoolTypeOK, NEW p \in Keys, ProviderKey(p), InStep
  PROVE  /\ \A n \in Present : home[n] \in Groups \union {Static}
         /\ \A n \in Present : Label(n, p) = LabelsOf[home[n]][p]
         /\ \A n \in Present : home[n] \in Groups => home[n] \in LiveGroups
         /\ \A g \in Groups : LabelsOf[g][p] \in Names
         /\ \A g \in Groups : Carrying(p, LabelsOf[g][p]) = Members(g)
         /\ Values(p) = {LabelsOf[g][p] : g \in LiveGroups}
         /\ NoValue \notin Values(p)
<1>1. \A n \in Present : home[n] \in Groups \union {Static} /\ n \in Nodes
  BY DEF PoolTypeOK, Present
<1>2. \A n \in Present : Label(n, p) = LabelsOf[home[n]][p]
  BY DEF Label, ProviderKey
<1>3. \A n \in Present : home[n] \in Groups => home[n] \in LiveGroups
  BY <1>1 DEF InStep, Members
<1>4. \A g \in Groups : LabelsOf[g][p] \in Names /\ LabelsOf[g][p] # NoValue
  <2>1. Inside \in [Groups -> SUBSET Names]
    BY PoolAssumption DEF PoolTypeOK, Inside
  <2> QED
    BY <2>1, PoolAssumption DEF ProviderKey
<1>5. \A n \in Present, g \in Groups : Label(n, p) = LabelsOf[g][p] => home[n] = g
  BY <1>1, <1>2, <1>4 DEF ProviderKey
<1>6. \A g \in Groups : Carrying(p, LabelsOf[g][p]) = Members(g)
  <2> TAKE g \in Groups
  <2>1. ASSUME NEW n \in Members(g) PROVE n \in Carrying(p, LabelsOf[g][p])
    <3>1. n \in Present /\ home[n] = g
      BY PoolAssumption DEF Members, Present
    <3> QED
      BY <1>2, <3>1 DEF Carrying
  <2>2. ASSUME NEW n \in Carrying(p, LabelsOf[g][p]) PROVE n \in Members(g)
    BY <1>1, <1>5 DEF Carrying, Members
  <2> QED
    BY <2>1, <2>2
<1>7. NoValue \notin Names
  BY PoolAssumption
<1>8. Values(p) = {LabelsOf[g][p] : g \in LiveGroups}
  <2>1. ASSUME NEW v \in Values(p) PROVE \E g \in LiveGroups : v = LabelsOf[g][p]
    <3>1. PICK n \in Present : Label(n, p) = v /\ v \in Names
      BY DEF Values, Carrying
    <3>2. home[n] \in Groups
      BY <1>1, <1>2, <1>7, <3>1 DEF ProviderKey
    <3> QED
      BY <1>2, <1>3, <3>1, <3>2
  <2>2. ASSUME NEW g \in LiveGroups PROVE LabelsOf[g][p] \in Values(p)
    <3>1. g \in Groups /\ Members(g) # {}
      BY DEF InStep, LiveGroups
    <3> QED
      BY <1>4, <1>6, <3>1 DEF Values
  <2> QED
    BY <2>1, <2>2
<1> QED
  BY <1>1, <1>2, <1>3, <1>4, <1>6, <1>7, <1>8 DEF Values

\* A provider's key resolves, and in no other way: of the pools that another matching
\* mixes up, one has a name that none of the others' identifiers would admit.
LEMMA ProviderKeyResolves ==
  ASSUME PoolTypeOK, NEW p \in Keys, ProviderKey(p), InStep
  PROVE  /\ p \in Winners
         /\ DOMAIN Join(p).groups = Values(p) /\ Join(p).key = p
         /\ \A g \in LiveGroups : Join(p).groups[LabelsOf[g][p]] = g
<1> DEFINE own == [g \in LiveGroups |-> LabelsOf[g][p]]
           back == [v \in Values(p) |-> CHOOSE g \in LiveGroups : own[g] = v]
<1>1. LiveGroups \subseteq Groups
  BY DEF LiveGroups
<1>2. \A g, h \in LiveGroups : own[g] = own[h] => g = h
  BY <1>1 DEF ProviderKey
<1>3. \A v \in Values(p) : \E g \in LiveGroups : own[g] = v
  BY ProviderValues
<1>4. \A g \in LiveGroups : own[g] \in Values(p) /\ own[g] = LabelsOf[g][p]
  BY ProviderValues
<1>5. \A v \in Values(p) : back[v] \in LiveGroups /\ own[back[v]] = v
  BY <1>3
<1>6. \A g \in LiveGroups : back[own[g]] = g
  BY <1>2, <1>4, <1>5
<1>7. back \in [Values(p) -> LiveGroups]
  BY <1>5
<1>8. Cardinality(Values(p)) = Cardinality(LiveGroups)
  <2>1. IsFiniteSet(LiveGroups)
    BY <1>1, PoolAssumption, FS_Subset
  <2>2. own \in Bijection(LiveGroups, Values(p))
    BY <1>2, <1>3, <1>4 DEF Bijection, Injection, Surjection, IsInjective
  <2>3. ExistsBijection(LiveGroups, Values(p))
    BY <2>2 DEF ExistsBijection
  <2> QED
    BY <2>1, <2>3, FS_Bijection
<1> HIDE DEF own, back
<1>9. \A v \in Values(p) : back[v] \in Edges(p)[v]
  <2> TAKE v \in Values(p)
  <2>1. back[v] \in LiveGroups /\ v = LabelsOf[back[v]][p] /\ back[v] \in Groups
    BY <1>1, <1>4, <1>5
  <2>2. v \in Inside[back[v]]
    BY <2>1 DEF ProviderKey
  <2>3. Plausible(back[v], Cardinality(Carrying(p, v)))
    <3>1. Carrying(p, v) = Members(back[v])
      BY <2>1, ProviderValues
    <3> QED
      BY <2>1, <3>1 DEF InStep
  <2> QED
    BY <2>1, <2>2, <2>3 DEF Edges
<1>10. back \in JoinsBy(p)
  <2>1. \A v, w \in Values(p) : back[v] = back[w] => v = w
    BY <1>5
  <2> QED
    BY <1>7, <1>9, <2>1 DEF JoinsBy, Perfect
<1>11. ASSUME NEW f \in JoinsBy(p) PROVE f = back
  <2>1. /\ f \in [Values(p) -> LiveGroups]
        /\ \A v \in Values(p) : f[v] \in Edges(p)[v]
        /\ \A v, w \in Values(p) : f[v] = f[w] => v = w
    BY DEF JoinsBy, Perfect
  <2> DEFINE mixed == {g \in LiveGroups : f[own[g]] # g}
  <2>2. mixed = {}
    <3> SUFFICES ASSUME mixed # {} PROVE FALSE
      OBVIOUS
    <3>1. mixed \in SUBSET Groups
      BY <1>1
    <3> HIDE DEF mixed
    <3>2. PICK g \in mixed : \A h \in mixed : LabelsOf[g][p] \in Inside[h] => h = g
      BY <3>1 DEF ProviderKey
    <3> USE DEF mixed
    <3>3. g \in LiveGroups /\ f[own[g]] # g /\ own[g] \in Values(p)
      BY <1>4
    <3>4. f[own[g]] \in LiveGroups /\ own[g] \in Inside[f[own[g]]]
      BY <2>1, <3>3 DEF Edges
    <3>5. f[own[g]] \in mixed
      <4>1. own[f[own[g]]] # own[g]
        BY <1>2, <3>3, <3>4
      <4>2. f[own[f[own[g]]]] # f[own[g]]
        BY <1>4, <2>1, <3>3, <3>4, <4>1
      <4> QED
        BY <3>4, <4>2
    <3> QED
      BY <1>4, <3>2, <3>3, <3>4, <3>5
  <2>3. \A v \in Values(p) : f[v] = back[v]
    BY <1>5, <2>2
  <2> QED
    BY <1>7, <2>1, <2>3
<1>12. JoinsBy(p) = {back}
  BY <1>10, <1>11
<1>13. (CHOOSE f \in JoinsBy(p) : TRUE) = back
  BY <1>12
<1>14. Join(p).groups = back /\ Join(p).key = p
  BY <1>13 DEF Join, Mapping
<1>15. p \in Winners
  BY <1>8, <1>12 DEF Winners, Resolves
<1> QED
  BY <1>4, <1>6, <1>7, <1>14, <1>15

\* Whichever key is reported, it agrees with the provider's about every node.
LEMMA ProviderKeysDecide ==
  ASSUME PoolTypeOK
  PROVE  ProviderKeysAreRight
<1> DEFINE m == ResolveMapping
<1> SUFFICES ASSUME m.source = "name", InStep, NEW p \in Keys, ProviderKey(p),
                    NEW n \in Present, Placed(m, n)
             PROVE  GroupOf(m, n) = home[n]
  BY DEF ProviderKeysAreRight
<1>1. m = Derive
  BY DEF ResolveMapping, Mapping, AsStated
<1>2. GroupOf(m, n) = GroupOf(Join(p), n)
  <2>1. p \in Winners
    BY ProviderKeyResolves
  <2>2. m = Join(First) /\ GroupOf(Join(p), n) = GroupOf(Join(First), n)
    BY <1>1, <2>1 DEF Derive, Mapping
  <2> QED
    BY <2>2
<1> HIDE DEF m
<1>3. CASE home[n] \in Groups
  <2>1. home[n] \in LiveGroups /\ Label(n, p) = LabelsOf[home[n]][p]
    BY <1>3, ProviderValues
  <2>2. Label(n, p) \in Values(p)
    BY <2>1, ProviderValues
  <2>3. Join(p).groups[Label(n, p)] = home[n]
    BY <2>1, ProviderKeyResolves
  <2>4. Join(p).key = p /\ DOMAIN Join(p).groups = Values(p)
    BY ProviderKeyResolves
  <2> QED
    BY <1>2, <2>2, <2>3, <2>4 DEF GroupOf
<1>4. CASE home[n] \notin Groups
  <2>1. home[n] = Static /\ Label(n, p) = NoValue
    BY <1>4, ProviderValues DEF ProviderKey
  <2>2. NoValue \notin Values(p) /\ Join(p).key = p /\ DOMAIN Join(p).groups = Values(p)
    BY ProviderKeyResolves, ProviderValues
  <2>3. GroupOf(Join(p), n) = NoValue
    BY <2>1, <2>2 DEF GroupOf
  <2>4. NoValue \notin Groups
    BY PoolAssumption
  <2> QED
    BY <1>2, <2>3, <2>4 DEF Placed
<1> QED
  BY <1>3, <1>4

\* Where a provider writes a key of its own, derive joins no node to a pool it is not
\* in, however the pools scale and whatever else the nodes carry.
THEOREM ProviderKeysRight == Spec => []ProviderKeysAreRight
<1>1. PoolTypeOK => ProviderKeysAreRight
  BY ProviderKeysDecide
<1> QED
  BY <1>1, PoolTypes, PTL

\* The key that is reported is one of those that resolve.
LEMMA FirstWins == Winners # {} => First \in Winners
<1> SUFFICES ASSUME Winners # {} PROVE First \in Winners
  OBVIOUS
<1>1. /\ DOMAIN KeyOrder = 1..Len(KeyOrder) /\ Len(KeyOrder) \in Nat
      /\ \A i \in DOMAIN KeyOrder : KeyOrder[i] \in Keys
      /\ \A key \in Keys : \E i \in DOMAIN KeyOrder : KeyOrder[i] = key
  BY PoolAssumption DEF Keys, ToSet
<1> DEFINE S == {i \in DOMAIN KeyOrder : Resolves(KeyOrder[i])}
<1>2. S \in SUBSET Nat /\ S # {}
  BY <1>1 DEF Winners
<1>3. PICK x \in S : \A y \in S : <<y, x>> \notin OpToRel(<, Nat)
  BY <1>2, NatLessThanWellFounded, WFMin, Zenon
<1>4. x \in 1..Len(KeyOrder) /\ Resolves(KeyOrder[x]) /\ x \in Nat
  BY <1>1, <1>2
<1>5. ASSUME NEW j \in 1..(x - 1) PROVE ~Resolves(KeyOrder[j])
  <2>1. j \in Nat /\ j < x /\ j \in DOMAIN KeyOrder
    BY <1>1, <1>4
  <2>2. <<j, x>> \in OpToRel(<, Nat)
    BY <1>4, <2>1 DEF OpToRel
  <2> QED
    BY <1>3, <2>1, <2>2
<1> DEFINE first == CHOOSE i \in DOMAIN KeyOrder :
                      /\ Resolves(KeyOrder[i])
                      /\ \A j \in 1..(i - 1) : ~Resolves(KeyOrder[j])
<1>6. first \in DOMAIN KeyOrder /\ Resolves(KeyOrder[first])
  BY <1>1, <1>4, <1>5
<1>7. First = KeyOrder[first]
  BY DEF First
<1> HIDE DEF first
<1> QED
  BY <1>1, <1>6, <1>7 DEF Winners

\* A join gives its values published groups.
LEMMA JoinsReachGroups ==
  ASSUME NEW key \in Winners
  PROVE  /\ Join(key).key = key /\ Join(key).source = "name"
         /\ \A v \in DOMAIN Join(key).groups : Join(key).groups[v] \in LiveGroups
<1>1. PICK f : JoinsBy(key) = {f}
  BY DEF Winners, Resolves
<1>2. (CHOOSE x \in JoinsBy(key) : TRUE) = f
  BY <1>1
<1>3. Join(key).groups = f /\ Join(key).key = key /\ Join(key).source = "name"
  BY <1>2 DEF Join, Mapping
<1>4. f \in [Values(key) -> LiveGroups]
  BY <1>1 DEF JoinsBy, Perfect
<1> QED
  BY <1>3, <1>4

\* The three ways a join that is accepted may have come about.
LEMMA ThreeJoins ==
  ASSUME Accepted
  PROVE  \/ ResolveMapping = Mapping("unknown", IDLabel, NoGroups)
         \/ /\ ResolveMapping.key = IDLabel /\ ResolveMapping.groups = Stated
         \/ /\ \A n \in Present : GroupOf(AsStated, n) \notin LiveGroups
            /\ First \in Winners /\ ResolveMapping = Join(First)
<1>1. CASE NoEvidence
  BY <1>1 DEF ResolveMapping
<1>2. CASE ~NoEvidence /\ {n \in Present : GroupOf(AsStated, n) \in LiveGroups} = {}
  <2>1. ResolveMapping = Derive
    BY <1>2 DEF ResolveMapping
  <2>2. ResolveMapping.source # "nothing"
    BY DEF Accepted, NoMapping
  <2>3. Winners # {} /\ ResolveMapping = Join(First)
    BY <2>1, <2>2 DEF Derive, Mapping
  <2> QED
    BY <1>2, <2>3, FirstWins
<1>3. CASE ~NoEvidence /\ {n \in Present : GroupOf(AsStated, n) \in LiveGroups} # {}
  BY <1>3 DEF ResolveMapping, AsStated, Mapping
<1> QED
  BY <1>1, <1>2, <1>3

\* What a cluster's description consists of.
LEMMA ClusterFacts ==
  ASSUME PoolTypeOK
  PROVE  /\ \A g \in Groups \union {Static}, key \in Keys :
              LabelsOf[g][key] \in Names \union {NoValue}
         /\ DOMAIN Stated \subseteq Names /\ DOMAIN ByPool \subseteq Names
         /\ \A name \in DOMAIN ByPool : ByPool[name] \in Groups
         /\ NoValue \notin Names /\ Groups \subseteq Names
         /\ Static \notin Groups /\ Gone \notin Groups
         /\ IDLabel \in Keys /\ NameLabel \in Keys
         /\ \A n \in Present : n \in Nodes /\ home[n] \in Groups \union {Static}
         /\ LiveGroups \subseteq Groups
<1>1. LabelsOf \in [Groups \union {Static} -> [Keys -> Names \union {NoValue}]]
  BY PoolAssumption DEF PoolTypeOK, LabelsOf
<1>2. /\ DOMAIN Stated \subseteq Names /\ DOMAIN ByPool \subseteq Names
      /\ \A name \in DOMAIN ByPool : ByPool[name] \in Groups
  BY PoolAssumption DEF PoolTypeOK, Stated, ByPool
<1>3. \A n \in Present : n \in Nodes /\ home[n] \in Groups \union {Static}
  BY DEF PoolTypeOK, Present
<1>4. LiveGroups \subseteq Groups
  BY DEF LiveGroups
<1> QED
  BY <1>1, <1>2, <1>3, <1>4, PoolAssumption

\* A node carries a label of its pool, or none.
LEMMA LabelFacts ==
  ASSUME PoolTypeOK, NEW n \in Present, NEW key \in Keys
  PROVE  /\ Label(n, key) \in {LabelsOf[home[n]][key], NoValue}
         /\ key # IDLabel \/ n \in labelled => Label(n, key) = LabelsOf[home[n]][key]
         /\ key = IDLabel /\ n \notin labelled => Label(n, key) = NoValue
BY DEF Label

\* Under the label for the identifier, read as it is or through the table, a node is in
\* its pool or in none, and in none without the label.
LEMMA IdentifiersAreTrue ==
  ASSUME PoolTypeOK, WellNamed, NEW m, m.key = IDLabel,
         m.groups = NoGroups \/ m.groups = Stated,
         NEW n \in Present, Placed(m, n)
  PROVE  GroupOf(m, n) = home[n] /\ n \in labelled /\ home[n] \in Groups
<1> DEFINE value == Label(n, IDLabel)
<1>1. value # NoValue
  <2>1. NoValue \notin DOMAIN Stated /\ NoValue \notin DOMAIN NoGroups /\ NoValue \notin Groups
    BY ClusterFacts DEF NoGroups
  <2> QED
    BY <2>1 DEF Placed, GroupOf
<1>2. n \in labelled /\ value = LabelsOf[home[n]][IDLabel]
  BY <1>1, LabelFacts, ClusterFacts
<1>3. home[n] \in Groups
  BY <1>1, <1>2, ClusterFacts DEF WellNamed
<1>4. CASE value \in DOMAIN m.groups
  <2>1. m.groups = Stated
    BY <1>4 DEF NoGroups
  <2> QED
    BY <1>2, <1>3, <1>4, <2>1 DEF WellNamed, GroupOf
<1>5. CASE value \notin DOMAIN m.groups
  <2>1. GroupOf(m, n) = value /\ value \in Groups
    BY <1>5 DEF GroupOf, Placed
  <2> QED
    BY <1>2, <1>3, <2>1 DEF WellNamed
<1> QED
  BY <1>2, <1>3, <1>4, <1>5

\* However a join that is accepted came about, it takes a node for one of its own pool
\* or of none; and all the nodes placed in a pool have the same names.
LEMMA PlacedAtHome ==
  ASSUME PoolTypeOK, WellNamed, Accepted, InStep
  PROVE  LET m == ResolveMapping
         IN  /\ m.key \in Keys
             /\ \A n \in Present : Placed(m, n) =>
                  GroupOf(m, n) = home[n] /\ home[n] \in Groups
             /\ \A n, l \in Present, key \in {m.key, IDLabel, NameLabel} :
                  /\ Placed(m, n) /\ home[l] = home[n] /\ Label(l, key) # NoValue
                  => Label(n, key) = Label(l, key)
             /\ \A n \in Present : GroupOf(m, n) \in Groups \union {Label(n, m.key), NoValue}
<1> DEFINE m == ResolveMapping
<1>1. CASE m.key = IDLabel /\ (m.groups = NoGroups \/ m.groups = Stated)
  <2>1. \A n \in Present : Placed(m, n) =>
          GroupOf(m, n) = home[n] /\ n \in labelled /\ home[n] \in Groups
    BY <1>1, IdentifiersAreTrue
  <2>2. ASSUME NEW n \in Present, NEW l \in Present, NEW key \in {IDLabel, NameLabel},
               Placed(m, n), home[l] = home[n], Label(l, key) # NoValue
        PROVE  Label(n, key) = Label(l, key)
    BY <2>1, <2>2, LabelFacts, ClusterFacts
  <2>3. ASSUME NEW n \in Present
        PROVE  GroupOf(m, n) \in Groups \union {Label(n, m.key), NoValue}
    <3>1. CASE Label(n, IDLabel) \in DOMAIN m.groups
      <4>1. m.groups = Stated /\ Label(n, IDLabel) # NoValue
        BY <1>1, <3>1, ClusterFacts DEF NoGroups
      <4>2. Label(n, IDLabel) = LabelsOf[home[n]][IDLabel] /\ home[n] \in Groups
        BY <4>1, LabelFacts, ClusterFacts DEF WellNamed
      <4> QED
        BY <1>1, <3>1, <4>1, <4>2 DEF GroupOf, WellNamed
    <3>2. CASE Label(n, IDLabel) \notin DOMAIN m.groups
      BY <1>1, <3>2 DEF GroupOf
    <3> QED
      BY <3>1, <3>2
  <2> QED
    BY <1>1, <2>1, <2>2, <2>3, ClusterFacts
<1>2. CASE /\ \A n \in Present : GroupOf(AsStated, n) \notin LiveGroups
           /\ First \in Winners /\ m = Join(First)
  <2>1. /\ m.key = First /\ First \in Keys /\ m.source = "name"
        /\ \A v \in DOMAIN m.groups : m.groups[v] \in LiveGroups
    BY <1>2, JoinsReachGroups DEF Winners
  <2>2. \A n \in Present : Placed(m, n) => GroupOf(m, n) = home[n]
    BY <2>1, ProviderKeysDecide DEF ProviderKeysAreRight, WellNamed
\* A node with an identifier of its pool would have settled the join.
  <2>3. ASSUME NEW l \in Present, home[l] \in Groups, cluster.rollout
        PROVE  Label(l, IDLabel) = NoValue
    <3> SUFFICES ASSUME Label(l, IDLabel) # NoValue PROVE FALSE
      OBVIOUS
    <3>1. Label(l, IDLabel) = LabelsOf[home[l]][IDLabel]
      BY LabelFacts, ClusterFacts
    <3>2. GroupOf(AsStated, l) = home[l]
      BY <2>3, <3>1 DEF WellNamed, AsStated, Mapping, GroupOf
    <3>3. home[l] \in LiveGroups
      BY <2>3, ClusterFacts DEF InStep, Members
    <3> QED
      BY <1>2, <3>2, <3>3
  <2>4. ASSUME NEW n \in Present, NEW l \in Present, NEW key \in {m.key, IDLabel, NameLabel},
               Placed(m, n), home[l] = home[n], Label(l, key) # NoValue
        PROVE  Label(n, key) = Label(l, key)
    <3>1. home[l] \in Groups
      BY <2>2, <2>4 DEF Placed
    <3>2. key \in Keys /\ (key # IDLabel \/ ~cluster.rollout)
      BY <2>1, <2>3, <2>4, <3>1, ClusterFacts
    <3>3. key # IDLabel \/ (n \in labelled /\ l \in labelled)
      BY <3>2 DEF PoolTypeOK, Present
    <3> QED
      BY <2>4, <3>2, <3>3, LabelFacts
  <2>5. \A n \in Present : GroupOf(m, n) \in Groups \union {Label(n, m.key), NoValue}
    BY <2>1, ClusterFacts DEF GroupOf
  <2> QED
    BY <2>1, <2>2, <2>4, <2>5 DEF Placed
<1>3. Mapping("unknown", IDLabel, NoGroups).key = IDLabel
      /\ Mapping("unknown", IDLabel, NoGroups).groups = NoGroups
  BY DEF Mapping
<1> QED
  BY <1>1, <1>2, <1>3, ThreeJoins

\* An override whose name a node answers to is meant for its pool.
LEMMA AnswersToItsOwn ==
  ASSUME PoolTypeOK, WellNamed, Accepted, InStep,
         NEW n \in Present, Placed(ResolveMapping, n),
         NEW name \in DOMAIN ByPool, name \in PoolNames(ResolveMapping, n)
  PROVE  ByPool[name] = home[n]
<1> DEFINE m == ResolveMapping
<1>1. GroupOf(m, n) = home[n] /\ home[n] \in Groups /\ m.key \in Keys
  BY PlacedAtHome
<1>2. name # NoValue /\ IDLabel \in Keys /\ NameLabel \in Keys
  BY ClusterFacts
<1> HIDE DEF m
<1>3. name = home[n] \/ \E key \in Keys : name = LabelsOf[home[n]][key]
  BY <1>1, <1>2, LabelFacts DEF PoolNames, m
<1>4. name \in NamesOf(home[n])
  BY <1>3 DEF NamesOf
<1> QED
  BY <1>1, <1>4 DEF WellNamed

\* An override that is accepted and meant for a node's pool is one it answers to.
LEMMA MeantIsKnown ==
  ASSUME PoolTypeOK, WellNamed, Accepted, InStep,
         NEW n \in Present, Placed(ResolveMapping, n),
         NEW name \in DOMAIN ByPool, ByPool[name] = home[n]
  PROVE  name \in PoolNames(ResolveMapping, n)
<1> DEFINE m == ResolveMapping
<1>1. GroupOf(m, n) = home[n] /\ home[n] \in Groups /\ m.key \in Keys
  BY PlacedAtHome
<1>2. name # NoValue /\ IDLabel \in Keys /\ NameLabel \in Keys
  BY ClusterFacts
<1>3. name \in Groups \/ \E l \in Present : name \in PoolNames(m, l)
  BY DEF Accepted, OverridesUnknown, KnownNames
<1>4. CASE name \in Groups
  <2>1. ByPool[name] = name
    BY <1>4 DEF WellNamed, NamesOf
  <2>2. GroupOf(m, n) = name
    BY <1>1, <2>1
  <2> QED
    BY <1>2, <2>2 DEF PoolNames
<1>5. CASE name \notin Groups
  <2>1. PICK l \in Present : name \in PoolNames(m, l)
    BY <1>3, <1>5
  <2>2. GroupOf(m, l) \in Groups \union {Label(l, m.key), NoValue}
    BY PlacedAtHome
  <2>3. PICK key \in {m.key, IDLabel, NameLabel} : name = Label(l, key)
    BY <1>2, <1>5, <2>1, <2>2 DEF PoolNames
  <2>4. key \in Keys /\ name = LabelsOf[home[l]][key]
    BY <1>1, <1>2, <2>3, LabelFacts
  <2>5. home[l] \in Groups
    BY <2>4, ClusterFacts DEF WellNamed
  <2>6. home[l] = home[n]
    <3>1. name \in NamesOf(home[l])
      BY <2>4 DEF NamesOf
    <3> QED
      BY <2>5, <3>1 DEF WellNamed
  <2>7. Label(n, key) = name
    BY <1>2, <2>3, <2>6, PlacedAtHome
  <2> QED
    BY <1>2, <2>3, <2>7 DEF PoolNames
<1> QED
  BY <1>4, <1>5

LEMMA OverridesAreFound ==
  ASSUME PoolTypeOK, WellNamed
  PROVE  OverridesGovernTheirPools
<1> DEFINE m == ResolveMapping
           Meant(n) == {name \in DOMAIN ByPool : ByPool[name] = home[n]}
           known(n) == {GroupOf(m, n), Label(n, m.key), Label(n, IDLabel), Label(n, NameLabel)}
<1> SUFFICES ASSUME Accepted, InStep, NEW n \in Present, Placed(m, n)
             PROVE  PolicyForNode(m, n) \in IF Meant(n) = {} THEN {NoValue} ELSE Meant(n)
  BY DEF OverridesGovernTheirPools
<1> DEFINE policy == PolicyForNode(m, n)
<1>1. DOMAIN ByPool \subseteq Names /\ NoValue \notin DOMAIN ByPool
  BY ClusterFacts
<1>2. known(n) \cap DOMAIN ByPool = Meant(n)
  <2>1. \A name \in DOMAIN ByPool : name \in known(n) <=> name \in PoolNames(m, n)
    BY <1>1 DEF PoolNames
  <2>2. \A name \in DOMAIN ByPool : name \in PoolNames(m, n) => ByPool[name] = home[n]
    BY AnswersToItsOwn
  <2>3. \A name \in DOMAIN ByPool : ByPool[name] = home[n] => name \in PoolNames(m, n)
    BY MeantIsKnown
  <2> QED
    BY <2>1, <2>2, <2>3
<1> HIDE DEF m
<1>3. \/ policy \in known(n) \cap DOMAIN ByPool
      \/ policy = NoValue /\ known(n) \cap DOMAIN ByPool = {}
  BY <1>1 DEF PolicyForNode
<1> QED
  BY <1>1, <1>2, <1>3

\* In a cluster whose names mean what they say, an override that preflight accepts
\* governs the pool it is meant for and no other, whichever of the pool's names it uses,
\* however nodes come to be joined and while the label for it is rolled out.
THEOREM OverridesGovern == Spec => [](WellNamed => OverridesGovernTheirPools)
<1>1. PoolTypeOK => (WellNamed => OverridesGovernTheirPools)
  BY OverridesAreFound
<1> QED
  BY <1>1, PoolTypes, PTL
===============================================================================
