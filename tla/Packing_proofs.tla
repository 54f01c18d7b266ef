----------------------------- MODULE Packing_proofs -----------------------------
(***************************************************************************)
(* What a simulation finds, for clusters of every size: each order it      *)
(* packs by is total, so its choices are made; each choice is a fit; and   *)
(* the shapes it probes for cover those it leaves out.                     *)
(***************************************************************************)
EXTENDS Packing, FiniteSetTheorems, SequenceTheorems, WellFoundedInduction, TLAPS

-------------------------------------------------------------------------------
(***************************************************************************)
(* Least numbers, highest members, and functions defined by recursion.     *)
(***************************************************************************)

\* Numbers have a least.
LEMMA LeastNumber ==
  ASSUME NEW S \in SUBSET Nat, S # {}
  PROVE  \E x \in S : \A y \in S : x <= y
<1>1. PICK x \in S : \A y \in S : <<y, x>> \notin OpToRel(<, Nat)
  BY NatLessThanWellFounded, WFMin, Zenon
<1>2. ASSUME NEW y \in S
      PROVE  ~(y < x)
  <2>1. <<y, x>> \in Nat \X Nat
    BY Zenon
  <2>2. <<y, x>> \notin OpToRel(<, Nat)
    BY <1>1
  <2> QED
    BY <2>1, <2>2 DEF OpToRel
<1> QED
  BY <1>2

\* R orders S, with <<a, b>> for a above b.
Strict(R, S) ==
  /\ \A a \in S : <<a, a>> \notin R
  /\ \A a, b, c \in S : <<a, b>> \in R /\ <<b, c>> \in R => <<a, c>> \in R

Total(R, S) == \A a, b \in S : a # b => <<a, b>> \in R \/ <<b, a>> \in R

\* y is x or above it, and none is above y.
Tops(y, x, R, S) == (y = x \/ <<y, x>> \in R) /\ \A z \in S : <<z, y>> \notin R

\* Every member of a finite set has such a one.
LEMMA Highest ==
  ASSUME NEW S, IsFiniteSet(S), NEW R, Strict(R, S), NEW x \in S
  PROVE  \E y \in S : Tops(y, x, R, S)
<1> USE DEF Strict, Tops
<1> DEFINE Above(y) == {z \in S : <<z, y>> \in R}
           C == {y \in S : y = x \/ <<y, x>> \in R}
           N == {Cardinality(Above(y)) : y \in C}
<1>1. \A y \in S : IsFiniteSet(Above(y)) /\ Cardinality(Above(y)) \in Nat
  BY FS_Subset, FS_CardinalityType
<1>2. N \in SUBSET Nat /\ N # {}
  <2>1. x \in C
    OBVIOUS
  <2>2. \A y \in C : Cardinality(Above(y)) \in Nat
    BY <1>1
  <2>3. Cardinality(Above(x)) \in N
    BY <2>1
  <2> HIDE DEF Above, C
  <2> QED
    BY <2>2, <2>3
<1>3. PICK least \in N : \A k \in N : least <= k
  BY <1>2, LeastNumber
<1>4. PICK y \in C : Cardinality(Above(y)) = least
  BY <1>3
<1>5. ASSUME NEW z \in S, <<z, y>> \in R
      PROVE  FALSE
  <2>1. z \in C
    BY <1>4, <1>5
  <2>2. Above(z) \subseteq Above(y) /\ z \in Above(y) /\ z \notin Above(z)
    BY <1>4, <1>5
  <2>3. Above(z) # Above(y) /\ y \in S
    BY <1>4, <2>2
  <2> DEFINE n == Cardinality(Above(z))
  <2>4. n <= Cardinality(Above(y)) /\ n # Cardinality(Above(y))
    BY <1>1, <2>2, <2>3, FS_Subset
  <2>5. least <= n
    <3>1. n \in N
      BY <2>1
    <3> QED
      BY <1>3, <3>1
  <2>6. n \in Nat /\ least \in Nat
    BY <1>1, <1>2, <1>5
  <2> HIDE DEF n
  <2> QED
    BY <1>4, <2>4, <2>5, <2>6, SMT
<1> QED
  BY <1>4, <1>5

Leads(y, R, S) == \A z \in S \ {y} : <<y, z>> \in R

\* A finite set that is ordered throughout has one that leads.
LEMMA OneLeads ==
  ASSUME NEW S, IsFiniteSet(S), S # {}, NEW R, Strict(R, S), Total(R, S)
  PROVE  \E y \in S : Leads(y, R, S)
<1>1. PICK x \in S : TRUE
  OBVIOUS
<1>2. PICK y \in S : Tops(y, x, R, S)
  BY <1>1, Highest
<1> QED
  BY <1>2 DEF Tops, Total, Leads

\* T has the first number, and with each of the first m the next.
Climbs(T, m) == 0 \in T /\ \A i \in 1..m : i - 1 \in T => i \in T

\* Such a set has them all.
LEMMA Climbed == ASSUME NEW m \in Nat, NEW T, Climbs(T, m) PROVE 0..m \subseteq T
<1> DEFINE U == {i \in 0..m : i \notin T}
<1>1. SUFFICES ASSUME U # {} PROVE FALSE
  OBVIOUS
<1>2. U \in SUBSET Nat
  BY SMT
<1>3. PICK k \in U : \A j \in U : k <= j
  BY <1>1, <1>2, LeastNumber
<1>4. k \in 0..m /\ k \notin T /\ k # 0 /\ \A j \in U : k <= j
  BY <1>3 DEF Climbs
<1>5. k \in 1..m /\ k - 1 \in 0..m /\ ~(k <= k - 1)
  BY <1>4, SMT
<1> QED
  BY <1>4, <1>5 DEF Climbs

\* g is what the first m steps F make of base, one after the other.
Solves(g, S, base, m, F) ==
  /\ g \in [0..m -> S]
  /\ g[0] = base
  /\ \A i \in 1..m : g[i] = F[i][g[i - 1]]

\* A recursion over the first m numbers that stays in S has a solution.
LEMMA Recursion ==
  ASSUME NEW S, NEW base \in S, NEW m \in Nat, NEW F \in [1..m -> [S -> S]]
  PROVE  \E g : Solves(g, S, base, m, F)
<1> DEFINE solves(k, g) ==
             /\ g \in [0..k -> S]
             /\ g[0] = base
             /\ \A i \in 1..k : g[i] = F[i][g[i - 1]]
           T == {k \in 0..m : \E g : solves(k, g)}
<1>1. 0 \in T
  <2>1. solves(0, [i \in 0..0 |-> base]) /\ 0 \in 0..m
    BY SMT
  <2> QED
    BY <2>1
<1>2. ASSUME NEW k \in 1..m, k - 1 \in T
      PROVE  k \in T
  <2>1. PICK g : solves(k - 1, g)
    BY <1>2
  <2> DEFINE h == [i \in 0..k |-> IF i = k THEN F[k][g[k - 1]] ELSE g[i]]
  <2>2. F[k] \in [S -> S] /\ g[k - 1] \in S
    BY <2>1, SMT
  <2>3. h \in [0..k -> S] /\ h[0] = base
    BY <2>1, <2>2, SMT
  <2>4. ASSUME NEW i \in 1..k
        PROVE  h[i] = F[i][h[i - 1]]
    BY <2>1, SMT
  <2>5. k \in 0..m
    BY SMT
  <2> QED
    BY <2>3, <2>4, <2>5
<1>3. 0..m \subseteq T
  <2>1. Climbs(T, m)
    BY <1>1, <1>2 DEF Climbs
  <2> HIDE DEF T
  <2> QED
    BY <2>1, Climbed
<1>4. m \in 0..m
  BY SMT
<1> QED
  BY <1>3, <1>4 DEF Solves

\* h goes where g goes.
Follows(h, g, m) ==
  /\ h[0] = g[0]
  /\ \A i \in 1..m : h[i - 1] = g[i - 1] => h[i] = g[i]

\* Then it comes out where g does.
LEMMA SameEnd == ASSUME NEW m \in Nat, NEW g, NEW h, Follows(h, g, m) PROVE h[m] = g[m]
<1> DEFINE T == {i \in 0..m : h[i] = g[i]}
<1>1. m \in 0..m /\ 0 \in 0..m /\ \A i \in 1..m : i \in 0..m
  BY SMT
<1>2. Climbs(T, m)
  BY <1>1 DEF Climbs, Follows
<1>3. 0..m \subseteq T
  <2> HIDE DEF T
  <2> QED
    BY <1>2, Climbed
<1> QED
  BY <1>1, <1>3

-------------------------------------------------------------------------------
(***************************************************************************)
(* The cluster, and what its nodes have left.                              *)
(***************************************************************************)

Typed ==
  /\ traits \in [Pods -> Trait]
  /\ at \in [Pods -> Nodes \union {NoNode}]
  /\ waiting \in Pods \union {NoPod}

\* The lists the cluster is read from end.
LEMMA Orders ==
  /\ Len(NodeOrder) \in Nat /\ NodeOrder \in [1..Len(NodeOrder) -> Nodes]
  /\ Len(PodOrder) \in Nat /\ PodOrder \in [1..Len(PodOrder) -> Pods]
  /\ IsFiniteSet(Nodes) /\ IsFiniteSet(Pods)
<1>1. /\ Len(NodeOrder) \in Nat /\ NodeOrder \in [1..Len(NodeOrder) -> Nodes]
      /\ Len(PodOrder) \in Nat /\ PodOrder \in [1..Len(PodOrder) -> Pods]
  BY PackingAssumption
<1>2. /\ NodeOrder \in Surjection(1..Len(NodeOrder), Nodes)
      /\ PodOrder \in Surjection(1..Len(PodOrder), Pods)
  BY <1>1 DEF Surjection, Nodes, Pods, ToSet
<1>3. IsFiniteSet(1..Len(NodeOrder)) /\ IsFiniteSet(1..Len(PodOrder))
  BY <1>1, FS_Interval
<1>4. IsFiniteSet(Nodes) /\ IsFiniteSet(Pods)
  BY <1>2, <1>3, FS_Surjection
<1> QED
  BY <1>1, <1>4

\* The place in a list orders what is listed.
LEMMA BeforeIsTotal ==
  ASSUME NEW n \in Nat, NEW T, NEW order \in [1..n -> T], ToSet(order) = T
  PROVE  \A x, y, z \in T :
           /\ ~Before(order, x, x)
           /\ Before(order, x, y) /\ Before(order, y, z) => Before(order, x, z)
           /\ x # y => Before(order, x, y) \/ Before(order, y, x)
<1> DEFINE place(x) == CHOOSE i \in DOMAIN order : order[i] = x
<1>1. \A x \in T : place(x) \in 1..n /\ order[place(x)] = x
  BY DEF ToSet
<1>2. \A x, y : Before(order, x, y) <=> place(x) < place(y)
  BY DEF Before
<1>3. \A x, y \in T : x # y => place(x) # place(y)
  BY <1>1
<1> HIDE DEF place
<1> QED
  BY <1>1, <1>2, <1>3, SMT

\* Subtract leaves an amount.
LEMMA MinusType == \A free, need \in Amounts : Minus(free, need) \in Amounts
<1> SUFFICES ASSUME NEW free \in Amounts, NEW need \in Amounts, NEW r \in Resources
             PROVE  (IF free[r] > need[r] THEN free[r] - need[r] ELSE 0) \in Nat
  BY DEF Minus, Amounts
<1>1. free[r] \in Nat /\ need[r] \in Nat
  BY DEF Amounts
<1> QED
  BY <1>1, SMT

\* g is what node n has left after each of the pods, in the order of their names, where
\* they are placed as a says and weigh what t says.
Leaves(a, t, n, g) ==
  /\ g \in [0..Len(PodOrder) -> Amounts]
  /\ g[0] = Capacity[n]
  /\ \A i \in 1..Len(PodOrder) :
       g[i] = IF a[PodOrder[i]] = n THEN Minus(g[i - 1], t[PodOrder[i]].held) ELSE g[i - 1]

FreeIsLeft ==
  \A n \in Nodes : \E g : Leaves(at, traits, n, g) /\ Free(n) = g[Len(PodOrder)]

LEMMA FreeIs == Typed => FreeIsLeft
<1> SUFFICES ASSUME Typed, NEW n \in Nodes
             PROVE  \E g : Leaves(at, traits, n, g) /\ Free(n) = g[Len(PodOrder)]
  BY DEF FreeIsLeft
<1> DEFINE m == Len(PodOrder)
           left[i \in 0..m] ==
             IF i = 0 THEN Capacity[n]
             ELSE IF at[PodOrder[i]] = n THEN Minus(left[i - 1], traits[PodOrder[i]].held)
             ELSE left[i - 1]
<1>1. m \in Nat /\ Capacity[n] \in Amounts
  BY Orders, PackingAssumption
<1>2. Free(n) = left[m]
  BY DEF Free
<1>3. PICK F \in [1..m -> [Amounts -> Amounts]] :
        \A i \in 1..m : \A free \in Amounts :
          F[i][free] = IF at[PodOrder[i]] = n THEN Minus(free, traits[PodOrder[i]].held)
                       ELSE free
  <2> DEFINE G == [i \in 1..m |-> [free \in Amounts |->
                     IF at[PodOrder[i]] = n THEN Minus(free, traits[PodOrder[i]].held)
                     ELSE free]]
  <2>1. G \in [1..m -> [Amounts -> Amounts]]
    BY Orders, MinusType DEF Typed, Trait
  <2> QED
    BY <2>1
<1> HIDE DEF m
<1>4. PICK g : Solves(g, Amounts, Capacity[n], m, F)
  <2> HIDE DEF left
  <2> QED
    BY <1>1, Recursion, Zenon
<1>5. g \in [0..m -> Amounts] /\ g[0] = Capacity[n] /\ \A i \in 1..m : g[i] = F[i][g[i - 1]]
  BY <1>4 DEF Solves
<1>6. Leaves(at, traits, n, g)
  <2>1. ASSUME NEW i \in 1..m
        PROVE  g[i] = IF at[PodOrder[i]] = n
                        THEN Minus(g[i - 1], traits[PodOrder[i]].held) ELSE g[i - 1]
    <3>1. i - 1 \in 0..m
      BY <1>1, SMT
    <3>2. g[i - 1] \in Amounts /\ g[i] = F[i][g[i - 1]]
      BY <1>5, <3>1
    <3> QED
      BY <1>3, <3>2
  <2> QED
    BY <1>5, <2>1 DEF Leaves, m
<1>7. g = [i \in 0..m |->
             IF i = 0 THEN Capacity[n]
             ELSE IF at[PodOrder[i]] = n THEN Minus(g[i - 1], traits[PodOrder[i]].held)
             ELSE g[i - 1]]
  <2>1. \A i \in 0..m : i # 0 => i \in 1..m
    BY <1>1, SMT
  <2> QED
    BY <1>5, <1>6, <2>1 DEF Leaves, m
<1>8. left = [i \in 0..m |->
                IF i = 0 THEN Capacity[n]
                ELSE IF at[PodOrder[i]] = n THEN Minus(left[i - 1], traits[PodOrder[i]].held)
                ELSE left[i - 1]]
  BY <1>7
<1> HIDE DEF left
<1>9. left[0] = g[0]
  BY <1>1, <1>5, <1>8, SMT
<1>10. ASSUME NEW i \in 1..m, left[i - 1] = g[i - 1]
       PROVE  left[i] = g[i]
  <2>1. i \in 0..m /\ i # 0 /\ i - 1 \in 0..m
    BY <1>1, SMT
  <2> QED
    BY <1>3, <1>5, <1>8, <1>10, <2>1
<1>11. left[m] = g[m]
  <2>1. Follows(left, g, m)
    BY <1>9, <1>10 DEF Follows
  <2> QED
    BY <1>1, <2>1, SameEnd
<1> QED
  BY <1>2, <1>6, <1>11 DEF m

LEMMA FreeType == Typed => \A n \in Nodes : Free(n) \in Amounts
<1> SUFFICES ASSUME Typed, NEW n \in Nodes PROVE Free(n) \in Amounts
  OBVIOUS
<1>1. PICK g : Leaves(at, traits, n, g) /\ Free(n) = g[Len(PodOrder)]
  BY FreeIs DEF FreeIsLeft
<1>2. Len(PodOrder) \in 0..Len(PodOrder)
  BY Orders, SMT
<1> QED
  BY <1>1, <1>2 DEF Leaves

\* What is left on a node is one amount.
LEMMA LeavesOne ==
  ASSUME NEW a, NEW t, NEW n, NEW g, Leaves(a, t, n, g), NEW h, Leaves(a, t, n, h)
  PROVE  g[Len(PodOrder)] = h[Len(PodOrder)]
<1>1. Follows(h, g, Len(PodOrder))
  BY DEF Follows, Leaves
<1> QED
  BY <1>1, Orders, SameEnd

\* A node whose pods stay keeps what it has left.
LEMMA FreeStays ==
  ASSUME Typed, Typed', NEW n \in Nodes, traits' = traits,
         \A q \in Pods : at'[q] = n <=> at[q] = n
  PROVE  Free(n)' = Free(n)
<1>1. PICK g : Leaves(at, traits, n, g) /\ Free(n) = g[Len(PodOrder)]
  BY FreeIs DEF FreeIsLeft
<1>2. (Typed => FreeIsLeft)'
  BY FreeIs, PTL
<1>3. PICK h : Leaves(at', traits', n, h) /\ Free(n)' = h[Len(PodOrder)]
  BY <1>2 DEF FreeIsLeft
<1>4. Leaves(at', traits', n, g)
  BY <1>1, Orders DEF Leaves
<1>5. g[Len(PodOrder)] = h[Len(PodOrder)]
  BY <1>1, <1>3, <1>4, LeavesOne
<1> QED
  BY <1>1, <1>3, <1>5

-------------------------------------------------------------------------------
(***************************************************************************)
(* Which pod is harder to place.                                           *)
(***************************************************************************)

\* Shares of a room; over an empty one they are infinite.
Fraction == {x \in Nat \X Nat : x[1] # 0 \/ x[2] # 0}

LEMMA Ratios ==
  \A a, b, c, d, e, f \in Nat :
    (c # 0 \/ d # 0) /\ c * b <= a * d /\ e * d <= c * f => e * b <= a * f
<1> SUFFICES ASSUME NEW a \in Nat, NEW b \in Nat, NEW c \in Nat, NEW d \in Nat,
                    NEW e \in Nat, NEW f \in Nat,
                    c # 0 \/ d # 0, c * b <= a * d, e * d <= c * f
             PROVE  e * b <= a * f
  OBVIOUS
<1>1. CASE d = 0
  <2>1. c * b <= 0 /\ c # 0
    BY <1>1, SMT
  <2>2. b = 0
    BY <2>1, SMT
  <2> QED
    BY <2>2, SMT
<1>2. CASE d # 0
  <2>1. (c * b) * f <= (a * d) * f
    BY SMT
  <2>2. (e * d) * b <= (c * f) * b
    BY SMT
  <2>3. d * (e * b) = (e * d) * b /\ (c * f) * b = (c * b) * f /\ (a * d) * f = d * (a * f)
    BY SMT
  <2>4. e * b \in Nat /\ a * f \in Nat
    BY SMT
  <2>5. d * (e * b) <= d * (a * f)
    BY <2>1, <2>2, <2>3, SMT
  <2> QED
    BY <1>2, <2>4, <2>5, SMT
<1> QED
  BY <1>1, <1>2

LEMMA LessIsWeak ==
  \A x, y, z \in Fraction :
    /\ ~(Less(x, y) /\ Less(y, x))
    /\ Less(x, y) => Less(x, z) \/ Less(z, y)
<1> SUFFICES ASSUME NEW x \in Fraction, NEW y \in Fraction, NEW z \in Fraction
             PROVE  /\ ~(Less(x, y) /\ Less(y, x))
                    /\ Less(x, y) => Less(x, z) \/ Less(z, y)
  OBVIOUS
<1>1. /\ x[1] \in Nat /\ x[2] \in Nat /\ y[1] \in Nat /\ y[2] \in Nat
      /\ z[1] \in Nat /\ z[2] \in Nat /\ (z[1] # 0 \/ z[2] # 0)
  BY DEF Fraction
<1>2. ~(Less(x, y) /\ Less(y, x))
  BY <1>1, SMT DEF Less
<1>3. ASSUME ~Less(x, z), ~Less(z, y)
      PROVE  ~Less(x, y)
  <2> DEFINE a == x[1]
             b == x[2]
             c == z[1]
             d == z[2]
             e == y[1]
             f == y[2]
  <2>1. /\ a \in Nat /\ b \in Nat /\ c \in Nat /\ d \in Nat /\ e \in Nat /\ f \in Nat
        /\ (c # 0 \/ d # 0) /\ ~(a * d < c * b) /\ ~(c * f < e * d)
    BY <1>1, <1>3 DEF Less
  <2>2. Less(x, y) <=> a * f < e * b
    BY DEF Less
  <2> HIDE DEF a, b, c, d, e, f
  <2>3. /\ a * d \in Nat /\ c * b \in Nat /\ c * f \in Nat /\ e * d \in Nat
        /\ e * b \in Nat /\ a * f \in Nat
    BY <2>1, SMT
  <2>4. c * b <= a * d /\ e * d <= c * f
    BY <2>1, <2>3, SMT
  <2>5. e * b <= a * f
    BY <2>1, <2>4, Ratios
  <2>6. ~(a * f < e * b)
    BY <2>3, <2>5, SMT
  <2> QED
    BY <2>2, <2>6
<1> QED
  BY <1>2, <1>3

\* Simulate's order is total.
LEMMA PrecedesIsTotal ==
  ASSUME NEW pods \in SUBSET Pods, NEW hardness \in [pods -> Fraction]
  PROVE  \A p, q, r \in pods :
           /\ ~Precedes(hardness, p, p)
           /\ Precedes(hardness, p, q) /\ Precedes(hardness, q, r) => Precedes(hardness, p, r)
           /\ p # q => Precedes(hardness, p, q) \/ Precedes(hardness, q, p)
<1> SUFFICES ASSUME NEW p \in pods, NEW q \in pods, NEW r \in pods
             PROVE  /\ ~Precedes(hardness, p, p)
                    /\ Precedes(hardness, p, q) /\ Precedes(hardness, q, r)
                         => Precedes(hardness, p, r)
                    /\ p # q => Precedes(hardness, p, q) \/ Precedes(hardness, q, p)
  OBVIOUS
<1> DEFINE L(x, y) == Less(hardness[x], hardness[y])
           B(x, y) == Before(PodOrder, x, y)
<1>1. \A x, y, z \in {p, q, r} :
        /\ ~(L(x, y) /\ L(y, x))
        /\ L(x, y) => L(x, z) \/ L(z, y)
  BY LessIsWeak
<1>2. \A x, y, z \in {p, q, r} :
        /\ ~B(x, x)
        /\ B(x, y) /\ B(y, z) => B(x, z)
        /\ x # y => B(x, y) \/ B(y, x)
  BY Orders, BeforeIsTotal DEF Pods
<1>3. \A x, y \in {p, q, r} : Precedes(hardness, x, y) <=> L(y, x) \/ (~L(x, y) /\ B(x, y))
  BY DEF Precedes
<1> HIDE DEF L, B
<1> QED
  BY <1>1, <1>2, <1>3

\* What is left to place has a first, whatever the order it was listed in.
LEMMA FirstIs ==
  ASSUME NEW pods \in SUBSET Pods, NEW hardness \in [pods -> Fraction],
         NEW left \in SUBSET pods, left # {}, NEW listing
  PROVE  /\ First(listing, hardness, left) \in left
         /\ First(listing, hardness, left) = First(PodOrder, hardness, left)
<1> DEFINE R == {d \in left \X left : Precedes(hardness, d[1], d[2])}
<1>1. \A p, q, r \in left :
        /\ ~Precedes(hardness, p, p)
        /\ Precedes(hardness, p, q) /\ Precedes(hardness, q, r) => Precedes(hardness, p, r)
        /\ p # q => Precedes(hardness, p, q) \/ Precedes(hardness, q, p)
  BY PrecedesIsTotal
<1>2. \A p, q \in left : <<p, q>> \in R <=> Precedes(hardness, p, q)
  OBVIOUS
<1>3. IsFiniteSet(left)
  BY Orders, FS_Subset
<1>4. Strict(R, left) /\ Total(R, left)
  <2> HIDE DEF R
  <2> QED
    BY <1>1, <1>2 DEF Strict, Total
<1>5. PICK y \in left : Leads(y, R, left)
  <2> HIDE DEF R
  <2> QED
    BY <1>3, <1>4, OneLeads
<1> HIDE DEF R
<1>6. \A q \in left \ {y} : Precedes(hardness, y, q)
  BY <1>2, <1>5 DEF Leads
<1>7. ASSUME NEW order
      PROVE  First(order, hardness, left) = y
  <2> DEFINE Q(p) == \A q \in left \ {p} : \/ Precedes(hardness, p, q)
                                           \/ ~Precedes(hardness, q, p) /\ Before(order, p, q)
  <2>1. Q(y)
    BY <1>6
  <2>2. \A p \in left : Q(p) => p = y
    BY <1>1, <1>6
  <2>3. First(order, hardness, left) = CHOOSE p \in left : Q(p)
    BY DEF First
  <2> HIDE DEF Q
  <2> QED
    BY <2>1, <2>2, <2>3
<1> QED
  BY <1>7

\* The most that is free is an amount, and a pod's difficulty a share of it.
LEMMA LargestType == ASSUME Typed, NEW r \in Resources PROVE Largest(r) \in Nat
<1> DEFINE S == {Free(n)[r] : n \in Destinations} \union {0}
           R == {d \in S \X S : d[1] > d[2]}
<1>1. \A n \in Destinations : Free(n)[r] \in Nat
  BY FreeType DEF Destinations, Amounts
<1>2. S \subseteq Nat
  BY <1>1
<1>3. IsFiniteSet(S)
  <2>1. IsFiniteSet(Destinations)
    BY Orders, FS_Subset DEF Destinations
  <2>2. IsFiniteSet({Free(n)[r] : n \in Destinations})
    <3> DEFINE f == [n \in Destinations |-> Free(n)[r]]
               T == {Free(n)[r] : n \in Destinations}
    <3>1. f \in Surjection(Destinations, T)
      BY DEF Surjection
    <3> HIDE DEF f
    <3> QED
      BY <2>1, <3>1, FS_Surjection
  <2> QED
    BY <2>2, FS_AddElement
<1>4. \A x, y \in S : <<x, y>> \in R <=> x > y
  OBVIOUS
<1>5. Strict(R, S)
  <2> HIDE DEF R, S
  <2> QED
    BY <1>2, <1>4, SMT DEF Strict
<1>6. PICK most \in S : Tops(most, 0, R, S)
  <2>1. 0 \in S
    OBVIOUS
  <2> HIDE DEF R, S
  <2> QED
    BY <1>3, <1>5, <2>1, Highest
<1>7. \A n \in Destinations : Free(n)[r] <= most
  <2>1. \A x \in S : ~(x > most)
    BY <1>4, <1>6 DEF Tops
  <2>2. \A x \in S : x <= most
    <3> HIDE DEF S, R
    <3> QED
      BY <1>2, <1>6, <2>1, SMT
  <2> QED
    BY <2>2
<1>8. Largest(r) = CHOOSE k \in S : \A n \in Destinations : Free(n)[r] <= k
  BY DEF Largest
<1> HIDE DEF S
<1> QED
  BY <1>2, <1>7, <1>8

LEMMA DifficultyType == ASSUME Typed, NEW p \in Pods PROVE Difficulty(p) \in Fraction
<1>1. ASSUME NEW r \in Resources
      PROVE  Share(p, r) \in Fraction
  <2>1. traits[p].asked[r] \in Nat
    BY DEF Typed, Trait, Amounts
  <2>2. Largest(r) \in Nat
    BY LargestType
  <2> QED
    BY <2>1, <2>2, SMT DEF Share, Fraction
<1> QED
  BY <1>1 DEF Difficulty, Resources

-------------------------------------------------------------------------------
(***************************************************************************)
(* Where the pods go.                                                      *)
(***************************************************************************)

\* place finds a destination that takes the pod, or there is none.
LEMMA PlaceIs ==
  ASSUME Typed, NEW p \in Pods, NEW free \in [Destinations -> Amounts]
  PROVE  \/ Place(p, free) = NoNode
         \/ Place(p, free) \in Destinations /\ CanFit(p, Place(p, free), free[Place(p, free)])
<1> DEFINE takes == {n \in Destinations : CanFit(p, n, free[n])}
           sooner(m, n) ==
             IF free[m]["memory"] = free[n]["memory"] THEN Before(NodeOrder, m, n)
             ELSE free[m]["memory"] < free[n]["memory"]
           R == {d \in takes \X takes : sooner(d[1], d[2])}
<1>1. Place(p, free) = IF takes = {} THEN NoNode
                       ELSE CHOOSE n \in takes : \A m \in takes \ {n} : sooner(n, m)
  BY DEF Place
<1>2. SUFFICES ASSUME takes # {} PROVE Place(p, free) \in takes
  <2>1. takes = {} => Place(p, free) = NoNode
    BY <1>1
  <2>2. \A n \in takes : n \in Destinations /\ CanFit(p, n, free[n])
    OBVIOUS
  <2> HIDE DEF takes
  <2> QED
    BY <2>1, <2>2
<1>3. \A x, y, z \in takes :
        /\ ~sooner(x, x)
        /\ sooner(x, y) /\ sooner(y, z) => sooner(x, z)
        /\ x # y => sooner(x, y) \/ sooner(y, x)
  <2>1. \A n \in takes : free[n]["memory"] \in Nat /\ n \in Nodes
    BY DEF Destinations, Amounts, Resources
  <2>2. \A x, y, z \in Nodes :
          /\ ~Before(NodeOrder, x, x)
          /\ Before(NodeOrder, x, y) /\ Before(NodeOrder, y, z) => Before(NodeOrder, x, z)
          /\ x # y => Before(NodeOrder, x, y) \/ Before(NodeOrder, y, x)
    BY Orders, BeforeIsTotal DEF Nodes
  <2> HIDE DEF takes
  <2> QED
    BY <2>1, <2>2, SMT
<1>4. \A x, y \in takes : <<x, y>> \in R <=> sooner(x, y)
  <2> HIDE DEF takes, sooner
  <2> QED
    OBVIOUS
<1>5. IsFiniteSet(takes)
  BY Orders, FS_Subset DEF Destinations
<1> HIDE DEF R, takes, sooner
<1>6. Strict(R, takes) /\ Total(R, takes)
  BY <1>3, <1>4 DEF Strict, Total
<1>7. PICK n \in takes : Leads(n, R, takes)
  BY <1>2, <1>5, <1>6, OneLeads
<1>8. \A m \in takes \ {n} : sooner(n, m)
  BY <1>4, <1>7 DEF Leads
<1> QED
  BY <1>1, <1>2, <1>8

\* A simulation under way: what is placed went where it fits.
States(pods) ==
  [ok: BOOLEAN, left: SUBSET pods, free: [Destinations -> Amounts],
   placed: Seq([pod: pods, node: Destinations])]

Sound(s) ==
  IF s.placed = <<>> THEN s.free = [n \in Destinations |-> Free(n)]
  ELSE CanFit(Head(s.placed).pod, Head(s.placed).node, Free(Head(s.placed).node))

LEMMA PlaceNextIs ==
  ASSUME Typed, NEW pods \in SUBSET Pods, NEW s \in States(pods), NEW p \in s.left
  PROVE  /\ PlaceNext(s, p) \in States(pods)
         /\ PlaceNext(s, p).left \in {s.left, s.left \ {p}}
         /\ Sound(s) => Sound(PlaceNext(s, p))
<1> DEFINE n == IF s.ok THEN Place(p, s.free) ELSE NoNode
           t == PlaceNext(s, p)
<1>1. p \in pods /\ p \in Pods /\ s.free \in [Destinations -> Amounts]
      /\ s.placed \in Seq([pod: pods, node: Destinations]) /\ s.left \subseteq pods
      /\ s.ok \in BOOLEAN
  BY DEF States
<1>2. CASE n = NoNode
  <2>1. t = [s EXCEPT !.ok = FALSE]
    BY <1>2 DEF PlaceNext
  <2>2. t \in States(pods) /\ t.left = s.left /\ t.placed = s.placed /\ t.free = s.free
    BY <2>1 DEF States
  <2> HIDE DEF t
  <2> QED
    BY <2>2 DEF t, Sound
<1>3. CASE n # NoNode
  <2>1. n \in Destinations /\ CanFit(p, n, s.free[n])
    BY <1>1, <1>3, PlaceIs
  <2>2. t = [s EXCEPT !.left = @ \ {p}, !.free[n] = Minus(@, traits[p].asked),
                      !.placed = Append(@, [pod |-> p, node |-> n])]
    BY <1>3 DEF PlaceNext
  <2> HIDE DEF n, t
  <2>3. /\ t.left = s.left \ {p} /\ t.ok = s.ok
        /\ t.placed = Append(s.placed, [pod |-> p, node |-> n])
        /\ t.free = [s.free EXCEPT ![n] = Minus(@, traits[p].asked)]
    BY <2>2 DEF States
  <2>4. t.free \in [Destinations -> Amounts]
    <3>1. Minus(s.free[n], traits[p].asked) \in Amounts
      BY <1>1, <2>1, MinusType DEF Typed, Trait
    <3> QED
      BY <1>1, <2>3, <3>1
  <2>5. [pod |-> p, node |-> n] \in [pod: pods, node: Destinations]
    BY <1>1, <2>1
  <2>6. /\ t.placed \in Seq([pod: pods, node: Destinations]) /\ t.placed # <<>>
        /\ s.placed # <<>> => Head(t.placed) = Head(s.placed)
        /\ s.placed = <<>> => Head(t.placed) = [pod |-> p, node |-> n]
    <3> DEFINE T == [pod: pods, node: Destinations]
               one == [pod |-> p, node |-> n]
               old == s.placed
    <3>1. one \in T /\ old \in Seq(T) /\ t.placed = Append(old, one)
      BY <1>1, <2>3, <2>5
    <3> HIDE DEF T, one, old
    <3>2. /\ Append(old, one) \in Seq(T) /\ Append(old, one) # <<>>
          /\ old # <<>> => Head(Append(old, one)) = Head(old)
          /\ old = <<>> => Head(Append(old, one)) = one
      BY <3>1, AppendProperties
    <3> QED
      BY <3>1, <3>2 DEF T, one, old
  <2>7. t \in States(pods)
    <3>1. t = [ok |-> t.ok, left |-> t.left, free |-> t.free, placed |-> t.placed]
      BY <2>2 DEF States
    <3>2. t.ok \in BOOLEAN /\ t.left \in SUBSET pods
      BY <1>1, <2>3
    <3> QED
      BY <2>4, <2>6, <3>1, <3>2 DEF States
  <2>8. ASSUME Sound(s) PROVE Sound(t)
    <3>1. t.placed # <<>>
      BY <2>6
    <3>2. CASE s.placed = <<>>
      <4>1. Head(t.placed) = [pod |-> p, node |-> n]
        BY <2>6, <3>2
      <4>2. s.free[n] = Free(n)
        BY <2>1, <2>8, <3>2 DEF Sound
      <4> QED
        BY <2>1, <3>1, <4>1, <4>2 DEF Sound
    <3>3. CASE s.placed # <<>>
      <4>1. Head(t.placed) = Head(s.placed)
        BY <2>6, <3>3
      <4> QED
        BY <2>8, <3>1, <3>3, <4>1 DEF Sound
    <3> QED
      BY <3>2, <3>3
  <2> QED
    BY <2>3, <2>7, <2>8 DEF t
<1> QED
  BY <1>2, <1>3

\* The pods are packed to the last, in one way whatever the listing.
LEMMA PackedIs ==
  ASSUME Typed, NEW pods \in SUBSET Pods
  PROVE  \E s \in States(pods) : Sound(s) /\ \A listing : Packed(listing, pods) = s
<1> DEFINE N == Cardinality(pods)
           S == States(pods)
           hardness == [p \in pods |-> Difficulty(p)]
           unpacked == [ok |-> TRUE, left |-> pods, free |-> [n \in Destinations |-> Free(n)],
                        placed |-> <<>>]
           next(s) == PlaceNext(s, First(PodOrder, hardness, s.left))
<1>1. IsFiniteSet(pods) /\ N \in Nat
  BY Orders, FS_Subset, FS_CardinalityType
<1>2. hardness \in [pods -> Fraction]
  BY DifficultyType
<1>3. unpacked \in S /\ Sound(unpacked) /\ unpacked.left = pods
  <2>1. [n \in Destinations |-> Free(n)] \in [Destinations -> Amounts]
    BY FreeType DEF Destinations
  <2> QED
    BY <2>1 DEF States, Sound
<1> HIDE DEF hardness, unpacked
<1>4. ASSUME NEW s \in S, s.left # {}
      PROVE  /\ next(s) \in S
             /\ Sound(s) => Sound(next(s))
             /\ Cardinality(s.left) <= Cardinality(next(s).left) + 1
             /\ \A listing : PlaceNext(s, First(listing, hardness, s.left)) = next(s)
  <2> DEFINE p == First(PodOrder, hardness, s.left)
  <2>1. s.left \in SUBSET pods /\ IsFiniteSet(s.left)
    BY <1>1, FS_Subset DEF States
  <2>2. p \in s.left /\ \A listing : First(listing, hardness, s.left) = p
    BY <1>2, <1>4, <2>1, FirstIs
  <2> HIDE DEF p
  <2>3. /\ PlaceNext(s, p) \in S
        /\ PlaceNext(s, p).left \in {s.left, s.left \ {p}}
        /\ Sound(s) => Sound(PlaceNext(s, p))
    BY <2>2, PlaceNextIs
  <2>4. Cardinality(s.left) <= Cardinality(PlaceNext(s, p).left) + 1
    <3>1. Cardinality(s.left) \in Nat /\ Cardinality(s.left \ {p}) = Cardinality(s.left) - 1
      BY <2>1, <2>2, FS_RemoveElement, FS_CardinalityType
    <3>2. CASE PlaceNext(s, p).left = s.left
      BY <3>1, <3>2, SMT
    <3>3. CASE PlaceNext(s, p).left = s.left \ {p}
      BY <3>1, <3>3, SMT
    <3> QED
      BY <2>3, <3>2, <3>3
  <2> QED
    BY <2>2, <2>3, <2>4 DEF p
<1> HIDE DEF next, S
<1>5. PICK F \in [1..N -> [S -> S]] :
        \A i \in 1..N : \A s \in S : s.left # {} => F[i][s] = next(s)
  <2> DEFINE G == [i \in 1..N |-> [s \in S |-> IF s.left = {} THEN s ELSE next(s)]]
  <2>1. G \in [1..N -> [S -> S]]
    BY <1>4
  <2> HIDE DEF N
  <2> QED
    BY <2>1
<1> HIDE DEF N
<1>6. PICK g : Solves(g, S, unpacked, N, F)
  BY <1>1, <1>3, Recursion
<1>7. g \in [0..N -> S] /\ g[0] = unpacked /\ \A i \in 1..N : g[i] = F[i][g[i - 1]]
  BY <1>6 DEF Solves
<1> DEFINE Goes(i) == Sound(g[i]) /\ N <= Cardinality(g[i].left) + i
           T == {i \in 0..N : Goes(i)}
<1>8. \A s \in S : Cardinality(s.left) \in Nat /\ (Cardinality(s.left) # 0 => s.left # {})
  BY <1>1, FS_Subset, FS_CardinalityType, FS_EmptySet DEF S, States
<1>9. ASSUME NEW i \in 1..N, Goes(i - 1)
      PROVE  g[i - 1].left # {} /\ g[i] = next(g[i - 1]) /\ Goes(i)
  <2>1. i - 1 \in 0..N /\ i \in 0..N
    BY <1>1, SMT
  <2>2. g[i - 1] \in S /\ g[i] \in S
    BY <1>7, <2>1
  <2>3. g[i - 1].left # {}
    <3> DEFINE c == Cardinality(g[i - 1].left)
    <3>1. c \in Nat /\ (c # 0 => g[i - 1].left # {})
      BY <1>8, <2>2
    <3>2. N <= c + (i - 1)
      BY <1>9
    <3> HIDE DEF c
    <3> QED
      BY <1>1, <3>1, <3>2, SMT
  <2>4. g[i] = next(g[i - 1])
    BY <1>5, <1>7, <2>2, <2>3
  <2>5. Sound(g[i])
    BY <1>4, <1>9, <2>2, <2>3, <2>4
  <2>6. N <= Cardinality(g[i].left) + i
    <3> DEFINE c == Cardinality(g[i - 1].left)
               d == Cardinality(g[i].left)
    <3>1. c \in Nat /\ d \in Nat
      BY <1>8, <2>2
    <3>2. N <= c + (i - 1) /\ c <= d + 1
      BY <1>4, <1>9, <2>2, <2>3, <2>4
    <3> HIDE DEF c, d
    <3>3. N <= d + i
      BY <1>1, <3>1, <3>2, SMT
    <3> QED
      BY <3>3 DEF d
  <2> QED
    BY <2>3, <2>4, <2>5, <2>6
<1>10. 0..N \subseteq T
  <2>1. Goes(0) /\ 0 \in 0..N
    <3>1. Cardinality(g[0].left) = N
      BY <1>3, <1>7 DEF N
    <3> QED
      BY <1>1, <1>3, <1>7, <3>1, SMT
  <2>2. \A i \in 1..N : i \in 0..N
    BY <1>1, SMT
  <2> HIDE DEF Goes
  <2>3. Climbs(T, N)
    BY <1>9, <2>1, <2>2 DEF Climbs
  <2> HIDE DEF T
  <2> QED
    BY <1>1, <2>3, Climbed
<1>11. ASSUME NEW listing
       PROVE  Packed(listing, pods) = g[N]
  <2> DEFINE after[i \in 0..N] ==
               IF i = 0 THEN unpacked
               ELSE LET s == after[i - 1] IN PlaceNext(s, First(listing, hardness, s.left))
  <2>1. Packed(listing, pods) = after[N]
    BY DEF Packed, N, hardness, unpacked
  <2>2. ASSUME NEW i \in 1..N
        PROVE  /\ g[i] = next(g[i - 1])
               /\ PlaceNext(g[i - 1], First(listing, hardness, g[i - 1].left)) = next(g[i - 1])
    <3>1. i - 1 \in 0..N
      BY <1>1, SMT
    <3>2. g[i - 1] \in S /\ Goes(i - 1)
      BY <1>7, <1>10, <3>1
    <3> HIDE DEF Goes
    <3>3. g[i - 1].left # {} /\ g[i] = next(g[i - 1])
      BY <1>9, <3>2
    <3> QED
      BY <1>4, <3>2, <3>3
  <2>3. g = [i \in 0..N |->
               IF i = 0 THEN unpacked
               ELSE PlaceNext(g[i - 1], First(listing, hardness, g[i - 1].left))]
    <3>1. \A i \in 0..N : i # 0 => i \in 1..N
      BY <1>1, SMT
    <3> QED
      BY <1>7, <2>2, <3>1
  <2>4. after = [i \in 0..N |->
                   IF i = 0 THEN unpacked
                   ELSE PlaceNext(after[i - 1], First(listing, hardness, after[i - 1].left))]
    BY <2>3
  <2> HIDE DEF after
  <2>5. Follows(after, g, N)
    <3>1. \A i \in 1..N : i \in 0..N /\ i # 0
      BY <1>1, SMT
    <3>2. 0 \in 0..N
      BY <1>1, SMT
    <3>3. after[0] = g[0]
      BY <1>7, <2>4, <3>2
    <3>4. ASSUME NEW i \in 1..N, after[i - 1] = g[i - 1]
          PROVE  after[i] = g[i]
      <4>1. after[i] = PlaceNext(after[i - 1], First(listing, hardness, after[i - 1].left))
        BY <2>4, <3>1
      <4> QED
        BY <2>2, <3>4, <4>1
    <3> QED
      BY <3>3, <3>4 DEF Follows
  <2>6. after[N] = g[N]
    BY <1>1, <2>5, SameEnd
  <2> QED
    BY <2>1, <2>6
<1>12. g[N] \in S /\ Sound(g[N])
  <2>1. N \in 0..N
    BY <1>1, SMT
  <2> QED
    BY <1>7, <1>10, <2>1
<1> QED
  BY <1>11, <1>12 DEF S

-------------------------------------------------------------------------------
(***************************************************************************)
(* What a simulation says is so.                                           *)
(***************************************************************************)

LEMMA ReadingDecides == Typed => TheReadingDecides
<1> SUFFICES ASSUME Typed PROVE TheReadingDecides
  OBVIOUS
<1>1. PICK s \in States(Leaving) : \A listing : Packed(listing, Leaving) = s
  BY PackedIs DEF Leaving, OnNode
<1>2. ASSUME NEW listing
      PROVE  Simulate(listing, Reserve) =
               [feasible |-> /\ \A p \in Leaving : traits[p].template = "readable"
                             /\ s.ok
                             /\ Reserve => Headroom(s.free),
                relocated |-> s.placed, free |-> s.free]
  BY <1>1 DEF Simulate
<1> QED
  BY <1>2 DEF TheReadingDecides

\* Every shape has one that covers it and that none covers.
LEMMA ShapesAreCovered ==
  ASSUME Typed, NEW p \in Sizeable
  PROVE  \E q \in MaximalShapes : q = p \/ Dominates(q, p)
<1> DEFINE R == {d \in Sizeable \X Sizeable : Dominates(d[1], d[2])}
<1>1. Sizeable \subseteq Pods /\ IsFiniteSet(Sizeable)
  BY Orders, FS_Subset DEF Sizeable
<1>2. \A x \in Sizeable : traits[x].asked \in Amounts
  BY <1>1 DEF Typed, Trait
<1>3. \A x, y, z \in Sizeable : ~Before(PodOrder, x, x)
        /\ (Before(PodOrder, x, y) /\ Before(PodOrder, y, z) => Before(PodOrder, x, z))
  BY <1>1, Orders, BeforeIsTotal DEF Pods
<1>4. \A f, g \in Amounts : Fits(f, g) /\ Fits(g, f) => f = g
  <2> SUFFICES ASSUME NEW f \in Amounts, NEW g \in Amounts, Fits(f, g), Fits(g, f)
               PROVE  \A r \in Resources : f[r] = g[r]
    BY DEF Amounts
  <2> QED
    BY SMT DEF Fits, Amounts
<1>5. \A f, g, h \in Amounts : Fits(f, g) /\ Fits(g, h) => Fits(f, h)
  BY SMT DEF Fits, Amounts
<1>6. ASSUME NEW x \in Sizeable, NEW y \in Sizeable, NEW z \in Sizeable,
             Dominates(x, y), Dominates(y, z)
      PROVE  Dominates(x, z)
  <2>1. /\ Fits(traits[y].asked, traits[x].asked) /\ Fits(traits[z].asked, traits[y].asked)
        /\ traits[x].tolerant = traits[z].tolerant
    BY <1>6 DEF Dominates
  <2>2. Fits(traits[z].asked, traits[x].asked)
    BY <1>2, <1>5, <2>1
  <2>3. ASSUME traits[x].asked = traits[z].asked
        PROVE  Before(PodOrder, x, z)
    <3>1. traits[x].asked = traits[y].asked /\ traits[y].asked = traits[z].asked
      BY <1>2, <1>4, <2>1, <2>3
    <3> QED
      BY <1>3, <1>6, <3>1 DEF Dominates
  <2> QED
    BY <2>1, <2>2, <2>3 DEF Dominates
<1>7. \A x \in Sizeable : ~Dominates(x, x)
  BY <1>3 DEF Dominates
<1>8. \A x, y \in Sizeable : <<x, y>> \in R <=> Dominates(x, y)
  OBVIOUS
<1> HIDE DEF R
<1>9. Strict(R, Sizeable)
  BY <1>6, <1>7, <1>8 DEF Strict
<1>10. PICK q \in Sizeable : Tops(q, p, R, Sizeable)
  BY <1>1, <1>9, Highest
<1> QED
  BY <1>8, <1>10 DEF Tops, MaximalShapes

LEMMA EveryShapeHasRoom == Typed => RoomForEveryShape
<1> DEFINE simulation == Simulate(PodOrder, TRUE)
<1> SUFFICES ASSUME Typed, simulation.feasible, NEW p \in Sizeable
             PROVE  RoomFor(p, simulation.free)
  BY DEF RoomForEveryShape
<1>1. PICK s \in States(Leaving) : Packed(PodOrder, Leaving) = s
  BY PackedIs DEF Leaving, OnNode
<1>2. simulation.free = s.free /\ Headroom(s.free)
  BY <1>1 DEF Simulate
<1>3. PICK q \in MaximalShapes : q = p \/ Dominates(q, p)
  BY ShapesAreCovered
<1>4. PICK n \in Destinations : ~Cordoned(n) /\ Tolerates(q, n) /\ Fits(traits[q].asked, s.free[n])
  BY <1>2, <1>3 DEF Headroom, RoomFor
<1>5. Tolerates(p, n)
  BY <1>3, <1>4 DEF Dominates, Tolerates
<1>6. Fits(traits[p].asked, s.free[n])
  <2>1. /\ traits[p].asked \in Amounts /\ traits[q].asked \in Amounts
        /\ s.free[n] \in Amounts
    BY <1>1 DEF Typed, Trait, Sizeable, MaximalShapes, States
  <2>2. traits[p].asked = traits[q].asked \/ Fits(traits[p].asked, traits[q].asked)
    BY <1>3 DEF Dominates
  <2> DEFINE f == traits[p].asked
             g == traits[q].asked
             h == s.free[n]
  <2>3. Fits(g, h)
    BY <1>4
  <2> HIDE DEF f, g, h
  <2>4. f \in Amounts /\ g \in Amounts /\ h \in Amounts /\ (f = g \/ Fits(f, g))
    BY <2>1, <2>2 DEF f, g, h
  <2>5. Fits(f, h)
    BY <2>3, <2>4, SMT DEF Fits, Amounts
  <2> QED
    BY <2>5 DEF f, h
<1> QED
  BY <1>2, <1>4, <1>5, <1>6 DEF RoomFor

-------------------------------------------------------------------------------
(***************************************************************************)
(* One drain.                                                              *)
(***************************************************************************)

Inv ==
  /\ Typed
  /\ waiting # NoPod => stage = "draining"
  /\ NobodyIsStranded

LEMMA Initially == Init => Inv
<1> SUFFICES ASSUME Init PROVE Inv
  OBVIOUS
<1>1. Typed
  <2>1. Traits \subseteq Trait /\ Placements \subseteq [Pods -> Nodes]
    BY PackingAssumption
  <2>2. traits \in [Pods -> Trait]
    BY <2>1 DEF Init
  <2>3. at \in [Pods -> Nodes \union {NoNode}]
    <3>1. at \in [Pods -> Nodes]
      BY <2>1 DEF Init
    <3> QED
      BY <3>1
  <2>4. waiting = NoPod
    BY DEF Init, Begins
  <2> QED
    BY <2>2, <2>3, <2>4 DEF Typed
<1>2. waiting = NoPod
  BY DEF Init, Begins
<1> QED
  BY <1>1, <1>2 DEF Inv, NobodyIsStranded

\* What is evicted first fits where the simulation put it, on what was free before.
LEMMA EvictKeeps == ASSUME Inv, Evict PROVE Inv'
<1>1. PICK listing \in Listings :
        LET plan == Revalidated(listing)
        IN  /\ plan.feasible /\ plan.relocated # <<>>
            /\ waiting' = Head(plan.relocated).pod
            /\ at' = [at EXCEPT ![Head(plan.relocated).pod] = NoNode]
  BY DEF Evict
<1>2. PICK s \in States(Leaving) : Sound(s) /\ Packed(listing, Leaving) = s
  BY PackedIs DEF Leaving, OnNode, Inv
<1>3. Revalidated(listing).relocated = s.placed
  BY <1>2 DEF Revalidated, Simulate
<1> DEFINE p == Head(s.placed).pod
           n == Head(s.placed).node
<1>4. s.placed # <<>> /\ waiting' = p /\ at' = [at EXCEPT ![p] = NoNode]
  BY <1>1, <1>3
<1>5. p \in Leaving /\ n \in Destinations /\ CanFit(p, n, Free(n))
  <2>1. s.placed \in Seq([pod: Leaving, node: Destinations])
    BY DEF States
  <2>2. Head(s.placed) \in [pod: Leaving, node: Destinations]
    <3> DEFINE T == [pod: Leaving, node: Destinations]
               placed == s.placed
    <3>1. placed \in Seq(T) /\ placed # <<>>
      BY <1>4, <2>1
    <3> HIDE DEF T, placed
    <3>2. Head(placed) \in T
      BY <3>1, HeadTailProperties
    <3> QED
      BY <3>2 DEF T, placed
  <2> QED
    BY <1>2, <1>4, <2>2 DEF Sound
<1> HIDE DEF p, n
<1>6. p \in Pods /\ at[p] = Candidate /\ n \in Nodes \ Doomed /\ n # Candidate
  BY <1>5 DEF Leaving, OnNode, Destinations
<1>7. traits' = traits /\ stage' = stage /\ stage = "draining"
  BY DEF Evict
<1>8. Typed /\ Typed'
  BY <1>4, <1>6, <1>7 DEF Inv, Typed
<1>9. Free(n)' = Free(n)
  <2>1. n # NoNode
    BY <1>6, PackingAssumption
  <2>2. \A q \in Pods : at'[q] = n <=> at[q] = n
    BY <1>4, <1>6, <1>8, <2>1 DEF Typed
  <2>3. n \in Nodes
    BY <1>6
  <2> QED
    BY <1>7, <1>8, <2>2, <2>3, FreeStays
<1>10. Rejected(p, n)' => Rejected(p, n)
  BY <1>4, <1>6, <1>7, <1>8 DEF Rejected, Typed
<1>11. Takes(n)'
  BY <1>4, <1>5, <1>6, <1>7, <1>9, <1>10 DEF Takes, CanFit, Cordoned, Tolerates, Rejected
<1> QED
  BY <1>6, <1>7, <1>8, <1>11 DEF Inv, NobodyIsStranded

LEMMA NextKeeps == Inv /\ [Next]_vars => Inv'
<1> SUFFICES ASSUME Inv, [Next]_vars PROVE Inv'
  OBVIOUS
<1>1. CASE Begin
  <2>1. waiting' = NoPod
    BY <1>1 DEF Begin, Inv
  <2> QED
    BY <1>1, <2>1 DEF Begin, Inv, Typed, NobodyIsStranded
<1>2. CASE Evict
  BY <1>2, EvictKeeps
<1>3. CASE Complete
  BY <1>3 DEF Complete, Inv, Typed, NobodyIsStranded
<1>4. CASE Abandon
  BY <1>4 DEF Abandon, Inv, Typed, NobodyIsStranded
<1>5. ASSUME NEW n \in Nodes, Schedule(n)
      PROVE  Inv'
  <2>1. waiting' = NoPod /\ waiting \in Pods
    BY <1>5 DEF Schedule, Inv, Typed
  <2>2. traits'[waiting] \in Trait
    BY <1>5, <2>1 DEF Schedule, Inv, Typed, Trait
  <2>3. traits' \in [Pods -> Trait] /\ at' \in [Pods -> Nodes \union {NoNode}]
    BY <1>5, <2>1, <2>2 DEF Schedule, Inv, Typed
  <2> QED
    BY <2>1, <2>3 DEF Inv, Typed, NobodyIsStranded
<1>6. CASE UNCHANGED vars
  <2>1. Typed' /\ (waiting' # NoPod => stage' = "draining")
    BY <1>6 DEF vars, Inv, Typed
  <2>2. NobodyIsStranded'
    BY <1>6 DEF vars, Inv, NobodyIsStranded, Takes, Rejected, Cordoned, Tolerates, Fits, Free
  <2> QED
    BY <2>1, <2>2 DEF Inv
<1> QED
  BY <1>1, <1>2, <1>3, <1>4, <1>5, <1>6 DEF Next

LEMMA InvHolds == Spec => []Inv
  BY Initially, NextKeeps, PTL DEF Spec

\* A wrong consolidation costs a scale-up: in clusters of every size, whatever the pods
\* are like and wherever the scheduler put those before it, the replacement that an
\* eviction brings about has a node that takes it.
THEOREM NobodyStranded == Spec => []NobodyIsStranded
<1>1. Inv => NobodyIsStranded
  BY DEF Inv
<1> QED
  BY <1>1, InvHolds, PTL

\* checkHeadroom asks about the maximal shapes alone and answers for all of them: what
\* it leaves out is covered, in every resource, by one it asks about.
THEOREM RoomForEvery == Spec => []RoomForEveryShape
<1>1. Inv => RoomForEveryShape
  BY EveryShapeHasRoom DEF Inv
<1> QED
  BY <1>1, InvHolds, PTL

\* The pods are sorted by an order that leaves nothing open: what Simulate answers is
\* the same for every order the API server may list them in.
THEOREM ReadingsDecide == Spec => []TheReadingDecides
<1>1. Inv => TheReadingDecides
  BY ReadingDecides DEF Inv
<1> QED
  BY <1>1, InvHolds, PTL
===============================================================================
