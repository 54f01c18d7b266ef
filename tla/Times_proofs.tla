----------------------------- MODULE Times_proofs -----------------------------
(***************************************************************************)
(* The times the controller reckons with.  What the memory of the          *)
(* cluster-autoscaler is for, over any number of scans, restarts of either *)
(* process and gaps in the status; and how long a failed drain is left     *)
(* alone, for every width of a duration and any number of failures.        *)
(***************************************************************************)
EXTENDS AutoscalerMemory, Backoff, WellFoundedInduction, TLAPS

-------------------------------------------------------------------------------
(***************************************************************************)
(* The memory.                                                             *)
(***************************************************************************)

\* Nothing that was read is later than the last scan.
InThePast ==
  /\ doc.probe <= now /\ doc.stamp <= now
  /\ mem.earliest <= now /\ mem.watched <= now

\* What the stamp is agrees with the document it stands in.
KindFits ==
  /\ doc.scaling <=> past.kind = "start"
  /\ past.kind = "end" => doc.stamp # 0

\* A phantom is no earlier than the earliest scan read, and no end of an episode.
PhantomsAreLate ==
  past.kind = "phantom" /\ past.watching /\ ~past.lost =>
    /\ mem.earliest # 0 /\ mem.earliest <= doc.stamp
    /\ mem.watched # doc.stamp /\ ~mem.underway

\* An episode that was seen in progress is remembered until its end has been read.
EpisodesAreKept ==
  /\ past.saw /\ past.kind = "start" => mem.underway
  /\ past.saw /\ past.kind = "end" => mem.underway \/ mem.watched = doc.stamp
  /\ past.saw => past.kind \in {"start", "end"}

Inv == /\ TypeOK /\ InThePast /\ KindFits /\ PhantomsAreLate /\ EpisodesAreKept
       /\ PhantomsAreSeenThrough /\ WatchedEpisodesCount

-------------------------------------------------------------------------------
LEMMA InitInv == Init => Inv
  BY MaxTimeAssumption DEF Init, Inv, TypeOK, Doc, Memory, Past, Forgotten, InThePast,
     KindFits, PhantomsAreLate, EpisodesAreKept, PhantomsAreSeenThrough, WatchedEpisodesCount

\* Reading a document, or finding none.
LEMMA EvaluateInv ==
  ASSUME Inv, Evaluate
  PROVE  Inv'
<1> DEFINE a == ReadAutoscaler
           m == RememberAutoscaler(mem, a)
<1>1. /\ a \in [scaling: BOOLEAN, probe: Nat, stamp: Nat]
      /\ doc.found => a.scaling = doc.scaling /\ a.probe = doc.probe /\ a.stamp = doc.stamp
      /\ ~doc.found => a.scaling = FALSE /\ a.probe = 0 /\ a.stamp = 0
  BY DEF ReadAutoscaler, Inv, TypeOK, Doc
<1>2. /\ mem' = m
      /\ verdict' = IF ~doc.found THEN "unread"
                    ELSE IF TrustScaleUp(m, a) THEN "trusted" ELSE "untrusted"
      /\ past' = [past EXCEPT !.saw = @ \/ a.scaling]
      /\ UNCHANGED <<now, starting, doc>>
  BY DEF Evaluate
<1>3. /\ m.earliest = Earliest(mem, a)
      /\ m.watched = IF ~a.scaling /\ EpisodeOver(mem, a) THEN a.stamp ELSE mem.watched
      /\ m.underway = (a.scaling \/ (mem.underway /\ ~EpisodeOver(mem, a)))
      /\ m = [earliest |-> m.earliest, watched |-> m.watched, underway |-> m.underway]
  BY DEF RememberAutoscaler
<1> HIDE DEF a, m
<1>4. m \in Memory
  BY <1>1, <1>3 DEF Memory, Inv, TypeOK, Earliest, EpisodeOver
<1>5. past' \in Past /\ past'.kind = past.kind /\ past'.watching = past.watching
        /\ past'.lost = past.lost /\ past'.saw = (past.saw \/ a.scaling)
  BY <1>1, <1>2 DEF Inv, TypeOK, Past
<1>6. TypeOK' /\ InThePast' /\ KindFits'
  <2>1. TypeOK'
    BY <1>2, <1>4, <1>5 DEF Inv, TypeOK
  <2>2. m.earliest <= now /\ m.watched <= now
    BY <1>1, <1>3 DEF Inv, TypeOK, InThePast, Memory, Doc, Earliest, EpisodeOver
  <2> QED
    BY <1>2, <1>5, <2>1, <2>2 DEF Inv, InThePast, KindFits
<1>7. PhantomsAreLate'
  BY <1>1, <1>2, <1>3, <1>4, <1>5
     DEF Inv, TypeOK, Doc, Memory, InThePast, KindFits, PhantomsAreLate, Earliest, EpisodeOver
<1>8. EpisodesAreKept'
  BY <1>1, <1>2, <1>3, <1>5
     DEF Inv, TypeOK, Doc, Memory, KindFits, EpisodesAreKept, EpisodeOver
<1>9. PhantomsAreSeenThrough'
  <2> SUFFICES ASSUME past'.kind = "phantom", past'.watching, ~past'.lost
               PROVE  verdict' # "trusted"
    BY <1>5 DEF PhantomsAreSeenThrough, Past
  <2>1. m.earliest # 0 /\ m.earliest <= doc.stamp /\ m.watched # doc.stamp
    BY <1>2, <1>7 DEF PhantomsAreLate
  <2>2. CASE doc.found
    BY <1>1, <1>2, <1>4, <2>1, <2>2 DEF TrustScaleUp, Memory
  <2>3. CASE ~doc.found
    BY <1>2, <2>3
  <2> QED
    BY <2>2, <2>3
<1>10. WatchedEpisodesCount'
  <2> SUFFICES ASSUME past'.kind = "end", past'.saw
               PROVE  verdict' # "untrusted"
    BY DEF WatchedEpisodesCount
  <2>1. CASE doc.found
    <3>1. ~a.scaling /\ past.saw /\ a.stamp # 0 /\ a.stamp = doc.stamp
      BY <1>1, <1>5, <2>1 DEF Inv, TypeOK, KindFits, Doc
    <3>2. m.watched = a.stamp
      BY <1>3, <1>5, <3>1 DEF Inv, EpisodesAreKept, EpisodeOver
    <3> QED
      BY <1>2, <2>1, <3>1, <3>2 DEF TrustScaleUp
  <2>2. CASE ~doc.found
    BY <1>2, <2>2
  <2> QED
    BY <2>1, <2>2
<1> QED
  BY <1>6, <1>7, <1>8, <1>9, <1>10 DEF Inv

\* A scan that is an autoscaler's first stamps a phantom or begins an episode, and a
\* later one turns the page or leaves the stamp alone.
LEMMA ScanInv ==
  ASSUME Inv, Scan
  PROVE  Inv'
<1>1. now' = now + 1 /\ starting' = FALSE /\ verdict' = "unread" /\ mem' = mem /\ now \in Nat
  BY DEF Scan, Inv, TypeOK
<1>2. PICK growing \in BOOLEAN : FirstScan(growing) \/ LaterScan(growing)
  BY DEF Scan
<1>3. CASE FirstScan(growing)
  <2>1. /\ doc' = [found |-> TRUE, scaling |-> growing, probe |-> now + 1, stamp |-> now + 1]
        /\ past' = [kind |-> IF growing THEN "start" ELSE "phantom", saw |-> FALSE,
                    watching |-> mem.earliest # 0, lost |-> mem.underway]
    BY <1>3 DEF FirstScan
  <2>2. TypeOK'
    <3>1. doc' \in Doc
      BY <1>1, <2>1 DEF Doc
    <3>2. (mem.earliest # 0) \in BOOLEAN /\ mem.underway \in BOOLEAN
      BY DEF Inv, TypeOK, Memory
    <3>3. past' \in Past
      BY <2>1, <3>2 DEF Past
    <3>4. starting' \in BOOLEAN
      BY <1>1, Zenon
    <3>5. now' \in Nat
      BY <1>1
    <3>6. mem' \in Memory
      BY <1>1 DEF Inv, TypeOK
    <3>7. verdict' \in {"unread", "trusted", "untrusted"}
      BY <1>1
    <3> QED
      BY <3>1, <3>3, <3>4, <3>5, <3>6, <3>7 DEF TypeOK
  <2>3. InThePast' /\ KindFits' /\ EpisodesAreKept'
    BY <1>1, <2>1 DEF Inv, TypeOK, Memory, InThePast, KindFits, EpisodesAreKept
  <2>4. PhantomsAreLate'
    BY <1>1, <2>1 DEF Inv, TypeOK, Memory, InThePast, PhantomsAreLate
  <2> QED
    BY <1>1, <2>2, <2>3, <2>4 DEF Inv, PhantomsAreSeenThrough, WatchedEpisodesCount
<1>4. CASE LaterScan(growing)
  <2> DEFINE turns == growing # doc.scaling
  <2>1. /\ doc' = [found |-> TRUE, scaling |-> growing, probe |-> now + 1,
                   stamp |-> IF turns THEN now + 1 ELSE doc.stamp]
        /\ past' = IF turns THEN [past EXCEPT !.kind = IF growing THEN "start" ELSE "end",
                                              !.saw = @ /\ ~growing]
                   ELSE past
    BY <1>4 DEF LaterScan
  <2>2. TypeOK'
    <3>1. doc' \in Doc
      BY <1>1, <2>1 DEF Inv, TypeOK, Doc
    <3>2. past \in Past
      BY DEF Inv, TypeOK
    <3>3. past' \in Past
      BY <2>1, <3>2 DEF Past
    <3>4. starting' \in BOOLEAN
      BY <1>1, Zenon
    <3>5. now' \in Nat
      BY <1>1
    <3>6. mem' \in Memory
      BY <1>1 DEF Inv, TypeOK
    <3>7. verdict' \in {"unread", "trusted", "untrusted"}
      BY <1>1
    <3> QED
      BY <3>1, <3>3, <3>4, <3>5, <3>6, <3>7 DEF TypeOK
  <2>3. InThePast'
    BY <1>1, <2>1 DEF Inv, TypeOK, Doc, Memory, InThePast
  <2>4. CASE turns
    <3>1. past' \in Past /\ past'.kind = (IF growing THEN "start" ELSE "end")
            /\ past'.saw = (past.saw /\ ~growing) /\ doc'.stamp = now + 1
            /\ doc'.scaling = growing
      BY <2>1, <2>2, <2>4 DEF TypeOK, Inv, Past
    <3>2. KindFits' /\ PhantomsAreLate'
      BY <1>1, <3>1 DEF KindFits, PhantomsAreLate
    <3>3. EpisodesAreKept'
      BY <1>1, <2>4, <3>1 DEF Inv, TypeOK, Doc, KindFits, EpisodesAreKept
    <3> QED
      BY <1>1, <2>2, <2>3, <3>2, <3>3 DEF Inv, PhantomsAreSeenThrough, WatchedEpisodesCount
  <2>5. CASE ~turns
    <3>1. past' = past /\ doc'.scaling = doc.scaling /\ doc'.stamp = doc.stamp
      BY <2>1, <2>5
    <3>2. KindFits' /\ PhantomsAreLate' /\ EpisodesAreKept'
      BY <1>1, <3>1 DEF Inv, KindFits, PhantomsAreLate, EpisodesAreKept
    <3> QED
      BY <1>1, <2>2, <2>3, <3>2 DEF Inv, PhantomsAreSeenThrough, WatchedEpisodesCount
  <2> QED
    BY <2>4, <2>5
<1> QED
  BY <1>2, <1>3, <1>4

\* The invariant of the memory.
THEOREM InvHolds == Spec => []Inv
<1>1. ASSUME Inv, [Next]_vars
      PROVE  Inv'
  <2>1. CASE Evaluate
    BY <1>1, <2>1, EvaluateInv
  <2>2. CASE BinpackRestarts
    <3>1. /\ mem' = [earliest |-> 0, watched |-> 0, underway |-> FALSE]
          /\ verdict' = "unread" /\ UNCHANGED <<now, starting, doc>>
          /\ past' = [past EXCEPT !.saw = FALSE, !.watching = FALSE, !.lost = FALSE]
          /\ past \in Past
      BY <1>1, <2>2 DEF BinpackRestarts, Forgotten, Inv, TypeOK
    <3>2. past' \in Past /\ past'.kind = past.kind /\ ~past'.saw /\ ~past'.watching
      BY <3>1 DEF Past
    <3>3. mem' \in Memory
      BY <3>1 DEF Memory
    <3>4. TypeOK'
      BY <1>1, <3>1, <3>2, <3>3 DEF Inv, TypeOK
    <3>5. InThePast' /\ KindFits' /\ PhantomsAreLate' /\ EpisodesAreKept'
      BY <1>1, <3>1, <3>2
         DEF Inv, TypeOK, InThePast, KindFits, PhantomsAreLate, EpisodesAreKept
    <3> QED
      BY <3>1, <3>4, <3>5 DEF Inv, PhantomsAreSeenThrough, WatchedEpisodesCount
  <2>3. CASE Scan
    BY <1>1, <2>3, ScanInv
  <2>4. CASE AutoscalerRestarts
    BY <1>1, <2>4 DEF AutoscalerRestarts, Inv, TypeOK, InThePast, KindFits,
       PhantomsAreLate, EpisodesAreKept, PhantomsAreSeenThrough, WatchedEpisodesCount
  <2>5. CASE StatusVanishes
    <3>1. /\ doc' = [doc EXCEPT !.found = FALSE] /\ doc \in Doc
          /\ UNCHANGED <<now, starting, mem, verdict, past>>
      BY <1>1, <2>5 DEF StatusVanishes, Inv, TypeOK
    <3>2. doc' \in Doc /\ doc'.scaling = doc.scaling /\ doc'.probe = doc.probe
            /\ doc'.stamp = doc.stamp
      BY <3>1 DEF Doc
    <3> QED
      BY <1>1, <3>1, <3>2 DEF Inv, TypeOK, InThePast, KindFits, PhantomsAreLate,
         EpisodesAreKept, PhantomsAreSeenThrough, WatchedEpisodesCount
  <2>6. CASE UNCHANGED vars
    BY <1>1, <2>6 DEF vars, Inv, TypeOK, InThePast, KindFits, PhantomsAreLate,
       EpisodesAreKept, PhantomsAreSeenThrough, WatchedEpisodesCount
  <2> QED
    BY <1>1, <2>1, <2>2, <2>3, <2>4, <2>5, <2>6 DEF Next
<1> QED
  BY <1>1, InitInv, PTL DEF Spec

\* A restart's stamp is never taken for growth by a binpack that was watching, but
\* within an episode it had seen begin: trustScaleUp's claim, for any run.
THEOREM PhantomsSeenThrough == Spec => []PhantomsAreSeenThrough
<1>1. Inv => PhantomsAreSeenThrough
  BY DEF Inv
<1> QED
  BY <1>1, InvHolds, PTL

\* The end of an episode binpack watched is trusted over every gap in the status
\* that follows it.
THEOREM EpisodesCount == Spec => []WatchedEpisodesCount
<1>1. Inv => WatchedEpisodesCount
  BY DEF Inv
<1> QED
  BY <1>1, InvHolds, PTL

-------------------------------------------------------------------------------
(***************************************************************************)
(* The wait stays within its bounds.                                       *)
(***************************************************************************)
WaitInv == BackoffTypeOK /\ WaitWithinBounds

\* Below half the cap, twice the wait is still a duration under the cap.
LEMMA DoublingFits ==
  ASSUME NEW w \in Nat, NEW cap \in 1..MaxDuration, ~(w > cap \div 2)
  PROVE  2 * w <= cap /\ Wrapped(2 * w) = 2 * w
<1>1. 2 * w <= cap
  BY BackoffAssumption, SMT
<1> QED
  BY <1>1, BackoffAssumption, SMT DEF Wrapped

\* The first wait is within the bounds.
LEMMA WaitInit == BackoffInit => WaitInv
<1> SUFFICES ASSUME BackoffInit PROVE WaitInv
  OBVIOUS
<1>1. returned \in BOOLEAN
  BY DEF BackoffInit
<1>2. wait \in initial..max /\ wait \in Durations
  BY BackoffAssumption, SMT DEF BackoffInit, Durations
<1>3. max \in 1..MaxDuration /\ i \in 1..(MaxAttempts + 1)
  BY BackoffAssumption, SMT DEF BackoffInit
<1> QED
  BY <1>1, <1>2, <1>3 DEF BackoffInit, WaitInv, BackoffTypeOK, WaitWithinBounds

\* Every iteration keeps it there.
LEMMA WaitNext == WaitInv /\ [BackoffNext]_backoffVars => WaitInv'
<1> SUFFICES ASSUME WaitInv, [BackoffNext]_backoffVars PROVE WaitInv'
  OBVIOUS
<1> USE BackoffAssumption DEF WaitInv, BackoffTypeOK, WaitWithinBounds, Durations
<1>1. CASE Double
  <2>1. wait \in Nat /\ max \in 1..MaxDuration
    BY SMT
  <2>2. 2 * wait <= max /\ wait' = 2 * wait
    BY <1>1, <2>1, DoublingFits DEF Double, NearCap
  <2>3. i' \in 1..(MaxAttempts + 1)
    BY <1>1, SMT DEF Double, Looping
  <2> QED
    BY <1>1, <2>2, <2>3, SMT DEF Double
<1>2. CASE Clamp
  BY <1>2, SMT DEF Clamp
<1>3. CASE Finish
  BY <1>3, SMT DEF Finish
<1>4. CASE UNCHANGED backoffVars
  BY <1>4, SMT DEF backoffVars
<1> QED
  BY <1>1, <1>2, <1>3, <1>4 DEF BackoffNext

\* Clamping before the doubling keeps every wait between the configured bounds,
\* whatever the width of a duration and however many drains have failed.
THEOREM WaitBounded == BackoffSpec => []WaitWithinBounds
<1>1. WaitInv => WaitWithinBounds
  BY DEF WaitInv
<1> QED
  BY <1>1, WaitInit, WaitNext, PTL DEF BackoffSpec

-------------------------------------------------------------------------------
(***************************************************************************)
(* The powers of two.  That the recursion defines a function is shown by   *)
(* way of the least number at which it would fail.                         *)
(***************************************************************************)

\* Numbers have a least.
LEMMA LeastNumber ==
  ASSUME NEW S \in SUBSET Nat, S # {}
  PROVE  \E x \in S : \A y \in S : x <= y
<1>1. PICK x \in S : \A y \in S : <<y, x>> \notin OpToRel(<, Nat)
  BY NatLessThanWellFounded, WFMin, Zenon
<1>2. ASSUME NEW y \in S
      PROVE  ~(y < x)
  <2>1. <<y, x>> \in Nat \X Nat
    BY Zenon
  <2>2. <<y, x>> \notin OpToRel(<, Nat)
    BY <1>1
  <2> QED
    BY <2>1, <2>2 DEF OpToRel
<1> QED
  BY <1>2

\* g holds the first powers, up to the one of m.
UpTo(m, g) ==
  /\ g \in [0..m -> Nat]
  /\ g[0] = 1
  /\ \A k \in 1..m : g[k] = 2 * g[k - 1]

LEMMA PowersExist == \A m \in Nat : \E g : UpTo(m, g)
<1> DEFINE S == {m \in Nat : ~(\E g : UpTo(m, g))}
<1>1. SUFFICES ASSUME S # {} PROVE FALSE
  OBVIOUS
<1>2. PICK m \in S : \A y \in S : m <= y
  BY <1>1, LeastNumber
<1>3. CASE m = 0
  <2>1. UpTo(0, [k \in 0..0 |-> 1])
    BY SMT DEF UpTo
  <2> QED
    BY <1>3, <2>1
<1>4. CASE m # 0
  <2>1. m - 1 \in Nat /\ m - 1 \notin S
    BY <1>2, <1>4
  <2>2. PICK g : UpTo(m - 1, g)
    BY <2>1
  <2> DEFINE h == [k \in 0..m |-> IF k = m THEN 2 * g[m - 1] ELSE g[k]]
  <2>3. /\ m - 1 \in Nat /\ g \in [0..(m - 1) -> Nat] /\ g[0] = 1
        /\ \A k \in 1..(m - 1) : g[k] = 2 * g[k - 1]
    BY <2>1, <2>2 DEF UpTo
  <2>4. \A k \in 0..m : h[k] \in Nat
    BY <2>3
  <2>5. h \in [0..m -> Nat] /\ h[0] = 1
    BY <1>4, <2>3, <2>4
  <2>6. ASSUME NEW k \in 1..m
        PROVE  h[k] = 2 * h[k - 1]
    BY <2>3
  <2>7. UpTo(m, h)
    BY <2>5, <2>6 DEF UpTo
  <2> QED
    BY <2>7
<1> QED
  BY <1>3, <1>4

LEMMA PowersAgree ==
  ASSUME NEW m \in Nat, NEW n \in Nat, NEW g, NEW h, UpTo(m, g), UpTo(n, h),
         NEW j \in Nat, j <= m, j <= n
  PROVE  g[j] = h[j]
<1> DEFINE S == {k \in Nat : k <= m /\ k <= n /\ g[k] # h[k]}
<1>1. SUFFICES ASSUME S # {} PROVE FALSE
  OBVIOUS
<1>2. PICK k \in S : \A y \in S : k <= y
  BY <1>1, LeastNumber
<1>3. k # 0
  BY DEF UpTo
<1>4. k - 1 \in Nat /\ k - 1 \notin S
  BY <1>2, <1>3
<1>5. g[k - 1] = h[k - 1]
  BY <1>4
<1>6. k \in 1..m /\ k \in 1..n
  BY <1>3
<1> QED
  BY <1>5, <1>6 DEF UpTo

LEMMA PowerStep ==
  /\ Power[0] = 1
  /\ \A n \in Nat : Power[n] \in Nat /\ Power[n + 1] = 2 * Power[n]
<1> DEFINE g(n) == CHOOSE x : UpTo(n, x)
           f == [n \in Nat |-> g(n)[n]]
<1>1. ASSUME NEW n \in Nat
      PROVE  UpTo(n, g(n))
  BY PowersExist
<1>2. \A n \in Nat : f[n] \in Nat
  BY <1>1 DEF UpTo
<1>3. f[0] = 1
  BY <1>1 DEF UpTo
<1>4. ASSUME NEW n \in Nat
      PROVE  f[n + 1] = 2 * f[n]
  <2>1. UpTo(n, g(n)) /\ UpTo(n + 1, g(n + 1)) /\ n + 1 \in Nat
    BY <1>1
  <2> HIDE DEF g
  <2>2. g(n + 1)[n] = g(n)[n]
    BY <2>1, PowersAgree
  <2>3. g(n + 1)[n + 1] = 2 * g(n + 1)[n]
    BY <2>1 DEF UpTo
  <2> QED
    BY <2>1, <2>2, <2>3
<1> HIDE DEF f
<1>5. f = [n \in Nat |-> IF n = 0 THEN 1 ELSE 2 * f[n - 1]]
  <2>1. ASSUME NEW n \in Nat
        PROVE  f[n] = IF n = 0 THEN 1 ELSE 2 * f[n - 1]
    <3>1. CASE n = 0
      BY <1>3, <3>1
    <3>2. CASE n # 0
      <4>1. n - 1 \in Nat /\ (n - 1) + 1 = n
        BY <3>2
      <4> QED
        BY <1>4, <3>2, <4>1
    <3> QED
      BY <3>1, <3>2
  <2>2. f = [n \in Nat |-> f[n]]
    BY DEF f
  <2> QED
    BY <2>1, <2>2
<1>6. Power = [n \in Nat |-> IF n = 0 THEN 1 ELSE 2 * Power[n - 1]]
  <2>1. \E p : p = [n \in Nat |-> IF n = 0 THEN 1 ELSE 2 * p[n - 1]]
    BY <1>5
  <2> QED
    BY <2>1 DEF Power
<1>7. Power[0] = 1
  BY <1>6
<1>8. \A n \in Nat : Power[n + 1] = 2 * Power[n]
  BY <1>6
<1>9. \A n \in Nat : Power[n] \in Nat
  <2> DEFINE S == {n \in Nat : Power[n] \notin Nat}
  <2>1. SUFFICES ASSUME S # {} PROVE FALSE
    OBVIOUS
  <2>2. PICK k \in S : \A y \in S : k <= y
    BY <2>1, LeastNumber
  <2>3. k # 0
    BY <1>7
  <2>4. k - 1 \in Nat /\ k - 1 \notin S /\ (k - 1) + 1 = k
    BY <2>2, <2>3
  <2>5. Power[k] = 2 * Power[k - 1] /\ Power[k - 1] \in Nat
    BY <1>8, <2>4
  <2> QED
    BY <2>5
<1> QED
  BY <1>7, <1>8, <1>9

\* They grow.
LEMMA PowerGrows ==
  ASSUME NEW m \in Nat, NEW n \in Nat, m <= n
  PROVE  Power[m] <= Power[n]
<1> DEFINE S == {k \in Nat : m <= k /\ ~(Power[m] <= Power[k])}
<1>1. SUFFICES ASSUME S # {} PROVE FALSE
  OBVIOUS
<1>2. PICK k \in S : \A y \in S : k <= y
  BY <1>1, LeastNumber
<1>3. k # m
  BY PowerStep
<1>4. k - 1 \in Nat /\ m <= k - 1 /\ k - 1 \notin S /\ (k - 1) + 1 = k
  BY <1>2, <1>3
<1>5. Power[m] <= Power[k - 1] /\ Power[k] = 2 * Power[k - 1]
  BY <1>4, PowerStep
<1>6. Power[m] \in Nat /\ Power[k - 1] \in Nat
  BY <1>4, PowerStep
<1> QED
  BY <1>5, <1>6

-------------------------------------------------------------------------------
(***************************************************************************)
(* The loop has doubled once for every iteration, until it returns.        *)
(***************************************************************************)
Exact(n) == initial * Power[n - 1]

Doubles ==
  /\ i <= attempts
  /\ ~returned => wait = Exact(i)
  /\ ReturnsDoubled

\* One failure more doubles the wait, and no failure shortens it.
LEMMA ExactGrows ==
  ASSUME BackoffTypeOK, NEW m \in 1..attempts, NEW n \in m..attempts
  PROVE  /\ Exact(m) \in Nat /\ Exact(n) \in Nat /\ Exact(m) <= Exact(n)
         /\ m < attempts => Exact(m + 1) = 2 * Exact(m)
<1>1. /\ initial \in Nat /\ m - 1 \in Nat /\ n - 1 \in Nat /\ m - 1 <= n - 1
      /\ (m + 1) - 1 = (m - 1) + 1
  BY BackoffAssumption DEF BackoffTypeOK
<1> DEFINE p == Power[m - 1]
           q == Power[n - 1]
           r == Power[(m + 1) - 1]
<1>2. p \in Nat /\ q \in Nat /\ p <= q /\ r = 2 * p
  BY <1>1, PowerStep, PowerGrows
<1> HIDE DEF p, q, r
<1>3. initial * p \in Nat /\ initial * q \in Nat /\ initial * p <= initial * q
  BY <1>1, <1>2
<1>4. initial * r = 2 * (initial * p)
  BY <1>1, <1>2
<1> QED
  BY <1>3, <1>4 DEF Exact, p, q, r

LEMMA DoublesInit == BackoffInit => Doubles
<1> SUFFICES ASSUME BackoffInit PROVE Doubles
  OBVIOUS
<1>1. i = 1 /\ ~returned /\ 1 <= attempts /\ wait = initial /\ initial \in Nat
  BY BackoffAssumption DEF BackoffInit
<1>2. Exact(1) = initial
  BY <1>1, PowerStep DEF Exact
<1> QED
  BY <1>1, <1>2 DEF Doubles, ReturnsDoubled

LEMMA DoublesNext == WaitInv /\ Doubles /\ [BackoffNext]_backoffVars => Doubles'
<1> SUFFICES ASSUME WaitInv, Doubles, [BackoffNext]_backoffVars PROVE Doubles'
  OBVIOUS
<1>0. /\ BackoffTypeOK /\ i \in 1..attempts /\ attempts \in Nat /\ i \in Nat
      /\ wait \in Nat /\ max \in Nat /\ wait <= max /\ max \in 1..MaxDuration
  BY BackoffAssumption DEF WaitInv, BackoffTypeOK, WaitWithinBounds, Doubles
<1>1. CASE Double
  <2>1. /\ wait' = 2 * wait /\ i' = i + 1 /\ i < attempts /\ ~returned /\ ~returned'
        /\ initial' = initial /\ attempts' = attempts
    BY <1>0, <1>1, DoublingFits DEF Double, NearCap, Looping
  <2>2. wait = Exact(i) /\ Exact(i + 1) = 2 * Exact(i)
    BY <1>0, <2>1, ExactGrows DEF Doubles
  <2>3. wait' = Exact(i)'
    BY <2>1, <2>2 DEF Exact
  <2> QED
    BY <1>0, <2>1, <2>3 DEF Doubles, ReturnsDoubled
<1>2. CASE Clamp
  <2>1. /\ wait' = max /\ wait > max \div 2 /\ i < attempts /\ ~returned
        /\ UNCHANGED <<initial, max, attempts, i>> /\ returned'
    BY <1>2 DEF Clamp, NearCap, Looping
  <2>2. 2 * wait > max
    BY <1>0, <2>1
  <2>3. wait = Exact(i) /\ Exact(i + 1) = 2 * Exact(i)
    BY <1>0, <2>1, ExactGrows DEF Doubles
  <2>4. Exact(i + 1) <= Exact(attempts) /\ Exact(i + 1) \in Nat /\ Exact(attempts) \in Nat
    <3>1. i + 1 \in 1..attempts /\ attempts \in (i + 1)..attempts
      BY <1>0, <2>1
    <3> QED
      BY <1>0, <3>1, ExactGrows
  <2>5. ~(Exact(attempts) < max)
    BY <1>0, <2>2, <2>3, <2>4
  <2>6. Doubled(initial, max, attempts) = max
    BY <2>5 DEF Doubled, Exact
  <2> QED
    BY <1>0, <2>1, <2>6 DEF Doubles, ReturnsDoubled
<1>3. CASE Finish
  <2>1. /\ ~(i < attempts /\ wait < max) /\ ~returned
        /\ UNCHANGED <<initial, max, attempts, i, wait>> /\ returned'
    BY <1>3 DEF Finish
  <2>2. wait = Exact(i) /\ Exact(i) <= Exact(attempts) /\ Exact(attempts) \in Nat
    BY <1>0, <2>1, ExactGrows DEF Doubles
  <2>3. wait = IF Exact(attempts) < max THEN Exact(attempts) ELSE max
    <3>1. CASE i = attempts
      BY <1>0, <2>2, <3>1
    <3>2. CASE i # attempts
      <4>1. wait = max
        BY <1>0, <2>1, <3>2
      <4> QED
        BY <1>0, <2>2, <4>1
    <3> QED
      BY <3>1, <3>2
  <2>4. wait = Doubled(initial, max, attempts)
    BY <2>3 DEF Doubled, Exact
  <2> QED
    BY <1>0, <2>1, <2>4 DEF Doubles, ReturnsDoubled
<1>4. CASE UNCHANGED backoffVars
  BY <1>4 DEF backoffVars, Doubles, ReturnsDoubled, Exact
<1> QED
  BY <1>1, <1>2, <1>3, <1>4 DEF BackoffNext

\* The loop returns the initial wait doubled for every earlier failure, up to the
\* cap, whatever the width of a duration: it never doubles what would not fit.
THEOREM ReturnsDoubledHolds == BackoffSpec => []ReturnsDoubled
<1>1. BackoffInit => WaitInv
  BY WaitInit
<1>2. WaitInv /\ [BackoffNext]_backoffVars => WaitInv'
  BY WaitNext
<1>3. Doubles => ReturnsDoubled
  BY DEF Doubles
<1> QED
  BY <1>1, <1>2, <1>3, DoublesInit, DoublesNext, PTL DEF BackoffSpec
===============================================================================
