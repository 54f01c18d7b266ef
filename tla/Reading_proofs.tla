----------------------------- MODULE Reading_proofs -----------------------------
(***************************************************************************)
(* A list of pods of any age is enough to keep one replacement in flight,  *)
(* and to evict the pod that was decided about: for any number of replicas *)
(* evaluations and disturbances, as long as the node is read as it is.     *)
(***************************************************************************)
EXTENDS Reading, TLAPS

-------------------------------------------------------------------------------
(***************************************************************************)
(* The invariant.                                                          *)
(***************************************************************************)

\* The list of pods an evaluation would go by.
L == Listed.pod

\* Nothing that was read or written is later than the last reading, and nothing is
\* written before the first.
InThePast ==
  /\ marker <= now
  /\ pc # "idle" => now # 0
  /\ \A p \in Pods : pod[p].born <= now /\ cache.pod[p].born <= now

\* An evaluation about to write to a pod knows which.
JobFits ==
  /\ pc = "idle" \/ job.victim = NoPod => job = NoJob
  /\ pc \in {"commit", "evict", "identify"} => job.victim # NoPod

\* An evicted pod is on its way out, or its name is still without a node, and a pod
\* without a node has no last seconds.
AwayIsGone ==
  /\ \A p \in past.away : pod[p].at \in {"none", "pending"} \/ pod[p].leaving
  /\ \A p \in Pods : pod[p].at = "pending" => ~pod[p].leaving

\* Every other pod has a node and stays there; and one at most is away.
RestIsBound ==
  \A p \in Pods \ past.away : pod[p].at \in {"node", "elsewhere"} /\ ~pod[p].leaving
OneIsAway == \A p, q \in past.away : p = q

\* The list knows every pod that lives, and none is away.
Level == past.away = {} /\ \A p \in Pods : L[p].born = pod[p].born

\* A pod evicted at t has not been seen back.  One born since is the only one, it is
\* the one that was away, and once a list shows it on a node it has one.
Awaiting(t) ==
  /\ \A p, q \in Pods : pod[p].born >= t /\ pod[q].born >= t => p = q
  /\ \A p \in Pods : pod[p].born >= t =>
       /\ past.away \subseteq {p}
       /\ pod[p].at \in {"pending", "elsewhere"} /\ ~pod[p].leaving
       /\ pod[p].at = "elsewhere" => past.away = {}
  /\ \A p \in Pods : L[p].born >= t =>
       /\ L[p].born = pod[p].born
       /\ L[p].at = "elsewhere" => past.away = {}
  /\ \A p \in Pods : L[p].born = pod[p].born \/ pod[p].born >= t

Writing == pc \in {"settle", "commit", "evict"}

\* The pod to evict is the one that was read, and is older than the reading.
Aimed ==
  Writing /\ job.victim # NoPod =>
    /\ \A p \in Pods : pod[p].born < now
    /\ job.born = pod[job.victim].born

\* What the marker says is true.
MarkerFits ==
  /\ Writing => Level
  /\ pc = "idle" /\ marker = 0 => Level
  /\ pc = "idle" /\ marker # 0 => Level \/ Awaiting(marker)
  /\ pc = "identify" => Awaiting(now)

Sure ==
  ~NodeLag /\ ~past.unsure => RestIsBound /\ OneIsAway /\ Aimed /\ MarkerFits

Inv == TypeOK /\ InThePast /\ JobFits /\ AwayIsGone /\ Sure

-------------------------------------------------------------------------------
(***************************************************************************)
(* Every value has its type.                                               *)
(***************************************************************************)
LEMMA NoJobType == NoJob \in [victim: Pods \union {NoPod}, born: 0..MaxTime]
  BY ReadingAssumption DEF NoJob

LEMMA ListType == TypeOK => L \in [Pods -> Pod]
  BY DEF TypeOK, L, Listed

\* What leaves a name to no pod, or its pod to no more than its last seconds.
LEMMA LeavesType ==
  ASSUME TypeOK, NEW p \in Pods, Leaves(p)
  PROVE  /\ pod' \in [Pods -> Pod]
         /\ \A q \in Pods \ {p} : pod'[q] = pod[q]
         /\ pod'[p].born = pod[p].born
         /\ pod'[p].at = "none" \/ (pod'[p].at # "pending" /\ pod'[p].leaving)
<1>1. pod[p] \in Pod
  BY DEF TypeOK
<1>2. CASE pod[p].at = "pending"
  <2>1. pod' = [pod EXCEPT ![p] = [pod[p] EXCEPT !.at = "none"]]
    BY <1>2 DEF Leaves
  <2> QED
    BY <1>1, <2>1 DEF TypeOK, Pod
<1>3. CASE pod[p].at # "pending"
  <2>1. pod' = [pod EXCEPT ![p] = [pod[p] EXCEPT !.leaving = TRUE]]
    BY <1>3 DEF Leaves
  <2> QED
    BY <1>1, <1>3, <2>1 DEF TypeOK, Pod
<1> QED
  BY <1>2, <1>3

LEMMA InitInv == Init => Inv
<1> SUFFICES ASSUME Init PROVE Inv
  OBVIOUS
<1>1. /\ \A p \in Pods : /\ pod[p] = [at |-> AtFirst[p], leaving |-> FALSE, born |-> 0]
                         /\ AtFirst[p] \in {"node", "elsewhere"}
      /\ cache.pod = pod /\ cache.marker = 0
  BY ReadingAssumption DEF Init
<1>2. pod \in [Pods -> Pod]
  BY <1>1, ReadingAssumption DEF Init, Pod
<1>3. TypeOK
  BY <1>2, NoJobType, ReadingAssumption DEF Init, TypeOK, Past
<1>4. InThePast /\ JobFits /\ AwayIsGone
  BY <1>1 DEF Init, InThePast, JobFits, AwayIsGone
<1>5. L = pod
  BY <1>1 DEF L, Listed
<1>6. RestIsBound /\ OneIsAway /\ Aimed /\ MarkerFits
  BY <1>1, <1>5 DEF Init, RestIsBound, OneIsAway, Aimed, MarkerFits, Level, Writing
<1> QED
  BY <1>3, <1>4, <1>6 DEF Inv, Sure

-------------------------------------------------------------------------------
(***************************************************************************)
(* What happens around an evaluation.                                      *)
(***************************************************************************)

\* One pod changes, and the list only if it is the cluster's own.
LEMMA ListStep ==
  ASSUME TypeOK, cache'.pod = cache.pod
  PROVE  L' = IF PodLag THEN L ELSE pod'
  BY DEF L, Listed

\* The last seconds of a pod end: it was away, and nobody was about to write.
LEMMA FinishInv ==
  ASSUME Inv, NEW p \in Pods, Finish(p)
  PROVE  Inv'
<1> USE DEF Inv
<1>1. /\ pod[p] \in Pod /\ pod[p].leaving
      /\ pod' = [pod EXCEPT ![p] = [pod[p] EXCEPT !.at = "none", !.leaving = FALSE]]
      /\ UNCHANGED <<marker, cache, now, pc, job, past, upsets>>
  BY DEF Finish, TypeOK
<1>2. /\ pod' \in [Pods -> Pod]
      /\ \A q \in Pods \ {p} : pod'[q] = pod[q]
      /\ pod'[p].born = pod[p].born /\ pod'[p].at = "none" /\ ~pod'[p].leaving
  BY <1>1 DEF TypeOK, Pod
<1>3. \A q \in Pods : pod'[q].born = pod[q].born
  BY <1>2
<1>4. TypeOK'
  BY <1>1, <1>2 DEF TypeOK
<1>5. InThePast' /\ JobFits' /\ AwayIsGone'
  BY <1>1, <1>2, <1>3 DEF InThePast, JobFits, AwayIsGone
<1>6. ASSUME ~NodeLag, ~past.unsure
      PROVE  RestIsBound' /\ OneIsAway' /\ Aimed' /\ MarkerFits'
  <2>1. p \in past.away
    BY <1>1, <1>6 DEF Sure, RestIsBound
  <2>2. RestIsBound' /\ OneIsAway'
    BY <1>1, <1>2, <1>6, <2>1 DEF Sure, RestIsBound, OneIsAway
  <2>3. ~Writing /\ ~Level /\ ~Writing'
    BY <1>1, <1>6, <2>1 DEF Sure, MarkerFits, Level, Writing
  <2>4. ASSUME NEW t \in Nat, Awaiting(t)
        PROVE  Awaiting(t)'
    <3>1. ~(pod[p].born >= t)
      BY <1>1, <2>4 DEF Awaiting
    <3>2. L' = IF PodLag THEN L ELSE pod'
      BY <1>1, ListStep
    <3>3. ~PodLag => L = pod
      BY DEF L, Listed
    <3> QED
      BY <1>1, <1>2, <1>3, <2>4, <3>1, <3>2, <3>3 DEF Awaiting
  <2>5. marker \in Nat /\ now \in Nat
    BY DEF TypeOK
  <2>6. MarkerFits'
    BY <1>1, <1>6, <2>3, <2>4, <2>5 DEF Sure, MarkerFits, Writing
  <2> QED
    BY <2>2, <2>3, <2>6 DEF Aimed
<1> QED
  BY <1>1, <1>4, <1>5, <1>6 DEF Sure

\* The controller makes a pod of the name that is away.
LEMMA RecreateInv ==
  ASSUME Inv, NEW p \in Pods, Recreate(p)
  PROVE  Inv'
<1> USE DEF Inv
<1>1. /\ pod[p] \in Pod /\ pod[p].at = "none" /\ now \in 0..MaxTime
      /\ pod' = [pod EXCEPT ![p] = [at |-> "pending", leaving |-> FALSE, born |-> now]]
      /\ UNCHANGED <<marker, cache, now, pc, job, past, upsets>>
  BY DEF Recreate, TypeOK
<1>2. /\ pod' \in [Pods -> Pod]
      /\ \A q \in Pods \ {p} : pod'[q] = pod[q]
      /\ pod'[p].born = now /\ pod'[p].at = "pending" /\ ~pod'[p].leaving
  BY <1>1 DEF TypeOK, Pod
<1>3. TypeOK'
  BY <1>1, <1>2 DEF TypeOK
<1>4. InThePast' /\ JobFits' /\ AwayIsGone'
  BY <1>1, <1>2 DEF InThePast, JobFits, AwayIsGone
<1>5. ASSUME ~NodeLag, ~past.unsure
      PROVE  RestIsBound' /\ OneIsAway' /\ Aimed' /\ MarkerFits'
  <2>1. p \in past.away
    BY <1>1, <1>5 DEF Sure, RestIsBound
  <2>2. RestIsBound' /\ OneIsAway'
    BY <1>1, <1>2, <1>5, <2>1 DEF Sure, RestIsBound, OneIsAway
  <2>3. ~Writing /\ ~Level /\ ~Writing'
    BY <1>1, <1>5, <2>1 DEF Sure, MarkerFits, Level, Writing
  <2>4. ASSUME NEW t \in Nat, t <= now, Awaiting(t)
        PROVE  Awaiting(t)'
    <3>1. \A q \in Pods : ~(pod[q].born >= t)
      BY <1>1, <2>1, <2>4 DEF Awaiting
    <3>2. L' = IF PodLag THEN L ELSE pod'
      BY <1>1, ListStep
    <3>3. ~PodLag => L = pod
      BY DEF L, Listed
    <3>4. \A q \in Pods : ~(L[q].born >= t)
      BY <2>4, <3>1 DEF Awaiting
    <3>5. past.away \subseteq {p}
      BY <1>5, <2>1 DEF Sure, OneIsAway
    <3> QED
      BY <1>1, <1>2, <2>4, <3>1, <3>2, <3>3, <3>4, <3>5 DEF Awaiting, TypeOK
  <2>5. marker \in Nat /\ now \in Nat /\ marker <= now
    BY DEF TypeOK, InThePast
  <2>6. MarkerFits'
    BY <1>1, <1>5, <2>3, <2>4, <2>5 DEF Sure, MarkerFits, Writing
  <2> QED
    BY <2>2, <2>3, <2>6 DEF Aimed
<1> QED
  BY <1>1, <1>3, <1>4, <1>5 DEF Sure

\* The scheduler finds it a node: nothing is away any more.
LEMMA ScheduleInv ==
  ASSUME Inv, NEW p \in Pods, Schedule(p)
  PROVE  Inv'
<1> USE DEF Inv
<1>1. /\ pod[p] \in Pod /\ pod[p].at = "pending"
      /\ pod' = [pod EXCEPT ![p].at = "elsewhere"]
      /\ past' = [past EXCEPT !.away = past.away \ {p}]
      /\ UNCHANGED <<marker, cache, now, pc, job, upsets>>
  BY DEF Schedule, TypeOK
<1>2. /\ pod' \in [Pods -> Pod]
      /\ \A q \in Pods \ {p} : pod'[q] = pod[q]
      /\ pod'[p].born = pod[p].born /\ pod'[p].at = "elsewhere"
      /\ pod'[p].leaving = pod[p].leaving
  BY <1>1 DEF TypeOK, Pod
<1>3. \A q \in Pods : pod'[q].born = pod[q].born
  BY <1>2
<1>4. past' \in Past /\ past'.away = past.away \ {p} /\ past'.unsure = past.unsure
  BY <1>1 DEF TypeOK, Past
<1>5. TypeOK'
  BY <1>1, <1>2, <1>4 DEF TypeOK
<1>6. InThePast' /\ JobFits' /\ AwayIsGone'
  BY <1>1, <1>2, <1>3, <1>4 DEF InThePast, JobFits, AwayIsGone
<1>7. ASSUME ~NodeLag, ~past.unsure
      PROVE  RestIsBound' /\ OneIsAway' /\ Aimed' /\ MarkerFits'
  <2>1. p \in past.away /\ past'.away = {}
    BY <1>1, <1>4, <1>7 DEF Sure, RestIsBound, OneIsAway
  <2>2. ~Writing /\ ~Level /\ ~Writing'
    BY <1>1, <1>7, <2>1 DEF Sure, MarkerFits, Level, Writing
  <2>3. RestIsBound'
    BY <1>1, <1>2, <1>4, <1>7, <2>1 DEF Sure, RestIsBound, OneIsAway, AwayIsGone
  <2>4. ASSUME NEW t \in Nat, Awaiting(t)
        PROVE  Awaiting(t)'
    <3>1. L' = IF PodLag THEN L ELSE pod'
      BY <1>1, ListStep
    <3>2. ~PodLag => L = pod
      BY DEF L, Listed
    <3>3. \A q \in Pods : pod[q].born >= t => q = p
      BY <2>1, <2>4 DEF Awaiting
    <3> QED
      BY <1>1, <1>2, <1>3, <2>1, <2>4, <3>1, <3>2, <3>3 DEF Awaiting, AwayIsGone
  <2>5. marker \in Nat /\ now \in Nat
    BY DEF TypeOK
  <2>6. MarkerFits'
    BY <1>1, <1>7, <2>2, <2>4, <2>5 DEF Sure, MarkerFits, Writing
  <2> QED
    BY <2>1, <2>2, <2>3, <2>6 DEF Aimed, OneIsAway
<1> QED
  BY <1>1, <1>4, <1>5, <1>6, <1>7 DEF Sure

\* Somebody else deletes a pod: what the drain knows is not sure any more.
LEMMA DeleteInv ==
  ASSUME Inv, NEW p \in Pods, Delete(p)
  PROVE  Inv'
<1> USE DEF Inv
<1>1. /\ upsets' \in 0..MaxUpsets /\ past' = [past EXCEPT !.unsure = TRUE]
      /\ UNCHANGED <<marker, cache, now, pc, job>>
  BY ReadingAssumption DEF Delete, TypeOK
<1>2. past' \in Past /\ past'.away = past.away /\ past'.unsure
  BY <1>1 DEF TypeOK, Past
<1>3. /\ pod' \in [Pods -> Pod]
      /\ \A q \in Pods \ {p} : pod'[q] = pod[q]
      /\ pod'[p].born = pod[p].born
      /\ pod'[p].at = "none" \/ (pod'[p].at # "pending" /\ pod'[p].leaving)
  BY LeavesType DEF Delete
<1>4. TypeOK'
  BY <1>1, <1>2, <1>3 DEF TypeOK
<1>5. InThePast' /\ JobFits' /\ AwayIsGone'
  BY <1>1, <1>2, <1>3 DEF InThePast, JobFits, AwayIsGone, TypeOK, Past
<1> QED
  BY <1>2, <1>4, <1>5 DEF Sure

\* The cache of pods catches up.
LEMMA SyncPodsInv ==
  ASSUME Inv, SyncPods
  PROVE  Inv'
<1> USE DEF Inv
<1>1. /\ cache' = [cache EXCEPT !.pod = pod]
      /\ UNCHANGED <<pod, marker, now, pc, job, past, upsets>>
  BY DEF SyncPods
<1>2. cache'.pod = pod /\ cache' \in [pod: [Pods -> Pod], marker: 0..MaxTime]
  BY <1>1 DEF TypeOK
<1>3. TypeOK' /\ InThePast' /\ JobFits' /\ AwayIsGone'
  BY <1>1, <1>2 DEF TypeOK, InThePast, JobFits, AwayIsGone
<1>4. L' = pod
  BY <1>1, <1>2 DEF L, Listed
<1>5. Level => Level'
  BY <1>1, <1>4 DEF Level
<1>6. ASSUME NEW t, Awaiting(t)
      PROVE  Awaiting(t)'
  BY <1>1, <1>4, <1>6 DEF Awaiting
<1>7. Sure'
  BY <1>1, <1>5, <1>6 DEF Sure, RestIsBound, OneIsAway, Aimed, MarkerFits, Writing
<1> QED
  BY <1>3, <1>7

-------------------------------------------------------------------------------
(***************************************************************************)
(* An evaluation.                                                          *)
(***************************************************************************)

\* What the list and the names say depends on the pods and their cache alone.
LEMMA SameList ==
  ASSUME UNCHANGED pod, cache'.pod = cache.pod, past'.away = past.away
  PROVE  /\ L' = L /\ (Level' <=> Level)
         /\ \A t : Awaiting(t) => Awaiting(t)'
<1>1. L' = L
  BY DEF L, Listed
<1> QED
  BY <1>1 DEF Level, Awaiting

\* The cache of nodes catches up: no evaluation here goes by it.
LEMMA SyncNodeInv ==
  ASSUME Inv, SyncNode
  PROVE  Inv'
<1> USE DEF Inv
<1>1. /\ cache' = [cache EXCEPT !.marker = marker]
      /\ UNCHANGED <<pod, marker, now, pc, job, past, upsets>>
  BY DEF SyncNode
<1>2. cache'.pod = cache.pod /\ cache' \in [pod: [Pods -> Pod], marker: 0..MaxTime]
  BY <1>1 DEF TypeOK
<1>3. TypeOK' /\ InThePast' /\ JobFits' /\ AwayIsGone'
  BY <1>1, <1>2 DEF TypeOK, InThePast, JobFits, AwayIsGone
<1>4. Sure'
  BY <1>1, <1>2, SameList DEF Sure, RestIsBound, OneIsAway, Aimed, MarkerFits, Writing
<1> QED
  BY <1>3, <1>4

\* A replacement that was awaited and is on a node in the list is the one that took
\* the place of the pod that went: nothing is away, and the list knows every pod.
LEMMA LandedIsLevel ==
  ASSUME TypeOK, Sure, ~NodeLag, ~past.unsure, pc = "idle",
         ~Owed(Listed) \/ Landed(Listed)
  PROVE  Level
<1>1. Listed.marker = marker /\ Listed.pod = L
  BY DEF Listed, L
<1>2. CASE marker = 0
  BY <1>2 DEF Sure, MarkerFits
<1>3. CASE marker # 0 /\ ~Level
  <2>1. Awaiting(marker)
    BY <1>3 DEF Sure, MarkerFits
  <2>2. PICK p \in Pods : L[p].at = "elsewhere" /\ L[p].born >= marker
    BY <1>1, <1>3 DEF Owed, Landed
  <2>3. past.away = {} /\ L[p].born = pod[p].born
    BY <2>1, <2>2 DEF Awaiting
  <2>4. ASSUME NEW q \in Pods, L[q].born # pod[q].born
        PROVE  FALSE
    BY <2>1, <2>2, <2>3, <2>4 DEF Awaiting
  <2> QED
    BY <2>3, <2>4 DEF Level
<1> QED
  BY <1>2, <1>3

\* A reading: it waits, or it has seen what it waited for.
LEMMA ReadInv ==
  ASSUME Inv, Read
  PROVE  Inv'
<1> USE DEF Inv
<1>1. /\ pc = "idle" /\ job = NoJob /\ now \in Nat /\ now' = now + 1 /\ now' \in 0..MaxTime
      /\ UNCHANGED <<pod, marker, cache, upsets>>
  BY ReadingAssumption DEF Read, TypeOK, JobFits
<1>2. L = Listed.pod /\ L \in [Pods -> Pod]
  BY ListType DEF L
<1>3. InThePast'
  <2>1. marker \in Nat /\ \A p \in Pods : pod[p].born \in Nat /\ cache.pod[p].born \in Nat
    BY DEF TypeOK, Pod
  <2> QED
    BY <1>1, <2>1 DEF InThePast
<1>4. CASE /\ Owed(Listed) /\ ~Landed(Listed)
           /\ UNCHANGED <<pc, job, past>>
  <2>1. TypeOK' /\ JobFits' /\ AwayIsGone' /\ InThePast'
    BY <1>1, <1>3, <1>4 DEF TypeOK, JobFits, AwayIsGone
  <2>2. Sure'
    BY <1>1, <1>4, SameList DEF Sure, RestIsBound, OneIsAway, Aimed, MarkerFits, Writing
  <2> QED
    BY <2>1, <2>2
<1>5. CASE /\ ~Owed(Listed) \/ Landed(Listed)
           /\ pc' = IF Owed(Listed) THEN "settle" ELSE "idle"
           /\ UNCHANGED <<job, past>>
  <2>1. TypeOK' /\ JobFits' /\ AwayIsGone' /\ InThePast'
    BY <1>1, <1>3, <1>5 DEF TypeOK, JobFits, AwayIsGone, NoJob
  <2>2. pc' = "idle" /\ ~NodeLag => marker' = 0
    BY <1>1, <1>5 DEF Owed, Listed
  <2>3. Sure'
    BY <1>1, <1>5, <2>2, SameList, LandedIsLevel
    DEF Sure, RestIsBound, OneIsAway, Aimed, MarkerFits, Writing, NoJob
  <2> QED
    BY <2>1, <2>3
<1>6. CASE /\ ~Owed(Listed) \/ Landed(Listed)
           /\ \E p \in Staying(Listed) :
                /\ pc' = IF Owed(Listed) THEN "settle" ELSE "commit"
                /\ job' = [victim |-> p, born |-> Listed.pod[p].born]
                /\ past' = [past EXCEPT !.unsure = @ /\ (Listed.pod # pod \/ ~AllBound)]
  <2>1. PICK p \in Pods :
          /\ pc' \in {"settle", "commit"}
          /\ job' = [victim |-> p, born |-> L[p].born]
          /\ past' = [past EXCEPT !.unsure = past.unsure /\ (L # pod \/ ~AllBound)]
    BY <1>2, <1>6 DEF Staying
  <2>2. /\ past' \in Past /\ past'.away = past.away
        /\ past'.unsure <=> past.unsure /\ (L # pod \/ ~AllBound)
    BY <2>1 DEF TypeOK, Past
  <2>3. TypeOK'
    BY <1>1, <1>2, <2>1, <2>2 DEF TypeOK, Pod
  <2>4. InThePast' /\ JobFits' /\ AwayIsGone'
    BY <1>1, <1>3, <2>1, <2>2, ReadingAssumption DEF JobFits, AwayIsGone
  <2>5. ASSUME ~NodeLag, ~past'.unsure
        PROVE  Level /\ RestIsBound /\ OneIsAway
    <3>1. CASE ~past.unsure
      BY <1>1, <1>6, <2>5, <3>1, LandedIsLevel DEF Sure
    <3>2. CASE L = pod /\ AllBound
      <4>1. past.away = {}
        BY <3>2 DEF AllBound, AwayIsGone, TypeOK, Past
      <4> QED
        BY <3>2, <4>1 DEF AllBound, Level, RestIsBound, OneIsAway
    <3> QED
      BY <2>2, <2>5, <3>1, <3>2
  <2>6. ASSUME ~NodeLag, ~past'.unsure
        PROVE  RestIsBound' /\ OneIsAway' /\ Aimed' /\ MarkerFits'
    <3>1. Level' /\ RestIsBound' /\ OneIsAway'
      BY <1>1, <2>2, <2>5, <2>6, SameList DEF RestIsBound, OneIsAway
    <3>2. \A q \in Pods : pod'[q].born < now'
      BY <1>1 DEF InThePast, TypeOK, Pod
    <3>3. job'.born = pod'[p].born /\ job'.victim = p
      BY <1>1, <2>1, <2>5, <2>6 DEF Level
    <3> QED
      BY <2>1, <3>1, <3>2, <3>3 DEF Aimed, MarkerFits, Writing
  <2> QED
    BY <2>3, <2>4, <2>6 DEF Sure
<1> QED
  BY <1>4, <1>5, <1>6 DEF Read

\* The marker is taken back, before the eviction or because none is due.
LEMMA SettleInv ==
  ASSUME Inv, Settle \/ Commit
  PROVE  Inv'
<1> USE DEF Inv
<1>1. /\ pc \in {"settle", "commit"} /\ marker' = 0
      /\ pc' \in {"idle", "commit", "evict"}
      /\ job.victim = NoPod <=> pc' = "idle"
      /\ UNCHANGED <<pod, cache, now, job, past, upsets>>
  BY DEF Settle, Commit, JobFits
<1>2. TypeOK' /\ InThePast' /\ JobFits' /\ AwayIsGone'
  BY <1>1, ReadingAssumption DEF TypeOK, InThePast, JobFits, AwayIsGone
<1>3. Sure'
  BY <1>1, SameList DEF Sure, RestIsBound, OneIsAway, Aimed, MarkerFits, Writing
<1> QED
  BY <1>2, <1>3

\* The eviction: the pod of that name goes, and none that lives is as young as the
\* reading.
LEMMA EvictInv ==
  ASSUME Inv, Evict
  PROVE  Inv'
<1> USE DEF Inv
<1> DEFINE v == job.victim
<1>1. /\ pc = "evict" /\ pc' = "identify" /\ v \in Pods
      /\ UNCHANGED <<marker, cache, now, job, upsets>>
  BY DEF Evict, TypeOK, JobFits
<1>2. ASSUME ~NodeLag, ~past.unsure
      PROVE  /\ past.away = {}
             /\ \A q \in Pods : ~(pod[q].born >= now) /\ L[q].born = pod[q].born
  <2>1. Level /\ \A q \in Pods : pod[q].born < now
    BY <1>1, <1>2, ReadingAssumption DEF Sure, MarkerFits, Aimed, Writing
  <2>2. now \in Nat /\ \A q \in Pods : pod[q].born \in Nat
    BY DEF TypeOK, Pod
  <2> QED
    BY <2>1, <2>2 DEF Level
<1>3. CASE ~Disrupts
  <2>1. UNCHANGED <<pod, past>>
    BY <1>3 DEF Evict, EvictionTakesEffect
  <2>2. TypeOK' /\ InThePast' /\ JobFits' /\ AwayIsGone'
    BY <1>1, <2>1 DEF TypeOK, InThePast, JobFits, AwayIsGone
  <2>3. ASSUME ~NodeLag, ~past.unsure
        PROVE  Awaiting(now)
    BY <1>2, <2>3 DEF Awaiting
  <2>4. Sure'
    BY <1>1, <2>1, <2>3, SameList DEF Sure, RestIsBound, OneIsAway, Aimed, MarkerFits, Writing
  <2> QED
    BY <2>2, <2>4
<1>4. CASE Disrupts
  <2>1. Leaves(v) /\ past' = [past EXCEPT !.away = past.away \union {v}]
    BY <1>4 DEF Evict, EvictionTakesEffect
  <2>2. past' \in Past /\ past'.away = past.away \union {v} /\ past'.unsure = past.unsure
    BY <1>1, <2>1 DEF TypeOK, Past
  <2>3. /\ pod' \in [Pods -> Pod]
        /\ \A q \in Pods \ {v} : pod'[q] = pod[q]
        /\ pod'[v].born = pod[v].born
        /\ pod'[v].at = "none" \/ (pod'[v].at # "pending" /\ pod'[v].leaving)
    BY <1>1, <2>1, LeavesType
  <2>4. TypeOK' /\ InThePast' /\ JobFits' /\ AwayIsGone'
    BY <1>1, <2>2, <2>3 DEF TypeOK, InThePast, JobFits, AwayIsGone, Past
  <2>5. ASSUME ~NodeLag, ~past.unsure
        PROVE  RestIsBound' /\ OneIsAway' /\ Awaiting(now)'
    <3>1. /\ past.away = {} /\ RestIsBound
          /\ \A q \in Pods : ~(pod[q].born >= now) /\ L[q].born = pod[q].born
      BY <1>2, <2>5 DEF Sure
    <3>2. \A q \in Pods : pod'[q].born = pod[q].born
      BY <2>3
    <3>3. L' = IF PodLag THEN L ELSE pod'
      BY <1>1, ListStep
    <3>4. \A q \in Pods : ~(pod'[q].born >= now) /\ L'[q].born = pod'[q].born
      BY <3>1, <3>2, <3>3
    <3> QED
      BY <1>1, <2>2, <2>3, <3>1, <3>4 DEF RestIsBound, OneIsAway, Awaiting
  <2>6. Sure'
    BY <1>1, <2>2, <2>5 DEF Sure, Aimed, MarkerFits, Writing
  <2> QED
    BY <2>4, <2>6
<1> QED
  BY <1>3, <1>4

\* The controller of the pod that went is named, with the time of the reading.
LEMMA IdentifyInv ==
  ASSUME Inv, Identify
  PROVE  Inv'
<1> USE DEF Inv
<1>1. /\ pc = "identify" /\ pc' = "idle" /\ marker' = now /\ job' = NoJob
      /\ UNCHANGED <<pod, cache, now, past, upsets>>
  BY DEF Identify
<1>2. TypeOK' /\ InThePast' /\ JobFits' /\ AwayIsGone'
  BY <1>1, NoJobType DEF TypeOK, InThePast, JobFits, AwayIsGone
<1>3. now # 0
  BY <1>1 DEF InThePast
<1>4. Sure'
  BY <1>1, <1>3, SameList DEF Sure, RestIsBound, OneIsAway, Aimed, MarkerFits, Writing
<1> QED
  BY <1>2, <1>4

\* A write is refused, or the process goes: sure unless it was the last one.
LEMMA FailInv ==
  ASSUME Inv, Fail
  PROVE  Inv'
<1> USE DEF Inv
<1>1. /\ pc # "idle" /\ pc' = "idle" /\ job' = NoJob
      /\ past' = [past EXCEPT !.unsure = past.unsure \/ pc = "identify"]
      /\ UNCHANGED <<pod, marker, cache, now, upsets>>
  BY DEF Fail
<1>2. /\ past' \in Past /\ past'.away = past.away
      /\ past'.unsure <=> past.unsure \/ pc = "identify"
  BY <1>1 DEF TypeOK, Past
<1>3. TypeOK' /\ InThePast' /\ JobFits' /\ AwayIsGone'
  BY <1>1, <1>2, NoJobType DEF TypeOK, InThePast, JobFits, AwayIsGone
<1>4. ~past'.unsure => Writing
  BY <1>1, <1>2 DEF TypeOK, Writing
<1>5. Sure'
  BY <1>1, <1>2, <1>4, SameList DEF Sure, RestIsBound, OneIsAway, Aimed, MarkerFits, Writing
<1> QED
  BY <1>3, <1>5

-------------------------------------------------------------------------------
(***************************************************************************)
(* The theorems.                                                           *)
(***************************************************************************)
LEMMA NextInv == Inv /\ [Next]_vars => Inv'
<1> SUFFICES ASSUME Inv, [Next]_vars PROVE Inv'
  OBVIOUS
<1>1. CASE Binpack
  BY <1>1, ReadInv, SettleInv, EvictInv, IdentifyInv, FailInv DEF Binpack
<1>2. CASE Cluster
  BY <1>2, SyncPodsInv, SyncNodeInv, FinishInv, RecreateInv, ScheduleInv, DeleteInv
  DEF Cluster
<1>3. CASE UNCHANGED vars
  <2>1. Sure'
    BY <1>3, SameList
    DEF vars, Inv, Sure, RestIsBound, OneIsAway, Aimed, MarkerFits, Writing
  <2> QED
    BY <1>3, <2>1 DEF vars, Inv, TypeOK, InThePast, JobFits, AwayIsGone
<1> QED
  BY <1>1, <1>2, <1>3 DEF Next

\* Init and every step keep the invariant.
THEOREM Invariance == Spec => []Inv
BY InitInv, NextInv, PTL DEF Spec

\* What the model holds is always of its type, however old either cache is.
THEOREM TypeCorrect == Spec => []TypeOK
<1>1. Inv => TypeOK
  BY DEF Inv
<1> QED
  BY <1>1, Invariance, PTL

\* One pod of the controller is away at a time, whatever the age of the list of pods
\* each evaluation goes by (internal/drain/execute.go, replacementFor), when the node
\* it reads the marker from is read as it is.  It is the order of the writes that
\* gives it: the marker goes before the eviction and comes back after it.
THEOREM OneAwayHolds ==
  ASSUME ~NodeLag
  PROVE  Spec => OneAway
<1>1. Inv => (Evicts => past.away = {} \/ past.unsure)
  BY DEF Inv, Sure, MarkerFits, Writing, Level, Evicts, Evict
<1>2. Inv /\ [Next]_vars => [Evicts => past.away = {} \/ past.unsure]_vars
  BY <1>1
<1> QED
  BY <1>2, Invariance, PTL DEF Spec, OneAway

\* The pod an eviction disrupts is the one that was read: under the same condition,
\* no pod takes the name between the reading and the write.
THEOREM NamesakesStayHolds ==
  ASSUME ~NodeLag
  PROVE  Spec => NamesakesStay
<1>1. Inv => (Evicts => pod[job.victim].born = job.born \/ past.unsure)
  BY DEF Inv, Sure, Aimed, JobFits, Writing, Evicts, Evict
<1>2. Inv /\ [Next]_vars => [Evicts => pod[job.victim].born = job.born \/ past.unsure]_vars
  BY <1>1
<1> QED
  BY <1>2, Invariance, PTL DEF Spec, NamesakesStay
===============================================================================
