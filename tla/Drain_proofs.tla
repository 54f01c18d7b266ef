----------------------------- MODULE Drain_proofs -----------------------------
(***************************************************************************)
(* What holds of a drain for every number of pods and controllers, every   *)
(* timeout and every bound of the model.                                   *)
(***************************************************************************)
EXTENDS Drain, FiniteSetTheorems, TLAPS

\* The age at which every bound has passed is a natural number.
LEMMA AgeCapType == AgeCap \in Nat \ {0}
<1> DEFINE over == {StallTimeout, RemovalTimeout, ScaleUpPause}
           highest(m) == m \in over /\ \A d \in over : d <= m
<1>1. \E m : highest(m)
  BY DurationsAssumption, SMT
<1>2. highest(CHOOSE m : highest(m))
  BY <1>1, Zenon
<1>3. (CHOOSE m : highest(m)) = (CHOOSE m \in over : \A d \in over : d <= m)
  OBVIOUS
<1> QED
  BY <1>2, <1>3, DurationsAssumption, SMT DEF AgeCap

\* Ages stay within it as time passes.
LEMMA OlderType == \A age \in 0..AgeCap : Older(age) \in 0..AgeCap
  BY AgeCapType, SMT DEF Older

-------------------------------------------------------------------------------
(***************************************************************************)
(* The inductive invariant.  The markers are read by one evaluation and    *)
(* relied on by its later writes, so what makes the safety properties hold *)
(* between two writes is what each pc says of the node.                    *)
(***************************************************************************)

\* A marker stands on a node that is there, for a drain the bound allows.
MarkedIsThere == node.marked => node.exists /\ node.attempts < MaxAttempts

\* Every write after Begin's first one is made to a marked node, or to none.
WritesToMarked ==
  /\ pc = "mark" => node.attempts < MaxAttempts
  /\ pc \notin {"idle", "mark"} /\ node.exists => node.marked

\* An eviction is sent under a commitment, for a pod and for no other reason.
EvictsCommitted ==
  /\ pc = "evict" /\ node.exists => node.awaiting # "none"
  /\ pc \in {"commit", "evict", "identify"} => job.victim \in Pods /\ job.code = "none"
  /\ pc \in {"settle", "repair"} /\ job.next = "commit" =>
       job.victim \in Pods /\ job.code = "none"

\* A preference is a reason only while nothing has been disrupted.
PreferencesAreEarly == job.code \in Preferences => ~past.disrupted

Inv ==
  /\ TypeOK
  /\ MarkedIsThere
  /\ CordonIsMarked
  /\ WritesToMarked
  /\ EvictsCommitted
  /\ DisruptionIsCommitted
  /\ PreferencesAreEarly

-------------------------------------------------------------------------------
(***************************************************************************)
(* What an evaluation's reading and planning return.                       *)
(***************************************************************************)

\* Assess returns a count and one of its own codes.
LEMMA AssessmentType ==
  ASSUME TypeOK
  PROVE  /\ Assessment.remaining \in Nat
         /\ Assessment.progressed \in BOOLEAN
         /\ Assessment.code \in {"none", "stuck", "stalled", "not-removed"}
<1>1. Cardinality(PodsToMove) \in Nat
  BY DrainAssumption, FS_Subset, FS_CardinalityType DEF PodsToMove
<1> QED
  BY <1>1 DEF Assessment, Assess

\* A reason to end a drain is one of the codes, and a preference is given only for
\* a drain that has not committed.
LEMMA EndingType ==
  ASSUME TypeOK, NEW fact \in Facts
  PROVE  /\ Ending(Revalidate(fact)) \in Codes
         /\ Ending(Revalidate(fact)) \in Preferences => ~CommittedDrain
<1> DEFINE v == Revalidate(fact)
<1>1. v \in (Codes \ {"none"}) \union {"uncordoned", "transient", "drainable"}
  BY DrainAssumption DEF Revalidate, Codes, AbandonCodes, AllFacts, Preferences
<1>2. v \in Preferences => ~CommittedDrain
  BY DrainAssumption DEF Revalidate, Preferences, AllFacts
<1>3. v \notin {"uncordoned", "transient", "drainable"} => Ending(v) = v
  BY DEF Ending
<1>4. v \in {"uncordoned", "transient", "drainable"} =>
        Ending(v) \in AbandonCodes \union {"none"}
  BY AssessmentType DEF Ending, AbandonCodes
<1>5. (AbandonCodes \union {"none"}) \subseteq Codes
  BY DEF Codes, AllFacts
<1>6. (AbandonCodes \union {"none"}) \cap Preferences = {}
  BY DEF AbandonCodes, Preferences
<1> QED
  BY <1>1, <1>2, <1>3, <1>4, <1>5, <1>6

\* What is left of a marked node's invariant when an evaluation has planned its
\* writes: every plan that evicts has no reason to end, and no other plan evicts.
LEMMA PlanType ==
  ASSUME TypeOK, NEW fact \in Facts, NEW victim \in Pods \union {NoPod},
         victim # NoPod => Ending(Revalidate(fact)) = "none",
         Plan(Revalidate(fact), victim)
  PROVE  /\ job' \in Job
         /\ pc' \in {"settle", "repair", "commit", "handback", "record", "idle"}
         /\ job'.code \in Preferences => ~CommittedDrain
         /\ job'.next = "commit" \/ pc' = "commit" =>
              job'.victim \in Pods /\ job'.code = "none"
<1> DEFINE v == Revalidate(fact)
           next == IF Ending(v) # "none" THEN "handback"
                   ELSE IF victim # NoPod THEN "commit"
                   ELSE IF Recordable THEN "record"
                   ELSE "idle"
<1>1. job' = [code |-> Ending(v), next |-> next, repair |-> (v = "uncordoned"),
              victim |-> victim, progressed |-> Assessment.progressed,
              remaining |-> Assessment.remaining, lag |-> 0, seen |-> Listed]
  BY DEF Plan
<1>2. pc' \in {"settle", "repair", next}
  BY DEF Plan
<1>3. next \in {"commit", "handback", "record", "idle"}
  OBVIOUS
<1>4. Listed \subseteq Pods
  BY DEF Listed
<1>5. next = "commit" => victim \in Pods /\ Ending(v) = "none"
  OBVIOUS
<1> HIDE DEF next, v
<1>6. 0 \in 0..MaxLag
  BY DrainAssumption, AgeCapType, SMT
<1>7. /\ Ending(v) \in Codes
      /\ Ending(v) \in Preferences => ~CommittedDrain
  BY EndingType DEF v
<1> QED
  BY <1>1, <1>2, <1>3, <1>4, <1>5, <1>6, <1>7, AssessmentType DEF Job

-------------------------------------------------------------------------------
(***************************************************************************)
(* Every step preserves the invariant.                                     *)
(***************************************************************************)

\* The invariant holds of a node nothing has been done to.
LEMMA InitInv == Init => Inv
<1> SUFFICES ASSUME Init PROVE Inv
  OBVIOUS
<1>1. TypeOK
  BY DrainAssumption, AgeCapType, SMT
     DEF Init, TypeOK, Node, Pod, Autoscaler, Job, Past, PodAt, NoPast, NoJob, NoCount, Awaiting, Places, Conditions,
         Codes, AllFacts, Writes
<1>2. NoJob.code \notin Preferences
  BY DEF NoJob, Preferences
<1> QED
  BY <1>1, <1>2
     DEF Init, Inv, MarkedIsThere, CordonIsMarked, WritesToMarked, EvictsCommitted,
         DisruptionIsCommitted, PreferencesAreEarly, NoPast

\* An evaluation that ends leaves no trace but what it wrote.
LEMMA NoJobType ==
  /\ NoJob \in Job
  /\ NoJob.code = "none" /\ NoJob.next = "idle"
  /\ "none" \notin Preferences /\ "none" \in Codes
<1>1. 0 \in 0..MaxLag
  BY DrainAssumption, AgeCapType, SMT
<1> QED
  BY <1>1 DEF NoJob, Job, Codes, AllFacts, Preferences

\* Taking a reading and planning its writes preserves the invariant.
LEMMA ReadingInv ==
  ASSUME Inv, Decide \/ \E fact \in Facts : Advance(fact)
  PROVE  Inv'
<1> USE DEF Inv
<1>1. CASE Decide
  <2>1. TypeOK'
    <3>1. Listed \in SUBSET Pods
      BY DEF Listed
    <3>2. job' \in Job
      BY <1>1, <3>1, NoJobType DEF Decide, Job
    <3> QED
      BY <1>1, <3>2 DEF Decide, TypeOK, Writes
  <2>2. job'.code = "none" /\ job'.next = "idle"
    BY <1>1, NoJobType DEF Decide, NoJob
  <2> QED
    BY <1>1, <2>1, <2>2, NoJobType
       DEF Decide, MarkedIsThere, CordonIsMarked, WritesToMarked, EvictsCommitted,
           DisruptionIsCommitted, PreferencesAreEarly
<1>2. ASSUME NEW fact \in Facts, Advance(fact)
      PROVE  Inv'
  <2> DEFINE v == Revalidate(fact)
  <2>1. CASE pc' = "handover" /\ job' = NoJob
    <3>1. TypeOK'
      BY <1>2, <2>1, NoJobType DEF Advance, TypeOK, Writes
    <3> QED
      BY <1>2, <2>1, <3>1, NoJobType
         DEF Advance, MarkedIsThere, CordonIsMarked, WritesToMarked, EvictsCommitted,
             DisruptionIsCommitted, PreferencesAreEarly
  <2>2. ASSUME NEW victim \in Pods \union {NoPod}, Plan(v, victim),
               victim # NoPod => Ending(v) = "none"
        PROVE  Inv'
    <3>1. /\ job' \in Job
          /\ pc' \in {"settle", "repair", "commit", "handback", "record", "idle"}
          /\ job'.code \in Preferences => ~CommittedDrain
          /\ job'.next = "commit" \/ pc' = "commit" =>
               job'.victim \in Pods /\ job'.code = "none"
      BY <2>2, PlanType
    <3>2. TypeOK'
      BY <1>2, <3>1 DEF Advance, TypeOK, Writes
    <3> QED
      BY <1>2, <3>1, <3>2
         DEF Advance, MarkedIsThere, CordonIsMarked, WritesToMarked, EvictsCommitted,
             DisruptionIsCommitted, PreferencesAreEarly, CommittedDrain
  <2>3. NextToEvict(v) \subseteq Pods
    BY DEF NextToEvict, ResidentSince, PodsToMove
  <2>4. \/ pc' = "handover" /\ job' = NoJob
        \/ \E victim \in Pods : Plan(v, victim) /\ Ending(v) = "none"
        \/ Plan(v, NoPod)
    BY <1>2, <2>3 DEF Advance
  <2> QED
    BY <2>1, <2>2, <2>4
<1> QED
  BY <1>1, <1>2

\* The history of a drain that has not begun.
LEMMA NoPastType == NoPast \in Past /\ ~NoPast.disrupted
  BY AgeCapType, SMT DEF NoPast, Past

\* What the writes find in the job.
LEMMA JobFields ==
  ASSUME TypeOK
  PROVE  /\ job.lag \in 0..AgeCap /\ job.remaining \in Nat
         /\ job.next \in {"handback", "commit", "record", "idle"}
         /\ job.repair \in BOOLEAN /\ job.progressed \in BOOLEAN
         /\ Newer \subseteq Pods
<1>1. job.lag \in 0..MaxLag /\ job.remaining \in Nat
      /\ job.next \in {"handback", "commit", "record", "idle"}
      /\ job.repair \in BOOLEAN /\ job.progressed \in BOOLEAN
  BY DEF TypeOK, Job
<1>2. 0..MaxLag \subseteq 0..AgeCap
  BY DrainAssumption, AgeCapType, SMT
<1> QED
  BY <1>1, <1>2 DEF Newer

\* Moving on to the next write, or ending, keeps the job well typed.
LEMMA GotoType ==
  ASSUME TypeOK, NEW next \in Writes \union {"idle"}, Goto(next)
  PROVE  /\ job' \in Job /\ pc' \in Writes \union {"idle"}
         /\ pc' = next
         /\ job' = (IF next = "idle" THEN NoJob ELSE job)
  BY NoJobType DEF Goto, Done, TypeOK

\* The markers a waiting drain writes leave the rest of the node alone.
LEMMA ProgressMarkersType ==
  ASSUME TypeOK
  PROVE  /\ ProgressMarkers(node) \in Node
         /\ ProgressMarkers(node).exists = node.exists
         /\ ProgressMarkers(node).marked = node.marked
         /\ ProgressMarkers(node).unschedulable = node.unschedulable
         /\ ProgressMarkers(node).attempts = node.attempts
         /\ ProgressMarkers(node).awaiting = node.awaiting
<1> DEFINE progress == IF job.progressed THEN job.lag ELSE node.progress
           remaining == IF job.progressed \/ node.remaining = NoCount
                          THEN job.remaining ELSE node.remaining
<1>1. progress \in 0..AgeCap /\ remaining \in Nat \union {NoCount}
  BY JobFields DEF TypeOK, Node
<1>2. ProgressMarkers(node) =
        [node EXCEPT !.progress = progress, !.remaining = remaining]
  BY DEF ProgressMarkers, TypeOK, Node
<1> HIDE DEF progress, remaining
<1> QED
  BY <1>1, <1>2 DEF TypeOK, Node

\* Each write, and an evaluation cut short, preserves the invariant.
LEMMA WritesInv ==
  ASSUME Inv,
         \/ Mark \/ Cordon \/ Repair \/ Settle \/ Record \/ Commit
         \/ Evict \/ EvictImpossible \/ Identify \/ HandOver \/ HandBack
         \/ Abort
  PROVE  Inv'
<1> USE DEF Inv
<1>1. CASE Mark
  <2>1. job' \in Job /\ pc' \in Writes \union {"idle"} /\ pc' = "cordon"
        /\ job' = (IF "cordon" = "idle" THEN NoJob ELSE job)
    BY <1>1, GotoType, JobFields DEF Mark, Writes
  <2>2. node' \in Node
    BY <1>1, JobFields DEF Mark, Patch, TypeOK, Node
  <2>3. pod' \in [Pods -> Pod]
    <3> DEFINE isNew(p) == p \in Newer
    <3>1. \A p \in Pods : isNew(p) \in BOOLEAN
      OBVIOUS
    <3>2. pod' = [p \in Pods |-> [pod[p] EXCEPT !.late = isNew(p)]]
      BY <1>1 DEF Mark
    <3> HIDE DEF isNew
    <3> QED
      BY <3>1, <3>2 DEF TypeOK, Pod
  <2>4. past' \in Past
    BY <1>1, NoPastType DEF Mark
  <2>5. TypeOK'
    BY <1>1, <2>1, <2>2, <2>3, <2>4 DEF Mark, Patch, TypeOK
  <2> QED
    BY <1>1, <2>1, <2>5, NoJobType
       DEF Mark, Patch, NoPast, TypeOK, Node, Writes, MarkedIsThere, CordonIsMarked,
           WritesToMarked, EvictsCommitted, DisruptionIsCommitted, PreferencesAreEarly
<1>2. CASE Cordon
  <2>1. job' \in Job /\ pc' \in Writes \union {"idle"} /\ pc' = "idle"
        /\ job' = (IF "idle" = "idle" THEN NoJob ELSE job)
    BY <1>2, GotoType, JobFields DEF Cordon, Writes
  <2>2. node' \in Node
    BY <1>2 DEF Cordon, Patch, TypeOK, Node
  <2>3. pod' \in [Pods -> Pod]
    BY <1>2 DEF Cordon, TypeOK
  <2>4. past' \in Past
    BY <1>2 DEF Cordon, TypeOK
  <2>5. TypeOK'
    BY <1>2, <2>1, <2>2, <2>3, <2>4 DEF Cordon, Patch, TypeOK
  <2> QED
    BY <1>2, <2>1, <2>5, NoJobType
       DEF Cordon, Patch, TypeOK, Node, Writes, MarkedIsThere, CordonIsMarked,
           WritesToMarked, EvictsCommitted, DisruptionIsCommitted, PreferencesAreEarly
<1>3. CASE Repair
  <2>1. job' \in Job /\ pc' \in Writes \union {"idle"} /\ pc' = job.next
        /\ job' = (IF job.next = "idle" THEN NoJob ELSE job)
    BY <1>3, GotoType, JobFields DEF Repair, Writes
  <2>2. node' \in Node
    BY <1>3 DEF Repair, Patch, TypeOK, Node
  <2>3. pod' \in [Pods -> Pod]
    BY <1>3 DEF Repair, TypeOK
  <2>4. past' \in Past
    BY <1>3 DEF Repair, TypeOK
  <2>5. TypeOK'
    BY <1>3, <2>1, <2>2, <2>3, <2>4 DEF Repair, Patch, TypeOK
  <2> QED
    BY <1>3, <2>1, <2>5, NoJobType, JobFields
       DEF Repair, Patch, TypeOK, Node, Writes, MarkedIsThere, CordonIsMarked,
           WritesToMarked, EvictsCommitted, DisruptionIsCommitted, PreferencesAreEarly
<1>4. CASE Settle
  <2>1. job' \in Job /\ pc' \in Writes \union {"idle"} /\ pc' = (IF job.repair THEN "repair" ELSE job.next)
        /\ job' = (IF (IF job.repair THEN "repair" ELSE job.next) = "idle" THEN NoJob ELSE job)
    BY <1>4, GotoType, JobFields DEF Settle, Writes
  <2>2. node' \in Node
    BY <1>4 DEF Settle, Patch, TypeOK, Node, Awaiting, Settled
  <2>3. pod' \in [Pods -> Pod]
    BY <1>4 DEF Settle, TypeOK
  <2>4. past' \in Past
    BY <1>4 DEF Settle, TypeOK
  <2>5. TypeOK'
    BY <1>4, <2>1, <2>2, <2>3, <2>4 DEF Settle, Patch, TypeOK
  <2> QED
    BY <1>4, <2>1, <2>5, NoJobType, JobFields
       DEF Settle, Settled, Patch, TypeOK, Node, Writes, MarkedIsThere, CordonIsMarked,
           WritesToMarked, EvictsCommitted, DisruptionIsCommitted, PreferencesAreEarly
<1>5. CASE Record
  <2>1. job' \in Job /\ pc' \in Writes \union {"idle"} /\ pc' = "idle"
        /\ job' = (IF "idle" = "idle" THEN NoJob ELSE job)
    BY <1>5, GotoType, JobFields DEF Record, Writes
  <2>2. node' \in Node
    BY <1>5, ProgressMarkersType DEF Record, Patch
  <2>3. pod' \in [Pods -> Pod]
    BY <1>5 DEF Record, TypeOK
  <2>4. past' \in Past
    BY <1>5 DEF Record, TypeOK
  <2>5. TypeOK'
    BY <1>5, <2>1, <2>2, <2>3, <2>4 DEF Record, Patch, TypeOK
  <2> QED
    BY <1>5, <2>1, <2>5, NoJobType, ProgressMarkersType
       DEF Record, Patch, TypeOK, Node, Writes, MarkedIsThere, CordonIsMarked,
           WritesToMarked, EvictsCommitted, DisruptionIsCommitted, PreferencesAreEarly
<1>6. CASE Commit
  <2>1. job' \in Job /\ pc' \in Writes \union {"idle"} /\ pc' = "evict"
        /\ job' = (IF "evict" = "idle" THEN NoJob ELSE job)
    BY <1>6, GotoType, JobFields DEF Commit, Writes
  <2>2. node' \in Node
    BY <1>6, ProgressMarkersType DEF Commit, Patch, Node, Awaiting, Settled
  <2>3. pod' \in [Pods -> Pod]
    BY <1>6 DEF Commit, TypeOK
  <2>4. past' \in Past
    BY <1>6 DEF Commit, TypeOK
  <2>5. TypeOK'
    BY <1>6, <2>1, <2>2, <2>3, <2>4 DEF Commit, Patch, TypeOK
  <2> QED
    BY <1>6, <2>1, <2>5, NoJobType, ProgressMarkersType
       DEF Commit, Settled, Patch, TypeOK, Node, Writes, MarkedIsThere, CordonIsMarked,
           WritesToMarked, EvictsCommitted, DisruptionIsCommitted, PreferencesAreEarly
<1>7. CASE Evict
  <2> DEFINE p == job.victim
             next == IF p \notin Expendable THEN "identify" ELSE "idle"
  <2>1. p \in Pods /\ job.code = "none"
    BY <1>7 DEF Evict, EvictsCommitted
  <2>2. job' \in Job /\ pc' = next
        /\ job' = (IF next = "idle" THEN NoJob ELSE job)
    BY <1>7, GotoType DEF Evict, Writes
  <2>3. pod' \in [Pods -> Pod] /\ past' \in Past
    <3>1. CASE pod[p].at = "node"
      <4> DEFINE owed == IF p \notin Expendable THEN past.inflight \union {Owner[p]}
                                                ELSE past.inflight
                 early == past.early \/ \E q \in Newer : Owner[q] = Owner[p]
      <4>1. owed \in SUBSET Owners /\ early \in BOOLEAN
        BY <2>1, DrainAssumption DEF TypeOK, Past
      <4>2. past' = [past EXCEPT !.disrupted = TRUE, !.inflight = owed, !.early = early]
        BY <1>7, <3>1, Zenon DEF Evict, TypeOK, Past
      <4> HIDE DEF owed, early
      <4>3. past' \in Past
        BY <4>1, <4>2 DEF TypeOK, Past
      <4>4. Grace \in Int /\ "leaving" \in Places
        BY DrainAssumption DEF Places
      <4>5. pod' = [pod EXCEPT ![p].at = "leaving", ![p].left = Grace]
        BY <1>7, <3>1 DEF Evict
      <4>6. pod' \in [Pods -> Pod]
        BY <2>1, <4>4, <4>5 DEF TypeOK, Pod
      <4> QED
        BY <4>3, <4>6
    <3> QED
      BY <1>7, <3>1 DEF Evict, TypeOK
  <2>4. TypeOK'
    BY <1>7, <2>2, <2>3 DEF Evict, TypeOK, Writes
  <2>5. node' = node /\ pc = "evict"
    BY <1>7 DEF Evict
  <2>6. job'.code \notin Preferences
    BY <2>1, <2>2, NoJobType
  <2> QED
    BY <2>1, <2>2, <2>4, <2>5, <2>6, NoJobType
       DEF TypeOK, Node, Writes, MarkedIsThere, CordonIsMarked,
           WritesToMarked, EvictsCommitted, DisruptionIsCommitted, PreferencesAreEarly
<1>8. CASE EvictImpossible
  <2>1. "blocked" \in Codes /\ "blocked" \notin Preferences
    BY DEF Codes, AllFacts, Preferences
  <2>2. job' \in Job /\ job'.code = "blocked" /\ job'.next = job.next
    BY <1>8, <2>1 DEF EvictImpossible, TypeOK, Job
  <2>3. TypeOK'
    BY <1>8, <2>2 DEF EvictImpossible, TypeOK, Writes
  <2> QED
    BY <1>8, <2>1, <2>2, <2>3
       DEF EvictImpossible, MarkedIsThere, CordonIsMarked,
           WritesToMarked, EvictsCommitted, DisruptionIsCommitted, PreferencesAreEarly
<1>9. CASE Identify
  <2>1. job' \in Job /\ pc' = "idle" /\ job' = NoJob
    BY <1>9, GotoType DEF Identify
  <2>2. AwaitingMarker(job.victim) \in Awaiting \ {"none"}
    BY <1>9, DrainAssumption DEF Identify, Patch, EvictsCommitted, Awaiting, AwaitingMarker
  <2>3. node' \in Node
    BY <1>9, <2>2 DEF Identify, Patch, TypeOK, Node
  <2>4. pod' \in [Pods -> Pod]
    <3> DEFINE isNew(p) == p \in Newer
    <3>1. \A p \in Pods : isNew(p) \in BOOLEAN
      OBVIOUS
    <3>2. pod' = [p \in Pods |-> [pod[p] EXCEPT !.fresh = isNew(p)]]
      BY <1>9 DEF Identify
    <3> HIDE DEF isNew
    <3> QED
      BY <3>1, <3>2 DEF TypeOK, Pod
  <2>5. TypeOK'
    BY <1>9, <2>1, <2>3, <2>4 DEF Identify, Patch, TypeOK
  <2> QED
    BY <1>9, <2>1, <2>2, <2>5, NoJobType
       DEF Identify, Patch, TypeOK, Node, MarkedIsThere, CordonIsMarked,
           WritesToMarked, EvictsCommitted, DisruptionIsCommitted, PreferencesAreEarly
<1>10. CASE HandOver
  <2>1. job' \in Job /\ pc' = "idle" /\ job' = NoJob
    BY <1>10, GotoType DEF HandOver
  <2>2. node' \in Node
    BY <1>10, JobFields DEF HandOver, Patch, TypeOK, Node
  <2>3. TypeOK'
    BY <1>10, <2>1, <2>2 DEF HandOver, Patch, TypeOK
  <2> QED
    BY <1>10, <2>1, <2>3, NoJobType
       DEF HandOver, Patch, TypeOK, Node, MarkedIsThere, CordonIsMarked,
           WritesToMarked, EvictsCommitted, DisruptionIsCommitted, PreferencesAreEarly
<1>11. CASE HandBack
  <2> DEFINE wait == Rest[node.attempts + 1]
             until == IF wait > job.lag THEN wait - job.lag ELSE 0
             attempts == node.attempts + 1
  <2>1. node.attempts < MaxAttempts
    BY <1>11 DEF HandBack, Patch, WritesToMarked, MarkedIsThere
  <2>2. attempts \in 1..MaxAttempts
    BY <2>1, DrainAssumption, SMT DEF TypeOK, Node
  <2>3. wait \in Nat /\ job.lag \in Nat
    BY <2>2, DrainAssumption, JobFields, AgeCapType
  <2>4. until \in Nat
    BY <2>3, SMT
  <2>5. node' = [[node EXCEPT !.marked = FALSE, !.progress = 0, !.remaining = NoCount,
                              !.awaiting = "none"]
                   EXCEPT !.unschedulable = FALSE, !.attempts = attempts,
                          !.backoff = until]
    BY <1>11, Zenon DEF HandBack, HandedBack, Patch, NoMark, TypeOK, Node
  <2>6. 0 \in 0..AgeCap /\ "none" \in Awaiting /\ attempts \in 0..MaxAttempts
    BY <2>2, AgeCapType, SMT DEF Awaiting
  <2> HIDE DEF wait, until, attempts
  <2>7. node' \in Node /\ ~node'.marked /\ ~node'.unschedulable
    BY <2>4, <2>5, <2>6 DEF TypeOK, Node
  <2>8. job' \in Job /\ pc' = "idle" /\ job' = NoJob
    BY <1>11, GotoType DEF HandBack
  <2>9. pod' \in [Pods -> Pod]
    BY <1>11 DEF HandBack, TypeOK, Pod
  <2>10. past' \in Past /\ ~past'.disrupted
    BY <1>11, NoPastType DEF HandBack
  <2>11. TypeOK'
    BY <1>11, <2>7, <2>8, <2>9, <2>10 DEF HandBack, Patch, TypeOK
  <2> QED
    BY <2>7, <2>8, <2>10, <2>11, NoJobType
       DEF MarkedIsThere, CordonIsMarked, WritesToMarked, EvictsCommitted,
           DisruptionIsCommitted, PreferencesAreEarly
<1>12. CASE Abort
  <2> DEFINE lost == past.lost \/ pc = "identify"
  <2>1. lost \in BOOLEAN
    BY DEF TypeOK, Past
  <2>2. past' = [past EXCEPT !.lost = lost]
    BY <1>12, Zenon DEF Abort, TypeOK, Past
  <2> HIDE DEF lost
  <2>3. past' \in Past /\ past'.disrupted = past.disrupted
    BY <2>1, <2>2 DEF TypeOK, Past
  <2>4. TypeOK'
    BY <1>12, <2>3, NoJobType DEF Abort, Done, TypeOK
  <2> QED
    BY <1>12, <2>3, <2>4, NoJobType
       DEF Abort, Done, MarkedIsThere, CordonIsMarked, WritesToMarked, EvictsCommitted,
           DisruptionIsCommitted, PreferencesAreEarly
<1> QED
  BY <1>1, <1>2, <1>3, <1>4, <1>5, <1>6, <1>7, <1>8, <1>9, <1>10, <1>11, <1>12

\* What the cluster does to pods leaves the markers and the job's plan alone.
LEMMA PodStepInv ==
  ASSUME Inv, UNCHANGED <<node, pc>>,
         pod' \in [Pods -> Pod], autoscaler' = autoscaler, job' \in Job, past' \in Past,
         upsets' \in 0..MaxUpsets,
         job'.victim = job.victim, job'.code = job.code, job'.next = job.next,
         past'.disrupted = past.disrupted
  PROVE  Inv'
<1>1. TypeOK'
  BY DEF Inv, TypeOK
<1> QED
  BY <1>1 DEF Inv, MarkedIsThere, CordonIsMarked, WritesToMarked, EvictsCommitted,
              DisruptionIsCommitted, PreferencesAreEarly

\* Disturbances stay within their bound.
LEMMA UpsetType == ASSUME TypeOK, Upset PROVE upsets' \in 0..MaxUpsets
  BY DrainAssumption, SMT DEF TypeOK, Upset

\* Whatever happens to a pod preserves the invariant.
LEMMA PodsInv ==
  ASSUME Inv, NEW p \in Pods,
         \/ Create(p) \/ Ungate(p) \/ Refuse(p) \/ BindElsewhere(p)
         \/ BindHere(p) \/ Finish(p) \/ Delete(p) \/ DeleteElsewhere(p)
  PROVE  Inv'
<1>1. TypeOK
  BY DEF Inv
<1>2. PodAt("unbound") \in Pod /\ Absent \in Pod
  BY DEF PodAt, Absent, Pod, Places, Conditions
<1>3. CASE Create(p)
  <2>1. PICK cond \in {"none", "gated"} :
          pod' = [pod EXCEPT ![p] = [PodAt("unbound") EXCEPT !.cond = cond,
                    !.late = node.marked, !.fresh = (node.awaiting = Owner[p])]]
    BY <1>3 DEF Create
  <2>2. node.marked \in BOOLEAN /\ (node.awaiting = Owner[p]) \in BOOLEAN
    BY <1>1 DEF TypeOK, Node
  <2>3. cond \in Conditions
    BY DEF Conditions
  <2> DEFINE owed == node.awaiting = Owner[p]
  <2> HIDE DEF owed
  <2>4. owed \in BOOLEAN
    BY <2>2 DEF owed
  <2>5. [PodAt("unbound") EXCEPT !.cond = cond, !.late = node.marked, !.fresh = owed]
          \in Pod
    BY <1>2, <2>2, <2>3, <2>4 DEF Pod
  <2>6. pod' \in [Pods -> Pod]
    BY <1>1, <2>1, <2>5 DEF TypeOK, owed
  <2>7. job' = [job EXCEPT !.seen = job.seen \ {p}]
    BY <1>1, <1>3, Zenon DEF Create, TypeOK, Job
  <2>8. job' \in Job /\ job'.victim = job.victim /\ job'.code = job.code
        /\ job'.next = job.next
    BY <1>1, <2>7 DEF TypeOK, Job
  <2> QED
    BY <1>1, <1>3, <2>6, <2>8, PodStepInv DEF Create, TypeOK
<1>4. CASE Ungate(p) \/ Refuse(p)
  <2>1. pod' \in [Pods -> Pod]
    BY <1>1, <1>4 DEF Ungate, Refuse, TypeOK, Pod, Conditions
  <2> QED
    BY <1>1, <1>4, <2>1, PodStepInv DEF Ungate, Refuse, TypeOK
<1>5. CASE BindElsewhere(p)
  <2> DEFINE inflight == IF Replacement(p) THEN past.inflight \ {Owner[p]}
                                           ELSE past.inflight
  <2>1. inflight \in SUBSET Owners
    BY <1>1 DEF TypeOK, Past
  <2>2. past' = [past EXCEPT !.inflight = inflight]
    BY <1>1, <1>5, Zenon DEF BindElsewhere, TypeOK, Past
  <2> HIDE DEF inflight
  <2>3. past' \in Past /\ past'.disrupted = past.disrupted
    BY <1>1, <2>1, <2>2 DEF TypeOK, Past
  <2>4. pod' \in [Pods -> Pod]
    <3>1. "other" \in Places /\ "none" \in Conditions
      BY DEF Places, Conditions
    <3>2. pod' = [pod EXCEPT ![p].at = "other", ![p].cond = "none", ![p].late = FALSE]
      BY <1>5 DEF BindElsewhere
    <3>3. pod[p] \in Pod /\ pod \in [Pods -> Pod]
      BY <1>1 DEF TypeOK
    <3> DEFINE new == [pod[p] EXCEPT !.at = "other", !.cond = "none", !.late = FALSE]
    <3>4. new \in Pod
      BY <3>1, <3>3 DEF Pod
    <3>5. pod' = [pod EXCEPT ![p] = new]
      BY <3>2, <3>3, Zenon DEF Pod
    <3> HIDE DEF new
    <3> QED
      BY <3>3, <3>4, <3>5
  <2> QED
    BY <1>1, <1>5, <2>3, <2>4, PodStepInv DEF BindElsewhere, TypeOK
<1>6. CASE BindHere(p)
  <2> DEFINE joined == past.joined \/ node.marked
  <2>1. joined \in BOOLEAN
    BY <1>1 DEF TypeOK, Past
  <2>2. past' = [past EXCEPT !.joined = joined]
    BY <1>1, <1>6, Zenon DEF BindHere, TypeOK, Past
  <2> HIDE DEF joined
  <2>3. past' \in Past /\ past'.disrupted = past.disrupted
    BY <1>1, <2>1, <2>2 DEF TypeOK, Past
  <2>4. pod' \in [Pods -> Pod]
    <3>1. "node" \in Places /\ "none" \in Conditions
      BY DEF Places, Conditions
    <3>2. pod' = [pod EXCEPT ![p].at = "node", ![p].cond = "none"]
      BY <1>6 DEF BindHere
    <3>3. pod[p] \in Pod /\ pod \in [Pods -> Pod]
      BY <1>1 DEF TypeOK
    <3> DEFINE new == [pod[p] EXCEPT !.at = "node", !.cond = "none"]
    <3>4. new \in Pod
      BY <3>1, <3>3 DEF Pod
    <3>5. pod' = [pod EXCEPT ![p] = new]
      BY <3>2, <3>3, Zenon DEF Pod
    <3> HIDE DEF new
    <3> QED
      BY <3>3, <3>4, <3>5
  <2> QED
    BY <1>1, <1>6, <2>3, <2>4, PodStepInv DEF BindHere, TypeOK
<1>7. CASE Finish(p)
  <2> DEFINE quiet == IF node.marked THEN 0 ELSE past.quiet
             uncounted == past.uncounted \/ (node.marked /\ node.remaining = NoCount)
  <2>1. quiet \in 0..AgeCap /\ uncounted \in BOOLEAN
    BY <1>1, AgeCapType DEF TypeOK, Past
  <2>2. past' = [past EXCEPT !.quiet = quiet, !.uncounted = uncounted]
    BY <1>1, <1>7, Zenon DEF Finish, TypeOK, Past
  <2> HIDE DEF quiet, uncounted
  <2>3. past' \in Past /\ past'.disrupted = past.disrupted
    BY <1>1, <2>1, <2>2 DEF TypeOK, Past
  <2>4. pod' \in [Pods -> Pod]
    BY <1>1, <1>2, <1>7 DEF Finish, TypeOK
  <2> QED
    BY <1>1, <1>7, <2>3, <2>4, PodStepInv DEF Finish, TypeOK
<1>8. CASE Delete(p)
  <2>1. Grace \in Int /\ "leaving" \in Places
    BY DrainAssumption DEF Places
  <2>2. pod' \in [Pods -> Pod]
    BY <1>1, <1>8, <2>1 DEF Delete, TypeOK, Pod
  <2>3. upsets' \in 0..MaxUpsets
    BY <1>1, <1>8, UpsetType DEF Delete, TypeOK
  <2> QED
    BY <1>1, <1>8, <2>2, <2>3, PodStepInv DEF Delete, TypeOK
<1>9. CASE DeleteElsewhere(p)
  <2>1. pod' \in [Pods -> Pod] /\ upsets' \in 0..MaxUpsets
    BY <1>1, <1>2, <1>9, UpsetType DEF DeleteElsewhere, TypeOK
  <2> QED
    BY <1>1, <1>9, <2>1, PodStepInv DEF DeleteElsewhere, TypeOK
<1> QED
  BY <1>3, <1>4, <1>5, <1>6, <1>7, <1>8, <1>9

\* The autoscaler and the operator touch the taint and the cordon, never a marker.
LEMMA NodeStepInv ==
  ASSUME Inv, UNCHANGED <<pod, pc, job, past>>,
         node' \in Node, autoscaler' \in Autoscaler, upsets' \in 0..MaxUpsets,
         node'.exists = node.exists, node'.marked = node.marked,
         node'.awaiting = node.awaiting, node'.attempts = node.attempts,
         node'.unschedulable => node.unschedulable
  PROVE  Inv'
<1>1. TypeOK'
  BY DEF Inv, TypeOK
<1> QED
  BY <1>1 DEF Inv, MarkedIsThere, CordonIsMarked, WritesToMarked, EvictsCommitted,
              DisruptionIsCommitted, PreferencesAreEarly

\* The autoscaler and the operator preserve it.
LEMMA NodeInv ==
  ASSUME Inv,
         \/ Taint \/ Untaint \/ AutoscalerDies \/ AutoscalerRestarts
         \/ ScaleUpBegins \/ ScaleUpEnds \/ Uncordon
  PROVE  Inv'
<1>1. TypeOK
  BY DEF Inv
<1>2. CASE Taint
  BY <1>1, <1>2, NodeStepInv DEF Taint, TypeOK, Node
<1>3. CASE Untaint
  BY <1>1, <1>3, UpsetType, NodeStepInv DEF Untaint, TypeOK, Node
<1>4. CASE AutoscalerDies
  BY <1>1, <1>4, UpsetType, NodeStepInv DEF AutoscalerDies, TypeOK, Autoscaler
<1>5. CASE AutoscalerRestarts
  <2>1. [live |-> TRUE, scaleUp |-> FALSE, growth |-> 0, trusted |-> FALSE] \in Autoscaler
    BY AgeCapType, SMT DEF Autoscaler
  <2>2. autoscaler' \in Autoscaler
    BY <1>5, <2>1 DEF AutoscalerRestarts
  <2> QED
    BY <1>1, <1>5, <2>2, NodeStepInv DEF AutoscalerRestarts, TypeOK, Node
<1>6. CASE ScaleUpBegins
  <2>1. 0 \in 0..AgeCap
    BY AgeCapType, SMT
  <2>2. autoscaler' \in Autoscaler
    BY <1>1, <1>6, <2>1 DEF ScaleUpBegins, TypeOK, Autoscaler
  <2> QED
    BY <1>1, <1>6, <2>2, UpsetType, NodeStepInv DEF ScaleUpBegins, TypeOK
<1>7. CASE ScaleUpEnds
  BY <1>1, <1>7, NodeStepInv DEF ScaleUpEnds, TypeOK, Autoscaler
<1>8. CASE Uncordon
  BY <1>1, <1>8, UpsetType, NodeStepInv DEF Uncordon, TypeOK, Node
<1> QED
  BY <1>2, <1>3, <1>4, <1>5, <1>6, <1>7, <1>8

\* So does the removal of the node, with which its markers go.
LEMMA RemoveNodeInv == ASSUME Inv, RemoveNode PROVE Inv'
<1>1. TypeOK
  BY DEF Inv
<1>2. 0 \in 0..AgeCap /\ "none" \in Awaiting
  BY AgeCapType, SMT DEF Awaiting
<1>3. /\ node' \in Node /\ ~node'.exists /\ ~node'.marked /\ ~node'.unschedulable
      /\ node'.attempts = node.attempts
  BY <1>1, <1>2 DEF RemoveNode, NoMark, TypeOK, Node
<1>4. pod' \in [Pods -> Pod]
  <2>1. Absent \in Pod
    BY DEF PodAt, Absent, Pod, Places, Conditions
  <2> QED
    BY <1>1, <2>1 DEF RemoveNode, TypeOK, Pod
<1>5. past' \in Past /\ ~past'.disrupted
  BY NoPastType DEF RemoveNode
<1>6. TypeOK'
  BY <1>1, <1>3, <1>4, <1>5 DEF RemoveNode, TypeOK
<1> QED
  BY <1>3, <1>5, <1>6
     DEF RemoveNode, Inv, MarkedIsThere, CordonIsMarked, WritesToMarked,
         EvictsCommitted, DisruptionIsCommitted, PreferencesAreEarly

\* And the passing of time.
LEMMA TickInv == ASSUME Inv, Tick PROVE Inv'
<1>1. TypeOK
  BY DEF Inv
<1>2. job' \in Job /\ job'.victim = job.victim /\ job'.code = job.code
      /\ job'.next = job.next
  <2> DEFINE lag == IF pc = "idle" THEN 0 ELSE job.lag + 1
  <2>1. lag \in 0..MaxLag
    <3>1. job.lag \in 0..MaxLag /\ MaxLag \in Nat
      BY <1>1, DrainAssumption, AgeCapType, SMT DEF TypeOK, Job
    <3>2. pc # "idle" => job.lag < MaxLag
      BY DEF Tick
    <3> QED
      BY <3>1, <3>2, SMT
  <2>2. job' = [job EXCEPT !.lag = lag]
    BY <1>1, Zenon DEF Tick, TypeOK, Job
  <2> HIDE DEF lag
  <2> QED
    BY <1>1, <2>1, <2>2 DEF TypeOK, Job
<1>3. /\ node' \in Node /\ node'.exists = node.exists /\ node'.marked = node.marked
      /\ node'.awaiting = node.awaiting /\ node'.attempts = node.attempts
      /\ node'.unschedulable = node.unschedulable
  <2> DEFINE progress == IF node.marked THEN Older(node.progress) ELSE node.progress
             backoff == IF node.backoff > 0 THEN node.backoff - 1 ELSE 0
  <2>1. progress \in 0..AgeCap
    BY <1>1, OlderType DEF TypeOK, Node
  <2>2. backoff \in Nat
    <3>1. node.backoff \in Nat
      BY <1>1 DEF TypeOK, Node
    <3> QED
      BY <3>1, SMT
  <2>3. node' = [node EXCEPT !.progress = progress, !.backoff = backoff]
    BY <1>1, Zenon DEF Tick, TypeOK, Node
  <2> HIDE DEF progress, backoff
  <2> QED
    BY <1>1, <2>1, <2>2, <2>3 DEF TypeOK, Node
<1>4. pod' \in [Pods -> Pod]
  <2> DEFINE left(p) == IF pod[p].at = "leaving" /\ ~Stuck(pod[p].left)
                          THEN pod[p].left - 1 ELSE pod[p].left
  <2>1. \A p \in Pods : left(p) \in Int
    <3>1. \A p \in Pods : pod[p].left \in Int
      BY <1>1 DEF TypeOK, Pod
    <3> QED
      BY <3>1, SMT
  <2>2. pod' = [p \in Pods |-> [pod[p] EXCEPT !.left = left(p)]]
    BY <1>1, Zenon DEF Tick, TypeOK, Pod
  <2> HIDE DEF left
  <2> QED
    BY <1>1, <2>1, <2>2 DEF TypeOK, Pod
<1>5. autoscaler' \in Autoscaler
  BY <1>1, OlderType DEF Tick, TypeOK, Autoscaler
<1>6. past' \in Past /\ past'.disrupted = past.disrupted
  BY <1>1, OlderType DEF Tick, TypeOK, Past
<1>7. TypeOK'
  BY <1>1, <1>2, <1>3, <1>4, <1>5, <1>6 DEF Tick, TypeOK
<1> QED
  BY <1>2, <1>3, <1>6, <1>7
     DEF Tick, Inv, MarkedIsThere, CordonIsMarked, WritesToMarked, EvictsCommitted,
         DisruptionIsCommitted, PreferencesAreEarly

\* Every step preserves the invariant.
LEMMA NextInv == Inv /\ [Next]_vars => Inv'
<1> SUFFICES ASSUME Inv, [Next]_vars PROVE Inv'
  OBVIOUS
<1>1. CASE Binpack
  BY <1>1, ReadingInv, WritesInv DEF Binpack
<1>2. CASE Cluster
  BY <1>2, PodsInv, NodeInv, RemoveNodeInv, TickInv DEF Cluster
<1>3. CASE UNCHANGED vars
  BY <1>3
     DEF vars, Inv, TypeOK, MarkedIsThere, CordonIsMarked, WritesToMarked,
         EvictsCommitted, DisruptionIsCommitted, PreferencesAreEarly
<1> QED
  BY <1>1, <1>2, <1>3 DEF Next

\* The inductive invariant holds of every drain.
THEOREM InvHolds == SafetySpec => []Inv
  BY InitInv, NextInv, PTL DEF SafetySpec

-------------------------------------------------------------------------------
(***************************************************************************)
(* The results.                                                            *)
(***************************************************************************)

\* Every reachable state is well typed: no write of Advance, Begin or Abandon
\* leaves a marker, a job or a history outside its domain.
THEOREM TypeCorrect == SafetySpec => []TypeOK
<1>1. Inv => TypeOK
  BY DEF Inv
<1> QED
  BY <1>1, InvHolds, PTL

\* However the writes of commit, Evict and the identity patch are cut short, a
\* node whose drain has evicted something says so.
THEOREM DisruptionCommitted == SafetySpec => []DisruptionIsCommitted
<1>1. Inv => DisruptionIsCommitted
  BY DEF Inv
<1> QED
  BY <1>1, InvHolds, PTL

\* Begin marks before it cordons and Abandon clears both at once, so no crash
\* leaves a cordon without the marker that finds it.
THEOREM CordonMarked == SafetySpec => []CordonIsMarked
<1>1. Inv => CordonIsMarked
  BY DEF Inv
<1> QED
  BY <1>1, InvHolds, PTL

\* No drain that has disrupted a workload is handed back for the cooldowns or the
\* pod cap.
THEOREM PreferencesSpare == SafetySpec => []PreferencesSpareDisruptedDrains
<1>1. Inv => PreferencesSpareDisruptedDrains
  BY DEF Inv, PreferencesAreEarly, PreferencesSpareDisruptedDrains
<1> QED
  BY <1>1, InvHolds, PTL

-------------------------------------------------------------------------------
(***************************************************************************)
(* The clocks.  The progress marker's age is kept on the node and moves     *)
(* only when binpack writes it; what it measures is when a pod last left.   *)
(* It never outruns that by more than the departure the count has yet to   *)
(* show: the counts say what the stamps do not.                             *)
(***************************************************************************)

Leftover == Cardinality(PodsToMove)
Counted == node.remaining # NoCount

\* What hides a departure from the count.
Hidden == past.joined \/ past.uncounted

\* The count on the node shows that a pod has left since.
Shows == Counted /\ Leftover < node.remaining

\* A drain is marked once, and its count goes with its marker.
CountsAreOfDrains ==
  /\ pc = "mark" => ~node.marked
  /\ ~node.marked => ~Counted

\* Pods only leave a node that none has joined.
CountsFall == node.marked /\ ~past.joined /\ Counted => Leftover <= node.remaining

\* Nothing left since the stamp, or the count shows it.
StampsHold ==
  node.marked /\ ~Hidden => past.quiet >= node.progress \/ Shows

\* Nothing left since the reading, or the count about to be written will show it.
ReadingsHold ==
  pc \in {"settle", "repair", "record", "commit"} /\ node.marked /\ ~past.joined =>
    /\ Leftover <= job.remaining
    /\ past.quiet >= job.lag \/ Leftover < job.remaining

\* The hand-over stamps the node without counting.
HandOversHold ==
  pc = "handover" /\ node.marked /\ ~Hidden => past.quiet >= job.lag \/ Shows

Clocks ==
  /\ CountsAreOfDrains
  /\ CountsFall
  /\ StampsHold
  /\ ReadingsHold
  /\ HandOversHold

\* What the clocks and the counts range over.
LEMMA ClockTypes ==
  ASSUME TypeOK
  PROVE  /\ Leftover \in Nat
         /\ node.remaining \in Nat \union {-1}
         /\ node.progress \in 0..AgeCap /\ past.quiet \in 0..AgeCap
         /\ job.lag \in 0..AgeCap /\ job.remaining \in Nat
         /\ AgeCap \in Nat \ {0}
         /\ IsFiniteSet(PodsToMove)
<1>1. IsFiniteSet(PodsToMove) /\ Leftover \in Nat
  BY DrainAssumption, FS_Subset, FS_CardinalityType DEF PodsToMove, Leftover
<1> QED
  BY <1>1, JobFields, AgeCapType DEF TypeOK, Node, Past, NoCount

\* Nothing holds of a node that is not marked, but that it carries no count.
LEMMA UnmarkedClocks ==
  ASSUME ~node'.marked, node'.remaining = NoCount
  PROVE  Clocks'
  BY DEF Clocks, CountsAreOfDrains, CountsFall, StampsHold, ReadingsHold,
         HandOversHold, Counted

\* What moves neither a pod off the node nor a clock leaves them in agreement.
LEMMA SteadyClocks ==
  ASSUME Clocks, PodsToMove' = PodsToMove,
         node'.marked = node.marked, node'.remaining = node.remaining,
         node'.progress = node.progress,
         past'.joined = past.joined, past'.uncounted = past.uncounted,
         past'.quiet = past.quiet,
         pc' = "mark" => pc = "mark" \/ ~node.marked,
         pc' \in {"settle", "repair", "record", "commit"} =>
           /\ pc \in {"settle", "repair", "record", "commit"}
           /\ job'.lag = job.lag /\ job'.remaining = job.remaining,
         pc' = "handover" => pc = "handover" /\ job'.lag = job.lag
  PROVE  Clocks'
<1>1. Leftover' = Leftover
  BY DEF Leftover
<1>2. CountsAreOfDrains' /\ CountsFall' /\ StampsHold'
  BY <1>1 DEF Clocks, CountsAreOfDrains, CountsFall, StampsHold, Counted, Shows, Hidden
<1>3. ReadingsHold' /\ HandOversHold'
  BY <1>1 DEF Clocks, ReadingsHold, HandOversHold, Counted, Shows, Hidden
<1> QED
  BY <1>2, <1>3 DEF Clocks

\* The pods that stay where they are, or only begin to leave, are counted alike.
LEMMA SteadyPods ==
  ASSUME \A p \in Pods : pod'[p].at \in {"node", "leaving"} <=>
                         pod[p].at \in {"node", "leaving"}
  PROVE  PodsToMove' = PodsToMove
  BY DEF PodsToMove

\* A node nothing has been done to carries no count.
LEMMA InitClocks == Init => Clocks
  BY DEF Init, Clocks, CountsAreOfDrains, CountsFall, StampsHold, ReadingsHold,
         HandOversHold, Counted

\* A plan carries the count it was made from.
LEMMA PlanClocks ==
  ASSUME Inv, Clocks, NEW v, NEW victim, Plan(v, victim), UNCHANGED <<node, pod, past>>
  PROVE  Clocks'
<1>1. job'.lag = 0 /\ job'.remaining = Leftover
  BY DEF Plan, Assessment, Assess, Leftover
<1>2. pc' \in {"settle", "repair", "commit", "handback", "record", "idle"}
  BY DEF Plan
<1>3. Leftover' = Leftover
  BY DEF Leftover, PodsToMove
<1>4. CountsAreOfDrains' /\ CountsFall' /\ StampsHold' /\ HandOversHold'
  BY <1>2, <1>3
     DEF Clocks, CountsAreOfDrains, CountsFall, StampsHold, HandOversHold, Counted,
         Shows, Hidden
<1>5. Leftover \in Nat /\ past.quiet \in 0..AgeCap /\ AgeCap \in Nat
  BY ClockTypes DEF Inv
<1>6. Leftover <= Leftover /\ past.quiet >= 0
  BY <1>5, SMT
<1>7. ReadingsHold'
  BY <1>1, <1>3, <1>6 DEF ReadingsHold
<1> QED
  BY <1>4, <1>7 DEF Clocks

\* A reading counts what there is to count, and no time has passed since.
LEMMA ReadingClocks ==
  ASSUME Inv, Clocks, Decide \/ \E fact \in Facts : Advance(fact)
  PROVE  Clocks'
<1>1. CASE Decide
  <2>1. PodsToMove' = PodsToMove
    BY <1>1 DEF Decide, PodsToMove
  <2> QED
    BY <1>1, <2>1, SteadyClocks DEF Decide
<1>2. ASSUME NEW fact \in Facts, Advance(fact)
      PROVE  Clocks'
  <2>1. UNCHANGED <<node, pod, past>>
    BY <1>2 DEF Advance
  <2>2. \/ pc' = "handover" /\ job' = NoJob
        \/ \E victim \in Pods \union {NoPod} : Plan(Revalidate(fact), victim)
    <3>1. NextToEvict(Revalidate(fact)) \subseteq Pods
      BY DEF NextToEvict, ResidentSince, PodsToMove
    <3> QED
      BY <1>2, <3>1 DEF Advance
  <2>3. CASE pc' = "handover" /\ job' = NoJob
    <3>1. job'.lag = 0
      BY <2>3 DEF NoJob
    <3>2. Leftover' = Leftover
      BY <2>1 DEF Leftover, PodsToMove
    <3>3. past.quiet >= 0
      <4>1. past.quiet \in 0..AgeCap /\ AgeCap \in Nat
        BY ClockTypes DEF Inv
      <4> QED
        BY <4>1, SMT
    <3> QED
      BY <2>1, <2>3, <3>1, <3>2, <3>3
         DEF Clocks, CountsAreOfDrains, CountsFall, StampsHold, ReadingsHold,
             HandOversHold, Counted, Shows, Hidden
  <2> QED
    BY <2>1, <2>2, <2>3, PlanClocks
<1> QED
  BY <1>1, <1>2

\* The count and the stamp of a waiting drain are written together.
LEMMA MarkersClocks ==
  ASSUME Inv, Clocks, pc \in {"record", "commit"}, node.marked, node'.marked,
         node'.progress = ProgressMarkers(node).progress,
         node'.remaining = ProgressMarkers(node).remaining,
         UNCHANGED <<pod, past>>, pc' \in {"idle", "evict"}
  PROVE  Clocks'
<1>1. /\ node'.progress = (IF job.progressed THEN job.lag ELSE node.progress)
      /\ node'.remaining = (IF job.progressed \/ node.remaining = NoCount
                              THEN job.remaining ELSE node.remaining)
  BY DEF ProgressMarkers, Inv, TypeOK, Node
<1>2. Leftover' = Leftover
  BY DEF Leftover, PodsToMove
<1>3. job.remaining # NoCount
  <2>1. job.remaining \in Nat
    BY ClockTypes DEF Inv
  <2> QED
    BY <2>1, SMT DEF NoCount
<1>4. ~past.joined => /\ Leftover <= job.remaining
                      /\ past.quiet >= job.lag \/ Leftover < job.remaining
  BY DEF Clocks, ReadingsHold
<1>5. CountsAreOfDrains' /\ ReadingsHold' /\ HandOversHold'
  BY DEF CountsAreOfDrains, ReadingsHold, HandOversHold
<1>6. CountsFall'
  BY <1>1, <1>2, <1>4 DEF CountsFall, Clocks, Counted
<1>7. StampsHold'
  BY <1>1, <1>2, <1>3, <1>4 DEF StampsHold, Clocks, Counted, Shows, Hidden
<1> QED
  BY <1>5, <1>6, <1>7 DEF Clocks

\* Every write keeps clocks and counts in agreement.
LEMMA WritesClocks ==
  ASSUME Inv, Clocks,
         \/ Mark \/ Cordon \/ Repair \/ Settle \/ Record \/ Commit
         \/ Evict \/ EvictImpossible \/ Identify \/ HandOver \/ HandBack
         \/ Abort
  PROVE  Clocks'
<1> USE DEF Inv
<1>1. CASE Mark
  <2>1. pc = "mark" /\ ~node.marked /\ node.remaining = NoCount
    BY <1>1 DEF Mark, Patch, Clocks, CountsAreOfDrains, Counted
  <2>2. node'.marked /\ node'.remaining = NoCount /\ node'.progress = job.lag
    BY <1>1, <2>1 DEF Mark, Patch, TypeOK, Node
  <2>3. past'.quiet = AgeCap /\ pc' = "cordon"
    BY <1>1 DEF Mark, NoPast, Goto
  <2>4. AgeCap >= job.lag
    <3>1. job.lag \in 0..AgeCap /\ AgeCap \in Nat
      BY ClockTypes
    <3> QED
      BY <3>1, SMT
  <2> QED
    BY <2>2, <2>3, <2>4
       DEF Clocks, CountsAreOfDrains, CountsFall, StampsHold, ReadingsHold,
           HandOversHold, Counted
<1>2. CASE Cordon \/ Repair \/ Settle \/ Identify
  <2>1. /\ node'.marked = node.marked /\ node'.remaining = node.remaining
        /\ node'.progress = node.progress
    BY <1>2 DEF Cordon, Repair, Settle, Identify, Patch, TypeOK, Node
  <2>2. past' = past
    BY <1>2 DEF Cordon, Repair, Settle, Identify
  <2>3. PodsToMove' = PodsToMove
    <3>1. \A p \in Pods : pod'[p].at = pod[p].at
      BY <1>2 DEF Cordon, Repair, Settle, Identify, TypeOK, Pod
    <3> QED
      BY <3>1, SteadyPods
  <2>4. /\ pc' \in {"idle", "repair", "handback", "commit", "record"}
        /\ pc' # "idle" => pc \in {"settle", "repair"} /\ job' = job
    BY <1>2, JobFields
       DEF Cordon, Repair, Settle, Identify, Patch, Goto, Done
  <2> QED
    BY <2>1, <2>2, <2>3, <2>4, SteadyClocks
<1>3. CASE Record \/ Commit
  <2>1. pc \in {"record", "commit"} /\ node.exists
    BY <1>3 DEF Record, Commit, Patch
  <2>2. node.marked
    BY <2>1 DEF WritesToMarked
  <2>3. /\ node'.marked
        /\ node'.progress = ProgressMarkers(node).progress
        /\ node'.remaining = ProgressMarkers(node).remaining
    <3>1. ProgressMarkers(node) \in Node /\ ProgressMarkers(node).marked
      BY <2>2, ProgressMarkersType
    <3>2. node' \in {ProgressMarkers(node),
                     [ProgressMarkers(node) EXCEPT !.awaiting = Settled]}
      BY <1>3 DEF Record, Commit, Patch
    <3> HIDE DEF Inv
    <3> QED
      BY <3>1, <3>2 DEF Node
  <2>4. UNCHANGED <<pod, past>> /\ pc' \in {"idle", "evict"}
    BY <1>3 DEF Record, Commit, Goto, Done
  <2> QED
    BY <2>1, <2>2, <2>3, <2>4, MarkersClocks
<1>4. CASE Evict
  <2>1. UNCHANGED node
    BY <1>4 DEF Evict
  <2>2. /\ past'.joined = past.joined /\ past'.uncounted = past.uncounted
        /\ past'.quiet = past.quiet
    BY <1>4 DEF Evict, TypeOK, Past
  <2>3. PodsToMove' = PodsToMove
    <3>1. \A p \in Pods : pod'[p].at \in {"node", "leaving"} <=>
                          pod[p].at \in {"node", "leaving"}
      BY <1>4 DEF Evict, TypeOK, Pod
    <3> QED
      BY <3>1, SteadyPods
  <2>4. pc' \in {"identify", "idle"}
    BY <1>4 DEF Evict, Goto, Done
  <2> QED
    BY <2>1, <2>2, <2>3, <2>4, SteadyClocks
<1>5. CASE EvictImpossible
  <2>1. PodsToMove' = PodsToMove
    BY <1>5 DEF EvictImpossible, PodsToMove
  <2> QED
    BY <1>5, <2>1, SteadyClocks DEF EvictImpossible
<1>6. CASE HandOver
  <2>1. pc = "handover" /\ node.marked
    BY <1>6 DEF HandOver, Patch, WritesToMarked
  <2>2. /\ node'.marked = node.marked /\ node'.remaining = node.remaining
        /\ node'.progress = job.lag
    BY <1>6 DEF HandOver, Patch, TypeOK, Node
  <2>3. UNCHANGED <<pod, past>> /\ pc' = "idle"
    BY <1>6 DEF HandOver, Goto, Done
  <2>4. Leftover' = Leftover
    BY <2>3 DEF Leftover, PodsToMove
  <2> QED
    BY <2>1, <2>2, <2>3, <2>4
       DEF Clocks, CountsAreOfDrains, CountsFall, StampsHold, ReadingsHold,
           HandOversHold, Counted, Shows, Hidden
<1>7. CASE HandBack
  <2>1. PICK until : node' = HandedBack(node, until)
    BY <1>7 DEF HandBack, Patch
  <2>2. ~node'.marked /\ node'.remaining = NoCount
    BY <2>1 DEF HandedBack, NoMark, TypeOK, Node
  <2> QED
    BY <2>2, UnmarkedClocks
<1>8. CASE Abort
  <2>1. /\ past'.joined = past.joined /\ past'.uncounted = past.uncounted
        /\ past'.quiet = past.quiet
    BY <1>8 DEF Abort, TypeOK, Past
  <2>2. PodsToMove' = PodsToMove
    BY <1>8 DEF Abort, PodsToMove
  <2> QED
    BY <1>8, <2>1, <2>2, SteadyClocks DEF Abort, Done
<1> QED
  BY <1>1, <1>2, <1>3, <1>4, <1>5, <1>6, <1>7, <1>8

\* A pod that leaves resets what the clocks measure, and lowers the count by one.
LEMMA FinishClocks ==
  ASSUME Inv, Clocks, NEW p \in Pods, Finish(p)
  PROVE  Clocks'
<1>1. TypeOK
  BY DEF Inv
<1>2. Leftover' = Leftover - 1
  <2>1. p \in PodsToMove
    BY DEF Finish, PodsToMove
  <2>2. PodsToMove' = PodsToMove \ {p}
    BY <1>1 DEF Finish, PodsToMove, TypeOK, Pod, Absent, PodAt
  <2> QED
    BY <1>1, <2>1, <2>2, ClockTypes, FS_RemoveElement DEF Leftover
<1>3. Leftover \in Nat /\ node.remaining \in Nat \union {-1} /\ job.remaining \in Nat
  BY <1>1, ClockTypes
<1>4. /\ past'.joined = past.joined
      /\ past'.uncounted = (past.uncounted \/ (node.marked /\ node.remaining = NoCount))
  BY <1>1 DEF Finish, TypeOK, Past
<1>5. UNCHANGED <<node, pc, job>>
  BY DEF Finish
<1>6. CountsAreOfDrains'
  BY <1>5 DEF Clocks, CountsAreOfDrains, Counted
<1>7. CountsFall'
  BY <1>2, <1>3, <1>4, <1>5, SMT DEF Clocks, CountsFall, Counted, NoCount
<1>8. node.marked /\ ~Hidden' => Shows'
  <2> SUFFICES ASSUME node.marked, ~Hidden' PROVE Shows'
    OBVIOUS
  <2>1. ~past.joined /\ Counted
    BY <1>4 DEF Hidden, Counted
  <2>2. Leftover <= node.remaining
    BY <2>1 DEF Clocks, CountsFall
  <2>3. node.remaining \in Nat
    BY <1>3, <2>1 DEF Counted, NoCount
  <2>4. Leftover - 1 < node.remaining
    BY <1>3, <2>2, <2>3, SMT
  <2> QED
    BY <1>2, <1>5, <2>1, <2>4 DEF Shows, Counted
<1>9. StampsHold' /\ HandOversHold'
  BY <1>5, <1>8 DEF StampsHold, HandOversHold
<1>10. ReadingsHold'
  BY <1>2, <1>3, <1>4, <1>5, SMT DEF Clocks, ReadingsHold
<1> QED
  BY <1>6, <1>7, <1>9, <1>10 DEF Clocks

\* A pod that joins hides what leaves from then on.
LEMMA BindHereClocks ==
  ASSUME Inv, Clocks, NEW p \in Pods, BindHere(p)
  PROVE  Clocks'
<1>1. past'.joined = (past.joined \/ node.marked)
  BY DEF BindHere, Inv, TypeOK, Past
<1>2. UNCHANGED <<node, pc, job>>
  BY DEF BindHere
<1> QED
  BY <1>1, <1>2
     DEF Clocks, CountsAreOfDrains, CountsFall, StampsHold, ReadingsHold,
         HandOversHold, Counted, Hidden

\* Whatever else happens to a pod takes none off the node.
LEMMA PodsClocks ==
  ASSUME Inv, Clocks, NEW p \in Pods,
         \/ Create(p) \/ Ungate(p) \/ Refuse(p) \/ BindElsewhere(p)
         \/ BindHere(p) \/ Finish(p) \/ Delete(p) \/ DeleteElsewhere(p)
  PROVE  Clocks'
<1>1. TypeOK
  BY DEF Inv
<1>2. CASE Create(p) \/ Ungate(p) \/ Refuse(p) \/ BindElsewhere(p) \/ Delete(p)
           \/ DeleteElsewhere(p)
  <2>1. \A q \in Pods : pod'[q].at \in {"node", "leaving"} <=>
                        pod[q].at \in {"node", "leaving"}
    <3>1. CASE Create(p)
      <4>1. PICK made : pod' = [pod EXCEPT ![p] = made] /\ made.at = "unbound"
        <5>1. PICK cond \in {"none", "gated"} :
                pod' = [pod EXCEPT ![p] = [PodAt("unbound") EXCEPT !.cond = cond,
                          !.late = node.marked, !.fresh = (node.awaiting = Owner[p])]]
          BY <3>1 DEF Create
        <5> DEFINE owed == node.awaiting = Owner[p]
                   made == [PodAt("unbound") EXCEPT !.cond = cond,
                              !.late = node.marked, !.fresh = owed]
        <5> HIDE DEF owed
        <5>2. made.at = "unbound"
          BY DEF PodAt
        <5>3. pod' = [pod EXCEPT ![p] = made]
          BY <5>1, Zenon DEF owed
        <5> QED
          BY <5>2, <5>3
      <4> QED
        BY <1>1, <3>1, <4>1 DEF Create, TypeOK
    <3>2. CASE DeleteElsewhere(p)
      BY <1>1, <3>2 DEF DeleteElsewhere, TypeOK, Absent, PodAt
    <3>3. CASE Ungate(p) \/ Refuse(p) \/ BindElsewhere(p) \/ Delete(p)
      BY <1>1, <3>3 DEF Ungate, Refuse, BindElsewhere, Delete, TypeOK, Pod
    <3> QED
      BY <1>2, <3>1, <3>2, <3>3
  <2>2. /\ past'.joined = past.joined /\ past'.uncounted = past.uncounted
        /\ past'.quiet = past.quiet
    BY <1>1, <1>2
       DEF Create, Ungate, Refuse, BindElsewhere, Delete, DeleteElsewhere, TypeOK, Past
  <2>3. UNCHANGED <<node, pc>> /\ job'.lag = job.lag /\ job'.remaining = job.remaining
    BY <1>1, <1>2
       DEF Create, Ungate, Refuse, BindElsewhere, Delete, DeleteElsewhere, TypeOK, Job
  <2> QED
    BY <2>1, <2>2, <2>3, SteadyPods, SteadyClocks
<1> QED
  BY <1>2, FinishClocks, BindHereClocks

\* The autoscaler and the operator move no clock; a node that goes takes its own
\* with it.
LEMMA NodeClocks ==
  ASSUME Inv, Clocks,
         \/ Taint \/ Untaint \/ AutoscalerDies \/ AutoscalerRestarts
         \/ ScaleUpBegins \/ ScaleUpEnds \/ Uncordon \/ RemoveNode
  PROVE  Clocks'
<1>1. TypeOK
  BY DEF Inv
<1>2. CASE RemoveNode
  <2>1. ~node'.marked /\ node'.remaining = NoCount
    BY <1>1, <1>2 DEF RemoveNode, NoMark, TypeOK, Node
  <2> QED
    BY <2>1, UnmarkedClocks
<1>3. CASE \/ Taint \/ Untaint \/ AutoscalerDies \/ AutoscalerRestarts
           \/ ScaleUpBegins \/ ScaleUpEnds \/ Uncordon
  <2>1. UNCHANGED <<pod, pc, job, past>>
    BY <1>3
       DEF Taint, Untaint, AutoscalerDies, AutoscalerRestarts, ScaleUpBegins,
           ScaleUpEnds, Uncordon
  <2>2. /\ node'.marked = node.marked /\ node'.remaining = node.remaining
        /\ node'.progress = node.progress
    BY <1>1, <1>3
       DEF Taint, Untaint, AutoscalerDies, AutoscalerRestarts, ScaleUpBegins,
           ScaleUpEnds, Uncordon, TypeOK, Node
  <2>3. PodsToMove' = PodsToMove
    BY <2>1 DEF PodsToMove
  <2> QED
    BY <2>1, <2>2, <2>3, SteadyClocks
<1> QED
  BY <1>2, <1>3

\* Time ages the stamp, the reading and the quiet alike, and an evaluation ends
\* before the quiet stops counting.
LEMMA TickClocks ==
  ASSUME Inv, Clocks, Tick
  PROVE  Clocks'
<1>1. TypeOK
  BY DEF Inv
<1>2. PodsToMove' = PodsToMove
  <2>1. \A p \in Pods : pod'[p].at = pod[p].at
    BY <1>1 DEF Tick, TypeOK, Pod
  <2> QED
    BY <2>1, SteadyPods
<1>3. Leftover' = Leftover
  BY <1>2 DEF Leftover
<1>4. /\ node'.marked = node.marked /\ node'.remaining = node.remaining
      /\ node.marked => node'.progress = Older(node.progress)
  BY <1>1 DEF Tick, TypeOK, Node
<1>5. /\ past'.joined = past.joined /\ past'.uncounted = past.uncounted
      /\ past'.quiet = Older(past.quiet)
  BY <1>1 DEF Tick, TypeOK, Past
<1>6. /\ pc' = pc /\ job'.remaining = job.remaining
      /\ pc # "idle" => job'.lag = job.lag + 1 /\ job.lag < MaxLag
  BY <1>1 DEF Tick, TypeOK, Job
<1>7. past.quiet >= node.progress => Older(past.quiet) >= Older(node.progress)
  <2>1. past.quiet \in 0..AgeCap /\ node.progress \in 0..AgeCap /\ AgeCap \in Nat \ {0}
    BY <1>1, ClockTypes
  <2> QED
    BY <2>1, SMT DEF Older
<1>8. pc # "idle" /\ past.quiet >= job.lag => Older(past.quiet) >= job.lag + 1
  <2>1. past.quiet \in 0..AgeCap /\ job.lag \in 0..AgeCap /\ AgeCap \in Nat \ {0}
    BY <1>1, ClockTypes
  <2>2. MaxLag \in 0..AgeCap
    BY DrainAssumption
  <2> QED
    BY <1>6, <2>1, <2>2, SMT DEF Older
<1>9. CountsAreOfDrains' /\ CountsFall'
  BY <1>3, <1>4, <1>5, <1>6 DEF Clocks, CountsAreOfDrains, CountsFall, Counted
<1>10. StampsHold'
  BY <1>3, <1>4, <1>5, <1>7 DEF Clocks, StampsHold, Hidden, Shows, Counted
<1>11. ReadingsHold' /\ HandOversHold'
  BY <1>3, <1>4, <1>5, <1>6, <1>8
     DEF Clocks, ReadingsHold, HandOversHold, Hidden, Shows, Counted
<1> QED
  BY <1>9, <1>10, <1>11 DEF Clocks

\* Every step keeps clocks and counts in agreement.
LEMMA NextClocks == (Inv /\ Clocks) /\ [Next]_vars => (Inv /\ Clocks)'
<1> SUFFICES ASSUME Inv, Clocks, [Next]_vars PROVE Inv' /\ Clocks'
  OBVIOUS
<1>1. Inv'
  BY NextInv
<1>2. CASE Binpack
  BY <1>1, <1>2, ReadingClocks, WritesClocks DEF Binpack
<1>3. CASE Cluster
  BY <1>1, <1>3, PodsClocks, NodeClocks, TickClocks DEF Cluster
<1>4. CASE UNCHANGED vars
  <2>1. PodsToMove' = PodsToMove
    BY <1>4 DEF vars, PodsToMove
  <2> QED
    BY <1>1, <1>4, <2>1, SteadyClocks DEF vars
<1> QED
  BY <1>1, <1>2, <1>3, <1>4 DEF Next

\* Only a reading gives a drain up for having been quiet, and it does so when the
\* stamp is older than the timeout and the count shows nothing.
LEMMA QuietReading ==
  ASSUME Inv, [Next]_vars, NEW code \in {"stalled", "not-removed"}, GivesUp(code)
  PROVE  /\ node.marked /\ ~Shows
         /\ node.progress > (IF code = "stalled" THEN StallTimeout ELSE RemovalTimeout)
<1>1. TypeOK
  BY DEF Inv
<1>2. job'.code = code /\ job.code # code
  BY DEF GivesUp
<1>3. PICK fact \in Facts : Advance(fact)
  <2>1. ~Decide
    BY <1>2 DEF Decide, NoJob
  <2>2. \A next : ~Goto(next)
    BY <1>2 DEF Goto, Done, NoJob
  <2>3. /\ ~Mark /\ ~Cordon /\ ~Repair /\ ~Settle /\ ~Record /\ ~Commit
        /\ ~Identify /\ ~HandOver /\ ~HandBack /\ ~Evict
    BY <2>2
       DEF Mark, Cordon, Repair, Settle, Record, Commit, Identify, HandOver, HandBack,
           Evict
  <2>4. ~Abort
    BY <1>2 DEF Abort, Done, NoJob
  <2>5. ~EvictImpossible
    BY <1>1, <1>2 DEF EvictImpossible, TypeOK, Job
  <2>6. ~Cluster
    BY <1>1, <1>2
       DEF Cluster, Create, Ungate, Refuse, BindElsewhere, BindHere, Finish, Delete,
           DeleteElsewhere, Taint, RemoveNode, Untaint, AutoscalerDies,
           AutoscalerRestarts, ScaleUpBegins, ScaleUpEnds, Uncordon, Tick, TypeOK, Job
  <2>7. ~UNCHANGED vars
    BY <1>2 DEF vars
  <2> QED
    BY <2>1, <2>3, <2>4, <2>5, <2>6, <2>7 DEF Next, Binpack
<1> DEFINE v == Revalidate(fact)
<1>4. Ending(v) = code
  BY <1>2, <1>3 DEF Advance, Plan, NoJob
<1>5. v \notin {"stalled", "not-removed"}
  BY DrainAssumption DEF Revalidate, AllFacts
<1> HIDE DEF v
<1>6. Assessment.code = code
  BY <1>4, <1>5 DEF Ending
<1>7. ~Shows /\ node.progress > (IF code = "stalled" THEN StallTimeout ELSE RemovalTimeout)
  BY <1>6 DEF Assessment, Assess, Shows, Counted, Leftover
<1> QED
  BY <1>3, <1>7 DEF Advance

\* No drain is given up for being quiet, or for not being removed, while a pod left
\* the node within that time: neither a lost write nor a restart between the
\* reading and its stamp makes the clock run ahead of what happened.
THEOREM ClocksReal == SafetySpec => ClocksAreReal
<1> DEFINE real ==
      /\ GivesUp("stalled") => past.quiet > StallTimeout \/ past.joined \/ past.uncounted
      /\ GivesUp("not-removed") =>
           past.quiet > RemovalTimeout \/ past.joined \/ past.uncounted
<1>1. Inv /\ Clocks /\ [Next]_vars => [real]_vars
  <2> SUFFICES ASSUME Inv, Clocks, [Next]_vars PROVE real
    OBVIOUS
  <2>1. ASSUME NEW code \in {"stalled", "not-removed"}, GivesUp(code),
               ~past.joined, ~past.uncounted
        PROVE  past.quiet > (IF code = "stalled" THEN StallTimeout ELSE RemovalTimeout)
    <3> DEFINE timeout == IF code = "stalled" THEN StallTimeout ELSE RemovalTimeout
    <3>1. node.marked /\ ~Shows /\ node.progress > timeout
      BY <2>1, QuietReading
    <3>2. past.quiet >= node.progress
      BY <2>1, <3>1 DEF Clocks, StampsHold, Hidden
    <3>3. /\ past.quiet \in 0..AgeCap /\ node.progress \in 0..AgeCap /\ AgeCap \in Nat
          /\ timeout \in Nat
      BY ClockTypes, DurationsAssumption DEF Inv
    <3> HIDE DEF timeout
    <3>4. past.quiet > timeout
      BY <3>1, <3>2, <3>3, SMT
    <3> QED
      BY <3>4 DEF timeout
  <2> QED
    BY <2>1
<1>2. SafetySpec => [](Inv /\ Clocks)
  BY InitInv, InitClocks, NextClocks, PTL DEF SafetySpec
<1> QED
  BY <1>1, <1>2, PTL DEF SafetySpec, ClocksAreReal

-------------------------------------------------------------------------------
(***************************************************************************)
(* Sequential eviction, for every number of pods and controllers: what an  *)
(* evaluation read stays true enough, until its last write, for the        *)
(* eviction to be the only one in flight and to spare late arrivals.  On   *)
(* this rests that Drain implements DrainLifecycle.                        *)
(***************************************************************************)


\* The evaluation under way is going to evict job.victim.
Aiming ==
  \/ pc \in {"commit", "evict"}
  \/ pc \in {"settle", "repair"} /\ job.next = "commit"

\* A pod is on the node only while there is one.
PodsNeedTheNode == \A p \in Pods : pod[p].at = "node" => node.exists

\* Its victim was there when the drain started.
AimsAtResidents == Aiming => ~pod[job.victim].late

\* It has found nothing in flight, and neither has one about to settle.
AimsAtOne == (Aiming \/ pc = "settle") /\ ~past.lost /\ ~past.early => past.inflight = {}

\* What is in flight is what the marker names, or will once it is written, and
\* no pod that would pass for the replacement is bound yet.
InFlightIsNamed ==
  ~past.lost /\ ~past.early /\ past.inflight # {} =>
    IF pc = "identify"
      THEN /\ past.inflight = {Owner[job.victim]}
           /\ \A q \in Newer : Owner[q] = Owner[job.victim] => pod[q].at # "other"
      ELSE /\ node.awaiting \in Owners /\ past.inflight = {node.awaiting}
           /\ \A q \in Pods : pod[q].fresh /\ Owner[q] = node.awaiting
                                => pod[q].at # "other"

SequentialInv ==
  /\ PodsNeedTheNode
  /\ AimsAtResidents
  /\ AimsAtOne
  /\ InFlightIsNamed

LEMMA SequentialInit == Init => SequentialInv
  BY DEF Init, SequentialInv, PodsNeedTheNode, AimsAtResidents, AimsAtOne,
         InFlightIsNamed, Aiming, PodAt, NoPast

\* A drain with a pod in flight and no replacement bound neither settles nor
\* evicts.
LEMMA HoldsBack ==
  ASSUME Inv, SequentialInv, pc = "idle", NEW v,
         ~past.lost, ~past.early, past.inflight # {}
  PROVE  /\ Owed /\ ReplacementFor # "landed"
         /\ Ending(v) = "none" => NextToEvict(v) = {}
<1>1. /\ node.awaiting \in Owners
      /\ \A q \in Pods : pod[q].fresh /\ Owner[q] = node.awaiting => pod[q].at # "other"
  BY DEF SequentialInv, InFlightIsNamed
<1>2. Owed
  BY <1>1 DEF Owed
<1>3. ReplacementFor \in {"refused", "gated", "awaited"}
  BY <1>1 DEF ReplacementFor
<1>4. ASSUME Ending(v) = "none"
      PROVE  NextToEvict(v) = {}
  <2>1. CASE v # "drainable" \/ Waiting
    BY <2>1 DEF NextToEvict
  <2>2. CASE v = "drainable" /\ ~Waiting
    <3>1. ReplacementFor \in {"refused", "gated"}
      BY <1>2, <1>3, <2>2 DEF Waiting
    <3>2. Ending(v) = "replacement-unschedulable"
      BY <1>2, <2>2, <3>1 DEF Ending, EndsTheDrain
    <3> QED
      BY <1>4, <3>2
  <2> QED
    BY <2>1, <2>2
<1> QED
  BY <1>2, <1>3, <1>4

LEMMA SequentialReading ==
  ASSUME Inv, SequentialInv, Decide \/ \E fact \in Facts : Advance(fact)
  PROVE  SequentialInv'
<1>1. CASE Decide
  BY <1>1 DEF Decide, SequentialInv, PodsNeedTheNode, AimsAtResidents, AimsAtOne,
              InFlightIsNamed, Aiming
<1>2. ASSUME NEW fact \in Facts, Advance(fact)
      PROVE  SequentialInv'
  <2> DEFINE v == Revalidate(fact)
  <2>1. /\ pc = "idle" /\ UNCHANGED <<node, pod, past>>
        /\ \/ pc' = "handover"
           \/ \E victim \in NextToEvict(v) : Plan(v, victim) /\ Ending(v) = "none"
           \/ Plan(v, NoPod)
    BY <1>2 DEF Advance
  <2>2. NextToEvict(v) \subseteq ResidentSince
    BY DEF NextToEvict
  <2>3. pc' \notin {"identify", "evict"}
    BY <2>1 DEF Plan
  <2>4. Aiming' => \E victim \in NextToEvict(v) :
                     job'.victim = victim /\ Ending(v) = "none"
    <3>1. CASE pc' = "handover"
      BY <3>1 DEF Aiming
    <3>2. ASSUME NEW victim \in NextToEvict(v), Plan(v, victim), Ending(v) = "none"
          PROVE  job'.victim = victim /\ Ending(v) = "none"
      BY <3>2 DEF Plan
    <3>3. CASE Plan(v, NoPod)
      BY <3>3 DEF Plan, Aiming
    <3> QED
      BY <2>1, <3>1, <3>2, <3>3
  <2>5. pc' = "settle" => Owed /\ ReplacementFor = "landed"
    BY <2>1 DEF Plan
  <2>6. AimsAtResidents'
    BY <2>1, <2>2, <2>4 DEF AimsAtResidents, ResidentSince
  <2>7. AimsAtOne'
    BY <2>1, <2>4, <2>5, HoldsBack DEF AimsAtOne
  <2> QED
    BY <2>1, <2>3, <2>6, <2>7 DEF SequentialInv, PodsNeedTheNode, InFlightIsNamed
<1> QED
  BY <1>1, <1>2

LEMMA SequentialWrites ==
  ASSUME Inv, SequentialInv,
         \/ Mark \/ Cordon \/ Repair \/ Settle \/ Record \/ Commit
         \/ Evict \/ EvictImpossible \/ Identify \/ HandOver \/ HandBack
         \/ Abort
  PROVE  SequentialInv'
<1>0. TypeOK
  BY DEF Inv
<1>1. CASE Mark
  <2>1. pc' = "cordon" /\ past'.inflight = {}
    BY <1>1, <1>0, GotoType DEF Mark, NoPast, Writes
  <2>2. node'.exists
    BY <1>0, <1>1 DEF Mark, Patch, TypeOK, Node
  <2> QED
    BY <2>1, <2>2 DEF SequentialInv, PodsNeedTheNode, AimsAtResidents, AimsAtOne,
                      InFlightIsNamed, Aiming
<1>2. CASE Cordon \/ Record \/ HandOver
  <2>1. pc' = "idle" /\ UNCHANGED <<pod, past>> /\ pc # "identify"
    BY <1>0, <1>2, GotoType DEF Cordon, Record, HandOver, Patch
  <2>2. node'.exists = node.exists /\ node'.awaiting = node.awaiting
    BY <1>0, <1>2, ProgressMarkersType
       DEF Cordon, Record, HandOver, Patch, TypeOK, Node
  <2> QED
    BY <2>1, <2>2 DEF SequentialInv, PodsNeedTheNode, AimsAtResidents, AimsAtOne,
                      InFlightIsNamed, Aiming
<1>3. CASE Repair
  <2>1. pc' = job.next /\ (job.next # "idle" => job' = job) /\ UNCHANGED <<pod, past>>
        /\ pc = "repair"
    BY <1>0, <1>3, GotoType, JobFields DEF Repair, Writes, Patch
  <2>2. node'.exists = node.exists /\ node'.awaiting = node.awaiting
    BY <1>0, <1>3 DEF Repair, Patch, TypeOK, Node
  <2>3. pc' \notin {"settle", "repair", "evict", "identify"}
    BY <1>0, <2>1, JobFields
  <2> QED
    BY <2>1, <2>2, <2>3
       DEF SequentialInv, PodsNeedTheNode, AimsAtResidents, AimsAtOne,
           InFlightIsNamed, Aiming
<1>4. CASE Settle
  <2>1. /\ pc' = IF job.repair THEN "repair" ELSE job.next
        /\ pc' # "idle" => job' = job
        /\ UNCHANGED <<pod, past>> /\ pc = "settle"
    BY <1>0, <1>4, GotoType, JobFields DEF Settle, Writes, Patch
  <2>2. node'.exists = node.exists
    BY <1>0, <1>4 DEF Settle, Patch, TypeOK, Node
  <2>3. pc' \notin {"settle", "evict", "identify"}
        /\ (pc' = "commit" => job.next = "commit")
    BY <1>0, <2>1, JobFields
  <2> QED
    BY <2>1, <2>2, <2>3
       DEF SequentialInv, PodsNeedTheNode, AimsAtResidents, AimsAtOne,
           InFlightIsNamed, Aiming
<1>5. CASE Commit
  <2>1. pc' = "evict" /\ job' = job /\ UNCHANGED <<pod, past>> /\ pc = "commit"
    BY <1>0, <1>5, GotoType DEF Commit, Writes, Patch
  <2>2. node'.exists = node.exists
    <3>1. ProgressMarkers(node) \in Node /\ ProgressMarkers(node).exists = node.exists
      BY <1>0, ProgressMarkersType
    <3> QED
      BY <1>5, <3>1 DEF Commit, Patch, Node
  <2> QED
    BY <2>1, <2>2
       DEF SequentialInv, PodsNeedTheNode, AimsAtResidents, AimsAtOne,
           InFlightIsNamed, Aiming
<1>6. CASE Evict
  <2> DEFINE p == job.victim
  <2>1. pc = "evict" /\ node' = node /\ p \in Pods
    BY <1>6 DEF Evict, Inv, EvictsCommitted
  <2>2. /\ pc' \in {"identify", "idle"} /\ (pc' = "identify" => job' = job)
        /\ pc' = "idle" <=> p \in Expendable
    BY <1>0, <1>6, GotoType DEF Evict, Writes
  <2>3. \A q \in Pods : pod'[q].at = "node" => pod[q].at = "node"
    BY <1>0, <1>6, <2>1 DEF Evict, TypeOK, Pod
  <2>4. CASE pod[p].at # "node"
    BY <1>6, <2>1, <2>2, <2>3, <2>4
       DEF Evict, SequentialInv, PodsNeedTheNode, AimsAtResidents, AimsAtOne,
           InFlightIsNamed, Aiming
  <2>5. CASE pod[p].at = "node"
    <3> DEFINE owed == IF p \notin Expendable THEN past.inflight \union {Owner[p]}
                                              ELSE past.inflight
               early == past.early \/ \E q \in Newer : Owner[q] = Owner[p]
    <3>1. past' = [past EXCEPT !.disrupted = TRUE, !.inflight = owed, !.early = early]
      BY <1>0, <1>6, <2>5, Zenon DEF Evict, TypeOK, Past
    <3> HIDE DEF owed, early
    <3>2. past'.lost = past.lost /\ past'.inflight = owed /\ past'.early = early
      BY <1>0, <3>1 DEF TypeOK, Past
    <3>3. ASSUME ~past'.lost, ~past'.early, past'.inflight # {}
          PROVE  /\ pc' = "identify" /\ past'.inflight = {Owner[p]}
                 /\ \A q \in Newer' : Owner[q] = Owner[p] => pod'[q].at # "other"
      <4>1. ~past.lost /\ ~past.early /\ \A q \in Newer : Owner[q] # Owner[p]
        BY <3>2, <3>3 DEF early
      <4>2. past.inflight = {}
        BY <2>1, <4>1 DEF SequentialInv, AimsAtOne, Aiming
      <4>3. p \notin Expendable /\ past'.inflight = {Owner[p]} /\ pc' = "identify"
        BY <2>2, <3>2, <3>3, <4>2 DEF owed
      <4>4. Newer' \subseteq Newer
        <5>1. pod' = [pod EXCEPT ![p].at = "leaving", ![p].left = Grace]
          BY <1>6, <2>5 DEF Evict
        <5>2. \A q \in Pods : pod'[q].at # "absent" => pod[q].at # "absent"
          BY <1>0, <2>1, <2>5, <5>1 DEF TypeOK, Pod
        <5> QED
          BY <2>2, <4>3, <5>2 DEF Newer
      <4> QED
        BY <4>1, <4>3, <4>4
    <3>4. pc' = "identify" => job'.victim = p
      BY <2>2
    <3> QED
      BY <2>1, <2>2, <2>3, <3>3, <3>4
         DEF SequentialInv, PodsNeedTheNode, AimsAtResidents, AimsAtOne,
             InFlightIsNamed, Aiming
  <2> QED
    BY <2>4, <2>5
<1>7. CASE EvictImpossible
  BY <1>7 DEF EvictImpossible, SequentialInv, PodsNeedTheNode, AimsAtResidents,
              AimsAtOne, InFlightIsNamed, Aiming
<1>8. CASE Identify
  <2> DEFINE o == Owner[job.victim]
  <2>1. pc = "identify" /\ pc' = "idle" /\ past' = past
    BY <1>0, <1>8, GotoType DEF Identify, Patch
  <2>2. node'.exists = node.exists /\ node'.awaiting = o /\ o \in Owners
    BY <1>0, <1>8, DrainAssumption
       DEF Identify, Patch, AwaitingMarker, TypeOK, Node, Inv, EvictsCommitted
  <2>3. \A q \in Pods : pod'[q].at = pod[q].at /\ (pod'[q].fresh <=> q \in Newer)
    BY <1>0, <1>8 DEF Identify, TypeOK, Pod
  <2> QED
    BY <2>1, <2>2, <2>3
       DEF SequentialInv, PodsNeedTheNode, AimsAtResidents, AimsAtOne,
           InFlightIsNamed, Aiming
<1>9. CASE HandBack
  <2>1. pc' = "idle" /\ past'.inflight = {}
    BY <1>0, <1>9, GotoType DEF HandBack, NoPast
  <2>2. node'.exists = node.exists /\ \A q \in Pods : pod'[q].at = pod[q].at
    BY <1>0, <1>9 DEF HandBack, HandedBack, NoMark, Patch, TypeOK, Node, Pod
  <2> QED
    BY <2>1, <2>2
       DEF SequentialInv, PodsNeedTheNode, AimsAtResidents, AimsAtOne,
           InFlightIsNamed, Aiming
<1>10. CASE Abort
  <2>1. /\ pc' = "idle" /\ UNCHANGED <<node, pod>>
        /\ past'.early = past.early /\ past'.inflight = past.inflight
        /\ past'.lost <=> past.lost \/ pc = "identify"
    BY <1>0, <1>10 DEF Abort, Done, TypeOK, Past
  <2> QED
    BY <2>1
       DEF SequentialInv, PodsNeedTheNode, AimsAtResidents, AimsAtOne,
           InFlightIsNamed, Aiming
<1> QED
  BY <1>1, <1>2, <1>3, <1>4, <1>5, <1>6, <1>7, <1>8, <1>9, <1>10

\* What the cluster may do to an evaluation under way without disturbing what it
\* relies on: bind a replacement elsewhere is the one thing this leaves out.
LEMMA SequentialStep ==
  ASSUME Inv, SequentialInv, pc' = pc,
         job'.victim = job.victim, job'.next = job.next,
         node'.exists = node.exists, node'.awaiting = node.awaiting,
         past'.lost = past.lost, past'.early = past.early,
         past'.inflight = past.inflight,
         \A q \in Pods : pod'[q].late => pod[q].late \/ q # job.victim,
         \A q \in Pods : pod'[q].at = "node" => node.exists \/ pod[q].at = "node",
         \A q \in Pods : pod'[q].at = "other" =>
           /\ pod[q].at = "other"
           /\ pod'[q].fresh => pod[q].fresh
           /\ q \in Newer' => q \in Newer
  PROVE  SequentialInv'
<1>1. Aiming' = Aiming /\ (Aiming => job.victim \in Pods)
  BY DEF Aiming, Inv, EvictsCommitted
<1>2. PodsNeedTheNode' /\ AimsAtResidents' /\ AimsAtOne'
  BY <1>1 DEF SequentialInv, PodsNeedTheNode, AimsAtResidents, AimsAtOne
<1>3. Newer' \subseteq Pods
  BY DEF Newer
<1>4. InFlightIsNamed'
  BY <1>3 DEF SequentialInv, InFlightIsNamed
<1> QED
  BY <1>2, <1>4 DEF SequentialInv

\* A pod that finds a node elsewhere is the replacement that was in flight, or
\* never passes for it.
LEMMA SequentialBinding ==
  ASSUME Inv, SequentialInv, NEW p \in Pods, BindElsewhere(p)
  PROVE  SequentialInv'
<1>0. TypeOK
  BY DEF Inv
<1> DEFINE inflight == IF Replacement(p) THEN past.inflight \ {Owner[p]}
                                        ELSE past.inflight
<1>1. past' = [past EXCEPT !.inflight = inflight]
  BY <1>0, Zenon DEF BindElsewhere, TypeOK, Past
<1>2. inflight \subseteq past.inflight
      /\ (Replacement(p) => Owner[p] \notin inflight)
  OBVIOUS
<1> HIDE DEF inflight
<1>3. past'.lost = past.lost /\ past'.early = past.early /\ past'.inflight = inflight
  BY <1>0, <1>1 DEF TypeOK, Past
<1>4. UNCHANGED <<node, pc, job>>
  BY DEF BindElsewhere
<1>5. /\ pod'[p].at = "other" /\ pod'[p].late = FALSE /\ pod'[p].fresh = pod[p].fresh
      /\ pod[p].at = "unbound"
      /\ \A q \in Pods \ {p} : pod'[q] = pod[q]
  BY <1>0 DEF BindElsewhere, TypeOK, Pod
<1>6. PodsNeedTheNode' /\ AimsAtResidents' /\ AimsAtOne'
  <2>1. Aiming => job.victim \in Pods
    BY DEF Aiming, Inv, EvictsCommitted
  <2> QED
    BY <1>2, <1>3, <1>4, <1>5, <2>1
       DEF SequentialInv, PodsNeedTheNode, AimsAtResidents, AimsAtOne, Aiming
<1>7. ASSUME ~past'.lost, ~past'.early, past'.inflight # {}
      PROVE  IF pc = "identify"
               THEN /\ past'.inflight = {Owner[job.victim]}
                    /\ \A q \in Newer' : Owner[q] = Owner[job.victim] =>
                                            pod'[q].at # "other"
               ELSE /\ node.awaiting \in Owners /\ past'.inflight = {node.awaiting}
                    /\ \A q \in Pods : pod'[q].fresh /\ Owner[q] = node.awaiting
                                         => pod'[q].at # "other"
  <2>1. past.inflight # {} /\ ~past.lost /\ ~past.early
    BY <1>2, <1>3, <1>7
  <2>2. Newer' = Newer
    BY <1>4, <1>5 DEF Newer
  <2>3. CASE pc = "identify"
    <3>1. past'.inflight = {Owner[job.victim]}
      BY <1>2, <1>3, <1>7, <2>1, <2>3 DEF SequentialInv, InFlightIsNamed
    <3>2. ASSUME p \in Newer PROVE Owner[p] # Owner[job.victim]
      BY <1>2, <1>3, <2>3, <3>1, <3>2 DEF Replacement, Newer
    <3> QED
      BY <1>5, <2>1, <2>2, <2>3, <3>1, <3>2 DEF SequentialInv, InFlightIsNamed, Newer
  <2>4. CASE pc # "identify"
    <3>1. node.awaiting \in Owners /\ past'.inflight = {node.awaiting}
      BY <1>2, <1>3, <1>7, <2>1, <2>4 DEF SequentialInv, InFlightIsNamed
    <3>2. ASSUME pod[p].fresh PROVE Owner[p] # node.awaiting
      BY <1>2, <1>3, <3>1, <3>2 DEF Replacement
    <3> QED
      BY <1>5, <2>1, <2>4, <3>1, <3>2 DEF SequentialInv, InFlightIsNamed
  <2> QED
    BY <2>3, <2>4
<1> QED
  BY <1>4, <1>6, <1>7 DEF SequentialInv, InFlightIsNamed

\* Nothing else that happens to a pod makes a replacement of it.
LEMMA SequentialPods ==
  ASSUME Inv, SequentialInv, NEW p \in Pods,
         \/ Create(p) \/ Ungate(p) \/ Refuse(p) \/ BindHere(p)
         \/ Finish(p) \/ Delete(p) \/ DeleteElsewhere(p)
  PROVE  SequentialInv'
<1>0. TypeOK
  BY DEF Inv
<1>1. UNCHANGED <<node, pc>>
  BY DEF Create, Ungate, Refuse, BindHere, Finish, Delete, DeleteElsewhere
<1>2. /\ job'.victim = job.victim /\ job'.next = job.next
      /\ \A q \in Pods \ {p} : q \in job.seen <=> q \in job'.seen
      /\ p \in job.seen => p \in job'.seen \/ Create(p)
  BY <1>0 DEF Create, Ungate, Refuse, BindHere, Finish, Delete, DeleteElsewhere,
              TypeOK, Job
<1>3. past'.lost = past.lost /\ past'.early = past.early
      /\ past'.inflight = past.inflight
  BY <1>0 DEF Create, Ungate, Refuse, BindHere, Finish, Delete, DeleteElsewhere,
              TypeOK, Past
<1>4. \A q \in Pods \ {p} : pod'[q] = pod[q]
  BY <1>0 DEF Create, Ungate, Refuse, BindHere, Finish, Delete, DeleteElsewhere, TypeOK
<1>5. CASE Create(p)
  <2>1. p # job.victim /\ pod'[p].at = "unbound"
    BY <1>0, <1>5 DEF Create, PodAt, TypeOK
  <2> QED
    BY <1>1, <1>2, <1>3, <1>4, <2>1, SequentialStep DEF Newer
<1>6. CASE ~Create(p)
  <2>1. /\ pod'[p].at = "node" => node.exists \/ pod[p].at = "node"
        /\ pod'[p].at = "other" => pod[p].at = "other"
        /\ pod'[p].late => pod[p].late
        /\ pod'[p].fresh => pod[p].fresh
    BY <1>0, <1>6 DEF Ungate, Refuse, BindHere, Finish, Delete, DeleteElsewhere,
                      Absent, PodAt, TypeOK, Pod
  <2> QED
    BY <1>1, <1>2, <1>3, <1>4, <1>6, <2>1, SequentialStep DEF Newer
<1> QED
  BY <1>5, <1>6

\* The autoscaler, the operator and the clock leave what an evaluation relies on
\* alone; a node that is gone takes its drain with it.
LEMMA SequentialNode ==
  ASSUME Inv, SequentialInv,
         \/ Taint \/ RemoveNode \/ Untaint \/ AutoscalerDies \/ AutoscalerRestarts
         \/ ScaleUpBegins \/ ScaleUpEnds \/ Uncordon \/ Tick
  PROVE  SequentialInv'
<1>0. TypeOK
  BY DEF Inv
<1>1. CASE RemoveNode
  <2>1. UNCHANGED <<pc, job>> /\ past'.inflight = {}
    BY <1>1 DEF RemoveNode, NoPast
  <2>2. \A q \in Pods : pod'[q].at # "node" /\ ~pod'[q].late
    BY <1>0, <1>1 DEF RemoveNode, PodsToMove, Absent, PodAt, TypeOK, Pod
  <2>3. Aiming => job.victim \in Pods
    BY <1>1 DEF Aiming, Inv, EvictsCommitted
  <2> QED
    BY <2>1, <2>2, <2>3 DEF SequentialInv, PodsNeedTheNode, AimsAtResidents, AimsAtOne,
                            InFlightIsNamed, Aiming
<1>2. CASE Tick
  <2>1. job'.victim = job.victim /\ job'.next = job.next /\ job'.seen = job.seen
    BY <1>0, <1>2 DEF Tick, TypeOK, Job
  <2>2. node'.exists = node.exists /\ node'.awaiting = node.awaiting
    BY <1>0, <1>2 DEF Tick, TypeOK, Node
  <2>3. past'.lost = past.lost /\ past'.early = past.early
        /\ past'.inflight = past.inflight
    BY <1>0, <1>2 DEF Tick, TypeOK, Past
  <2>4. \A q \in Pods : pod'[q].at = pod[q].at /\ pod'[q].late = pod[q].late
                         /\ pod'[q].fresh = pod[q].fresh
    BY <1>0, <1>2 DEF Tick, TypeOK, Pod
  <2>5. pc' = pc
    BY <1>2 DEF Tick
  <2> QED
    BY <1>2, <2>1, <2>2, <2>3, <2>4, <2>5, SequentialStep DEF Newer
<1>3. CASE ~RemoveNode /\ ~Tick
  <2>1. UNCHANGED <<pod, pc, job, past>>
    BY <1>3 DEF Taint, Untaint, AutoscalerDies, AutoscalerRestarts, ScaleUpBegins,
                ScaleUpEnds, Uncordon
  <2>2. node'.exists = node.exists /\ node'.awaiting = node.awaiting
    BY <1>0, <1>3 DEF Taint, Untaint, AutoscalerDies, AutoscalerRestarts, ScaleUpBegins,
                      ScaleUpEnds, Uncordon, TypeOK, Node
  <2> QED
    BY <2>1, <2>2 DEF SequentialInv, PodsNeedTheNode, AimsAtResidents, AimsAtOne,
                      InFlightIsNamed, Aiming, Newer
<1> QED
  BY <1>1, <1>2, <1>3

\* Every step preserves both invariants.
LEMMA SequentialNext ==
  (Inv /\ SequentialInv) /\ [Next]_vars => (Inv /\ SequentialInv)'
<1> SUFFICES ASSUME Inv, SequentialInv, [Next]_vars
             PROVE  Inv' /\ SequentialInv'
  OBVIOUS
<1>1. Inv'
  BY NextInv
<1>2. CASE Binpack
  BY <1>1, <1>2, SequentialReading, SequentialWrites DEF Binpack
<1>3. CASE Cluster
  BY <1>1, <1>3, SequentialBinding, SequentialPods, SequentialNode DEF Cluster
<1>4. CASE UNCHANGED vars
  BY <1>1, <1>4 DEF vars, SequentialInv, PodsNeedTheNode, AimsAtResidents, AimsAtOne,
              InFlightIsNamed, Aiming, Newer
<1> QED
  BY <1>1, <1>2, <1>3, <1>4 DEF Next

\* The two invariants hold together of every drain.
THEOREM SequentialInvHolds == SafetySpec => [](Inv /\ SequentialInv)
  BY InitInv, SequentialInit, SequentialNext, PTL DEF SafetySpec

-------------------------------------------------------------------------------
\* Between the reading that chooses a pod and its eviction, whatever the scheduler,
\* the controllers and the kubelet do, no second replacement comes to be owed.
THEOREM SequentialEviction == SafetySpec => OneReplacementInFlight
<1>1. Inv /\ SequentialInv /\ [Next]_vars =>
        [Evicts => past.inflight = {} \/ past.lost \/ past.early]_vars
  BY DEF Evicts, Evict, SequentialInv, AimsAtOne, Aiming
<1> QED
  BY <1>1, SequentialInvHolds, PTL DEF SafetySpec, OneReplacementInFlight

\* The pod nextToEvict chose is still one of the residents it chose from when the
\* eviction reaches the API server.
THEOREM LateArrivalsSpared == SafetySpec => LateArrivalsStay
<1>1. Inv /\ SequentialInv /\ [Next]_vars => [Evicts => ~pod[job.victim].late]_vars
  BY DEF Evicts, Evict, SequentialInv, AimsAtResidents, Aiming
<1> QED
  BY <1>1, SequentialInvHolds, PTL DEF SafetySpec, LateArrivalsStay

-------------------------------------------------------------------------------
(***************************************************************************)
(* Drain implements DrainLifecycle: the initial state is the abstract one, *)
(* and every write, failure and move of the cluster is an abstract step or *)
(* a stutter.                                                              *)
(***************************************************************************)

\* A drain starts on a node that carries no marker, and a node without a marker
\* carries no commitment either.
MarksTheFree == pc = "mark" => ~node.marked
FreeIsClear == ~node.marked => node.awaiting = "none"

FreshInv == MarksTheFree /\ FreeIsClear

LEMMA FreshInit == Init => FreshInv
  BY DEF Init, FreshInv, MarksTheFree, FreeIsClear

\* The step that takes a reading.
LEMMA FreshReading ==
  ASSUME Inv, FreshInv, Decide \/ \E fact \in Facts : Advance(fact)
  PROVE  FreshInv'
<1>1. CASE Decide
  BY <1>1 DEF Decide, FreshInv, MarksTheFree, FreeIsClear
<1>2. CASE \E fact \in Facts : Advance(fact)
  <2>1. node' = node /\ pc' # "mark"
    <3>1. PICK fact \in Facts : Advance(fact)
      BY <1>2
    <3>2. node' = node
      BY <3>1 DEF Advance
    <3>3. CASE pc' = "handover"
      BY <3>2, <3>3
    <3>4. CASE \E v, victim : Plan(v, victim)
      BY <3>2, <3>4 DEF Plan
    <3> QED
      BY <3>1, <3>3, <3>4 DEF Advance
  <2> QED
    BY <2>1 DEF FreshInv, MarksTheFree, FreeIsClear
<1> QED
  BY <1>1, <1>2

\* The writes: every patch but Begin's is made to a marked node.
LEMMA FreshWrites ==
  ASSUME Inv, FreshInv,
         \/ Mark \/ Cordon \/ Repair \/ Settle \/ Record \/ Commit
         \/ Evict \/ EvictImpossible \/ Identify \/ HandOver \/ HandBack
         \/ Abort
  PROVE  FreshInv'
<1> USE DEF FreshInv, MarksTheFree, FreeIsClear
<1>0. TypeOK /\ WritesToMarked
  BY DEF Inv
<1>1. CASE Mark
  <2>1. node' = [node EXCEPT !.marked = TRUE, !.progress = job.lag] /\ pc' = "cordon"
    BY <1>1 DEF Mark, Patch, Goto
  <2> QED
    BY <1>0, <2>1 DEF TypeOK, Node
<1>2. CASE Cordon \/ Repair \/ Settle \/ Record \/ Commit \/ Identify \/ HandOver
  <2>1. node'.marked = node.marked /\ node.marked
    BY <1>0, <1>2 DEF Cordon, Repair, Settle, Record, Commit, Identify, HandOver,
       Patch, WritesToMarked, ProgressMarkers, TypeOK, Node
  <2>2. job.next # "mark"
    BY <1>0 DEF TypeOK, Job
  <2>3. pc' # "mark"
    BY <1>2, <2>2 DEF Cordon, Repair, Settle, Record, Commit, Identify, HandOver,
       Goto, Done
  <2> QED
    BY <2>1, <2>3
<1>3. CASE Evict \/ EvictImpossible \/ Abort
  <2>1. node' = node /\ pc' # "mark"
    BY <1>3 DEF Evict, EvictImpossible, Abort, Goto, Done
  <2> QED
    BY <2>1
<1>4. CASE HandBack
  <2>1. \E until : node' = HandedBack(node, until)
    BY <1>4 DEF HandBack, Patch
  <2>2. node'.awaiting = "none"
    BY <1>0, <2>1 DEF HandedBack, NoMark, TypeOK, Node
  <2>3. pc' # "mark"
    BY <1>4 DEF HandBack, Goto, Done
  <2> QED
    BY <2>2, <2>3
<1> QED
  BY <1>1, <1>2, <1>3, <1>4

\* The cluster neither marks nor commits.
LEMMA FreshCluster == ASSUME Inv, FreshInv, Cluster PROVE FreshInv'
<1> USE DEF FreshInv, MarksTheFree, FreeIsClear
<1>0. TypeOK
  BY DEF Inv
<1>1. CASE \E p \in Pods : \/ Create(p) \/ Ungate(p) \/ Refuse(p) \/ BindElsewhere(p)
                           \/ BindHere(p) \/ Finish(p) \/ Delete(p) \/ DeleteElsewhere(p)
  BY <1>1 DEF Create, Ungate, Refuse, BindElsewhere, BindHere, Finish, Delete,
     DeleteElsewhere
<1>2. CASE RemoveNode
  BY <1>0, <1>2 DEF RemoveNode, NoMark, TypeOK, Node
<1>3. CASE Tick
  <2>1. node'.marked = node.marked /\ node'.awaiting = node.awaiting /\ pc' = pc
    BY <1>0, <1>3 DEF Tick, TypeOK, Node
  <2> QED
    BY <2>1
<1>4. CASE \/ Taint \/ Untaint \/ AutoscalerDies \/ AutoscalerRestarts
           \/ ScaleUpBegins \/ ScaleUpEnds \/ Uncordon
  <2>1. node'.marked = node.marked /\ node'.awaiting = node.awaiting /\ pc' = pc
    BY <1>0, <1>4 DEF Taint, Untaint, AutoscalerDies, AutoscalerRestarts,
       ScaleUpBegins, ScaleUpEnds, Uncordon, TypeOK, Node
  <2> QED
    BY <2>1
<1> QED
  BY <1>1, <1>2, <1>3, <1>4 DEF Cluster

PromiseInv == Inv /\ SequentialInv /\ FreshInv

LEMMA PromiseNext == PromiseInv /\ [Next]_vars => PromiseInv'
<1> SUFFICES ASSUME PromiseInv, [Next]_vars PROVE PromiseInv'
  OBVIOUS
<1>1. Inv' /\ SequentialInv'
  BY SequentialNext DEF PromiseInv
<1>2. FreshInv'
  <2>1. CASE UNCHANGED vars
    BY <2>1 DEF PromiseInv, vars, FreshInv, MarksTheFree, FreeIsClear
  <2>2. CASE Binpack
    BY <2>2, FreshReading, FreshWrites DEF Binpack, PromiseInv
  <2>3. CASE Cluster
    BY <2>3, FreshCluster DEF PromiseInv
  <2> QED
    BY <2>1, <2>2, <2>3 DEF Next
<1> QED
  BY <1>1, <1>2 DEF PromiseInv

-------------------------------------------------------------------------------
(***************************************************************************)
(* Step by step.  Most steps leave everything the promise speaks of alone. *)
(***************************************************************************)
Stutter == UNCHANGED <<Phase, node.unschedulable, past.disrupted, past.inflight,
                       past.lost \/ past.early>>

LEMMA StutterIsAllowed == Stutter => UNCHANGED Lifecycle!vars
  BY DEF Stutter, Lifecycle!vars

\* A reading changes nothing.
LEMMA ReadingKeeps ==
  ASSUME Decide \/ \E fact \in Facts : Advance(fact)
  PROVE  Stutter
  BY DEF Decide, Advance, Stutter, Phase, CommittedDrain

\* Neither does a step that leaves the node's existence and markers alone and has
\* no history to record.
LEMMA QuietKeeps ==
  ASSUME node'.exists = node.exists, node'.marked = node.marked,
         node'.awaiting = node.awaiting, node'.unschedulable = node.unschedulable,
         past'.disrupted = past.disrupted, past'.inflight = past.inflight,
         past'.lost = past.lost, past'.early = past.early
  PROVE  Stutter
  BY DEF Stutter, Phase, CommittedDrain

\* Begin claims.
LEMMA MarkClaims == ASSUME PromiseInv, Mark PROVE Lifecycle!Claim
<1>0. TypeOK /\ ~node.marked /\ node.awaiting = "none" /\ ~node.unschedulable
  BY DEF Mark, Patch, PromiseInv, FreshInv, MarksTheFree, FreeIsClear, Inv, CordonIsMarked
<1>1. /\ node.exists /\ node' = [node EXCEPT !.marked = TRUE, !.progress = job.lag]
      /\ past' = NoPast
  BY DEF Mark, Patch
<1>2. node'.exists /\ node'.marked /\ node'.awaiting = "none"
      /\ node'.unschedulable = node.unschedulable
  BY <1>0, <1>1 DEF TypeOK, Node
<1>3. Phase = "free" /\ Phase' = "claimed"
  BY <1>0, <1>1, <1>2 DEF Phase, CommittedDrain
<1> QED
  BY <1>0, <1>1, <1>2, <1>3 DEF Lifecycle!Claim, Lifecycle!Clear, NoPast

\* Putting the cordon on, at first or as a repair, needs a claim.
LEMMA CordonsHold ==
  ASSUME PromiseInv, Cordon \/ Repair \/ Uncordon
  PROVE  Lifecycle!Cordon
<1>0. TypeOK /\ WritesToMarked /\ CordonIsMarked /\ MarkedIsThere
  BY DEF PromiseInv, Inv
<1>1. /\ \E on \in BOOLEAN : node' = [node EXCEPT !.unschedulable = on]
      /\ past' = past /\ node.exists /\ node.marked
  BY <1>0 DEF Cordon, Repair, Uncordon, Patch, WritesToMarked, CordonIsMarked, MarkedIsThere
<1>2. /\ node'.exists = node.exists /\ node'.marked = node.marked
      /\ node'.awaiting = node.awaiting /\ node'.unschedulable \in BOOLEAN
  BY <1>0, <1>1 DEF TypeOK, Node
<1>3. Phase \in Lifecycle!Held /\ Phase' = Phase
  BY <1>1, <1>2 DEF Phase, CommittedDrain, Lifecycle!Held
<1> QED
  BY <1>1, <1>2, <1>3 DEF Lifecycle!Cordon

\* Every write of drain-awaiting commits, or finds the drain committed already.
LEMMA SettlingCommits ==
  ASSUME PromiseInv, Commit \/ Settle \/ Identify
  PROVE  Lifecycle!Commit
<1>0. TypeOK /\ WritesToMarked /\ EvictsCommitted
  BY DEF PromiseInv, Inv
<1>1. node.exists /\ node.marked /\ past' = past
  BY <1>0 DEF Commit, Settle, Identify, Patch, WritesToMarked
<1>2. /\ node'.exists = node.exists /\ node'.marked = node.marked
      /\ node'.awaiting # "none" /\ node'.unschedulable = node.unschedulable
  <2>1. CASE Commit
    BY <1>0, <2>1 DEF Commit, Patch, ProgressMarkers, Settled, TypeOK, Node
  <2>2. CASE Settle
    BY <1>0, <2>2 DEF Settle, Patch, Settled, TypeOK, Node
  <2>3. CASE Identify
    <3>1. Owner[job.victim] \in Owners
      BY <1>0, <2>3, DrainAssumption DEF Identify, Patch, EvictsCommitted
    <3>2. Owner[job.victim] # "none"
      BY <3>1, DrainAssumption
    <3> QED
      BY <1>0, <2>3, <3>2 DEF Identify, Patch, AwaitingMarker, TypeOK, Node
  <2> QED
    BY <2>1, <2>2, <2>3
<1>3. Phase \in Lifecycle!Held /\ Phase' = "committed"
  BY <1>1, <1>2 DEF Phase, CommittedDrain, Lifecycle!Held
<1> QED
  BY <1>1, <1>2, <1>3 DEF Lifecycle!Commit

\* The count and the hand-over are no business of the promise.
LEMMA RecordsKeep == ASSUME PromiseInv, Record \/ HandOver PROVE Stutter
<1>0. TypeOK
  BY DEF PromiseInv, Inv
<1>1. /\ node'.exists = node.exists /\ node'.marked = node.marked
      /\ node'.awaiting = node.awaiting /\ node'.unschedulable = node.unschedulable
      /\ past' = past
  BY <1>0 DEF Record, HandOver, Patch, ProgressMarkers, TypeOK, Node
<1> QED
  BY <1>1, QuietKeeps

\* An accepted eviction displaces one pod, of a committed node with nothing owed.
LEMMA EvictDisplaces ==
  ASSUME PromiseInv, Evict
  PROVE  Lifecycle!Displace \/ Stutter
<1>0. TypeOK /\ WritesToMarked /\ EvictsCommitted /\ node' = node /\ pc = "evict"
  BY DEF PromiseInv, Inv, Evict
<1> DEFINE p == job.victim
<1>1. CASE pod[p].at # "node"
  BY <1>0, <1>1, QuietKeeps DEF Evict
<1>2. CASE pod[p].at = "node"
  <2>1. p \in Pods /\ node.exists
    BY <1>0, <1>2 DEF EvictsCommitted, PromiseInv, SequentialInv, PodsNeedTheNode
  <2>2. Phase = "committed" /\ Phase' = Phase
    BY <1>0, <2>1 DEF WritesToMarked, EvictsCommitted, Phase, CommittedDrain
  <2>3. past.inflight = {} \/ past.lost \/ past.early
    BY <1>0 DEF PromiseInv, SequentialInv, AimsAtOne, Aiming
  <2>4. past' = [past EXCEPT !.disrupted = TRUE,
              !.inflight = IF p \notin Expendable THEN @ \union {Owner[p]} ELSE @,
              !.early = @ \/ \E q \in Newer : Owner[q] = Owner[p]]
    BY <1>2 DEF Evict
  <2>5. /\ past'.disrupted /\ past'.lost = past.lost
        /\ past'.inflight = past.inflight \/ past'.inflight = past.inflight \union {Owner[p]}
    BY <1>0, <2>4 DEF TypeOK, Past
  <2>6. past.early => past'.early
    <3>1. past'.early = (past.early \/ \E q \in Newer : Owner[q] = Owner[p])
      BY <1>0, <2>4 DEF TypeOK, Past
    <3> QED
      BY <3>1
  <2>7. past.lost \in BOOLEAN /\ past.early \in BOOLEAN /\ past'.early \in BOOLEAN
    <3>1. past'.early = (past.early \/ \E q \in Newer : Owner[q] = Owner[p])
      BY <1>0, <2>4 DEF TypeOK, Past
    <3> QED
      BY <1>0, <3>1 DEF TypeOK, Past
  <2>8. Owner[p] \in Owners
    BY <2>1, DrainAssumption
  <2> QED
    BY <1>0, <2>2, <2>3, <2>5, <2>6, <2>7, <2>8 DEF Lifecycle!Displace
<1> QED
  BY <1>1, <1>2

\* One patch ends it all.
LEMMA HandBackEnds == ASSUME PromiseInv, HandBack PROVE Lifecycle!HandBack
<1>0. TypeOK /\ node.exists /\ node.marked
  BY DEF PromiseInv, Inv, HandBack, Patch, WritesToMarked
<1>1. (\E until : node' = HandedBack(node, until)) /\ past' = NoPast
  BY DEF HandBack, Patch
<1>2. node'.exists /\ ~node'.marked /\ ~node'.unschedulable
  BY <1>0, <1>1 DEF HandedBack, NoMark, TypeOK, Node
<1>3. Phase \in Lifecycle!Held /\ Phase' = "free"
  BY <1>0, <1>2 DEF Phase, Lifecycle!Held
<1> QED
  BY <1>1, <1>2, <1>3 DEF Lifecycle!HandBack, Lifecycle!Clear, NoPast

\* A write that is refused, lost or never sent.
LEMMA AbortExcuses == ASSUME PromiseInv, Abort PROVE Lifecycle!Excuse \/ Stutter
<1>0. TypeOK /\ node' = node
  BY DEF PromiseInv, Inv, Abort
<1>1. past' = [past EXCEPT !.lost = @ \/ pc = "identify"]
  BY DEF Abort
<1>2. /\ past'.disrupted = past.disrupted /\ past'.inflight = past.inflight
      /\ past'.early = past.early
  BY <1>0, <1>1 DEF TypeOK, Past
<1>3. past'.lost = (past.lost \/ pc = "identify")
  BY <1>0, <1>1 DEF TypeOK, Past
<1>4. CASE pc = "identify"
  BY <1>0, <1>2, <1>3, <1>4 DEF Lifecycle!Excuse, Phase, CommittedDrain
<1>5. CASE pc # "identify"
  <2>1. past'.lost = past.lost
    BY <1>0, <1>3, <1>5 DEF TypeOK, Past
  <2> QED
    BY <1>0, <1>2, <2>1, QuietKeeps
<1> QED
  BY <1>4, <1>5

\* A replacement that is bound lands; the rest of what befalls a pod is silent.
LEMMA PodsKeep ==
  ASSUME PromiseInv, NEW p \in Pods,
         \/ Create(p) \/ Ungate(p) \/ Refuse(p) \/ BindElsewhere(p)
         \/ BindHere(p) \/ Finish(p) \/ Delete(p) \/ DeleteElsewhere(p)
  PROVE  Lifecycle!Land \/ Stutter
<1>0. TypeOK /\ node' = node
  BY DEF PromiseInv, Inv, Create, Ungate, Refuse, BindElsewhere, BindHere, Finish,
     Delete, DeleteElsewhere
<1>1. CASE BindElsewhere(p)
  <2>1. past' = [past EXCEPT !.inflight = IF Replacement(p) THEN @ \ {Owner[p]} ELSE @]
    BY <1>1 DEF BindElsewhere
  <2>2. /\ past'.disrupted = past.disrupted /\ past'.early = past.early
        /\ past'.lost = past.lost
        /\ \/ past'.inflight = past.inflight
           \/ past'.inflight = past.inflight \ {Owner[p]}
    BY <1>0, <2>1 DEF TypeOK, Past
  <2>3. CASE past'.inflight = past.inflight
    BY <1>0, <2>2, <2>3, QuietKeeps
  <2>4. CASE past'.inflight # past.inflight
    BY <1>0, <2>2, <2>4 DEF Lifecycle!Land, Phase, CommittedDrain
  <2> QED
    BY <2>3, <2>4
<1>2. CASE ~BindElsewhere(p)
  <2>1. /\ past'.disrupted = past.disrupted /\ past'.inflight = past.inflight
        /\ past'.lost = past.lost /\ past'.early = past.early
    BY <1>0, <1>2 DEF Create, Ungate, Refuse, BindHere, Finish, Delete,
       DeleteElsewhere, TypeOK, Past
  <2> QED
    BY <1>0, <2>1, QuietKeeps
<1> QED
  BY <1>1, <1>2

LEMMA RemovalRemoves == ASSUME PromiseInv, RemoveNode PROVE Lifecycle!Remove
<1>0. TypeOK /\ node.exists /\ past' = NoPast
  BY DEF PromiseInv, Inv, RemoveNode
<1>1. ~node'.exists /\ ~node'.unschedulable
  BY <1>0 DEF RemoveNode, NoMark, TypeOK, Node
<1> QED
  BY <1>0, <1>1 DEF Lifecycle!Remove, Lifecycle!Clear, Phase, CommittedDrain, NoPast

\* Neither the autoscaler, short of removing the node, nor the clock.
LEMMA SurroundingsKeep ==
  ASSUME PromiseInv,
         \/ Taint \/ Untaint \/ AutoscalerDies \/ AutoscalerRestarts
         \/ ScaleUpBegins \/ ScaleUpEnds \/ Tick
  PROVE  Stutter
<1>0. TypeOK
  BY DEF PromiseInv, Inv
<1>1. /\ node'.exists = node.exists /\ node'.marked = node.marked
      /\ node'.awaiting = node.awaiting /\ node'.unschedulable = node.unschedulable
  BY <1>0 DEF Taint, Untaint, AutoscalerDies, AutoscalerRestarts, ScaleUpBegins,
     ScaleUpEnds, Tick, TypeOK, Node
<1>2. /\ past'.disrupted = past.disrupted /\ past'.inflight = past.inflight
      /\ past'.lost = past.lost /\ past'.early = past.early
  BY <1>0 DEF Taint, Untaint, AutoscalerDies, AutoscalerRestarts, ScaleUpBegins,
     ScaleUpEnds, Tick, TypeOK, Past
<1> QED
  BY <1>1, <1>2, QuietKeeps

-------------------------------------------------------------------------------
LEMMA PromiseInit == Init => PromiseInv /\ Lifecycle!Init
<1>1. Init => PromiseInv
  BY InitInv, SequentialInit, FreshInit DEF PromiseInv
<1>2. Init => Lifecycle!Init
  BY DEF Init, Lifecycle!Init, Phase, NoPast
<1> QED
  BY <1>1, <1>2

LEMMA StepKeeps ==
  PromiseInv /\ [Next]_vars => [Lifecycle!Next]_Lifecycle!vars
<1> SUFFICES ASSUME PromiseInv, [Next]_vars
             PROVE  Lifecycle!Next \/ Stutter
  BY StutterIsAllowed
<1>1. CASE UNCHANGED vars
  BY <1>1 DEF vars, Stutter, Phase, CommittedDrain
<1>2. CASE Binpack
  <2>1. CASE Mark
    BY <2>1, MarkClaims DEF Lifecycle!Next
  <2>2. CASE Cordon \/ Repair
    BY <2>2, CordonsHold DEF Lifecycle!Next
  <2>3. CASE Commit \/ Settle \/ Identify
    BY <2>3, SettlingCommits DEF Lifecycle!Next
  <2>4. CASE Evict
    BY <2>4, EvictDisplaces DEF Lifecycle!Next
  <2>5. CASE HandBack
    BY <2>5, HandBackEnds DEF Lifecycle!Next
  <2>6. CASE Abort
    BY <2>6, AbortExcuses DEF Lifecycle!Next
  <2>7. CASE EvictImpossible
    BY <2>7 DEF EvictImpossible, Stutter, Phase, CommittedDrain
  <2>8. CASE \/ Decide \/ \E fact \in Facts : Advance(fact)
            \/ Record \/ HandOver
    BY <2>8, ReadingKeeps, RecordsKeep
  <2> QED
    BY <1>2, <2>1, <2>2, <2>3, <2>4, <2>5, <2>6, <2>7, <2>8 DEF Binpack
<1>3. CASE Cluster
  <2>1. CASE Uncordon
    BY <2>1, CordonsHold DEF Lifecycle!Next
  <2>2. CASE RemoveNode
    BY <2>2, RemovalRemoves DEF Lifecycle!Next
  <2> QED
    BY <1>3, <2>1, <2>2, PodsKeep, SurroundingsKeep DEF Cluster, Lifecycle!Next
<1> QED
  BY <1>1, <1>2, <1>3 DEF Next

\* Begin, Advance and Abandon keep the promise of DrainLifecycle, with every write
\* that may fail, every reading that is old by the time it is acted on, and
\* whatever the cluster does in between.
THEOREM PromiseKept == SafetySpec => KeepsThePromise
  BY PromiseInit, PromiseNext, StepKeeps, PTL DEF SafetySpec, KeepsThePromise, Lifecycle!Spec
===============================================================================
