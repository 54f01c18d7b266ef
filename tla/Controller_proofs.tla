--------------------------- MODULE Controller_proofs ---------------------------
(***************************************************************************)
(* The evaluation loop, for any number of nodes and replicas: every value  *)
(* has its type; and as long as binpack is in step with the cluster there  *)
(* is one drain at a time, no cordon is without its marker, completions    *)
(* are of real drains, and their cooldowns are observed.                   *)
(***************************************************************************)
EXTENDS Controller, SequenceTheorems, WellFoundedInduction, TLAPS

-------------------------------------------------------------------------------
(***************************************************************************)
(* The choices.                                                            *)
(***************************************************************************)

\* Numbers have a least.
LEMMA LeastNumber ==
  ASSUME NEW S \in SUBSET Nat, S # {}
  PROVE  \E x \in S : \A y \in S : x <= y
<1>1. \E x \in S : \A y \in S : <<y, x>> \notin OpToRel(<, Nat)
  BY NatLessThanWellFounded, WFMin
<1>2. PICK x \in S : \A y \in S : <<y, x>> \notin OpToRel(<, Nat)
  BY <1>1
<1>3. \A y \in S : ~(y < x)
  <2> TAKE y \in S
  <2>1. <<y, x>> \in Nat \X Nat
    BY Zenon
  <2>2. <<y, x>> \notin OpToRel(<, Nat)
    BY <1>2
  <2> QED
    BY <2>1, <2>2 DEF OpToRel
<1> QED
  BY <1>3

\* engine.Marked finds a drain exactly where there is one.
LEMMA FirstOfType ==
  ASSUME NEW S \in SUBSET Nodes, S # {}
  PROVE  FirstOf(S) \in S
<1>1. \E x \in S : \A y \in S : x <= y
  BY LeastNumber, ControllerAssumption
<1> QED
  BY <1>1 DEF FirstOf

\* The least loaded of the candidates is one of them.
LEMMA ChosenType ==
  ASSUME NEW S \in SUBSET Nodes, S # {}
  PROVE  Chosen(S) \in S
<1> DEFINE ranks == {Rank[n] : n \in S}
<1>1. ranks \in SUBSET Nat /\ ranks # {}
  <2>1. \A n \in S : Rank[n] \in Nat
    BY ControllerAssumption
  <2>2. PICK n \in S : TRUE
    OBVIOUS
  <2> QED
    BY <2>1, <2>2
<1>2. PICK x \in ranks : \A y \in ranks : x <= y
  BY <1>1, LeastNumber
<1>3. \E n \in S : \A m \in S : Rank[n] <= Rank[m]
  BY <1>2
<1> QED
  BY <1>3 DEF Chosen

\* The drain to resume is that of a node, if there is one.
LEMMA InProgressType ==
  ASSUME TypeOK, NEW p \in Procs, NEW r \in [Nodes -> Node]
  PROVE  /\ InProgress(p, r) \in Nodes \union {Nobody}
         /\ InProgress(p, r) = Nobody => \A n \in Nodes : ~r[n].marked
<1> DEFINE names == {n \in Nodes : r[n].marked}
<1>1. names \in SUBSET Nodes /\ Marked(r) = FirstOf(names)
  BY DEF Marked
<1>2. CASE names = {}
  <2>1. Marked(r) = Nobody
    BY <1>1, <1>2 DEF FirstOf
  <2>2. proc[p].active \in Nodes \union {Nobody}
    BY DEF TypeOK, Process
  <2> QED
    BY <1>2, <2>1, <2>2 DEF InProgress
<1>3. CASE names # {}
  <2>1. Marked(r) \in Nodes
    BY <1>1, <1>3, FirstOfType
  <2> QED
    BY <2>1, ControllerAssumption DEF InProgress
<1> QED
  BY <1>2, <1>3

LEMMA ReadingType ==
  ASSUME TypeOK, NEW p \in Procs
  PROVE  Reading(p) \in [Nodes -> Node]
  BY DEF TypeOK, Reading

-------------------------------------------------------------------------------
(***************************************************************************)
(* What a process remembers.                                               *)
(***************************************************************************)
LEMMA FreshType ==
  ASSUME NEW dry \in BOOLEAN
  PROVE  Fresh(dry) \in Process /\ Fresh(dry).todo = <<>>
<1>1. <<>> \in Seq(Write)
  OBVIOUS
<1>2. 0 \in 0..Cooldown /\ 0 \in 0..MaxFailures
  BY ControllerAssumption
<1> QED
  BY <1>1, <1>2 DEF Fresh, Process

LEMMA MemoryType ==
  ASSUME NEW m \in Process
  PROVE  /\ Succeed(m) \in Process /\ Succeed(m).todo = <<>>
         /\ Abandoned(m) \in Process /\ Completed(m) \in Process
         /\ \A n \in Nodes \union {Nobody} : [m EXCEPT !.active = n] \in Process
         /\ \A t \in Seq(Write) : /\ [m EXCEPT !.todo = t] \in Process
                                  /\ [m EXCEPT !.todo = t].todo = t
<1>1. <<>> \in Seq(Write) /\ 0 \in 0..MaxFailures /\ Cooldown \in 0..Cooldown
  BY ControllerAssumption
<1>2. Succeed(m) \in Process /\ Succeed(m).todo = <<>>
  BY <1>1 DEF Succeed, Process
<1>3. Abandoned(m) \in Process /\ Completed(m) \in Process
  BY <1>1 DEF Abandoned, Completed, Process
<1>4. \A n \in Nodes \union {Nobody} : [m EXCEPT !.active = n] \in Process
  BY DEF Process
<1>5. \A t \in Seq(Write) : [m EXCEPT !.todo = t] \in Process /\ [m EXCEPT !.todo = t].todo = t
  BY DEF Process
<1> QED
  BY <1>2, <1>3, <1>4, <1>5

\* A process that begins anew: what is typed, and that it has nothing to write.
LEMMA RestartedType ==
  ASSUME TypeOK, NEW p \in Procs, NEW dry \in BOOLEAN, Restarted(p, dry),
         node' \in [Nodes -> Node]
  PROVE  /\ proc' \in [Procs -> Process] /\ cache' \in [Procs -> [Nodes -> Node]]
         /\ leader' \in Procs \union {Nobody} /\ owed' \in [Procs -> 0..Cooldown]
         /\ proc'[p].todo = <<>> /\ \A q \in Procs \ {p} : proc'[q] = proc[q]
         /\ leader' = leader \/ (leader = p /\ leader' = Nobody)
         /\ \A q \in Procs : cache'[q] = cache[q] \/ cache'[q] = node'
<1>1. Fresh(dry) \in Process /\ Fresh(dry).todo = <<>> /\ 0 \in 0..Cooldown
  BY FreshType, ControllerAssumption
<1>2. proc' = [proc EXCEPT ![p] = Fresh(dry)] /\ owed' = [owed EXCEPT ![p] = 0]
  BY DEF Restarted
<1>3. proc' \in [Procs -> Process] /\ owed' \in [Procs -> 0..Cooldown]
  BY <1>1, <1>2 DEF TypeOK
<1>4. /\ cache' \in [Procs -> [Nodes -> Node]]
      /\ \A q \in Procs : cache'[q] = cache[q] \/ cache'[q] = node'
  BY DEF Restarted, TypeOK
<1>5. leader' \in Procs \union {Nobody} /\ (leader' = leader \/ (leader = p /\ leader' = Nobody))
  BY DEF Restarted, TypeOK
<1>6. proc'[p].todo = <<>> /\ \A q \in Procs \ {p} : proc'[q] = proc[q]
  BY <1>1, <1>2 DEF TypeOK
<1> QED
  BY <1>3, <1>4, <1>5, <1>6

\* A failed evaluation, the one that ends the process included.
LEMMA FailType ==
  ASSUME TypeOK, NEW p \in Procs, Fail(p), node' \in [Nodes -> Node]
  PROVE  /\ proc' \in [Procs -> Process] /\ cache' \in [Procs -> [Nodes -> Node]]
         /\ leader' \in Procs \union {Nobody} /\ owed' \in [Procs -> 0..Cooldown]
         /\ proc'[p].todo = <<>> /\ \A q \in Procs \ {p} : proc'[q] = proc[q]
         /\ leader' = leader \/ (leader = p /\ leader' = Nobody)
         /\ \A q \in Procs : cache'[q] = cache[q] \/ cache'[q] = node'
<1> DEFINE failures == Counted(proc[p].failures)
<1>1. proc[p] \in Process
  BY DEF TypeOK
<1>2. CASE failures < MaxFailures
  <2>1. /\ proc' = [proc EXCEPT ![p] = [@ EXCEPT !.due = FALSE, !.todo = <<>>,
                                                 !.failures = failures]]
        /\ UNCHANGED <<cache, leader, owed>>
    BY <1>2 DEF Fail
  <2>2. failures \in 0..MaxFailures
    BY <1>1, <1>2, ControllerAssumption DEF Counted, Process
  <2> HIDE DEF failures
  <2>3. /\ [proc[p] EXCEPT !.due = FALSE, !.todo = <<>>, !.failures = failures] \in Process
        /\ [proc[p] EXCEPT !.due = FALSE, !.todo = <<>>, !.failures = failures].todo = <<>>
    <3>1. <<>> \in Seq(Write)
      OBVIOUS
    <3> QED
      BY <1>1, <2>2, <3>1 DEF Process
  <2> QED
    BY <2>1, <2>3 DEF TypeOK
<1>3. CASE ~(failures < MaxFailures)
  <2>1. Restarted(p, proc[p].dryRun) /\ proc[p].dryRun \in BOOLEAN
    BY <1>1, <1>3 DEF Fail, Process
  <2> QED
    BY <2>1, RestartedType
<1> QED
  BY <1>2, <1>3

-------------------------------------------------------------------------------
(***************************************************************************)
(* The writes.                                                             *)
(***************************************************************************)

\* A patch changes one node, which neither comes nor goes by it.
LEMMA PatchedType ==
  ASSUME TypeOK, NEW w \in Write
  PROVE  /\ Patched(w) \in [Nodes -> Node] /\ w.on \in Nodes
         /\ \A n \in Nodes \ {w.on} : Patched(w)[n] = node[n]
         /\ Patched(w)[w.on].exists = node[w.on].exists
         /\ w.kind = "mark" => Patched(w)[w.on].marked
         /\ w.kind \in {"cordon", "repair"} => Patched(w)[w.on].marked = node[w.on].marked
         /\ w.kind = "evict" => /\ Patched(w)[w.on].marked = node[w.on].marked
                                /\ Patched(w)[w.on].cordoned = node[w.on].cordoned
         /\ w.kind = "handback" => ~Patched(w)[w.on].marked /\ ~Patched(w)[w.on].cordoned
<1>1. /\ node \in [Nodes -> Node] /\ node[w.on] \in Node /\ w.on \in Nodes
      /\ w.kind \in {"mark", "cordon", "repair", "evict", "handback"}
  BY DEF TypeOK, Write
<1>2. 0 \in 0..(Patience + 1) /\ Rest \in 0..Rest
  BY ControllerAssumption
<1> DEFINE became(v) == [node EXCEPT ![w.on] = v]
<1>3. ASSUME NEW v \in Node
      PROVE  /\ became(v) \in [Nodes -> Node] /\ became(v)[w.on] = v
             /\ \A n \in Nodes \ {w.on} : became(v)[n] = node[n]
  BY <1>1
<1>4. CASE w.kind = "mark"
  <2> DEFINE v == [node[w.on] EXCEPT !.marked = TRUE, !.quiet = 0]
  <2>1. v \in Node /\ v.marked /\ v.exists = node[w.on].exists
    BY <1>1, <1>2 DEF Node
  <2>2. Patched(w) = became(v)
    BY <1>1, <1>4 DEF Patched
  <2> HIDE DEF v, became
  <2> QED
    BY <1>1, <1>3, <1>4, <2>1, <2>2
<1>5. CASE w.kind \in {"cordon", "repair"}
  <2> DEFINE v == [node[w.on] EXCEPT !.cordoned = TRUE]
  <2>1. v \in Node /\ v.marked = node[w.on].marked /\ v.exists = node[w.on].exists
    BY <1>1 DEF Node
  <2>2. Patched(w) = became(v)
    BY <1>1, <1>5 DEF Patched
  <2> HIDE DEF v, became
  <2> QED
    BY <1>1, <1>3, <1>5, <2>1, <2>2
<1>6. CASE w.kind = "evict"
  <2> DEFINE less == IF node[w.on].left > 0 THEN node[w.on].left - 1 ELSE 0
             v == [node[w.on] EXCEPT !.left = less, !.quiet = 0]
  <2>1. less \in 0..Pods
    BY <1>1, ControllerAssumption DEF Node
  <2>2. Patched(w) = became(v)
    BY <1>1, <1>6 DEF Patched
  <2> HIDE DEF less
  <2>3. /\ v \in Node /\ v.marked = node[w.on].marked
        /\ v.cordoned = node[w.on].cordoned /\ v.exists = node[w.on].exists
    BY <1>1, <1>2, <2>1 DEF Node
  <2> HIDE DEF v, became
  <2> QED
    BY <1>1, <1>3, <1>6, <2>2, <2>3
<1>7. CASE w.kind = "handback"
  <2> DEFINE v == [node[w.on] EXCEPT !.marked = FALSE, !.cordoned = FALSE, !.quiet = 0,
                                     !.rest = Rest]
  <2>1. v \in Node /\ ~v.marked /\ ~v.cordoned /\ v.exists = node[w.on].exists
    BY <1>1, <1>2 DEF Node
  <2>2. Patched(w) = became(v)
    BY <1>1, <1>7 DEF Patched
  <2> HIDE DEF v, became
  <2> QED
    BY <1>1, <1>3, <1>7, <2>1, <2>2
<1> QED
  BY <1>1, <1>4, <1>5, <1>6, <1>7

\* What a step of a drain may write: nothing, or one write that marks no node.
LEMMA StepsType ==
  ASSUME NEW n \in Nodes, NEW state \in Node, NEW steps \in StepsOf(n, state)
  PROVE  \/ steps = <<>>
         \/ \E w \in Write : /\ w.kind # "mark" /\ w.kind \in {"repair", "evict", "handback"}
                             /\ w.on = n /\ steps = <<w>>
  BY Z3 DEF StepsOf, Write

\* The two writes of a decision.
LEMMA BeginType ==
  ASSUME NEW n \in Nodes
  PROVE  /\ Begin(n) \in Seq(Write) /\ Begin(n) # <<>>
         /\ Head(Begin(n)) \in Write
         /\ Head(Begin(n)).kind = "mark" /\ Head(Begin(n)).on = n
         /\ \E w \in Write : w.kind = "cordon" /\ w.on = n /\ Tail(Begin(n)) = <<w>>
<1> DEFINE first == [kind |-> "mark", on |-> n]
           second == [kind |-> "cordon", on |-> n]
<1>1. first \in Write /\ second \in Write
  BY DEF Write
<1>2. first.kind = "mark" /\ first.on = n /\ second.kind = "cordon" /\ second.on = n
  OBVIOUS
<1>3. Begin(n) = <<first, second>>
  BY DEF Begin
<1> HIDE DEF first, second
<1> QED
  BY <1>1, <1>2, <1>3

-------------------------------------------------------------------------------
(***************************************************************************)
(* The histories.                                                          *)
(***************************************************************************)

\* What an evaluation has seen, when it was in step: every mark there is, and none
\* that has been taken off.
LEMMA SeenType ==
  ASSUME TypeOK, NEW p \in Procs
  PROVE  /\ Seen(p) \in Past
         /\ Seen(p).finished = past.finished /\ Seen(p).cleared = past.cleared
         /\ Seen(p).unheard = past.unheard
         /\ Seen(p).late = past.late /\ (past.blind => Seen(p).blind)
         /\ ~Seen(p).blind => \A n \in Nodes : Reading(p)[n].exists =>
              (Reading(p)[n].marked <=> node[n].marked \/ n \in past.finished)
<1> DEFINE r == Reading(p)
           wrong == \E n \in Nodes :
                      r[n].exists /\ r[n].marked # (node[n].marked \/ n \in past.finished)
           b == past.blind \/ wrong
<1>1. Seen(p) = [past EXCEPT !.blind = b] /\ past \in Past
  BY DEF Seen, TypeOK
<1>2. b \in BOOLEAN
  BY <1>1 DEF Past
<1>3. \A n \in Nodes : r[n].marked \in BOOLEAN
  BY ReadingType DEF Node
<1>4. ~b => \A n \in Nodes : r[n].exists =>
                (r[n].marked <=> node[n].marked \/ n \in past.finished)
  BY <1>3
<1>5. past.blind => b
  OBVIOUS
<1> HIDE DEF b
<1>6. /\ Seen(p) \in Past /\ Seen(p).blind = b
      /\ Seen(p).finished = past.finished /\ Seen(p).cleared = past.cleared
      /\ Seen(p).unheard = past.unheard /\ Seen(p).late = past.late
  BY <1>1, <1>2 DEF Past
<1> QED
  BY <1>4, <1>5, <1>6

\* A write of a process that does not hold the lease leaves its trace.
LEMMA WrittenType ==
  ASSUME TypeOK, NEW p \in Procs, NEW w \in Write
  PROVE  /\ Written(p) \in Past /\ Unanswered(p, w) \in Past
         /\ Written(p).finished = past.finished /\ Unanswered(p, w).finished = past.finished
         /\ Written(p).cleared = past.cleared /\ Unanswered(p, w).cleared = past.cleared
         /\ Written(p).blind = past.blind /\ Unanswered(p, w).blind = past.blind
         /\ ~Written(p).late => ~past.late /\ leader = p
         /\ Unanswered(p, w).late = Written(p).late
         /\ Written(p).unheard = past.unheard
         /\ past.unheard \subseteq Unanswered(p, w).unheard
         /\ w.kind = "handback" => w.on \in Unanswered(p, w).unheard
<1> DEFINE b == past.late \/ leader # p
           lost == IF w.kind = "handback" THEN past.unheard \union {w.on} ELSE past.unheard
<1>1. Written(p) = [past EXCEPT !.late = b] /\ past \in Past
  BY DEF Written, TypeOK
<1>2. b \in BOOLEAN /\ (~b => ~past.late /\ leader = p)
  BY <1>1 DEF Past
<1>3. /\ lost \in SUBSET Nodes /\ past.unheard \subseteq lost
      /\ w.kind = "handback" => w.on \in lost
  BY <1>1 DEF Past, Write
<1> HIDE DEF b
<1>4. /\ Written(p) \in Past /\ Written(p).late = b /\ Written(p).unheard = past.unheard
      /\ Written(p).finished = past.finished /\ Written(p).cleared = past.cleared
      /\ Written(p).blind = past.blind
  BY <1>1, <1>2 DEF Past
<1>5. Unanswered(p, w) = [Written(p) EXCEPT !.unheard = lost]
  BY <1>4 DEF Unanswered
<1> HIDE DEF lost
<1>6. /\ Unanswered(p, w) \in Past /\ Unanswered(p, w).late = b
      /\ Unanswered(p, w).unheard = lost
      /\ Unanswered(p, w).finished = past.finished /\ Unanswered(p, w).cleared = past.cleared
      /\ Unanswered(p, w).blind = past.blind
  BY <1>3, <1>4, <1>5 DEF Past
<1> QED
  BY <1>2, <1>3, <1>4, <1>6

-------------------------------------------------------------------------------
(***************************************************************************)
(* The invariant.                                                          *)
(***************************************************************************)

\* What a cordon of binpack's may rest on: the marker, or that somebody took it off,
\* or that there is no node any more.
Shown(n) == node[n].marked \/ n \in past.cleared \/ ~node[n].exists

CordonsShown == \A n \in Nodes : node[n].cordoned => Shown(n)

\* The writes of an evaluation: the two of a decision, taken where no node is marked,
\* or one of a drain, which marks none and cordons only what is marked.
WritesOf(p) ==
  \/ proc[p].todo = <<>>
  \/ \E n \in Nodes : proc[p].todo = Begin(n) /\ \A m \in Nodes : ~node[m].marked
  \/ \E w \in Write : /\ w.kind # "mark" /\ proc[p].todo = <<w>>
                      /\ w.kind \in {"cordon", "repair"} => Shown(w.on)

\* A node that is gone leaves nothing, and no cache is ahead of the cluster.
Faithful ==
  /\ \A n \in Nodes : ~node[n].exists => ~node[n].marked /\ ~node[n].cordoned
  /\ \A n \in past.finished : ~node[n].exists
  /\ \A p \in Procs : \A n \in Nodes : node[n].exists => cache[p][n].exists

\* Only what the leader writes counts: what another process writes is late.
Exclusive ==
  /\ Faithful
  /\ InStep => /\ OneDrainAlways /\ CordonsShown
               /\ leader # Nobody => WritesOf(leader)

Kept == TypeOK' /\ (Exclusive => Exclusive')

\* Nodes that lose their marks and cordons, the former where it shows.
Fade == \A n \in Nodes : /\ node'[n].marked => node[n].marked
                         /\ node'[n].cordoned => node[n].cordoned
                         /\ Shown(n) => Shown(n)'

\* Nodes may go, with all they had; caches keep what they held or take what there is.
LEMMA FaithfulStep ==
  ASSUME TypeOK, Faithful,
         \A n \in Nodes : node'[n].exists => node[n].exists,
         \A n \in Nodes : ~node'[n].exists => ~node'[n].marked /\ ~node'[n].cordoned,
         \A n \in past'.finished : ~node'[n].exists,
         \A q \in Procs : \/ \A n \in Nodes : cache'[q][n].exists = cache[q][n].exists
                          \/ cache'[q] = node'
  PROVE  Faithful'
  BY DEF Faithful

\* The writes a process still has to make are not disturbed by marks that fade.
LEMMA WritesPersist ==
  ASSUME NEW q \in Procs, WritesOf(q), Fade, proc'[q].todo = proc[q].todo
  PROVE  WritesOf(q)'
<1>1. CASE proc[q].todo = <<>>
  BY <1>1 DEF WritesOf
<1>2. CASE \E n \in Nodes : proc[q].todo = Begin(n) /\ \A m \in Nodes : ~node[m].marked
  <2>1. \E n \in Nodes : proc'[q].todo = Begin(n) /\ \A m \in Nodes : ~node'[m].marked
    BY <1>2 DEF Fade
  <2> QED
    BY <2>1 DEF WritesOf, Begin
<1>3. CASE \E w \in Write : /\ w.kind # "mark" /\ proc[q].todo = <<w>>
                            /\ w.kind \in {"cordon", "repair"} => Shown(w.on)
  <2>1. PICK w \in Write : /\ w.kind # "mark" /\ proc[q].todo = <<w>>
                           /\ w.kind \in {"cordon", "repair"} => Shown(w.on)
    BY <1>3
  <2>2. w.on \in Nodes
    BY DEF Write
  <2>3. w.kind \in {"cordon", "repair"} => Shown(w.on)'
    BY <2>1, <2>2 DEF Fade
  <2> QED
    BY <2>1, <2>3 DEF WritesOf
<1> QED
  BY <1>1, <1>2, <1>3 DEF WritesOf

\* A step that lets no write land, with what its leader has to write afterwards.
LEMMA FadeStep ==
  ASSUME Exclusive, Faithful', Fade, InStep' => InStep,
         InStep' /\ leader' # Nobody => WritesOf(leader)'
  PROVE  Exclusive'
<1>1. ASSUME InStep'
      PROVE  OneDrainAlways' /\ CordonsShown'
  <2>1. OneDrainAlways /\ CordonsShown
    BY <1>1 DEF Exclusive
  <2> QED
    BY <2>1 DEF Fade, OneDrainAlways, CordonsShown
<1> QED
  BY <1>1 DEF Exclusive

\* What happens around the evaluations makes no write.
LEMMA ExclusiveAround ==
  ASSUME TypeOK, Exclusive, Faithful', Fade, InStep' => InStep, leader' = leader,
         \A q \in Procs : proc'[q].todo = proc[q].todo
  PROVE  Exclusive'
<1>1. InStep' /\ leader' # Nobody => WritesOf(leader)'
  BY WritesPersist DEF Exclusive, TypeOK
<1> QED
  BY <1>1, FadeStep

\* Nothing of the nodes changes.
LEMMA SameNodes ==
  ASSUME TypeOK, UNCHANGED node, past'.cleared = past.cleared
  PROVE  Fade
  BY DEF Fade, Shown

-------------------------------------------------------------------------------
(***************************************************************************)
(* The evaluation.                                                         *)
(***************************************************************************)

\* An evaluation that fails before a write lands, and a process that begins anew.
LEMMA EndedStep ==
  ASSUME TypeOK, NEW p \in Procs, Fail(p) \/ \E dry \in BOOLEAN : Restarted(p, dry),
         UNCHANGED <<node, resolves, past>>, upsets' \in 0..MaxUpsets
  PROVE  Kept
<1>1. node' \in [Nodes -> Node]
  BY DEF TypeOK
<1>2. /\ proc' \in [Procs -> Process] /\ cache' \in [Procs -> [Nodes -> Node]]
      /\ leader' \in Procs \union {Nobody} /\ owed' \in [Procs -> 0..Cooldown]
      /\ proc'[p].todo = <<>> /\ \A q \in Procs \ {p} : proc'[q] = proc[q]
      /\ leader' = leader \/ (leader = p /\ leader' = Nobody)
      /\ \A q \in Procs : cache'[q] = cache[q] \/ cache'[q] = node'
  BY <1>1, FailType, RestartedType
<1>3. TypeOK'
  BY <1>1, <1>2 DEF TypeOK
<1>4. ASSUME Exclusive
      PROVE  Exclusive'
  <2>1. Faithful'
    BY <1>2, <1>4, FaithfulStep DEF Exclusive, Faithful
  <2>2. Fade
    BY SameNodes
  <2>3. InStep' => InStep
    BY DEF InStep
  <2>4. ASSUME InStep', leader' # Nobody
        PROVE  WritesOf(leader)'
    <3>1. leader' = leader /\ leader \in Procs
      BY <1>2, <2>4
    <3>2. CASE leader = p
      BY <1>2, <3>1, <3>2 DEF WritesOf
    <3>3. CASE leader # p
      BY <1>2, <1>4, <2>2, <2>3, <2>4, <3>1, <3>3, WritesPersist DEF Exclusive
    <3> QED
      BY <3>2, <3>3
  <2> QED
    BY <1>4, <2>1, <2>2, <2>3, <2>4, FadeStep
<1> QED
  BY <1>3, <1>4 DEF Kept

\* What an evaluation does before its first write.
LEMMA ThinksStep ==
  ASSUME TypeOK, NEW p \in Procs, NEW m \in Process, leader = p,
         proc' = [proc EXCEPT ![p] = m],
         UNCHANGED <<node, cache, leader, resolves, owed, upsets>>,
         past' = past \/ past' = Seen(p),
         Exclusive /\ InStep' =>
           \/ m.todo = <<>>
           \/ \E n \in Nodes : m.todo = Begin(n) /\ \A k \in Nodes : ~node[k].marked
           \/ \E w \in Write : /\ w.kind # "mark" /\ m.todo = <<w>>
                               /\ w.kind \in {"cordon", "repair"} => Shown(w.on)
  PROVE  Kept
<1>1. /\ past' \in Past /\ past'.finished = past.finished /\ past'.cleared = past.cleared
      /\ past'.late = past.late /\ (past.blind => past'.blind)
  BY SeenType DEF TypeOK
<1>2. TypeOK'
  BY <1>1 DEF TypeOK
<1>3. proc'[p] = m /\ \A q \in Procs \ {p} : proc'[q] = proc[q]
  BY DEF TypeOK
<1>4. ASSUME Exclusive
      PROVE  Exclusive'
  <2>1. Faithful'
    BY <1>1, <1>4 DEF Exclusive, Faithful
  <2>2. Fade
    BY <1>1, SameNodes
  <2>3. InStep' => InStep
    BY <1>1 DEF InStep
  <2>4. ASSUME InStep'
        PROVE  WritesOf(p)'
    <3>1. CASE m.todo = <<>>
      BY <1>3, <3>1 DEF WritesOf
    <3>2. CASE \E n \in Nodes : m.todo = Begin(n) /\ \A k \in Nodes : ~node[k].marked
      BY <1>3, <3>2 DEF WritesOf, Begin
    <3>3. CASE \E w \in Write : /\ w.kind # "mark" /\ m.todo = <<w>>
                                /\ w.kind \in {"cordon", "repair"} => Shown(w.on)
      <4>1. PICK w \in Write : /\ w.kind # "mark" /\ m.todo = <<w>>
                               /\ w.kind \in {"cordon", "repair"} => Shown(w.on)
        BY <3>3
      <4>2. w.on \in Nodes
        BY DEF Write
      <4>3. w.kind \in {"cordon", "repair"} => Shown(w.on)'
        BY <2>2, <4>1, <4>2 DEF Fade
      <4> QED
        BY <1>3, <4>1, <4>3 DEF WritesOf
    <3> QED
      BY <1>4, <2>4, <3>1, <3>2, <3>3
  <2> QED
    BY <1>4, <2>1, <2>2, <2>3, <2>4, FadeStep
<1> QED
  BY <1>2, <1>4 DEF Kept

\* A drain is resumed where its marker is: a repair finds the marker.
LEMMA ResumeStep ==
  ASSUME TypeOK, NEW p \in Procs, Resume(p)
  PROVE  Kept
<1> DEFINE r == Reading(p)
           n == InProgress(p, r)
<1>1. /\ r \in [Nodes -> Node] /\ n \in Nodes /\ leader = p /\ proc[p] \in Process
      /\ UNCHANGED <<node, cache, leader, resolves, owed, upsets>> /\ past' = Seen(p)
  <2>1. r \in [Nodes -> Node]
    BY ReadingType
  <2>2. n \in Nodes \union {Nobody} /\ n # Nobody
    BY <2>1, InProgressType DEF Resume
  <2> QED
    BY <2>1, <2>2 DEF Resume, Starts, TypeOK
<1>2. r[n].exists => r[n].marked
  <2> DEFINE names == {k \in Nodes : r[k].marked}
  <2>1. names \in SUBSET Nodes /\ Marked(r) = FirstOf(names)
    BY DEF Marked
  <2>2. CASE Marked(r) # Nobody
    <3>1. n = Marked(r) /\ names # {}
      BY <2>1, <2>2 DEF InProgress, FirstOf
    <3> QED
      BY <2>1, <3>1, FirstOfType
  <2>3. CASE Marked(r) = Nobody
    <3> QED
      BY <1>1, <2>3, ControllerAssumption DEF InProgress
  <2> QED
    BY <2>2, <2>3
<1>3. ASSUME Exclusive, InStep', r[n].exists
      PROVE  Shown(n)
  <2>1. ~Seen(p).blind
    BY <1>1, <1>3 DEF InStep
  <2>2. node[n].marked \/ n \in past.finished
    BY <1>1, <1>2, <1>3, <2>1, SeenType
  <2> QED
    BY <1>3, <2>2 DEF Exclusive, Faithful, Shown
<1> HIDE DEF r, n
<1>4. CASE ~r[n].exists
  <2>1. proc' = [proc EXCEPT ![p] = Succeed(Completed(proc[p]))]
    BY <1>4 DEF Resume, r, n
  <2>2. /\ Succeed(Completed(proc[p])) \in Process
        /\ Succeed(Completed(proc[p])).todo = <<>>
    BY <1>1, MemoryType
  <2> QED
    BY <1>1, <2>1, <2>2, ThinksStep
<1>5. CASE r[n].exists
  <2>1. PICK steps \in StepsOf(n, r[n]) :
          proc' = [proc EXCEPT ![p] =
                    IF steps = <<>> THEN Succeed([proc[p] EXCEPT !.active = n])
                    ELSE [proc[p] EXCEPT !.active = n, !.todo = steps]]
    BY <1>5 DEF Resume, r, n
  <2>2. steps = <<>> \/ \E w \in Write : w.kind # "mark" /\ w.on = n /\ steps = <<w>>
    BY <1>1, StepsType
  <2>3. [proc[p] EXCEPT !.active = n] \in Process
    BY <1>1, MemoryType
  <2>4. CASE steps = <<>>
    <3>1. /\ Succeed([proc[p] EXCEPT !.active = n]) \in Process
          /\ Succeed([proc[p] EXCEPT !.active = n]).todo = <<>>
      BY <2>3, MemoryType
    <3> QED
      BY <1>1, <2>1, <2>4, <3>1, ThinksStep
  <2>5. CASE steps # <<>>
    <3>1. PICK w \in Write : w.kind # "mark" /\ w.on = n /\ steps = <<w>>
      BY <2>2, <2>5
    <3>2. steps \in Seq(Write)
      BY <3>1
    <3> DEFINE m == [proc[p] EXCEPT !.active = n, !.todo = steps]
    <3>3. m \in Process /\ m.todo = steps
      BY <1>1, <3>2 DEF Process
    <3>4. proc' = [proc EXCEPT ![p] = m]
      BY <2>1, <2>5
    <3> HIDE DEF m
    <3> QED
      BY <1>1, <1>3, <1>5, <3>1, <3>3, <3>4, ThinksStep
  <2> QED
    BY <2>4, <2>5
<1> QED
  BY <1>4, <1>5

LEMMA FreezeStep ==
  ASSUME TypeOK, NEW p \in Procs, Freeze(p)
  PROVE  Kept
<1> DEFINE r == Reading(p)
           n == InProgress(p, r)
           k == IF n # Nobody /\ r[n].exists THEN n ELSE Nobody
<1>1. k \in Nodes \union {Nobody}
  BY ReadingType, InProgressType
<1>2. /\ leader = p /\ proc[p] \in Process
      /\ proc' = [proc EXCEPT ![p] = Succeed([proc[p] EXCEPT !.active = k])]
      /\ UNCHANGED <<node, cache, leader, resolves, past, owed, upsets>>
  BY DEF Freeze, Starts, TypeOK
<1> HIDE DEF k
<1>3. [proc[p] EXCEPT !.active = k] \in Process
  BY <1>1, <1>2, MemoryType
<1>4. /\ Succeed([proc[p] EXCEPT !.active = k]) \in Process
      /\ Succeed([proc[p] EXCEPT !.active = k]).todo = <<>>
  BY <1>3, MemoryType
<1> QED
  BY <1>2, <1>4, ThinksStep

\* A decision is taken where no drain is found, and no mark was overlooked.
LEMMA DecideStep ==
  ASSUME TypeOK, NEW p \in Procs, Decide(p)
  PROVE  Kept
<1> DEFINE r == Reading(p)
           eligible == Eligible(p, r)
<1>1. /\ leader = p /\ proc[p] \in Process /\ r \in [Nodes -> Node]
      /\ InProgress(p, r) = Nobody /\ past' = Seen(p)
      /\ UNCHANGED <<node, cache, leader, resolves, owed, upsets>>
  BY ReadingType DEF Decide, Starts, TypeOK
<1>2. Nobody \in Nodes \union {Nobody}
  OBVIOUS
<1>3. CASE eligible = {}
  <2>1. proc' = [proc EXCEPT ![p] = Succeed([proc[p] EXCEPT !.active = Nobody])]
    BY <1>3 DEF Decide
  <2>2. [proc[p] EXCEPT !.active = Nobody] \in Process
    BY <1>1, <1>2, MemoryType
  <2>3. /\ Succeed([proc[p] EXCEPT !.active = Nobody]) \in Process
        /\ Succeed([proc[p] EXCEPT !.active = Nobody]).todo = <<>>
    BY <2>2, MemoryType
  <2> QED
    BY <1>1, <2>1, <2>3, ThinksStep
<1>4. CASE eligible # {}
  <2> DEFINE c == Chosen(eligible)
             m == [proc[p] EXCEPT !.active = Nobody, !.todo = Begin(c)]
  <2>1. eligible \in SUBSET Nodes
    BY DEF Eligible
  <2>2. c \in Nodes
    BY <1>4, <2>1, ChosenType
  <2>3. proc' = [proc EXCEPT ![p] = m]
    BY <1>4 DEF Decide
  <2> HIDE DEF c
  <2>4. Begin(c) \in Seq(Write)
    BY <2>2, BeginType
  <2>5. m \in Process /\ m.todo = Begin(c)
    BY <1>1, <2>4 DEF Process
  <2>6. \A n \in Nodes : ~r[n].marked
    BY <1>1, InProgressType
  <2>7. ASSUME Exclusive, InStep', NEW n \in Nodes
        PROVE  ~node[n].marked
    <3>1. ~Seen(p).blind
      BY <1>1, <2>7 DEF InStep
    <3>2. node[n].marked => r[n].exists
      BY <2>7 DEF Exclusive, Faithful, Reading
    <3> QED
      BY <2>6, <3>1, <3>2, SeenType
  <2> HIDE DEF m
  <2> QED
    BY <1>1, <2>2, <2>3, <2>5, <2>7, ThinksStep
<1> QED
  BY <1>3, <1>4

\* The leader's write lands: a mark finds no other one, a cordon finds its marker.
LEMMA LeaderWrites ==
  ASSUME TypeOK, Exclusive, InStep, NEW p \in Procs, leader = p, proc[p].todo # <<>>,
         node' = Patched(Head(proc[p].todo)), past'.cleared = past.cleared
  PROVE  /\ OneDrainAlways' /\ CordonsShown'
         /\ \/ Tail(proc[p].todo) = <<>>
            \/ \E w \in Write : /\ w.kind = "cordon" /\ Tail(proc[p].todo) = <<w>>
                                /\ Shown(w.on)'
<1> DEFINE w == Head(proc[p].todo)
<1>1. /\ proc[p].todo \in Seq(Write) /\ w \in Write /\ WritesOf(p) /\ OneDrainAlways
      /\ CordonsShown
  BY ControllerAssumption DEF TypeOK, Process, Exclusive
<1>2. /\ node' \in [Nodes -> Node] /\ w.on \in Nodes
      /\ \A n \in Nodes \ {w.on} : node'[n] = node[n]
      /\ node'[w.on].exists = node[w.on].exists
      /\ w.kind = "mark" => node'[w.on].marked
      /\ w.kind \in {"cordon", "repair"} => node'[w.on].marked = node[w.on].marked
      /\ w.kind = "evict" => /\ node'[w.on].marked = node[w.on].marked
                             /\ node'[w.on].cordoned = node[w.on].cordoned
      /\ w.kind = "handback" => ~node'[w.on].marked /\ ~node'[w.on].cordoned
  BY <1>1, PatchedType
<1>3. \A n \in Nodes \ {w.on} : Shown(n) => Shown(n)'
  BY <1>2 DEF Shown
<1> PICK k \in Nodes : k = w.on
  BY <1>2
<1>4. CASE \E n \in Nodes : proc[p].todo = Begin(n) /\ \A m \in Nodes : ~node[m].marked
  <2>1. PICK n \in Nodes : proc[p].todo = Begin(n) /\ \A m \in Nodes : ~node[m].marked
    BY <1>4
  <2>2. w.kind = "mark" /\ w.on = n
    BY <2>1, BeginType
  <2>3. PICK v \in Write : v.kind = "cordon" /\ v.on = n /\ Tail(proc[p].todo) = <<v>>
    BY <2>1, BeginType
  <2>4. Shown(n)'
    BY <1>2, <2>2 DEF Shown
  <2>5. OneDrainAlways'
    BY <1>2, <2>1, <2>2 DEF OneDrainAlways
  <2>6. CordonsShown'
    BY <1>1, <1>2, <1>3, <2>2, <2>4 DEF CordonsShown
  <2> QED
    BY <2>3, <2>4, <2>5, <2>6
<1>5. CASE \E v \in Write : /\ v.kind # "mark" /\ proc[p].todo = <<v>>
                            /\ v.kind \in {"cordon", "repair"} => Shown(v.on)
  <2>1. /\ w.kind # "mark" /\ Tail(proc[p].todo) = <<>>
        /\ w.kind \in {"cordon", "repair"} => Shown(w.on)
    BY <1>5
  <2>2. w.kind \in {"cordon", "repair", "evict", "handback"}
    BY <1>1, <2>1 DEF Write
  <2>3. node'[w.on].marked => node[w.on].marked
    BY <1>2, <2>2
  <2>4. OneDrainAlways'
    BY <1>1, <1>2, <2>3 DEF OneDrainAlways
  <2>5. node'[k].cordoned => Shown(k)'
    <3>1. CASE w.kind \in {"cordon", "repair"}
      BY <1>2, <2>1, <3>1 DEF Shown
    <3>2. CASE w.kind = "evict"
      BY <1>1, <1>2, <3>2 DEF Shown, CordonsShown
    <3>3. CASE w.kind = "handback"
      BY <1>2, <3>3
    <3> QED
      BY <2>2, <3>1, <3>2, <3>3
  <2>6. CordonsShown'
    BY <1>1, <1>2, <1>3, <2>5 DEF CordonsShown
  <2> QED
    BY <2>1, <2>4, <2>6
<1> QED
  BY <1>1, <1>4, <1>5 DEF WritesOf

\* A patch makes no node come or go, whoever sends it.
LEMMA PatchFaithful ==
  ASSUME TypeOK, Faithful, NEW w \in Write, node[w.on].exists, node' = Patched(w),
         past'.finished = past.finished,
         \A q \in Procs : cache'[q] = cache[q] \/ cache'[q] = node'
  PROVE  Faithful'
<1>1. /\ w.on \in Nodes /\ \A n \in Nodes \ {w.on} : node'[n] = node[n]
      /\ node'[w.on].exists = node[w.on].exists
  BY PatchedType
<1>2. \A n \in Nodes : node'[n].exists = node[n].exists
  BY <1>1
<1>3. \A n \in Nodes : ~node'[n].exists => ~node'[n].marked /\ ~node'[n].cordoned
  BY <1>1, <1>2 DEF Faithful
<1>4. \A n \in past'.finished : ~node'[n].exists
  BY <1>2 DEF Faithful, TypeOK, Past
<1> QED
  BY <1>2, <1>3, <1>4, FaithfulStep

LEMMA LandsStep ==
  ASSUME TypeOK, NEW p \in Procs, Lands(p)
  PROVE  Kept
<1> DEFINE w == Head(proc[p].todo)
           rest == Tail(proc[p].todo)
           m == IF rest # <<>> THEN [proc[p] EXCEPT !.todo = rest]
                ELSE Succeed(Remembered(proc[p], w))
<1>1. /\ proc[p] \in Process /\ proc[p].todo \in Seq(Write) /\ proc[p].todo # <<>>
      /\ node[w.on].exists /\ node' = Patched(w) /\ proc' = [proc EXCEPT ![p] = m]
      /\ past' = Written(p) /\ UNCHANGED <<cache, leader, resolves, owed, upsets>>
  BY DEF Lands, TypeOK, Process
<1>2. w \in Write /\ rest \in Seq(Write)
  BY <1>1
<1>3. m \in Process /\ m.todo = rest
  <2>1. CASE rest # <<>>
    BY <1>1, <1>2, <2>1, MemoryType
  <2>2. CASE rest = <<>>
    <3>1. w.on \in Nodes \union {Nobody}
      BY <1>2 DEF Write
    <3>2. Remembered(proc[p], w) \in Process
      BY <1>1, <3>1, MemoryType DEF Remembered
    <3> QED
      BY <2>2, <3>2, MemoryType
  <2> QED
    BY <2>1, <2>2
<1> HIDE DEF m
<1>4. /\ node' \in [Nodes -> Node] /\ past' \in Past
      /\ past'.finished = past.finished /\ past'.cleared = past.cleared
      /\ InStep' => InStep /\ leader = p
  BY <1>1, <1>2, PatchedType, WrittenType DEF InStep
<1>5. TypeOK'
  BY <1>1, <1>3, <1>4 DEF TypeOK
<1>6. proc'[p].todo = rest
  BY <1>1, <1>3 DEF TypeOK
<1>7. ASSUME Exclusive
      PROVE  Exclusive'
  <2>1. Faithful'
    BY <1>1, <1>2, <1>4, <1>7, PatchFaithful DEF Exclusive
  <2>2. ASSUME InStep'
        PROVE  OneDrainAlways' /\ CordonsShown' /\ WritesOf(leader)'
    <3>1. /\ OneDrainAlways' /\ CordonsShown'
          /\ \/ rest = <<>>
             \/ \E v \in Write : v.kind = "cordon" /\ rest = <<v>> /\ Shown(v.on)'
      BY <1>1, <1>4, <1>7, <2>2, LeaderWrites
    <3>2. leader' = p
      BY <1>1, <1>4, <2>2
    <3>3. CASE rest = <<>>
      BY <1>6, <3>1, <3>2, <3>3 DEF WritesOf
    <3>4. CASE \E v \in Write : v.kind = "cordon" /\ rest = <<v>> /\ Shown(v.on)'
      <4>1. \E v \in Write : /\ v.kind # "mark" /\ proc'[p].todo = <<v>>
                             /\ v.kind \in {"cordon", "repair"} => Shown(v.on)'
        BY <1>6, <3>4
      <4> QED
        BY <3>1, <3>2, <4>1 DEF WritesOf
    <3> QED
      BY <3>1, <3>3, <3>4
  <2> QED
    BY <2>1, <2>2 DEF Exclusive
<1> QED
  BY <1>5, <1>7 DEF Kept

\* A write whose answer is lost may be a mark, and the process forgets the rest of it.
LEMMA AnswerLostStep ==
  ASSUME TypeOK, NEW p \in Procs, AnswerLost(p)
  PROVE  Kept
<1> DEFINE w == Head(proc[p].todo)
<1>1. /\ proc[p].todo \in Seq(Write) /\ proc[p].todo # <<>> /\ node[w.on].exists
      /\ node' = Patched(w) /\ past' = Unanswered(p, w) /\ Fail(p)
      /\ UNCHANGED <<resolves, upsets>>
  BY DEF AnswerLost, TypeOK, Process
<1>2. w \in Write
  BY <1>1
<1>3. /\ node' \in [Nodes -> Node] /\ past' \in Past
      /\ past'.finished = past.finished /\ past'.cleared = past.cleared
      /\ InStep' => InStep /\ leader = p
  BY <1>1, <1>2, PatchedType, WrittenType DEF InStep
<1>4. /\ proc' \in [Procs -> Process] /\ cache' \in [Procs -> [Nodes -> Node]]
      /\ leader' \in Procs \union {Nobody} /\ owed' \in [Procs -> 0..Cooldown]
      /\ proc'[p].todo = <<>>
      /\ leader' = leader \/ (leader = p /\ leader' = Nobody)
      /\ \A q \in Procs : cache'[q] = cache[q] \/ cache'[q] = node'
  BY <1>1, <1>3, FailType
<1>5. TypeOK'
  BY <1>1, <1>3, <1>4 DEF TypeOK
<1>6. ASSUME Exclusive
      PROVE  Exclusive'
  <2>1. Faithful'
    BY <1>1, <1>2, <1>3, <1>4, <1>6, PatchFaithful DEF Exclusive
  <2>2. ASSUME InStep'
        PROVE  /\ OneDrainAlways' /\ CordonsShown'
               /\ leader' # Nobody => WritesOf(leader)'
    <3>1. OneDrainAlways' /\ CordonsShown'
      BY <1>1, <1>3, <1>6, <2>2, LeaderWrites
    <3>2. leader' # Nobody => leader' = p
      BY <1>3, <1>4, <2>2
    <3> QED
      BY <1>4, <3>1, <3>2 DEF WritesOf
  <2> QED
    BY <2>1, <2>2 DEF Exclusive
<1> QED
  BY <1>5, <1>6 DEF Kept

\* Every step of an evaluation.
LEMMA EvaluationStep ==
  ASSUME TypeOK, NEW p \in Procs, Evaluation(p)
  PROVE  Kept
<1>1. proc[p].dryRun \in BOOLEAN
  BY DEF TypeOK, Process
<1>2. CASE ReadFails(p)
  <2>1. UNCHANGED <<node, resolves, past, upsets>> /\ Fail(p)
    BY <1>2 DEF ReadFails
  <2> QED
    BY <2>1, EndedStep DEF TypeOK
<1>3. CASE RefuseConfig(p)
  <2>1. UNCHANGED <<node, resolves, past, upsets>> /\ Restarted(p, proc[p].dryRun)
    BY <1>3 DEF RefuseConfig
  <2> QED
    BY <1>1, <2>1, EndedStep DEF TypeOK
<1>4. CASE Bounces(p)
  <2>1. UNCHANGED <<node, resolves, past, upsets>> /\ Fail(p)
    BY <1>4 DEF Bounces
  <2> QED
    BY <2>1, EndedStep DEF TypeOK
<1> QED
  BY <1>2, <1>3, <1>4, ResumeStep, FreezeStep, DecideStep, LandsStep, AnswerLostStep
     DEF Evaluation

-------------------------------------------------------------------------------
(***************************************************************************)
(* Around the evaluations.                                                 *)
(***************************************************************************)

\* One node changes, for the less.
LEMMA NodeStep ==
  ASSUME TypeOK, NEW n \in Nodes, NEW v \in Node,
         v.marked => node[n].marked, v.cordoned => node[n].cordoned,
         v.exists => node[n].exists, ~v.exists => ~v.marked /\ ~v.cordoned,
         node[n].marked => v.marked \/ n \in past'.cleared \/ ~v.exists,
         node' = [node EXCEPT ![n] = v], UNCHANGED <<cache, leader, proc, resolves>>,
         past' \in Past, past.cleared \subseteq past'.cleared,
         \A k \in past'.finished : k \in past.finished \/ (k = n /\ ~v.exists),
         past'.late = past.late, past'.blind = past.blind,
         owed' \in [Procs -> 0..Cooldown], upsets' \in 0..MaxUpsets
  PROVE  Kept
<1>1. node' \in [Nodes -> Node] /\ node'[n] = v /\ \A k \in Nodes \ {n} : node'[k] = node[k]
  BY DEF TypeOK
<1>2. TypeOK'
  BY <1>1 DEF TypeOK
<1>3. Fade
  BY <1>1 DEF Fade, Shown
<1>4. ASSUME Exclusive
      PROVE  Exclusive'
  <2>1. Faithful
    BY <1>4 DEF Exclusive
  <2>2. \A k \in Nodes : node'[k].exists => node[k].exists
    BY <1>1
  <2>3. \A k \in Nodes : ~node'[k].exists => ~node'[k].marked /\ ~node'[k].cordoned
    BY <1>1, <2>1 DEF Faithful
  <2>4. \A k \in past'.finished : ~node'[k].exists
    BY <1>1, <2>1, <2>2 DEF Faithful, Past
  <2>5. Faithful'
    BY <2>1, <2>2, <2>3, <2>4, FaithfulStep
  <2> QED
    BY <1>3, <1>4, <2>5, ExclusiveAround DEF InStep
<1> QED
  BY <1>2, <1>4 DEF Kept

LEMMA UpsetType ==
  ASSUME TypeOK, Upset
  PROVE  upsets' \in 0..MaxUpsets
  BY ControllerAssumption DEF TypeOK, Upset

\* The nodes and their marks stay.
LEMMA QuietStep ==
  ASSUME TypeOK, TypeOK', leader' = leader, \A q \in Procs : proc'[q].todo = proc[q].todo,
         \A n \in Nodes : /\ node'[n].exists = node[n].exists
                          /\ node'[n].marked = node[n].marked
                          /\ node'[n].cordoned = node[n].cordoned,
         past' = past,
         \A q \in Procs : \/ \A n \in Nodes : cache'[q][n].exists = cache[q][n].exists
                          \/ cache'[q] = node'
  PROVE  Kept
<1>1. Fade
  BY DEF Fade, Shown
<1>2. ASSUME Exclusive
      PROVE  Exclusive'
  <2>1. Faithful
    BY <1>2 DEF Exclusive
  <2>2. \A n \in Nodes : ~node'[n].exists => ~node'[n].marked /\ ~node'[n].cordoned
    BY <2>1 DEF Faithful
  <2>3. \A n \in past'.finished : ~node'[n].exists
    BY <2>1 DEF Faithful, TypeOK, Past
  <2>4. Faithful'
    BY <2>1, <2>2, <2>3, FaithfulStep
  <2> QED
    BY <1>1, <1>2, <2>4, ExclusiveAround DEF InStep
<1> QED
  BY <1>2 DEF Kept

\* An interval passes: what is left of every wait shrinks.
LEMMA TickStep ==
  ASSUME TypeOK, Tick
  PROVE  Kept
<1>1. ASSUME NEW v \in Node
      PROVE  /\ Aged(v) \in Node /\ Aged(v).exists = v.exists
             /\ Aged(v).marked = v.marked /\ Aged(v).cordoned = v.cordoned
  <2> DEFINE quiet == IF v.marked /\ v.quiet <= Patience THEN v.quiet + 1 ELSE v.quiet
             rest == IF v.rest > 0 THEN v.rest - 1 ELSE 0
  <2>1. quiet \in 0..(Patience + 1) /\ rest \in 0..Rest
    BY ControllerAssumption DEF Node
  <2>2. Aged(v) = [v EXCEPT !.quiet = quiet, !.rest = rest]
    BY DEF Aged
  <2> HIDE DEF quiet, rest
  <2> QED
    BY <2>1, <2>2 DEF Node
<1>2. node' = [n \in Nodes |-> Aged(node[n])]
  BY DEF Tick
<1>3. /\ node' \in [Nodes -> Node]
      /\ \A n \in Nodes : /\ node'[n].exists = node[n].exists
                          /\ node'[n].marked = node[n].marked
                          /\ node'[n].cordoned = node[n].cordoned
  BY <1>1, <1>2 DEF TypeOK
<1>4. /\ cache' \in [Procs -> [Nodes -> Node]]
      /\ \A q \in Procs : \A n \in Nodes : cache'[q][n].exists = cache[q][n].exists
  <2>1. cache' = [q \in Procs |->
                   IF Lagging THEN [n \in Nodes |-> Aged(cache[q][n])] ELSE cache[q]]
    BY DEF Tick
  <2>2. \A q \in Procs : cache[q] \in [Nodes -> Node]
    BY DEF TypeOK
  <2>3. \A q \in Procs :
          /\ [n \in Nodes |-> Aged(cache[q][n])] \in [Nodes -> Node]
          /\ \A n \in Nodes : Aged(cache[q][n]).exists = cache[q][n].exists
    BY <1>1, <2>2
  <2> QED
    BY <2>1, <2>2, <2>3
<1>5. proc' \in [Procs -> Process] /\ \A q \in Procs : proc'[q].todo = proc[q].todo
  <2> DEFINE less(q) == IF proc[q].cooling > 0 THEN proc[q].cooling - 1 ELSE 0
             next(q) == [proc[q] EXCEPT !.due = TRUE, !.cooling = less(q)]
  <2>1. ASSUME NEW q \in Procs
        PROVE  next(q) \in Process /\ next(q).todo = proc[q].todo
    <3>1. proc[q] \in Process
      BY DEF TypeOK
    <3>2. less(q) \in 0..Cooldown
      BY <3>1, ControllerAssumption DEF Process
    <3> HIDE DEF less
    <3> QED
      BY <3>1, <3>2 DEF Process
  <2>2. proc' = [q \in Procs |-> next(q)]
    BY DEF Tick
  <2> HIDE DEF next
  <2> QED
    BY <2>1, <2>2
<1>6. owed' \in [Procs -> 0..Cooldown]
  <2>1. \A q \in Procs : (IF owed[q] > 0 THEN owed[q] - 1 ELSE 0) \in 0..Cooldown
    BY ControllerAssumption DEF TypeOK
  <2>2. owed' = [q \in Procs |-> IF owed[q] > 0 THEN owed[q] - 1 ELSE 0]
    BY DEF Tick
  <2> QED
    BY <2>1, <2>2
<1>7. UNCHANGED <<leader, resolves, past, upsets>>
  BY DEF Tick
<1>8. TypeOK'
  BY <1>3, <1>4, <1>5, <1>6, <1>7 DEF TypeOK
<1> QED
  BY <1>3, <1>4, <1>5, <1>7, <1>8, QuietStep

\* Restarts, the lease, the autoscaler, the operator and the clock.
LEMMA SurroundingsStep ==
  ASSUME TypeOK, Surroundings
  PROVE  Kept
<1>1. ASSUME NEW p \in Procs, Acquire(p)
      PROVE  Kept
  <2>1. /\ leader' = p /\ proc[p].todo = <<>>
        /\ UNCHANGED <<node, cache, proc, resolves, past, owed, upsets>>
    BY <1>1 DEF Acquire, Remembers
  <2>2. TypeOK'
    BY <2>1 DEF TypeOK
  <2>3. ASSUME Exclusive
        PROVE  Exclusive'
    <3>1. Faithful' /\ Fade /\ (InStep' => InStep)
      BY <2>1, <2>3, SameNodes DEF Exclusive, Faithful, InStep
    <3>2. WritesOf(leader)'
      BY <2>1 DEF WritesOf
    <3> QED
      BY <2>3, <3>1, <3>2, FadeStep
  <2> QED
    BY <2>2, <2>3 DEF Kept
<1>2. ASSUME NEW p \in Procs, Restart(p)
      PROVE  Kept
  <2>1. /\ UNCHANGED <<node, resolves, past>> /\ upsets' \in 0..MaxUpsets
        /\ \E dry \in BOOLEAN : Restarted(p, dry)
    BY <1>2, UpsetType DEF Restart
  <2> QED
    BY <2>1, EndedStep
<1>3. ASSUME NEW p \in Procs, Pause(p)
      PROVE  Kept
  <2>1. /\ leader' = Nobody /\ upsets' \in 0..MaxUpsets
        /\ UNCHANGED <<node, cache, proc, resolves, past, owed>>
    BY <1>3, UpsetType DEF Pause
  <2>2. TypeOK'
    BY <2>1 DEF TypeOK
  <2>3. ASSUME Exclusive
        PROVE  Exclusive'
    <3>1. Faithful' /\ Fade /\ (InStep' => InStep)
      BY <2>1, <2>3, SameNodes DEF Exclusive, Faithful, InStep
    <3> QED
      BY <2>1, <2>3, <3>1, FadeStep
  <2> QED
    BY <2>2, <2>3 DEF Kept
<1>4. ASSUME NEW p \in Procs, Notice(p)
      PROVE  Kept
  <2>1. /\ UNCHANGED <<node, resolves, past, upsets>> /\ Restarted(p, proc[p].dryRun)
        /\ proc[p].dryRun \in BOOLEAN
    BY <1>4 DEF Notice, TypeOK, Process
  <2> QED
    BY <2>1, EndedStep DEF TypeOK
<1>5. ASSUME NEW p \in Procs, Sync(p)
      PROVE  Kept
  <2>1. /\ cache' = [cache EXCEPT ![p] = node] /\ UNCHANGED <<node, leader, proc, past>>
        /\ UNCHANGED <<resolves, owed, upsets>>
    BY <1>5 DEF Sync
  <2>2. TypeOK'
    BY <2>1 DEF TypeOK
  <2>3. \A q \in Procs : cache'[q] = cache[q] \/ cache'[q] = node'
    BY <2>1 DEF TypeOK
  <2> QED
    BY <2>1, <2>2, <2>3, QuietStep
<1>6. ASSUME NEW n \in Nodes, RemoveNode(n)
      PROVE  Kept
  <2> DEFINE v == [exists |-> FALSE, marked |-> FALSE, cordoned |-> FALSE, left |-> 0,
                   quiet |-> 0, rest |-> 0]
             done == IF node[n].marked THEN past.finished \union {n} ELSE past.finished
  <2>1. v \in Node /\ ~v.marked /\ ~v.cordoned /\ ~v.exists /\ Cooldown \in 0..Cooldown
    BY ControllerAssumption DEF Node
  <2>2. node' = [node EXCEPT ![n] = v] /\ UNCHANGED <<cache, leader, proc, resolves, upsets>>
        /\ past' = [past EXCEPT !.finished = done]
    BY <1>6 DEF RemoveNode
  <2>3. past \in Past /\ done \in SUBSET Nodes
    BY DEF TypeOK, Past
  <2>4. \A k \in done : k \in past.finished \/ k = n
    OBVIOUS
  <2> HIDE DEF done
  <2>5. /\ past' \in Past /\ past'.finished = done /\ past'.cleared = past.cleared
        /\ past'.late = past.late /\ past'.blind = past.blind
    BY <2>2, <2>3 DEF Past
  <2>6. owed' \in [Procs -> 0..Cooldown]
    BY <1>6, <2>1 DEF RemoveNode, TypeOK
  <2>7. upsets' \in 0..MaxUpsets
    BY <2>2 DEF TypeOK
  <2> HIDE DEF v
  <2> QED
    BY <2>1, <2>2, <2>4, <2>5, <2>6, <2>7, NodeStep
<1>7. ASSUME NEW n \in Nodes, Empties(n)
      PROVE  Kept
  <2> DEFINE v == [node[n] EXCEPT !.left = 0]
  <2>1. node' = [node EXCEPT ![n] = v] /\ upsets' \in 0..MaxUpsets /\ node[n].exists
          /\ UNCHANGED <<cache, leader, proc, resolves, past, owed>>
    BY <1>7, UpsetType DEF Empties
  <2>2. /\ v \in Node /\ v.marked = node[n].marked /\ v.cordoned = node[n].cordoned
        /\ v.exists = node[n].exists
    <3>1. node[n] \in Node /\ 0 \in 0..Pods
      BY ControllerAssumption DEF TypeOK
    <3> QED
      BY <3>1 DEF Node
  <2>3. past' \in Past /\ owed' \in [Procs -> 0..Cooldown]
    BY <2>1 DEF TypeOK
  <2> HIDE DEF v
  <2> QED
    BY <2>1, <2>2, <2>3, NodeStep
<1>8. ASSUME NEW n \in Nodes, ClearMarker(n)
      PROVE  Kept
  <2> DEFINE v == [node[n] EXCEPT !.marked = FALSE, !.cordoned = FALSE, !.quiet = 0]
             cleared == past.cleared \union {n}
  <2>1. node' = [node EXCEPT ![n] = v] /\ upsets' \in 0..MaxUpsets
          /\ UNCHANGED <<cache, leader, proc, resolves, owed>>
          /\ past' = [past EXCEPT !.cleared = cleared]
    BY <1>8, UpsetType DEF ClearMarker
  <2>2. v \in Node /\ ~v.marked /\ ~v.cordoned /\ v.exists = node[n].exists
    <3>1. node[n] \in Node /\ 0 \in 0..(Patience + 1)
      BY ControllerAssumption DEF TypeOK
    <3> QED
      BY <3>1 DEF Node
  <2>3. past \in Past /\ cleared \in SUBSET Nodes
    BY DEF TypeOK, Past
  <2>4. n \in cleared /\ past.cleared \subseteq cleared
    OBVIOUS
  <2> HIDE DEF cleared
  <2>5. /\ past' \in Past /\ past'.finished = past.finished /\ past'.cleared = cleared
        /\ past'.late = past.late /\ past'.blind = past.blind
    BY <2>1, <2>3 DEF Past
  <2>6. owed' \in [Procs -> 0..Cooldown]
    BY <2>1 DEF TypeOK
  <2> HIDE DEF v
  <2> QED
    BY <2>1, <2>2, <2>4, <2>5, <2>6, NodeStep
<1>9. CASE PoolVanishes
  <2>1. /\ resolves' = FALSE /\ upsets' \in 0..MaxUpsets
        /\ UNCHANGED <<node, cache, leader, proc, past, owed>>
    BY <1>9, UpsetType DEF PoolVanishes
  <2>2. resolves' \in BOOLEAN
    BY <2>1, Zenon
  <2>3. TypeOK'
    BY <2>1, <2>2 DEF TypeOK
  <2> QED
    BY <2>1, <2>3, QuietStep
<1> QED
  BY <1>1, <1>2, <1>3, <1>4, <1>5, <1>6, <1>7, <1>8, <1>9, TickStep DEF Surroundings

-------------------------------------------------------------------------------
(***************************************************************************)
(* What the leader remembers of its drains.                                *)
(***************************************************************************)

\* A drain binpack has seen: its marker is on the node, or went in one of the three
\* ways that leave a trace.
Known(n) ==
  node[n].marked \/ n \in past.finished \/ n \in past.cleared \/ n \in past.unheard

\* A process plans a drain it does not yet remember, or goes on with the one it does.
Planned(p) ==
  \/ proc[p].todo = <<>>
  \/ proc[p].active = Nobody /\ \E n \in Nodes : proc[p].todo = Begin(n)
  \/ proc[p].active = Nobody /\ \E w \in Write : w.kind = "cordon" /\ proc[p].todo = <<w>>
  \/ \E w \in Write : /\ w.kind \in {"repair", "evict", "handback"}
                      /\ proc[p].todo = <<w>> /\ w.on = proc[p].active

\* More of a cooldown is due than the process keeps.
Owing(p) == ~proc[p].dryRun /\ owed[p] > proc[p].cooling

\* It has a drain to find out about, that has finished; no other has begun since; and a
\* reading from before that one shows a mark too few.
Debt(p) ==
  Owing(p) =>
    /\ proc[p].active \in past.finished
    /\ leader = p =>
         /\ \A m \in Nodes : ~node[m].marked
         /\ \A m \in Nodes \ {proc[p].active} :
              Reading(p)[m].marked => /\ Reading(p)[proc[p].active].exists
                                      /\ ~Reading(p)[proc[p].active].marked

\* Every reading is of a time with one drain, of a node that was there.
OneSeen(p) ==
  /\ \A m, n \in Nodes : Reading(p)[m].marked /\ Reading(p)[n].marked => m = n
  /\ \A n \in Nodes : Reading(p)[n].marked => Reading(p)[n].exists

\* The leader's active node is that of a known drain, and it begins one when it owes
\* nothing.
KeepsTrack(p) ==
  /\ ~proc[p].dryRun /\ proc[p].active # Nobody => Known(proc[p].active)
  /\ \A n \in Nodes : proc[p].todo = Begin(n) => owed[p] = 0
  /\ \A w \in Write : w.kind = "cordon" /\ proc[p].todo = <<w>> => Known(w.on)

Remembering(p) ==
  /\ Planned(p)
  /\ InStep => Debt(p) /\ OneSeen(p) /\ (leader = p => KeepsTrack(p))

Memory == \A p \in Procs : Remembering(p)

\* The parts of a memory that the operations on it leave alone.
LEMMA MemoryFields ==
  ASSUME NEW m \in Process
  PROVE  /\ Succeed(m).active = m.active /\ Succeed(m).cooling = m.cooling
         /\ Succeed(m).dryRun = m.dryRun
         /\ Completed(m).active = Nobody /\ Completed(m).cooling = Cooldown
         /\ Completed(m).dryRun = m.dryRun
         /\ Abandoned(m).active = Nobody /\ Abandoned(m).cooling = m.cooling
         /\ Abandoned(m).dryRun = m.dryRun /\ Abandoned(m).todo = m.todo
         /\ \A n \in Nodes \union {Nobody} :
              /\ [m EXCEPT !.active = n].active = n
              /\ [m EXCEPT !.active = n].cooling = m.cooling
              /\ [m EXCEPT !.active = n].dryRun = m.dryRun
         /\ \A t \in Seq(Write) : /\ [m EXCEPT !.todo = t].active = m.active
                                  /\ [m EXCEPT !.todo = t].cooling = m.cooling
                                  /\ [m EXCEPT !.todo = t].dryRun = m.dryRun
<1>1. /\ Succeed(m).active = m.active /\ Succeed(m).cooling = m.cooling
      /\ Succeed(m).dryRun = m.dryRun
  BY DEF Succeed, Process
<1>2. /\ Completed(m).active = Nobody /\ Completed(m).cooling = Cooldown
      /\ Completed(m).dryRun = m.dryRun
  BY DEF Completed, Process
<1>3. /\ Abandoned(m).active = Nobody /\ Abandoned(m).cooling = m.cooling
      /\ Abandoned(m).dryRun = m.dryRun /\ Abandoned(m).todo = m.todo
  BY DEF Abandoned, Process
<1>4. \A n \in Nodes \union {Nobody} :
        /\ [m EXCEPT !.active = n].active = n
        /\ [m EXCEPT !.active = n].cooling = m.cooling
        /\ [m EXCEPT !.active = n].dryRun = m.dryRun
  BY DEF Process
<1>5. \A t \in Seq(Write) : /\ [m EXCEPT !.todo = t].active = m.active
                            /\ [m EXCEPT !.todo = t].cooling = m.cooling
                            /\ [m EXCEPT !.todo = t].dryRun = m.dryRun
  BY DEF Process
<1> QED
  BY <1>1, <1>2, <1>3, <1>4, <1>5

\* Where nothing is owed any more, or a reading is the cluster's, little is left to ask.
LEMMA SeesOne ==
  ASSUME NEW q \in Procs, Exclusive', InStep', InStep => OneSeen(q), InStep,
         \/ Reading(q)' = node'
         \/ \A n \in Nodes : /\ Reading(q)'[n].marked = Reading(q)[n].marked
                             /\ Reading(q)'[n].exists = Reading(q)[n].exists
  PROVE  OneSeen(q)'
  BY DEF OneSeen, Exclusive, Faithful, OneDrainAlways

\* A process whose memory a step leaves as it is, or only stops writing.
LEMMA BystanderStep ==
  ASSUME TypeOK, Exclusive, Exclusive', NEW q \in Procs, Remembering(q), InStep' => InStep,
         proc'[q].todo = proc[q].todo \/ proc'[q].todo = <<>>,
         proc'[q].active = proc[q].active, proc'[q].dryRun = proc[q].dryRun,
         Owing(q)' => Owing(q), owed[q] = 0 => owed'[q] = 0, leader' = q => leader = q,
         past.finished \subseteq past'.finished,
         Lagging => \A n \in Nodes : /\ cache'[q][n].marked = cache[q][n].marked
                                     /\ cache'[q][n].exists = cache[q][n].exists,
         InStep' /\ leader' = q => \A n \in Nodes :
           /\ Owing(q) /\ node'[n].marked => node[n].marked
           /\ Known(n) => Known(n)'
  PROVE  Remembering(q)'
<1>1. Planned(q)'
  BY DEF Remembering, Planned, Begin
<1> SUFFICES ASSUME InStep'
             PROVE  Debt(q)' /\ OneSeen(q)' /\ (leader' = q => KeepsTrack(q)')
  BY <1>1 DEF Remembering
<1>2. /\ InStep /\ Debt(q) /\ OneSeen(q) /\ (leader = q => KeepsTrack(q))
      /\ OneDrainAlways' /\ past.finished \in SUBSET Nodes
      /\ proc[q].active \in Nodes \union {Nobody}
  BY DEF Remembering, Exclusive, TypeOK, Past, Process
<1>3. OneSeen(q)'
  <2>1. CASE Lagging
    BY <1>2, <2>1, SeesOne DEF Reading
  <2>2. CASE ~Lagging
    BY <1>2, <2>2, SeesOne DEF Reading
  <2> QED
    BY <2>1, <2>2
<1>4. ASSUME Owing(q)'
      PROVE  /\ proc'[q].active \in past'.finished
             /\ leader' = q =>
                  /\ \A m \in Nodes : ~node'[m].marked
                  /\ \A m \in Nodes \ {proc'[q].active} :
                       Reading(q)'[m].marked => /\ Reading(q)'[proc'[q].active].exists
                                                /\ ~Reading(q)'[proc'[q].active].marked
  <2>1. Owing(q) /\ proc[q].active \in past.finished
    BY <1>2, <1>4 DEF Debt
  <2>2. ASSUME leader' = q
        PROVE  \A m \in Nodes : ~node'[m].marked
    BY <1>2, <2>1, <2>2 DEF Debt
  <2>3. ASSUME leader' = q, NEW m \in Nodes \ {proc[q].active}, Reading(q)'[m].marked
        PROVE  /\ Reading(q)'[proc[q].active].exists
               /\ ~Reading(q)'[proc[q].active].marked
    <3>1. Lagging
      BY <2>2, <2>3 DEF Reading
    <3>2. /\ cache[q][m].marked /\ Reading(q) = cache[q] /\ Reading(q)' = cache'[q]
          /\ proc[q].active \in Nodes
      BY <1>2, <2>1, <2>3, <3>1 DEF Reading
    <3>3. Reading(q)[proc[q].active].exists /\ ~Reading(q)[proc[q].active].marked
      BY <1>2, <2>1, <2>3, <3>2 DEF Debt
    <3> QED
      BY <3>1, <3>2, <3>3
  <2> QED
    BY <2>1, <2>2, <2>3
<1>5. ASSUME leader' = q
      PROVE  KeepsTrack(q)'
  <2>1. KeepsTrack(q)
    BY <1>2, <1>5
  <2>2. ~proc'[q].dryRun /\ proc'[q].active # Nobody => Known(proc[q].active)'
    BY <1>2, <1>5, <2>1 DEF KeepsTrack
  <2>3. ASSUME NEW n \in Nodes, proc'[q].todo = Begin(n)
        PROVE  owed'[q] = 0
    BY <2>1, <2>3, BeginType DEF KeepsTrack
  <2>4. ASSUME NEW w \in Write, w.kind = "cordon", proc'[q].todo = <<w>>
        PROVE  Known(w.on)'
    <3>1. w.on \in Nodes /\ Known(w.on)
      BY <2>1, <2>4 DEF KeepsTrack, Write
    <3> QED
      BY <1>5, <3>1
  <2> QED
    BY <2>2, <2>3, <2>4 DEF KeepsTrack, Begin
<1> QED
  BY <1>3, <1>4, <1>5 DEF Debt

\* A process that has just begun remembers nothing and owes nothing.
LEMMA FreshStep ==
  ASSUME TypeOK, Exclusive', NEW p \in Procs, NEW dry \in BOOLEAN, Restarted(p, dry)
  PROVE  Remembering(p)'
<1>1. /\ proc'[p] = Fresh(dry) /\ owed'[p] = 0
      /\ Lagging => cache'[p] = node'
  BY DEF Restarted, TypeOK
<1>2. /\ proc'[p].todo = <<>> /\ proc'[p].active = Nobody /\ proc'[p].cooling = 0
  BY <1>1 DEF Fresh
<1>3. Planned(p)' /\ Debt(p)'
  BY <1>1, <1>2 DEF Planned, Debt, Owing
<1>4. InStep' => OneSeen(p)'
  BY <1>1 DEF Exclusive, Faithful, OneSeen, OneDrainAlways, Reading
<1>5. KeepsTrack(p)'
  <2>1. \A n \in Nodes : proc'[p].todo # Begin(n)
    BY <1>2, BeginType
  <2> QED
    BY <1>2, <2>1 DEF KeepsTrack, Begin
<1> QED
  BY <1>3, <1>4, <1>5 DEF Remembering

\* A process that a step of another one leaves alone.
LEMMA OnlookerStep ==
  ASSUME TypeOK, Exclusive, Exclusive', NEW q \in Procs, Remembering(q), InStep' => InStep,
         proc'[q] = proc[q], owed'[q] = owed[q], cache'[q] = cache[q],
         leader' = q => leader = q,
         past.finished \subseteq past'.finished, past.cleared \subseteq past'.cleared,
         past.unheard \subseteq past'.unheard,
         InStep' /\ leader' = q => UNCHANGED node
  PROVE  Remembering(q)'
<1>1. Owing(q)' => Owing(q)
  BY DEF Owing
<1>2. InStep' /\ leader' = q => \A n \in Nodes : /\ node'[n].marked => node[n].marked
                                                 /\ Known(n) => Known(n)'
  BY DEF Known
<1> QED
  BY <1>1, <1>2, BystanderStep

\* An evaluation that fails: the process keeps what it knew, or ends.
LEMMA FailsStep ==
  ASSUME TypeOK, Exclusive, Exclusive', NEW p \in Procs, Remembering(p), Fail(p),
         InStep' => InStep, past.finished \subseteq past'.finished,
         InStep' /\ leader = p => \A n \in Nodes :
           /\ Owing(p) /\ node'[n].marked => node[n].marked
           /\ Known(n) => Known(n)'
  PROVE  Remembering(p)'
<1> DEFINE failures == Counted(proc[p].failures)
<1>1. proc[p] \in Process
  BY DEF TypeOK
<1>2. CASE failures < MaxFailures
  <2>1. /\ proc' = [proc EXCEPT ![p] = [proc[p] EXCEPT !.due = FALSE, !.todo = <<>>,
                                                       !.failures = failures]]
        /\ UNCHANGED <<cache, leader, owed>>
    BY <1>2 DEF Fail
  <2> HIDE DEF failures
  <2>2. /\ proc'[p].todo = <<>> /\ proc'[p].active = proc[p].active
        /\ proc'[p].dryRun = proc[p].dryRun /\ proc'[p].cooling = proc[p].cooling
    BY <1>1, <2>1 DEF TypeOK, Process
  <2>3. Owing(p)' => Owing(p)
    BY <2>1, <2>2 DEF Owing
  <2> QED
    BY <2>1, <2>2, <2>3, BystanderStep
<1>3. CASE ~(failures < MaxFailures)
  <2>1. Restarted(p, proc[p].dryRun) /\ proc[p].dryRun \in BOOLEAN
    BY <1>1, <1>3 DEF Fail, Process
  <2> QED
    BY <2>1, FreshStep
<1> QED
  BY <1>2, <1>3

\* The others, when one fails or begins anew.
LEMMA OthersOfEnded ==
  ASSUME TypeOK, NEW p \in Procs, NEW q \in Procs \ {p},
         Fail(p) \/ \E dry \in BOOLEAN : Restarted(p, dry)
  PROVE  /\ proc'[q] = proc[q] /\ owed'[q] = owed[q] /\ cache'[q] = cache[q]
         /\ leader' = q => leader = q
<1>1. proc[p].dryRun \in BOOLEAN
  BY DEF TypeOK, Process
<1>2. CASE \E dry \in BOOLEAN : Restarted(p, dry)
  <2>1. PICK dry \in BOOLEAN : Restarted(p, dry)
    BY <1>2
  <2>2. leader' = q => leader = q
    BY <2>1, ControllerAssumption DEF Restarted
  <2> QED
    BY <2>1, <2>2 DEF Restarted, TypeOK
<1>3. CASE Fail(p)
  <2>1. CASE Counted(proc[p].failures) < MaxFailures
    BY <1>3, <2>1 DEF Fail, TypeOK
  <2>2. CASE ~(Counted(proc[p].failures) < MaxFailures)
    <3>1. Restarted(p, proc[p].dryRun)
      BY <1>3, <2>2 DEF Fail
    <3> QED
      BY <1>1, <1>2, <3>1
  <2> QED
    BY <2>1, <2>2
<1> QED
  BY <1>2, <1>3

\* An evaluation that ended without a write, and a process that begins anew.
LEMMA EndedRemembers ==
  ASSUME TypeOK, Exclusive, Exclusive', Memory, NEW p \in Procs,
         Fail(p) \/ \E dry \in BOOLEAN : Restarted(p, dry),
         UNCHANGED <<node, past>>
  PROVE  Memory'
<1>1. (InStep' => InStep) /\ \A n \in Nodes : Known(n) => Known(n)'
  BY DEF InStep, Known
<1>2. Remembering(p)'
  <2>1. CASE Fail(p)
    BY <1>1, <2>1, FailsStep DEF Memory
  <2>2. CASE \E dry \in BOOLEAN : Restarted(p, dry)
    BY <2>2, FreshStep
  <2> QED
    BY <2>1, <2>2
<1>3. ASSUME NEW q \in Procs \ {p}
      PROVE  Remembering(q)'
  BY <1>1, OthersOfEnded, OnlookerStep DEF Memory
<1> QED
  BY <1>2, <1>3 DEF Memory

\* The two writes of a decision are not one write.
LEMMA BeginIsTwo ==
  ASSUME NEW n \in Nodes, NEW w \in Write
  PROVE  Begin(n) # <<w>>
<1>1. Begin(n) \in Seq(Write) /\ Len(Begin(n)) = 2
  BY BeginType DEF Begin
<1>2. Len(<<w>>) = 1
  OBVIOUS
<1> QED
  BY <1>1, <1>2

\* The drain resumed is marked, in the reading, or it is the one remembered.
LEMMA ResumedOne ==
  ASSUME TypeOK, NEW p \in Procs, NEW r \in [Nodes -> Node], InProgress(p, r) # Nobody
  PROVE  /\ InProgress(p, r) \in Nodes
         /\ \/ r[InProgress(p, r)].marked
            \/ InProgress(p, r) = proc[p].active /\ ~r[proc[p].active].exists
<1> DEFINE names == {k \in Nodes : r[k].marked}
<1>1. names \in SUBSET Nodes /\ Marked(r) = FirstOf(names)
  BY DEF Marked
<1>2. InProgress(p, r) \in Nodes
  BY InProgressType
<1>3. CASE Marked(r) # Nobody
  <2>1. InProgress(p, r) = Marked(r) /\ names # {}
    BY <1>1, <1>3 DEF InProgress, FirstOf
  <2> QED
    BY <1>1, <1>2, <2>1, FirstOfType
<1>4. CASE Marked(r) = Nobody
  BY <1>2, <1>4 DEF InProgress
<1> QED
  BY <1>3, <1>4

\* What an evaluation leaves of the process's memory before its first write.
LEMMA ThoughtStep ==
  ASSUME TypeOK, Exclusive, Exclusive', Memory, NEW p \in Procs, NEW m \in Process,
         proc' = [proc EXCEPT ![p] = m], UNCHANGED <<node, cache, leader, owed>>,
         leader = p, past' = past \/ past' = Seen(p),
         Planned(p)', InStep /\ InStep' => Debt(p)' /\ KeepsTrack(p)'
  PROVE  Memory'
<1>1. /\ past'.finished = past.finished /\ past'.cleared = past.cleared
      /\ past'.unheard = past.unheard /\ past'.late = past.late
      /\ past.blind => past'.blind
  BY SeenType
<1>2. InStep' => InStep
  BY <1>1 DEF InStep
<1>3. ASSUME NEW q \in Procs \ {p}
      PROVE  Remembering(q)'
  <2>1. proc'[q] = proc[q]
    BY DEF TypeOK
  <2> QED
    BY <1>1, <1>2, <2>1, OnlookerStep DEF Memory
<1>4. InStep' => OneSeen(p)'
  <2>1. Reading(p)' = Reading(p)
    BY DEF Reading
  <2> QED
    BY <1>2, <2>1 DEF Memory, Remembering, OneSeen
<1>5. Remembering(p)'
  BY <1>2, <1>4 DEF Remembering
<1> QED
  BY <1>3, <1>5 DEF Memory

\* The drain resumed is a known one; a process with a cooldown to find out about
\* resumes that drain and no other.
LEMMA ResumeRemembers ==
  ASSUME TypeOK, Exclusive, Exclusive', Memory, NEW p \in Procs, Resume(p)
  PROVE  Memory'
<1> DEFINE r == Reading(p)
           n == InProgress(p, r)
<1>1. /\ r \in [Nodes -> Node] /\ leader = p /\ proc[p] \in Process /\ n # Nobody
      /\ UNCHANGED <<node, cache, leader, owed>> /\ past' = Seen(p) /\ r = Reading(p)
      /\ owed[p] \in 0..Cooldown /\ proc[p].cooling \in 0..Cooldown
  BY ReadingType DEF Resume, Starts, TypeOK, Process
<1>2. n \in Nodes /\ (r[n].marked \/ (n = proc[p].active /\ ~r[proc[p].active].exists))
  BY <1>1, ResumedOne
<1>3. ASSUME InStep, InStep'
      PROVE  /\ Debt(p) /\ OneSeen(p) /\ KeepsTrack(p)
             /\ \A k \in Nodes : r[k].exists =>
                  (r[k].marked <=> node[k].marked \/ k \in past.finished)
             /\ past'.finished = past.finished
             /\ past'.cleared = past.cleared /\ past'.unheard = past.unheard
  <2>1. ~Seen(p).blind
    BY <1>1, <1>3 DEF InStep
  <2> QED
    BY <1>1, <1>3, <2>1, SeenType DEF Memory, Remembering
<1>k. PICK k \in Nodes : k = n
  BY <1>2
<1> HIDE DEF r, n
<1>4. CASE ~r[n].exists
  <2> DEFINE done == Completed(proc[p])
             m == Succeed(done)
  <2>1. proc' = [proc EXCEPT ![p] = m]
    BY <1>4 DEF Resume, r, n
  <2>2. done \in Process /\ done.active = Nobody /\ done.cooling = Cooldown
    BY <1>1, MemoryType, MemoryFields
  <2> HIDE DEF done
  <2>3. /\ m \in Process /\ m.todo = <<>> /\ m.active = Nobody /\ m.cooling = Cooldown
    BY <2>2, MemoryType, MemoryFields
  <2> HIDE DEF m
  <2>4. proc'[p] = m
    BY <2>1 DEF TypeOK
  <2>5. proc'[p].todo = <<>> /\ proc'[p].active = Nobody /\ ~(owed'[p] > proc'[p].cooling)
    BY <1>1, <2>4, <2>3, ControllerAssumption
  <2>6. Planned(p)' /\ Debt(p)'
    BY <2>5 DEF Planned, Debt, Owing
  <2>7. KeepsTrack(p)'
    BY <2>5, BeginType DEF KeepsTrack, Begin
  <2> QED
    BY <1>1, <2>1, <2>3, <2>6, <2>7, ThoughtStep
<1>5. CASE r[n].exists
  <2>1. PICK steps \in StepsOf(n, r[n]) :
          proc' = [proc EXCEPT ![p] =
                    IF steps = <<>> THEN Succeed([proc[p] EXCEPT !.active = n])
                    ELSE [proc[p] EXCEPT !.active = n, !.todo = steps]]
    BY <1>5 DEF Resume, r, n
  <2>2. \/ steps = <<>>
        \/ \E w \in Write : /\ w.kind \in {"repair", "evict", "handback"}
                            /\ w.on = n /\ steps = <<w>>
    BY <1>1, <1>2, StepsType
  <2> DEFINE m == IF steps = <<>> THEN Succeed([proc[p] EXCEPT !.active = n])
                  ELSE [proc[p] EXCEPT !.active = n, !.todo = steps]
  <2>3. /\ m \in Process /\ m.todo = steps /\ m.active = n
        /\ m.cooling = proc[p].cooling /\ m.dryRun = proc[p].dryRun
    <3>1. CASE steps = <<>>
      <4>1. /\ [proc[p] EXCEPT !.active = n] \in Process
            /\ [proc[p] EXCEPT !.active = n].active = n
            /\ [proc[p] EXCEPT !.active = n].cooling = proc[p].cooling
            /\ [proc[p] EXCEPT !.active = n].dryRun = proc[p].dryRun
        BY <1>1, <1>2, SMTT(30) DEF Process
      <4> DEFINE q == [proc[p] EXCEPT !.active = n]
      <4>2. m = Succeed(q)
        BY <3>1
      <4>3. q \in Process /\ q.active = n /\ q.cooling = proc[p].cooling
            /\ q.dryRun = proc[p].dryRun
        BY <4>1
      <4> HIDE DEF q, m
      <4>4. /\ Succeed(q) \in Process /\ Succeed(q).todo = <<>> /\ Succeed(q).active = n
            /\ Succeed(q).cooling = proc[p].cooling /\ Succeed(q).dryRun = proc[p].dryRun
        BY <4>3, MemoryType, MemoryFields
      <4> QED
        BY <3>1, <4>2, <4>4
    <3>2. CASE steps # <<>>
      <4>1. steps \in Seq(Write)
        <5>1. PICK w \in Write : steps = <<w>>
          BY <2>2, <3>2
        <5> QED
          BY <5>1
      <4> QED
        BY <1>1, <1>2, <3>2, <4>1 DEF Process
    <3> QED
      BY <3>1, <3>2
  <2>4. proc' = [proc EXCEPT ![p] = m]
    BY <2>1
  <2> HIDE DEF m
  <2>5. proc'[p] = m
    BY <2>4 DEF TypeOK
  <2>6. Planned(p)'
    BY <2>2, <2>3, <2>5 DEF Planned
  <2>7. ASSUME InStep, InStep'
        PROVE  Debt(p)'
    <3>1. ASSUME Owing(p)'
          PROVE  /\ Owing(p) /\ n = proc[p].active
      <4>1. Owing(p)
        BY <1>1, <2>3, <2>5, <3>1 DEF Owing
      <4>2. proc[p].active \in past.finished /\ proc[p].active \in Nodes
        BY <1>3, <2>7, <4>1 DEF Debt, TypeOK, Past
      <4>3. r[n].marked
        BY <1>2, <1>5
      <4>4. n # proc[p].active => r[proc[p].active].exists /\ ~r[proc[p].active].marked
        BY <1>1, <1>2, <1>3, <2>7, <4>1, <4>3 DEF Debt
      <4> QED
        BY <1>3, <2>7, <4>1, <4>2, <4>4
    <3>2. Reading(p)' = Reading(p)
      BY <1>1 DEF Reading
    <3> QED
      BY <1>1, <1>3, <2>3, <2>5, <2>7, <3>1, <3>2 DEF Debt
  <2>8. ASSUME InStep, InStep'
        PROVE  KeepsTrack(p)'
    <3>1. Known(k)'
      BY <1>k, <1>1, <1>2, <1>3, <1>5, <2>8 DEF Known
    <3>2. \A j \in Nodes : steps # Begin(j)
      BY <2>2, BeginType, BeginIsTwo
    <3>3. ASSUME NEW w \in Write, w.kind = "cordon"
          PROVE  steps # <<w>>
      <4>1. <<w>> # <<>> /\ Head(<<w>>) = w
        OBVIOUS
      <4>2. CASE \E v \in Write : v.kind \in {"repair", "evict", "handback"} /\ steps = <<v>>
        <5>1. PICK v \in Write : v.kind \in {"repair", "evict", "handback"} /\ steps = <<v>>
          BY <4>2
        <5>2. Head(steps) = v
          BY <5>1
        <5> QED
          BY <3>3, <4>1, <5>1, <5>2
      <4> QED
        BY <2>2, <4>1, <4>2
    <3>4. proc'[p].active = k /\ proc'[p].todo = steps
      BY <1>k, <2>3, <2>5
    <3> QED
      BY <3>1, <3>2, <3>3, <3>4 DEF KeepsTrack, Begin, Known
  <2> QED
    BY <1>1, <2>3, <2>4, <2>6, <2>7, <2>8, ThoughtStep
<1> QED
  BY <1>4, <1>5

\* In dry run nothing is planned and no cooldown observed.
LEMMA FreezeRemembers ==
  ASSUME TypeOK, Exclusive, Exclusive', Memory, NEW p \in Procs, Freeze(p)
  PROVE  Memory'
<1> DEFINE r == Reading(p)
           n == InProgress(p, r)
           k == IF n # Nobody /\ r[n].exists THEN n ELSE Nobody
           left == [proc[p] EXCEPT !.active = k]
           m == Succeed(left)
<1>1. k \in Nodes \union {Nobody}
  BY ReadingType, InProgressType
<1>2. /\ leader = p /\ proc[p] \in Process /\ proc[p].dryRun
      /\ proc' = [proc EXCEPT ![p] = m]
      /\ UNCHANGED <<node, cache, leader, resolves, past, owed, upsets>>
  BY DEF Freeze, Starts, TypeOK
<1> HIDE DEF k
<1>3. left \in Process /\ left.dryRun = proc[p].dryRun
  BY <1>1, <1>2, MemoryType, MemoryFields
<1> HIDE DEF left
<1>4. m \in Process /\ m.todo = <<>> /\ m.dryRun = proc[p].dryRun
  BY <1>3, MemoryType, MemoryFields
<1> HIDE DEF m
<1>5. proc'[p].todo = <<>> /\ proc'[p].dryRun
  BY <1>2, <1>4 DEF TypeOK
<1>6. Planned(p)' /\ Debt(p)'
  BY <1>5 DEF Planned, Debt, Owing
<1>7. KeepsTrack(p)'
  BY <1>5, BeginType DEF KeepsTrack, Begin
<1> QED
  BY <1>2, <1>4, <1>6, <1>7, ThoughtStep

\* A decision is taken by a process that has no drain to find out about.
LEMMA DecideRemembers ==
  ASSUME TypeOK, Exclusive, Exclusive', Memory, NEW p \in Procs, Decide(p)
  PROVE  Memory'
<1> DEFINE r == Reading(p)
           eligible == Eligible(p, r)
<1>1. /\ leader = p /\ proc[p] \in Process /\ r \in [Nodes -> Node]
      /\ InProgress(p, r) = Nobody /\ past' = Seen(p) /\ ~proc[p].dryRun
      /\ UNCHANGED <<node, cache, leader, resolves, owed, upsets>>
      /\ owed[p] \in 0..Cooldown /\ proc[p].cooling \in 0..Cooldown
  BY ReadingType DEF Decide, Starts, TypeOK, Process
<1>2. \A n \in Nodes : ~r[n].marked
  BY <1>1, InProgressType
<1>3. ASSUME InStep, InStep'
      PROVE  ~Owing(p)
  <2>1. ~Seen(p).blind
    BY <1>1, <1>3 DEF InStep
  <2>2. SUFFICES ASSUME Owing(p)
                 PROVE  FALSE
    OBVIOUS
  <2>3. proc[p].active \in past.finished /\ proc[p].active \in Nodes
    BY <1>3, <2>2 DEF Memory, Remembering, Debt, TypeOK, Past
  <2>4. Marked(r) = Nobody
    BY <1>2 DEF Marked, FirstOf
  <2>5. r[proc[p].active].exists
    BY <1>1, <2>3, <2>4, ControllerAssumption DEF InProgress
  <2> QED
    BY <1>2, <2>1, <2>3, <2>5, SeenType
<1> DEFINE c == Chosen(eligible)
           left == [proc[p] EXCEPT !.active = Nobody]
           m == IF eligible = {} THEN Succeed(left)
                ELSE [proc[p] EXCEPT !.active = Nobody, !.todo = Begin(c)]
<1>4. proc' = [proc EXCEPT ![p] = m]
  BY DEF Decide
<1>5. eligible # {} => c \in Nodes /\ proc[p].cooling = 0
  <2>1. eligible \in SUBSET Nodes
    BY DEF Eligible
  <2>2. eligible # {} => proc[p].cooling = 0
    BY DEF Eligible
  <2> QED
    BY <2>1, <2>2, ChosenType
<1> HIDE DEF c, eligible
<1>6. /\ m \in Process /\ m.active = Nobody
      /\ m.todo = <<>> \/ (eligible # {} /\ m.todo = Begin(c))
      /\ m.cooling = proc[p].cooling /\ m.dryRun = proc[p].dryRun
  <2>1. CASE eligible = {}
    <3>1. Nobody \in Nodes \union {Nobody}
      OBVIOUS
    <3>2. /\ left \in Process /\ left.active = Nobody
          /\ left.cooling = proc[p].cooling /\ left.dryRun = proc[p].dryRun
      <4>1. left \in Process
        BY <1>1, <3>1, MemoryType
      <4>2. /\ left.active = Nobody /\ left.cooling = proc[p].cooling
            /\ left.dryRun = proc[p].dryRun
        BY <1>1, <3>1, MemoryFields
      <4> QED
        BY <4>1, <4>2
    <3> HIDE DEF left
    <3> QED
      BY <2>1, <3>2, MemoryType, MemoryFields
  <2>2. CASE eligible # {}
    <3>1. Begin(c) \in Seq(Write)
      BY <1>5, <2>2, BeginType
    <3> QED
      BY <1>1, <2>2, <3>1 DEF Process
  <2> QED
    BY <2>1, <2>2
<1> HIDE DEF m
<1>7. proc'[p] = m
  BY <1>4 DEF TypeOK
<1>8. Planned(p)'
  BY <1>5, <1>6, <1>7 DEF Planned, Begin
<1>9. ASSUME InStep, InStep'
      PROVE  Debt(p)' /\ KeepsTrack(p)'
  <2>1. ~Owing(p)'
    BY <1>1, <1>3, <1>6, <1>7, <1>9 DEF Owing
  <2>2. eligible # {} => owed[p] = 0
    BY <1>1, <1>3, <1>5, <1>9 DEF Owing
  <2>3. ASSUME NEW w \in Write
        PROVE  proc'[p].todo # <<w>>
    <3>1. <<w>> # <<>>
      OBVIOUS
    <3> QED
      BY <1>5, <1>6, <1>7, <3>1, BeginIsTwo
  <2>4. \A n \in Nodes : proc'[p].todo = Begin(n) => owed'[p] = 0
    BY <1>1, <1>6, <1>7, <2>2, BeginType
  <2> QED
    BY <1>6, <1>7, <2>1, <2>3, <2>4 DEF Debt, KeepsTrack, Begin
<1> QED
  BY <1>1, <1>4, <1>6, <1>8, <1>9, ThoughtStep

\* What a process writes on: nothing is owed by one whose write finds its node.
LEMMA WriterOwesNothing ==
  ASSUME TypeOK, Exclusive, NEW p \in Procs, Remembering(p), InStep, proc[p].todo # <<>>,
         node[Head(proc[p].todo).on].exists
  PROVE  ~Owing(p)
<1> SUFFICES ASSUME Owing(p)
             PROVE  FALSE
  OBVIOUS
<1>1. /\ proc[p].active \in past.finished /\ proc[p].active \in Nodes
      /\ ~node[proc[p].active].exists /\ proc[p].active # Nobody
  BY ControllerAssumption
     DEF Remembering, Debt, TypeOK, Past, Exclusive, Faithful
<1>2. \E w \in Write : proc[p].todo = <<w>> /\ w.on = proc[p].active
  BY <1>1 DEF Remembering, Planned
<1> QED
  BY <1>1, <1>2

\* A write leaves every known drain known, when it is answered or heard of.
LEMMA WriteKnows ==
  ASSUME TypeOK, NEW w \in Write, node' = Patched(w),
         past.finished \subseteq past'.finished, past.cleared \subseteq past'.cleared,
         past.unheard \subseteq past'.unheard,
         NEW n \in Nodes, Known(n),
         w.kind = "handback" => n # w.on \/ w.on \in past'.unheard
  PROVE  Known(n)'
<1>1. w.kind \in {"mark", "cordon", "repair", "evict", "handback"}
  BY DEF Write
<1>2. CASE n # w.on
  BY <1>2, PatchedType DEF Known
<1>3. CASE n = w.on
  BY <1>1, <1>3, PatchedType DEF Known
<1> QED
  BY <1>2, <1>3

LEMMA LandsRemembers ==
  ASSUME TypeOK, Exclusive, Exclusive', Memory, NEW p \in Procs, Lands(p)
  PROVE  Memory'
<1> DEFINE w == Head(proc[p].todo)
           rest == Tail(proc[p].todo)
           m == IF rest # <<>> THEN [proc[p] EXCEPT !.todo = rest]
                ELSE Succeed(Remembered(proc[p], w))
<1>1. /\ proc[p] \in Process /\ proc[p].todo \in Seq(Write) /\ proc[p].todo # <<>>
      /\ node[w.on].exists /\ node' = Patched(w) /\ proc' = [proc EXCEPT ![p] = m]
      /\ past' = Written(p) /\ UNCHANGED <<cache, leader, resolves, owed, upsets>>
  BY DEF Lands, TypeOK, Process
<1>2. w \in Write /\ rest \in Seq(Write) /\ w.on \in Nodes
  <2>1. w \in Write /\ rest \in Seq(Write)
    BY <1>1
  <2> HIDE DEF w, rest
  <2> QED
    BY <2>1 DEF Write
<1>3. /\ m \in Process /\ m.todo = rest
      /\ m.active = IF rest # <<>> THEN proc[p].active
                    ELSE IF w.kind = "handback" THEN Nobody
                    ELSE IF w.kind = "cordon" THEN w.on ELSE proc[p].active
      /\ m.cooling = proc[p].cooling /\ m.dryRun = proc[p].dryRun
  <2>1. CASE rest # <<>>
    <3>1. m = [proc[p] EXCEPT !.todo = rest]
      BY <2>1
    <3> HIDE DEF m, rest
    <3>2. m \in Process /\ m.todo = rest
      BY <1>1, <1>2, <3>1, MemoryType
    <3>3. /\ m.active = proc[p].active /\ m.cooling = proc[p].cooling
          /\ m.dryRun = proc[p].dryRun
      BY <1>1, <1>2, <3>1, MemoryFields
    <3> QED
      BY <2>1, <3>2, <3>3
  <2>2. CASE rest = <<>>
    <3> DEFINE k == Remembered(proc[p], w)
    <3>1. m = Succeed(k)
      BY <2>2
    <3>2. k \in Process
      BY <1>1, <1>2, MemoryType DEF Remembered
    <3>3. /\ k.active = IF w.kind = "handback" THEN Nobody
                        ELSE IF w.kind = "cordon" THEN w.on ELSE proc[p].active
          /\ k.cooling = proc[p].cooling /\ k.dryRun = proc[p].dryRun
      BY <1>1, <1>2, MemoryFields DEF Remembered
    <3> HIDE DEF k, m
    <3>4. m \in Process /\ m.todo = <<>>
      BY <3>1, <3>2, MemoryType
    <3>5. m.active = k.active /\ m.cooling = k.cooling /\ m.dryRun = k.dryRun
      BY <3>1, <3>2, MemoryFields
    <3> QED
      BY <2>2, <3>3, <3>4, <3>5
  <2> QED
    BY <2>1, <2>2
<1> HIDE DEF m
<1>4. proc'[p] = m
  BY <1>1 DEF TypeOK
<1>5. /\ past'.finished = past.finished /\ past'.cleared = past.cleared
      /\ past'.unheard = past.unheard /\ (InStep' => InStep /\ leader = p)
  BY <1>1, <1>2, WrittenType DEF InStep
<1>6. ASSUME NEW q \in Procs \ {p}
      PROVE  Remembering(q)'
  <2>1. proc'[q] = proc[q]
    BY <1>1 DEF TypeOK
  <2> QED
    BY <1>1, <1>5, <2>1, OnlookerStep DEF Memory
<1>7. \/ /\ proc[p].active = Nobody
         /\ \E n \in Nodes : proc[p].todo = Begin(n)
      \/ /\ w.kind = "cordon" /\ rest = <<>> /\ proc[p].todo = <<w>>
         /\ proc[p].active = Nobody
      \/ /\ w.kind \in {"repair", "evict", "handback"} /\ rest = <<>>
         /\ w.on = proc[p].active
  <2>1. Planned(p)
    BY DEF Memory, Remembering
  <2>2. ASSUME NEW v \in Write, proc[p].todo = <<v>>
        PROVE  w = v /\ rest = <<>>
    BY <2>2
  <2> HIDE DEF w, rest
  <2> QED
    BY <1>1, <2>1, <2>2 DEF Planned
<1>8. ASSUME NEW n \in Nodes, proc[p].todo = Begin(n)
      PROVE  /\ w.kind = "mark" /\ w.on = n /\ rest # <<>>
             /\ \E v \in Write : v.kind = "cordon" /\ v.on = n /\ rest = <<v>>
  <2>1. PICK v \in Write : v.kind = "cordon" /\ v.on = n /\ rest = <<v>>
    BY <1>8, BeginType
  <2> QED
    BY <1>8, <2>1, BeginType
<1> HIDE DEF w, rest
<1>9. Planned(p)'
  BY <1>3, <1>4, <1>7, <1>8 DEF Planned
<1>10. ASSUME InStep'
       PROVE  Debt(p)' /\ OneSeen(p)' /\ KeepsTrack(p)'
  <2>1. /\ InStep /\ leader = p /\ ~Owing(p) /\ KeepsTrack(p) /\ OneSeen(p)
    BY <1>1, <1>5, <1>10, WriterOwesNothing DEF Memory, Remembering, w
  <2>2. Debt(p)'
    BY <1>1, <1>3, <1>4, <2>1 DEF Debt, Owing
  <2>3. OneSeen(p)'
    <3>1. CASE Lagging
      BY <1>1, <1>10, <2>1, <3>1, SeesOne DEF Reading
    <3>2. CASE ~Lagging
      BY <1>1, <1>10, <2>1, <3>2, SeesOne DEF Reading
    <3> QED
      BY <3>1, <3>2
  <2>4. \A n \in Nodes : proc'[p].todo # Begin(n)
    <3>1. CASE rest = <<>>
      BY <1>3, <1>4, <3>1, BeginType
    <3>2. CASE rest # <<>>
      <4>1. PICK n \in Nodes : proc[p].todo = Begin(n)
        BY <1>7, <3>2
      <4>2. PICK v \in Write : rest = <<v>>
        BY <1>8, <4>1
      <4> QED
        BY <1>3, <1>4, <4>2, BeginIsTwo
    <3> QED
      BY <3>1, <3>2
  <2> PICK k \in Nodes : k = w.on
    BY <1>2
  <2>5. CASE \E n \in Nodes : proc[p].todo = Begin(n)
    <3>1. PICK n \in Nodes : proc[p].todo = Begin(n)
      BY <2>5
    <3>2. PICK v \in Write : v.kind = "cordon" /\ v.on = n /\ rest = <<v>>
      BY <1>8, <3>1
    <3>3. w.kind = "mark" /\ k = n /\ rest # <<>>
      BY <1>8, <3>1
    <3>4. proc[p].active = Nobody
      BY <1>7, <3>3
    <3>5. Known(n)'
      BY <1>1, <1>2, <3>3, PatchedType DEF Known
    <3>6. \A u \in Write : proc'[p].todo = <<u>> => u = v
      <4> TAKE u \in Write
      <4> HAVE proc'[p].todo = <<u>>
      <4>1. <<u>> = <<v>>
        BY <1>3, <1>4, <3>2
      <4> QED
        BY <4>1
    <3>7. proc'[p].active = Nobody
      BY <1>3, <1>4, <3>3, <3>4
    <3> QED
      BY <2>2, <2>3, <2>4, <3>2, <3>5, <3>6, <3>7 DEF KeepsTrack, Known, Begin
  <2>6. CASE rest = <<>>
    <3>1. \A u \in Write : proc'[p].todo # <<u>>
      <4>1. \A u \in Write : <<u>> # <<>>
        OBVIOUS
      <4> QED
        BY <1>3, <1>4, <2>6, <4>1
    <3>2. CASE w.kind = "cordon"
      <4>1. proc[p].todo = <<w>>
        BY <1>7, <1>8, <2>6, <3>2
      <4>2. Known(k)
        BY <1>2, <2>1, <3>2, <4>1 DEF KeepsTrack
      <4>3. Known(k)'
        BY <1>1, <1>2, <1>5, <3>2, <4>2, WriteKnows
      <4>4. proc'[p].active = k
        BY <1>3, <1>4, <2>6, <3>2
      <4> QED
        BY <2>2, <2>3, <2>4, <3>1, <4>3, <4>4 DEF KeepsTrack, Known, Begin
    <3>3. CASE w.kind = "handback"
      <4>1. proc'[p].active = Nobody
        BY <1>3, <1>4, <2>6, <3>3
      <4> QED
        BY <2>2, <2>3, <2>4, <3>1, <4>1 DEF KeepsTrack, Begin
    <3>4. CASE w.kind \in {"repair", "evict"}
      <4>1. /\ proc'[p].active = k /\ proc[p].active = k
            /\ proc'[p].dryRun = proc[p].dryRun
        BY <1>3, <1>4, <1>7, <1>8, <2>6, <3>4
      <4>2. ~proc[p].dryRun => Known(k)
        BY <2>1, <4>1, ControllerAssumption DEF KeepsTrack
      <4>3. ~proc[p].dryRun => Known(k)'
        BY <1>1, <1>2, <1>5, <3>4, <4>2, WriteKnows
      <4> QED
        BY <2>2, <2>3, <2>4, <3>1, <4>1, <4>3 DEF KeepsTrack, Known, Begin
    <3> QED
      BY <1>7, <1>8, <2>6, <3>2, <3>3, <3>4
  <2> QED
    BY <1>7, <2>5, <2>6
<1>11. Remembering(p)'
  BY <1>9, <1>10 DEF Remembering
<1> QED
  BY <1>6, <1>11 DEF Memory

LEMMA AnswerLostRemembers ==
  ASSUME TypeOK, Exclusive, Exclusive', Memory, NEW p \in Procs, AnswerLost(p)
  PROVE  Memory'
<1> DEFINE w == Head(proc[p].todo)
<1>1. /\ proc[p].todo # <<>> /\ w \in Write /\ node[w.on].exists /\ node' = Patched(w)
      /\ past' = Unanswered(p, w) /\ Fail(p)
  BY DEF AnswerLost, TypeOK, Process
<1>2. /\ past'.finished = past.finished /\ past'.cleared = past.cleared
      /\ past.unheard \subseteq past'.unheard
      /\ w.kind = "handback" => w.on \in past'.unheard
      /\ InStep' => InStep /\ leader = p
  BY <1>1, WrittenType DEF InStep
<1>3. InStep' => ~Owing(p)
  BY <1>1, <1>2, WriterOwesNothing DEF Memory
<1>4. \A n \in Nodes : Known(n) => Known(n)'
  BY <1>1, <1>2, WriteKnows
<1>5. Remembering(p)'
  BY <1>1, <1>2, <1>3, <1>4, FailsStep DEF Memory
<1>6. ASSUME NEW q \in Procs \ {p}
      PROVE  Remembering(q)'
  BY <1>1, <1>2, OthersOfEnded, OnlookerStep DEF Memory
<1> QED
  BY <1>5, <1>6 DEF Memory

\* The autoscaler removes a node: the process that drained it has a drain to find out
\* about, and what it has read so far shows the node.
LEMMA RemoveRemembers ==
  ASSUME TypeOK, Exclusive, Exclusive', Memory, NEW n \in Nodes, RemoveNode(n)
  PROVE  Memory'
<1> DEFINE drained == node[n].marked
           v == [exists |-> FALSE, marked |-> FALSE, cordoned |-> FALSE, left |-> 0,
                 quiet |-> 0, rest |-> 0]
           done == IF drained THEN past.finished \union {n} ELSE past.finished
<1>1. /\ node[n].exists /\ node' = [node EXCEPT ![n] = v]
      /\ past' = [past EXCEPT !.finished = done]
      /\ owed' = [p \in Procs |-> IF drained /\ leader = p /\ proc[p].active = n
                                    THEN Cooldown ELSE owed[p]]
      /\ UNCHANGED <<cache, leader, proc>>
  BY DEF RemoveNode
<1>2. ~v.exists /\ ~v.marked
  OBVIOUS
<1>3. /\ node'[n] = v /\ \A k \in Nodes \ {n} : node'[k] = node[k]
  BY <1>1 DEF TypeOK
<1>4. /\ past'.finished = done /\ past'.cleared = past.cleared
      /\ past'.unheard = past.unheard /\ (InStep' <=> InStep)
      /\ past.finished \subseteq done /\ (drained => n \in done)
  BY <1>1 DEF TypeOK, Past, InStep
<1> HIDE DEF done, v
<1>5. \A k \in Nodes : /\ node'[k].marked => node[k].marked
                       /\ Known(k) => Known(k)'
  BY <1>2, <1>3, <1>4 DEF Known
<1>6. ASSUME NEW q \in Procs, ~(drained /\ leader = q /\ proc[q].active = n)
      PROVE  Remembering(q)'
  <2>1. owed'[q] = owed[q]
    BY <1>1, <1>6
  <2>2. Owing(q)' => Owing(q)
    BY <1>1, <2>1 DEF Owing
  <2> QED
    BY <1>1, <1>4, <1>5, <2>1, <2>2, BystanderStep DEF Memory
<1>7. ASSUME NEW q \in Procs, drained, leader = q, proc[q].active = n
      PROVE  Remembering(q)'
  <2>1. Remembering(q) /\ proc'[q] = proc[q] /\ n # Nobody
    BY <1>1, ControllerAssumption DEF Memory
  <2>2. Planned(q)'
    BY <2>1 DEF Remembering, Planned, Begin
  <2>3. ASSUME InStep'
        PROVE  Debt(q)' /\ OneSeen(q)' /\ KeepsTrack(q)'
    <3>1. /\ InStep /\ OneSeen(q) /\ KeepsTrack(q) /\ OneDrainAlways /\ Faithful
      BY <1>4, <1>7, <2>1, <2>3 DEF Remembering, Exclusive
    <3>2. \A m \in Nodes : ~node'[m].marked
      BY <1>2, <1>3, <1>7, <3>1 DEF OneDrainAlways
    <3>3. OneSeen(q)'
      <4>1. CASE Lagging
        BY <1>1, <2>3, <3>1, <4>1, SeesOne DEF Reading
      <4>2. CASE ~Lagging
        BY <2>3, <3>1, <4>2, SeesOne DEF Reading
      <4> QED
        BY <4>1, <4>2
    <3>4. ASSUME NEW m \in Nodes \ {n}, Reading(q)'[m].marked
          PROVE  Reading(q)'[n].exists /\ ~Reading(q)'[n].marked
      <4>1. Lagging
        BY <3>2, <3>4 DEF Reading
      <4>2. Reading(q)' = cache[q] /\ Reading(q) = cache[q]
        BY <1>1, <4>1 DEF Reading
      <4>3. cache[q][n].exists
        BY <1>1, <3>1 DEF Faithful
      <4>4. ~cache[q][n].marked
        BY <3>1, <3>4, <4>2 DEF OneSeen
      <4> QED
        BY <4>2, <4>3, <4>4
    <3>5. Debt(q)'
      BY <1>4, <1>7, <2>1, <3>2, <3>4 DEF Debt
    <3>6. KeepsTrack(q)'
      <4>1. Known(n)'
        BY <1>4, <1>7 DEF Known
      <4>2. \A k \in Nodes : proc'[q].todo # Begin(k)
        BY <1>7, <2>1, BeginType, BeginIsTwo DEF Remembering, Planned
      <4>3. \A w \in Write : w.kind = "cordon" => proc'[q].todo # <<w>>
        <5> TAKE w \in Write
        <5> HAVE w.kind = "cordon"
        <5>1. <<w>> # <<>> /\ Head(<<w>>) = w
          OBVIOUS
        <5>2. \/ proc[q].todo = <<>>
              \/ \E u \in Write : /\ u.kind \in {"repair", "evict", "handback"}
                                  /\ proc[q].todo = <<u>>
          BY <1>7, <2>1 DEF Remembering, Planned
        <5>3. CASE \E u \in Write : /\ u.kind \in {"repair", "evict", "handback"}
                                    /\ proc[q].todo = <<u>>
          <6>1. PICK u \in Write : /\ u.kind \in {"repair", "evict", "handback"}
                                   /\ proc[q].todo = <<u>>
            BY <5>3
          <6>2. Head(proc[q].todo) = u
            BY <6>1
          <6> QED
            BY <2>1, <5>1, <6>1, <6>2
        <5> QED
          BY <2>1, <5>1, <5>2, <5>3
      <4> QED
        BY <1>7, <2>1, <4>1, <4>2, <4>3 DEF KeepsTrack, Known, Begin
    <3> QED
      BY <3>3, <3>5, <3>6
  <2> QED
    BY <2>2, <2>3 DEF Remembering
<1> QED
  BY <1>6, <1>7 DEF Memory

\* Marks that fade or stay, waits that shrink together.
LEMMA AroundRemembers ==
  ASSUME TypeOK, Exclusive, Exclusive', Memory, InStep' => InStep,
         \A q \in Procs : /\ proc'[q].todo = proc[q].todo
                          /\ proc'[q].active = proc[q].active
                          /\ proc'[q].dryRun = proc[q].dryRun
                          /\ Owing(q)' => Owing(q)
                          /\ owed[q] = 0 => owed'[q] = 0
                          /\ leader' = q => leader = q
                          /\ Lagging => \A n \in Nodes :
                               /\ cache'[q][n].marked = cache[q][n].marked
                               /\ cache'[q][n].exists = cache[q][n].exists,
         past.finished \subseteq past'.finished,
         \A n \in Nodes : /\ node'[n].marked => node[n].marked
                          /\ Known(n) => Known(n)'
  PROVE  Memory'
<1> SUFFICES ASSUME NEW q \in Procs
             PROVE  Remembering(q)'
  BY DEF Memory
<1> QED
  BY BystanderStep DEF Memory

LEMMA TickRemembers ==
  ASSUME TypeOK, Exclusive, Exclusive', Memory, Tick
  PROVE  Memory'
<1>1. ASSUME NEW v \in Node
      PROVE  Aged(v).marked = v.marked /\ Aged(v).exists = v.exists
  BY DEF Aged, Node
<1>2. node' = [n \in Nodes |-> Aged(node[n])] /\ UNCHANGED <<leader, past>>
  BY DEF Tick
<1>3. \A n \in Nodes : node'[n].marked = node[n].marked
  BY <1>1, <1>2 DEF TypeOK
<1>4. ASSUME NEW q \in Procs
      PROVE  /\ proc'[q].todo = proc[q].todo /\ proc'[q].active = proc[q].active
             /\ proc'[q].dryRun = proc[q].dryRun
             /\ proc'[q].cooling = IF proc[q].cooling > 0 THEN proc[q].cooling - 1 ELSE 0
  <2> DEFINE less == IF proc[q].cooling > 0 THEN proc[q].cooling - 1 ELSE 0
  <2>1. proc'[q] = [proc[q] EXCEPT !.due = TRUE, !.cooling = less]
    BY DEF Tick
  <2>2. proc[q] \in Process
    BY DEF TypeOK
  <2> HIDE DEF less
  <2>3. /\ proc'[q].todo = proc[q].todo /\ proc'[q].active = proc[q].active
        /\ proc'[q].dryRun = proc[q].dryRun /\ proc'[q].cooling = less
    BY <2>1, <2>2 DEF Process
  <2> QED
    BY <2>3 DEF less
<1>5. \A q \in Procs : owed'[q] = IF owed[q] > 0 THEN owed[q] - 1 ELSE 0
  BY DEF Tick
<1>6. ASSUME NEW q \in Procs
      PROVE  (Owing(q)' => Owing(q)) /\ (owed[q] = 0 => owed'[q] = 0)
  <2>1. owed[q] \in 0..Cooldown /\ proc[q].cooling \in 0..Cooldown
    BY DEF TypeOK, Process
  <2>2. owed'[q] > proc'[q].cooling => owed[q] > proc[q].cooling
    BY <1>4, <1>5, <2>1, ControllerAssumption
  <2> QED
    BY <1>4, <1>5, <2>1, <2>2 DEF Owing
<1>7. ASSUME NEW q \in Procs, Lagging, NEW n \in Nodes
      PROVE  /\ cache'[q][n].marked = cache[q][n].marked
             /\ cache'[q][n].exists = cache[q][n].exists
  <2>1. cache'[q][n] = Aged(cache[q][n]) /\ cache[q][n] \in Node
    BY <1>7 DEF Tick, TypeOK
  <2> QED
    BY <1>1, <2>1
<1>8. \A n \in Nodes : Known(n) => Known(n)'
  BY <1>2, <1>3 DEF Known
<1>9. InStep' => InStep
  BY <1>2 DEF InStep
<1> QED
  BY <1>2, <1>3, <1>4, <1>6, <1>7, <1>8, <1>9, AroundRemembers

\* Restarts, the lease, the autoscaler, the operator and the clock.
LEMMA SurroundingsRemember ==
  ASSUME TypeOK, Exclusive, Exclusive', Memory, Surroundings
  PROVE  Memory'
<1>1. ASSUME NEW p \in Procs, Acquire(p)
      PROVE  Memory'
  <2>1. /\ leader' = p /\ proc[p].todo = <<>> /\ proc[p].active = Nobody
        /\ UNCHANGED <<node, cache, proc, resolves, past, owed, upsets>>
    BY <1>1 DEF Acquire, Remembers
  <2>2. ASSUME NEW q \in Procs \ {p}
        PROVE  Remembering(q)'
    BY <2>1, OnlookerStep DEF InStep, Memory
  <2>3. ASSUME InStep'
        PROVE  Debt(p)' /\ OneSeen(p)' /\ KeepsTrack(p)'
    <3>1. Debt(p) /\ OneSeen(p)
      BY <2>1, <2>3 DEF InStep, Memory, Remembering
    <3>2. ~Owing(p)
      BY <2>1, <3>1, ControllerAssumption DEF Debt, TypeOK, Past
    <3>3. Debt(p)'
      BY <2>1, <3>2 DEF Debt, Owing
    <3>4. OneSeen(p)'
      BY <2>1, <3>1 DEF OneSeen, Reading
    <3>5. KeepsTrack(p)'
      BY <2>1, BeginType DEF KeepsTrack, Begin
    <3> QED
      BY <3>3, <3>4, <3>5
  <2>4. Remembering(p)'
    BY <2>1, <2>3 DEF Remembering, Planned
  <2> QED
    BY <2>2, <2>4 DEF Memory
<1>2. ASSUME NEW p \in Procs, Restart(p)
      PROVE  Memory'
  BY <1>2, EndedRemembers DEF Restart
<1>3. ASSUME NEW p \in Procs, Pause(p)
      PROVE  Memory'
  <2>1. leader' = Nobody /\ UNCHANGED <<node, cache, proc, resolves, past, owed>>
    BY <1>3 DEF Pause
  <2>2. \A q \in Procs : leader' # q
    BY <2>1, ControllerAssumption
  <2>3. ASSUME NEW q \in Procs
        PROVE  Remembering(q)'
    BY <2>1, <2>2, OnlookerStep DEF InStep, Memory
  <2> QED
    BY <2>3 DEF Memory
<1>4. ASSUME NEW p \in Procs, Notice(p)
      PROVE  Memory'
  <2>1. /\ UNCHANGED <<node, past>> /\ Restarted(p, proc[p].dryRun)
        /\ proc[p].dryRun \in BOOLEAN
    BY <1>4 DEF Notice, TypeOK, Process
  <2> QED
    BY <2>1, EndedRemembers
<1>5. ASSUME NEW p \in Procs, Sync(p)
      PROVE  Memory'
  <2>1. /\ Lagging /\ cache' = [cache EXCEPT ![p] = node]
        /\ UNCHANGED <<node, leader, proc, resolves, past, owed, upsets>>
    BY <1>5 DEF Sync
  <2>2. ASSUME NEW q \in Procs \ {p}
        PROVE  Remembering(q)'
    <3>1. cache'[q] = cache[q]
      BY <2>1 DEF TypeOK
    <3> QED
      BY <2>1, <3>1, OnlookerStep DEF InStep, Memory
  <2>3. Reading(p)' = node
    BY <2>1 DEF Reading, TypeOK
  <2>4. Planned(p)'
    BY <2>1 DEF Memory, Remembering, Planned, Begin
  <2>5. ASSUME InStep'
        PROVE  Debt(p)' /\ OneSeen(p)' /\ (leader' = p => KeepsTrack(p)')
    <3>1. InStep /\ Debt(p) /\ OneSeen(p) /\ (leader = p => KeepsTrack(p))
      BY <2>1, <2>5 DEF InStep, Memory, Remembering
    <3>2. Debt(p)'
      BY <2>1, <2>3, <3>1 DEF Debt, Owing, TypeOK, Past
    <3>3. OneSeen(p)'
      BY <2>1, <2>3, <2>5, <3>1, SeesOne
    <3>4. leader' = p => KeepsTrack(p)'
      BY <2>1, <3>1 DEF KeepsTrack, Known, Begin
    <3> QED
      BY <3>2, <3>3, <3>4
  <2> QED
    BY <2>2, <2>4, <2>5 DEF Memory, Remembering
<1>6. ASSUME NEW n \in Nodes, Empties(n)
      PROVE  Memory'
  <2>1. /\ node' = [node EXCEPT ![n].left = 0]
        /\ UNCHANGED <<cache, leader, proc, resolves, past, owed>>
    BY <1>6 DEF Empties
  <2>2. \A k \in Nodes : node'[k].marked = node[k].marked
    BY <2>1 DEF TypeOK, Node
  <2> QED
    BY <2>1, <2>2, AroundRemembers DEF InStep, Owing, Known
<1>7. ASSUME NEW n \in Nodes, ClearMarker(n)
      PROVE  Memory'
  <2> DEFINE cleared == past.cleared \union {n}
  <2>1. /\ node' = [node EXCEPT ![n] = [node[n] EXCEPT !.marked = FALSE, !.cordoned = FALSE,
                                                      !.quiet = 0]]
        /\ past' = [past EXCEPT !.cleared = cleared]
        /\ UNCHANGED <<cache, leader, proc, resolves, owed>>
    BY <1>7 DEF ClearMarker
  <2>2. /\ ~node'[n].marked /\ \A k \in Nodes \ {n} : node'[k] = node[k]
    BY <2>1 DEF TypeOK, Node
  <2>3. n \in cleared /\ past.cleared \subseteq cleared
    OBVIOUS
  <2> HIDE DEF cleared
  <2>4. /\ past'.cleared = cleared /\ past'.finished = past.finished
        /\ past'.unheard = past.unheard /\ (InStep' => InStep)
    BY <2>1 DEF TypeOK, Past, InStep
  <2>5. \A k \in Nodes : /\ node'[k].marked => node[k].marked
                         /\ Known(k) => Known(k)'
    BY <2>2, <2>3, <2>4 DEF Known
  <2>6. \A q \in Procs : Owing(q)' => Owing(q)
    BY <2>1 DEF Owing
  <2> QED
    BY <2>1, <2>4, <2>5, <2>6, AroundRemembers
<1>8. CASE PoolVanishes
  BY <1>8, AroundRemembers DEF PoolVanishes, InStep, Owing, Known
<1> QED
  BY <1>1, <1>2, <1>3, <1>4, <1>5, <1>6, <1>7, <1>8, RemoveRemembers, TickRemembers
     DEF Surroundings

\* Every step keeps the memories true.
LEMMA NextRemembers ==
  ASSUME TypeOK, Exclusive, Exclusive', Memory, [Next]_vars
  PROVE  Memory'
<1>1. CASE UNCHANGED vars
  BY <1>1, AroundRemembers DEF vars, InStep, Owing, Known
<1>2. ASSUME NEW p \in Procs, Evaluation(p)
      PROVE  Memory'
  <2>1. proc[p].dryRun \in BOOLEAN
    BY DEF TypeOK, Process
  <2>2. CASE ReadFails(p) \/ RefuseConfig(p) \/ Bounces(p)
    BY <2>1, <2>2, EndedRemembers DEF ReadFails, RefuseConfig, Bounces
  <2> QED
    BY <1>2, <2>2, ResumeRemembers, FreezeRemembers, DecideRemembers, LandsRemembers,
       AnswerLostRemembers DEF Evaluation
<1> QED
  BY <1>1, <1>2, SurroundingsRemember DEF Next

LEMMA InitRemembers ==
  ASSUME Init
  PROVE  Memory
<1> SUFFICES ASSUME NEW p \in Procs
             PROVE  Remembering(p)
  BY DEF Memory
<1>1. /\ proc[p].todo = <<>> /\ proc[p].active = Nobody /\ proc[p].cooling = 0
      /\ owed[p] = 0 /\ leader # p
  BY ControllerAssumption DEF Init, Fresh
<1>2. \A n \in Nodes : ~Reading(p)[n].marked
  BY DEF Init, Reading
<1> QED
  BY <1>1, <1>2 DEF Remembering, Planned, Debt, Owing, OneSeen

\* A cooldown begins where the drain resumed is of a node that has gone.
LEMMA CooldownBegins ==
  ASSUME TypeOK, [Next]_vars, NEW p \in Procs, Counts(p)
  PROVE  /\ Resume(p)
         /\ ~Reading(p)[InProgress(p, Reading(p))].exists
<1>1. proc[p] \in Process /\ proc[p].cooling \in 0..Cooldown /\ proc[p].dryRun \in BOOLEAN
  BY DEF TypeOK, Process
<1>2. ~(proc[p].cooling > proc[p].cooling) /\ ~(0 > proc[p].cooling)
  BY <1>1, ControllerAssumption
<1>3. ASSUME NEW q \in Procs, NEW m \in Process, proc' = [proc EXCEPT ![q] = m],
             m.cooling = proc[q].cooling \/ m.cooling = 0
      PROVE  FALSE
  <2>1. proc'[p] = IF p = q THEN m ELSE proc[p]
    BY <1>3 DEF TypeOK
  <2> QED
    BY <1>2, <1>3, <2>1 DEF Counts
<1>4. ASSUME NEW q \in Procs, NEW dry \in BOOLEAN, Restarted(q, dry)
      PROVE  FALSE
  <2>1. Fresh(dry) \in Process /\ Fresh(dry).cooling = 0
    BY FreshType DEF Fresh
  <2> QED
    BY <1>3, <1>4, <2>1 DEF Restarted
<1>5. ASSUME NEW q \in Procs, Fail(q)
      PROVE  FALSE
  <2> DEFINE failures == Counted(proc[q].failures)
             m == [proc[q] EXCEPT !.due = FALSE, !.todo = <<>>, !.failures = failures]
  <2>1. proc[q] \in Process /\ proc[q].dryRun \in BOOLEAN
    BY DEF TypeOK, Process
  <2>2. CASE failures < MaxFailures
    <3>1. proc' = [proc EXCEPT ![q] = m]
      BY <1>5, <2>2 DEF Fail
    <3>2. failures \in 0..MaxFailures
      BY <2>1, <2>2, ControllerAssumption DEF Counted, Process
    <3> HIDE DEF failures
    <3>3. m \in Process /\ m.cooling = proc[q].cooling
      BY <2>1, <3>2, FreshType DEF Process
    <3> HIDE DEF m
    <3> QED
      BY <1>3, <3>1, <3>3
  <2>3. CASE ~(failures < MaxFailures)
    <3>1. Restarted(q, proc[q].dryRun)
      BY <1>5, <2>3 DEF Fail
    <3> QED
      BY <1>4, <2>1, <3>1
  <2> QED
    BY <2>2, <2>3
<1>6. proc' # proc
  BY <1>2 DEF Counts
<1>7. ASSUME NEW q \in Procs, Freeze(q)
      PROVE  FALSE
  <2> DEFINE r == Reading(q)
             n == InProgress(q, r)
             k == IF n # Nobody /\ r[n].exists THEN n ELSE Nobody
             left == [proc[q] EXCEPT !.active = k]
  <2>1. k \in Nodes \union {Nobody}
    BY ReadingType, InProgressType
  <2>2. proc[q] \in Process /\ proc' = [proc EXCEPT ![q] = Succeed(left)]
    BY <1>7 DEF Freeze, TypeOK
  <2> HIDE DEF k
  <2>3. left \in Process /\ left.cooling = proc[q].cooling
    BY <2>1, <2>2, MemoryType, MemoryFields
  <2> HIDE DEF left
  <2>4. Succeed(left) \in Process /\ Succeed(left).cooling = proc[q].cooling
    BY <2>3, MemoryType, MemoryFields
  <2> QED
    BY <1>3, <2>2, <2>4
<1>8. ASSUME NEW q \in Procs, Decide(q)
      PROVE  FALSE
  <2> DEFINE eligible == Eligible(q, Reading(q))
             c == Chosen(eligible)
             left == [proc[q] EXCEPT !.active = Nobody]
             begun == [proc[q] EXCEPT !.active = Nobody, !.todo = Begin(c)]
  <2>1. proc[q] \in Process /\ Nobody \in Nodes \union {Nobody}
    BY DEF TypeOK
  <2>2. CASE eligible = {}
    <3>1. proc' = [proc EXCEPT ![q] = Succeed(left)]
      BY <1>8, <2>2 DEF Decide
    <3>2. left \in Process /\ left.cooling = proc[q].cooling
      BY <2>1, MemoryType, MemoryFields
    <3> HIDE DEF left
    <3>3. Succeed(left) \in Process /\ Succeed(left).cooling = proc[q].cooling
      BY <3>2, MemoryType, MemoryFields
    <3> QED
      BY <1>3, <3>1, <3>3
  <2>3. CASE eligible # {}
    <3>1. proc' = [proc EXCEPT ![q] = begun]
      BY <1>8, <2>3 DEF Decide
    <3>2. eligible \in SUBSET Nodes
      BY DEF Eligible
    <3>3. Begin(c) \in Seq(Write)
      BY <2>3, <3>2, ChosenType, BeginType
    <3> HIDE DEF c
    <3>4. begun \in Process /\ begun.cooling = proc[q].cooling
      BY <2>1, <3>3 DEF Process
    <3> HIDE DEF begun
    <3> QED
      BY <1>3, <3>1, <3>4
  <2> QED
    BY <2>2, <2>3
<1>9. ASSUME NEW q \in Procs, Lands(q)
      PROVE  FALSE
  <2> DEFINE w == Head(proc[q].todo)
             rest == Tail(proc[q].todo)
             left == [proc[q] EXCEPT !.todo = rest]
             told == Remembered(proc[q], w)
  <2>1. /\ proc[q] \in Process /\ w \in Write /\ rest \in Seq(Write)
        /\ proc' = [proc EXCEPT ![q] = IF rest # <<>> THEN left ELSE Succeed(told)]
    BY <1>9 DEF Lands, TypeOK, Process
  <2> HIDE DEF w, rest
  <2>2. w.on \in Nodes \union {Nobody}
    BY <2>1 DEF Write
  <2>3. left \in Process /\ left.cooling = proc[q].cooling
    BY <2>1, MemoryType, MemoryFields
  <2>4. told \in Process /\ told.cooling = proc[q].cooling
    <3>1. told \in Process
      BY <2>1, <2>2, MemoryType DEF Remembered
    <3>2. told.cooling = proc[q].cooling
      BY <2>1, <2>2, MemoryFields DEF Remembered
    <3> QED
      BY <3>1, <3>2
  <2> HIDE DEF left, told
  <2>5. Succeed(told) \in Process /\ Succeed(told).cooling = proc[q].cooling
    BY <2>4, MemoryType, MemoryFields
  <2> QED
    BY <1>3, <2>1, <2>3, <2>5
<1>10. ASSUME Tick
       PROVE  FALSE
  <2> DEFINE less == IF proc[p].cooling > 0 THEN proc[p].cooling - 1 ELSE 0
  <2>1. proc'[p] = [proc[p] EXCEPT !.due = TRUE, !.cooling = less]
    BY <1>10 DEF Tick
  <2> HIDE DEF less
  <2>2. proc'[p].cooling = less
    BY <1>1, <2>1 DEF Process
  <2> QED
    BY <1>1, <2>2, ControllerAssumption DEF Counts, less
<1>11. ASSUME NEW q \in Procs, Resume(q)
       PROVE  q = p /\ ~Reading(p)[InProgress(p, Reading(p))].exists
  <2> DEFINE r == Reading(q)
             n == InProgress(q, r)
  <2>1. r \in [Nodes -> Node] /\ n # Nobody /\ proc[q] \in Process
    BY <1>11, ReadingType DEF Resume, TypeOK
  <2>2. n \in Nodes
    BY <2>1, ResumedOne
  <2>3. ASSUME r[n].exists
        PROVE  FALSE
    <3>1. PICK steps \in StepsOf(n, r[n]) :
            proc' = [proc EXCEPT ![q] =
                      IF steps = <<>> THEN Succeed([proc[q] EXCEPT !.active = n])
                      ELSE [proc[q] EXCEPT !.active = n, !.todo = steps]]
      BY <1>11, <2>3 DEF Resume
    <3> HIDE DEF r, n
    <3> DEFINE left == [proc[q] EXCEPT !.active = n]
               gone == [proc[q] EXCEPT !.active = n, !.todo = steps]
    <3>2. left \in Process /\ left.cooling = proc[q].cooling
      BY <2>1, <2>2, MemoryType, MemoryFields
    <3>3. CASE steps = <<>>
      <4>1. proc' = [proc EXCEPT ![q] = Succeed(left)]
        BY <3>1, <3>3
      <4> HIDE DEF left
      <4>2. Succeed(left) \in Process /\ Succeed(left).cooling = proc[q].cooling
        BY <3>2, MemoryType, MemoryFields
      <4> QED
        BY <1>3, <4>1, <4>2
    <3>4. CASE steps # <<>>
      <4>1. \E w \in Write : steps = <<w>>
        BY <2>1, <2>2, <3>4, StepsType
      <4>2. steps \in Seq(Write)
        BY <4>1
      <4>3. gone \in Process /\ gone.cooling = proc[q].cooling
        BY <2>1, <2>2, <4>2 DEF Process
      <4>4. proc' = [proc EXCEPT ![q] = gone]
        BY <3>1, <3>4
      <4> HIDE DEF gone
      <4> QED
        BY <1>3, <4>3, <4>4
    <3> QED
      BY <3>3, <3>4
  <2>4. q = p
    <3>1. proc' = [proc EXCEPT ![q] = Succeed(Completed(proc[q]))]
      BY <1>11, <2>3 DEF Resume
    <3>2. q # p => proc'[p] = proc[p]
      BY <3>1 DEF TypeOK
    <3> QED
      BY <1>2, <3>2 DEF Counts
  <2> QED
    BY <2>3, <2>4
<1>12. ASSUME NEW q \in Procs, Evaluation(q)
       PROVE  q = p /\ Resume(p) /\ ~Reading(p)[InProgress(p, Reading(p))].exists
  <2>1. proc[q].dryRun \in BOOLEAN
    BY DEF TypeOK, Process
  <2>2. ~Fail(q) /\ ~Restarted(q, proc[q].dryRun)
    BY <1>4, <1>5, <2>1
  <2>3. Resume(q)
    BY <1>7, <1>8, <1>9, <1>12, <2>2
       DEF Evaluation, ReadFails, RefuseConfig, Bounces, AnswerLost
  <2> QED
    BY <1>11, <2>3
<1>13. ~Surroundings
  <2>1. \A q \in Procs : ~Restart(q)
    BY <1>4 DEF Restart
  <2>2. \A q \in Procs : ~Notice(q)
    <3>1. \A q \in Procs : proc[q].dryRun \in BOOLEAN
      BY DEF TypeOK, Process
    <3> QED
      BY <1>4, <3>1 DEF Notice
  <2> QED
    BY <1>6, <1>10, <2>1, <2>2
       DEF Surroundings, Acquire, Pause, Sync, RemoveNode, Empties, ClearMarker, PoolVanishes
<1>14. ~(UNCHANGED vars)
  BY <1>6 DEF vars
<1> QED
  BY <1>12, <1>13, <1>14 DEF Next

\* A node is marked by the write of a process, which the history has taken down.
LEMMA MarkLands ==
  ASSUME TypeOK, [Next]_vars, NEW n \in Nodes, node'[n].marked, ~node[n].marked
  PROVE  \E p \in Procs :
           /\ proc[p].todo # <<>> /\ Head(proc[p].todo).kind = "mark"
           /\ past' = Written(p) \/ past' = Unanswered(p, Head(proc[p].todo))
<1>1. ASSUME NEW w \in Write, node' = Patched(w)
      PROVE  w.kind = "mark"
  BY <1>1, PatchedType DEF Write
<1>2. ASSUME NEW p \in Procs, Lands(p) \/ AnswerLost(p)
      PROVE  /\ proc[p].todo # <<>> /\ Head(proc[p].todo).kind = "mark"
             /\ past' = Written(p) \/ past' = Unanswered(p, Head(proc[p].todo))
  <2>1. /\ proc[p].todo # <<>> /\ proc[p].todo \in Seq(Write)
        /\ node' = Patched(Head(proc[p].todo))
        /\ past' = Written(p) \/ past' = Unanswered(p, Head(proc[p].todo))
    BY <1>2 DEF Lands, AnswerLost, TypeOK, Process
  <2>2. Head(proc[p].todo) \in Write
    BY <2>1
  <2> QED
    BY <1>1, <2>1, <2>2
<1>3. node' # node
  OBVIOUS
<1>4. ASSUME NEW p \in Procs, Evaluation(p)
      PROVE  Lands(p) \/ AnswerLost(p)
  BY <1>3, <1>4
     DEF Evaluation, ReadFails, Resume, Freeze, RefuseConfig, Decide, Bounces
<1>5. ~Tick
  <2>1. ASSUME NEW v \in Node
        PROVE  Aged(v).marked = v.marked
    BY DEF Aged, Node
  <2> QED
    BY <2>1 DEF Tick, TypeOK
<1>6. ASSUME NEW k \in Nodes, RemoveNode(k) \/ Empties(k) \/ ClearMarker(k)
      PROVE  FALSE
  <2>1. CASE RemoveNode(k)
    BY <2>1 DEF RemoveNode, TypeOK
  <2>2. CASE Empties(k)
    BY <2>2 DEF Empties, TypeOK, Node
  <2>3. CASE ClearMarker(k)
    BY <2>3 DEF ClearMarker, TypeOK, Node
  <2> QED
    BY <1>6, <2>1, <2>2, <2>3
<1>7. ~Surroundings
  BY <1>3, <1>5, <1>6
     DEF Surroundings, Acquire, Restart, Pause, Notice, Sync, PoolVanishes
<1> QED
  BY <1>2, <1>3, <1>4, <1>7 DEF Next, vars

-------------------------------------------------------------------------------
LEMMA InitInv == Init => TypeOK /\ Exclusive
<1> SUFFICES ASSUME Init
             PROVE  TypeOK /\ Exclusive
  OBVIOUS
<1>1. /\ 0 \in 0..Cooldown /\ 0 \in 0..MaxUpsets /\ 0 \in 0..(Patience + 1)
      /\ 0 \in 0..Rest /\ Pods \in 0..Pods
  BY ControllerAssumption
<1>2. FALSE \in BOOLEAN /\ TRUE \in BOOLEAN
  OBVIOUS
<1>3. Fresh(FALSE) \in Process /\ Fresh(FALSE).todo = <<>>
  BY <1>2, FreshType
<1>4. node \in [Nodes -> Node]
  BY <1>1 DEF Init, Node
<1>5. cache \in [Procs -> [Nodes -> Node]] /\ proc \in [Procs -> Process]
  BY <1>3, <1>4 DEF Init
<1>6. past \in Past /\ owed \in [Procs -> 0..Cooldown] /\ upsets \in 0..MaxUpsets
  BY <1>1 DEF Init, Past
<1>7. resolves \in BOOLEAN
  BY <1>2, Zenon DEF Init
<1>8. TypeOK
  BY <1>4, <1>5, <1>6, <1>7 DEF TypeOK, Init
<1>9. \A n \in Nodes : node[n].exists /\ ~node[n].marked /\ ~node[n].cordoned
  BY DEF Init
<1>10. Faithful
  BY <1>9 DEF Faithful, Init
<1>11. OneDrainAlways /\ CordonsShown /\ leader = Nobody
  BY <1>9 DEF OneDrainAlways, CordonsShown, Init
<1> QED
  BY <1>8, <1>10, <1>11 DEF Exclusive

LEMMA NextKept ==
  ASSUME TypeOK, [Next]_vars
  PROVE  Kept
<1>1. CASE UNCHANGED vars
  <2>1. TypeOK'
    BY <1>1 DEF vars, TypeOK
  <2> QED
    BY <1>1, <2>1, QuietStep DEF vars
<1> QED
  BY <1>1, EvaluationStep, SurroundingsStep DEF Next

\* Every reachable value has its type, of the processes' memories and of the nodes.
THEOREM TypeCorrect == SafetySpec => []TypeOK
<1>1. TypeOK /\ [Next]_vars => TypeOK'
  BY NextKept DEF Kept
<1> QED
  BY <1>1, InitInv, PTL DEF SafetySpec

LEMMA ExclusiveHolds == SafetySpec => [](TypeOK /\ Exclusive)
<1>1. TypeOK /\ Exclusive /\ [Next]_vars => TypeOK' /\ Exclusive'
  BY NextKept DEF Kept
<1> QED
  BY <1>1, InitInv, PTL DEF SafetySpec

\* One drain at a time, over failed and half-done evaluations, lost answers, restarts
\* and changes of leader, as long as binpack is in step: no process has written after
\* its lease had gone, none acted on a cache that shows other marks than there are.
THEOREM OneDrainHolds == SafetySpec => []OneDrain
<1>1. Exclusive => OneDrain
  BY DEF Exclusive, OneDrain, OneDrainAlways
<1> QED
  BY <1>1, ExclusiveHolds, PTL

\* As long as binpack is in step a cordon it put on keeps its marker, unless somebody
\* else took it off: the cordon comes after the mark and goes with it, and a repair
\* finds the marker it was decided on.
THEOREM CordonsMarked == SafetySpec => []CordonsAreMarked
<1>1. Exclusive => CordonsAreMarked
  BY DEF Exclusive, CordonsAreMarked, CordonsShown, Shown, Faithful
<1> QED
  BY <1>1, ExclusiveHolds, PTL

LEMMA MemoryHolds == SafetySpec => [](TypeOK /\ Exclusive /\ Memory)
<1>1. Init => TypeOK /\ Exclusive /\ Memory
  BY InitInv, InitRemembers
<1>2. TypeOK /\ Exclusive /\ Memory /\ [Next]_vars => TypeOK' /\ Exclusive' /\ Memory'
  BY NextKept, NextRemembers DEF Kept
<1> QED
  BY <1>1, <1>2, PTL DEF SafetySpec

\* As long as binpack is in step a completion is counted only of a node that went with
\* its marker on, or whose marker somebody else took off, or that was handed back by a
\* patch whose answer was lost: the active node of the leader is always that of a drain
\* it has seen, and it has gone when it is resumed without being there.
THEOREM CompletionsHold == SafetySpec => CompletionsAreReal
<1> DEFINE Real == \A p \in Procs : InStep' /\ Counts(p) =>
                proc[p].active \in past.finished \union past.cleared \union past.unheard
<1>1. ASSUME TypeOK, Exclusive, Memory, [Next]_vars, NEW p \in Procs, InStep', Counts(p)
      PROVE  proc[p].active \in past.finished \union past.cleared \union past.unheard
  <2> DEFINE r == Reading(p)
             n == InProgress(p, r)
  <2>1. Resume(p) /\ ~r[n].exists
    BY <1>1, CooldownBegins
  <2>2. /\ r \in [Nodes -> Node] /\ n # Nobody /\ leader = p /\ past' = Seen(p)
        /\ ~proc[p].dryRun
    BY <1>1, <2>1, ReadingType DEF Resume, Starts
  <2>3. InStep
    BY <1>1, <2>2, SeenType DEF InStep
  <2>4. OneSeen(p) /\ KeepsTrack(p)
    BY <1>1, <2>2, <2>3 DEF Memory, Remembering
  <2>5. n \in Nodes /\ n = proc[p].active
    BY <1>1, <2>1, <2>2, <2>4, ResumedOne DEF OneSeen
  <2>6. Known(proc[p].active)
    BY <2>2, <2>4, <2>5 DEF KeepsTrack
  <2>7. ~node[n].exists
    BY <1>1, <2>1, <2>5 DEF Exclusive, Faithful, Reading
  <2>8. ~node[proc[p].active].marked
    BY <1>1, <2>5, <2>7 DEF Exclusive, Faithful
  <2> QED
    BY <2>6, <2>8 DEF Known
<1>2. TypeOK /\ Exclusive /\ Memory /\ [Next]_vars => Real
  BY <1>1
<1>3. SafetySpec => [][Real]_vars
  BY <1>2, MemoryHolds, PTL DEF SafetySpec
<1> QED
  BY <1>3 DEF CompletionsAreReal

\* As long as binpack is in step no node is marked while the process that saw a drain
\* finish still owes the cluster a cooldown: it has either counted that drain, and waits,
\* or it still remembers the node and finds out before it decides.
THEOREM CooldownKept == SafetySpec => CooldownHolds
<1> DEFINE Held == \A n \in Nodes : InStep' /\ node'[n].marked /\ ~node[n].marked =>
                \A p \in Procs : leader = p => owed[p] = 0
<1>1. ASSUME TypeOK, Exclusive, Memory, [Next]_vars, NEW n \in Nodes, InStep',
             node'[n].marked, ~node[n].marked
      PROVE  \A p \in Procs : leader = p => owed[p] = 0
  <2>1. PICK p \in Procs :
          /\ proc[p].todo # <<>> /\ Head(proc[p].todo).kind = "mark"
          /\ past' = Written(p) \/ past' = Unanswered(p, Head(proc[p].todo))
    BY <1>1, MarkLands
  <2>2. Head(proc[p].todo) \in Write
    BY <1>1, <2>1 DEF TypeOK, Process
  <2>3. InStep /\ leader = p
    BY <1>1, <2>1, <2>2, WrittenType DEF InStep
  <2>4. Planned(p) /\ KeepsTrack(p)
    BY <1>1, <2>3 DEF Memory, Remembering
  <2>5. \A w \in Write : proc[p].todo = <<w>> => Head(proc[p].todo) = w
    OBVIOUS
  <2>6. \E k \in Nodes : proc[p].todo = Begin(k)
    BY <2>1, <2>4, <2>5 DEF Planned
  <2> QED
    BY <2>3, <2>4, <2>6 DEF KeepsTrack
<1>2. TypeOK /\ Exclusive /\ Memory /\ [Next]_vars => Held
  BY <1>1
<1>3. SafetySpec => [][Held]_vars
  BY <1>2, MemoryHolds, PTL DEF SafetySpec
<1> QED
  BY <1>3 DEF CooldownHolds
===============================================================================
