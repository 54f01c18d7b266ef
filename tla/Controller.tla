------------------------------- MODULE Controller -------------------------------
(***************************************************************************)
(* binpack's evaluation loop over several nodes (internal/controller), its *)
(* replicas behind a lease, and what each of them remembers.               *)
(*                                                                         *)
(* Once an interval the leader reads the cluster and either resumes the    *)
(* drain it finds marked or decides on a new one; what one drain does is   *)
(* the module Drain's, and here only how a step of it can end.  The unit   *)
(* of time is the interval.  What survives a process is on the nodes; the  *)
(* rest (the active node, the cooldown's start, the failures) dies with    *)
(* it.                                                                     *)
(***************************************************************************)
EXTENDS Naturals, Sequences, FiniteSets

CONSTANTS
  Nodes,        \* node names, as numbers: their order is the order of names
  Rank,         \* [Nodes -> Nat]: least loaded first
  Pods,         \* pods on every node at the start
  Procs,        \* the replicas
  Nobody,       \* no node, no process
  Rest,         \* intervals of backoff after a failed drain
  Cooldown,     \* intervals of cooldown.afterDrain
  Patience,     \* intervals without progress before a drain is given up
  MaxFailures,  \* maxConsecutiveFailures
  MaxUpsets,    \* bound: disturbances from outside
  Faults,       \* whether reads and writes may fail
  Lagging,      \* whether a watch cache may be behind
  Pauses        \* whether a process may be suspended past its lease

ASSUME ControllerAssumption ==
  /\ Nodes \subseteq Nat /\ IsFiniteSet(Nodes)
  /\ Rank \in [Nodes -> Nat]
  /\ \A m, n \in Nodes : Rank[m] = Rank[n] => m = n
  /\ Pods \in Nat /\ Rest \in Nat /\ Cooldown \in Nat /\ Patience \in Nat
  /\ MaxFailures \in Nat \ {0} /\ MaxUpsets \in Nat
  /\ Nobody \notin Nodes /\ Nobody \notin Procs
  /\ {Faults, Lagging, Pauses} \subseteq BOOLEAN

VARIABLES
  node,    \* the cluster's nodes
  cache,   \* what each process's watch cache holds of them
  leader,  \* the holder of the lease
  proc,    \* each process's memory and the writes of its evaluation under way
  resolves,\* whether the configuration fits the cluster (ResolvePools)
  past,    \* history, for the properties only
  owed,    \* history: what is left of a cooldown each process should observe
  upsets   \* disturbances so far

vars == <<node, cache, leader, proc, resolves, past, owed, upsets>>

\* quiet is how long ago the drain last moved, rest what is left of backoff.
Node == [exists: BOOLEAN, marked: BOOLEAN, cordoned: BOOLEAN, left: 0..Pods,
         quiet: 0..(Patience + 1), rest: 0..Rest]

Write == [kind: {"mark", "cordon", "repair", "evict", "handback"}, on: Nodes]

\* due: the ticker has fired.  cooling: what is left of the cooldown.
Process == [dryRun: BOOLEAN, due: BOOLEAN, active: Nodes \union {Nobody},
            cooling: 0..Cooldown, failures: 0..MaxFailures, todo: Seq(Write)]

\* The nodes removed with their marker on, those whose marker somebody else took
\* off, those handed back without binpack learning of it; whether a process wrote
\* when it no longer had the lease, and whether one acted on marks long changed.
Past == [finished: SUBSET Nodes, cleared: SUBSET Nodes, unheard: SUBSET Nodes,
         late: BOOLEAN, blind: BOOLEAN]

TypeOK ==
  /\ node \in [Nodes -> Node]
  /\ cache \in [Procs -> [Nodes -> Node]]
  /\ leader \in Procs \union {Nobody}
  /\ proc \in [Procs -> Process]
  /\ resolves \in BOOLEAN
  /\ past \in Past
  /\ owed \in [Procs -> 0..Cooldown]
  /\ upsets \in 0..MaxUpsets

Fresh(dry) == [dryRun |-> dry, due |-> TRUE, active |-> Nobody, cooling |-> 0,
               failures |-> 0, todo |-> <<>>]

Init ==
  /\ node = [n \in Nodes |-> [exists |-> TRUE, marked |-> FALSE, cordoned |-> FALSE,
                              left |-> Pods, quiet |-> 0, rest |-> 0]]
  /\ cache = [p \in Procs |-> node]
  /\ leader = Nobody
  /\ proc = [p \in Procs |-> Fresh(FALSE)]
  /\ resolves = TRUE
  /\ past = [finished |-> {}, cleared |-> {}, unheard |-> {},
             late |-> FALSE, blind |-> FALSE]
  /\ owed = [p \in Procs |-> 0]
  /\ upsets = 0

-------------------------------------------------------------------------------
(***************************************************************************)
(* One evaluation.                                                         *)
(***************************************************************************)
Reading(p) == IF Lagging THEN cache[p] ELSE node

\* engine.Marked: the first by name, so that two of them are taken in turn.
\* Variants: a mark without its cordon is not a drain yet; two are a state to refuse.
FirstOf(names) == IF names = {} THEN Nobody
                  ELSE CHOOSE n \in names : \A m \in names : n <= m
MarkedAndCordoned(r) == FirstOf({n \in Nodes : r[n].marked /\ r[n].cordoned})
TheOnlyOne(r) ==
  LET marked == {n \in Nodes : r[n].marked}
  IN  IF Cardinality(marked) = 1 THEN FirstOf(marked) ELSE Nobody
Marked(r) == FirstOf({n \in Nodes : r[n].marked})

\* The drain to resume: a marked node, or the active one once it has gone.
\* Variant: only what the nodes say.
OnlyTheMarked(p, r) == Marked(r)
InProgress(p, r) ==
  IF Marked(r) # Nobody THEN Marked(r)
  ELSE IF proc[p].active # Nobody /\ ~r[proc[p].active].exists THEN proc[p].active
  ELSE Nobody

\* What Decide may choose from.
Eligible(p, r) ==
  {n \in Nodes : /\ r[n].exists /\ ~r[n].marked /\ ~r[n].cordoned
                 /\ r[n].rest = 0 /\ proc[p].cooling = 0}

Chosen(S) == CHOOSE n \in S : \A m \in S : Rank[n] <= Rank[m]

\* The write one step of a drain makes.  A step may find a reason to give the
\* node back at any time, and has one when nothing has moved for too long.
StepsOf(n, state) ==
  LET give == <<[kind |-> "handback", on |-> n]>>
  IN  IF state.quiet > Patience THEN {give}
      ELSE IF ~state.cordoned THEN {<<[kind |-> "repair", on |-> n]>>, give}
      ELSE {<<>>, give} \union
           (IF state.left > 0 THEN {<<[kind |-> "evict", on |-> n]>>} ELSE {})

\* History: the marks an evaluation goes by are not those the cluster has, or
\* had when a node was removed.
Seen(p) ==
  LET r == Reading(p) IN
  [past EXCEPT !.blind = @ \/ \E n \in Nodes :
     r[n].exists /\ r[n].marked # (node[n].marked \/ n \in past.finished)]

Starts(p) == leader = p /\ proc[p].due /\ proc[p].todo = <<>>

\* The evaluation is over and did not fail.
Succeed(m) == [m EXCEPT !.due = FALSE, !.failures = 0, !.todo = <<>>]

\* The process ends and another takes its place, with nothing remembered.
Restarted(p, dry) ==
  /\ proc' = [proc EXCEPT ![p] = Fresh(dry)]
  /\ cache' = [cache EXCEPT ![p] = IF Lagging THEN node' ELSE @]
  /\ leader' = IF leader = p THEN Nobody ELSE leader
  /\ owed' = [owed EXCEPT ![p] = 0]

\* failed: the last failure of so many in a row ends the process.
\* Variant: the counter is set and not raised.
SetToOne(failures) == 1
Counted(failures) == failures + 1

Fail(p) ==
  LET failures == Counted(proc[p].failures) IN
  IF failures < MaxFailures
    THEN /\ proc' = [proc EXCEPT ![p] = [@ EXCEPT !.due = FALSE, !.todo = <<>>,
                                                 !.failures = failures]]
         /\ UNCHANGED <<cache, leader, owed>>
    ELSE Restarted(p, proc[p].dryRun)

ReadFails(p) ==
  /\ Faults /\ Starts(p)
  /\ UNCHANGED <<node, resolves, past, upsets>>
  /\ Fail(p)

\* advance, up to its first write, or all of it when the node has gone.
\* Variant: every ending is a completion.
AnyEnd(m) == [m EXCEPT !.active = Nobody, !.cooling = Cooldown]
Abandoned(m) == [m EXCEPT !.active = Nobody]
Completed(m) == [m EXCEPT !.active = Nobody, !.cooling = Cooldown]

\* A configuration that does not resolve is judged after the resume.
\* Variant: before it.
AtOnce(p) == ~resolves
RefusesConfig(p) ==
  ~resolves /\ (proc[p].dryRun \/ InProgress(p, Reading(p)) = Nobody)

Resume(p) ==
  LET r == Reading(p)
      n == InProgress(p, r)
  IN  /\ Starts(p) /\ ~proc[p].dryRun /\ ~RefusesConfig(p) /\ n # Nobody
      /\ IF ~r[n].exists
           THEN proc' = [proc EXCEPT ![p] = Succeed(Completed(@))]
           ELSE \E steps \in StepsOf(n, r[n]) :
                  proc' = [proc EXCEPT ![p] =
                    IF steps = <<>> THEN Succeed([@ EXCEPT !.active = n])
                    ELSE [@ EXCEPT !.active = n, !.todo = steps]]
      /\ past' = Seen(p)
      /\ UNCHANGED <<node, cache, leader, resolves, owed, upsets>>

\* frozen, and the decision it falls through to, which writes nothing.
Freeze(p) ==
  LET r == Reading(p)
      n == InProgress(p, r)
  IN  /\ Starts(p) /\ proc[p].dryRun /\ ~RefusesConfig(p)
      /\ proc' = [proc EXCEPT ![p] =
           Succeed([@ EXCEPT !.active =
             IF n # Nobody /\ r[n].exists THEN n ELSE Nobody])]
      /\ UNCHANGED <<node, cache, leader, resolves, past, owed, upsets>>

RefuseConfig(p) ==
  /\ Starts(p) /\ RefusesConfig(p)
  /\ UNCHANGED <<node, resolves, past, upsets>>
  /\ Restarted(p, proc[p].dryRun)

\* Begin: marked first, so that a process that stops in between leaves evidence.
\* Variant: cordoned first.
CordonFirst(n) == <<[kind |-> "cordon", on |-> n], [kind |-> "mark", on |-> n]>>
Begin(n) == <<[kind |-> "mark", on |-> n], [kind |-> "cordon", on |-> n]>>

Decide(p) ==
  LET r == Reading(p)
      eligible == Eligible(p, r)
  IN  /\ Starts(p) /\ ~proc[p].dryRun /\ ~RefusesConfig(p)
      /\ InProgress(p, r) = Nobody
      /\ proc' = [proc EXCEPT ![p] =
           IF eligible = {} THEN Succeed([@ EXCEPT !.active = Nobody])
           ELSE [@ EXCEPT !.active = Nobody, !.todo = Begin(Chosen(eligible))]]
      /\ past' = Seen(p)
      /\ UNCHANGED <<node, cache, leader, resolves, owed, upsets>>

-------------------------------------------------------------------------------
(***************************************************************************)
(* Its writes.  A merge patch carries no precondition: it lands on the     *)
(* node as it is by then.                                                  *)
(***************************************************************************)
Patched(w) ==
  CASE w.kind = "mark" -> [node EXCEPT ![w.on].marked = TRUE, ![w.on].quiet = 0]
    [] w.kind \in {"cordon", "repair"} -> [node EXCEPT ![w.on].cordoned = TRUE]
    [] w.kind = "evict" ->
         [node EXCEPT ![w.on].left = IF @ > 0 THEN @ - 1 ELSE 0, ![w.on].quiet = 0]
    [] w.kind = "handback" ->
         [node EXCEPT ![w.on].marked = FALSE, ![w.on].cordoned = FALSE,
                      ![w.on].quiet = 0, ![w.on].rest = Rest]

\* What the process remembers once the evaluation's last write has answered.
Remembered(m, w) ==
  IF w.kind = "handback" THEN Abandoned(m)
  ELSE IF w.kind = "cordon" THEN [m EXCEPT !.active = w.on]
  ELSE m

Written(p) == [past EXCEPT !.late = @ \/ leader # p]

Unanswered(p, w) ==
  [Written(p) EXCEPT !.unheard = IF w.kind = "handback" THEN @ \union {w.on} ELSE @]

Lands(p) ==
  LET w == Head(proc[p].todo)
      rest == Tail(proc[p].todo)
  IN  /\ proc[p].todo # <<>> /\ node[w.on].exists
      /\ node' = Patched(w)
      /\ proc' = [proc EXCEPT ![p] = IF rest # <<>> THEN [@ EXCEPT !.todo = rest]
                                     ELSE Succeed(Remembered(@, w))]
      /\ past' = Written(p)
      /\ UNCHANGED <<cache, leader, resolves, owed, upsets>>

\* Refused, or the node is not there any more.
Bounces(p) ==
  /\ proc[p].todo # <<>>
  /\ Faults \/ ~node[Head(proc[p].todo).on].exists
  /\ UNCHANGED <<node, resolves, past, upsets>>
  /\ Fail(p)

\* It takes effect and the answer is lost.
AnswerLost(p) ==
  LET w == Head(proc[p].todo) IN
  /\ Faults /\ proc[p].todo # <<>> /\ node[w.on].exists
  /\ node' = Patched(w)
  /\ past' = Unanswered(p, w)
  /\ UNCHANGED <<resolves, upsets>>
  /\ Fail(p)

Evaluation(p) ==
  \/ ReadFails(p) \/ Resume(p) \/ Freeze(p) \/ RefuseConfig(p) \/ Decide(p)
  \/ Lands(p) \/ Bounces(p) \/ AnswerLost(p)

-------------------------------------------------------------------------------
(***************************************************************************)
(* Around it.                                                              *)
(***************************************************************************)
Upset == upsets < MaxUpsets /\ upsets' = upsets + 1

\* What tells a process that has led from a new one.
Remembers(p) == \/ proc[p].todo # <<>> \/ proc[p].active # Nobody
                \/ proc[p].failures > 0 \/ proc[p].cooling > 0

\* A process that lost the lease ends before it, or its successor, stands again.
Acquire(p) ==
  /\ leader = Nobody /\ ~Remembers(p)
  /\ leader' = p
  /\ UNCHANGED <<node, cache, proc, resolves, past, owed, upsets>>

\* A crash, a rolling update, an operator switching dry run on or off.
Restart(p) ==
  /\ Upset
  /\ UNCHANGED <<node, resolves, past>>
  /\ \E dry \in BOOLEAN : Restarted(p, dry)

\* A process suspended between two writes loses the lease, and notices late.
Pause(p) ==
  /\ Pauses /\ leader = p /\ proc[p].todo # <<>> /\ Upset
  /\ leader' = Nobody
  /\ UNCHANGED <<node, cache, proc, resolves, past, owed>>

Notice(p) ==
  /\ leader # p /\ Remembers(p)
  /\ UNCHANGED <<node, resolves, past, upsets>>
  /\ Restarted(p, proc[p].dryRun)

Sync(p) ==
  /\ Lagging /\ cache[p] # node
  /\ cache' = [cache EXCEPT ![p] = node]
  /\ UNCHANGED <<node, leader, proc, resolves, past, owed, upsets>>

\* The cluster-autoscaler deletes an empty node.  The leader that remembers a
\* drain of it owes the cluster a cooldown from here.
RemoveNode(n) ==
  LET drained == node[n].marked IN
  /\ node[n].exists /\ node[n].left = 0
  /\ node' = [node EXCEPT ![n] = [exists |-> FALSE, marked |-> FALSE, cordoned |-> FALSE,
                                  left |-> 0, quiet |-> 0, rest |-> 0]]
  /\ past' = [past EXCEPT !.finished = IF drained THEN @ \union {n} ELSE @]
  /\ owed' = [p \in Procs |-> IF drained /\ leader = p /\ proc[p].active = n
                                THEN Cooldown ELSE owed[p]]
  /\ UNCHANGED <<cache, leader, proc, resolves, upsets>>

\* The last pods of a node leave by themselves.
Empties(n) ==
  /\ node[n].exists /\ node[n].left > 0 /\ Upset
  /\ node' = [node EXCEPT ![n].left = 0]
  /\ UNCHANGED <<cache, leader, proc, resolves, past, owed>>

\* An operator takes binpack's marker and cordon off.
ClearMarker(n) ==
  /\ node[n].marked /\ Upset
  /\ node' = [node EXCEPT ![n].marked = FALSE, ![n].cordoned = FALSE, ![n].quiet = 0]
  /\ past' = [past EXCEPT !.cleared = @ \union {n}]
  /\ UNCHANGED <<cache, leader, proc, resolves, owed>>

\* The pool an override names leaves the cluster.
PoolVanishes ==
  /\ resolves /\ Upset
  /\ resolves' = FALSE
  /\ UNCHANGED <<node, cache, leader, proc, past, owed>>

\* An interval passes; the leader has evaluated in the one before, and a process that
\* is suspended may stay so for many.
\* Variant: the age of a drain is not capped.
Uncapped(n) == [n EXCEPT !.quiet = IF n.marked THEN @ + 1 ELSE @,
                         !.rest = IF @ > 0 THEN @ - 1 ELSE 0]
Aged(n) == [n EXCEPT !.quiet = IF n.marked /\ @ <= Patience THEN @ + 1 ELSE @,
                     !.rest = IF @ > 0 THEN @ - 1 ELSE 0]

Tick ==
  /\ leader # Nobody => ~proc[leader].due
  /\ node' = [n \in Nodes |-> Aged(node[n])]
  /\ cache' = [p \in Procs |->
                 IF Lagging THEN [n \in Nodes |-> Aged(cache[p][n])] ELSE cache[p]]
  /\ proc' = [p \in Procs |-> [proc[p] EXCEPT !.due = TRUE,
                !.cooling = IF @ > 0 THEN @ - 1 ELSE 0]]
  /\ owed' = [p \in Procs |-> IF owed[p] > 0 THEN owed[p] - 1 ELSE 0]
  /\ UNCHANGED <<leader, resolves, past, upsets>>

Surroundings ==
  \/ \E p \in Procs : Acquire(p) \/ Restart(p) \/ Pause(p) \/ Notice(p) \/ Sync(p)
  \/ \E n \in Nodes : RemoveNode(n) \/ Empties(n) \/ ClearMarker(n)
  \/ PoolVanishes \/ Tick

Next == (\E p \in Procs : Evaluation(p)) \/ Surroundings

SafetySpec == Init /\ [][Next]_vars

(***************************************************************************)
(* A process that leads evaluates at every tick, reads and writes do not   *)
(* fail for ever, the lease finds a holder, a cache catches up and time    *)
(* passes.  Nothing says the autoscaler removes anything.                  *)
(***************************************************************************)
Fairness ==
  /\ \A p \in Procs : /\ SF_vars(Resume(p)) /\ SF_vars(Decide(p))
                       /\ WF_vars(Freeze(p)) /\ WF_vars(RefuseConfig(p))
                       /\ SF_vars(Lands(p)) /\ WF_vars(Bounces(p))
                       /\ WF_vars(Acquire(p)) /\ WF_vars(Notice(p)) /\ SF_vars(Sync(p))
  /\ SF_vars(Tick)

Spec == SafetySpec /\ Fairness

-------------------------------------------------------------------------------
(***************************************************************************)
(* What the loop must never get wrong.                                     *)
(***************************************************************************)

\* No process has written after its lease had gone, nor acted on a cache that does
\* not show the marks as they are: it lacks one that was just set, or still has
\* one that was taken off.  Either undoes each of what follows.
InStep == ~past.late /\ ~past.blind

\* One drain at a time, across failed and half-done evaluations, lost answers,
\* restarts and changes of leader: the marker is all a process needs to find a
\* drain.
OneDrain ==
  InStep => \A m, n \in Nodes : node[m].marked /\ node[n].marked => m = n

\* The same without the condition, as the comment on Marked has it.
OneDrainAlways == \A m, n \in Nodes : node[m].marked /\ node[n].marked => m = n

\* A cordon binpack put on never loses its marker, or nothing would lift it,
\* unless somebody else took the marker off.
CordonsAreMarked ==
  InStep => \A n \in Nodes \ past.cleared : node[n].cordoned => node[n].marked

\* The same without the conditions.
CordonsAreAlwaysMarked == \A n \in Nodes : node[n].cordoned => node[n].marked

\* No node is marked within the cooldown of a drain that finished, as long as
\* the process that saw that drain lives: the memory of the active node
\* survives failed evaluations and every order of removal and reading.
CooldownHolds ==
  [][\A n \in Nodes : InStep' /\ node'[n].marked /\ ~node[n].marked =>
       \A p \in Procs : leader = p => owed[p] = 0]_vars

\* The process p takes a drain for completed.
Counts(p) == proc'[p].cooling > proc[p].cooling

\* A completion is counted only of a node removed with its marker on.  Two
\* markers vanish where the process cannot see it: one taken off by somebody
\* else, and one of a hand-back whose answer was lost.
CompletionsAreReal ==
  [][\A p \in Procs : InStep' /\ Counts(p) =>
       proc[p].active \in past.finished \union past.cleared \union past.unheard]_vars

\* "Only a drain that finished": the same without those.
OnlyFinishedDrainsCount ==
  [][\A p \in Procs : Counts(p) => proc[p].active \in past.finished]_vars

\* Every marked node is removed or handed back in the end, the second of two as well
\* and one that a deposed leader marked after its successor had handed it back, with
\* the pools of the configuration gone and over any restarts, unless from some time
\* on whoever leads is in dry run.
DrainsResolve ==
  \A n \in Nodes :
    \/ node[n].marked ~> ~node[n].marked
    \/ <>[](\A p \in Procs : leader = p => proc[p].dryRun)

\* A node whose drain keeps failing does not keep the others from their turn:
\* its own backoff makes room for them and no cooldown follows it.  Lost answers
\* and upsets may, as the backoff is over by the time the node is looked at.
OthersGetTheirTurn ==
  \A n \in Nodes : node[n].exists ~>
    node[n].marked \/ ~node[n].exists \/ past.blind \/ upsets > 0
      \/ \E p \in Procs : proc[p].failures > 0

\* Failures end: by an evaluation that succeeds or by the process's own exit.
FailuresEnd ==
  \A p \in Procs : proc[p].failures > 0 ~> proc[p].failures = 0
===============================================================================
