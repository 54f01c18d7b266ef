-------------------------------- MODULE Reading --------------------------------
(***************************************************************************)
(* What one drain makes of a reading that is several lists, each from a    *)
(* watch cache of its own age (internal/collect), and of pods that keep    *)
(* their names: a StatefulSet recreates each of its pods under the name of *)
(* the one that went, and an eviction says a name and nothing else.        *)
(*                                                                         *)
(* The pods are the replicas of one controller.  Times count evaluations.  *)
(***************************************************************************)
EXTENDS Naturals

CONSTANTS
  Pods,        \* the names
  AtFirst,     \* [Pods -> "node" or "elsewhere"]
  MaxTime,     \* bound: evaluations
  MaxUpsets,   \* bound: pods deleted by somebody else
  PodLag,      \* whether the cache of pods may be behind
  NodeLag,     \* whether the cache of nodes may be behind
  NoPod

ASSUME ReadingAssumption ==
  /\ AtFirst \in [Pods -> {"node", "elsewhere"}]
  /\ MaxTime \in Nat /\ MaxUpsets \in Nat
  /\ {PodLag, NodeLag} \subseteq BOOLEAN
  /\ NoPod \notin Pods

VARIABLES
  pod,      \* the pod each name stands for now
  marker,   \* drain-awaiting: the time it gives, 0 when it names no controller
  cache,    \* what the watch caches hold of the two
  now,      \* the time of the last reading
  pc,       \* the next write of the evaluation under way
  job,      \* the pod it evicts, and when the pod it read was created
  past,     \* history, for the properties only
  upsets    \* disturbances so far

vars == <<pod, marker, cache, now, pc, job, past, upsets>>

Pod == [at: {"node", "elsewhere", "pending", "none"}, leaving: BOOLEAN, born: 0..MaxTime]

\* away: evicted, with no node again yet.  unsure: an identity patch was lost, or a
\* pod deleted by somebody else, since a victim was last chosen from a list that was
\* up to date, with every replica bound.
Past == [away: SUBSET Pods, unsure: BOOLEAN]

TypeOK ==
  /\ pod \in [Pods -> Pod]
  /\ marker \in 0..MaxTime
  /\ cache \in [pod: [Pods -> Pod], marker: 0..MaxTime]
  /\ now \in 0..MaxTime
  /\ pc \in {"idle", "settle", "commit", "evict", "identify"}
  /\ job \in [victim: Pods \union {NoPod}, born: 0..MaxTime]
  /\ past \in Past
  /\ upsets \in 0..MaxUpsets

NoJob == [victim |-> NoPod, born |-> 0]

Init ==
  /\ pod = [p \in Pods |-> [at |-> AtFirst[p], leaving |-> FALSE, born |-> 0]]
  /\ marker = 0 /\ cache = [pod |-> pod, marker |-> 0]
  /\ now = 0 /\ pc = "idle" /\ job = NoJob
  /\ past = [away |-> {}, unsure |-> FALSE]
  /\ upsets = 0

-------------------------------------------------------------------------------
(***************************************************************************)
(* One evaluation.                                                         *)
(***************************************************************************)
Listed == [pod |-> IF PodLag THEN cache.pod ELSE pod,
           marker |-> IF NodeLag THEN cache.marker ELSE marker]

Owed(r) == r.marker # 0

\* replacementFor.  Variant: any of the controller's pods that is bound.
AnyReplica(r) == \E p \in Pods : r.pod[p].at = "elsewhere"
Landed(r) == \E p \in Pods : r.pod[p].at = "elsewhere" /\ r.pod[p].born >= r.marker

InFlight(r) == \E p \in Pods : r.pod[p].at = "node" /\ r.pod[p].leaving

\* residentSince: what was there when the drain started.
Staying(r) == {p \in Pods : r.pod[p].at = "node" /\ r.pod[p].born = 0}

AllBound == \A p \in Pods : pod[p].at \in {"node", "elsewhere"} /\ ~pod[p].leaving

Read ==
  LET r == Listed IN
  /\ pc = "idle" /\ now < MaxTime
  /\ now' = now + 1
  /\ IF Owed(r) /\ ~Landed(r) THEN UNCHANGED <<pc, job, past>>
     ELSE IF InFlight(r) \/ Staying(r) = {}
       THEN /\ pc' = IF Owed(r) THEN "settle" ELSE "idle"
            /\ UNCHANGED <<job, past>>
     ELSE \E p \in Staying(r) :
            /\ pc' = IF Owed(r) THEN "settle" ELSE "commit"
            /\ job' = [victim |-> p, born |-> r.pod[p].born]
            /\ past' = [past EXCEPT !.unsure = @ /\ (r.pod # pod \/ ~AllBound)]
  /\ UNCHANGED <<pod, marker, cache, upsets>>

\* The marker names no controller any more.
Settle ==
  /\ pc = "settle"
  /\ marker' = 0
  /\ pc' = IF job.victim = NoPod THEN "idle" ELSE "commit"
  /\ UNCHANGED <<pod, cache, now, job, past, upsets>>

Commit ==
  /\ pc = "commit"
  /\ marker' = 0 /\ pc' = "evict"
  /\ UNCHANGED <<pod, cache, now, job, past, upsets>>

\* The pod of that name, whichever it is by then; none at all is success.
Disrupts == pod[job.victim].at # "none" /\ ~pod[job.victim].leaving

Leaves(p) ==
  pod' = [pod EXCEPT ![p] = IF @.at = "pending" THEN [@ EXCEPT !.at = "none"]
                            ELSE [@ EXCEPT !.leaving = TRUE]]

EvictionTakesEffect ==
  IF Disrupts
    THEN /\ Leaves(job.victim)
         /\ past' = [past EXCEPT !.away = @ \union {job.victim}]
    ELSE UNCHANGED <<pod, past>>

Evict ==
  /\ pc = "evict"
  /\ EvictionTakesEffect
  /\ pc' = "identify"
  /\ UNCHANGED <<marker, cache, now, job, upsets>>

\* Variant: the time is rounded up.
RoundsUp ==
  /\ pc = "identify"
  /\ marker' = now + 1
  /\ pc' = "idle" /\ job' = NoJob
  /\ UNCHANGED <<pod, cache, now, past, upsets>>

Identify ==
  /\ pc = "identify"
  /\ marker' = now
  /\ pc' = "idle" /\ job' = NoJob
  /\ UNCHANGED <<pod, cache, now, past, upsets>>

\* A write is refused, or the process goes.
Fail ==
  /\ pc # "idle"
  /\ past' = [past EXCEPT !.unsure = @ \/ pc = "identify"]
  /\ pc' = "idle" /\ job' = NoJob
  /\ UNCHANGED <<pod, marker, cache, now, upsets>>

Binpack == Read \/ Settle \/ Commit \/ Evict \/ Identify \/ Fail

-------------------------------------------------------------------------------
(***************************************************************************)
(* Around it.                                                              *)
(***************************************************************************)
SyncPods ==
  /\ cache.pod # pod
  /\ cache' = [cache EXCEPT !.pod = pod]
  /\ UNCHANGED <<pod, marker, now, pc, job, past, upsets>>

SyncNode ==
  /\ cache.marker # marker
  /\ cache' = [cache EXCEPT !.marker = marker]
  /\ UNCHANGED <<pod, marker, now, pc, job, past, upsets>>

Finish(p) ==
  /\ pod[p].leaving
  /\ pod' = [pod EXCEPT ![p] = [@ EXCEPT !.at = "none", !.leaving = FALSE]]
  /\ UNCHANGED <<marker, cache, now, pc, job, past, upsets>>

Recreate(p) ==
  /\ pod[p].at = "none"
  /\ pod' = [pod EXCEPT ![p] = [at |-> "pending", leaving |-> FALSE, born |-> now]]
  /\ UNCHANGED <<marker, cache, now, pc, job, past, upsets>>

Schedule(p) ==
  /\ pod[p].at = "pending"
  /\ pod' = [pod EXCEPT ![p].at = "elsewhere"]
  /\ past' = [past EXCEPT !.away = @ \ {p}]
  /\ UNCHANGED <<marker, cache, now, pc, job, upsets>>

\* Somebody else deletes it, here or elsewhere.
Delete(p) ==
  /\ upsets < MaxUpsets /\ upsets' = upsets + 1
  /\ pod[p].at # "none" /\ ~pod[p].leaving
  /\ Leaves(p)
  /\ past' = [past EXCEPT !.unsure = TRUE]
  /\ UNCHANGED <<marker, cache, now, pc, job>>

Cluster ==
  \/ SyncPods \/ SyncNode
  \/ \E p \in Pods : Finish(p) \/ Recreate(p) \/ Schedule(p) \/ Delete(p)

Next == Binpack \/ Cluster

Spec == Init /\ [][Next]_vars

-------------------------------------------------------------------------------
(***************************************************************************)
(* Properties.                                                             *)
(***************************************************************************)
Evicts == Evict /\ Disrupts

\* One replacement in flight, from a list of pods of any age: a pod that has come
\* back is only ever seen too late.  The exceptions are an identity patch that was
\* lost, and a pod that somebody else deleted, until the drain has caught up.
OneAway == [][Evicts => past.away = {} \/ past.unsure]_vars

\* An eviction disrupts the pod the evaluation read and decided about, not the one
\* that has taken its name since, although it carries a name and nothing else: a pod
\* that was evicted is awaited until a list shows one that took its place.
NamesakesStay == [][Evicts => pod[job.victim].born = job.born \/ past.unsure]_vars
===============================================================================
