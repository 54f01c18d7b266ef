------------------------------ MODULE DrainRules ------------------------------
(***************************************************************************)
(* The judgements internal/drain makes about a drain that is under way,    *)
(* as operators without state: what a drain has achieved and when it is    *)
(* given up.                                                               *)
(*                                                                         *)
(* The code only ever uses a timestamp through now.Sub(at) or by comparing *)
(* it with now, so a timestamp is kept here as its distance to the         *)
(* present: an AGE (time since it, never negative) or a time LEFT (time    *)
(* until it, negative once it has passed).                                 *)
(***************************************************************************)
EXTENDS Integers, FiniteSets

CONSTANTS
  StallTimeout,     \* drain.stallTimeout: longest time without progress
  RemovalTimeout,   \* drain.removalTimeout: longest time empty and not removed
  ScaleUpPause,     \* cooldown.afterScaleUp, the autoscaler's delay-after-add
  Slack             \* drain.Slack: teardown allowed after a pod's deadline

ASSUME DurationsAssumption ==
  /\ StallTimeout \in Nat \ {0}
  /\ RemovalTimeout \in Nat \ {0}
  /\ ScaleUpPause \in Nat
  /\ Slack \in Nat

\* drain-pods-remaining when the node carries no readable count.
NoCount == -1

\* Ages above this are all alike to every bound below.
AgeCap ==
  LET over == {StallTimeout, RemovalTimeout, ScaleUpPause}
  IN  1 + (CHOOSE m \in over : \A d \in over : d <= m)

Older(age) == IF age < AgeCap THEN age + 1 ELSE AgeCap

-------------------------------------------------------------------------------
(***************************************************************************)
(* The signals of progress.                                                *)
(***************************************************************************)

\* A terminating pod with `left` until its deletion timestamp is past its
\* deadline, which the slack extends.
Stuck(left) == left < -Slack

\* The two clocks of a growth episode: the flag has none, the stamp has one.
ScaleDownPaused(scaleUp, growth) ==
  \/ scaleUp
  \/ ScaleUpPause > 0 /\ growth < ScaleUpPause

\* The bounds on their own, were the markers' age all there is to ask.
AssessByAge(mine, left, recorded, since, paused) ==
  [ code |-> IF Cardinality(mine) = 0 /\ since > RemovalTimeout /\ ~paused
               THEN "not-removed"
             ELSE IF mine # {} /\ since > StallTimeout THEN "stalled" ELSE "none",
    remaining |-> Cardinality(mine), progressed |-> Cardinality(mine) < recorded ]

(***************************************************************************)
(* What to do with a drain: mine is the set of pods it answers for, left   *)
(* the times left to those that terminate, recorded the count on the node, *)
(* since the age of the progress marker.                                   *)
(***************************************************************************)
Assess(mine, left, recorded, since, paused) ==
  LET remaining == Cardinality(mine)
      stuck == \E t \in left : Stuck(t)
      shuttingDown == \E t \in left : ~Stuck(t)
      fewer == recorded # NoCount /\ remaining < recorded
      progressed == fewer \/ shuttingDown
      overdue == ~progressed /\
                 IF remaining = 0
                   THEN since > RemovalTimeout /\ ~paused
                   ELSE since > StallTimeout
  IN  [ code |-> IF stuck THEN "stuck"
                 ELSE IF overdue /\ remaining = 0 THEN "not-removed"
                 ELSE IF overdue THEN "stalled"
                 ELSE "none",
        remaining |-> remaining,
        progressed |-> progressed /\ ~stuck ]

===============================================================================
