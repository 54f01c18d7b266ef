-------------------------------- MODULE Backoff --------------------------------
(***************************************************************************)
(* drain.Backoff: how long a node whose drain was abandoned is left alone. *)
(*                                                                         *)
(* The wait doubles from policy.backoff.initial up to policy.backoff.max.  *)
(* A time.Duration is a signed integer that wraps around, and a wait that  *)
(* wrapped would lie in the past.  The module runs the loop, one iteration *)
(* a step, for every pair of bounds the validation admits.                 *)
(***************************************************************************)
EXTENDS Integers

CONSTANTS
  MaxDuration,   \* the largest time.Duration: 2^63 - 1 nanoseconds in the code
  MaxAttempts    \* bound: the failed drains on record

ASSUME BackoffAssumption ==
  /\ MaxDuration \in Nat \ {0}
  /\ MaxAttempts \in Nat

VARIABLES
  initial, max,  \* policy.BackoffInitial and policy.BackoffMax
  attempts,      \* priorAttempts + 1
  i, wait,       \* the loop's own
  returned

backoffVars == <<initial, max, attempts, i, wait, returned>>

Durations == -(MaxDuration + 1)..MaxDuration

\* Two's complement: what a sum of two durations, or twice one, comes to.
Wrapped(d) ==
  IF d > MaxDuration THEN d - 2 * (MaxDuration + 1)
  ELSE IF d < -(MaxDuration + 1) THEN d + 2 * (MaxDuration + 1)
  ELSE d

BackoffTypeOK ==
  /\ initial \in 1..MaxDuration
  /\ max \in 1..MaxDuration
  /\ attempts \in 1..(MaxAttempts + 1)
  /\ i \in 1..(MaxAttempts + 1)
  /\ wait \in Durations
  /\ returned \in BOOLEAN

\* An unreadable count is none, so any number of attempts may be on record.
BackoffInit ==
  /\ initial \in 1..MaxDuration
  /\ max \in initial..MaxDuration
  /\ attempts \in 1..(MaxAttempts + 1)
  /\ i = 1
  /\ wait = IF initial < max THEN initial ELSE max
  /\ returned = FALSE

\* Past half the cap, doubling would overshoot it.  The variant asks too late.
CapExceeded == wait > max
NearCap == wait > max \div 2

\* The loop's condition.  The variant goes round once more.
LoopingOnceMore == ~returned /\ i <= attempts /\ wait < max
Looping == ~returned /\ i < attempts /\ wait < max

Double ==
  /\ Looping /\ ~NearCap
  /\ wait' = Wrapped(2 * wait)
  /\ i' = i + 1
  /\ UNCHANGED <<initial, max, attempts, returned>>

Clamp ==
  /\ Looping /\ NearCap
  /\ wait' = max
  /\ returned' = TRUE
  /\ UNCHANGED <<initial, max, attempts, i>>

Finish ==
  /\ ~returned /\ ~(i < attempts /\ wait < max)
  /\ returned' = TRUE
  /\ UNCHANGED <<initial, max, attempts, i, wait>>

BackoffNext == Double \/ Clamp \/ Finish

BackoffSpec == BackoffInit /\ [][BackoffNext]_backoffVars

-------------------------------------------------------------------------------
\* No wait is shorter than the configured initial one or longer than the cap at
\* any iteration: backoff-until is never in the past, however close the bounds
\* are to the end of the type.
WaitWithinBounds == wait \in initial..max

\* Powers of two, as numbers that do not end.
Power[n \in Nat] == IF n = 0 THEN 1 ELSE 2 * Power[n - 1]

\* What the loop is for, without its width: the initial wait doubled for every
\* earlier failure, up to the cap.
Doubled(first, cap, n) ==
  LET exact == first * Power[n - 1] IN IF exact < cap THEN exact ELSE cap

\* The loop computes it.
ReturnsDoubled == returned => wait = Doubled(initial, max, attempts)
===============================================================================
