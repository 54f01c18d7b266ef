------------------------------- MODULE Selection -------------------------------
(***************************************************************************)
(* Is this node to be drained, and, at every later step, still to be?      *)
(* internal/engine/decide.go answers from one reading of the cluster, with *)
(* most of the same code for both questions: what may differ between them  *)
(* is the marker, the cordon, and the preferences that are not asked again *)
(* once a pod has left.  Around it the facts change one at a time.         *)
(***************************************************************************)
EXTENDS Naturals

CONSTANT Changing          \* the facts that change

Preferences == {"scalingUp", "cooling", "fits", "many"}

\* What each fact can be.  size is what the status says of the pool: [ready, target],
\* with a floor of one; fits is whether the packing is feasible, and with the reserve.
Values ==
  [exists |-> BOOLEAN, status |-> {"live", "silent"}, managed |-> BOOLEAN,
   enabled |-> BOOLEAN, scalingUp |-> BOOLEAN, cooling |-> BOOLEAN,
   size |-> {<<2, 2>>, <<2, 1>>, <<1, 2>>}, annotated |-> BOOLEAN, backoff |-> BOOLEAN,
   cordoned |-> BOOLEAN, tainted |-> BOOLEAN, protected |-> BOOLEAN,
   fits |-> {"with the reserve", "barely", "no"}, many |-> BOOLEAN,
   blockers |-> {"none", "transient", "lasting"}]

ASSUME SelectionAssumption == Changing \subseteq DOMAIN Values

VARIABLES
  facts,       \* [DOMAIN Values -> the values]
  marked,      \* AnnotationDrainStarted
  awaiting,    \* AnnotationDrainAwaiting
  left,        \* pods to move
  moved,       \* history: a fact has changed since the node was chosen
  unsound      \* history: one that is no preference has, since a pod was last evicted

vars == <<facts, marked, awaiting, left, moved, unsound>>

Live == facts.status = "live"

\* Size: the smaller of intent and reality.
Size == IF facts.size[2] < facts.size[1] THEN facts.size[2] ELSE facts.size[1]
MinSize == 1

-------------------------------------------------------------------------------
(***************************************************************************)
(* eligibility: the first row that holds.                                  *)
(***************************************************************************)

\* committedDrain: the drain has evicted something.
\* Variant: a preference is asked of a drain under way.
NeverCommitted(resuming) == FALSE
Committed(resuming) == resuming /\ awaiting

\* A cordon that is someone else's.  Variant: any cordon.
Cordoned(resuming) == facts.cordoned
CordonedByOthers(resuming) == ~resuming /\ facts.cordoned

Rows(resuming) ==
  << <<~facts.managed, "not-autoscaled">>,
     <<~facts.enabled, "pool-disabled">>,
     <<facts.scalingUp /\ ~Committed(resuming), "scale-up-in-progress">>,
     <<facts.cooling /\ ~Committed(resuming), "cooldown">>,
     <<Size <= MinSize, "pool-at-minimum">>,
     <<facts.annotated, "annotated">>,
     <<~resuming /\ marked, "drain-in-progress">>,
     <<facts.backoff, "backoff">>,
     <<resuming /\ ~facts.cordoned, "uncordoned">>,
     <<facts.tainted, "being-removed">>,
     <<CordonedByOthers(resuming), "cordoned">>,
     <<facts.protected, "protected-pod">>,
     <<TRUE, "none">> >>

SkipCode(resuming) ==
  LET rows == Rows(resuming)
      first == CHOOSE i \in DOMAIN rows : rows[i][1] /\ \A j \in 1..(i - 1) : ~rows[j][1]
  IN  rows[first][2]

(***************************************************************************)
(* drainable: the simulation, the limit and the budgets.                   *)
(***************************************************************************)
Fits(committed) == facts.fits = "with the reserve" \/ (committed /\ facts.fits = "barely")

Drainable(committed) ==
  IF ~Fits(committed) THEN "infeasible"
  ELSE IF ~committed /\ facts.many THEN "too-many-pods"
  ELSE IF facts.blockers # "none" THEN facts.blockers
  ELSE "drainable"

Decide == Live /\ ~marked /\ SkipCode(FALSE) = "none"
            /\ Drainable(FALSE) = "drainable"

Revalidate ==
  IF ~facts.exists THEN "gone"
  ELSE IF ~Live THEN "autoscaler-not-live"
  ELSE IF SkipCode(TRUE) # "none" THEN SkipCode(TRUE)
  ELSE Drainable(awaiting)

\* Variant: the silent autoscaler alone ends a hand-over.
OnlyTheSilent(code) == code # "autoscaler-not-live"
AutoscalerCanFinish(code) == code \notin {"autoscaler-not-live", "not-autoscaled"}

-------------------------------------------------------------------------------
Init ==
  /\ facts = [exists |-> TRUE, status |-> "live", managed |-> TRUE, enabled |-> TRUE,
              scalingUp |-> FALSE, cooling |-> FALSE, size |-> <<2, 2>>, annotated |-> FALSE,
              backoff |-> FALSE, cordoned |-> FALSE, tainted |-> FALSE, protected |-> FALSE,
              fits |-> "with the reserve", many |-> FALSE, blockers |-> "none"]
  /\ marked = FALSE /\ awaiting = FALSE /\ left = 2 /\ moved = FALSE /\ unsound = FALSE

\* The world, the operator, the autoscaler: one fact changes.
Change(k) ==
  /\ facts.exists
  /\ \E v \in Values[k] \ {facts[k]} : facts' = [facts EXCEPT ![k] = v]
  /\ k = "backoff" => facts.backoff
  /\ k = "exists" => facts.tainted /\ Live /\ facts.managed
  /\ moved' = TRUE
  /\ unsound' = (unsound \/ k \notin Preferences \/ facts'.fits = "no")
  /\ UNCHANGED <<marked, awaiting, left>>

\* Begin: the marker and the cordon, in one evaluation.
Begin ==
  /\ facts.exists /\ Decide
  /\ marked' = TRUE /\ facts' = [facts EXCEPT !.cordoned = TRUE]
  /\ moved' = FALSE /\ unsound' = TRUE
  /\ UNCHANGED <<awaiting, left>>

\* The drain is over: the node is gone, or handed back and left alone for a while.
HandBack ==
  /\ facts' = [facts EXCEPT !.cordoned = FALSE, !.backoff = TRUE]
  /\ marked' = FALSE /\ awaiting' = FALSE /\ moved' = TRUE /\ unsound' = TRUE
  /\ UNCHANGED left

HandedOver == facts.tainted /\ AutoscalerCanFinish(Revalidate)

\* Advance, up to the pods: what one verdict leads to.
Removed ==
  /\ marked /\ Revalidate = "gone"
  /\ marked' = FALSE /\ awaiting' = FALSE
  /\ UNCHANGED <<facts, left, moved, unsound>>

Repair ==
  /\ marked /\ ~HandedOver /\ Revalidate = "uncordoned"
  /\ facts' = [facts EXCEPT !.cordoned = TRUE] /\ unsound' = TRUE
  /\ UNCHANGED <<marked, awaiting, left, moved>>

Evict ==
  /\ marked /\ ~HandedOver /\ Revalidate = "drainable" /\ left > 0
  /\ awaiting' = TRUE /\ left' = left - 1 /\ unsound' = FALSE
  /\ UNCHANGED <<facts, marked, moved>>

Refused == Revalidate \notin {"gone", "uncordoned", "drainable", "transient"}

Abandon == marked /\ ~HandedOver /\ Refused /\ HandBack

\* A pause or a wait that lasts too long ends the drain (StallTimeout, RemovalTimeout).
TimesOut ==
  /\ marked /\ ~HandedOver /\ HandBack
  /\ Revalidate = "transient" \/ (Revalidate = "drainable" /\ left = 0)

Step == Removed \/ Repair \/ Evict \/ Abandon \/ TimesOut

Next == (\E k \in Changing : Change(k)) \/ Begin \/ Step

Spec == Init /\ [][Next]_vars /\ WF_vars(Step)

-------------------------------------------------------------------------------
(***************************************************************************)
(* Properties.                                                             *)
(***************************************************************************)
\* What binpack decides it goes through with: as long as no fact changes, a node that
\* was chosen passes the revalidation that follows, its own marker and cordon
\* notwithstanding; or every drain would be marked, abandoned and backed off.
DecisionsSurviveTheirStart ==
  marked /\ ~moved => Revalidate = "drainable"

\* ADR-0009 and ADR-0010: once a pod has left, a change of what makes a drain a good
\* idea, and of nothing that makes it sound, does not throw the work away.
WorkIsNotUndoneByTaste ==
  marked /\ awaiting /\ ~unsound => ~Refused

\* Only an autoscaler that answers and manages the pool finishes a removal: where it
\* stops doing either for good, no drain waits on its taint for ever.
HandoversEnd ==
  <>[](facts.status # "live" \/ ~facts.managed) => <>[]~marked
===============================================================================
