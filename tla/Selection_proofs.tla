---------------------------- MODULE Selection_proofs ----------------------------
(***************************************************************************)
(* A node that was chosen stays chosen, whichever facts may change: what   *)
(* Decide asked is all that Revalidate asks, and once a pod has left the   *)
(* preferences are not asked again.                                        *)
(***************************************************************************)
EXTENDS Selection, TLAPS

\* Every fact is one it may be.
WellTyped ==
  /\ facts = [k \in DOMAIN Values |-> facts[k]]
  /\ \A k \in DOMAIN Values : facts[k] \in Values[k]
  /\ marked \in BOOLEAN /\ awaiting \in BOOLEAN
  /\ moved \in BOOLEAN /\ unsound \in BOOLEAN

\* What no drain is started or gone on with without, the verdicts of taste aside.
SoundToDrain ==
  /\ facts.exists /\ Live /\ facts.managed /\ facts.enabled /\ Size > MinSize
  /\ ~facts.annotated /\ ~facts.backoff /\ facts.cordoned /\ ~facts.tainted
  /\ ~facts.protected /\ facts.fits # "no" /\ facts.blockers = "none"

\* And what a drain that has moved nothing is not gone on with without either.
ToTaste ==
  ~facts.scalingUp /\ ~facts.cooling /\ facts.fits = "with the reserve" /\ ~facts.many

\* Nothing has changed since the node was chosen: it is as it was chosen.
ChosenIsSound == marked /\ ~moved => SoundToDrain /\ ToTaste

\* Only preferences have changed since the last eviction: the drain is as sound.
WorkIsSound == marked /\ awaiting /\ ~unsound => SoundToDrain

Inv == WellTyped /\ ChosenIsSound /\ WorkIsSound

-------------------------------------------------------------------------------
(***************************************************************************)
(* What the checks answer.                                                 *)
(***************************************************************************)

\* The rows before the last one are all there is to fail.
Fails(resuming) == \E i \in 1..12 : Rows(resuming)[i][1]

\* No row that skips a node has the code of the one that does not, nor a verdict's.
LEMMA RowsAre ==
  ASSUME NEW resuming
  PROVE  /\ DOMAIN Rows(resuming) = 1..13
         /\ \A i \in 1..12 : Rows(resuming)[i][2] # "none"
         /\ \A i \in 1..13 : Rows(resuming)[i][2] # "drainable"
         /\ Rows(resuming)[13][1] = TRUE /\ Rows(resuming)[13][2] = "none"
  BY DEF Rows

\* eligibility passes a node over for the first row that holds, and for none if
\* none does.
LEMMA Skipped ==
  ASSUME NEW resuming
  PROVE  /\ (SkipCode(resuming) = "none") <=> ~Fails(resuming)
         /\ SkipCode(resuming) # "drainable"
<1> DEFINE rows == Rows(resuming)
           holds(i) == rows[i][1]
           first(i) == i \in 1..13 /\ holds(i) /\ \A j \in 1..(i - 1) : ~holds(j)
           n == CHOOSE i \in 1..13 : holds(i) /\ \A j \in 1..(i - 1) : ~holds(j)
<1>1. /\ holds(13) /\ \A i \in 1..12 : rows[i][2] # "none"
      /\ \A i \in 1..13 : rows[i][2] # "drainable"
  BY RowsAre
<1>2. rows[13][2] = "none"
  BY RowsAre
<1>3. SkipCode(resuming) = rows[n][2]
  BY RowsAre DEF SkipCode
<1>4. Fails(resuming) <=> \E i \in 1..12 : holds(i)
  BY DEF Fails
<1> HIDE DEF rows, holds
<1>5. \E i : first(i)
  <2> SUFFICES ASSUME \A i : ~first(i) PROVE FALSE
    OBVIOUS
  <2> DEFINE clear(k) == \A j \in 1..k : ~holds(j)
  <2>1. \A k \in 0..12 : clear(k) => clear(k + 1)
    <3> SUFFICES ASSUME NEW k \in 0..12, clear(k) PROVE clear(k + 1)
      OBVIOUS
    <3>1. ~holds(k + 1)
      BY SMT
    <3> QED
      BY <3>1, SMT
  <2>2. clear(0)
    BY SMT
  <2> HIDE DEF clear
  <2>3. clear(4)
    BY <2>1, <2>2, SMT
  <2>4. clear(8)
    BY <2>1, <2>3, SMT
  <2>5. clear(13)
    BY <2>1, <2>4, SMT
  <2> QED
    BY <1>1, <2>5, SMT DEF clear
<1>6. first(n)
  BY <1>5
<1>7. n = 13 <=> \A i \in 1..12 : ~holds(i)
  BY <1>6, SMT
<1> HIDE DEF n
<1>8. /\ rows[n][2] = "none" <=> n = 13
      /\ rows[n][2] # "drainable"
  BY <1>1, <1>2, <1>6
<1> QED
  BY <1>3, <1>4, <1>7, <1>8

\* What makes a row hold.
LEMMA FailsWhen ==
  ASSUME NEW resuming
  PROVE  Fails(resuming) <=>
           \/ ~facts.managed \/ ~facts.enabled
           \/ facts.scalingUp /\ ~Committed(resuming)
           \/ facts.cooling /\ ~Committed(resuming)
           \/ Size <= MinSize
           \/ facts.annotated
           \/ ~resuming /\ marked
           \/ facts.backoff
           \/ resuming /\ ~facts.cordoned
           \/ facts.tainted
           \/ CordonedByOthers(resuming)
           \/ facts.protected
<1> DEFINE holds(i) == Rows(resuming)[i][1]
<1>1. /\ holds(1) = (~facts.managed)
      /\ holds(2) = (~facts.enabled)
      /\ holds(3) = (facts.scalingUp /\ ~Committed(resuming))
      /\ holds(4) = (facts.cooling /\ ~Committed(resuming))
      /\ holds(5) = (Size <= MinSize)
      /\ holds(6) = facts.annotated
      /\ holds(7) = (~resuming /\ marked)
      /\ holds(8) = facts.backoff
      /\ holds(9) = (resuming /\ ~facts.cordoned)
      /\ holds(10) = facts.tainted
      /\ holds(11) = CordonedByOthers(resuming)
      /\ holds(12) = facts.protected
  BY DEF Rows
<1>2. Fails(resuming) <=> \E i \in 1..12 : holds(i)
  BY DEF Fails
<1> HIDE DEF holds
<1>3. (\E i \in 1..12 : holds(i)) <=>
        \/ holds(1) \/ holds(2) \/ holds(3) \/ holds(4) \/ holds(5) \/ holds(6)
        \/ holds(7) \/ holds(8) \/ holds(9) \/ holds(10) \/ holds(11) \/ holds(12)
  BY SMT
<1> QED
  BY <1>1, <1>2, <1>3, Zenon

\* The pool's size, of which the autoscaler's floor takes a share.
LEMMA SizeType == ASSUME WellTyped PROVE Size \in Nat
<1>1. facts.size \in {<<2, 2>>, <<2, 1>>, <<1, 2>>}
  BY DEF WellTyped, Values
<1> QED
  BY <1>1, SMT DEF Size

\* The verdicts of drainable, and what they take.
LEMMA DrainableWhen ==
  ASSUME WellTyped, NEW committed
  PROVE  Drainable(committed) = "drainable" <=>
           Fits(committed) /\ (committed \/ ~facts.many) /\ facts.blockers = "none"
<1>1. facts.blockers \in {"none", "transient", "lasting"}
  BY DEF WellTyped, Values
<1> QED
  BY <1>1 DEF Drainable

\* A node is found drainable exactly when it is sound and, until a pod has left, to
\* taste.
LEMMA RevalidateWhen ==
  ASSUME WellTyped
  PROVE  Revalidate = "drainable" <=> SoundToDrain /\ (awaiting \/ ToTaste)
<1>1. Revalidate = "drainable" <=>
        facts.exists /\ Live /\ ~Fails(TRUE) /\ Drainable(awaiting) = "drainable"
  BY Skipped DEF Revalidate
<1>2. Size > MinSize <=> ~(Size <= MinSize)
  BY SizeType, SMT DEF MinSize
<1>3. facts.fits \in {"with the reserve", "barely", "no"}
  BY DEF WellTyped, Values
<1>4. Fits(awaiting) <=> facts.fits # "no" /\ (awaiting \/ facts.fits = "with the reserve")
  BY <1>3 DEF Fits
<1>5. Drainable(awaiting) = "drainable" <=>
        Fits(awaiting) /\ (awaiting \/ ~facts.many) /\ facts.blockers = "none"
  BY DrainableWhen
<1>6. ~Fails(TRUE) <=>
        /\ facts.managed /\ facts.enabled /\ Size > MinSize /\ ~facts.annotated
        /\ ~facts.backoff /\ facts.cordoned /\ ~facts.tainted /\ ~facts.protected
        /\ awaiting \/ (~facts.scalingUp /\ ~facts.cooling)
  BY <1>2, FailsWhen DEF Committed, CordonedByOthers
<1> QED
  BY <1>1, <1>4, <1>5, <1>6 DEF SoundToDrain, ToTaste

\* A node is chosen when it would be found drainable with the cordon on it.
LEMMA ChosenWhen ==
  ASSUME WellTyped, facts.exists, Decide,
         facts' = [facts EXCEPT !.cordoned = TRUE]
  PROVE  SoundToDrain' /\ ToTaste'
<1>1. Size > MinSize <=> ~(Size <= MinSize)
  BY SizeType, SMT DEF MinSize
<1>2. Live /\ ~Fails(FALSE) /\ Drainable(FALSE) = "drainable"
  BY Skipped DEF Decide
<1>3. /\ Fits(FALSE) /\ ~facts.many /\ facts.blockers = "none"
  BY <1>2, DrainableWhen
<1>4. /\ facts.managed /\ facts.enabled /\ Size > MinSize /\ ~facts.annotated
      /\ ~facts.backoff /\ ~facts.tainted /\ ~facts.protected
      /\ ~facts.scalingUp /\ ~facts.cooling
  BY <1>1, <1>2, FailsWhen DEF Committed
<1>5. \A k \in DOMAIN Values : facts'[k] = IF k = "cordoned" THEN TRUE ELSE facts[k]
  BY DEF WellTyped
<1>6. /\ facts'.exists = facts.exists /\ facts'.status = facts.status
      /\ facts'.managed = facts.managed /\ facts'.enabled = facts.enabled
      /\ facts'.scalingUp = facts.scalingUp /\ facts'.cooling = facts.cooling
      /\ facts'.size = facts.size /\ facts'.annotated = facts.annotated
      /\ facts'.backoff = facts.backoff /\ facts'.cordoned
      /\ facts'.tainted = facts.tainted /\ facts'.protected = facts.protected
      /\ facts'.fits = facts.fits /\ facts'.many = facts.many
      /\ facts'.blockers = facts.blockers
  BY <1>5 DEF Values
<1>7. Size' = Size /\ Live' = Live
  BY <1>6 DEF Size, Live
<1> QED
  BY <1>2, <1>3, <1>4, <1>6, <1>7 DEF SoundToDrain, ToTaste, Fits

-------------------------------------------------------------------------------
(***************************************************************************)
(* Every step preserves the invariant.                                     *)
(***************************************************************************)

\* No node is marked at first.
LEMMA InitInv == Init => Inv
<1> SUFFICES ASSUME Init PROVE Inv
  OBVIOUS
<1>1. facts = [k \in DOMAIN Values |-> facts[k]]
  BY DEF Init, Values
<1>2. \A k \in DOMAIN Values : facts[k] \in Values[k]
  <2>1. facts.size \in Values["size"]
    BY DEF Init, Values
  <2>2. facts.blockers \in Values["blockers"] /\ facts.fits \in Values["fits"]
        /\ facts.status \in Values["status"]
    BY DEF Init, Values
  <2>3. /\ facts.exists \in Values["exists"] /\ facts.managed \in Values["managed"]
        /\ facts.enabled \in Values["enabled"] /\ facts.scalingUp \in Values["scalingUp"]
        /\ facts.cooling \in Values["cooling"] /\ facts.annotated \in Values["annotated"]
        /\ facts.backoff \in Values["backoff"] /\ facts.cordoned \in Values["cordoned"]
        /\ facts.tainted \in Values["tainted"] /\ facts.protected \in Values["protected"]
        /\ facts.many \in Values["many"]
    BY DEF Init, Values
  <2>4. DOMAIN Values =
          {"exists", "status", "managed", "enabled", "scalingUp", "cooling", "size",
           "annotated", "backoff", "cordoned", "tainted", "protected", "fits", "many",
           "blockers"}
    BY DEF Values
  <2> QED
    BY <2>1, <2>2, <2>3, <2>4
<1> QED
  BY <1>1, <1>2 DEF Init, Inv, WellTyped, ChosenIsSound, WorkIsSound

\* A fact that is set stays one of its values, and the others stay as they are.
LEMMA OneFact ==
  ASSUME WellTyped, NEW k \in DOMAIN Values, NEW v \in Values[k],
         facts' = [facts EXCEPT ![k] = v]
  PROVE  /\ facts' = [j \in DOMAIN Values |-> facts'[j]]
         /\ \A j \in DOMAIN Values : facts'[j] \in Values[j]
         /\ facts'[k] = v
         /\ \A j \in DOMAIN Values \ {k} : facts'[j] = facts[j]
<1>1. DOMAIN facts = DOMAIN Values
  BY DEF WellTyped
<1> QED
  BY <1>1 DEF WellTyped

\* The facts a preference is about leave the soundness of a drain alone, but for a
\* packing that no longer fits at all.
LEMMA TasteSpares ==
  ASSUME SoundToDrain, NEW k \in Preferences,
         \A j \in DOMAIN Values \ {k} : facts'[j] = facts[j], facts'.fits # "no"
  PROVE  SoundToDrain'
<1>1. /\ facts'.exists = facts.exists /\ facts'.status = facts.status
      /\ facts'.managed = facts.managed /\ facts'.enabled = facts.enabled
      /\ facts'.size = facts.size /\ facts'.annotated = facts.annotated
      /\ facts'.backoff = facts.backoff /\ facts'.cordoned = facts.cordoned
      /\ facts'.tainted = facts.tainted /\ facts'.protected = facts.protected
      /\ facts'.blockers = facts.blockers
  BY DEF Preferences, Values
<1> QED
  BY <1>1 DEF SoundToDrain, Live, Size

\* One fact changes.
LEMMA ChangeInv ==
  ASSUME Inv, NEW k \in DOMAIN Values, Change(k)
  PROVE  Inv'
<1>1. PICK v \in Values[k] : facts' = [facts EXCEPT ![k] = v]
  BY DEF Change
<1>2. WellTyped /\ moved' = TRUE /\ UNCHANGED <<marked, awaiting>>
  BY DEF Inv, Change
<1>3. unsound' = (unsound \/ k \notin Preferences \/ facts'.fits = "no")
  BY DEF Change
<1>4. /\ facts' = [j \in DOMAIN Values |-> facts'[j]]
      /\ \A j \in DOMAIN Values : facts'[j] \in Values[j]
      /\ \A j \in DOMAIN Values \ {k} : facts'[j] = facts[j]
  BY <1>1, <1>2, OneFact
<1>5. WellTyped'
  BY <1>2, <1>3, <1>4 DEF WellTyped
<1>6. WorkIsSound'
  <2> SUFFICES ASSUME marked', awaiting', ~unsound' PROVE SoundToDrain'
    BY DEF WorkIsSound
  <2>1. k \in Preferences /\ facts'.fits # "no" /\ SoundToDrain
    BY <1>2, <1>3 DEF Inv, WorkIsSound
  <2> QED
    BY <1>4, <2>1, TasteSpares
<1> QED
  BY <1>2, <1>5, <1>6 DEF Inv, ChosenIsSound

\* What was decided about the node holds once its marker and cordon are on it.
LEMMA BeginInv == ASSUME Inv, Begin PROVE Inv'
<1>1. WellTyped /\ facts' = [facts EXCEPT !.cordoned = TRUE]
  BY DEF Inv, Begin
<1>2. "cordoned" \in DOMAIN Values /\ TRUE \in Values["cordoned"]
  BY DEF Values
<1>3. WellTyped'
  BY <1>1, <1>2, OneFact DEF Begin, WellTyped
<1>4. SoundToDrain' /\ ToTaste'
  BY <1>1, ChosenWhen DEF Begin
<1> QED
  BY <1>3, <1>4 DEF Begin, Inv, ChosenIsSound, WorkIsSound

\* A node handed back is nobody's.
LEMMA HandBackInv == ASSUME Inv, HandBack PROVE Inv'
<1>1. WellTyped
  BY DEF Inv
<1>2. WellTyped'
  <2>1. DOMAIN facts = DOMAIN Values
    BY <1>1 DEF WellTyped
  <2>2. /\ facts' = [j \in DOMAIN Values |-> facts'[j]]
        /\ \A j \in DOMAIN Values :
             facts'[j] = IF j = "cordoned" THEN FALSE
                         ELSE IF j = "backoff" THEN TRUE ELSE facts[j]
    BY <1>1, <2>1 DEF HandBack, WellTyped, Values
  <2>3. FALSE \in Values["cordoned"] /\ TRUE \in Values["backoff"]
    BY DEF Values
  <2> QED
    BY <1>1, <2>2, <2>3 DEF HandBack, WellTyped
<1> QED
  BY <1>2 DEF HandBack, Inv, ChosenIsSound, WorkIsSound

\* Each thing Advance may do about one verdict.
LEMMA StepInv == ASSUME Inv, Step PROVE Inv'
<1>1. WellTyped
  BY DEF Inv
<1>2. CASE Removed
  BY <1>1, <1>2 DEF Removed, Inv, WellTyped, ChosenIsSound, WorkIsSound
<1>3. CASE Repair
  <2>1. WellTyped'
    <3>1. "cordoned" \in DOMAIN Values /\ TRUE \in Values["cordoned"]
      BY DEF Values
    <3> QED
      BY <1>1, <1>3, <3>1, OneFact DEF Repair, WellTyped
  <2>2. ~(marked /\ ~moved)
    BY <1>1, <1>3, RevalidateWhen DEF Repair, Inv, ChosenIsSound
  <2> QED
    BY <1>3, <2>1, <2>2 DEF Repair, Inv, ChosenIsSound, WorkIsSound
<1>4. CASE Evict
  <2>1. SoundToDrain /\ UNCHANGED <<facts, marked, moved>>
    BY <1>1, <1>4, RevalidateWhen DEF Evict
  <2>2. SoundToDrain' /\ (ToTaste' <=> ToTaste)
    BY <2>1 DEF SoundToDrain, ToTaste, Live, Size
  <2>3. WellTyped'
    BY <1>1, <1>4 DEF Evict, WellTyped
  <2> QED
    BY <2>1, <2>2, <2>3 DEF Inv, ChosenIsSound, WorkIsSound
<1>5. CASE Abandon \/ TimesOut
  BY <1>5, HandBackInv DEF Abandon, TimesOut
<1> QED
  BY <1>2, <1>3, <1>4, <1>5 DEF Step

LEMMA NextInv == Inv /\ [Next]_vars => Inv'
<1> SUFFICES ASSUME Inv, [Next]_vars PROVE Inv'
  OBVIOUS
<1>1. ASSUME NEW k \in Changing, Change(k)
      PROVE  Inv'
  BY <1>1, ChangeInv, SelectionAssumption
<1>2. CASE UNCHANGED vars
  BY <1>2
     DEF vars, Inv, WellTyped, ChosenIsSound, WorkIsSound, SoundToDrain, ToTaste, Live,
         Size
<1> QED
  BY <1>1, <1>2, BeginInv, StepInv DEF Next

\* The inductive invariant holds whichever facts change.
THEOREM InvHolds == Spec => []Inv
  BY InitInv, NextInv, PTL DEF Spec

-------------------------------------------------------------------------------
(***************************************************************************)
(* The results.                                                            *)
(***************************************************************************)

\* What Decide chose Revalidate lets through, the marker and the cordon of Begin
\* notwithstanding, for as long as nothing changes and whatever has been evicted.
THEOREM DecisionsSurvive == Spec => []DecisionsSurviveTheirStart
<1>1. Inv => DecisionsSurviveTheirStart
  BY RevalidateWhen DEF Inv, ChosenIsSound, DecisionsSurviveTheirStart
<1> QED
  BY <1>1, InvHolds, PTL

\* A drain that has evicted something is not given up for a scale-up, a cooldown, the
\* reserve or the number of pods, in whatever order and however often they change.
THEOREM WorkIsKept == Spec => []WorkIsNotUndoneByTaste
<1>1. Inv => WorkIsNotUndoneByTaste
  BY RevalidateWhen DEF Inv, WorkIsSound, WorkIsNotUndoneByTaste, Refused
<1> QED
  BY <1>1, InvHolds, PTL
===============================================================================
