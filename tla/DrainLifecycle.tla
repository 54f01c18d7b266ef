---------------------------- MODULE DrainLifecycle ----------------------------
(***************************************************************************)
(* What binpack promises of one node, without saying how: it claims the    *)
(* node before it touches it, announces that it will disrupt before it     *)
(* does, has one displaced controller waiting for its replacement at a     *)
(* time, and lets go of everything at once.  Drain is the program that is  *)
(* to keep this promise with patches that may fail one by one.             *)
(***************************************************************************)
CONSTANT Owners          \* the controllers whose pods may be displaced

VARIABLES
  phase,       \* free, claimed, committed to disrupting, or gone
  cordoned,    \* no new pod is scheduled to it
  disrupted,   \* a pod has been displaced since the node was claimed
  inflight,    \* the controllers whose replacement has no node yet
  excused      \* something happened that binpack cannot tell from a landing

vars == <<phase, cordoned, disrupted, inflight, excused>>

Phases == {"free", "claimed", "committed", "gone"}
Held == {"claimed", "committed"}

Init ==
  /\ phase = "free" /\ ~cordoned
  /\ ~disrupted /\ inflight = {} /\ ~excused

\* A drain begins with nothing on its account, and ends the same way.
Clear == ~disrupted' /\ inflight' = {} /\ ~excused'

Claim ==
  /\ phase = "free" /\ ~cordoned
  /\ phase' = "claimed" /\ cordoned' = cordoned /\ Clear

\* The cordon goes on while the node is held; an operator may take it off.
Cordon ==
  /\ phase \in Held
  /\ cordoned' \in BOOLEAN
  /\ UNCHANGED <<phase, disrupted, inflight, excused>>

Commit ==
  /\ phase \in Held
  /\ phase' = "committed"
  /\ UNCHANGED <<cordoned, disrupted, inflight, excused>>

\* One pod goes, and its controller may owe another.
Displace ==
  /\ phase = "committed"
  /\ inflight = {} \/ excused
  /\ disrupted'
  /\ \/ inflight' = inflight
     \/ \E o \in Owners : inflight' = inflight \union {o}
  /\ excused' \in {excused, TRUE}
  /\ UNCHANGED <<phase, cordoned>>

Land ==
  /\ \E o \in inflight : inflight' = inflight \ {o}
  /\ UNCHANGED <<phase, cordoned, disrupted, excused>>

Excuse ==
  /\ excused'
  /\ UNCHANGED <<phase, cordoned, disrupted, inflight>>

\* The claim, the commitment and the cordon end in one step.
HandBack ==
  /\ phase \in Held
  /\ phase' = "free" /\ ~cordoned' /\ Clear

Remove ==
  /\ phase # "gone"
  /\ phase' = "gone" /\ ~cordoned' /\ Clear

Next ==
  \/ Claim \/ Cordon \/ Commit \/ Displace \/ Land \/ Excuse
  \/ HandBack \/ Remove

Spec == Init /\ [][Next]_vars
===============================================================================
