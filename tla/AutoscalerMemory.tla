---------------------------- MODULE AutoscalerMemory ----------------------------
(***************************************************************************)
(* What the controller remembers of the cluster-autoscaler between two     *)
(* evaluations (rememberAutoscaler), and whether it therefore believes the *)
(* published time of the last scale-up (trustScaleUp).                     *)
(*                                                                         *)
(* The autoscaler publishes one document, rewritten at every scan.  A new  *)
(* autoscaler process finds every condition changed and stamps each with   *)
(* the time of its first scan: a phantom.  The document may be missing for *)
(* a while, either process may restart at any time, and binpack sees only  *)
(* the documents its evaluations happen to read.                           *)
(*                                                                         *)
(* Times count scans; 0 is the zero time.                                  *)
(***************************************************************************)
EXTENDS Naturals

CONSTANT MaxTime  \* bound: scans

ASSUME MaxTimeAssumption == MaxTime \in Nat

VARIABLES
  now,       \* the time of the last scan
  starting,  \* the autoscaler has started and has not scanned yet
  doc,       \* the status: is it there, is it readable as Running, its times
  mem,       \* binpack's memory: earliestProbe, watchedScaleUp, scaleUpUnderway
  verdict,   \* what an evaluation made of this document's LastScaleUp
  past       \* history, for the properties only

vars == <<now, starting, doc, mem, verdict, past>>

Doc == [found: BOOLEAN, scaling: BOOLEAN, probe: Nat, stamp: Nat]
Memory == [earliest: Nat, watched: Nat, underway: BOOLEAN]

\* kind: what the stamp is.  saw: this binpack read the latest episode while it
\* was in progress.  watching: it had read a document before the autoscaler last
\* started.  lost: that start came between the two.
Past == [kind: {"none", "start", "end", "phantom"},
         saw: BOOLEAN, watching: BOOLEAN, lost: BOOLEAN]

TypeOK ==
  /\ now \in Nat
  /\ starting \in BOOLEAN
  /\ doc \in Doc
  /\ mem \in Memory
  /\ verdict \in {"unread", "trusted", "untrusted"}
  /\ past \in Past

Forgotten == [earliest |-> 0, watched |-> 0, underway |-> FALSE]

Init ==
  /\ now = 0
  /\ starting = TRUE
  /\ doc = [found |-> FALSE, scaling |-> FALSE, probe |-> 0, stamp |-> 0]
  /\ mem = Forgotten
  /\ verdict = "unread"
  /\ past = [kind |-> "none", saw |-> FALSE, watching |-> FALSE, lost |-> FALSE]

-------------------------------------------------------------------------------
(***************************************************************************)
(* binpack.                                                                *)
(***************************************************************************)

\* collect: a document that is missing is an autoscaler all of whose times are
\* zero, and no error.
ReadAutoscaler ==
  IF doc.found THEN [scaling |-> doc.scaling, probe |-> doc.probe, stamp |-> doc.stamp]
  ELSE [scaling |-> FALSE, probe |-> 0, stamp |-> 0]

\* Variant: the first scan read is as good as the earliest.
LastProbeOnly(m, a) == a.probe
Earliest(m, a) ==
  IF a.probe # 0 /\ (m.earliest = 0 \/ a.probe < m.earliest) THEN a.probe
  ELSE m.earliest

\* The episode binpack watched is over.  Variant: so is one it lost sight of.
NotScaling(m, a) == m.underway
EpisodeOver(m, a) == m.underway /\ a.stamp # 0

RememberAutoscaler(m, a) ==
  [earliest |-> Earliest(m, a),
   watched  |-> IF ~a.scaling /\ EpisodeOver(m, a) THEN a.stamp ELSE m.watched,
   underway |-> a.scaling \/ (m.underway /\ ~EpisodeOver(m, a))]

TrustScaleUp(m, a) ==
  /\ a.stamp # 0
  /\ \/ m.watched # 0 /\ a.stamp = m.watched
     \/ a.stamp < (IF m.earliest = 0 THEN a.probe ELSE m.earliest)

Evaluate ==
  LET a == ReadAutoscaler
      m == RememberAutoscaler(mem, a)
  IN  /\ mem' = m
      /\ verdict' = IF ~doc.found THEN "unread"
                    ELSE IF TrustScaleUp(m, a) THEN "trusted" ELSE "untrusted"
      /\ past' = [past EXCEPT !.saw = @ \/ a.scaling]
      /\ UNCHANGED <<now, starting, doc>>

BinpackRestarts ==
  /\ mem' = Forgotten
  /\ verdict' = "unread"
  /\ past' = [past EXCEPT !.saw = FALSE, !.watching = FALSE, !.lost = FALSE]
  /\ UNCHANGED <<now, starting, doc>>

-------------------------------------------------------------------------------
(***************************************************************************)
(* The cluster-autoscaler.                                                 *)
(***************************************************************************)
FirstScan(growing) ==
  /\ starting
  /\ doc' = [found |-> TRUE, scaling |-> growing, probe |-> now + 1, stamp |-> now + 1]
  /\ past' = [kind |-> IF growing THEN "start" ELSE "phantom", saw |-> FALSE,
              watching |-> mem.earliest # 0, lost |-> mem.underway]

LaterScan(growing) ==
  LET turns == growing # doc.scaling IN
  /\ ~starting
  /\ doc' = [found |-> TRUE, scaling |-> growing, probe |-> now + 1,
             stamp |-> IF turns THEN now + 1 ELSE doc.stamp]
  /\ past' = IF turns THEN [past EXCEPT !.kind = IF growing THEN "start" ELSE "end",
                                        !.saw = @ /\ ~growing]
             ELSE past

Scan ==
  /\ now < MaxTime
  /\ now' = now + 1
  /\ \E growing \in BOOLEAN : FirstScan(growing) \/ LaterScan(growing)
  /\ starting' = FALSE
  /\ verdict' = "unread"
  /\ UNCHANGED mem

AutoscalerRestarts ==
  /\ ~starting
  /\ starting' = TRUE
  /\ UNCHANGED <<now, doc, mem, verdict, past>>

\* The ConfigMap is deleted, or the cache has not got it, until the next scan.
StatusVanishes ==
  /\ doc.found
  /\ doc' = [doc EXCEPT !.found = FALSE]
  /\ UNCHANGED <<now, starting, mem, verdict, past>>

Next == \/ Evaluate \/ BinpackRestarts
        \/ Scan \/ AutoscalerRestarts \/ StatusVanishes

Spec == Init /\ [][Next]_vars

-------------------------------------------------------------------------------
(***************************************************************************)
(* What the memory is for.                                                 *)
(***************************************************************************)

\* A restart's stamp is not taken for growth by a binpack that was watching when
\* the autoscaler restarted.  The exception is the one the code chooses: the
\* autoscaler restarted within an episode binpack had seen begin.
PhantomsAreSeenThrough ==
  past.kind = "phantom" /\ verdict = "trusted" => ~past.watching \/ past.lost

\* The end of an episode binpack saw in progress is trusted, however long the
\* document was missing in between and however often it is read afterwards.
WatchedEpisodesCount ==
  past.kind = "end" /\ past.saw => verdict # "untrusted"

\* What the comment of trustScaleUp says of the phantom, of a binpack that only
\* started watching after the autoscaler had restarted as well.
PhantomsAreNeverOlder ==
  past.kind = "phantom" /\ verdict = "trusted" => past.lost
===============================================================================
