---------------------------- MODULE MCNormalization ----------------------------
(***************************************************************************)
(* Small instances of Normalization for TLC.                               *)
(***************************************************************************)
EXTENDS Normalization

CONSTANTS
  c1, c2, t1, v1, scheduler,
  MaxChanges   \* bound on the readings and reviews of c1 and the added rows

(* c1 names its venue, c2 names none                                       *)
DatedPosts ==
  [c \in Candidate |-> {[dated |-> TRUE, text |-> IF c = c1 THEN t1 ELSE None]}]

(* ... and the post of c1 may lose its date, or get one later            *)
AnyPosts ==
  [c \in Candidate |-> IF c = c1 THEN [dated : BOOLEAN, text : {t1}] ELSE DatedPosts[c]]

TwoAndOne == [c \in Candidate |-> IF c = c1 THEN 2 ELSE 1]

OneAndNone == [c \in Candidate |-> IF c = c1 THEN 1 ELSE 0]

(***************************************************************************)
(* One venue to begin with, and in one behaviour only so many of what      *)
(* makes the rows stale: c1 read again or reviewed, a venue or alias added.*)
(* Rows may be deleted at any time.  Of the candidates only c1 is retired: *)
(* c2 may follow it, or be the one that is left, or not be there yet.      *)
(***************************************************************************)
SmallInit == Init /\ venues = {v1} /\ alias[t1] = None

FewChanges ==
  cand[c1] \notin {None, Gone} => cand[c1].rev + review[c1].count + clock < MaxChanges

MoreSaid == FewChanges /\ (ReExtract(c1) \/ Review(c1))
RowAdded == FewChanges /\ (AddVenue(v1) \/ AddAlias(t1, v1) \/ Link(t1, v1, TRUE))

SmallNext ==
  \/ Extract(c1) \/ Extract(c2) \/ Retire(c1) \/ MoreSaid \/ RowAdded
  \/ Link(t1, v1, FALSE) \/ Dismiss(t1) \/ Revert(t1) \/ RemoveAlias(t1) \/ DeleteVenue(v1)
  \/ \E c, d \in Candidate : Fold(c, d) \/ Unfold(c)
  \/ \E p \in Normalizer : PassStep(p) \/ Crash(p)

SmallSpec == SmallInit /\ [][SmallNext]_vars

FairSmallSpec == SmallSpec /\ Fairness

=============================================================================
