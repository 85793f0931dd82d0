---------------------------- MODULE MCExtraction ----------------------------
(***************************************************************************)
(* Small instances of Extraction for TLC.                                  *)
(***************************************************************************)
EXTENDS ExtractionInv, TLC

CONSTANTS i1, i2, h1, h2, j1, j2, t1, t2, scheduler

(* Only what a row is compared with itself by can be permuted.             *)
Symmetry == Permutations(Hash) \cup Permutations(Judgement) \cup Permutations(Text)
JudgementSymmetry == Permutations(Judgement)      \* where Short tells the hashes apart

(***************************************************************************)
(* A backlog: every item collected, with its row in one of the shapes a    *)
(* tick leaves behind; from then on only passes, crashes and a release.    *)
(***************************************************************************)
TheRecord == CHOOSE s \in Record : TRUE
TheText == CHOOSE t \in Text : TRUE

Read(body, found) ==
  [src |-> TheRecord, body |-> body, poster |-> FALSE, version |-> 1, found |-> found]
StampedRow(r) == StampedByReprocess(r, SignatureOf(TheRecord, r), 1, "EXTRACTED")

FetchedRow == [NewRow EXCEPT !.status = "FETCHED", !.text = TheText]
BlockedRow == [NewRow EXCEPT !.status = "FETCH_BLOCKED", !.poster = TRUE]

(* read while it was blocked without a poster; the next fetch brought one  *)
PosterCame ==
  [StampedRow([BlockedRow EXCEPT !.poster = FALSE]) EXCEPT
     !.poster = TRUE, !.unread = TRUE, !.touched = TRUE]

Shapes ==
  {[row |-> None, reading |-> None, served |-> FALSE],
   [row |-> FetchedRow, reading |-> None, served |-> TRUE],
   [row |-> Withdrawn(StampedRow(FetchedRow)), reading |-> Read(TheText, "text"),
    served |-> TRUE],
   [row |-> BlockedRow, reading |-> Read(TheText, "text"), served |-> TRUE],
   [row |-> BlockedRow, reading |-> Read(None, "poster"), served |-> FALSE],
   [row |-> PosterCame, reading |-> Read(None, "text"), served |-> FALSE]}

BacklogInit ==
  \E shape \in [Item -> Shapes] :
    /\ src = [i \in Item |-> TheRecord]
    /\ ingest = [i \in Item |-> IF shape[i].reading = None THEN "PENDING" ELSE "INGESTED"]
    /\ row = [i \in Item |-> shape[i].row]
    /\ served = [i \in Item |-> shape[i].served]
    /\ reading = [i \in Item |-> shape[i].reading]
    /\ post = [i \in Item |-> shape[i].reading # None]
    /\ reviewed \in [Item -> BOOLEAN] /\ \A i \in Item : reviewed[i] => HasCandidates(i)
    /\ engine = 1
    /\ pass = [p \in Process |-> Idle]

BacklogNext ==
  \/ \E p \in Process : PassStep(p) \/ Crash(p)
  \/ Deploy

BacklogSpec == BacklogInit /\ [][BacklogNext]_vars /\ Fairness

(***************************************************************************)
(* Synthesized items that are revised, fetched over and restored: fetches  *)
(* bring no posters, no release comes, and an item without a URL only      *)
(* passes through the ingest queue.                                        *)
(***************************************************************************)
SynthNext ==
  \/ \E i \in Item \ Linkless, s \in Record :
       Collect(i, s) \/ Revise(i, s) \/ Rejudge(i, s)
  \/ \E i \in Linkless, s \in Record : s.hash \in Short /\ Collect(i, s)
  \/ \E i \in Item : Recollect(i) \/ Enqueue(i) \/ Review(i)
  \/ \E i \in Item, status \in {"FETCHED", "FETCH_BLOCKED"}, text \in Text \cup {None} :
       Acquire(i, status, text, FALSE)
  \/ \E p \in Process : PassStep(p) \/ Crash(p)

SynthSpec == Init /\ [][SynthNext]_vars

=============================================================================
