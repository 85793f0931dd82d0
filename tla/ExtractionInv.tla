--------------------------- MODULE ExtractionInv ----------------------------
(***************************************************************************)
(* Three inductive invariants of Extraction.  TypeInv holds whatever the   *)
(* constants: TypeOK and what a pass needs for its steps to be defined.    *)
(* IInv is behind ReadingIsCurrent: what the copies a pass holds say about *)
(* the rows they were taken from.  It holds of one process whose collector *)
(* does not run while a pass does ("collect" not in Others).               *)
(***************************************************************************)
EXTENDS Extraction

Copies(w) == w.todo \cup (IF w.cur = None THEN {} ELSE {w.cur})

(* rows and queue entries are made of collected items                      *)
RecordComesFirst(i) == row[i] # None \/ ingest[i] # None => src[i] # None

(* a pass holds collected items and stamps rows that exist                 *)
PassHolds(w) ==
  /\ w.step = "next" <=> w.cur = None
  /\ w.job = "none" => w.cur = None
  /\ \A c \in Copies(w) : /\ src[c.item] # None
                          /\ c.row # None => row[c.item] # None
                          /\ w.job = "reprocess" => c.row # None
  /\ w.job = "ingest" /\ w.step = "stamp" => w.cur.row # None

TypeInv ==
  /\ TypeOK
  /\ \A i \in Item : RecordComesFirst(i)
  /\ \A p \in Process : PassHolds(pass[p])

(* The items ReadingIsCurrent is about.                                    *)
Plain == Item \ Synth

(* ---- one item --------------------------------------------------------- *)

VersionReleased(i) == row[i] # None => row[i].version <= engine

UnservedHasNoBody(i) ==
  ~served[i] => /\ row[i] # None => row[i].text = None
                /\ reading[i] # None => reading[i].body = None

UnpostedIsUnread(i) ==
  ~post[i] => reading[i] = None /\ (row[i] # None => row[i].unread)

ReadRowIsSigned(i) == row[i] # None /\ ~row[i].unread => row[i].sig # None

(* a stamp of the running engine is backed by a reading of this record     *)
StampIsBacked(i) ==
  row[i] # None /\ row[i].version = engine /\ row[i].outcome = "EXTRACTED"
  => reading[i] # None /\ reading[i].src = src[i] /\ reading[i].version = engine

(* a signature of this body is backed by a reading of it                   *)
SignatureIsBacked(i) ==
  /\ row[i] # None /\ ~row[i].unread /\ row[i].outcome = "EXTRACTED"
  /\ row[i].status = "FETCHED" /\ row[i].text # None
  /\ row[i].sig.status = row[i].status /\ row[i].sig.text = row[i].text
  => reading[i] # None /\ reading[i].body = row[i].text

(* ---- one pass --------------------------------------------------------- *)

IdleHoldsNothing(w) == w.job = "none" => w.todo = {}

OneCopyOfEach(w) ==
  /\ \A c, d \in Copies(w) : c.item = d.item => c = d
  /\ w.cur \notin w.todo

(* the rows of a re-extraction's copies change only by being fetched again *)
CopyIsFaithful(w, c) ==
  /\ c.src = src[c.item]
  /\ c.row # None /\ c.row.text # None /\ c.item \in Plain => served[c.item]
  /\ w.job = "reprocess" =>
       /\ c.sig = SignatureOf(c.src, c.row)
       /\ \/ row[c.item].unread
          \/ row[c.item].status = c.row.status /\ row[c.item].text = c.row.text

CurIsPosted(w) == w.step \in {"extract", "mark", "stamp"} => post[w.cur.item]

IngestIsFirst(w) ==
  w.job = "ingest" /\ w.new /\ w.step \in {"extract", "mark", "stamp"} =>
    LET i == w.cur.item IN
      /\ i \in Plain /\ row[i] # None => row[i].unread
      /\ w.step \in {"mark", "stamp"} =>
           reading[i] # None /\ reading[i].src = src[i] /\ reading[i].version = engine

IngestStamps(w) == w.job = "ingest" /\ w.step = "stamp" => w.new

ReprocessApplied(w) ==
  w.job = "reprocess" /\ w.step = "stamp" /\ w.out = "EXTRACTED" =>
    LET c == w.cur IN
      /\ reading[c.item] # None
      /\ reading[c.item].src = c.src /\ reading[c.item].version = engine
      /\ reading[c.item].body = BodyOf(c.item, c.src, c.row)

ItemInv(i) ==
  /\ VersionReleased(i) /\ StampIsBacked(i)
  /\ i \in Plain => /\ UnservedHasNoBody(i) /\ UnpostedIsUnread(i)
                    /\ ReadRowIsSigned(i) /\ SignatureIsBacked(i)

PassInv(w) ==
  /\ IdleHoldsNothing(w) /\ OneCopyOfEach(w) /\ CurIsPosted(w)
  /\ \A c \in Copies(w) : CopyIsFaithful(w, c)
  /\ IngestIsFirst(w) /\ IngestStamps(w) /\ ReprocessApplied(w)

IInv ==
  /\ TypeInv
  /\ \A i \in Item : ItemInv(i)
  /\ \A p \in Process : PassInv(pass[p])

(***************************************************************************)
(* KeptInv is behind what a re-reading must keep and must not miss: bodies,*)
(* reviewed candidates and posters.  Each part holds when no other process *)
(* does what would take it away while a pass runs.                         *)
(***************************************************************************)
NoForceBeside == ~({"force", "reacquire"} \subseteq Others)
NoReviewBeside == ~ReviewAware /\ "review" \notin Others
NoFetchBeside == Others \cap {"acquire", "refresh", "reacquire"} = {}

(* what was served is there until a forced fetch takes it away             *)
ServedHasBody(i) ==
  "reacquire" \notin Others /\ served[i] =>
    row[i] # None /\ row[i].status = "FETCHED" /\ row[i].text # None

ReviewedHasCandidates(i) == NoReviewBeside /\ reviewed[i] => HasCandidates(i)

(* a row no job has touched since it was extracted was read with its poster*)
PosterIsBacked(i) ==
  /\ NoFetchBeside
  /\ row[i] # None /\ row[i].status = "FETCH_BLOCKED" /\ row[i].poster
  /\ ~row[i].touched /\ row[i].outcome = "EXTRACTED"
  => reading[i] # None /\ reading[i].poster

KeptItem(i) ==
  /\ ~post[i] => reading[i] = None
  /\ i \in Plain => UnservedHasNoBody(i) /\ ServedHasBody(i)
  /\ ReviewedHasCandidates(i) /\ PosterIsBacked(i)

(* what a copy says of the item, and goes on saying while the pass runs    *)
KeptCopy(w, c) ==
  /\ c.row # None /\ c.row.text # None /\ c.item \in Plain => served[c.item]
  /\ w.job = "reprocess" =>
       /\ c.item \in Plain /\ ~c.served =>
            c.row.text = None /\ (reading[c.item] # None => reading[c.item].body = None)
       /\ c.item \in Plain /\ c.served /\ NoForceBeside => Readable(c.row)
       /\ NoReviewBeside => c.reviewed = reviewed[c.item]
       /\ NoFetchBeside => row[c.item].poster = c.row.poster

FirstReading(w) ==
  w.job = "ingest" /\ w.step = "extract" /\ w.new => reading[w.cur.item] = None

(* what the decision before the engine left to extract                     *)
MayBeReread(w) ==
  w.job = "reprocess" /\ w.step = "extract" =>
    /\ ~BlockedBodyLost(w.cur.item, w.cur.row, w.cur.served)
    /\ NoReviewBeside => ~reviewed[w.cur.item]

RereadWithPoster(w) ==
  w.job = "reprocess" /\ w.step = "stamp" /\ w.out = "EXTRACTED" =>
    reading[w.cur.item] # None /\ reading[w.cur.item].poster = w.cur.row.poster

KeptPass(w) ==
  /\ IdleHoldsNothing(w) /\ OneCopyOfEach(w) /\ CurIsPosted(w)
  /\ \A c \in Copies(w) : KeptCopy(w, c)
  /\ FirstReading(w) /\ MayBeReread(w) /\ RereadWithPoster(w)

KeptInv ==
  /\ TypeInv
  /\ \A i \in Item : KeptItem(i)
  /\ \A p \in Process : KeptPass(pass[p])

=============================================================================
