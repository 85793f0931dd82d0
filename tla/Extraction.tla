----------------------------- MODULE Extraction -----------------------------
(***************************************************************************)
(* How a collected source item becomes the engine's reading of it, and how *)
(* a later revision, fetch, engine release or crash makes that reading     *)
(* stale and has it done again.  Two stores that share no transaction:     *)
(*   PostgreSQL    source_items (src, ingest), source_item_content (row),  *)
(*                 content_fetch_log (served), human_review_actions        *)
(*                 (reviewed);                                             *)
(*   SQLite        raw_posts (post) and event_candidates (reading).        *)
(* A Process is an operating-system process that runs extraction passes:   *)
(* the scheduler, the admin console or an operator script.  Every pass     *)
(* works on copies it read earlier, and its writes to the two stores are   *)
(* separate steps, so a Crash falls between any two of them.               *)
(***************************************************************************)
EXTENDS Naturals, FiniteSets

CONSTANTS
  Item,           \* source items
  Hash,           \* the collector's records of a page (source_items.content_hash)
  Judgement,      \* values of the record's JUDGEMENT_KEYS
  Text,           \* article bodies a fetch can be served
  None,           \* SQL NULL, or no row at all
  Synth,          \* items whose collector synthesizes the whole body itself
  NoHtml,         \* those of them whose page is a JSON API (NON_HTML_API_PARSERS)
  Short,          \* records whose body is below MINIMUM_USEFUL_TEXT
  Linkless,       \* items without a URL; every other item has a title too
  LongSnippet,    \* items whose snippet is no shorter than any body served
  MaxEngine,      \* engine releases 1 .. MaxEngine; 0 is SQL NULL
  MaxAttempts,    \* MAX_REPROCESS_ATTEMPTS
  Process,        \* processes that run passes
  BatchSize,      \* rows one re-extraction pass takes
  ReviewAware,    \* the REVIEW_AWARE_REEXTRACT setting
  Others          \* what another process may do while a pass is running

(* "reacquire" is the console's forced fetch of an item already settled,   *)
(* "force" its forced re-extraction of every item.                         *)
Operation == {"collect", "acquire", "refresh", "review", "reacquire", "force"}
Retryable == {"FETCH_PENDING", "FETCH_BLOCKED", "FETCH_FAILED"}

Record == [hash : Hash, judgement : Judgement]
IngestState == {"PENDING", "INGESTED", "SKIPPED", "FAILED"}

(* FETCHED stands for FETCHED_FULL and FETCHED_PARTIAL, FETCH_FAILED for   *)
(* every outcome that leaves nothing to read (also LOGIN_REQUIRED and      *)
(* UNSUPPORTED), FETCH_PENDING also for METADATA_ONLY.                     *)
Status == {"FETCH_PENDING", "FETCHED", "FETCH_BLOCKED", "FETCH_FAILED"}

Outcome == {"EXTRACTED", "PRESERVED_BODY_LOST",
            "PRESERVED_IMAGE_EVIDENCE_LOST", "KEPT_HUMAN_REVIEWED"}

Body == Text \cup Hash \cup {None}
Version == 0 .. MaxEngine

(* INPUT_SIGNATURE is a digest; the model keeps what it digests.           *)
Signature == [src : Record, status : Status, text : Body]

(* unread:  reprocessed_at IS NULL OR reprocessed_at < fetched_at          *)
(* touched: reprocessed_at IS NULL OR reprocessed_at < updated_at          *)
Row == [status : Status, text : Body, poster : BOOLEAN,
        unread : BOOLEAN, touched : BOOLEAN,
        version : Version, applied : Version, sig : Signature \cup {None},
        outcome : Outcome \cup {None}, attempts : 0 .. MaxAttempts]

(* What one stored set of candidates was made from.  found says whether    *)
(* there are any, and whether a field of theirs was read off a poster.     *)
Found == {"nothing", "text", "poster"}
Reading == [src : Record, body : Body, poster : BOOLEAN,
            version : Version, found : Found]

(* An item as a pass holds it: the copies of its rows it has read.         *)
Copy == [item : Item, src : Record, row : Row \cup {None},
         sig : Signature \cup {None}, reviewed : BOOLEAN, served : BOOLEAN]

Step == {"next", "read", "extract", "mark", "stamp"}
Pass == [job : {"none", "ingest", "reprocess"}, todo : SUBSET Copy, step : Step,
         cur : Copy \cup {None}, new : BOOLEAN, out : Outcome \cup {None}]
Idle == [job |-> "none", todo |-> {}, step |-> "next", cur |-> None,
         new |-> FALSE, out |-> None]

ASSUME DomainAssumption ==
  /\ None \notin Text \cup Hash \cup Record \cup Row \cup Signature
  /\ None \notin IngestState \cup Outcome \cup Reading \cup Copy
  /\ MaxEngine \in Nat \ {0} /\ MaxAttempts \in Nat \ {0} /\ BatchSize \in Nat \ {0}
  /\ ReviewAware \in BOOLEAN /\ Others \subseteq Operation

ASSUME SynthAssumption ==
  Synth \subseteq Item /\ NoHtml \subseteq Synth /\ Short \subseteq Hash /\ Text \cap Hash = {}

VARIABLES
  src,        \* source_items: the collector's latest record of each item
  ingest,     \* source_items.ingest_state
  row,        \* source_item_content
  served,     \* content_fetch_log holds a fetch of this item that had text
  reviewed,   \* items with a candidate some person has acted on
  post,       \* items the engine's raw_posts holds
  reading,    \* the engine's candidates of each item: what they were read from
  engine,     \* the engine release every process runs
  pass        \* what each process is in the middle of

collector == <<src, ingest>>
store == <<post, reading>>
vars == <<src, ingest, row, served, reviewed, post, reading, engine, pass>>

TypeOK ==
  /\ src \in [Item -> Record \cup {None}]
  /\ ingest \in [Item -> IngestState \cup {None}]
  /\ row \in [Item -> Row \cup {None}]
  /\ served \in [Item -> BOOLEAN]
  /\ reviewed \in [Item -> BOOLEAN]
  /\ post \in [Item -> BOOLEAN]
  /\ reading \in [Item -> Reading \cup {None}]
  /\ engine \in 1 .. MaxEngine
  /\ pass \in [Process -> Pass]

Init ==
  /\ src = [i \in Item |-> None] /\ ingest = [i \in Item |-> None]
  /\ row = [i \in Item |-> None]
  /\ served = [i \in Item |-> FALSE] /\ reviewed = [i \in Item |-> FALSE]
  /\ post = [i \in Item |-> FALSE] /\ reading = [i \in Item |-> None]
  /\ engine = 1
  /\ pass = [p \in Process |-> Idle]

-----------------------------------------------------------------------------
(* What the engine is handed, and what the database says of it.            *)

(* The body _to_raw_post() takes: the fetched text, else the snippet.      *)
BodyOf(i, s, r) ==
  IF r # None /\ r.status = "FETCHED" /\ r.text # None THEN r.text
  ELSE IF i \in Synth THEN s.hash ELSE None

SignatureOf(s, r) == [src |-> s, status |-> r.status, text |-> r.text]

(* A blocked item is readable by its title.                                *)
Readable(r) ==
  \/ r.status = "FETCHED" /\ r.text # None
  \/ r.status = "FETCH_BLOCKED"

RevisedSinceRead(s, r) == r.sig # None /\ r.sig # SignatureOf(s, r)

(* The four reasons of needing_reprocess(), without its failure cap.       *)
Outdated(s, r, e) ==
  \/ r.status = "FETCHED" /\ r.text # None /\ r.unread
  \/ r.status = "FETCH_BLOCKED" /\ r.poster /\ r.touched
  \/ Readable(r) /\ r.version # e
  \/ Readable(r) /\ RevisedSinceRead(s, r)

NeedsReprocess(i) == row[i] # None /\ Outdated(src[i], row[i], engine)
Stalled(i) == row[i] # None /\ row[i].attempts >= MaxAttempts

MutBlockedBodyLostByRow(i, r, wasServed) ==    \* asks the row, not the fetch log
  r.status = "FETCH_BLOCKED" /\ r.text # None /\ i \notin LongSnippet

(* Was this item once served a body the pass no longer holds?              *)
BlockedBodyLost(i, r, wasServed) ==
  r.status = "FETCH_BLOCKED" /\ wasServed /\ i \notin LongSnippet

NewRow == [status |-> "FETCH_PENDING", text |-> None, poster |-> FALSE,
           unread |-> TRUE, touched |-> TRUE, version |-> 0, applied |-> 0,
           sig |-> None, outcome |-> None, attempts |-> 0]

(* settle_full_body(): a synthesized body is settled content at once, a    *)
(* short one never; an unchanged one updates nothing.                      *)
Settled(i, h, r) ==
  IF i \notin Synth \/ h \in Short THEN r
  ELSE LET old == IF r = None THEN NewRow ELSE r
       IN IF old.text = h THEN old
          ELSE [old EXCEPT !.status = "FETCHED", !.text = h,
                           !.unread = FALSE, !.touched = TRUE]

(* mark_needs_reextract(): withdraw the claim that the engine has read it. *)
Withdrawn(r) ==
  IF r = None THEN None ELSE [r EXCEPT !.version = 0, !.touched = TRUE]

-----------------------------------------------------------------------------
(* Collection, acquisition, review and release: whatever is not a pass.    *)
(* In the scheduler they are jobs of the same loop, so a pass of its own   *)
(* never overlaps them; Others names those another process also performs.  *)

Quiet == \A p \in Process : pass[p].job = "none"
May(op) == Quiet \/ op \in Others

Collected(i) == src[i] # None

(* store_item(), a page seen for the first time                            *)
Collect(i, s) ==
  /\ May("collect") /\ ~Collected(i)
  /\ src' = [src EXCEPT ![i] = s]
  /\ ingest' = [ingest EXCEPT ![i] = "PENDING"]
  /\ row' = [row EXCEPT ![i] = Settled(i, s.hash, @)]
  /\ UNCHANGED <<served, reviewed, store, engine, pass>>

(* store_item(), the page's text changed: one transaction                  *)
Revise(i, s) ==
  /\ May("collect") /\ Collected(i) /\ s.hash # src[i].hash
  /\ src' = [src EXCEPT ![i] = s]
  /\ ingest' = [ingest EXCEPT ![i] = "PENDING"]
  /\ row' = [row EXCEPT ![i] = Withdrawn(Settled(i, s.hash, @))]
  /\ UNCHANGED <<served, reviewed, store, engine, pass>>

(* store_item(), the same text under another judgement of the collector    *)
Rejudge(i, s) ==
  /\ May("collect") /\ Collected(i)
  /\ s.hash = src[i].hash /\ s.judgement # src[i].judgement
  /\ src' = [src EXCEPT ![i] = s]
  /\ row' = [row EXCEPT ![i] = Withdrawn(Settled(i, s.hash, @))]
  /\ UNCHANGED <<ingest, served, reviewed, store, engine, pass>>

(* store_item(), nothing new: a degraded synthesized body is restored      *)
Recollect(i) ==
  /\ May("collect") /\ Collected(i)
  /\ row' = [row EXCEPT ![i] = Settled(i, src[i].hash, @)]
  /\ UNCHANGED <<collector, served, reviewed, store, engine, pass>>

(* acquisition_job.run(): a collected item is queued for its first fetch,  *)
(* unless its page is no page at all.                                      *)
Enqueue(i) ==
  /\ May("acquire") /\ Collected(i) /\ i \notin Linkless \cup NoHtml /\ row[i] = None
  /\ row' = [row EXCEPT ![i] = NewRow]
  /\ UNCHANGED <<collector, served, reviewed, store, engine, pass>>

(* record_outcome() of a queued fetch, or of a forced reacquire().  It     *)
(* overwrites the body, with NULL when the fetch was refused.              *)
Acquire(i, status, text, poster) ==
  /\ Collected(i) /\ i \notin Linkless
  /\ \/ /\ May("acquire") /\ i \notin NoHtml
        /\ row[i] # None /\ row[i].status \in Retryable
     \/ "reacquire" \in Others
  /\ (text # None) <=> (status = "FETCHED")
  /\ poster => status # "FETCH_FAILED"
  /\ LET old == IF row[i] = None THEN NewRow ELSE row[i]
     IN row' = [row EXCEPT ![i] = [old EXCEPT
                  !.status = status, !.text = text, !.poster = poster,
                  !.unread = TRUE, !.touched = TRUE]]
  /\ served' = [served EXCEPT ![i] = @ \/ text # None]
  /\ UNCHANGED <<collector, reviewed, store, engine, pass>>

(* refresh_one() found another text behind an article that was read: the   *)
(* body replaces the stored one and the claim is withdrawn, in one         *)
(* transaction (module ArticleRefresh).  A settled body is no article.     *)
Refresh(i, text, poster) ==
  /\ May("refresh") /\ i \notin Linkless \cup NoHtml
  /\ row[i] # None /\ row[i].status = "FETCHED" /\ row[i].text \in Text \ {text}
  /\ row' = [row EXCEPT ![i] = Withdrawn(
       [row[i] EXCEPT !.text = text, !.poster = poster, !.unread = TRUE, !.touched = TRUE])]
  /\ served' = [served EXCEPT ![i] = TRUE]
  /\ UNCHANGED <<collector, reviewed, store, engine, pass>>

HasCandidates(i) == reading[i] # None /\ reading[i].found # "nothing"

(* a person acts on a candidate                                            *)
Review(i) ==
  /\ May("review") /\ HasCandidates(i)
  /\ reviewed' = [reviewed EXCEPT ![i] = TRUE]
  /\ UNCHANGED <<collector, row, served, store, engine, pass>>

(* a release restarts every process on the next engine                     *)
Deploy ==
  /\ engine < MaxEngine
  /\ engine' = engine + 1
  /\ pass' = [p \in Process |-> Idle]
  /\ UNCHANGED <<collector, row, served, reviewed, store>>

Crash(p) ==
  /\ pass[p].job # "none"
  /\ pass' = [pass EXCEPT ![p] = Idle]
  /\ UNCHANGED <<collector, row, served, reviewed, store, engine>>

-----------------------------------------------------------------------------
(* ingest_pending(): the batch is read once, then every item in turn.      *)

Pending == {i \in Item : ingest[i] = "PENDING"}

StartIngest(p) ==
  /\ pass[p].job = "none" /\ Pending # {}
  /\ pass' = [pass EXCEPT ![p] = [Idle EXCEPT !.job = "ingest", !.todo =
       {[item |-> i, src |-> src[i], row |-> None, sig |-> None,
         reviewed |-> FALSE, served |-> FALSE] : i \in Pending}]]
  /\ UNCHANGED <<collector, row, served, reviewed, store, engine>>

(* the pass is done with its current item                                  *)
Released(w) == [w EXCEPT !.step = "next", !.cur = None, !.new = FALSE, !.out = None]

(* the next item: its signature is read before its content                 *)
IngestSign(p) ==
  /\ pass[p].job = "ingest" /\ pass[p].step = "next"
  /\ \E c \in pass[p].todo :
       LET i == c.item
           sig == IF row[i] = None THEN None ELSE SignatureOf(src[i], row[i])
       IN pass' = [pass EXCEPT ![p].todo = @ \ {c}, ![p].step = "read",
                               ![p].cur = [c EXCEPT !.sig = sig]]
  /\ UNCHANGED <<collector, row, served, reviewed, store, engine>>

(* content_store.get() and persist_raw_post(), which commits               *)
IngestRead(p) ==
  /\ pass[p].job = "ingest" /\ pass[p].step = "read"
  /\ LET i == pass[p].cur.item
     IN \/ /\ i \in Linkless
           /\ ingest' = [ingest EXCEPT ![i] = "SKIPPED"]
           /\ pass' = [pass EXCEPT ![p] = Released(@)]
           /\ UNCHANGED post
        \/ /\ i \notin Linkless
           /\ post' = [post EXCEPT ![i] = TRUE]
           /\ pass' = [pass EXCEPT ![p].step = "extract", ![p].new = ~post[i],
                                   ![p].cur = [@ EXCEPT !.row = row[i]]]
           /\ UNCHANGED ingest
  /\ UNCHANGED <<src, row, served, reviewed, reading, engine>>

MutReadingOf(c, found) ==         \* the images of a fetched article only
  [src |-> c.src, body |-> BodyOf(c.item, c.src, c.row),
   poster |-> c.row # None /\ c.row.status = "FETCHED" /\ c.row.poster,
   version |-> engine, found |-> found]

(* What the engine makes of a copy: any outcome the images it could load   *)
(* allow.  A poster only contributes when the copy has one.                *)
ReadingOf(c, found) ==
  [src |-> c.src, body |-> BodyOf(c.item, c.src, c.row),
   poster |-> c.row # None /\ c.row.poster, version |-> engine, found |-> found]

FoundIn(c, images) ==
  {"nothing", "text"} \cup (IF images THEN {"poster"} ELSE {})

ImagesOf(c) == IF c.row # None /\ c.row.poster THEN BOOLEAN ELSE {FALSE}

(* only a post the store did not hold is extracted                         *)
IngestExtract(p) ==
  /\ pass[p].job = "ingest" /\ pass[p].step = "extract"
  /\ LET c == pass[p].cur
     IN IF pass[p].new
        THEN \E images \in ImagesOf(c) : \E found \in FoundIn(c, images) :
               reading' = [reading EXCEPT ![c.item] = ReadingOf(c, found)]
        ELSE UNCHANGED reading
  /\ pass' = [pass EXCEPT ![p].step = "mark"]
  /\ UNCHANGED <<collector, row, served, reviewed, post, engine>>

IngestFail(p) ==
  /\ pass[p].job = "ingest" /\ pass[p].step = "extract"
  /\ ingest' = [ingest EXCEPT ![pass[p].cur.item] = "FAILED"]
  /\ pass' = [pass EXCEPT ![p] = Released(@)]
  /\ UNCHANGED <<src, row, served, reviewed, store, engine>>

MutIngestMarkAlways(p) ==    \* stamps a post it did not extract
  /\ pass[p].job = "ingest" /\ pass[p].step = "mark"
  /\ ingest' = [ingest EXCEPT ![pass[p].cur.item] = "INGESTED"]
  /\ pass' = [pass EXCEPT ![p] = IF @.cur.row # None
                                 THEN [@ EXCEPT !.step = "stamp"] ELSE Released(@)]
  /\ UNCHANGED <<src, row, served, reviewed, store, engine>>

IngestMark(p) ==
  /\ pass[p].job = "ingest" /\ pass[p].step = "mark"
  /\ ingest' = [ingest EXCEPT ![pass[p].cur.item] = "INGESTED"]
  /\ pass' = [pass EXCEPT ![p] = IF @.new /\ @.cur.row # None
                                 THEN [@ EXCEPT !.step = "stamp"] ELSE Released(@)]
  /\ UNCHANGED <<src, row, served, reviewed, store, engine>>

MutStampedByIngestState(r, sig, e) ==    \* the ingest state for the outcome
  [r EXCEPT !.version = e, !.applied = e, !.outcome = "INGESTED",
            !.sig = IF sig = None THEN @ ELSE sig, !.touched = TRUE]

(* mark_extracted_engine_version(): reprocessed_at is left alone           *)
StampedByIngest(r, sig, e) ==
  [r EXCEPT !.version = e, !.applied = e, !.outcome = "EXTRACTED",
            !.sig = IF sig = None THEN @ ELSE sig, !.touched = TRUE]

IngestStamp(p) ==
  /\ pass[p].job = "ingest" /\ pass[p].step = "stamp"
  /\ LET c == pass[p].cur
     IN row' = [row EXCEPT ![c.item] = StampedByIngest(@, c.sig, engine)]
  /\ pass' = [pass EXCEPT ![p] = Released(@)]
  /\ UNCHANGED <<collector, served, reviewed, store, engine>>

-----------------------------------------------------------------------------
(* reprocess_acquired()                                                    *)

Selectable == {i \in Item : NeedsReprocess(i) /\ ~Stalled(i)}

(* The first rows of the queue; which ones come first is left open.        *)
Batches(queue) ==
  {b \in SUBSET queue : Cardinality(b) =
     IF Cardinality(queue) < BatchSize THEN Cardinality(queue) ELSE BatchSize}

(* needing_reprocess() and the batch's snapshots of reviews and fetch log  *)
StartReprocess(p) ==
  /\ pass[p].job = "none"
  /\ \E queue \in {Selectable} \cup
         (IF "force" \in Others THEN {{i \in Item : row[i] # None}} ELSE {}) :
       /\ queue # {}
       /\ \E b \in Batches(queue) :
            pass' = [pass EXCEPT ![p] = [Idle EXCEPT !.job = "reprocess", !.todo =
              {[item |-> i, src |-> src[i], row |-> row[i],
                sig |-> SignatureOf(src[i], row[i]),
                reviewed |-> reviewed[i], served |-> served[i]] : i \in b}]]
  /\ UNCHANGED <<collector, row, served, reviewed, store, engine>>

MutKeepsReviewedBlockedOnly(c) ==    \* as if review-aware mode were always on
  c.reviewed /\ HasCandidates(c.item) /\ c.row.status = "FETCH_BLOCKED"

(* A person's candidate is re-read only in review-aware mode, and never    *)
(* for a blocked item.  reviewed says that some candidate the item has had *)
(* was acted on, and stands for "one it still has was".                    *)
HoldsReviewed(c) == c.reviewed /\ HasCandidates(c.item)
KeepsReviewed(c) ==
  HoldsReviewed(c) /\ ~(ReviewAware /\ c.row.status # "FETCH_BLOCKED")

(* The decision taken before the engine is asked anything.                 *)
Verdict(c) == IF KeepsReviewed(c) THEN "KEPT_HUMAN_REVIEWED"
              ELSE IF BlockedBodyLost(c.item, c.row, c.served)
                   THEN "PRESERVED_BODY_LOST" ELSE None

(* persist_raw_post(), then that decision                                  *)
ReprocessRead(p) ==
  /\ pass[p].job = "reprocess" /\ pass[p].step = "next"
  /\ \E c \in pass[p].todo :
       /\ post' = [post EXCEPT ![c.item] = TRUE]
       /\ pass' = [pass EXCEPT ![p].todo = @ \ {c}, ![p].cur = c,
                    ![p].step = IF Verdict(c) = None THEN "extract" ELSE "stamp",
                    ![p].out = Verdict(c)]
  /\ UNCHANGED <<collector, row, served, reviewed, reading, engine>>

(* Candidates read off a poster stand when a blocked pass saw no image.    *)
ImageEvidenceLost(c, images, found) ==
  /\ c.row.status = "FETCH_BLOCKED" /\ ~images /\ found = "nothing"
  /\ reading[c.item] # None /\ reading[c.item].found = "poster"

(* A review-aware re-read retires nothing, so the post keeps candidates.   *)
ReprocessExtract(p) ==
  /\ pass[p].job = "reprocess" /\ pass[p].step = "extract"
  /\ LET c == pass[p].cur
     IN \E images \in ImagesOf(c) : \E found \in FoundIn(c, images) :
          \/ /\ ImageEvidenceLost(c, images, found)
             /\ pass' = [pass EXCEPT ![p].step = "stamp",
                                     ![p].out = "PRESERVED_IMAGE_EVIDENCE_LOST"]
             /\ UNCHANGED reading
          \/ /\ ~ImageEvidenceLost(c, images, found)
             /\ reading' = [reading EXCEPT ![c.item] = ReadingOf(c,
                  IF HoldsReviewed(c) THEN reading[c.item].found ELSE found)]
             /\ pass' = [pass EXCEPT ![p].step = "stamp", ![p].out = "EXTRACTED"]
          \/ /\ HoldsReviewed(c)    \* identity not decided: nothing is written
             /\ pass' = [pass EXCEPT ![p].step = "stamp",
                                     ![p].out = "KEPT_HUMAN_REVIEWED"]
             /\ UNCHANGED reading
  /\ UNCHANGED <<collector, row, served, reviewed, post, engine>>

(* record_reprocess_failure(); only the comparison with MaxAttempts counts *)
FailedAgain(r) ==
  [r EXCEPT !.touched = TRUE, !.attempts = IF @ < MaxAttempts THEN @ + 1 ELSE @]

ReprocessFail(p) ==
  /\ pass[p].job = "reprocess" /\ pass[p].step = "extract"
  /\ row' = [row EXCEPT ![pass[p].cur.item] = FailedAgain(@)]
  /\ pass' = [pass EXCEPT ![p] = Released(@)]
  /\ UNCHANGED <<collector, served, reviewed, store, engine>>

MutStampedOnlyWhenApplied(r, sig, e, out) ==    \* no stamp for a preserved reading
  IF out # "EXTRACTED" THEN r
  ELSE [r EXCEPT !.unread = FALSE, !.touched = FALSE, !.version = e, !.applied = e,
                 !.attempts = 0, !.sig = sig, !.outcome = out]

(* mark_reprocessed()                                                      *)
StampedByReprocess(r, sig, e, out) ==
  [r EXCEPT !.unread = FALSE, !.touched = FALSE, !.version = e, !.attempts = 0,
            !.sig = sig, !.outcome = out,
            !.applied = IF out = "EXTRACTED" THEN e ELSE @]

MutReprocessStampFresh(p) ==    \* the signature of the row as it is now
  /\ pass[p].job = "reprocess" /\ pass[p].step = "stamp"
  /\ LET i == pass[p].cur.item
     IN row' = [row EXCEPT ![i] = StampedByReprocess(@, SignatureOf(src[i], @), engine,
                                                     pass[p].out)]
  /\ pass' = [pass EXCEPT ![p] = Released(@)]
  /\ UNCHANGED <<collector, served, reviewed, store, engine>>

ReprocessStamp(p) ==
  /\ pass[p].job = "reprocess" /\ pass[p].step = "stamp"
  /\ LET c == pass[p].cur
     IN row' = [row EXCEPT ![c.item] = StampedByReprocess(@, c.sig, engine, pass[p].out)]
  /\ pass' = [pass EXCEPT ![p] = Released(@)]
  /\ UNCHANGED <<collector, served, reviewed, store, engine>>

Finish(p) ==
  /\ pass[p].job # "none" /\ pass[p].step = "next" /\ pass[p].todo = {}
  /\ pass' = [pass EXCEPT ![p] = Idle]
  /\ UNCHANGED <<collector, row, served, reviewed, store, engine>>

-----------------------------------------------------------------------------
IngestStep(p) ==
  \/ IngestSign(p) \/ IngestRead(p) \/ IngestExtract(p)
  \/ IngestFail(p) \/ IngestMark(p) \/ IngestStamp(p)

ReprocessStep(p) ==
  \/ ReprocessRead(p) \/ ReprocessExtract(p) \/ ReprocessFail(p) \/ ReprocessStamp(p)

PassStep(p) == StartIngest(p) \/ StartReprocess(p) \/ IngestStep(p)
               \/ ReprocessStep(p) \/ Finish(p)

(* Whatever is not the passes' own work.                                   *)
Outside ==
  \/ \E i \in Item, s \in Record : Collect(i, s) \/ Revise(i, s) \/ Rejudge(i, s)
  \/ \E i \in Item : Recollect(i) \/ Enqueue(i) \/ Review(i)
  \/ \E i \in Item, status \in Status \ {"FETCH_PENDING"},
        text \in Text \cup {None}, poster \in BOOLEAN : Acquire(i, status, text, poster)
  \/ \E i \in Item, text \in Text, poster \in BOOLEAN : Refresh(i, text, poster)
  \/ Deploy
  \/ \E p \in Process : Crash(p)

Next == Outside \/ \E p \in Process : PassStep(p)

Spec == Init /\ [][Next]_vars

(* run_forever() runs every registered job in every tick, so a pass that   *)
(* could start again and again does start, and one that started goes on.   *)
Fairness ==
  \A p \in Process :
    /\ WF_vars(IngestStep(p) \/ ReprocessStep(p) \/ Finish(p))
    /\ SF_vars(StartIngest(p)) /\ SF_vars(StartReprocess(p))

FairSpec == Spec /\ Fairness

-----------------------------------------------------------------------------
(* Properties                                                              *)

(* The candidates in force were read from what the item is now.            *)
CurrentReading(i) ==
  /\ reading[i] # None
  /\ reading[i].src = src[i] /\ reading[i].version = engine
  /\ reading[i].body = BodyOf(i, src[i], row[i])

(* "No lost revision": a readable item that the queue will not select      *)
(* again and that says EXTRACTED has candidates read by the running engine *)
(* from its present record and body, whatever was fetched, reviewed or     *)
(* deployed while passes ran and wherever they crashed.  An item blocked   *)
(* after a body had been served is left out: there the better reading of   *)
(* that body may stand.                                                    *)
ClaimsCurrent(i) ==
  /\ row[i] # None /\ Readable(row[i]) /\ ~NeedsReprocess(i)
  /\ row[i].outcome = "EXTRACTED"
  /\ ~(row[i].status = "FETCH_BLOCKED" /\ served[i])

ReadingIsCurrent == \A i \in Item \ Synth : ClaimsCurrent(i) => CurrentReading(i)

(* A revised synthesized record is read.  Settling its body stamps         *)
(* reprocessed_at, so no body arrives to be read, and its re-ingest finds  *)
(* the post and extracts nothing: only the withdrawn claim and the         *)
(* signature are left to have it read again, also when a forced fetch has  *)
(* replaced the body meanwhile and the next collection restores it.        *)
SynthRecordIsRead ==
  \A i \in Synth : ClaimsCurrent(i) =>
    reading[i] # None /\ reading[i].src = src[i] /\ reading[i].version = engine

(* The body too.  It does not hold: see README.md, "Disagreements".        *)
SynthReadingIsCurrent == \A i \in Synth : ClaimsCurrent(i) => CurrentReading(i)

(* applied_engine_version names the engine whose reading is in force,      *)
(* unless the item is still in the queue.                                  *)
AppliedIsInForce ==
  \A i \in Item :
    row[i] # None /\ Readable(row[i]) /\ ~NeedsReprocess(i) /\ row[i].applied # 0
    => reading[i] # None /\ reading[i].version = row[i].applied

(* A poster a blocked fetch brought is put before the engine: the item is  *)
(* either still to be read again or was read with it.                      *)
PosterIsRead ==
  \A i \in Item :
    /\ row[i] # None /\ row[i].status = "FETCH_BLOCKED" /\ row[i].poster
    /\ ~NeedsReprocess(i) /\ row[i].outcome = "EXTRACTED"
    => reading[i].poster

(* "A lesser body must never overwrite a good one": candidates read from a *)
(* fetched article are never replaced by a reading of the bare snippet.    *)
BodyNeverDowngraded ==
  [][\A i \in Item \ (LongSnippet \cup Synth) :
       reading[i] # None /\ reading[i].body # None => reading'[i].body # None]_vars

(* A person's decision is never overwritten by a re-read.                  *)
ReviewedIsKept ==
  [][\A i \in Item : reviewed[i] => reading'[i] = reading[i]]_vars

(* Once nothing else happens, every collected item leaves the ingest queue *)
(* and the re-extraction queue for good, or is stalled where an operator   *)
(* sees it: a skipped, preserved or failing item starves nobody.           *)
Settling == <>[][\E p \in Process : PassStep(p)]_vars
EveryItemSettles ==
  Settling => \A i \in Item :
    <>[](ingest[i] # "PENDING" /\ (NeedsReprocess(i) => Stalled(i)))

=============================================================================
