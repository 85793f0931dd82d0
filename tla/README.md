# Specifications of the DanceMate pipeline

DanceMate collects posts about dance events from boards, cafes and blogs,
fetches their articles, lets a rule engine read event candidates off them, makes
searchable events of these and puts what it cannot settle before a person. The
specifications here are about the part of the repository that is hard to test:
rows that several jobs, the console and operator scripts read and write in no
fixed order, over two databases that share no transaction, with fetches that
fail and processes that die.

Paths below are relative to the repository (`src/`).

## 1. Inventory

| Component | State it keeps | Operations | What makes it correct |
|---|---|---|---|
| sources, collection job, quota (`runtime/sources.py`, `scheduler/intake_job.py`, `runtime/quota.py`) | `sources`: enabled, last result; a day's requests of each provider in `runtime_state` | `due_sources`, `collect_source`, `check`, `record`, `set_enabled` | what is counted stays within the budget; a refusal is respected; no source starves |
| intake (`runtime/intake.py`) | `source_items`: last record, `ingest_state` | `store_item` (new / text changed / re-judged / seen again), `pending_items`, `mark_ingested` | a changed page is always read again; nothing stays pending for ever |
| content store (`runtime/content_store.py`) | `source_item_content`: fetch status, body, images, `next_attempt_at`, and the stamps of the last reading; `content_fetch_log` | `record_outcome`, `settle_full_body`, `due_for_acquisition`, `needing_reprocess`, `mark_reprocessed`, `mark_needs_reextract`, `record_reprocess_failure` | a stamp never claims a reading that did not happen; the two queues lose and starve nobody |
| acquisition (`runtime/acquisition.py`) | none | `fetch` over a page's representations, retry classes, `queue_state` | a settled URL is not fetched again; a passing fault does not end the retries |
| acquisition job (`scheduler/acquisition_job.py`) | the list of a running tick | `run`, `reacquire` (console) | one fetch of each due item per tick |
| article refresh (`runtime/article_refresh.py`) | refresh columns, failure counters, validators | conditional re-fetch of read articles, budget and pause per host, stop rules | a re-check never puts an older text over a newer one; a host is left in peace |
| engine ingestion (`runtime/engine_ingest.py`) | the copies a running pass holds; writes both stores | `ingest_pending`, `reprocess_acquired`, `reconcile_unsigned` | the reading in force is of the item's present text by the running engine; good readings and reviewed candidates survive |
| engine store (`engine/src/database.py`) | SQLite: `raw_posts`, `event_candidates`, evidence | inserts and updates by the above | ids are never given out twice |
| candidate identity (`runtime/candidate_identity.py`) | none | `match` old and new candidates of a post | a programme keeps its id, and what people decided stays with it |
| review (`runtime/review.py`) | `candidate_review_state`, `human_review_actions` | `record`, `reviewed_candidate_ids` | nothing overwrites a decision |
| normalization (`runtime/normalization.py`) | `events`, `candidate_normalization` | candidates into events, one commit at a time; retirement; stamps | what is stamped as current is current; what is hidden is hidden for a reason |
| venues and master data (`runtime/venue_resolution.py`, `runtime/master_data.py`, ...) | venues, aliases, unresolved strings, master revision | link, dismiss, revert, aliases, deletion | a decision reaches every event, also those being built |
| duplicates (`runtime/duplicates.py`) | pairs, folds, answers | scan, answer, take back | an answer is never undone by a scan; no chains; folds follow the rules |
| community discovery (`runtime/community_discovery.py`) | searches, candidates, communities, proposed sources | queue, run, classify, register, link, propose, prune | answers outlive searches; one board has one community; the queue moves |
| scheduler (`scheduler/worker.py`) | `job_runs`, heartbeat | run every registered job in turn | a broken job stops no other |
| evidence review, event conflicts, collectors, engine rules, public site, administration, images and OCR, operations, database | see `PROJECT.json` | comparing, parsing, rendering, forms, reports | not control |

How they interact. One scheduler process runs its jobs one after the other
(`scheduler/jobs.py`): collection (`store_item`), acquisition and re-checks
(`record_outcome`), ingestion, re-extraction, normalization, the duplicate scan, and
the search for communities. The admin console is another process: it reviews
candidates, fetches an item at once, decides venues, answers duplicates and starts
passes; operator scripts (`scripts/`) run the same functions. They share only the
database rows. Each pass reads a batch, works through it one item at a time and
commits per item or per statement. That leaves the behaviours worth a model
checker:

- a row changed between a pass's read and its stamp (revision, fetch, review, answer);
- a row changed and changed back, which a digest or a hash cannot tell from one left alone;
- a crash between the commits of the two stores, or inside a batch;
- the same item revised, re-judged, blocked, forced, re-engined in any order;
- rows that a queue selects for ever and that take the place of others;
- counters, budgets and revisions that are read first and written back later;
- a budget that is looked up under one name and spent under another (hosts, providers);
- foreign keys that clear a column somebody else relies on;
- decisions taken, taken back and taken again over overlapping sets of rows.

## 2. Modules

| Module | Role |
|---|---|
| `Collection`, `CollectionProofs` | which source a tick collects, the provider's budget, refusals |
| `AcquisitionQueue`, `AcquisitionQueueProofs` | which items a tick fetches, what a fetch reports, when it is tried again |
| `ArticleStore` | abstract: what a re-check may do to a stored article |
| `ArticleRefresh`, `ArticleRefreshProofs` | re-checks beside the console's fetches; implements `ArticleStore` |
| `Extraction` | intake, fetch results, re-checks, reviews, releases and the two kinds of extraction pass |
| `ExtractionInv`, `ExtractionProofs` | its inductive invariants, and the proofs |
| `CandidateIdentity`, `CandidateIdentityProofs` | the candidates of one post over its readings |
| `Normalization`, `NormalizationProofs` | candidates into events, beside the venue decisions |
| `Duplicates`, `DuplicatesProofs` | the scan, a person's answers, the fold graph |
| `CommunityDiscovery`, `CommunityDiscoveryProofs` | the search job beside the operator's requests |
| `MC...` | small instances for TLC |

The modules follow the data: `Collection` decides when a source is collected,
`Extraction` what its records do (`Collect`, `Revise`, `Rejudge`, `Recollect`);
`AcquisitionQueue` decides which item is fetched, `Extraction`'s `Acquire` what the
result does to the row; `ArticleRefresh` decides whether a re-check stores a text,
`Extraction`'s `Refresh` puts the revised row in the re-extraction queue;
`Extraction` says when a post is read and keeps one reading per item,
`CandidateIdentity` what a reading does to the post's candidates; `Normalization`
takes candidates with any readings and reviews, and folds as one step;
`Duplicates` takes events with any rewrites. They share no variables: the rows
they share in the code are cut at the columns the other one does not look at, and
what the other does to the columns in common is an action (`Extraction`'s
`Acquire`, `Normalization`'s `Fold`, `Duplicates`' `Rewrite`, `LoseVenue`, `Prune`).

A device used throughout. Where the code leaves a gap in which another process's
write breaks a claim, the action of that other process has a guard of its own
(`NobodyReads`, `NobodyResolves`, `NobodyRemembers`, `NobodyPrunes`, `NobodyScans`, `Alone`),
which the code
does not have, and the constant `Beside` (`Others` in `Extraction`, `Console` in the two
acquisition modules) drops it. The passing runs show that the claim holds but for
that gap; section 3 says what happens in it, and `PROJECT.json` lists the gap as a hazard
that no property covers.

### Extraction

| Variable | Code |
|---|---|
| `src`, `ingest` | the `source_items` row: content hash, judgement keys, `ingest_state` |
| `row` | the `source_item_content` row |
| `served` | `content_fetch_log` has a fetch of the item that returned text |
| `reviewed` | some candidate of the item is in `candidate_review_state` |
| `post` | the engine's `raw_posts` has the item |
| `reading` | what the stored candidates were made from, and whether there are any |
| `engine` | the release all processes run |
| `pass` | the local variables of a running `ingest_pending` / `reprocess_acquired` |

Actions, in code order:

- `Collect`, `Revise`, `Rejudge`, `Recollect`: the four branches of `store_item()`,
  each with the `settle_full_body()` and `mark_needs_reextract()` it calls;
- `Enqueue`, `Acquire`: `mark_pending()` and `record_outcome()`, which overwrites the
  body with NULL when nothing came back; `Refresh`: a re-check that stored a revision;
- `Review`, `Deploy`, `Crash`;
- `StartIngest`, `IngestSign`, `IngestRead`, `IngestExtract` or `IngestFail`,
  `IngestMark`, `IngestStamp`: one step of `ingest_pending()` between any two points
  where another process can see or change something;
- `StartReprocess`, `ReprocessRead`, `ReprocessExtract` or `ReprocessFail`,
  `ReprocessStamp`: the same of `reprocess_acquired()`. `Verdict` is the decision
  it takes before it asks the engine, `Outdated` the four reasons of
  `needing_reprocess()`, `StampedByIngest` and `StampedByReprocess` the two UPDATEs
  that differ in `reprocessed_at` and `applied_engine_version`.

Abstractions: a time that is only compared becomes the result of the comparison
(`unread` for `reprocessed_at < fetched_at`, `touched` for `reprocessed_at < updated_at`);
`INPUT_SIGNATURE` is kept as what it digests, hashes as model values; what the
engine finds, and whether a poster's text could be loaded, are inputs; `FETCHED`
covers `FETCHED_FULL` and `FETCHED_PARTIAL`, `FETCH_FAILED` every outcome that leaves
nothing to read; reviews are kept per item: an item some candidate of which was
acted on counts as holding a reviewed one as long as it has candidates; every
item has a title, `Linkless` items have no URL; a `Synth` item's collector writes its body,
which `settle_full_body()` settles unless it is below MINIMUM_USEFUL_TEXT (records whose hash is
in `Short`), and then the item waits to be fetched like any other; `NoHtml` items are those
synthesized ones whose page is a JSON API, which is never fetched; `reprocess_attempts` stops at its
limit, `engine` at `MaxEngine`; a batch is any subset of the queue of the right
size, which includes the order of the query.

### AcquisitionQueue

`row` has the last reply, the attempts and whether `next_attempt_at` is set; `line` is
the order of the rows whose time has passed, `due` the list a running tick still
has to fetch. `StartTick` queues what was collected and takes the first `Limit`
rows, `FetchNext` fetches one, through both representations if the item has two
(`Reported`), and records it (`Recorded`, `Reschedules`); `ComesDue` is time passing;
`Reacquire` the console's fetch; `Crash` loses `due`. Time itself is left out: rows
join the end of the line in any order, because `due_for_acquisition()` sorts by
`next_attempt_at` and a row that comes due now is the latest. `attempts` stops at the
larger limit, beyond which no comparison changes. `record_outcome()` is one step:
two fetches of one row at the same instant, which could lose an increment of
`attempt_count`, are not modelled.

### ArticleRefresh and ArticleStore

A page's edits are numbered; `row` is the stored text and the refresh columns as the
edits they came from, `asked` the answer a plain acquisition has and has not
stored yet (the queue's before a run, the console's at any time), `log` and `limited`
what `content_fetch_log` says of each host, `run` the copies a run works on. `Fetch`
is the request of `refresh_one()`, `Finish` its transaction, in which the row may no
longer be the one that was copied (`SameRow`).

A host has three names here, as in the code. `run()` looks at the pause and the budget of
the host of the row's `fetched_url` (`MayAsk`, `row.host`); the pages tried are those of
`representations()`, which for cafe.daum.net are on m.cafe.daum.net first (`Reps`); and the log
names the host of the one whose answer counted (`reply.host`). A REVISED page
leaves `fetched_url` as it is, an acquisition may find the page under any host in
`Served`. The account that a run keeps in memory (`used`, `paused`) is by the first of these
names, what the next run reads from the log by the last. `Tagged` servers send
an ETag, if not every time: a revision takes what came with it, a confirmation keeps
the one there is when none came (COALESCE). `Conditional` servers answer it with a 304.

The due list is any set of due rows:
the query's order says who waits, not what is done. `Body` maps an edit to its text,
so that a publisher may take an edit back; with such edits `SameRow` cannot tell the
row from its copy, and the store may go back: `StoreIsImplemented` is checked and
proved for bodies that differ (`NoEditIsTakenBack`).

`ArticleStore` is the promise: an article changes by an acquisition, which stores
whatever it was answered, or advances to a later edit. The refinement maps the
stored text to `article` and leaves `page` and `asked` as they are; everything else
a re-check does is a stutter.

### CandidateIdentity

One post: `text` is what the engine would read off it, `cand` its candidates by
AUTOINCREMENT id, `review` and `decided` what people did to them and to their events,
`pass` what `ingest_pending()` or `reprocess_acquired()` holds of the post. `Match` is
`candidate_identity.match()` with its five tiers (`Tiers`), `RereadAround` the
review-aware apply, `RereadAll` the plain one, `Written` the writes of either. A
programme is the tuple of fields the tiers compare; end and venue are one field,
as only the first tier looks at them, and there together. One programme before and
one after is always the same candidate, whatever it says (`OneToOne`, the code's own
rule), so `NoDayMoves` and `UnchangedKeepsItsId` excuse it or do not apply.
`NoProgrammeTwice` and `RereadIsStable` are about posts whose programmes differ and
are dated (`Telling`): a post with two alike, or an undated one, gives them new
ids on every re-reading, as the last tiers leave them unpaired.

### Normalization

`cand` is a candidate's last reading, `review` its decisions, `venues`, `alias`, `entry` and
`master` the Venue Master with its queue of strings, `event` and `stamp` the rows of
`events` and `candidate_normalization`, `pass` the variables of `normalize_all()`: its
selection with the digests (`Start`), the batch reads (`ReadRows`), for each candidate
`Resolve`, `Write` and the stamp as statements of their own (or `NoDate`, or a failure),
then the prune in three (keep, release, delete) and the removal of stamps. The
selection is one step: its queries run before anything is read of what they
selected. A reading is digested with the count and last id of its evidence, which
comes from a counter, so no two readings of a candidate digest alike. The revision of the
master data is what `master_revision()` makes of the two tables that decide a venue: the
number of rows and the latest date of each (`Revision`, of `venues`, `alias` and the dates
in `since`, which `clock` gives out). It takes an earlier value again when the rows
added since are deleted, as when an alias is added and removed. The
resolution is by alias, else by a person's decision; alias candidates, region
conflicts, genres and terms are left out, they are derived in the same statement
from the same inputs. Which folds of a moved event a person made is left open
(`Moved`); `Fold` and `Unfold` stand for `Duplicates`.

### Duplicates

`row` is an event with what decides about folds and who folded it, `pair` the question,
`verdict` the standing rows of a person's answers, `scan` the rows a scan holds.
`AutoMerge` and `Ask` are the rules that merge and that ask; `Keeper` is `_canonical_of()`.
A scan reads all rows once, releases stale merges one by one, then compares pairs
one by one, deciding from the rows it holds; a foreign key that fails ends it
(`Abort`). An answer is one step, for its preview is recomputed under locks; `Revert`
includes the scans of the two days it runs in its own transaction (`ScanDay`: the loop over
the events and the loop over the pairs are folds in the order of ids). Left out:
what an answer is refused for over names, regions and sources (here they may be
given), the evidence merged into the canonical row, the election of a primary
source, the audit rows of AUTO decisions, and the order of days (days do not meet).

### Collection

Sources are numbered by their keys. Time is a tick: `age` counts ticks since
`last_collected_at` up to `Longest`, beyond which nobody waits, `hour` those of the
day. One process runs the job, and a tick ends before the next begins (`run_forever()`
is one loop), so there is one `pass`. A source is collected with the key its platform has in
`CREDENTIAL_ENV` (`Key`; a board has none) and counted for the provider its platform has in
`PROVIDER_BY_PLATFORM` (`Provider`), which is the key's or, for NAVER_WEB, nobody. `StartTick` takes
the due list, `Choose` looks at the mode and the budget, `Collect` asks the API or the board,
`ReadUsed` and `WriteUsed` are `quota.record()`, `Store` the items and the result; `Fault`
is a crash or what a statement raises: there is no result then. `last_status` is
kept as whether it is a refusal; a source costs `expected_request_count()` requests,
which the code counts whether or not the collector issued fewer. `spent` and `missed` are
history variables: what was asked with each key today, and what of it was asked for
sources `quota.py` has no provider of. Edits of the interval
and the console's [Test] are not modelled.

### CommunityDiscovery

`run` has the searches (the unique index allows one open one), `item` the candidates,
`community` and `source` the other two tables as far as they matter, `job` the
variables of `run_pending()`, `console` a request between two of its transactions. The
console is one uvicorn process whose handlers run their database code without
awaiting, so one request at a time (`Quiet`); the job runs beside it and both may
die. `Store` is the whole transaction of `execute_run()`, with the upserts, `Classified`
for every candidate touched, the status, and the prune of pending candidates not
seen for long. Names are specific and numbered in their order, regions agree, kinds
are "community", "other" and "unknown", dates recent or past (the passing of time
between runs is left out), and `Hit` is what the page's own hits of a search say
together. The pruning of old runs is not reached with so few; a community may be
deleted at once (the code wants it disabled first). Siblings of the form
"register and link" are any live candidates. `moved` is a history variable:
candidates that were linked elsewhere since they got a source.

## 3. What is checked

Every run ends within five minutes with two workers. `CHECK_DEADLOCK FALSE`
throughout: with nothing collected, due, stale or asked, the system rests.

| Run | Question | Instance |
|---|---|---|
| `Extraction_fetch` | Is the reading in force of the present record and body, and does a fetched body's reading survive? Also checks the invariant of the proof. | 1 item, 2 records, 2 texts, 1 engine; fetches and forced fetches during a pass, revisions and re-checks between passes |
| `Extraction_revise` | Is the record of an item whose collector writes the body read, also when a forced fetch takes that body away and the next collection restores it? | 2 items, one synthesized, one without a link, 2 records (one too short to settle), 2 judgements; forced fetches and forced passes during a pass, revisions and re-collections between passes, review-aware |
| `Extraction_backlog` | Do both queues empty, or their items stall visibly (liveness)? Do posters reach the engine, and reviewed candidates and readings of fetched bodies stay on the way? | 2 items in every mix of six backlog shapes, a release, batch of 1, 2 attempts |
| `AcquisitionQueue_serial` | Does a tick leave terminal rows alone, and is every due item fetched (liveness)? | 3 items, 1 with two forms, list of 2, limits 2 and 1 |
| `ArticleRefresh_recheck` | Do re-checks implement the abstract store, confirm only what was served, and keep to the budget of a host that has one name? | 2 articles of a host with a budget of 1, 3 edits of the one the console fetches; the other may be found on a cafe with a mobile host |
| `Normalization_passes` | Is what the queue calls current current, and what is hidden hidden for a reason? | 2 candidates, one read twice, reviewed and retired, 1 string, 1 venue, 1 row added to the master data, deletions at any time, batch of 1 |
| `Normalization_settles` | Is every candidate settled (liveness)? | the same, the post of one of them dated or not, fewer changes together |
| `Duplicates_answers` | Does an answer that stands say what the events say; do the rules prevail elsewhere (liveness)? | 3 events, a place in two cities, 3 answers, 1 rewrite |
| `Duplicates_chain` | Violation: does a fold graph have no chains? | 4 events, 2 rewrites, nobody answers |
| `CandidateIdentity_reread` | Do ids stay with programmes and decisions with ids; does another reading of the same text change nothing? | 1 post, 8 readings, 2 edits, 1 review, 1 answer |
| `Collection_ticks` | Does the budget hold for what is counted, is a refusal left alone, is every enabled source tried (liveness)? | 3 sources of one key, 1 of them counted for no provider, 1 a tick, 3 requests a day of 3 ticks, 1 fault |
| `CommunityDiscovery_searches` | Do answers outlive searches, is a source of one community, does every search end (liveness)? | 2 pages, 2 communities (one early), 2 searches, 3 requests |

### Why these bounds are enough

*Extraction.* The claims of freshness are about one item: passes share no state
between items except the batch, so one item with two values of whatever can
change under it (record, judgement, text, engine) has every interleaving; two
texts or records tell "old" from "new", and the engine is only compared for
equality. Starvation needs a second item and a batch smaller than the queue;
both queue runs have that. A limit of one or two attempts reaches "below", "at" and
"past" the limit. Symmetry is only over hashes, judgements and texts, which are
compared for equality (hashes not where `Short` tells them apart), and only in runs
without liveness. `Extraction_revise` has no releases and no posters, and its linkless item
only has the short record: what the other runs have of these does not meet what is
asked there (`SynthSpec`).

*ArticleRefresh.* Three edits are what the hazard takes: one the re-check copied, one
it is answered, one that another fetch stores meanwhile. Two articles of one host
with a budget of one make one wait for the other; `NotFoundLimit` 1 reaches the stop.
Three hosts are the least in which the host looked at and the host asked differ; the
cafe is only about while the first page has its first edit, and the log has two lines
(`MaxLog`), one above the budget. The log does not shrink under a run: a run reads it once,
and what leaves it meanwhile only makes the run ask less than it could. 2,149,280
states, two minutes and a half.

*Normalization.* The digest of a candidate and its row concern one candidate; the
second is there for the batch (`Limit` 1: one waits), for the prune, which needs a
candidate that stays, and for folds. Two readings, one review, one row added to the
master data and one failure each can come before, during and after a pass; of
readings, reviews and added rows there are at most `MaxChanges` in one behaviour, and rows
are deleted at any time, so that a revision comes back. One added row is enough for
that: what matters of a revision is whether it is the one that was held. 1,471,506
states, two minutes and a half; the run of liveness has a change less and
374,583.

*Duplicates.* Folds are a relation of a head and its members: three events have a head
with two members, a member that changes heads, and two overlapping questions; three
answers are two that overlap and one after a revert. Four events make the
chain. `MaxWrites` 1 lets one fold go stale.

*CandidateIdentity.* Each tier of `match()` and each kind of ambiguity is reached by some
pair of the eight readings; two edits give a third reading of what came back. The
properties are of one step, so longer histories add nothing but ids.

*Collection.* A source that is often due, one that costs more than what is left, and one
that uses the key but is counted for no provider; the day ends between ticks; the
longest interval is a refusal's. 429,520 states, half a minute.

*CommunityDiscovery.* A lively page, one that loses its life, one that another
community already has, one of the same name; one search may be queued when another
runs or has died. 310,643 states, about a minute.

### Mutants

Each property of a passing run has an operator `Mut...` beside the definition it
changes: what the code would do without a guard, with a re-read signature, with a
stamp for work not done, or as an earlier version did. Each was found by TLC to
violate its property under the run's own configuration.

### Disagreements and limits

`Duplicates_chain` is kept as a run: when two rows both head a group, `_canonical_of()`
keeps the older one and `record_decision()` moves only the row it folds, so the
younger head's members keep pointing to it. Against `runtime/duplicates.py:152-153`
("so no chain forms") and `:532-533` ("one canonical row, not a chain").

The others are described here as recipes, each a configuration of the run named,
with what to change. TLC finds every one of them violated.

| Base run, and what to change | What happens | Against |
|---|---|---|
| `Extraction_fetch`: `Others = {"collect"}`, `ReadingIsCurrent` | collection *beside* a pass (a script, the console): the batch is read before the signature, so a revision is stamped as read though the older copy was extracted | `runtime/engine_ingest.py:261` |
| `Extraction_fetch`: `MaxEngine = 2`, `ReviewAware = TRUE`, `Others = {"review"}`, `ReviewedIsKept` | a review recorded after the batch's snapshot is overwritten | `runtime/engine_ingest.py:691`, `runtime/events_admin.py:1720` |
| `Extraction_fetch`: `Others = {"reacquire", "force"}`, `BodyNeverDowngraded` | a refetch that *fails* (rather than is blocked), then a forced pass: the article's reading gives way to the snippet's | `runtime/content_store.py:427` |
| `Extraction_fetch`: `MaxEngine = 2`, `Others = {}`, `AppliedIsInForce` | a crash between the SQLite commit and the PostgreSQL stamp, then a review: `applied_engine_version` names the wrong engine for good | `migrations/runtime/050_extraction_freshness.sql:21` |
| `Extraction_revise`: `SynthReadingIsCurrent` | a forced fetch of a synthesized item between the signature and the read of an ingest: what the fetch left is read, the next collection restores the body under the old signature and settles it, and it is never read | `runtime/content_store.py:74-78`, `runtime/intake.py:237-242` |
| `Extraction_fetch`: `PosterIsRead` | the console fetches an item while a pass holds it: the signature does not digest the image list | - |
| `AcquisitionQueue_serial`: 1 item with two forms, `Limit = 1`, `MaxTransient = 5`, `MaxNotFound = 2`, `Console = "never"`, `BlipIsRetried` | a page refused four times, then one network error: given up, since all classes share `attempt_count` | `runtime/acquisition.py:82`, `:96` |
| `AcquisitionQueue_serial`: `Console = "any time"`, `TerminalIsLeftAlone` | an item the console has just settled is fetched once more by a tick that had it on its list | - |
| `ArticleRefresh_recheck`: `Tagged = {a1}`, `Conditional = {a1}` (the article the console fetches), `ConfirmedWasServed` | the console's fetch stores a text without its validators; those of the text before make the server answer 304, and the re-check confirms a text the page does not have | - |
| `ArticleRefresh_recheck`: `Console = {}`, `Tagged = {a1}`, `Conditional = {a1}`, three edits of `a1` of which the last takes the second back (`Body[3] = Body[1]`), `ConfirmedWasServed` | the same *between* runs: a fetch keeps the validators of the text before, and the page goes back to that text | - |
| `ArticleRefresh_recheck`: `PoliteToEveryHost` | an article found under cafe.daum.net is asked for on m.cafe.daum.net and logged there, while every run looks at the pause and the budget of cafe.daum.net: they never stop it | `runtime/article_refresh.py:48-52` |
| `Normalization_passes`: `Beside = {"venue"}`, `RowIsCurrent` | a link or a revert between `resolve_venue()` and the write is not in the row, and the row is stamped as current | - |
| `Normalization_passes`: `Beside = {"return"}`, `RowIsCurrent` | an alias added after a pass took its digests and removed again before the stamp: the row has the venue of the alias, and the stamp the revision there was and is | `runtime/normalization.py:903-908` |
| `Normalization_passes`: `Beside = {"fold"}`, `ListingIsTold` | an event folded under one that the prune is about to delete stays HIDDEN with nothing it is folded under | `runtime/normalization.py:51-62` |
| `Normalization_passes`: `Finds <- AnyPosts`, `RejectedIsUnlisted` | the row of a candidate whose reading lost its date is not touched again, so that a rejection never reaches it | - |
| `Duplicates_answers`: `Beside = {"person"}`, `AnswersStand` | a pair answered while a scan holds its rows is folded by the scan | `runtime/duplicates.py:550-552` |
| `Duplicates_answers`: `Beside = {"prune"}`, `AnswersStand` | the prune of an event clears who decided what was folded under it, and with that an earlier answer's protection | - |
| `CandidateIdentity_reread`: `Beside = {"person"}`, `ReviewedStays` | a review recorded while a pass re-reads the post is overwritten | `runtime/engine_ingest.py:691` |
| `CandidateIdentity_reread`: two processes, `Beside = {"reader"}`, `MaxEdits = 0`, `NoProgrammeTwice` | an ingestion and a re-extraction of the same new post, by two processes, both store its programmes | - |
| `Collection_ticks`: `Interval <- Crowd`, `EveryEnabledSourceIsTried` | more sources than a tick takes, all due again by the next: the due list is in the order of keys, so the last ones starve (`OldestFirst`, with `SPECIFICATION Spec`, shows the order) | `runtime/sources.py:426` ("oldest collection first") |
| `Collection_ticks`: `SPECIFICATION Spec`, `KeyIsNotOverspent` | a NAVER_WEB source is collected with the Naver key (`runtime/collectors.py:35-54`) but `PROVIDER_BY_PLATFORM` (`runtime/quota.py:33-37`) does not have it: it is neither checked nor counted, and the key is asked more than the budget | `runtime/quota.py:4-7`, `docs/NAVER_API_HUB.md` |
| `Collection_ticks`: `SPECIFICATION Spec`, `ReenabledIsAsked` | a source that refused, disabled and enabled again, still waits its day: `set_enabled()` resets neither the status nor the time | `runtime/sources.py:394-398` |
| `CommunityDiscovery_searches`: `SPECIFICATION Spec`, `ConfirmedStays` | a candidate with a date that a person confirmed is PENDING still: the page's own words take the date back, or a prune deletes the candidate with it | `runtime/community_discovery.py:1194` |
| `CommunityDiscovery_searches`: `SPECIFICATION Spec`, `ClearedStays` | a candidate marked as of its own is PENDING still, and a prune deletes it: found again, it is matched again | `runtime/community_discovery.py:1791-1794` |
| `CommunityDiscovery_searches`: `SourceIsOfItsCommunity` without `\ moved` | a candidate linked to another community keeps the source of the former | `runtime/community_discovery.py:2117` |

These are not runs of their own, as each is one gap of a claim that a run of this
project checks with the gap closed; what the claims promise is what is left of them.
`ReadingIsCurrent` leaves synthesized items to `SynthRecordIsRead`: their record is read,
whatever fetches do, their body need not be (`SynthReadingIsCurrent`). `PoliteToHosts` is of hosts that
have one name. `BudgetHolds` is of what `quota.py` counts. `AnswersOutlive` leaves out PENDING candidates
that no search sees any more.

Other limits of `CommunityDiscovery` seen in its state graph, each within the code's own
terms: a search whose context names a community that is deleted meanwhile ends FAILED
with all it found, for the foreign key; a candidate may stay POSSIBLE_DUPLICATE after
what it duplicated is gone, until something reclassifies it; `mark_independent()`
(`:2283`) clears one of a pair only (`:1800`).

### Fairness

`run_forever()` starts every registered job in every tick, for ever, and a failing job
stops no other. So in `Extraction` a pass that is running goes on (weak fairness of its
steps together: a step and its failure are one choice) and a pass that can be
started again and again is started (strong fairness, since in between other
passes run). Nothing is assumed of fetches, reviews, collection or crashes.
`EveryItemSettles` is conditional on everything but passes ending some time: a page
revised for ever is read for ever. In `AcquisitionQueue` a tick starts (weak) and one
that is restarted again and again gets to a fetch some time (strong: a crash in
between disables it); time passing, replies and the console are free.

In `Normalization` and `Duplicates` a process that can take a step of a pass or scan, or
start one, takes one (weak, of all its steps together); the claims are again for
when people and readings leave the tables alone in the end. In `Collection` time passes
and the job of a tick goes on; operators are free, faults are bounded. In
`CommunityDiscovery` the job goes on and hours pass; that a search fails or its process
dies is bounded by the number of searches, and nothing is assumed of the console.

## 4. What is proved

With TLAPS, for every value of the constants that the named assumptions allow (NULL
is not a value, limits are natural numbers, maps have their domains).

- `ExtractionProofs!TypeCorrect`: `Spec => []TypeOK`; `PassesHold`: a pass only holds copies
  of collected items and only stamps rows that exist. Both from `TypeInv`, which is
  inductive whatever other processes do: rows are never deleted and follow their
  `source_items` row.
- `ExtractionProofs!ClaimsAreBacked`: `Spec => []IInv`, and `NoRevisionIsLost`:
  `Spec => []ReadingIsCurrent`, for any items, texts, records, engines and batch size, any
  reviews, fetches, re-checks, forced fetches and forced passes during a pass, and
  crashes anywhere, assuming **one** process that runs passes and that nothing is
  collected while it does (`"collect" \notin Others`; the first recipe above shows that
  this is needed). `ReadingIsCurrent` is not inductive: whether a stamp about to be
  written is true depends on what the pass holds. `IInv` adds, per item, that a stamp
  of the running engine is backed by a reading of this record (`StampIsBacked`) and a
  signature of this body by a reading of it (`SignatureIsBacked`); per pass, that the
  copies it holds match the rows unless these were fetched since, which leaves
  `unread` set (`CopyIsFaithful`), and that a pass about to stamp has made the
  reading it stamps (`IngestIsFirst`, `ReprocessApplied`).
- `ExtractionProofs!SynthesizedIsRead`: `Spec => []SynthRecordIsRead`, under the assumptions of
  `NoRevisionIsLost` and from the same `IInv`, so with forced fetches and forced passes at
  any time and with records too short to settle: a revised synthesized record is read,
  and by the running engine. That its *body* is the one read is the recipe above, and
  false.
- `ExtractionProofs!RereadingsKeep`: `Spec => []KeptInv`, for one process of passes and
  *whatever* runs beside it. Each of its parts is guarded by what it needs to be kept out,
  so that each of three properties follows under the assumption of its own and no other:

  | Theorem | Property | What may not run beside a pass, and why |
  |---|---|---|
  | `BodyIsKept` | `BodyNeverDowngraded` | forced fetches together with forced passes: a refetch that fails takes the body of a row away that says it is acquired, and a forced pass reads what is left |
  | `ReviewedStaysAsItIs` | `ReviewedIsKept` | reviews, outside review-aware mode: the snapshot of reviewed items is taken with the batch |
  | `PosterReachesTheEngine` | `PosterIsRead` | fetches: a poster that arrives between copy and stamp is not in the signature |

  None of the three is inductive. `KeptInv` adds per item that what was served
  is still stored unless a forced fetch may take it away (`ServedHasBody`), that a reviewed row has candidates
  (`ReviewedHasCandidates`) and that a stamped row with a poster was read with it
  (`PosterIsBacked`); and per pass how far its copies can differ from the rows (`KeptCopy`),
  when an ingest reads for the first time (`FirstReading`), and what may be read again
  (`MayBeReread`, `RereadWithPoster`). The recipes of section 3 show the assumptions to be
  needed.
- `AcquisitionQueueProofs!QueueTypeCorrect`: neither the line nor a tick's list ever names an
  item twice, whenever the console is used. `TickTouchesNoTerminalRow`:
  `Spec => TerminalIsLeftAlone` when the console does not fetch inside a tick. The
  argument: what is in line or on the list is scheduled, a scheduled row is never
  terminal, and a fetch writes only the head of a list without repetitions.
- `ArticleRefreshProofs!HostsAreLeftInPeace`: `Spec => PoliteToHosts`: no host that is asked under
  one name only (`Single`) is asked beyond its budget or within its pause, with any
  representations of the others. `AccountCoversLog` is what it takes: for such a host the account
  a run keeps is never less than the log, though it is counted under the host looked
  at and the log under the host that answered. `RefreshTypeCorrect` has the same limit of
  the log for these hosts only; of the others there is none (`PoliteToEveryHost` fails).
  `RefreshImplementsStore`:
  `Spec => StoreIsImplemented` when no publisher takes an edit back (bodies differ).
  Initial states map to initial states, and every step to a step or a stutter of
  `ArticleStore`; the step that needs an argument is `Finish`, where `SameRow` together with
  differing bodies says that the stored text is the one copied, and the invariant
  that a copy and an answer are in the order in which the page had them does the
  rest. `WhatIsConfirmedWasServed`: `Spec => ConfirmedWasServed`, if no publisher takes an
  edit back and the servers that answer validators are of articles the console does not
  fetch beside a run. What "not modified" says is of the validators, not of the text:
  `ValidatorInv` says that the validators of a row are never of a *later* edit than its
  text. Then an answer of "not modified", which says that they are of the page as it is,
  leaves the text no edit but that one. Both assumptions are needed: a text stored
  without its validators keeps those of an earlier edit, and when the page is taken back to
  that edit, or when the store happens beside a run, the answer is about the wrong text
  (recipes in section 3).
- `NormalizationProofs!ListingTold`: `Spec => []ListingIsTold`, for any posts, decisions, batch
  and number of processes, crashes included, assuming that nothing is folded between the
  two statements of a prune (`"fold" \notin Beside`). A candidate that follows another one
  is hidden because of it (`Follows`), and a prune releases what followed before it deletes
  (`PruneIsReleased`). `TypeCorrect` and `RowCurrent`: `Spec => []TypeOK` and
  `Spec => []RowIsCurrent` assume **one** process that normalizes (two may write an older
  row under a newer stamp, and count attempts past the limit) and `RowCurrent` that
  no venue is decided between the look at it and the write, and that no deletion brings
  a revision of the master data back that a stamp or a pass still holds
  (`{"venue", "return"} \cap Beside = {}`). `CurrentInv` is its inductive invariant. Readings and reviews
  are counted and only grow (`InputsGrow`), and no stamp, copy or half-done reading is of a
  later one than there is (`StampsAreOld`, `HeldIsOld`, `ReadIsOld`). The revision of the master data does not
  grow: it is a record of counts and dates, and may become smaller, or what it was. So
  the argument is another one there: a step leaves the revision alone or makes it one
  that nobody holds (`NoReturn`). For an added row that is proved, not assumed: all revisions
  held have dates up to the clock (`Dated`), and the row's date is a later one
  (`AddedIsNew`); for a deletion it is the guard. Then what was resolved under a revision that
  is held and is the present one is resolved so still (`FoundIsKnown`), and a row whose stamp says
  the present inputs was made of them (`StampedMatches`, `WrittenMatches`).
- `CandidateIdentityProofs!ReviewedIsNeverTouched`, `AnsweredIsNeverRetired`, `RefusedDayIsKept`,
  `NoDayIsMoved`: the action properties of that name in the run, for any readings, edits and
  decisions, assuming `Serial`: no review falls into a batch and one pass at a time reads
  the post (`"person", "reader" \notin Beside`; the recipes show why). `IdInv` says that
  what a pass holds of the post is still so when it writes, and that ids in use are
  below the next one. The lemmas about `match()` (a pairing is injective, pairs
  programmes of one day, and leaves the ambiguous alone) rest on its tiers, which is
  a fold written without recursion. `TypeCorrect` needs no assumption.
  `NoProgrammeIsStoredTwice`: `Spec => []NoProgrammeTwice`, `UnchangedIsKept`:
  `Spec => UnchangedKeepsItsId` and `ReadingAgainChangesNothing`: `Spec => RereadIsStable`,
  all under `Serial`. The last assumes besides that the programmes of every reading tell
  themselves apart (`AllTell`), which `NoProgrammeTwice` has as its own condition: of two
  that are alike and of which a person answered about one, a reading matches neither
  for sure, and every further reading may create them again. The argument is about
  `match()`: it pairs one with one, what did not change with itself, and a second run
  retraces the tiers of the first (`Retraces`, `MatchRetraces`); a programme is a record of
  its fields (`FieldsTellProgrammes`).

- `CollectionProofs!BudgetIsKept`: `Spec => []BudgetHolds`, for any sources, keys, costs, budgets and
  faults: the provider's row of the day and the requests that are on their way to it account for
  every request with its key but what faults lost and what was asked for sources that are
  counted for nobody (`missed`), and the room `check()` saw is there until the record
  (`BudgetInv`). `OneMapWouldKeepTheKey`: `Spec => []KeyIsNotOverspent`, what the docstring of `quota.py` says, if
  every source with a key is counted for its provider (`EveryKeyIsKnown`): the one entry that
  `PROVIDER_BY_PLATFORM` lacks is all that is missing. `TypeCorrect` includes that no row exceeds the
  budget. `RefusalsAreRespected`: `Spec => RefusalIsRespected`, through any disabling and enabling. The status that
  says a refusal was the last answer is replaced by every later result; what makes
  that harmless is that a source on a tick's list has waited (`RefusalInv`). The
  assumption is the model's own: one process runs the job.

- `CommunityDiscoveryProofs!RegisteredShows`: `Spec => []RegisteredIsExisting`,
  `BoardsHaveOneCommunity`: `Spec => []SourceIsOfItsCommunity`, `NoSearchTakesBack`:
  `Spec => AnswersOutlive`, and `TypeCorrect`, for any pages, names, findings, communities and
  numbers of rows and answers, and whenever the job runs or dies between the steps of a
  request. `AnswersOutlive` says which rows a search may delete (PENDING ones it does not see) and
  what it may change of the others (a confirmed date, when the page tells of the end). `RowIsFine` is what every row says in every state; `ConsoleInv` that the
  class a request is about to write, read in an earlier transaction, is still what the
  answer says: the job is all that runs in between, and the job changes no answer
  (`StoreKeeps`). That the first of a set of names or ids exists is derived from the
  library's well-foundedness of `<`.

- `DuplicatesProofs!AnswersAreFinal`: `Spec => []AnswersStand`, for any events, rewrites, prunes,
  answers, reverts and any number of scans, crashes included, assuming that nobody answers
  while a scan holds older rows and that no event is pruned under which a person folded
  another (`"person", "prune" \notin Beside`; the code takes neither care, and the
  recipes of section 3 show what is lost then). `SInv` is its inductive invariant: a standing
  answer is of its pair, which says so unless one of the two events is gone (`AnswerIsOf`);
  a question is about events that are there (`QuestionsAreHere`); and a row that
  a person decided is held by a scan as decided by a person (`ScanKnows`). What no person
  does changes no row that a person decided and opens no question that was ever
  answered (`Keeps`, `OnlyAsks`, `QuietStands`). The case that needs an argument is the revert: two standing
  answers that fold the same event are of the same pair, an event that another answer
  keeps apart stays decided (`Standing`), and the scan that follows spares both.
  That scan is a fold over a set; that it stays among the states that spare what
  was decided (`ScanStates`) is an induction over the fold, done without the library's
  induction theorems: of the sets of elements for which it would not, one with the
  least number of elements contradicts itself (`FoldExists`, `FoldStays`).
  `TypeCorrect`: `Spec => []TypeOK` with no assumption.

Only model-checked: everything under fairness (`EveryItemSettles`,
`EveryDueItemIsFetched`, `EveryCandidateSettles`, `RulesPrevail`,
`EveryEnabledSourceIsTried`, `EveryRunEnds`), which these provers do not reach. Every
other property of a run that is expected to pass is a theorem.

## 5. Not modelled, and the plan

The map covers the parts of the code that decide what several processes do to the
same rows. Most of the repository's lines do not: the engine's rules and its offline
analytics (`engine/src/`, a third of the code), parsers and collectors, OCR, the public
site and its API, the forms and lists of the console, reports, and backups turn
data into data in one step. They are left out for good; the models take any result
of theirs where it matters. Which component is modelled how far is in
`PROJECT.json`.

What is left of the control, in the order of what matters most:

1. `reconcile_unsigned()` and the feedback guard of `engine_ingest.py` (`:654-700`, `:937-960`) as further
   steps of `CandidateIdentity`.
2. The evidence review of changed articles (`runtime/evidence_review.py`): a comparison that is
   confirmed on a preview, as in `Duplicates`.
3. The election of a primary source (`reconcile_primary_source()`), which both the scan and
   `Normalization` disturb.
4. Alerts of operations (`runtime/ops_*.py`): raised, acknowledged and cleared by observations.
5. More proofs: that `AcquisitionQueue` implements the fetch steps of `Extraction`; the safety
   half of the settling properties (what is settled is not selected again by a later pass).
