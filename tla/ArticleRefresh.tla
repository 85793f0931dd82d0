---------------------------- MODULE ArticleRefresh -----------------------------
(***************************************************************************)
(* Re-checking articles that were fetched before.  A run takes a list of   *)
(* due rows and the hosts' usage once, then works on those copies: it asks *)
(* the server, and only then opens a transaction on the row, which the     *)
(* console may have fetched again meanwhile.  That a text it stores is put *)
(* before the engine again is Refresh of module Extraction.                *)
(* An edit of a page is numbered; Body gives the text of an edit, so that  *)
(* a publisher may take an edit back.  0 is the edit of a NULL text, and   *)
(* of no ETag.                                                             *)
(* The host a run looks at, of the row's fetched_url, need not be the one  *)
(* it asks: a page may have other representations, tried in turn.  The log *)
(* names the one whose answer counted.                                     *)
(***************************************************************************)
EXTENDS Naturals, FiniteSets

CONSTANTS
  Article,         \* items whose body an adapter of their own scope reads
  Host,            \* the hosts they are on
  Reps,            \* representations(): the hosts tried for a page of a host
  Served,          \* hosts each article may be fetched from by an acquisition
  None,            \* nothing in progress
  MaxEdit,         \* bound on the edits of each page: [Article -> Nat]
  Body,            \* the text of each edit: content_hash
  MaxRefreshes,    \* MAX_REFRESHES_PER_TICK
  Budget,          \* HOST_DAILY_BUDGET
  NotFoundLimit,   \* NOT_FOUND_LIMIT
  Console,         \* articles the console may fetch while a run is going on
  Tagged,          \* articles whose server sends an ETag, if not every time
  Conditional      \* those whose server answers it with a 304

Edits == UNION {1 .. MaxEdit[a] : a \in Article}
Stored == Edits \cup {0}

(* STOPPING is FORBIDDEN and ROBOTS_DISALLOWED; FAILED also stands for     *)
(* REFUSED, ADAPTER_MISMATCH and BODY_UNAVAILABLE, which differ in name.   *)
SUCCESSES == {"UNCHANGED", "NOT_MODIFIED", "REVISED"}
FAILURES == {"FAILED", "RATE_LIMITED", "NOT_FOUND", "STOPPING"}
Outcome == SUCCESSES \cup FAILURES \cup {"SUPERSEDED", "none"}

(* The stored text, the host of fetched_url and the refresh columns:       *)
(*   etag      refresh_etag, as the edit it was served with                *)
(*   failures  refresh_failures, up to the limit it is compared with       *)
(*   waits     refresh_next_at is to come, or the interval is not over     *)
Row == [text : Stored, host : Host, etag : Stored, outcome : Outcome,
        failures : 0 .. NotFoundLimit, waits : BOOLEAN]

Copy == [article : Article, row : Row]
Reply == [kind : {"page", "304"} \cup FAILURES, edit : Stored, etag : Stored, host : Host]
Run == [todo : SUBSET Copy, left : 0 .. MaxRefreshes, used : [Host -> Nat],
        paused : SUBSET Host, cur : Copy \cup {None}, reply : Reply \cup {None}]
Idle == [todo |-> {}, left |-> 0, used |-> [h \in Host |-> 0], paused |-> {},
         cur |-> None, reply |-> None]

ASSUME RefreshAssumption ==
  /\ None \notin Stored \cup Copy \cup Reply
  /\ Reps \in [Host -> SUBSET Host] /\ Served \in [Article -> (SUBSET Host) \ {{}}]
  /\ Console \subseteq Article /\ Tagged \subseteq Article /\ Conditional \subseteq Tagged
  /\ MaxEdit \in [Article -> Nat \ {0}] /\ MaxRefreshes \in Nat \ {0}
  /\ Budget \in Nat \ {0} /\ NotFoundLimit \in Nat \ {0}
  /\ DOMAIN Body = Stored /\ \A v \in Edits : Body[v] # Body[0]

VARIABLES
  page,      \* the edit each article's site serves
  row,       \* source_item_content
  asked,     \* the answer an acquisition has and has not stored yet
  log,       \* re-checks of each host in content_fetch_log, of the last 24 h
  limited,   \* hosts whose last hour of that log has a RATE_LIMITED
  run        \* the local variables of run() and refresh_one()

vars == <<page, row, asked, log, limited, run>>
hosts == <<log, limited>>

(* the host is not looked at before there is a text                        *)
NewRow(a) == [text |-> 0, host |-> CHOOSE h \in Served[a] : TRUE, etag |-> 0,
              outcome |-> "none", failures |-> 0, waits |-> TRUE]

(* a host that is only ever asked for its own pages, and under its own name*)
Single(h) == Reps[h] = {h} /\ \A g \in Host : h \in Reps[g] => g = h

TypeOK ==
  /\ page \in [Article -> Edits]
  /\ row \in [Article -> Row]
  /\ asked \in [Article -> Stored \cup {None}]
  /\ log \in [Host -> Nat] /\ limited \in SUBSET Host
  /\ \A h \in Host : Single(h) => log[h] <= Budget
  /\ run \in Run

Init ==
  /\ page = [a \in Article |-> 1]
  /\ row = [a \in Article |-> NewRow(a)]
  /\ asked = [a \in Article |-> None]
  /\ log = [h \in Host |-> 0] /\ limited = {}
  /\ run = Idle

-----------------------------------------------------------------------------
(* _STOPPED                                                                *)
Stopped(r) ==
  \/ r.outcome = "STOPPING"
  \/ r.outcome = "NOT_FOUND" /\ r.failures >= NotFoundLimit

(* ELIGIBLE and _DUE, of an enabled source's article that is relevant      *)
Due(r) == r.text # 0 /\ ~Stopped(r) /\ ~r.waits

-----------------------------------------------------------------------------
(* The publisher, and the clock.                                           *)

Publish(a) ==
  /\ page[a] < MaxEdit[a]
  /\ page' = [page EXCEPT ![a] = @ + 1]
  /\ UNCHANGED <<row, asked, hosts, run>>

ComesDue(a) ==
  /\ row[a].waits
  /\ row' = [row EXCEPT ![a].waits = FALSE]
  /\ UNCHANGED <<page, asked, hosts, run>>

(* a log row leaves the window of 24 hours, a 429 that of one              *)
Expire(h) ==
  /\ log[h] > (IF h \in limited THEN 1 ELSE 0)
  /\ log' = [log EXCEPT ![h] = @ - 1]
  /\ UNCHANGED <<page, row, asked, limited, run>>

Unpause(h) ==
  /\ h \in limited
  /\ limited' = limited \ {h}
  /\ UNCHANGED <<page, row, asked, log, run>>

-----------------------------------------------------------------------------
(* A plain acquisition: the queue's before a run, the console's reacquire()*)
(* at any time.                                                            *)

Ask(a) ==
  /\ asked[a] = None
  /\ a \in Console \/ run = Idle
  /\ \E edit \in {0, page[a]} : asked' = [asked EXCEPT ![a] = edit]
  /\ UNCHANGED <<page, row, hosts, run>>

(* record_outcome() stores what came, NULL if nothing did; it leaves the   *)
(* refresh columns, the validators among them, as they are.                *)
Record(a) ==
  /\ asked[a] # None
  /\ a \in Console \/ run = Idle
  /\ \E waits \in {TRUE, row[a].waits},    \* an explicit refresh_next_at stands
        host \in Served[a] :
       row' = [row EXCEPT ![a].text = asked[a], ![a].host = host, ![a].waits = waits]
  /\ asked' = [asked EXCEPT ![a] = None]
  /\ UNCHANGED <<page, hosts, run>>

-----------------------------------------------------------------------------
(* run(): any due rows, in any order.  The SQL orders them by urgency and  *)
(* takes the first 50, which decides who waits, not what is done to a row. *)

StartRun ==
  /\ run = Idle
  /\ \A a \in Article \ Console : asked[a] = None
  /\ \E due \in SUBSET {a \in Article : Due(row[a])} :
       /\ due # {}
       /\ run' = [Idle EXCEPT
            !.todo = {[article |-> a, row |-> row[a]] : a \in due},
            !.left = MaxRefreshes, !.used = log, !.paused = limited]
  /\ UNCHANGED <<page, row, asked, hosts>>

MutMayAsk(h) == h \notin run.paused /\ log[h] <= Budget    \* one too many

(* neither paused nor over its budget                                      *)
MayAsk(h) == h \notin run.paused /\ run.used[h] < Budget

(* What may come back of a row's page: the page, a 304 when its ETag is    *)
(* that of the validator, or a failure, of some representation of it.      *)
Replies(c) ==
  LET edit == page[c.article]
      unchanged == /\ c.article \in Conditional /\ c.row.etag # 0
                   /\ Body[c.row.etag] = Body[edit]
  IN [kind : {"page"} \cup (IF unchanged THEN {"304"} ELSE {}), edit : {edit},
      etag : {0} \cup (IF c.article \in Tagged THEN {edit} ELSE {}), host : Reps[c.row.host]]
     \cup [kind : FAILURES, edit : {0}, etag : {0}, host : Reps[c.row.host]]

(* the fetch of refresh_one(), before its transaction                      *)
Fetch ==
  /\ run.cur = None /\ run.left > 0
  /\ \E c \in run.todo :
       /\ MayAsk(c.row.host)
       /\ \E reply \in Replies(c) :
            run' = [run EXCEPT !.todo = @ \ {c}, !.left = @ - 1,
                               !.cur = c, !.reply = reply]
  /\ UNCHANGED <<page, row, asked, hosts>>

(* classify()                                                              *)
Result(c, reply) ==
  CASE reply.kind = "304" -> "NOT_MODIFIED"
    [] reply.kind = "page" ->
         IF Body[reply.edit] = Body[c.row.text] THEN "UNCHANGED" ELSE "REVISED"
    [] OTHER -> reply.kind

MutSameRow(r, c) == r.text # 0    \* without the comparison of the hash

(* WHERE content_hash IS NOT DISTINCT FROM ... AND acquisition_status = ...*)
SameRow(r, c) == r.text # 0 /\ Body[r.text] = Body[c.row.text]

(* The UPDATE of each kind of result.  A confirmation without an ETag keeps*)
(* the one there is; none of them touches fetched_url.                     *)
Confirmed(r, reply, result) ==
  [r EXCEPT !.outcome = result, !.failures = 0, !.waits = TRUE,
            !.etag = IF reply.etag # 0 THEN reply.etag ELSE @]

Revised(r, reply) ==
  [r EXCEPT !.text = reply.edit, !.etag = reply.etag, !.outcome = "REVISED",
            !.failures = 0, !.waits = TRUE]

Superseded(r) == [r EXCEPT !.outcome = "SUPERSEDED"]

(* counted from the copy, and recorded whatever the row holds by now       *)
Failed(r, c, result) ==
  [r EXCEPT !.outcome = result, !.waits = TRUE,
            !.failures = IF c.row.failures < NotFoundLimit
                         THEN c.row.failures + 1 ELSE NotFoundLimit]

Refreshed(r, c, reply) ==
  LET result == Result(c, reply)
  IN CASE result \in FAILURES -> Failed(r, c, result)
       [] ~SameRow(r, c) /\ result \notin FAILURES -> Superseded(r)
       [] SameRow(r, c) /\ result = "REVISED" -> Revised(r, reply)
       [] OTHER -> Confirmed(r, reply, result)

(* run()'s own account, under the host it looked at                        *)
Counted(h) ==
  [run EXCEPT !.cur = None, !.reply = None, !.used[h] = @ + 1,
              !.paused = IF run.reply.kind = "RATE_LIMITED" THEN @ \cup {h} ELSE @]

(* the transaction of refresh_one(), with its line of the log, under the   *)
(* host that answered                                                      *)
Finish ==
  /\ run.cur # None
  /\ LET c == run.cur
         h == run.reply.host
     IN /\ row' = [row EXCEPT ![c.article] = Refreshed(@, c, run.reply)]
        /\ log' = [log EXCEPT ![h] = @ + 1]
        /\ limited' = IF run.reply.kind = "RATE_LIMITED"
                      THEN limited \cup {h} ELSE limited
        /\ run' = Counted(c.row.host)
  /\ UNCHANGED <<page, asked>>

EndRun ==
  /\ run # Idle /\ run.cur = None
  /\ run.left = 0 \/ \A c \in run.todo : ~MayAsk(c.row.host)
  /\ run' = Idle
  /\ UNCHANGED <<page, row, asked, hosts>>

(* the scheduler dies, and its run with it; the console dies               *)
Crash ==
  /\ run # Idle
  /\ run' = Idle
  /\ UNCHANGED <<page, row, asked, hosts>>

ConsoleDies(a) ==
  /\ asked[a] # None
  /\ asked' = [asked EXCEPT ![a] = None]
  /\ UNCHANGED <<page, row, hosts, run>>

Next ==
  \/ \E a \in Article : Publish(a) \/ ComesDue(a) \/ Ask(a) \/ Record(a)
                        \/ ConsoleDies(a)
  \/ \E h \in Host : Expire(h) \/ Unpause(h)
  \/ StartRun \/ Fetch \/ Finish \/ EndRun \/ Crash

Spec == Init /\ [][Next]_vars

-----------------------------------------------------------------------------
(* Properties                                                              *)

(* The stored articles behave as ArticleStore promises: a re-check never   *)
(* puts an earlier text over a later one and never loses the text, however *)
(* it and the console's fetches overlap.                                   *)
Articles == INSTANCE ArticleStore WITH article <- [a \in Article |-> row[a].text]
StoreIsImplemented == Articles!StoreSpec

(* "A failed check never reads as current": a check that succeeds without  *)
(* a revision leaves in the row the text the server had when it was asked. *)
ConfirmedWasServed ==
  [][\A a \in Article :
       /\ run.cur # None /\ run' # run /\ row'[a] # row[a]
       /\ row'[a].outcome \in {"UNCHANGED", "NOT_MODIFIED"}
       => Body[row'[a].text] = Body[run.reply.edit]]_vars

(* No host is asked more often than its budget allows, or within the pause *)
(* after a 429, by what the log says of it, though a run reads the log once*)
(* and asks several times.  This is of hosts asked under one name only.    *)
PoliteToHosts ==
  [][\A c \in run.todo :
       run.cur = None /\ run'.cur = c
       => \A h \in Reps[c.row.host] : Single(h) => log[h] < Budget /\ h \notin limited]_vars

(* Of every host whose answer is logged.  It does not hold: see README.md, *)
(* "Disagreements".                                                        *)
PoliteToEveryHost ==
  [][run.cur = None /\ run'.cur # None
     => log[run'.reply.host] < Budget /\ run'.reply.host \notin limited]_vars

=============================================================================
