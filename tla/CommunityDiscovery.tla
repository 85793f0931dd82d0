--------------------------- MODULE CommunityDiscovery ---------------------------
(***************************************************************************)
(* Candidates for the list of dance communities.  An operator queues a     *)
(* search; the scheduler's job runs it and stores one candidate for each   *)
(* public page it finds, classified against the communities and the other  *)
(* candidates; the operator registers candidates as communities, links     *)
(* them, puts them aside, corrects what is known of them, and proposes     *)
(* their pages as sources.  The console serves one request at a time; the  *)
(* job runs beside it, in a process of its own that may die.               *)
(***************************************************************************)
EXTENDS Naturals, FiniteSets

CONSTANTS
  Key,             \* public identities: a cafe, a homepage
  Name,            \* normalized specific names, numbered in their order
  Finding,         \* what a search may find: functions from some keys to hits
  MaxItems, MaxCommunities, MaxRuns,   \* bounds on the rows ever created
  MaxAnswers,      \* bound on the requests of the operator
  Typed,           \* homepages and names the operator gives to communities
  Before,          \* the communities there are before any search, by their ids
  ByHand,          \* pages that have a source of no community, set up by hand
  None, Gone,      \* NULL, no row yet; a row deleted
  Hand             \* owner of a source set up by hand

Item == 1 .. MaxItems
Community == 1 .. MaxCommunities
Run == 1 .. MaxRuns

Kind == {"community", "other", "unknown"}      \* other: NOT_COMMUNITY_KINDS
Activity == {"active", "stale", "inactive", "unverified"}
Date == {"recent", "past"}                     \* within ACTIVE_WINDOW_MONTHS
Done == {"approved", "linked"}                 \* DONE_STATES
State == {"pending", "held", "rejected"} \cup Done
Class == {"existing", "new", "duplicate", "unverified", "stale", "inactive", "not"}

(* What the hits on one page say of it: external means that all of them    *)
(* are somebody else's promotion, which says nothing of the page itself.   *)
Hit == [name : Name \cup {None}, kind : Kind, date : Date \cup {None}, word : BOOLEAN,
        ends : BOOLEAN, external : BOOLEAN]

Row == [key : Key, name : Name \cup {None}, kind : Kind, activity : Activity,
        date : Date \cup {None}, confidence : {"confirmed", "inferred", "unknown"},
        state : State, class : Class, existing : Community \cup {None},
        twin : Item \cup {None}, registered : Community \cup {None},
        cleared : BOOLEAN, source : Key \cup {None}]

Outcome == [class : Class, existing : Community \cup {None}, twin : Item \cup {None}]

ASSUME DiscoveryAssumption ==
  /\ MaxItems \in Nat /\ MaxCommunities \in Nat /\ MaxRuns \in Nat /\ MaxAnswers \in Nat
  /\ ByHand \subseteq Key /\ Typed \subseteq [key : Key \cup {None}, name : Name]
  /\ Before \in [Community -> Typed \cup {None}]
  /\ Name \subseteq Nat /\ {None, Gone, Hand} \cap Nat = {}
  /\ None # Hand /\ None \notin Key /\ {None, Gone} \cap Typed = {}
  /\ None \notin Row /\ Gone \notin Row /\ None \notin Outcome
  /\ \A f \in Finding : /\ DOMAIN f \subseteq Key
                        /\ \A k \in DOMAIN f :
                             /\ f[k] \in Hit
                             /\ f[k].external => /\ f[k].date = None
                                                 /\ ~f[k].word /\ ~f[k].ends

VARIABLES
  run,         \* community_discovery_runs: their statuses
  overdue,     \* the run that is running started over STALE_RUN_MINUTES ago
  item,        \* community_discovery_items
  community,   \* communities: their homepages and names
  source,      \* sources at a page: the config.community_id of their rows
  job,         \* the local variables of run_pending()
  console,     \* the request that the console is in the middle of
  answers,
  moved        \* history: candidates linked elsewhere since they got a source

vars == <<run, overdue, item, community, source, job, console, answers, moved>>

LiveIn(rows) == {i \in DOMAIN rows : rows[i] \notin {None, Gone}}
Live == LiveIn(item)
Open == {r \in Run : run[r] \in {"queued", "running"}}
Nothing == [k \in {} |-> None]

Free == [at |-> "idle", run |-> None, found |-> Nothing, known |-> Nothing]
Quiet == [at |-> "idle", item |-> None, class |-> None, community |-> None, todo |-> {}]

Job == [at : {"idle", "search", "store"}, run : Run \cup {None},
        found : Finding \cup {Nothing},
        known : [Community -> Typed \cup {None, Gone}] \cup {Nothing}]
Request == [at : {"idle", "read", "write", "group", "link"}, item : Item \cup {None},
            class : Outcome \cup {None}, community : Community \cup {None},
            todo : SUBSET Item]

TypeOK ==
  /\ run \in [Run -> {"none", "queued", "running", "done", "failed"}]
  /\ overdue \in BOOLEAN /\ \A r, s \in Open : r = s
  /\ item \in [Item -> Row \cup {None, Gone}]
  /\ \A i \in Live : /\ item[i].twin # None => item[i].twin < i /\ item[i].twin \in Live
                     /\ item[i].existing # None => item[i].existing \in LiveIn(community)
                     /\ \A j \in Live : item[i].key = item[j].key => i = j
  /\ community \in [Community -> Typed \cup {None, Gone}]
  /\ source \in [Key -> Community \cup {None, Hand}]
  /\ job \in Job /\ console \in Request
  /\ answers \in 0 .. MaxAnswers /\ moved \in SUBSET Item

Init ==
  /\ run = [r \in Run |-> "none"] /\ overdue = FALSE
  /\ item = [i \in Item |-> None]
  /\ community = Before
  /\ source = [k \in Key |-> IF k \in ByHand THEN Hand ELSE None]
  /\ job = Free /\ console = Quiet
  /\ answers = 0 /\ moved = {}

-----------------------------------------------------------------------------
(* What is known of a candidate, and how it is classified.                 *)

Verdict(day) == IF day = "recent" THEN "active" ELSE "stale"

MutAssessed(row, hit) ==          \* a later post replaces a confirmed date
  IF hit.ends
    THEN [activity |-> "inactive", date |-> None, confidence |-> "unknown"]
  ELSE IF hit.word /\ hit.date # None
    THEN [activity |-> Verdict(hit.date), date |-> hit.date, confidence |-> "inferred"]
  ELSE IF row.date # None
    THEN [activity |-> Verdict(row.date), date |-> row.date, confidence |-> row.confidence]
  ELSE [activity |-> "unverified", date |-> hit.date, confidence |-> "inferred"]

(* assess_activity()                                                       *)
Assessed(row, hit) ==
  LET days == {row.date, hit.date} \ {None} IN
  IF hit.ends
    THEN [activity |-> "inactive", date |-> None, confidence |-> "unknown"]
  ELSE IF row.confidence = "confirmed"
    THEN [activity |-> Verdict(row.date), date |-> row.date, confidence |-> "confirmed"]
  ELSE IF hit.word /\ hit.date # None
    THEN [activity |-> Verdict(hit.date), date |-> hit.date, confidence |-> "inferred"]
  ELSE IF "recent" \in days
    THEN [activity |-> "unverified", date |-> "recent", confidence |-> "inferred"]
  ELSE IF days # {}
    THEN [activity |-> "stale", date |-> "past", confidence |-> "inferred"]
  ELSE [activity |-> "unverified", date |-> None, confidence |-> "unknown"]

(* A name stays; a kind stays where the hits tell nothing of it, unless    *)
(* what they tell is that the page only carried a promotion.               *)
Merged(row, hit) ==
  LET told == Assessed(row, hit) IN
  [row EXCEPT !.name = IF @ # None THEN @ ELSE hit.name,
              !.kind = IF hit.kind = "unknown" /\ ~hit.external THEN @ ELSE hit.kind,
              !.activity = told.activity, !.date = told.date,
              !.confidence = told.confidence]

Blank(k) ==
  [key |-> k, name |-> None, kind |-> "unknown", activity |-> "unverified", date |-> None,
   confidence |-> "unknown", state |-> "pending", class |-> "unverified", existing |-> None,
   twin |-> None, registered |-> None, cleared |-> FALSE, source |-> None]

MutTwins(i, rows) ==              \* any other candidate of that name
  {j \in LiveIn(rows) : j # i /\ rows[j].name = rows[i].name /\ ~rows[j].cleared}

(* earlier candidates of the same name                                     *)
Twins(i, rows) ==
  {j \in LiveIn(rows) : j < i /\ rows[j].name = rows[i].name /\ ~rows[j].cleared}

Least(S) == CHOOSE x \in S : \A y \in S : x <= y

(* the first of them in the order of list_communities(), by name           *)
First(cs, known) == CHOOSE c \in cs : \A d \in cs : known[c].name <= known[d].name

MutClassified(i, rows, known) ==  \* the page is compared before the answer is
  LET row == rows[i]
      atPage == {c \in LiveIn(known) : known[c].key = row.key} IN
  IF atPage # {}
    THEN [class |-> "existing", existing |-> First(atPage, known), twin |-> None]
  ELSE IF row.state \in Done /\ row.registered # None
    THEN [class |-> "existing", existing |-> row.registered, twin |-> None]
  ELSE [class |-> "unverified", existing |-> None, twin |-> None]

(* reclassify(), up to its UPDATE                                          *)
Classified(i, rows, known) ==
  LET row == rows[i]
      atPage == {c \in LiveIn(known) : known[c].key = row.key}
      comparable == row.name # None /\ ~row.cleared
      sameName == {c \in LiveIn(known) : known[c].name = row.name} IN
  IF row.state \in Done /\ row.registered # None
    THEN [class |-> "existing", existing |-> row.registered, twin |-> None]
  ELSE IF atPage # {}
    THEN [class |-> "existing", existing |-> First(atPage, known), twin |-> None]
  ELSE IF row.kind = "other"
    THEN [class |-> "not", existing |-> None, twin |-> None]
  ELSE IF comparable /\ sameName # {}
    THEN [class |-> "duplicate", existing |-> First(sameName, known), twin |-> None]
  ELSE IF comparable /\ Twins(i, rows) # {}
    THEN [class |-> "duplicate", existing |-> None, twin |-> Least(Twins(i, rows))]
  ELSE [class |-> IF row.activity \in {"inactive", "stale"} THEN row.activity
                  ELSE IF row.kind = "community" /\ row.activity = "active" THEN "new"
                  ELSE "unverified",
        existing |-> None, twin |-> None]

Marked(row, verdict) ==
  [row EXCEPT !.class = verdict.class, !.existing = verdict.existing, !.twin = verdict.twin]

-----------------------------------------------------------------------------
(* The runs and the job.                                                   *)

QueueRun ==
  /\ console = Quiet /\ Open = {}
  /\ \E r \in Run : /\ run[r] = "none" /\ \A s \in Run : s < r => run[s] # "none"
                    /\ run' = [run EXCEPT ![r] = "queued"]
  /\ UNCHANGED <<overdue, item, community, source, job, console, answers, moved>>

HourPasses ==
  /\ ~overdue /\ \E r \in Run : run[r] = "running"
  /\ overdue' = TRUE
  /\ UNCHANGED <<run, item, community, source, job, console, answers, moved>>

MutAbandoned == {}                \* nobody closes what a restart left behind

Abandoned == {r \in Run : run[r] = "running" /\ overdue}

(* claim_next_run()                                                        *)
Claim ==
  LET queued == {r \in Run : run[r] = "queued"} IN
  /\ job = Free /\ queued \cup Abandoned # {}
  /\ run' = [r \in Run |-> IF r \in Abandoned THEN "failed"
                           ELSE IF queued # {} /\ r = Least(queued) THEN "running"
                           ELSE run[r]]
  /\ job' = IF queued = {} THEN Free
            ELSE [Free EXCEPT !.at = "search", !.run = Least(queued)]
  /\ overdue' = FALSE
  /\ UNCHANGED <<item, community, source, console, answers, moved>>

(* collect_hits(), and load_context() when the last of them is there       *)
Search ==
  /\ job.at = "search"
  /\ \E found \in Finding :
       job' = [job EXCEPT !.at = "store", !.found = found, !.known = community]
  /\ UNCHANGED <<run, overdue, item, community, source, console, answers, moved>>

(* the candidates of the pages found, new ones under fresh ids             *)
Fresh(rows) == {i \in Item : rows[i] = None}
Upserted(ids) ==
  [i \in Item |->
     IF i \in Live /\ item[i].key \in DOMAIN job.found
       THEN Merged(item[i], job.found[item[i].key])
     ELSE IF \E k \in DOMAIN ids : ids[k] = i
       THEN LET k == CHOOSE x \in DOMAIN ids : ids[x] = i
            IN  Merged(Blank(k), job.found[k])
     ELSE item[i]]
Touched(rows) == {i \in LiveIn(rows) : rows[i].key \in DOMAIN job.found}
Stored(rows) ==
  [i \in Item |-> IF i \in Touched(rows)
                    THEN Marked(rows[i], Classified(i, rows, job.known)) ELSE rows[i]]

Prunable(rows) == {i \in LiveIn(rows) : rows[i].state = "pending"} \ Touched(rows)

(* ON DELETE SET NULL                                                      *)
Without(rows, out) ==
  [i \in Item |-> IF i \in out THEN Gone
                  ELSE IF rows[i] \notin {None, Gone} /\ rows[i].twin \in out
                    THEN [rows[i] EXCEPT !.twin = None]
                  ELSE rows[i]]

Finish(status) ==
  /\ run' = [run EXCEPT ![job.run] = status]
  /\ overdue' = FALSE /\ job' = Free
  /\ UNCHANGED <<community, source, console, answers, moved>>

(* the transaction of execute_run(): store_hits(), the status, prune();    *)
(* a community that was deleted since the context was read fails it        *)
Store ==
  LET new == {k \in DOMAIN job.found : \A i \in Live : item[i].key # k} IN
  /\ job.at = "store"
  /\ \E ids \in [new -> Fresh(item)] :
       /\ \A k, l \in new : k # l => ids[k] # ids[l]
       /\ \A k \in new, i \in Fresh(item) : i < ids[k] => \E l \in new : ids[l] = i
       /\ \E merged \in {Upserted(ids)} : \E rows \in {Stored(merged)} :
            LET met == {rows[i].existing : i \in Touched(rows)} \ {None} IN
            IF met \subseteq LiveIn(community)
              THEN /\ \E out \in SUBSET Prunable(rows) : item' = Without(rows, out)
                   /\ \E status \in {"done", "failed"} :
                        /\ status = "failed" => job.found = Nothing
                        /\ Finish(status)
              ELSE item' = item /\ Finish("failed")

(* what execute_run() raises                                               *)
Fail ==
  /\ job # Free
  /\ Finish("failed") /\ item' = item

Die ==
  /\ job # Free
  /\ job' = Free
  /\ UNCHANGED <<run, overdue, item, community, source, console, answers, moved>>

-----------------------------------------------------------------------------
(* The console.                                                            *)

Asked ==
  /\ console = Quiet /\ answers < MaxAnswers
  /\ answers' = answers + 1

NameFree(n) == \A c \in LiveIn(community) : community[c].name # n

(* communities.create_community(); c is the id it gives                    *)
Created(c, listed) ==
  /\ community[c] = None /\ \A d \in Community : d < c => community[d] # None
  /\ NameFree(listed.name)
  /\ community' = [community EXCEPT ![c] = listed]

Answered(i, state, c) ==
  [item EXCEPT ![i].state = state, ![i].registered = c, ![i].existing = c,
               ![i].class = "existing"]

CreateCommunity ==
  /\ Asked
  /\ \E c \in Community, listed \in Typed : Created(c, listed)
  /\ UNCHANGED <<run, overdue, item, source, job, console, moved>>

(* register_item(), register_item_and_link_group(): the siblings that the  *)
(* form named are linked afterwards, one transaction each                  *)
Register ==
  /\ Asked
  /\ \E i \in Live, c \in Community, listed \in Typed :
       /\ item[i].state \notin Done /\ Created(c, listed)
       /\ item' = Answered(i, "approved", c)
       /\ \E siblings \in SUBSET (Live \ {i}) :
            console' = IF siblings = {} THEN Quiet
                       ELSE [Quiet EXCEPT !.at = "group", !.community = c, !.todo = siblings]
  /\ UNCHANGED <<run, overdue, source, job, moved>>

LookAtSibling(j) ==
  /\ console.at = "group" /\ j \in console.todo
  /\ console' =
       IF j \in Live /\ item[j].state \notin Done
         THEN [console EXCEPT !.at = "link", !.item = j, !.todo = @ \ {j}]
       ELSE IF console.todo = {j} THEN Quiet
       ELSE [console EXCEPT !.todo = @ \ {j}]
  /\ UNCHANGED <<run, overdue, item, community, source, job, answers, moved>>

(* link_item(); a sibling that was pruned in between ends the request      *)
LinkSibling ==
  LET j == console.item IN
  /\ console.at = "link"
  /\ IF j \in Live
       THEN /\ item' = Answered(j, "linked", console.community)
            /\ console' = IF console.todo = {} THEN Quiet
                          ELSE [console EXCEPT !.at = "group", !.item = None]
       ELSE item' = item /\ console' = Quiet
  /\ UNCHANGED <<run, overdue, community, source, job, answers, moved>>

Link ==
  /\ Asked
  /\ \E i \in Live, c \in LiveIn(community) :
       /\ item[i].state # "approved"
       /\ item' = Answered(i, "linked", c)
       /\ moved' = IF item[i].source # None /\ item[i].registered # c
                     THEN moved \cup {i} ELSE moved
  /\ UNCHANGED <<run, overdue, community, source, job, console>>

SetReviewState ==
  /\ Asked
  /\ \E i \in Live, s \in State \ Done :
       /\ item[i].state \notin Done
       /\ item' = [item EXCEPT ![i].state = s]
  /\ UNCHANGED <<run, overdue, community, source, job, console, moved>>

(* confirm_activity_evidence() and mark_independent(): what was answered   *)
(* is committed, then the candidate is read again and classified           *)
ThenReclassify(i) == console' = [Quiet EXCEPT !.at = "read", !.item = i]

ConfirmEvidence ==
  /\ Asked
  /\ \E i \in Live, day \in Date :
       /\ item' = [item EXCEPT ![i].activity = Verdict(day), ![i].date = day,
                               ![i].confidence = "confirmed"]
       /\ ThenReclassify(i)
  /\ UNCHANGED <<run, overdue, community, source, job, moved>>

MarkIndependent ==
  /\ Asked
  /\ \E i \in Live :
       /\ item[i].state \notin Done
       /\ item' = [item EXCEPT ![i].cleared = TRUE]
       /\ ThenReclassify(i)
  /\ UNCHANGED <<run, overdue, community, source, job, moved>>

ReadAgain ==
  LET i == console.item IN
  /\ console.at = "read"
  /\ console' = IF i \in Live
                  THEN [console EXCEPT !.at = "write", !.class = Classified(i, item, community)]
                  ELSE Quiet
  /\ UNCHANGED <<run, overdue, item, community, source, job, answers, moved>>

(* the UPDATE of reclassify(): of no row, where it was pruned; refused,    *)
(* where the twin was                                                      *)
WriteClass ==
  LET i == console.item IN
  /\ console.at = "write"
  /\ item' = IF i \in Live /\ console.class.twin \in Live \cup {None}
               THEN [item EXCEPT ![i] = Marked(@, console.class)] ELSE item
  /\ console' = Quiet
  /\ UNCHANGED <<run, overdue, community, source, job, answers, moved>>

Own(c) == {i \in Live : item[i].state \in Done /\ item[i].registered = c}

MutMayHave(k, c) == TRUE          \* the board of another community is reused

(* _register_or_reuse(): no row yet, or one of nobody else                 *)
MayHave(k, c) == source[k] \in {None, Hand, c}
Proposed(k, c) ==
  /\ MayHave(k, c)
  /\ source' = [source EXCEPT ![k] = IF @ = None THEN c ELSE @]

(* propose_source(); a candidate that has a source keeps it                *)
ProposeSource ==
  /\ Asked
  /\ \E i \in Live :
       /\ item[i].source = None /\ item[i].state \in Done /\ item[i].registered # None
       /\ Proposed(item[i].key, item[i].registered)
       /\ item' = [item EXCEPT ![i].source = item[i].key]
  /\ UNCHANGED <<run, overdue, community, job, console, moved>>

(* propose_source_for_community(): its homepage, or else the page of the   *)
(* latest of its candidates                                                *)
PagesOf(c) ==
  IF community[c].key # None THEN {community[c].key}
  ELSE {item[i].key : i \in {j \in Own(c) : \A k \in Own(c) : k <= j}}

ProposeForCommunity ==
  /\ Asked
  /\ \E c \in LiveIn(community) : \E page \in PagesOf(c) :
       /\ Proposed(page, c)
       /\ item' = [i \in Item |-> IF i \in Own(c) /\ item[i].source = None
                                    THEN [item[i] EXCEPT !.source = page] ELSE item[i]]
  /\ UNCHANGED <<run, overdue, community, job, console, moved>>

(* communities.delete_community(), once it was disabled                    *)
DeleteCommunity ==
  /\ Asked
  /\ \E c \in LiveIn(community) :
       LET Unset(x) == IF x = c THEN None ELSE x IN
       /\ community' = [community EXCEPT ![c] = Gone]
       /\ item' = [i \in Item |->
                     IF i \in Live
                       THEN [item[i] EXCEPT !.existing = Unset(@), !.registered = Unset(@)]
                       ELSE item[i]]
  /\ UNCHANGED <<run, overdue, source, job, console, moved>>

ConsoleDies ==
  /\ console # Quiet
  /\ console' = Quiet
  /\ UNCHANGED <<run, overdue, item, community, source, job, answers, moved>>

-----------------------------------------------------------------------------
JobStep == Claim \/ Search \/ Store

Next ==
  \/ QueueRun \/ JobStep \/ Fail \/ Die \/ HourPasses
  \/ CreateCommunity \/ Register \/ LinkSibling \/ Link \/ SetReviewState
  \/ \E j \in Item : LookAtSibling(j)
  \/ ConfirmEvidence \/ MarkIndependent \/ ReadAgain \/ WriteClass
  \/ ProposeSource \/ ProposeForCommunity \/ DeleteCommunity \/ ConsoleDies

Spec == Init /\ [][Next]_vars

(* The scheduler calls the job again and again, and hours pass.            *)
Fairness == WF_vars(JobStep) /\ WF_vars(HourPasses)
FairSpec == Spec /\ Fairness

-----------------------------------------------------------------------------
(* A candidate that was registered or linked shows as its community, and   *)
(* as no other, whatever searches and requests classify it again           *)
(* (reclassify: the operator's answer goes before the page and the name).  *)
RegisteredIsExisting ==
  \A i \in Live : item[i].state \in Done /\ item[i].registered # None =>
    item[i].class = "existing" /\ item[i].existing = item[i].registered

(* One board is one community's (propose_source): the source of a          *)
(* candidate belongs to the community it is a candidate of, or to nobody;  *)
(* a candidate that is linked elsewhere afterwards is left out here.       *)
SourceIsOfItsCommunity ==
  \A i \in Live \ moved : item[i].source # None /\ item[i].registered # None =>
    source[item[i].source] \in {Hand, item[i].registered}

(* What the operator said of a candidate outlives every search            *)
(* (store_hits, _upsert, assess_activity, prune).  A candidate that was    *)
(* put aside, registered or linked stays; any other stays while searches   *)
(* see its page.  One that stays keeps the answer, its community, its      *)
(* source and its being of its own, and a date that was confirmed unless   *)
(* its page tells of the end.  A PENDING candidate that no search sees any *)
(* more is deleted with all that was said of it: confirm_activity_evidence *)
(* and mark_independent leave it PENDING.                                  *)
ToldOfTheEnd(k) == k \in DOMAIN job.found /\ job.found[k].ends

AnswersOutlive ==
  [][job' # job => \A i \in Live :
       LET stays == item'[i] \notin {None, Gone} IN
       /\ item[i].state # "pending" \/ item[i].key \in DOMAIN job.found => stays
       /\ stays =>
            /\ item'[i].state = item[i].state /\ item'[i].registered = item[i].registered
            /\ item'[i].source = item[i].source /\ item'[i].cleared = item[i].cleared
            /\ item[i].confidence = "confirmed" /\ ~ToldOfTheEnd(item[i].key)
               => item'[i].confidence = "confirmed" /\ item'[i].date = item[i].date]_vars

(* "A fact that was confirmed once does not expire" (assess_activity):     *)
(* not so where a post of the page tells of the end, nor where prune()     *)
(* deletes the candidate.                                                  *)
ConfirmedStays ==
  [][job' # job => \A i \in Live : item[i].confidence = "confirmed" =>
       item'[i] \notin {None, Gone} /\ item'[i].confidence = "confirmed"]_vars

(* "The duplicate-matching is skipped for good" (reclassify): not so once  *)
(* prune() has deleted the candidate that was marked as of its own.        *)
ClearedStays ==
  [][job' # job => \A i \in Live : item[i].cleared =>
       item'[i] \notin {None, Gone} /\ item'[i].cleared]_vars

(* Every search that was queued ends, and leaves the place to another:     *)
(* what a restart left running is closed by a later call of the job        *)
(* (claim_next_run).                                                       *)
EveryRunEnds == []<>(Open = {})

=============================================================================
