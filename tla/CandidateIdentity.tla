--------------------------- MODULE CandidateIdentity ---------------------------
(***************************************************************************)
(* The candidates of one post.  A candidate's id is what an event and a    *)
(* person's decisions hang on; a pass that reads the post again pairs the  *)
(* programmes it finds with the candidates stored, and rereads, retires    *)
(* and creates candidates accordingly, in one commit to the engine's       *)
(* store.  Meanwhile the post is edited, and people review candidates and  *)
(* answer questions about their events.                                    *)
(***************************************************************************)
EXTENDS Naturals, FiniteSets, Sequences

CONSTANTS
  MaxId,           \* bound on the ids given out
  Programme,       \* what identifies a programme, see below
  Reading,         \* what the engine may find in the post: sequences of them
  Process,         \* processes that read posts
  ReviewAware,     \* settings.review_aware_reextract
  Beside,          \* what may happen while a pass reads: "person", "reader"
  MaxEdits, MaxReviews, MaxAnswers,   \* bounds on edits and on decisions
  None, Gone       \* a field not stated, no candidate yet; a candidate retired

Id == 1 .. MaxId

(* stored_fields(), extracted_fields(); rest is the end and the venue,     *)
(* which only the first tier looks at, and there together                  *)
Field == {"date", "stem", "type", "start", "rest"}

Given(cands) == Cardinality({c \in Id : cands[c] # None})
PresentIn(cands) == {c \in Id : cands[c] \notin {None, Gone}}

Existing == UNION {[ids -> Programme] : ids \in SUBSET Id}
Job == {"none", "ingest", "batch", "item"}
Pass == [job : Job, reading : Reading \cup {<<>>}, existing : Existing, aware : BOOLEAN,
         reviewed : SUBSET Id, refused : SUBSET Id, decided : SUBSET Id]

ASSUME IdentityAssumption ==
  /\ MaxId \in Nat /\ MaxEdits \in Nat /\ MaxReviews \in Nat /\ MaxAnswers \in Nat
  /\ \A f \in Programme : DOMAIN f = Field /\ f.date # Gone
  /\ {None, Gone} \cap Programme = {} /\ None # Gone
  /\ Reading \subseteq Seq(Programme)
  /\ ReviewAware \in BOOLEAN

(* a programme is its fields                                               *)
ASSUME FieldsTellProgrammes == \A f \in Programme : f = [x \in Field |-> f[x]]

VARIABLES
  text,       \* what the engine reads off the post now
  known,      \* raw_posts has the post
  cand,       \* event_candidates
  review,     \* human_review_actions, and what the last of them made of it
  decided,    \* candidates with an event a person answered a question about
  edits, answers,
  pass        \* the local variables of ingest_pending(), reprocess_acquired()

vars == <<text, known, cand, review, decided, edits, answers, pass>>
person == <<review, decided, answers>>

Idle == [job |-> "none", reading |-> <<>>, existing |-> [c \in {} |-> None],
         aware |-> FALSE, reviewed |-> {}, refused |-> {}, decided |-> {}]

Present == PresentIn(cand)
Reviewed == {c \in Id : review[c] # "none"}

TypeOK ==
  /\ text \in Reading /\ known \in BOOLEAN
  /\ cand \in [Id -> Programme \cup {None, Gone}]
  /\ \A c, d \in Id : c < d /\ cand[d] # None => cand[c] # None
  /\ review \in [Id -> {"none", "kept", "refused"}]
  /\ decided \in SUBSET Id
  /\ edits \in 0 .. MaxEdits /\ answers \in 0 .. MaxAnswers
  /\ pass \in [Process -> Pass]

Init ==
  /\ text \in Reading
  /\ known = FALSE
  /\ cand = [c \in Id |-> None]
  /\ review = [c \in Id |-> "none"] /\ decided = {}
  /\ edits = 0 /\ answers = 0
  /\ pass = [p \in Process |-> Idle]

-----------------------------------------------------------------------------
(* candidate_identity.match()                                              *)

MutTiers ==                       \* the first tier is left out
  << [same |-> {"date", "stem", "type", "start"}, need |-> {"date", "stem"}],
     [same |-> {"date", "stem", "type"}, need |-> {"date", "stem"}],
     [same |-> {"date", "stem", "type"}, need |-> {"date", "stem"}],
     [same |-> {"date", "stem"}, need |-> {"date", "stem"}],
     [same |-> {"date", "type", "start"}, need |-> {"date", "start"}] >>

MutTiersAnyDay ==                 \* the last tier forgets the date
  << [same |-> Field, need |-> {"date"}],
     [same |-> {"date", "stem", "type", "start"}, need |-> {"date", "stem"}],
     [same |-> {"date", "stem", "type"}, need |-> {"date", "stem"}],
     [same |-> {"date", "stem"}, need |-> {"date", "stem"}],
     [same |-> {"type", "start"}, need |-> {"start"}] >>

Tiers ==
  << [same |-> Field, need |-> {"date"}],
     [same |-> {"date", "stem", "type", "start"}, need |-> {"date", "stem"}],
     [same |-> {"date", "stem", "type"}, need |-> {"date", "stem"}],
     [same |-> {"date", "stem"}, need |-> {"date", "stem"}],
     [same |-> {"date", "type", "start"}, need |-> {"date", "start"}] >>

HasKey(tier, f) == \A x \in tier.need : f[x] # None
SameKey(tier, f, g) == \A x \in tier.same : f[x] = g[x]

(* what a tier still has to pair, and finds alike                          *)
Alike(tier, old, new, m) ==
  LET olds == {c \in DOMAIN old \ m.heldOld : HasKey(tier, old[c])
                 /\ \A pr \in m.pairs : pr[2] # c}
      news == {i \in DOMAIN new \ m.heldNew : HasKey(tier, new[i])
                 /\ \A pr \in m.pairs : pr[1] # i}
  IN {pr \in news \X olds : SameKey(tier, new[pr[1]], old[pr[2]])}

Single(alike) == {pr \in alike : \A qr \in alike : pr[1] = qr[1] <=> pr[2] = qr[2]}

(* A tier pairs what is alike and one of a kind on either side; what is    *)
(* alike otherwise is held, out of this tier and those after it.           *)
Tier(n, old, new, m) ==
  LET alike == Alike(Tiers[n], old, new, m)
      single == Single(alike)
  IN [pairs |-> m.pairs \cup single,
      heldNew |-> m.heldNew \cup {pr[1] : pr \in alike \ single},
      heldOld |-> m.heldOld \cup {pr[2] : pr \in alike \ single}]

Match(old, new) ==
  LET m1 == Tier(1, old, new, [pairs |-> {}, heldNew |-> {}, heldOld |-> {}])
      m2 == Tier(2, old, new, m1)
      m3 == Tier(3, old, new, m2)
      m4 == Tier(4, old, new, m3)
  IN Tier(5, old, new, m4)

-----------------------------------------------------------------------------
(* What a re-read does, given what it read of the stores before.           *)

NoChange == [reread |-> {}, retired |-> {}, created |-> {}]

(* the one-before, one-after shape                                         *)
OneToOne(old, new) == {<<1, c>> : c \in DOMAIN old}

Unpaired(m, new) == {i \in DOMAIN new : \A pr \in m.pairs : pr[1] # i}
Removed(m, old) == {c \in DOMAIN old : \A pr \in m.pairs : pr[2] # c}

MutRereadAround(old, new, m, reviewed, refused) ==   \* a paired candidate is reread
  [reread |-> m.pairs, retired |-> {}, created |-> {}]

MutRereadAnyDay(old, new, m, reviewed, refused) ==   \* refused days are not looked at
  IF m.heldOld # {} THEN NoChange
  ELSE [reread |-> {pr \in m.pairs : pr[2] \notin reviewed},
        retired |-> {},
        created |-> IF Removed(m, old) # {} THEN {}
                    ELSE {i \in Unpaired(m, new) : new[i].date # None}]

(* _review_aware_apply()                                                   *)
RereadAround(old, new, m, reviewed, refused) ==
  IF m.heldOld # {} THEN NoChange
  ELSE LET days == {old[c].date : c \in DOMAIN old \cap reviewed \cap refused}
       IN [reread |-> {pr \in m.pairs : pr[2] \notin reviewed},
           retired |-> {},
           created |-> IF Removed(m, old) # {} THEN {}
                       ELSE {i \in Unpaired(m, new) :
                               new[i].date # None /\ new[i].date \notin days}]

MutRereadAll(old, new, m, dec) ==         \* nobody asks who answered
  [reread |-> m.pairs, retired |-> Removed(m, old), created |-> Unpaired(m, new)]

(* ... of a post nobody reviewed                                           *)
RereadAll(old, new, m, dec) ==
  [reread |-> m.pairs, retired |-> Removed(m, old) \ dec, created |-> Unpaired(m, new)]

Changes(old, new, aware, reviewed, refused, dec) ==
  LET m == Match(old, new)
  IN CASE aware -> RereadAround(old, new, m, reviewed, refused)
       [] ~aware /\ Cardinality(DOMAIN old) = 1 /\ Len(new) = 1 ->
            [NoChange EXCEPT !.reread = OneToOne(old, new)]
       [] OTHER -> RereadAll(old, new, m, dec)

MutWritten(cands, new, change) ==         \* all that is new gets one id
  [c \in Id |-> IF c = Given(cands) + Cardinality(change.created) /\ change.created # {}
                THEN new[CHOOSE i \in change.created : TRUE] ELSE cands[c]]

(* replace_candidate(), the deletes, and persist_events()                  *)
Written(cands, new, change) ==
  LET NewId(i) == Given(cands) + Cardinality({j \in change.created : j <= i})
      rereads(c) == {pr \in change.reread : pr[2] = c}
      creates(c) == {i \in change.created : NewId(i) = c}
  IN [c \in Id |->
        CASE cands[c] = None /\ creates(c) # {} -> new[CHOOSE i \in creates(c) : TRUE]
          [] cands[c] \notin {None, Gone} /\ rereads(c) # {} ->
               new[(CHOOSE pr \in rereads(c) : TRUE)[1]]
          [] cands[c] \notin {None, Gone} /\ c \in change.retired /\ rereads(c) = {} -> Gone
          [] OTHER -> cands[c]]

Fits(cands, change) == Given(cands) + Cardinality(change.created) <= MaxId

Stored == [c \in Present |-> cand[c]]

-----------------------------------------------------------------------------
(* A publisher, or a new engine that reads the same text otherwise.        *)
Edit ==
  /\ edits < MaxEdits /\ edits' = edits + 1
  /\ text' \in Reading \ {text}
  /\ UNCHANGED <<known, cand, person, pass>>

(* No pass holds reviews and answers that are older.  The code has no such *)
(* guard; Beside drops it.                                                 *)
NobodyReads == "person" \in Beside \/ \A p \in Process : pass[p].job \in {"none", "ingest"}

(* review.record(): approved, edited, ... or REJECTED, DUPLICATE           *)
Review(c) ==
  /\ NobodyReads /\ c \in Present
  /\ c \in Reviewed \/ Cardinality(Reviewed) < MaxReviews
  /\ \E as \in {"kept", "refused"} \ {review[c]} : review' = [review EXCEPT ![c] = as]
  /\ UNCHANGED <<text, known, cand, decided, edits, answers, pass>>

(* a person's row of event_duplicate_decisions; events have a date         *)
Answer(c) ==
  /\ NobodyReads /\ c \in Present \ decided /\ cand[c].date # None
  /\ answers < MaxAnswers /\ answers' = answers + 1
  /\ decided' = decided \cup {c}
  /\ UNCHANGED <<text, known, cand, review, edits, pass>>

-----------------------------------------------------------------------------
(* The passes.  One at a time reads the post; the code does not see to it, *)
(* and Beside drops it.                                                    *)
Alone(p) == "reader" \in Beside \/ \A q \in Process \ {p} : pass[q].job = "none"

MutIngest(p) ==          \* the post is ingested again after a crash
  /\ pass[p].job = "none" /\ Alone(p)
  /\ known' = TRUE
  /\ pass' = [pass EXCEPT ![p] = [Idle EXCEPT !.job = "ingest", !.reading = text]]
  /\ UNCHANGED <<text, cand, person, edits>>

(* ingest_pending(): persist_raw_post() commits; only the pass that stored *)
(* the post goes on to its candidates                                      *)
Ingest(p) ==
  /\ pass[p].job = "none" /\ Alone(p)
  /\ ~known /\ known' = TRUE
  /\ pass' = [pass EXCEPT ![p] = [Idle EXCEPT !.job = "ingest", !.reading = text]]
  /\ UNCHANGED <<text, cand, person, edits>>

IngestEvents(p) ==
  /\ pass[p].job = "ingest"
  /\ LET change == [NoChange EXCEPT !.created = DOMAIN pass[p].reading]
     IN /\ Fits(cand, change)
        /\ cand' = Written(cand, pass[p].reading, change)
  /\ pass' = [pass EXCEPT ![p] = Idle]
  /\ UNCHANGED <<text, known, person, edits>>

(* reprocess_acquired(): the items, and its snapshots for all of them      *)
StartBatch(p) ==
  /\ pass[p].job = "none" /\ Alone(p) /\ known
  /\ pass' = [pass EXCEPT ![p] = [Idle EXCEPT
       !.job = "batch", !.reading = text, !.reviewed = Reviewed,
       !.refused = {c \in Id : review[c] = "refused"}, !.decided = decided]]
  /\ UNCHANGED <<text, known, cand, person, edits>>

(* The post's turn: its candidates are read.  A reviewed post is left as   *)
(* it is unless the pass is review-aware and the fetch was not blocked; a  *)
(* blocked one may be left as it is, too.                                  *)
ReadStored(p) ==
  /\ pass[p].job = "batch"
  /\ \E blocked \in BOOLEAN :
       LET some == Present \cap pass[p].reviewed # {}
           aware == ReviewAware /\ ~blocked /\ some
       IN \/ /\ ~some \/ aware
             /\ pass' = [pass EXCEPT ![p].job = "item", ![p].existing = Stored,
                                     ![p].aware = aware]
          \/ /\ blocked \/ (some /\ ~aware)
             /\ pass' = [pass EXCEPT ![p] = Idle]
  /\ UNCHANGED <<text, known, cand, person, edits>>

Reread(p) ==
  /\ pass[p].job = "item"
  /\ LET s == pass[p]
         change == Changes(s.existing, s.reading, s.aware, s.reviewed, s.refused, s.decided)
     IN Fits(cand, change) /\ cand' = Written(cand, s.reading, change)
  /\ pass' = [pass EXCEPT ![p] = Idle]
  /\ UNCHANGED <<text, known, person, edits>>

(* a rollback, or the process dies                                         *)
Crash(p) ==
  /\ pass[p].job # "none"
  /\ pass' = [pass EXCEPT ![p] = Idle]
  /\ UNCHANGED <<text, known, cand, person, edits>>

Next ==
  \/ Edit
  \/ \E c \in Id : Review(c) \/ Answer(c)
  \/ \E p \in Process :
       \/ Ingest(p) \/ IngestEvents(p)
       \/ StartBatch(p) \/ ReadStored(p) \/ Reread(p) \/ Crash(p)

Spec == Init /\ [][Next]_vars

-----------------------------------------------------------------------------
(* Properties                                                              *)

(* "A reviewed candidate is never re-read, retired or renumbered, paired   *)
(* or not."                                                                *)
ReviewedStays == [][\A c \in Reviewed : cand'[c] = cand[c]]_vars

(* "What it must never do is retire one: an Event a person answered about  *)
(* is kept even when the reading no longer pairs with it."                 *)
AnsweredStays == [][\A c \in decided : cand'[c] # Gone]_vars

(* "A rejected deadline must not come back under a new title": while a     *)
(* refused candidate stands, its day gets no further one.                  *)
RefusedDayStays ==
  [][\A c, d \in Id :
       review[c] = "refused" /\ cand[d] = None /\ d \in PresentIn(cand')
       => cand'[d].date # cand[c].date \/ cand[c].date = None]_vars

(* A programme that did not change, and is one of a kind on its post both  *)
(* before and after, keeps its id, whatever else changed around it.        *)
UnchangedKeepsItsId ==
  [][\A p \in Process : pass[p].job = "item" /\ cand' # cand =>
       \A c \in Present :
         LET again == {i \in DOMAIN pass[p].reading : pass[p].reading[i] = cand[c]}
         IN /\ cand[c].date # None
            /\ Cardinality(again) = 1 /\ \A d \in Present : cand[d] = cand[c] => d = c
            => cand'[c] = cand[c]]_vars

(* "A programme that moved day is a different programme until a person     *)
(* says otherwise": no candidate moves to another day, but for the post    *)
(* with one programme before and after.                                    *)
NoDayMoves ==
  [][\A c \in Present : c \in PresentIn(cand') /\ cand'[c].date # cand[c].date
       => Present = {c} /\ PresentIn(cand') = {c}]_vars

(* A crash, a retry or a re-read stores no programme a second time.        *)
Telling(r) ==
  /\ \A i, j \in DOMAIN r : i # j => r[i] # r[j]
  /\ \A i \in DOMAIN r : r[i].date # None
NoProgrammeTwice ==
  (\A r \in Reading : Telling(r)) => \A c, d \in Present : c # d => cand[c] # cand[d]

(* "A retry or a re-run cannot move an identity": read once more as it was  *)
(* just read, the post stays as it is.                                     *)
Again(cands, r, s) ==
  Changes([c \in PresentIn(cands) |-> cands[c]], r, s.aware, s.reviewed, s.refused, s.decided)
RereadIsStable ==
  [][\A p \in Process :
       LET r == pass[p].reading
       IN Telling(r) /\ Reread(p) /\ Fits(cand', Again(cand', r, pass[p]))
          => Written(cand', r, Again(cand', r, pass[p])) = cand']_vars

=============================================================================
