----------------------------- MODULE Normalization -----------------------------
(***************************************************************************)
(* Candidates of the engine's store into rows of events.  normalize_all()  *)
(* selects the candidates whose inputs are not those it stamped, reads     *)
(* them, and resolves, writes and stamps one after the other, each         *)
(* statement committed by itself; at the end it drops the rows of          *)
(* candidates that are gone.  Meanwhile posts are read again, candidates   *)
(* reviewed, venues decided and events folded into one another.            *)
(***************************************************************************)
EXTENDS Naturals, FiniteSets

CONSTANTS
  Candidate,       \* ids the engine's store may give out
  Text,            \* venue strings
  Venue,
  Normalizer,      \* processes: the scheduler, the console's normalize button
  Limit,           \* candidates a pass takes
  MaxAttempts,     \* MAX_NORMALIZATION_ATTEMPTS
  Finds,           \* what the engine may read off a candidate's post
  Beside,          \* what a person may do at any time: "venue", "fold", "return"
  MaxRev,          \* bounds on each candidate's readings: [Candidate -> Nat]
  MaxReviews,      \* and on its reviews
  MaxMaster,       \* bound on the rows added to the Venue Master
  None, Gone       \* no candidate yet, text, row ...; a candidate removed

(* A reading has the count and last id of its evidence in the digest; both *)
(* come from a counter, so no two readings of a candidate digest alike.    *)
Reading == [rev : Nat, dated : BOOLEAN, text : Text \cup {None}]
ReviewState == [count : Nat, rejected : BOOLEAN]
Master == [venues : Nat, aliases : Nat,
           newestVenue : 0 .. MaxMaster, newestAlias : 0 .. MaxMaster]
Digest == [rev : Nat, count : Nat, master : Master]
Outcome == {"NORMALIZED", "NO_DATE", "FAILED"}
Stamp == [digest : Digest, outcome : Outcome, attempts : 0 .. MaxAttempts]

(* rev and count stand for the values taken over from reading and review   *)
Event == [rev : Nat, count : Nat, rejected : BOOLEAN,
          text : Text \cup {None}, venue : Venue \cup {None},
          canonical : Candidate \cup {None}, listed : BOOLEAN]

(* of the string; venue is resolved_venue_id                               *)
Entry == [state : {"none", "OPEN", "DISMISSED", "LINKED"}, venue : Venue \cup {None}]

Phase == {"idle", "selected", "build", "release", "delete", "forget"}
Pass == [phase : Phase, todo : SUBSET Candidate,
         digest : [Candidate -> Digest \cup {None}],
         row : [Candidate -> Reading \cup {None}],
         review : [Candidate -> ReviewState],
         cur : Candidate \cup {None}, found : Venue \cup {None}, written : BOOLEAN,
         keep : SUBSET Candidate]

ASSUME NormalizationAssumption ==
  /\ Limit \in Nat \ {0} /\ MaxAttempts \in Nat \ {0}
  /\ IsFiniteSet(Text) /\ IsFiniteSet(Venue)
  /\ MaxRev \in [Candidate -> Nat] /\ MaxReviews \in [Candidate -> Nat] /\ MaxMaster \in Nat
  /\ Finds \in [Candidate -> SUBSET [dated : BOOLEAN, text : Text \cup {None}]]
  /\ Gone # None /\ {None, Gone} \cap (Candidate \cup Text \cup Venue) = {}
  /\ {None, Gone} \cap (Reading \cup Event \cup Stamp \cup Digest) = {}

VARIABLES
  cand,       \* event_candidates: the reading each was last made from
  review,     \* candidate_review_state
  venues,     \* venues
  alias,      \* venue_aliases: the venue a string is a name of
  entry,      \* unresolved_venues
  since,      \* when each row of venues and of venue_aliases was added
  clock,      \* the last date given
  master,     \* master_revision(), as it is of the rows there are
  event,      \* events, by candidate
  stamp,      \* candidate_normalization
  pass        \* the local variables of normalize_all()

vars == <<cand, review, venues, alias, entry, since, clock, master, event, stamp, pass>>
places == <<venues, alias, entry, since, clock, master>>
rows == <<venues, alias, since, clock, master>>

Undecided(state) == [state |-> state, venue |-> None]
NewReview == [count |-> 0, rejected |-> FALSE]

Idle == [phase |-> "idle", todo |-> {}, digest |-> [c \in Candidate |-> None],
         row |-> [c \in Candidate |-> None], review |-> [c \in Candidate |-> NewReview],
         cur |-> None, found |-> None, written |-> FALSE, keep |-> {}]

(* max() of a column of dates; 0 is also the date of the first rows        *)
Latest(dates) == CHOOSE n \in dates \cup {0} : \A d \in dates : d <= n

Named(names) == {t \in Text : names[t] # None}

(* _MASTER_REVISION_SELECTS, of the two tables that resolve a venue: the   *)
(* count of the rows, and the date of the newest.  It comes back when the  *)
(* rows added since are deleted again.                                     *)
Revision(vs, names, at) ==
  [venues |-> Cardinality(vs), aliases |-> Cardinality(Named(names)),
   newestVenue |-> Latest({at[v] : v \in vs}), newestAlias |-> Latest({at[t] : t \in Named(names)})]

TypeOK ==
  /\ cand \in [Candidate -> Reading \cup {None, Gone}]
  /\ review \in [Candidate -> ReviewState]
  /\ venues \in SUBSET Venue
  /\ alias \in [Text -> Venue \cup {None}]
  /\ entry \in [Text -> Entry]
  /\ since \in [Venue \cup Text -> 0 .. MaxMaster] /\ clock \in 0 .. MaxMaster
  /\ master \in Master
  /\ event \in [Candidate -> Event \cup {None}]
  /\ stamp \in [Candidate -> Stamp \cup {None}]
  /\ pass \in [Normalizer -> Pass]

Init ==
  /\ cand = [c \in Candidate |-> None]
  /\ review = [c \in Candidate |-> NewReview]
  /\ venues \in SUBSET Venue
  /\ alias \in [Text -> venues \cup {None}]
  /\ entry = [t \in Text |-> Undecided("none")]
  /\ since = [x \in Venue \cup Text |-> 0] /\ clock = 0
  /\ master = Revision(venues, alias, since)
  /\ event = [c \in Candidate |-> None]
  /\ stamp = [c \in Candidate |-> None]
  /\ pass = [p \in Normalizer |-> Idle]

-----------------------------------------------------------------------------
Present == {c \in Candidate : cand[c] \notin {None, Gone}}

MutDigestOf(c) == [rev |-> cand[c].rev, count |-> 0, master |-> master]  \* no marker

(* input_digest()                                                          *)
DigestOf(c) == [rev |-> cand[c].rev, count |-> review[c].count, master |-> master]

(* resolve_venue(): an alias, else the decision of _linked_decision()      *)
Resolved(t) ==
  CASE t = None -> None
    [] t # None /\ alias[t] # None -> alias[t]
    [] OTHER -> entry[t].venue

MutStale(c) ==           \* a row that failed is never given up
  LET s == stamp[c]
  IN s = None \/ s.digest # DigestOf(c) \/ s.outcome = "FAILED" \/ event[c] = None

(* needs_normalization()                                                   *)
Stale(c) ==
  LET s == stamp[c]
  IN \/ s = None
     \/ s.digest # DigestOf(c)
     \/ s.outcome = "FAILED" /\ s.attempts < MaxAttempts
     \/ s.outcome = "NORMALIZED" /\ event[c] = None

StaleOnes == {c \in Present : Stale(c)}

Listed(e, canonical) == ~e.rejected /\ canonical = None

Unfolded(e) == [e EXCEPT !.canonical = None, !.listed = ~e.rejected]

-----------------------------------------------------------------------------
(* The engine's store, by any of the passes over posts.  An id is never    *)
(* given out twice.                                                        *)

Numbered(r, n) == [rev |-> n, dated |-> r.dated, text |-> r.text]

Extract(c) ==
  /\ cand[c] = None
  /\ \E r \in Finds[c] : cand' = [cand EXCEPT ![c] = Numbered(r, 1)]
  /\ UNCHANGED <<review, places, event, stamp, pass>>

ReExtract(c) ==
  /\ c \in Present /\ cand[c].rev < MaxRev[c]
  /\ \E r \in Finds[c] : cand' = [cand EXCEPT ![c] = Numbered(r, @.rev + 1)]
  /\ UNCHANGED <<review, places, event, stamp, pass>>

Retire(c) ==
  /\ c \in Present
  /\ cand' = [cand EXCEPT ![c] = Gone]
  /\ UNCHANGED <<review, places, event, stamp, pass>>

Review(c) ==
  /\ c \in Present /\ review[c].count < MaxReviews[c]
  /\ \E rejected \in BOOLEAN :
       review' = [review EXCEPT ![c] = [count |-> @.count + 1, rejected |-> rejected]]
  /\ UNCHANGED <<cand, places, event, stamp, pass>>

-----------------------------------------------------------------------------
(* The Venue Master and the queue of strings.                              *)

(* No revision that a stamp or a running pass holds comes back.  The code  *)
(* has no such guard; Beside drops it.                                     *)
HeldRevisions ==
  {stamp[c].digest.master : c \in {d \in Candidate : stamp[d] # None}}
  \cup UNION {{pass[p].digest[c].master : c \in {d \in Candidate : pass[p].digest[d] # None}} :
                 p \in Normalizer}

NobodyRemembers(revision) == "return" \in Beside \/ revision \notin HeldRevisions

(* a row x is added, with the date of its insert                           *)
Dates(x) ==
  /\ clock < MaxMaster
  /\ clock' = clock + 1
  /\ since' = [since EXCEPT ![x] = clock + 1]

(* the rows in gone are deleted                                            *)
Forgets(gone) ==
  /\ since' = [x \in Venue \cup Text |-> IF x \in gone THEN 0 ELSE since[x]]
  /\ UNCHANGED clock

MasterMoves == master' = Revision(venues', alias', since')

AddVenue(v) ==
  /\ v \notin venues
  /\ venues' = venues \cup {v}
  /\ UNCHANGED <<cand, review, alias, entry, event, stamp, pass>>
  /\ Dates(v) /\ MasterMoves

AddAlias(t, v) ==
  /\ v \in venues /\ alias[t] = None
  /\ alias' = [alias EXCEPT ![t] = v]
  /\ UNCHANGED <<cand, review, venues, entry, event, stamp, pass>>
  /\ Dates(t) /\ MasterMoves

RemoveAlias(t) ==
  /\ alias[t] # None
  /\ alias' = [alias EXCEPT ![t] = None]
  /\ UNCHANGED <<cand, review, venues, entry, event, stamp, pass>>
  /\ Forgets({t}) /\ MasterMoves /\ NobodyRemembers(master')

(* No candidate is between the look at its venue and the write of its row. *)
(* The code has no such guard; Beside drops it.                            *)
NobodyResolves == "venue" \in Beside \/ \A p \in Normalizer : pass[p].cur = None

Waiting(c, t) == event[c] # None /\ event[c].text = t /\ event[c].venue = None

LinkedEvents(t, v) ==
  [c \in Candidate |-> IF Waiting(c, t) THEN [event[c] EXCEPT !.venue = v] ELSE event[c]]

(* link_existing(), with the string as an alias of the venue or without    *)
Link(t, v, asAlias) ==
  /\ NobodyResolves
  /\ v \in venues /\ entry[t].state = "OPEN"
  /\ entry' = [entry EXCEPT ![t] = [state |-> "LINKED", venue |-> v]]
  /\ event' = LinkedEvents(t, v)
  /\ UNCHANGED <<cand, review, venues, stamp, pass>>
  /\ IF asAlias /\ alias[t] = None
     THEN alias' = [alias EXCEPT ![t] = v] /\ Dates(t) /\ MasterMoves
     ELSE UNCHANGED <<alias, since, clock, master>>

Dismiss(t) ==
  /\ entry[t].state = "OPEN"
  /\ entry' = [entry EXCEPT ![t] = Undecided("DISMISSED")]
  /\ UNCHANGED <<cand, review, rows, event, stamp, pass>>

(* Events that leave a venue: automatic folds that rest on it are undone.  *)
(* Which folds a person made is left open.                                 *)
Moved(moved, es) ==
  {[c \in Candidate |-> IF c \in released THEN Unfolded(es[c]) ELSE es[c]] :
     released \in SUBSET {c \in Candidate : es[c] # None /\ es[c].canonical # None
                            /\ (c \in moved \/ es[c].canonical \in moved)}}

(* revert_decision(): the string's alias of that venue goes with the link, *)
(* and the events get what normalization derives without the decision.     *)
Revert(t) ==
  /\ NobodyResolves
  /\ entry[t].state \in {"DISMISSED", "LINKED"}
  /\ entry' = [entry EXCEPT ![t] = Undecided("OPEN")]
  /\ IF entry[t].state = "DISMISSED"
     THEN UNCHANGED <<rows, event>>
     ELSE LET v == entry[t].venue
              moved == {c \in Candidate : event[c] # None /\ event[c].text = t
                                           /\ event[c].venue = v}
          IN /\ UNCHANGED venues
             /\ IF alias[t] = v
                THEN /\ alias' = [alias EXCEPT ![t] = None]
                     /\ Forgets({t}) /\ MasterMoves /\ NobodyRemembers(master')
                ELSE UNCHANGED <<alias, since, clock, master>>
             /\ event' \in Moved(moved, [c \in Candidate |->
                  IF c \in moved THEN [event[c] EXCEPT !.venue = alias'[t]] ELSE event[c]])
  /\ UNCHANGED <<cand, review, stamp, pass>>

(* delete_venue(): its aliases go with it, its strings are asked again     *)
DeleteVenue(v) ==
  /\ v \in venues
  /\ LET moved == {c \in Candidate : event[c] # None /\ event[c].venue = v}
         texts == {event[c].text : c \in moved}
     IN /\ event' \in Moved(moved, [c \in Candidate |->
             IF c \in moved THEN [event[c] EXCEPT !.venue = None] ELSE event[c]])
        /\ entry' = [t \in Text |->
             IF entry[t].venue = v \/ t \in texts THEN Undecided("OPEN") ELSE entry[t]]
  /\ venues' = venues \ {v}
  /\ alias' = [t \in Text |-> IF alias[t] = v THEN None ELSE alias[t]]
  /\ UNCHANGED <<cand, review, stamp, pass>>
  /\ Forgets({v} \cup {t \in Text : alias[t] = v}) /\ MasterMoves /\ NobodyRemembers(master')

-----------------------------------------------------------------------------
(* record_decision() of module Duplicates, in short                        *)

(* No fold is decided between the two statements of a prune.  The code has *)
(* no such guard; Beside drops it.                                         *)
NobodyPrunes == "fold" \in Beside \/ \A p \in Normalizer : pass[p].phase # "delete"

Fold(c, d) ==
  /\ NobodyPrunes
  /\ c # d /\ event[c] # None /\ event[d] # None
  /\ event[c].canonical = None /\ event[d].canonical = None
  /\ event' = [event EXCEPT ![c].canonical = d, ![c].listed = FALSE]
  /\ UNCHANGED <<cand, review, places, stamp, pass>>

Unfold(c) ==
  /\ event[c] # None /\ event[c].canonical # None
  /\ event' = [event EXCEPT ![c] = Unfolded(@)]
  /\ UNCHANGED <<cand, review, places, stamp, pass>>

-----------------------------------------------------------------------------
(* normalize_all().  The selection is one step, as its queries run before  *)
(* anything is read of what they selected; a pass takes any of the stale   *)
(* candidates, the code the latest collected.                              *)

Start(p) ==
  /\ pass[p].phase = "idle" /\ Present # {}
  /\ \E selected \in SUBSET StaleOnes :
       /\ \/ selected = StaleOnes /\ Cardinality(selected) <= Limit
          \/ Cardinality(selected) = Limit
       /\ pass' = [pass EXCEPT ![p] = [Idle EXCEPT
            !.phase = "selected", !.todo = selected,
            !.digest = [c \in Candidate |-> IF c \in selected THEN DigestOf(c) ELSE None]]]
  /\ UNCHANGED <<cand, review, places, event, stamp>>

(* candidates_by_id() and review.states()                                  *)
ReadRows(p) ==
  /\ pass[p].phase = "selected"
  /\ pass' = [pass EXCEPT ![p] = [@ EXCEPT
       !.phase = "build", !.todo = pass[p].todo \cap Present,
       !.row = [c \in Candidate |-> IF c \in pass[p].todo \cap Present THEN cand[c] ELSE None],
       !.review = [c \in Candidate |->
                     IF c \in pass[p].todo \cap Present THEN review[c] ELSE NewReview]]]
  /\ UNCHANGED <<cand, review, places, event, stamp>>

(* the attempts of _stamp()                                                *)
Attempts(c, digest) ==
  IF stamp[c] # None /\ stamp[c].digest = digest
  THEN stamp[c].attempts + 1 ELSE 1

Stamped(c, digest, outcome) ==
  [stamp EXCEPT ![c] =
     [digest |-> digest, outcome |-> outcome,
      attempts |-> IF outcome = "FAILED" THEN Attempts(c, digest) ELSE 0]]

(* what was read of c is of no use any more                                *)
Done(p, c) ==
  [pass EXCEPT ![p].todo = @ \ {c}, ![p].cur = None, ![p].found = None, ![p].written = FALSE,
               ![p].digest[c] = None, ![p].row[c] = None, ![p].review[c] = NewReview]

NoDate(p, c) ==
  /\ pass[p].phase = "build" /\ pass[p].cur = None /\ c \in pass[p].todo
  /\ ~pass[p].row[c].dated
  /\ stamp' = Stamped(c, pass[p].digest[c], "NO_DATE")
  /\ pass' = Done(p, c)
  /\ UNCHANGED <<cand, review, places, event>>

(* resolve_venue() and record_unresolved_venue()                           *)
Resolve(p, c) ==
  /\ pass[p].phase = "build" /\ pass[p].cur = None /\ c \in pass[p].todo
  /\ pass[p].row[c].dated
  /\ LET t == pass[p].row[c].text
     IN /\ pass' = [pass EXCEPT ![p].cur = c, ![p].todo = @ \ {c}, ![p].found = Resolved(t)]
        /\ entry' = IF t # None /\ Resolved(t) = None /\ entry[t].state = "none"
                    THEN [entry EXCEPT ![t] = Undecided("OPEN")] ELSE entry
  /\ UNCHANGED <<cand, review, rows, event, stamp>>

MutBuilt(c, r, rv, found) ==      \* the listing of a folded row is recomputed
  [rev |-> r.rev, count |-> rv.count, rejected |-> rv.rejected, text |-> r.text,
   venue |-> found,
   canonical |-> IF event[c] = None THEN None ELSE event[c].canonical,
   listed |-> ~rv.rejected]

(* the upsert of normalize_candidate()                                     *)
Built(c, r, rv, found) ==
  LET canonical == IF event[c] = None THEN None ELSE event[c].canonical
  IN [rev |-> r.rev, count |-> rv.count, rejected |-> rv.rejected, text |-> r.text,
      venue |-> found, canonical |-> canonical, listed |-> Listed(rv, canonical)]

(* a venue deleted meanwhile breaks a foreign key: only Fail is left       *)
Write(p) ==
  /\ pass[p].cur # None /\ ~pass[p].written
  /\ pass[p].found \in venues \cup {None}
  /\ LET c == pass[p].cur
     IN event' = [event EXCEPT ![c] =
                    Built(c, pass[p].row[c], pass[p].review[c], pass[p].found)]
  /\ pass' = [pass EXCEPT ![p].written = TRUE]
  /\ UNCHANGED <<cand, review, places, stamp>>

StampBuilt(p) ==
  /\ pass[p].written
  /\ stamp' = Stamped(pass[p].cur, pass[p].digest[pass[p].cur], "NORMALIZED")
  /\ pass' = Done(p, pass[p].cur)
  /\ UNCHANGED <<cand, review, places, event>>

(* anything of one candidate raises, before its row is written or after    *)
Fail(p, c) ==
  /\ pass[p].phase = "build"
  /\ c = pass[p].cur \/ (pass[p].cur = None /\ c \in pass[p].todo)
  /\ stamp' = Stamped(c, pass[p].digest[c], "FAILED")
  /\ pass' = Done(p, c)
  /\ UNCHANGED <<cand, review, places, event>>

(* _prune_orphans(): all_candidate_ids(), then three statements            *)
StartPrune(p) ==
  /\ pass[p].phase = "build" /\ pass[p].cur = None /\ pass[p].todo = {}
  /\ pass' = [pass EXCEPT ![p] = IF Present = {} THEN Idle
                ELSE [Idle EXCEPT !.phase = "release", !.keep = Present]]
  /\ UNCHANGED <<cand, review, places, event, stamp>>

Released(es, keep) ==
  [c \in Candidate |->
     IF c \in keep /\ es[c] # None /\ es[c].canonical # None
        /\ es[c].canonical \notin keep
     THEN Unfolded(es[c]) ELSE es[c]]

PruneRelease(p) ==
  /\ pass[p].phase = "release"
  /\ event' = Released(event, pass[p].keep)
  /\ pass' = [pass EXCEPT ![p].phase = "delete"]
  /\ UNCHANGED <<cand, review, places, stamp>>

(* ON DELETE SET NULL                                                      *)
PruneDelete(p) ==
  /\ pass[p].phase = "delete"
  /\ event' = [c \in Candidate |->
       CASE c \notin pass[p].keep -> None
         [] c \in pass[p].keep /\ event[c] # None /\ event[c].canonical # None
              /\ event[c].canonical \notin pass[p].keep
              -> [event[c] EXCEPT !.canonical = None]
         [] OTHER -> event[c]]
  /\ pass' = [pass EXCEPT ![p].phase = "forget"]
  /\ UNCHANGED <<cand, review, places, stamp>>

PruneStamps(p) ==
  /\ pass[p].phase = "forget"
  /\ stamp' = [c \in Candidate |-> IF c \in pass[p].keep THEN stamp[c] ELSE None]
  /\ pass' = [pass EXCEPT ![p] = Idle]
  /\ UNCHANGED <<cand, review, places, event>>

Crash(p) ==
  /\ pass[p].phase # "idle"
  /\ pass' = [pass EXCEPT ![p] = Idle]
  /\ UNCHANGED <<cand, review, places, event, stamp>>

-----------------------------------------------------------------------------
PassStep(p) ==
  \/ Start(p) \/ ReadRows(p) \/ Write(p) \/ StampBuilt(p)
  \/ \E c \in Candidate : NoDate(p, c) \/ Resolve(p, c) \/ Fail(p, c)
  \/ StartPrune(p) \/ PruneRelease(p) \/ PruneDelete(p) \/ PruneStamps(p)

Posts == \E c \in Candidate : Extract(c) \/ ReExtract(c) \/ Retire(c)

Decisions ==
  \/ \E c \in Candidate : Review(c) \/ Unfold(c) \/ \E d \in Candidate : Fold(c, d)
  \/ \E v \in Venue : AddVenue(v) \/ DeleteVenue(v)
  \/ \E t \in Text : Dismiss(t) \/ Revert(t) \/ RemoveAlias(t)
  \/ \E t \in Text, v \in Venue :
       AddAlias(t, v) \/ \E asAlias \in BOOLEAN : Link(t, v, asAlias)

Next == Posts \/ Decisions \/ \E p \in Normalizer : PassStep(p) \/ Crash(p)

Spec == Init /\ [][Next]_vars

(* Every process runs its passes to their end and then another.            *)
Fairness == \A p \in Normalizer : WF_vars(PassStep(p))
FairSpec == Spec /\ Fairness

-----------------------------------------------------------------------------
(* Properties                                                              *)

(* needs_normalization(): a candidate it sees nothing to do for has a row  *)
(* that is built from the inputs it has now, its venue as the aliases and  *)
(* decisions resolve it now.                                               *)
RowIsCurrent ==
  \A c \in Present :
    ~Stale(c) /\ stamp[c].outcome = "NORMALIZED" =>
      /\ event[c].rev = cand[c].rev /\ event[c].text = cand[c].text
      /\ event[c].count = review[c].count /\ event[c].rejected = review[c].rejected
      /\ event[c].venue = Resolved(cand[c].text)

(* "An event is HIDDEN when its review state says it may not be listed, or *)
(* when it is folded under another event; otherwise LISTED."               *)
ListingIsTold ==
  \A c \in Candidate : event[c] # None => event[c].listed = Listed(event[c], event[c].canonical)

(* "Review outcomes that must never reach the alpha search": once there is *)
(* nothing to do for a candidate that was rejected, no row of it is listed.*)
RejectedIsUnlisted ==
  \A c \in Present :
    ~Stale(c) /\ stamp[c].outcome # "FAILED" /\ review[c].rejected
      => event[c] = None \/ ~event[c].listed

(* A pass that dies, a row that fails, or a long queue keeps no candidate  *)
(* from its turn, and the row of a candidate that is gone goes too.        *)
Settling == <>[][\E p \in Normalizer : PassStep(p)]_vars
EveryCandidateSettles ==
  Settling => \A c \in Candidate :
    <>[](/\ c \in Present => ~Stale(c)
         /\ c \notin Present /\ Present # {} => event[c] = None /\ stamp[c] = None)

=============================================================================
