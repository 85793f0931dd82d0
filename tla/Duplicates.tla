------------------------------ MODULE Duplicates ------------------------------
(***************************************************************************)
(* Events that are one night.  scan() reads the rows of events once and    *)
(* writes what the rules make of them statement by statement, each         *)
(* committed by itself; a person answers the pairs it could not settle,    *)
(* and takes answers back, in one transaction each.                        *)
(***************************************************************************)
EXTENDS Naturals, FiniteSets, SequencesExt

CONSTANTS
  Event,           \* event ids, in the order in which they are given out
  Venue, Words,    \* venues, and the strings in which posts name them
  Contradict,      \* pairs of strings that name cities excluding each other
  Finds,           \* what normalization may write of an event
  Scanner,         \* processes that scan
  Beside,          \* what may happen while a scan runs: "person"
  MaxWrites,       \* bound on the rewrites of events
  MaxAnswers,      \* and on a person's answers
  None, Gone       \* no such event yet, no venue ...; an event pruned

Reading == [day : Nat, festival : BOOLEAN, venue : Venue \cup {None},
            words : Words \cup {None}, clock : Nat \cup {None},
            series : Nat \cup {None}, rejected : BOOLEAN]

Decider == {None, "AUTO", "HUMAN"}

Row == [data : Reading, canonical : Event \cup {None}, by : Decider]

Pair == {pr \in Event \X Event : pr[1] < pr[2]}
PairState == {"none", "OPEN", "MERGED", "DISTINCT"}

(* A row of event_duplicate_decisions that a person wrote and did not take *)
(* back; canonical is None in the two rows of a DISTINCT answer.           *)
Verdict == [n : 1 .. MaxAnswers, pair : Pair, event : Event, canonical : Event \cup {None}]

(* A row as a scan holds it; a fold of its own making sets canonical, too  *)
Held == [data : Reading, canonical : Event \cup {None}, by : Decider, folded : Nat]
Scan == [phase : {"idle", "release", "compare"}, held : [Event -> Held \cup {None}],
         todo : SUBSET Pair]

ASSUME DuplicatesAssumption ==
  /\ Event \subseteq Nat /\ IsFiniteSet(Event)
  /\ Contradict \subseteq Words \X Words
  /\ \A w, x \in Words : <<w, x>> \in Contradict => <<x, w>> \in Contradict
  /\ Finds \in [Event -> SUBSET Reading]
  /\ MaxWrites \in Nat /\ MaxAnswers \in Nat
  /\ Gone # None /\ {None, Gone} \cap (Event \cup Venue \cup Words \cup Nat \cup Row) = {}
  /\ None \notin {"AUTO", "HUMAN"}

VARIABLES
  row,        \* events: what a reading and the decisions made of each
  pair,       \* event_duplicate_pairs
  verdict,    \* a person's standing rows of event_duplicate_decisions
  scan,       \* the local variables of scan()
  writes, answers

vars == <<row, pair, verdict, scan, writes, answers>>

Idle == [phase |-> "idle", held |-> [e \in Event |-> None], todo |-> {}]

TypeOK ==
  /\ row \in [Event -> Row \cup {None, Gone}]
  /\ pair \in [Pair -> PairState]
  /\ verdict \in SUBSET Verdict
  /\ scan \in [Scanner -> Scan]
  /\ writes \in 0 .. MaxWrites /\ answers \in 0 .. MaxAnswers

Init ==
  /\ row = [e \in Event |-> None]
  /\ pair = [pr \in Pair |-> "none"]
  /\ verdict = {}
  /\ scan = [s \in Scanner |-> Idle]
  /\ writes = 0 /\ answers = 0

-----------------------------------------------------------------------------
(* The rules: classify(), _classify_festivals().                           *)

Here(rows) == {e \in Event : rows[e] \notin {None, Gone}}

Place(r) ==
  IF r.venue # None THEN <<"venue", r.venue>>
  ELSE IF r.words # None THEN <<"text", r.words>> ELSE None

SamePlace(l, r) == Place(l) # None /\ Place(l) = Place(r)
SameClock(l, r) == l.clock # None /\ l.clock = r.clock
Comparable(l, r) == l.day = r.day /\ l.festival = r.festival

(* a rule that merges: a place that is known, and words that agree with it *)
AutoMerge(l, r) ==
  /\ Comparable(l, r) /\ SamePlace(l, r) /\ l.venue # None
  /\ <<l.words, r.words>> \notin Contradict
  /\ l.festival \/ SameClock(l, r)

(* a rule that asks a person                                               *)
Ask(l, r) ==
  /\ Comparable(l, r) /\ ~AutoMerge(l, r)
  /\ \/ l.festival
     \/ SamePlace(l, r)
     \/ SameClock(l, r) /\ l.series # None /\ l.series = r.series

(* _canonical_of(): the head of a group, else the older event              *)
Keeper(held, l, r) ==
  CASE held[l].folded > 0 /\ held[r].folded = 0 -> l
    [] held[l].folded = 0 /\ held[r].folded > 0 -> r
    [] OTHER -> IF l < r THEN l ELSE r

-----------------------------------------------------------------------------
(* One scan, in terms of the tables and the rows it holds.                 *)

Folded(rows, e) == Cardinality({d \in Here(rows) : rows[d].canonical = e})

Read(rows, scope) ==
  [e \in Event |->
     IF e \in scope
     THEN [data |-> rows[e].data, canonical |-> rows[e].canonical, by |-> rows[e].by,
           folded |-> Folded(rows, e)]
     ELSE None]

MutDecide(rows, e, canonical, by) ==     \* the decision in place of who decided
  [rows EXCEPT ![e].canonical = canonical, ![e].by = "DISTINCT"]

(* the update of record_decision()                                         *)
Decide(rows, e, canonical, by) == [rows EXCEPT ![e].canonical = canonical, ![e].by = by]

MutIsStale(held, e) == FALSE      \* a merge is never asked again

(* _release_stale_auto_merges(): the fold of e does not follow any more    *)
IsStale(held, e) ==
  /\ held[e] # None
  /\ LET c == held[e].canonical
     IN /\ c # None /\ held[e].by # "HUMAN"
        /\ held[c] # None /\ ~AutoMerge(held[c].data, held[e].data)

Unheld(held, e) ==
  LET c == held[e].canonical
  IN [held EXCEPT ![e].canonical = None, ![e].by = "AUTO",
                  ![c].folded = IF @ = 0 THEN 0 ELSE @ - 1]

(* scan() has something to say of two rows it holds                        *)
Matters(held, pr) ==
  /\ \A e \in {pr[1], pr[2]} :
       held[e] # None /\ held[e].canonical = None /\ held[e].by # "HUMAN"
  /\ \/ AutoMerge(held[pr[1]].data, held[pr[2]].data)
     \/ Ask(held[pr[1]].data, held[pr[2]].data)

Kept(held, pr) == Keeper(held, pr[1], pr[2])
Lost(held, pr) == IF Kept(held, pr) = pr[1] THEN pr[2] ELSE pr[1]

IsMerge(held, pr) == AutoMerge(held[pr[1]].data, held[pr[2]].data)

HeldMerge(held, pr) == [held EXCEPT ![Lost(held, pr)].canonical = Kept(held, pr)]

(* _record_pair()                                                          *)
Asked(pairs, pr) == IF pairs[pr] = "none" THEN [pairs EXCEPT ![pr] = "OPEN"] ELSE pairs

(* the loops go over the rows in the order of their ids; days do not meet, *)
(* and which comes first is left out                                       *)
Before(pr, qr) == pr[1] < qr[1] \/ (pr[1] = qr[1] /\ pr[2] < qr[2])
Latest(prs) == CHOOSE pr \in prs : \A qr \in prs : qr = pr \/ Before(qr, pr)

Release(e, at) ==
  IF IsStale(at.held, e)
  THEN [rows |-> Decide(at.rows, e, None, "AUTO"), pairs |-> at.pairs, held |-> Unheld(at.held, e)]
  ELSE at

Compare(pr, at) ==
  CASE ~Matters(at.held, pr) -> at
    [] Matters(at.held, pr) /\ IsMerge(at.held, pr) ->
         [rows |-> Decide(at.rows, Lost(at.held, pr), Kept(at.held, pr), "AUTO"),
          pairs |-> at.pairs, held |-> HeldMerge(at.held, pr)]
    [] OTHER -> [rows |-> at.rows, pairs |-> Asked(at.pairs, pr), held |-> at.held]

Released(start) == MapThenFoldSet(Release, start, LAMBDA e : e, Max, Event)
Compared(start) == MapThenFoldSet(Compare, start, LAMBDA pr : pr, Latest, Pair)

(* scan(on=day) of a revert: all of it, in the transaction of the revert   *)
ScanDay(rows, pairs, day) ==
  LET scope == {e \in Here(rows) : rows[e].data.day = day /\ ~rows[e].data.rejected}
  IN Compared(Released([rows |-> rows, pairs |-> pairs, held |-> Read(rows, scope)]))

-----------------------------------------------------------------------------
(* Normalization's writes, in short.                                       *)

New(e) ==
  /\ row[e] = None /\ \A d \in Event : d < e => row[d] # None
  /\ \E r \in Finds[e] : row' = [row EXCEPT ![e] = [data |-> r, canonical |-> None, by |-> None]]
  /\ UNCHANGED <<pair, verdict, scan, writes, answers>>

Rewrite(e) ==
  /\ e \in Here(row) /\ writes < MaxWrites /\ writes' = writes + 1
  /\ \E r \in Finds[e] \ {row[e].data} : row' = [row EXCEPT ![e].data = r]
  /\ UNCHANGED <<pair, verdict, scan, answers>>

(* the event's venue is deleted, or its link reverted: automatic folds     *)
(* that rest on it are undone (_release_automatic_duplicates())            *)
LoseVenue(e) ==
  /\ e \in Here(row) /\ row[e].data.venue # None
  /\ writes < MaxWrites /\ writes' = writes + 1
  /\ row' = [d \in Event |->
       LET r == IF d = e THEN [row[d] EXCEPT !.data.venue = None] ELSE row[d]
       IN IF d \in Here(row) /\ r.by = "AUTO" /\ (d = e \/ r.canonical = e)
          THEN [r EXCEPT !.canonical = None, !.by = None] ELSE r]
  /\ UNCHANGED <<pair, verdict, scan, answers>>

(* _prune_orphans(): what was folded under the event is released, its      *)
(* questions and decisions go with it.  Nobody prunes what a person folded *)
(* others under: the code has no such guard, and Beside drops it.          *)
Prune(e) ==
  /\ e \in Here(row)
  /\ "prune" \in Beside \/ \A d \in Here(row) : row[d].canonical = e => row[d].by # "HUMAN"
  /\ row' = [d \in Event |->
       CASE d = e -> Gone
         [] d # e /\ d \in Here(row) /\ row[d].canonical = e ->
              [row[d] EXCEPT !.canonical = None, !.by = None]
         [] OTHER -> row[d]]
  /\ pair' = [pr \in Pair |-> IF e \in {pr[1], pr[2]} THEN "none" ELSE pair[pr]]
  /\ verdict' = {v \in verdict : v.event # e}
  /\ UNCHANGED <<scan, writes, answers>>

-----------------------------------------------------------------------------
(* A person's answers.  A preview is recomputed under the locks of the     *)
(* pair and its events, so an answer is one step.                          *)

(* No scan holds rows that are older than the answer.  The code has no     *)
(* such guard; Beside drops it.                                            *)
NobodyScans == "person" \in Beside \/ \A s \in Scanner : scan[s].phase = "idle"

(* resolve_blockers() of either answer                                     *)
Answerable(pr) ==
  /\ NobodyScans /\ answers < MaxAnswers
  /\ pair[pr] = "OPEN"
  /\ row[pr[1]].data.day = row[pr[2]].data.day

(* confirm_resolve(): different events.  A fold of the rules is undone.    *)
KeepSeparate(pr) ==
  /\ Answerable(pr)
  /\ \A e \in {pr[1], pr[2]} :
       \/ row[e].canonical = None
       \/ row[e].canonical \in {pr[1], pr[2]} /\ row[e].by # "HUMAN"
  /\ row' = Decide(Decide(row, pr[1], None, "HUMAN"), pr[2], None, "HUMAN")
  /\ pair' = [pair EXCEPT ![pr] = "DISTINCT"]
  /\ verdict' = verdict \cup
       {[n |-> answers + 1, pair |-> pr, event |-> e, canonical |-> None] : e \in {pr[1], pr[2]}}
  /\ answers' = answers + 1
  /\ UNCHANGED <<scan, writes>>

(* ... the same event.  The refusals over names, regions and sources are   *)
(* left out: what they refuse may be answered here.                        *)
SameEvent(pr, keep, fold) ==
  /\ Answerable(pr) /\ {keep, fold} = {pr[1], pr[2]}
  /\ row[keep].canonical = None /\ row[fold].canonical = None
  /\ Folded(row, fold) = 0
  /\ LET k == row[keep].data
         f == row[fold].data
     IN /\ k.festival = f.festival /\ <<k.words, f.words>> \notin Contradict
        /\ AutoMerge(k, f) \/ Ask(k, f) \/ Place(k) = None \/ Place(f) = None
  /\ row' = Decide(row, fold, keep, "HUMAN")
  /\ pair' = [pair EXCEPT ![pr] = "MERGED"]
  /\ verdict' = verdict \cup
       {[n |-> answers + 1, pair |-> pr, event |-> fold, canonical |-> keep]}
  /\ answers' = answers + 1
  /\ UNCHANGED <<scan, writes>>

Members(vs) == {v.event : v \in vs} \cup ({v.canonical : v \in vs} \ {None})

(* _later_dependencies()                                                   *)
Later(v, vs) ==
  \E u \in vs : u.n < v.n /\ ({v.event, v.canonical} \cap Members(vs)) # {}

Standing(e, vs) == \E v \in verdict \ vs : v.event = e

MutUndone(rows, vs) ==            \* a person's other answers are forgotten
  [e \in Event |->
     IF \E v \in vs : v.event = e
     THEN [rows[e] EXCEPT !.canonical = None, !.by = None] ELSE rows[e]]

(* the overrides of preview_revert()                                       *)
Undone(rows, vs) ==
  [e \in Event |->
     IF \E v \in vs : v.event = e
     THEN [rows[e] EXCEPT !.canonical = None,
                          !.by = IF Standing(e, vs) THEN "HUMAN" ELSE None]
     ELSE rows[e]]

(* revert_decision(): the answer goes, its question comes back, and the    *)
(* rules decide at once                                                    *)
Revert(pr) ==
  LET vs == {v \in verdict : v.pair = pr}
      l == row[pr[1]].data
      r == row[pr[2]].data
  IN /\ NobodyScans
     /\ vs # {} /\ {pr[1], pr[2]} \subseteq Here(row) /\ Members(vs) = {pr[1], pr[2]}
     /\ \A v \in vs : row[v.event].canonical = v.canonical /\ row[v.event].by = "HUMAN"
     /\ \A v \in vs : v.canonical # None => row[v.canonical].canonical = None
     /\ \A v \in verdict : ~Later(v, vs)
     /\ LET one == ScanDay(Undone(row, vs), [pair EXCEPT ![pr] = "OPEN"], l.day)
            all == IF l.day = r.day THEN one ELSE ScanDay(one.rows, one.pairs, r.day)
        IN row' = all.rows /\ pair' = all.pairs
     /\ verdict' = verdict \ vs
     /\ UNCHANGED <<scan, writes, answers>>

-----------------------------------------------------------------------------
(* scan() of a job or of the console's button.                             *)

StartScan(s) ==
  /\ scan[s].phase = "idle"
  /\ scan' = [scan EXCEPT ![s] =
       [phase |-> "release", todo |-> Pair,
        held |-> Read(row, {e \in Here(row) : ~row[e].data.rejected})]]
  /\ UNCHANGED <<row, pair, verdict, writes, answers>>

ToRelease(s) == {e \in Event : IsStale(scan[s].held, e)}

ReleaseOne(s) ==
  /\ scan[s].phase = "release"
  /\ \E e \in ToRelease(s) :
       /\ \A d \in ToRelease(s) : e <= d
       /\ e \in Here(row)
       /\ row' = Decide(row, e, None, "AUTO")
       /\ scan' = [scan EXCEPT ![s].held = Unheld(@, e)]
  /\ UNCHANGED <<pair, verdict, writes, answers>>

EndRelease(s) ==
  /\ scan[s].phase = "release" /\ ToRelease(s) = {}
  /\ scan' = [scan EXCEPT ![s].phase = "compare"]
  /\ UNCHANGED <<row, pair, verdict, writes, answers>>

ToCompare(s) == {pr \in scan[s].todo : Matters(scan[s].held, pr)}

CompareOne(s) ==
  /\ scan[s].phase = "compare"
  /\ \E pr \in ToCompare(s) :
       /\ \A qr \in ToCompare(s) : qr = pr \/ Before(pr, qr)
       /\ {pr[1], pr[2]} \subseteq Here(row)
       /\ IF IsMerge(scan[s].held, pr)
          THEN /\ row' = Decide(row, Lost(scan[s].held, pr), Kept(scan[s].held, pr), "AUTO")
               /\ scan' = [scan EXCEPT ![s].held = HeldMerge(@, pr),
                                       ![s].todo = {qr \in @ : Before(pr, qr)}]
               /\ UNCHANGED pair
          ELSE /\ pair' = Asked(pair, pr)
               /\ scan' = [scan EXCEPT ![s].todo = {qr \in @ : Before(pr, qr)}]
               /\ UNCHANGED row
  /\ UNCHANGED <<verdict, writes, answers>>

(* The next row to write of was deleted meanwhile: its foreign key fails,  *)
(* and the scan ends there.                                                *)
Abort(s) ==
  /\ \/ /\ scan[s].phase = "release"
        /\ \E e \in ToRelease(s) : e \notin Here(row) /\ \A d \in ToRelease(s) : e <= d
     \/ /\ scan[s].phase = "compare"
        /\ \E pr \in ToCompare(s) :
             /\ \A qr \in ToCompare(s) : qr = pr \/ Before(pr, qr)
             /\ ~({pr[1], pr[2]} \subseteq Here(row))
  /\ scan' = [scan EXCEPT ![s] = Idle]
  /\ UNCHANGED <<row, pair, verdict, writes, answers>>

EndScan(s) ==
  /\ scan[s].phase = "compare" /\ ToCompare(s) = {}
  /\ scan' = [scan EXCEPT ![s] = Idle]
  /\ UNCHANGED <<row, pair, verdict, writes, answers>>

Crash(s) ==
  /\ scan[s].phase # "idle"
  /\ scan' = [scan EXCEPT ![s] = Idle]
  /\ UNCHANGED <<row, pair, verdict, writes, answers>>

-----------------------------------------------------------------------------
ScanStep(s) ==
  \/ StartScan(s) \/ ReleaseOne(s) \/ EndRelease(s)
  \/ CompareOne(s) \/ EndScan(s) \/ Abort(s)

Answer ==
  \E pr \in Pair :
    \/ KeepSeparate(pr) \/ Revert(pr)
    \/ \E keep, fold \in Event : SameEvent(pr, keep, fold)

Next ==
  \/ \E e \in Event : New(e) \/ Rewrite(e) \/ LoseVenue(e) \/ Prune(e)
  \/ Answer
  \/ \E s \in Scanner : ScanStep(s) \/ Crash(s)

Spec == Init /\ [][Next]_vars

(* Every process ends its scans and scans again.                           *)
FairSpec == Spec /\ \A s \in Scanner : WF_vars(ScanStep(s))

-----------------------------------------------------------------------------
(* Properties                                                              *)

(* "A person's decision is final": an answer that was not taken back is    *)
(* what the events say.  Same event: still folded.  Different events: none *)
(* of the two is folded by the rules.  A question still open has no answer.*)
AnswersStand ==
  \A pr \in Pair :
    LET vs == {v \in verdict : v.pair = pr}
    IN /\ pair[pr] = "OPEN" => vs = {}
       /\ pair[pr] = "MERGED" =>
            \E v \in vs : vs = {v} /\ row[v.event].canonical = v.canonical
                          /\ row[v.event].by = "HUMAN"
       /\ pair[pr] = "DISTINCT" =>
            /\ Members(vs) = {pr[1], pr[2]}
            /\ \A v \in vs : v.canonical = None /\ row[v.event].by = "HUMAN"

(* "a fold graph has no chains": what an event is folded under is shown.   *)
NoChains ==
  \A e \in Here(row) : row[e].canonical # None => row[row[e].canonical].canonical = None

(* "The fold graph is meant to be what the rules say about the rows as     *)
(* they are now, plus whatever a person has decided": once events and      *)
(* answers stay as they are, scans make it so.                             *)
FollowsTheRules ==
  \A l, r \in Here(row) :
    l # r /\ {row[l].by, row[r].by} \subseteq {None, "AUTO"}
    /\ ~row[l].data.rejected /\ ~row[r].data.rejected =>
      /\ row[l].canonical = r => AutoMerge(row[r].data, row[l].data)
      /\ row[l].canonical = None /\ row[r].canonical = None =>
           /\ ~AutoMerge(row[l].data, row[r].data)
           /\ l < r /\ Ask(row[l].data, row[r].data) => pair[<<l, r>>] # "none"

Settling == <>[][\E s \in Scanner : ScanStep(s)]_vars
RulesPrevail == Settling => <>[]FollowsTheRules

=============================================================================
