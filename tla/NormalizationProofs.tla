-------------------------- MODULE NormalizationProofs --------------------------
(***************************************************************************)
(* Whatever posts say and people decide: what an event shows is told by    *)
(* its review and its fold, for any number of processes that normalize;    *)
(* and where one process normalizes, a candidate with nothing to do has    *)
(* the row its inputs make.                                                *)
(***************************************************************************)
EXTENDS Normalization, FiniteSetTheorems, WellFoundedInduction, TLAPS

(* The types, but for the stamps: their attempts are bounded only where    *)
(* one process counts them.                                                *)
Typed ==
  /\ cand \in [Candidate -> Reading \cup {None, Gone}]
  /\ review \in [Candidate -> ReviewState]
  /\ venues \in SUBSET Venue
  /\ alias \in [Text -> Venue \cup {None}]
  /\ entry \in [Text -> Entry]
  /\ since \in [Venue \cup Text -> 0 .. MaxMaster] /\ clock \in 0 .. MaxMaster
  /\ master \in Master
  /\ event \in [Candidate -> Event \cup {None}]
  /\ pass \in [Normalizer -> Pass]

(* The candidates a pass has yet to stamp.                                 *)
InHand(s) == s.todo \cup ({s.cur} \ {None})

Orderly(s) ==
  /\ s.phase \notin {"selected", "build"} => s.todo = {}
  /\ s.phase # "build" => s.cur = None
  /\ s.written => s.cur # None
  /\ \A c \in InHand(s) : s.digest[c] # None
  /\ s.phase = "build" => \A c \in InHand(s) : s.row[c] # None

Shape == Typed /\ \A p \in Normalizer : Orderly(pass[p])

-----------------------------------------------------------------------------
(* Values.                                                                 *)

LEMMA Apart ==
  /\ None # Gone /\ None \notin Candidate /\ None \notin Text /\ None \notin Venue
  /\ None \notin Reading /\ Gone \notin Reading
  /\ None \notin Event /\ None \notin Stamp /\ None \notin Digest
  /\ Gone \notin Candidate
<1>1. {None, Gone} \cap (Candidate \cup Text \cup Venue) = {}
  BY NormalizationAssumption
<1>2. {None, Gone} \cap (Reading \cup Event \cup Stamp \cup Digest) = {}
  BY NormalizationAssumption
<1>3. Gone # None
  BY NormalizationAssumption
<1>4. \A x \in {None, Gone} : /\ x \notin Candidate /\ x \notin Text /\ x \notin Venue
                                /\ x \notin Reading /\ x \notin Event
                                /\ x \notin Stamp /\ x \notin Digest
  BY <1>1, <1>2
<1> QED
  BY <1>3, <1>4

Events == [Candidate -> Event \cup {None}]

LEMMA DigestTyped ==
  ASSUME Typed, NEW c \in Present
  PROVE  /\ c \in Candidate /\ cand[c] \in Reading
         /\ DigestOf(c) \in Digest
BY DEF Typed, Present, DigestOf, Digest, Reading, ReviewState

LEMMA UnfoldedIs ==
  ASSUME NEW e \in Event
  PROVE  /\ Unfolded(e) \in Event
         /\ Unfolded(e).canonical = None /\ Unfolded(e).listed = ~e.rejected
         /\ Unfolded(e).rev = e.rev /\ Unfolded(e).count = e.count
         /\ Unfolded(e).rejected = e.rejected
         /\ Unfolded(e).text = e.text /\ Unfolded(e).venue = e.venue
BY DEF Unfolded, Event

LEMMA VenueIs ==
  ASSUME NEW e \in Event, NEW v \in Venue \cup {None}
  PROVE  LET f == [e EXCEPT !.venue = v]
         IN /\ f \in Event /\ f.canonical = e.canonical /\ f.listed = e.listed
            /\ f.rev = e.rev /\ f.count = e.count /\ f.rejected = e.rejected
            /\ f.text = e.text /\ f.venue = v
BY DEF Event

LEMMA MovedIs ==
  ASSUME NEW es \in Events, NEW moved, NEW fs \in Moved(moved, es)
  PROVE  /\ fs \in Events
         /\ \A c \in Candidate : fs[c] = es[c] \/ (es[c] # None /\ fs[c] = Unfolded(es[c]))
<1>1. PICK released \in SUBSET {c \in Candidate : es[c] # None /\ es[c].canonical # None
                            /\ (c \in moved \/ es[c].canonical \in moved)} :
        fs = [c \in Candidate |-> IF c \in released THEN Unfolded(es[c]) ELSE es[c]]
  BY DEF Moved
<1>2. \A c \in released : es[c] \in Event
  BY <1>1 DEF Events
<1>3. \A c \in released : Unfolded(es[c]) \in Event
  BY <1>2, UnfoldedIs
<1> QED
  BY <1>1, <1>2, <1>3 DEF Events

(* A pass that takes a step to s.                                          *)
LEMMA OnePassChanged ==
  ASSUME Shape, NEW p \in Normalizer, NEW s \in Pass, Orderly(s),
         pass' = [pass EXCEPT ![p] = s]
  PROVE  /\ pass' \in [Normalizer -> Pass] /\ pass'[p] = s
         /\ \A q \in Normalizer : q # p => pass'[q] = pass[q]
         /\ \A q \in Normalizer : Orderly(pass'[q])
<1>1. pass \in [Normalizer -> Pass] /\ \A q \in Normalizer : Orderly(pass[q])
  BY DEF Shape, Typed
<1>2. pass'[p] = s /\ \A q \in Normalizer : q # p => pass'[q] = pass[q]
  BY <1>1
<1>3. \A q \in Normalizer : Orderly(pass'[q])
  BY <1>1, <1>2
<1> QED
  BY <1>1, <1>2, <1>3

LEMMA PassIs ==
  ASSUME Shape, NEW p \in Normalizer
  PROVE  /\ pass[p] \in Pass /\ Orderly(pass[p])
         /\ pass[p].phase \in Phase /\ pass[p].todo \in SUBSET Candidate
         /\ pass[p].digest \in [Candidate -> Digest \cup {None}]
         /\ pass[p].row \in [Candidate -> Reading \cup {None}]
         /\ pass[p].review \in [Candidate -> ReviewState]
         /\ pass[p].cur \in Candidate \cup {None} /\ pass[p].found \in Venue \cup {None}
         /\ pass[p].written \in BOOLEAN /\ pass[p].keep \in SUBSET Candidate
BY DEF Shape, Typed, Pass

(* The pass that has stamped c.                                            *)
After(s, c) ==
  [s EXCEPT !.todo = @ \ {c}, !.cur = None, !.found = None, !.written = FALSE,
            !.digest[c] = None, !.row[c] = None, !.review[c] = NewReview]

LEMMA AfterIs ==
  ASSUME NEW s \in Pass, NEW c \in Candidate, Orderly(s), s.phase = "build"
  PROVE  /\ After(s, c) \in Pass /\ Orderly(After(s, c))
         /\ After(s, c).phase = s.phase /\ After(s, c).keep = s.keep
         /\ After(s, c).todo = s.todo \ {c}
         /\ After(s, c).cur = None /\ ~After(s, c).written /\ After(s, c).digest[c] = None
         /\ InHand(After(s, c)) = s.todo \ {c}
         /\ \A d \in Candidate \ {c} :
              /\ After(s, c).digest[d] = s.digest[d] /\ After(s, c).row[d] = s.row[d]
              /\ After(s, c).review[d] = s.review[d]
<1>1. NewReview \in ReviewState
  BY DEF NewReview, ReviewState
<1>2. /\ [s.digest EXCEPT ![c] = None] \in [Candidate -> Digest \cup {None}]
      /\ [s.row EXCEPT ![c] = None] \in [Candidate -> Reading \cup {None}]
      /\ [s.review EXCEPT ![c] = NewReview] \in [Candidate -> ReviewState]
  BY <1>1 DEF Pass
<1>3. /\ After(s, c).phase = s.phase /\ After(s, c).keep = s.keep
      /\ After(s, c).todo = s.todo \ {c}
      /\ After(s, c).cur = None /\ After(s, c).found = None /\ After(s, c).written = FALSE
      /\ After(s, c).digest = [s.digest EXCEPT ![c] = None]
      /\ After(s, c).row = [s.row EXCEPT ![c] = None]
      /\ After(s, c).review = [s.review EXCEPT ![c] = NewReview]
  BY DEF After, Pass
<1>4. After(s, c) \in Pass
  BY <1>2, <1>3 DEF After, Pass
<1>5. InHand(After(s, c)) = s.todo \ {c}
  BY <1>3 DEF InHand
<1>6. \A d \in Candidate \ {c} :
        /\ After(s, c).digest[d] = s.digest[d] /\ After(s, c).row[d] = s.row[d]
        /\ After(s, c).review[d] = s.review[d]
  BY <1>3 DEF Pass
<1>a. After(s, c).digest[c] = None
  BY <1>3 DEF Pass
<1>7. s.todo \subseteq Candidate
  BY DEF Pass
<1>8. Orderly(After(s, c))
  BY <1>3, <1>5, <1>6, <1>7 DEF Orderly, InHand
<1> QED
  BY <1>3, <1>4, <1>5, <1>6, <1>a, <1>8

LEMMA DoneIs ==
  ASSUME Shape, NEW p \in Normalizer, NEW c \in Candidate
  PROVE  Done(p, c) = [pass EXCEPT ![p] = After(pass[p], c)]
<1>1. pass \in [Normalizer -> Pass]
  BY DEF Shape, Typed
<1>2. Done(p, c)[p] = After(pass[p], c)
  BY <1>1, PassIs DEF Done, After
<1>3. Done(p, c) \in [Normalizer -> {Done(p, c)[q] : q \in Normalizer}]
  BY <1>1 DEF Done
<1>4. \A q \in Normalizer : q # p => Done(p, c)[q] = pass[q]
  BY <1>1 DEF Done
<1> QED
  BY <1>1, <1>2, <1>3, <1>4


LEMMA IdleIs ==
  /\ Idle \in Pass /\ Orderly(Idle)
  /\ Idle.phase = "idle" /\ Idle.todo = {} /\ Idle.cur = None /\ Idle.written = FALSE
<1>1. NewReview \in ReviewState
  BY DEF NewReview, ReviewState
<1>2. Idle \in Pass
  BY <1>1 DEF Idle, Pass, Phase
<1> QED
  BY <1>2 DEF Idle, Orderly, InHand

(* How a pass is left by each of its steps; the other passes stay.         *)
OthersStay(p) ==
  /\ pass' \in [Normalizer -> Pass] /\ \A q \in Normalizer : Orderly(pass'[q])
  /\ \A q \in Normalizer : q # p => pass'[q] = pass[q]

LEMMA StartIs ==
  ASSUME Shape, NEW p \in Normalizer, Start(p)
  PROVE  /\ OthersStay(p)
         /\ \E selected \in SUBSET StaleOnes :
              /\ pass'[p].todo = selected /\ pass'[p].phase = "selected"
              /\ pass'[p].cur = None /\ ~pass'[p].written
              /\ pass'[p].digest = [c \in Candidate |-> IF c \in selected THEN DigestOf(c) ELSE None]
<1>1. PICK selected \in SUBSET StaleOnes :
        pass' = [pass EXCEPT ![p] = [Idle EXCEPT
            !.phase = "selected", !.todo = selected,
            !.digest = [c \in Candidate |-> IF c \in selected THEN DigestOf(c) ELSE None]]]
  BY DEF Start
<1> DEFINE d == [c \in Candidate |-> IF c \in selected THEN DigestOf(c) ELSE None]
           s == [Idle EXCEPT !.phase = "selected", !.todo = selected, !.digest = d]
<1>2. selected \subseteq Present /\ selected \subseteq Candidate
  BY DEF StaleOnes, Present
<1>3. \A c \in selected : DigestOf(c) \in Digest /\ DigestOf(c) # None
  BY <1>2, DigestTyped, Apart DEF Shape
<1>4. d \in [Candidate -> Digest \cup {None}]
  BY <1>3
<1> HIDE DEF d
<1>5. /\ s.phase = "selected" /\ s.todo = selected /\ s.digest = d /\ s.cur = None
      /\ s.written = FALSE
  BY IdleIs DEF Pass
<1>6. s \in Pass
  BY IdleIs, <1>2, <1>4 DEF Pass, Phase
<1>7. Orderly(s)
  BY <1>2, <1>3, <1>5 DEF Orderly, InHand, d
<1>8. pass' = [pass EXCEPT ![p] = s]
  BY <1>1 DEF d
<1> HIDE DEF s
<1>9. OthersStay(p) /\ pass'[p] = s
  BY <1>6, <1>7, <1>8, OnePassChanged DEF OthersStay
<1> QED
  BY <1>5, <1>9 DEF d

LEMMA ReadRowsIs ==
  ASSUME Shape, NEW p \in Normalizer, ReadRows(p)
  PROVE  /\ OthersStay(p)
         /\ pass'[p].phase = "build" /\ pass'[p].todo = pass[p].todo \cap Present
         /\ pass'[p].cur = None /\ pass'[p].written = pass[p].written
         /\ pass'[p].digest = pass[p].digest
         /\ \A c \in pass'[p].todo :
              pass'[p].row[c] = cand[c] /\ pass'[p].review[c] = review[c]
<1> DEFINE here == pass[p].todo \cap Present
           row == [c \in Candidate |-> IF c \in here THEN cand[c] ELSE None]
           rev == [c \in Candidate |-> IF c \in here THEN review[c] ELSE NewReview]
           s == [pass[p] EXCEPT !.phase = "build", !.todo = here, !.row = row, !.review = rev]
<1>1. pass' = [pass EXCEPT ![p] = s] /\ pass[p].phase = "selected"
  BY DEF ReadRows
<1>2. NewReview \in ReviewState
  BY DEF NewReview, ReviewState
<1>3. here \subseteq Candidate /\ here \subseteq pass[p].todo
  BY DEF Present
<1>4. \A c \in here : cand[c] \in Reading /\ cand[c] # None /\ review[c] \in ReviewState
  BY <1>3, DigestTyped, Apart DEF Shape, Typed
<1>5. row \in [Candidate -> Reading \cup {None}] /\ rev \in [Candidate -> ReviewState]
  BY <1>2, <1>4
<1> HIDE DEF row, rev, here
<1>6. /\ s.phase = "build" /\ s.todo = here /\ s.row = row /\ s.review = rev
      /\ s.digest = pass[p].digest /\ s.cur = pass[p].cur /\ s.written = pass[p].written
  BY PassIs DEF Pass
<1>7. s \in Pass
  BY ZenonT(60), PassIs, <1>3, <1>5 DEF Pass, Phase
<1>8. pass[p].cur = None /\ \A c \in pass[p].todo : pass[p].digest[c] # None
  BY <1>1, PassIs DEF Orderly, InHand
<1>9. \A c \in here : row[c] = cand[c] /\ rev[c] = review[c] /\ row[c] # None
  BY <1>3, <1>4 DEF row, rev
<1>10. Orderly(s)
  BY <1>3, <1>6, <1>8, <1>9, PassIs, <1>1 DEF Orderly, InHand
<1> HIDE DEF s
<1>11. OthersStay(p) /\ pass'[p] = s
  BY <1>1, <1>7, <1>10, OnePassChanged DEF OthersStay
<1> QED
  BY <1>6, <1>8, <1>9, <1>11 DEF here

(* NoDate, StampBuilt and Fail leave the pass without c.                   *)
LEMMA DoneStep ==
  ASSUME Shape, NEW p \in Normalizer, NEW c \in Candidate, pass' = Done(p, c),
         pass[p].phase = "build"
  PROVE  /\ OthersStay(p)
         /\ pass'[p].phase = "build" /\ pass'[p].keep = pass[p].keep
         /\ InHand(pass'[p]) = pass[p].todo \ {c}
         /\ pass'[p].cur = None /\ ~pass'[p].written /\ pass'[p].digest[c] = None
         /\ \A d \in Candidate \ {c} :
              /\ pass'[p].digest[d] = pass[p].digest[d] /\ pass'[p].row[d] = pass[p].row[d]
              /\ pass'[p].review[d] = pass[p].review[d]
<1> DEFINE s == After(pass[p], c)
<1>1. pass' = [pass EXCEPT ![p] = s]
  BY DoneIs
<1>2. /\ s \in Pass /\ Orderly(s) /\ s.phase = "build" /\ s.keep = pass[p].keep
      /\ InHand(s) = pass[p].todo \ {c} /\ s.cur = None /\ ~s.written /\ s.digest[c] = None
      /\ \A d \in Candidate \ {c} :
              /\ s.digest[d] = pass[p].digest[d] /\ s.row[d] = pass[p].row[d]
              /\ s.review[d] = pass[p].review[d]
  BY PassIs, AfterIs
<1> HIDE DEF s
<1>3. OthersStay(p) /\ pass'[p] = s
  BY <1>1, <1>2, OnePassChanged DEF OthersStay
<1> QED
  BY <1>2, <1>3

LEMMA ResolvedTyped ==
  ASSUME Typed, NEW t \in Text \cup {None}
  PROVE  Resolved(t) \in Venue \cup {None}
BY DEF Typed, Resolved, Entry

LEMMA ResolveIs ==
  ASSUME Shape, NEW p \in Normalizer, NEW c \in Candidate, Resolve(p, c)
  PROVE  /\ OthersStay(p)
         /\ pass'[p].phase = "build" /\ pass'[p].cur = c /\ ~pass'[p].written
         /\ pass'[p].found = Resolved(pass[p].row[c].text)
         /\ pass'[p].todo = pass[p].todo \ {c} /\ InHand(pass'[p]) = InHand(pass[p])
         /\ pass'[p].digest = pass[p].digest /\ pass'[p].row = pass[p].row
         /\ pass'[p].review = pass[p].review /\ pass[p].row[c] \in Reading
         /\ pass[p].cur = None
<1> DEFINE found == Resolved(pass[p].row[c].text)
           s == [pass[p] EXCEPT !.cur = c, !.todo = @ \ {c}, !.found = found]
<1>1. /\ pass[p].phase = "build" /\ pass[p].cur = None /\ c \in pass[p].todo
      /\ pass' = [pass EXCEPT ![p].cur = c, ![p].todo = @ \ {c}, ![p].found = found]
  BY DEF Resolve
<1>2. pass[p].row[c] \in Reading
  BY <1>1, PassIs DEF Orderly, InHand
<1>3. found \in Venue \cup {None}
  BY <1>2, ResolvedTyped DEF Shape, Reading
<1> HIDE DEF found
<1>4. pass' = [pass EXCEPT ![p] = s]
  BY <1>1 DEF Shape, Typed
<1>5. s \in Pass
  BY PassIs, <1>3 DEF Pass
<1>6. /\ s.phase = "build" /\ s.cur = c /\ s.written = pass[p].written /\ s.found = found
      /\ s.todo = pass[p].todo \ {c} /\ s.digest = pass[p].digest /\ s.row = pass[p].row
      /\ s.review = pass[p].review
  BY PassIs, <1>1 DEF Pass
<1>7. c # None /\ ~pass[p].written
  BY Apart, <1>1, PassIs DEF Orderly
<1>8. InHand(s) = InHand(pass[p])
  BY <1>1, <1>6, <1>7 DEF InHand
<1>9. Orderly(s)
  BY <1>1, <1>6, <1>7, <1>8, PassIs DEF Orderly
<1> HIDE DEF s
<1>10. OthersStay(p) /\ pass'[p] = s
  BY <1>4, <1>5, <1>9, OnePassChanged DEF OthersStay
<1> QED
  BY <1>1, <1>2, <1>6, <1>7, <1>8, <1>10 DEF found

LEMMA WriteIs ==
  ASSUME Shape, NEW p \in Normalizer, Write(p)
  PROVE  /\ OthersStay(p)
         /\ pass'[p] = [pass[p] EXCEPT !.written = TRUE]
         /\ pass'[p].written /\ InHand(pass'[p]) = InHand(pass[p])
         /\ pass[p].phase = "build" /\ pass[p].cur \in Candidate
         /\ pass[p].row[pass[p].cur] \in Reading
         /\ \A f \in {"phase", "todo", "digest", "row", "review", "cur", "found", "keep"} :
              pass'[p][f] = pass[p][f]
<1> DEFINE s == [pass[p] EXCEPT !.written = TRUE]
<1>1. pass' = [pass EXCEPT ![p] = s] /\ pass[p].cur # None
  BY DEF Write, Shape, Typed
<1>2. s \in Pass
  BY PassIs DEF Pass
<1>3. /\ s.written = TRUE
      /\ \A f \in {"phase", "todo", "digest", "row", "review", "cur", "found", "keep"} :
              s[f] = pass[p][f]
  BY PassIs DEF Pass
<1>4. /\ s.phase = pass[p].phase /\ s.todo = pass[p].todo /\ s.digest = pass[p].digest
      /\ s.row = pass[p].row /\ s.cur = pass[p].cur
  BY <1>3
<1>5. InHand(s) = InHand(pass[p])
  BY <1>4 DEF InHand
<1>6. Orderly(s)
  <2>1. Orderly(pass[p])
    BY PassIs
  <2> HIDE DEF s
  <2> QED
    BY <1>1, <1>4, <1>5, <2>1 DEF Orderly
<1>7. pass[p].cur \in Candidate /\ pass[p].phase = "build"
  BY <1>1, PassIs DEF Orderly
<1>8. pass[p].row[pass[p].cur] \in Reading
  BY <1>1, <1>7, PassIs DEF Orderly, InHand
<1> HIDE DEF s
<1>9. OthersStay(p) /\ pass'[p] = s
  BY <1>1, <1>2, <1>6, OnePassChanged DEF OthersStay
<1> QED
  BY <1>3, <1>5, <1>7, <1>8, <1>9 DEF s

(* The steps of a prune, and a pass that ends.                             *)
LEMMA PrunePhase ==
  ASSUME Shape, NEW p \in Normalizer, NEW phase \in Phase \ {"idle", "selected", "build"},
         pass[p].phase \in {"release", "delete"}, pass' = [pass EXCEPT ![p].phase = phase]
  PROVE  /\ OthersStay(p)
         /\ pass'[p].phase = phase /\ pass'[p].keep = pass[p].keep
         /\ InHand(pass'[p]) = {} /\ ~pass'[p].written /\ pass'[p].cur = None
<1> DEFINE s == [pass[p] EXCEPT !.phase = phase]
<1>1. pass' = [pass EXCEPT ![p] = s]
  BY DEF Shape, Typed
<1>2. s \in Pass
  BY PassIs DEF Pass
<1>3. /\ s.phase = phase /\ s.keep = pass[p].keep /\ s.todo = pass[p].todo
      /\ s.cur = pass[p].cur /\ s.written = pass[p].written
  BY PassIs DEF Pass
<1>4. s.todo = {} /\ s.cur = None /\ ~s.written
  BY <1>3, PassIs DEF Orderly
<1>5. Orderly(s) /\ InHand(s) = {}
  BY <1>3, <1>4 DEF Orderly, InHand
<1> HIDE DEF s
<1>6. OthersStay(p) /\ pass'[p] = s
  BY <1>1, <1>2, <1>5, OnePassChanged DEF OthersStay
<1> QED
  BY <1>3, <1>4, <1>5, <1>6

LEMMA StartPruneIs ==
  ASSUME Shape, NEW p \in Normalizer, StartPrune(p)
  PROVE  /\ OthersStay(p)
         /\ pass'[p].phase \in {"idle", "release"} /\ InHand(pass'[p]) = {}
         /\ ~pass'[p].written /\ pass'[p].cur = None
<1> DEFINE r == [Idle EXCEPT !.phase = "release", !.keep = Present]
<1>1. r \in Pass /\ r.phase = "release" /\ r.todo = {} /\ r.cur = None /\ ~r.written
  BY IdleIs DEF Pass, Phase, Present
<1>2. Orderly(r) /\ InHand(r) = {}
  BY <1>1 DEF Orderly, InHand
<1>3. InHand(Idle) = {}
  BY IdleIs DEF InHand
<1> HIDE DEF r
<1>4. PICK s \in {Idle, r} : pass' = [pass EXCEPT ![p] = s]
  BY DEF StartPrune, r
<1>5. OthersStay(p) /\ pass'[p] = s
  BY <1>1, <1>2, <1>4, IdleIs, OnePassChanged DEF OthersStay
<1> QED
  BY <1>1, <1>2, <1>3, <1>5, <1>4, IdleIs

LEMMA EndIs ==
  ASSUME Shape, NEW p \in Normalizer, pass' = [pass EXCEPT ![p] = Idle]
  PROVE  OthersStay(p) /\ pass'[p] = Idle /\ InHand(pass'[p]) = {}
<1>1. OthersStay(p) /\ pass'[p] = Idle
  BY IdleIs, OnePassChanged DEF OthersStay
<1> QED
  BY <1>1, IdleIs DEF InHand


-----------------------------------------------------------------------------
(* What a step makes of a row of events.                                   *)

Told(e) == e.listed = Listed(e, e.canonical)

(* f may be what became of e: gone, not folded and listed accordingly, or  *)
(* folded where it was.                                                    *)
Follows(e, f) ==
  \/ f = None
  \/ f.canonical = None /\ Told(f)
  \/ e # None /\ f.canonical = e.canonical /\ (Told(e) => Told(f))

LEMMA SameFollows ==
  ASSUME NEW e \in Event \cup {None}
  PROVE  Follows(e, e)
BY DEF Follows

LEMMA UnfoldedFollows ==
  ASSUME NEW e \in Event, NEW f
  PROVE  Follows(f, Unfolded(e))
BY UnfoldedIs DEF Follows, Told, Listed

LEMMA VenueFollows ==
  ASSUME NEW e \in Event, NEW v \in Venue \cup {None}
  PROVE  Follows(e, [e EXCEPT !.venue = v])
<1>1. Told(e) => Told([e EXCEPT !.venue = v])
  BY VenueIs DEF Told, Listed
<1> QED
  BY <1>1, VenueIs, Apart DEF Follows

(* Rows that change their venue, and folds that are undone over it.        *)
LEMMA MovedFollows ==
  ASSUME event \in Events, NEW moved \in SUBSET Candidate, NEW v \in Venue \cup {None},
         \A c \in moved : event[c] # None,
         NEW fs \in Moved(moved, [c \in Candidate |->
                  IF c \in moved THEN [event[c] EXCEPT !.venue = v] ELSE event[c]])
  PROVE  fs \in Events /\ \A c \in Candidate : Follows(event[c], fs[c])
<1> DEFINE es == [c \in Candidate |->
                  IF c \in moved THEN [event[c] EXCEPT !.venue = v] ELSE event[c]]
<1>1. \A c \in moved : event[c] \in Event
  BY DEF Events
<1>2. es \in Events
  BY <1>1, VenueIs DEF Events
<1>3. \A c \in Candidate : Follows(event[c], es[c])
  BY <1>1, VenueFollows, SameFollows DEF Events
<1> HIDE DEF es
<1>4. fs \in Events
  BY <1>2, MovedIs DEF es
<1>5. ASSUME NEW c \in Candidate
      PROVE  Follows(event[c], fs[c])
  <2>1. fs[c] = es[c] \/ (es[c] # None /\ fs[c] = Unfolded(es[c]))
    BY <1>2, MovedIs DEF es
  <2>2. CASE fs[c] = es[c]
    BY <2>2, <1>3
  <2>3. CASE es[c] # None /\ fs[c] = Unfolded(es[c])
    <3>1. es[c] \in Event
      BY <2>3, <1>2 DEF Events
    <3> QED
      BY <3>1, <2>3, UnfoldedFollows
  <2> QED
    BY <2>1, <2>2, <2>3
<1> QED
  BY <1>4, <1>5

(* Every candidate's row is in Events and follows the one before.          *)
EventsFollow ==
  event' \in Events /\ \A c \in Candidate : Follows(event[c], event'[c])

LEMMA NoEventFollows ==
  ASSUME Typed, event' = event
  PROVE  EventsFollow
BY SameFollows DEF Typed, EventsFollow, Events

LEMMA LinkFollows ==
  ASSUME Typed, NEW t \in Text, NEW v \in Venue, event' = LinkedEvents(t, v)
  PROVE  EventsFollow
<1>1. \A c \in Candidate : Waiting(c, t) => event[c] \in Event
  BY DEF Waiting, Typed
<1>2. \A c \in Candidate : event'[c] \in Event \cup {None} /\ Follows(event[c], event'[c])
  BY <1>1, VenueIs, VenueFollows, SameFollows DEF LinkedEvents, Typed
<1> QED
  BY <1>2 DEF EventsFollow, Events, LinkedEvents

LEMMA RevertFollows ==
  ASSUME Typed, NEW t \in Text, Revert(t), alias' \in [Text -> Venue \cup {None}]
  PROVE  EventsFollow
<1>1. CASE entry[t].state = "DISMISSED"
  BY <1>1, NoEventFollows DEF Revert
<1>2. CASE entry[t].state # "DISMISSED"
  <2> DEFINE v == entry[t].venue
             moved == {c \in Candidate : event[c] # None /\ event[c].text = t
                                           /\ event[c].venue = v}
             u == alias'[t]
  <2>1. event' \in Moved(moved, [c \in Candidate |->
                  IF c \in moved THEN [event[c] EXCEPT !.venue = u] ELSE event[c]])
    BY <1>2 DEF Revert
  <2>2. u \in Venue \cup {None} /\ \A c \in moved : event[c] # None
    OBVIOUS
  <2> HIDE DEF moved, u
  <2>3. moved \in SUBSET Candidate
    BY DEF moved
  <2> QED
    BY <2>1, <2>2, <2>3, MovedFollows DEF EventsFollow, Typed, Events
<1> QED
  BY <1>1, <1>2

LEMMA DeleteVenueFollows ==
  ASSUME Typed, NEW v \in Venue, DeleteVenue(v)
  PROVE  EventsFollow
<1> DEFINE moved == {c \in Candidate : event[c] # None /\ event[c].venue = v}
<1>1. event' \in Moved(moved, [c \in Candidate |->
                  IF c \in moved THEN [event[c] EXCEPT !.venue = None] ELSE event[c]])
  BY DEF DeleteVenue
<1>2. moved \in SUBSET Candidate /\ \A c \in moved : event[c] # None
  OBVIOUS
<1> HIDE DEF moved
<1> QED
  BY <1>1, <1>2, MovedFollows DEF EventsFollow, Typed, Events

LEMMA UnfoldFollows ==
  ASSUME Typed, NEW c \in Candidate, Unfold(c)
  PROVE  EventsFollow
<1>1. event[c] \in Event /\ event' = [event EXCEPT ![c] = Unfolded(event[c])]
  BY DEF Unfold, Typed
<1>2. \A d \in Candidate : event'[d] \in Event \cup {None} /\ Follows(event[d], event'[d])
  BY <1>1, UnfoldedIs, UnfoldedFollows, SameFollows DEF Typed
<1> QED
  BY <1>1, <1>2 DEF EventsFollow, Events, Typed

LEMMA BuiltIs ==
  ASSUME Typed, NEW c \in Candidate, NEW r \in Reading, NEW rv \in ReviewState,
         NEW v \in Venue \cup {None}
  PROVE  LET b == Built(c, r, rv, v)
         IN /\ b \in Event /\ Follows(event[c], b)
            /\ b.rev = r.rev /\ b.count = rv.count /\ b.rejected = rv.rejected
            /\ b.text = r.text /\ b.venue = v
<1> DEFINE canonical == IF event[c] = None THEN None ELSE event[c].canonical
           b == Built(c, r, rv, v)
<1>1. canonical \in Candidate \cup {None}
  BY DEF Typed, Event
<1>2. b = [rev |-> r.rev, count |-> rv.count, rejected |-> rv.rejected, text |-> r.text,
      venue |-> v, canonical |-> canonical, listed |-> Listed(rv, canonical)]
  BY DEF Built
<1> HIDE DEF canonical
<1>3. Listed(rv, canonical) \in BOOLEAN
  BY DEF Listed, ReviewState
<1>4. b \in Event
  BY <1>1, <1>2, <1>3 DEF Event, Reading, ReviewState
<1>5. /\ b.rev = r.rev /\ b.count = rv.count /\ b.rejected = rv.rejected /\ b.text = r.text
      /\ b.venue = v /\ b.canonical = canonical /\ b.listed = Listed(rv, canonical)
  BY <1>2
<1> HIDE DEF b
<1>6. Told(b)
  BY <1>5 DEF Told, Listed
<1>7. Follows(event[c], b)
  BY <1>5, <1>6 DEF Follows, canonical
<1> QED
  BY <1>4, <1>5, <1>7 DEF b

LEMMA WriteFollows ==
  ASSUME Shape, NEW p \in Normalizer, Write(p)
  PROVE  EventsFollow
<1> DEFINE c == pass[p].cur
           b == Built(c, pass[p].row[c], pass[p].review[c], pass[p].found)
<1>1. c \in Candidate /\ pass[p].row[c] \in Reading /\ event' = [event EXCEPT ![c] = b]
  BY WriteIs DEF Write
<1>2. pass[p].review[c] \in ReviewState /\ pass[p].found \in Venue \cup {None}
  BY <1>1, PassIs
<1>3. b \in Event /\ Follows(event[c], b)
  BY <1>1, <1>2, BuiltIs DEF Shape
<1> HIDE DEF b, c
<1>4. \A d \in Candidate : event'[d] \in Event \cup {None} /\ Follows(event[d], event'[d])
  BY <1>1, <1>3, SameFollows DEF Typed, Shape
<1> QED
  BY <1>1, <1>4 DEF EventsFollow, Events, Typed, Shape

LEMMA ReleasedIs ==
  ASSUME Typed, NEW keep \in SUBSET Candidate, event' = Released(event, keep)
  PROVE  /\ EventsFollow
         /\ \A c \in Candidate : event'[c] = event[c]
                                 \/ (event[c] # None /\ event'[c] = Unfolded(event[c]))
         /\ \A c \in keep : event'[c] # None /\ event'[c].canonical # None
                             => event'[c].canonical \in keep
<1> DEFINE out(c) == /\ c \in keep /\ event[c] # None /\ event[c].canonical # None
                     /\ event[c].canonical \notin keep
<1>1. event' = [c \in Candidate |-> IF out(c) THEN Unfolded(event[c]) ELSE event[c]]
  BY DEF Released
<1>2. \A c \in Candidate : out(c) => event[c] \in Event
  BY DEF Typed
<1>3. \A c \in Candidate : event'[c] \in Event \cup {None} /\ Follows(event[c], event'[c])
  BY <1>1, <1>2, UnfoldedIs, UnfoldedFollows, SameFollows DEF Typed
<1>4. EventsFollow
  BY <1>1, <1>3 DEF EventsFollow, Events
<1>5. \A c \in keep : event'[c] # None /\ event'[c].canonical # None
                     => event'[c].canonical \in keep
  BY <1>1, <1>2, UnfoldedIs
<1>6. \A c \in Candidate : event'[c] = event[c]
                         \/ (event[c] # None /\ event'[c] = Unfolded(event[c]))
  BY <1>1
<1> QED
  BY <1>4, <1>5, <1>6


-----------------------------------------------------------------------------
(* The revision of the Venue Master.                                       *)

LEMMA LeastNumber ==
  ASSUME NEW S \in SUBSET Nat, S # {}
  PROVE  \E m \in S : \A n \in S : m <= n
<1>1. IsWellFoundedOn(OpToRel(<, Nat), Nat)
  BY NatLessThanWellFounded
<1>2. PICK m \in S : \A n \in S : ~(<<n, m>> \in OpToRel(<, Nat))
  BY <1>1, WFMin
<1>3. \A n \in S : ~(n < m)
  BY <1>2 DEF OpToRel
<1> QED
  BY <1>3

LEMMA LatestIs ==
  ASSUME NEW N \in Nat, NEW D \in SUBSET (0 .. N)
  PROVE  Latest(D) \in 0 .. N /\ \A d \in D : d <= Latest(D)
<1> DEFINE U == {n \in 0 .. N : \A d \in D : d <= n}
<1>1. U \in SUBSET Nat /\ N \in U
  OBVIOUS
<1>2. PICK m \in U : \A n \in U : m <= n
  BY <1>1, LeastNumber
<1>3. m \in D \cup {0}
  <2> SUFFICES ASSUME m \notin D, m # 0 PROVE FALSE
    OBVIOUS
  <2>1. m - 1 \in 0 .. N /\ \A d \in D : d <= m - 1
    OBVIOUS
  <2> QED
    BY <1>2, <2>1
<1>4. \E n \in D \cup {0} : \A d \in D : d <= n
  BY <1>2, <1>3
<1>5. Latest(D) \in D \cup {0} /\ \A d \in D : d <= Latest(D)
  BY <1>4 DEF Latest
<1>6. D \cup {0} \subseteq 0 .. N
  OBVIOUS
<1> QED
  BY <1>5, <1>6

(* r tells how many rows there are, and no date of theirs is above it.     *)
Sums(r, vs, names, at, N) ==
  /\ r.venues = Cardinality(vs) /\ r.venues \in Nat
  /\ r.aliases = Cardinality(Named(names)) /\ r.aliases \in Nat
  /\ r.newestVenue \in 0 .. N /\ \A v \in vs : at[v] <= r.newestVenue
  /\ r.newestAlias \in 0 .. N /\ \A t \in Named(names) : at[t] <= r.newestAlias
  /\ N = MaxMaster => r \in Master

LEMMA RevisionIs ==
  ASSUME NEW N \in Nat, NEW vs \in SUBSET Venue, NEW names \in [Text -> Venue \cup {None}],
         NEW at \in [Venue \cup Text -> 0 .. N]
  PROVE  Sums(Revision(vs, names, at), vs, names, at, N)
<1> DEFINE A == {at[v] : v \in vs}
           B == {at[t] : t \in Named(names)}
<1>1. A \in SUBSET (0 .. N) /\ B \in SUBSET (0 .. N)
  BY DEF Named
<1>2. /\ Latest(A) \in 0 .. N /\ \A d \in A : d <= Latest(A)
      /\ Latest(B) \in 0 .. N /\ \A d \in B : d <= Latest(B)
  BY <1>1, LatestIs
<1>3. IsFiniteSet(vs) /\ IsFiniteSet(Named(names))
  <2>1. Named(names) \in SUBSET Text /\ IsFiniteSet(Text) /\ IsFiniteSet(Venue)
    BY NormalizationAssumption DEF Named
  <2> QED
    BY <2>1, FS_Subset
<1>4. Cardinality(vs) \in Nat /\ Cardinality(Named(names)) \in Nat
  BY <1>3, FS_CardinalityType
<1>5. Revision(vs, names, at) =
        [venues |-> Cardinality(vs), aliases |-> Cardinality(Named(names)),
         newestVenue |-> Latest(A), newestAlias |-> Latest(B)]
  BY DEF Revision
<1>6. (\A v \in vs : at[v] \in A) /\ (\A t \in Named(names) : at[t] \in B)
  OBVIOUS
<1> HIDE DEF A, B
<1> QED
  BY <1>2, <1>4, <1>5, <1>6 DEF Master, Sums

(* A row added, and rows deleted.                                          *)
LEMMA DatesIs ==
  ASSUME Typed, NEW x \in Venue \cup Text, Dates(x)
  PROVE  /\ clock < MaxMaster /\ clock' = clock + 1 /\ clock' \in 0 .. MaxMaster
         /\ since' \in [Venue \cup Text -> 0 .. MaxMaster] /\ since'[x] = clock'
         /\ \A y \in Venue \cup Text : y # x => since'[y] = since[y]
BY NormalizationAssumption DEF Typed, Dates

LEMMA ForgetsIs ==
  ASSUME Typed, NEW gone, Forgets(gone)
  PROVE  /\ clock' = clock /\ clock' \in 0 .. MaxMaster
         /\ since' \in [Venue \cup Text -> 0 .. MaxMaster]
         /\ \A y \in Venue \cup Text : since'[y] \in {0, since[y]}
BY NormalizationAssumption DEF Typed, Forgets

LEMMA MasterTyped ==
  ASSUME venues \in SUBSET Venue, alias \in [Text -> Venue \cup {None}],
         since \in [Venue \cup Text -> 0 .. MaxMaster]
  PROVE  Revision(venues, alias, since) \in Master
<1>1. Sums(Revision(venues, alias, since), venues, alias, since, MaxMaster)
  BY RevisionIs, NormalizationAssumption
<1> QED
  BY <1>1 DEF Sums

LEMMA MovesTyped ==
  ASSUME MasterMoves, venues' \in SUBSET Venue, alias' \in [Text -> Venue \cup {None}],
         since' \in [Venue \cup Text -> 0 .. MaxMaster]
  PROVE  master' \in Master
<1>1. Sums(Revision(venues', alias', since'), venues', alias', since', MaxMaster)
  BY RevisionIs, NormalizationAssumption
<1> QED
  BY <1>1 DEF Sums, MasterMoves

-----------------------------------------------------------------------------
(* The types.                                                              *)

LEMMA ShapeInit == Init => Shape
<1> SUFFICES ASSUME Init PROVE Shape
  OBVIOUS
<1>1. cand \in [Candidate -> Reading \cup {None, Gone}] /\ event \in Events
  BY DEF Init, Events
<1>2. review \in [Candidate -> ReviewState]
  BY DEF Init, ReviewState, NewReview
<1>3. /\ venues \in SUBSET Venue /\ alias \in [Text -> Venue \cup {None}]
      /\ since \in [Venue \cup Text -> 0 .. MaxMaster] /\ clock \in 0 .. MaxMaster
  BY NormalizationAssumption DEF Init
<1>a. master \in Master
  BY <1>3, MasterTyped DEF Init
<1>4. entry \in [Text -> Entry]
  BY DEF Init, Undecided, Entry
<1>5. pass \in [Normalizer -> Pass] /\ \A p \in Normalizer : Orderly(pass[p])
  BY IdleIs DEF Init
<1> QED
  BY <1>1, <1>2, <1>3, <1>a, <1>4, <1>5 DEF Shape, Typed, Events

LEMMA UndecidedTyped ==
  ASSUME NEW x \in {"none", "OPEN", "DISMISSED"}
  PROVE  Undecided(x) \in Entry /\ Undecided(x).state = x /\ Undecided(x).venue = None
BY DEF Undecided, Entry

LEMMA NumberedTyped ==
  ASSUME NEW c \in Candidate, NEW r \in Finds[c], NEW n \in Nat
  PROVE  Numbered(r, n) \in Reading /\ Numbered(r, n).rev = n
<1>1. r \in [dated : BOOLEAN, text : Text \cup {None}]
  BY NormalizationAssumption
<1> QED
  BY <1>1 DEF Numbered, Reading

LEMMA PostsShape ==
  ASSUME Shape, NEW c \in Candidate, Extract(c) \/ ReExtract(c) \/ Retire(c) \/ Review(c)
  PROVE  Shape' /\ UNCHANGED <<places, event, stamp, pass>>
<1>1. CASE Extract(c)
  BY <1>1, NumberedTyped DEF Extract, Shape, Typed, places
<1>2. CASE ReExtract(c)
  <2>1. cand[c].rev + 1 \in Nat
    BY <1>2, DigestTyped DEF ReExtract, Shape, Reading
  <2> QED
    BY <1>2, <2>1, NumberedTyped DEF ReExtract, Shape, Typed, places
<1>3. CASE Retire(c)
  BY <1>3 DEF Retire, Shape, Typed, places
<1>4. CASE Review(c)
  <2>1. PICK rejected \in BOOLEAN :
          review' = [review EXCEPT ![c] = [count |-> @.count + 1, rejected |-> rejected]]
    BY <1>4 DEF Review
  <2>2. [count |-> review[c].count + 1, rejected |-> rejected] \in ReviewState
    BY DEF Shape, Typed, ReviewState
  <2> QED
    BY <1>4, <2>1, <2>2 DEF Review, Shape, Typed, places
<1> QED
  BY <1>1, <1>2, <1>3, <1>4

(* The decisions over venues and strings.                                  *)
Places ==
  \/ \E v \in Venue : AddVenue(v) \/ DeleteVenue(v)
  \/ \E t \in Text : Dismiss(t) \/ Revert(t) \/ RemoveAlias(t)
  \/ \E t \in Text, v \in Venue :
       AddAlias(t, v) \/ \E asAlias \in BOOLEAN : Link(t, v, asAlias)

LEMMA PlacesShape ==
  ASSUME Shape, Places
  PROVE  /\ EventsFollow /\ Shape' /\ UNCHANGED <<cand, review, stamp, pass>>
<1>0. Typed /\ \A p \in Normalizer : Orderly(pass[p])
  BY DEF Shape
<1>1. ASSUME NEW v \in Venue, AddVenue(v)
      PROVE  EventsFollow /\ Typed' /\ UNCHANGED <<cand, review, stamp, pass>>
  <2>1. EventsFollow
    BY <1>0, <1>1, NoEventFollows DEF AddVenue
  <2>2. venues' \in SUBSET Venue /\ alias' = alias /\ entry' = entry
    BY <1>0, <1>1 DEF AddVenue, Typed
  <2>3. since' \in [Venue \cup Text -> 0 .. MaxMaster] /\ clock' \in 0 .. MaxMaster
    BY <1>0, <1>1, DatesIs DEF AddVenue
  <2>4. master' \in Master
    BY <1>0, <1>1, <2>2, <2>3, MovesTyped DEF AddVenue, Typed
  <2>5. UNCHANGED <<cand, review, stamp, pass>>
    BY <1>1 DEF AddVenue
  <2> QED
    BY <1>0, <2>1, <2>2, <2>3, <2>4, <2>5 DEF EventsFollow, Events, Typed
<1>2. ASSUME NEW v \in Venue, DeleteVenue(v)
      PROVE  EventsFollow /\ Typed' /\ UNCHANGED <<cand, review, stamp, pass>>
  <2>1. EventsFollow
    BY <1>0, <1>2, DeleteVenueFollows
  <2>2. entry' \in [Text -> Entry]
    BY <1>0, <1>2, UndecidedTyped DEF DeleteVenue, Typed
  <2>3. alias' \in [Text -> Venue \cup {None}] /\ venues' \in SUBSET Venue
    BY <1>0, <1>2 DEF DeleteVenue, Typed
  <2>a. since' \in [Venue \cup Text -> 0 .. MaxMaster] /\ clock' \in 0 .. MaxMaster
    BY <1>0, <1>2, ForgetsIs DEF DeleteVenue
  <2>4. master' \in Master
    BY <1>2, <2>3, <2>a, MovesTyped DEF DeleteVenue
  <2>5. UNCHANGED <<cand, review, stamp, pass>>
    BY <1>2 DEF DeleteVenue
  <2> QED
    BY <1>0, <2>1, <2>2, <2>3, <2>a, <2>4, <2>5 DEF EventsFollow, Events, Typed
<1>3. ASSUME NEW t \in Text, Dismiss(t)
      PROVE  EventsFollow /\ Typed' /\ UNCHANGED <<cand, review, stamp, pass>>
  <2>1. EventsFollow
    BY <1>0, <1>3, NoEventFollows DEF Dismiss
  <2> QED
    BY <1>0, <1>3, <2>1, UndecidedTyped DEF Dismiss, Typed, rows
<1>4. ASSUME NEW t \in Text, Revert(t)
      PROVE  EventsFollow /\ Typed' /\ UNCHANGED <<cand, review, stamp, pass>>
  <2>1. /\ alias' \in [Text -> Venue \cup {None}] /\ master' \in Master
        /\ since' \in [Venue \cup Text -> 0 .. MaxMaster] /\ clock' \in 0 .. MaxMaster
    <3>1. CASE entry[t].state # "DISMISSED" /\ alias[t] = entry[t].venue
      <4>1. /\ alias' = [alias EXCEPT ![t] = None] /\ venues' = venues
            /\ Forgets({t}) /\ MasterMoves
        BY <1>4, <3>1 DEF Revert
      <4>2. alias' \in [Text -> Venue \cup {None}] /\ venues' \in SUBSET Venue
        BY <1>0, <4>1 DEF Typed
      <4>3. since' \in [Venue \cup Text -> 0 .. MaxMaster] /\ clock' \in 0 .. MaxMaster
        BY <1>0, <4>1, ForgetsIs
      <4> QED
        BY <4>1, <4>2, <4>3, MovesTyped
    <3>2. CASE ~(entry[t].state # "DISMISSED" /\ alias[t] = entry[t].venue)
      <4>1. UNCHANGED <<alias, since, clock, master>>
        BY <1>4, <3>2 DEF Revert, rows
      <4> QED
        BY <1>0, <4>1 DEF Typed
    <3> QED
      BY <3>1, <3>2
  <2>2. EventsFollow
    BY <1>0, <1>4, <2>1, RevertFollows
  <2>3. entry' \in [Text -> Entry]
    BY <1>0, <1>4, UndecidedTyped DEF Revert, Typed
  <2>4. UNCHANGED <<cand, review, venues, stamp, pass>>
    BY <1>4 DEF Revert, rows
  <2> QED
    BY <1>0, <2>1, <2>2, <2>3, <2>4 DEF EventsFollow, Events, Typed
<1>5. ASSUME NEW t \in Text, RemoveAlias(t)
      PROVE  EventsFollow /\ Typed' /\ UNCHANGED <<cand, review, stamp, pass>>
  <2>1. EventsFollow
    BY <1>0, <1>5, NoEventFollows DEF RemoveAlias
  <2>2. alias' \in [Text -> Venue \cup {None}] /\ venues' = venues /\ entry' = entry
    BY <1>0, <1>5 DEF RemoveAlias, Typed
  <2>3. since' \in [Venue \cup Text -> 0 .. MaxMaster] /\ clock' \in 0 .. MaxMaster
    BY <1>0, <1>5, ForgetsIs DEF RemoveAlias
  <2>4. master' \in Master
    BY <1>0, <1>5, <2>2, <2>3, MovesTyped DEF RemoveAlias, Typed
  <2>5. UNCHANGED <<cand, review, stamp, pass>>
    BY <1>5 DEF RemoveAlias
  <2> QED
    BY <1>0, <2>1, <2>2, <2>3, <2>4, <2>5 DEF EventsFollow, Events, Typed
<1>6. ASSUME NEW t \in Text, NEW v \in Venue, AddAlias(t, v)
      PROVE  EventsFollow /\ Typed' /\ UNCHANGED <<cand, review, stamp, pass>>
  <2>1. EventsFollow
    BY <1>0, <1>6, NoEventFollows DEF AddAlias
  <2>2. alias' \in [Text -> Venue \cup {None}] /\ venues' = venues /\ entry' = entry
    BY <1>0, <1>6 DEF AddAlias, Typed
  <2>3. since' \in [Venue \cup Text -> 0 .. MaxMaster] /\ clock' \in 0 .. MaxMaster
    BY <1>0, <1>6, DatesIs DEF AddAlias
  <2>4. master' \in Master
    BY <1>0, <1>6, <2>2, <2>3, MovesTyped DEF AddAlias, Typed
  <2>5. UNCHANGED <<cand, review, stamp, pass>>
    BY <1>6 DEF AddAlias
  <2> QED
    BY <1>0, <2>1, <2>2, <2>3, <2>4, <2>5 DEF EventsFollow, Events, Typed
<1>7. ASSUME NEW t \in Text, NEW v \in Venue, NEW asAlias \in BOOLEAN, Link(t, v, asAlias)
      PROVE  EventsFollow /\ Typed' /\ UNCHANGED <<cand, review, stamp, pass>>
  <2>1. EventsFollow
    BY <1>0, <1>7, LinkFollows DEF Link
  <2>2. entry' \in [Text -> Entry]
    BY <1>0, <1>7 DEF Link, Typed, Entry
  <2>3. /\ alias' \in [Text -> Venue \cup {None}] /\ master' \in Master
        /\ since' \in [Venue \cup Text -> 0 .. MaxMaster] /\ clock' \in 0 .. MaxMaster
    <3>1. CASE asAlias /\ alias[t] = None
      <4>1. alias' = [alias EXCEPT ![t] = v] /\ venues' = venues /\ Dates(t) /\ MasterMoves
        BY <1>7, <3>1 DEF Link
      <4>2. alias' \in [Text -> Venue \cup {None}] /\ venues' \in SUBSET Venue
        BY <1>0, <4>1 DEF Typed
      <4>3. since' \in [Venue \cup Text -> 0 .. MaxMaster] /\ clock' \in 0 .. MaxMaster
        BY <1>0, <4>1, DatesIs
      <4> QED
        BY <4>1, <4>2, <4>3, MovesTyped
    <3>2. CASE ~(asAlias /\ alias[t] = None)
      <4>1. UNCHANGED <<alias, since, clock, master>>
        BY <1>7, <3>2 DEF Link
      <4> QED
        BY <1>0, <4>1 DEF Typed
    <3> QED
      BY <3>1, <3>2
  <2>4. UNCHANGED <<cand, review, venues, stamp, pass>>
    BY <1>7 DEF Link
  <2> QED
    BY <1>0, <2>1, <2>2, <2>3, <2>4 DEF EventsFollow, Events, Typed
<1>8. EventsFollow /\ Typed' /\ UNCHANGED <<cand, review, stamp, pass>>
  BY <1>1, <1>2, <1>3, <1>4, <1>5, <1>6, <1>7 DEF Places
<1> QED
  BY <1>0, <1>8 DEF Shape

LEMMA FoldIs ==
  ASSUME Typed, NEW c \in Candidate, NEW d \in Candidate, Fold(c, d)
  PROVE  /\ event' \in Events /\ Told(event'[c])
         /\ event'[c].canonical = d /\ event'[c].listed = FALSE /\ event[c] \in Event
         /\ \A b \in Candidate : b # c => event'[b] = event[b]
         /\ UNCHANGED <<cand, review, places, stamp, pass>>
         /\ event'[c] # None
         /\ event'[c].rev = event[c].rev /\ event'[c].count = event[c].count
         /\ event'[c].rejected = event[c].rejected
         /\ event'[c].text = event[c].text /\ event'[c].venue = event[c].venue
<1> DEFINE e == [event[c] EXCEPT !.canonical = d, !.listed = FALSE]
<1>1. event[c] \in Event /\ event' = [event EXCEPT ![c] = e]
  BY DEF Fold, Typed
<1>2. /\ e \in Event /\ e.canonical = d /\ e.listed = FALSE
      /\ e.rev = event[c].rev /\ e.count = event[c].count /\ e.rejected = event[c].rejected
      /\ e.text = event[c].text /\ e.venue = event[c].venue
  BY <1>1 DEF Event
<1> HIDE DEF e
<1>3. Told(e) /\ e # None
  BY <1>2, Apart DEF Told, Listed
<1>4. event' \in Events /\ event'[c] = e /\ \A b \in Candidate : b # c => event'[b] = event[b]
  BY <1>1, <1>2 DEF Typed, Events
<1>5. UNCHANGED <<cand, review, places, stamp, pass>>
  BY DEF Fold
<1> QED
  BY <1>1, <1>2, <1>3, <1>4, <1>5

(* The statement that drops events, and the folds under them.              *)
LEMMA DeleteIs ==
  ASSUME Typed, NEW p \in Normalizer, PruneDelete(p)
  PROVE  /\ event' \in Events
         /\ \A c \in Candidate :
              \/ event'[c] = event[c]
              \/ event'[c] = None
              \/ /\ c \in pass[p].keep /\ event[c] # None /\ event[c].canonical # None
                 /\ event[c].canonical \notin pass[p].keep
                 /\ event'[c] = [event[c] EXCEPT !.canonical = None]
<1>1. \A c \in Candidate : event[c] # None => event[c] \in Event
  BY DEF Typed
<1>2. \A e \in Event : [e EXCEPT !.canonical = None] \in Event
  BY DEF Event
<1>3. \A c \in Candidate :
              \/ event'[c] = event[c]
              \/ event'[c] = None
              \/ /\ c \in pass[p].keep /\ event[c] # None /\ event[c].canonical # None
                 /\ event[c].canonical \notin pass[p].keep
                 /\ event'[c] = [event[c] EXCEPT !.canonical = None]
  BY DEF PruneDelete
<1>4. event' \in [Candidate -> {event'[c] : c \in Candidate}]
  BY DEF PruneDelete
<1> QED
  BY <1>1, <1>2, <1>3, <1>4 DEF Typed, Events


(* The steps of a pass that leave events alone.                            *)
Quiet(p) ==
  \/ Start(p) \/ ReadRows(p) \/ StampBuilt(p)
  \/ \E c \in Candidate : NoDate(p, c) \/ Resolve(p, c) \/ Fail(p, c)
  \/ StartPrune(p) \/ PruneStamps(p) \/ Crash(p)

LEMMA QuietShape ==
  ASSUME Shape, NEW p \in Normalizer, Quiet(p)
  PROVE  /\ Shape' /\ OthersStay(p)
         /\ pass'[p].phase # "delete"
         /\ UNCHANGED <<cand, review, rows, event>>
<1>0. Typed /\ \A q \in Normalizer : Orderly(pass[q])
  BY DEF Shape
<1>1. CASE Start(p)
  BY <1>0, <1>1, StartIs DEF Start, OthersStay, Typed, Shape, places, rows
<1>2. CASE ReadRows(p)
  BY <1>0, <1>2, ReadRowsIs DEF ReadRows, OthersStay, Typed, Shape, places, rows
<1>3. ASSUME NEW c \in Candidate, NoDate(p, c) \/ Fail(p, c)
      PROVE  /\ Typed' /\ OthersStay(p) /\ pass'[p].phase # "delete"
             /\ UNCHANGED <<cand, review, rows, event>>
  <2>1. pass[p].phase = "build" /\ pass' = Done(p, c)
    BY <1>3 DEF NoDate, Fail
  <2>2. OthersStay(p) /\ pass'[p].phase = "build"
    BY <2>1, DoneStep
  <2> QED
    BY <1>0, <1>3, <2>2 DEF NoDate, Fail, OthersStay, Typed, places, rows
<1>4. CASE StampBuilt(p)
  <2>1. pass[p].phase = "build" /\ pass[p].cur \in Candidate
    BY <1>4, PassIs DEF StampBuilt, Orderly
  <2>2. OthersStay(p) /\ pass'[p].phase = "build"
    BY <1>4, <2>1, DoneStep DEF StampBuilt
  <2> QED
    BY <1>0, <1>4, <2>2 DEF StampBuilt, OthersStay, Typed, Shape, places, rows
<1>5. ASSUME NEW c \in Candidate, Resolve(p, c)
      PROVE  /\ Typed' /\ OthersStay(p) /\ pass'[p].phase # "delete"
             /\ UNCHANGED <<cand, review, rows, event>>
  <2>1. OthersStay(p) /\ pass'[p].phase = "build"
    BY <1>5, ResolveIs
  <2>2. entry' \in [Text -> Entry]
    BY <1>0, <1>5, UndecidedTyped DEF Resolve, Typed
  <2> QED
    BY <1>0, <1>5, <2>1, <2>2 DEF Resolve, OthersStay, Typed, rows
<1>6. CASE StartPrune(p)
  BY <1>0, <1>6, StartPruneIs DEF StartPrune, OthersStay, Typed, Shape, places, rows
<1>7. CASE PruneStamps(p) \/ Crash(p)
  <2>1. pass' = [pass EXCEPT ![p] = Idle]
    BY <1>7 DEF PruneStamps, Crash
  <2>2. OthersStay(p) /\ pass'[p] = Idle
    BY <2>1, EndIs
  <2> QED
    BY <1>0, <1>7, <2>2, IdleIs DEF PruneStamps, Crash, OthersStay, Typed, Shape, places, rows
<1>8. CASE \E c \in Candidate : NoDate(p, c) \/ Resolve(p, c) \/ Fail(p, c)
  <2>1. /\ Typed' /\ OthersStay(p) /\ pass'[p].phase # "delete"
        /\ UNCHANGED <<cand, review, rows, event>>
    BY <1>8, <1>3, <1>5
  <2> QED
    BY <2>1 DEF OthersStay, Shape
<1> QED
  BY <1>1, <1>2, <1>4, <1>6, <1>7, <1>8 DEF Quiet

LEMMA WriteShape ==
  ASSUME Shape, NEW p \in Normalizer, Write(p)
  PROVE  Shape' /\ EventsFollow
BY WriteIs, WriteFollows DEF Write, OthersStay, Shape, Typed, EventsFollow, Events, places

LEMMA ReleaseShape ==
  ASSUME Shape, NEW p \in Normalizer, PruneRelease(p)
  PROVE  /\ Shape' /\ OthersStay(p) /\ EventsFollow
         /\ pass'[p].keep = pass[p].keep /\ pass'[p].phase = "delete"
         /\ InHand(pass'[p]) = {} /\ ~pass'[p].written /\ pass'[p].cur = None
         /\ \A c \in Candidate : event'[c] = event[c]
                                 \/ (event[c] # None /\ event'[c] = Unfolded(event[c]))
         /\ \A c \in pass[p].keep : event'[c] # None /\ event'[c].canonical # None
                             => event'[c].canonical \in pass[p].keep
<1>1. /\ pass[p].phase = "release" /\ pass' = [pass EXCEPT ![p].phase = "delete"]
      /\ event' = Released(event, pass[p].keep)
      /\ UNCHANGED <<cand, review, places, stamp>>
  BY DEF PruneRelease
<1>2. "delete" \in Phase \ {"idle", "selected", "build"}
  BY DEF Phase
<1>3. /\ OthersStay(p) /\ pass'[p].phase = "delete" /\ pass'[p].keep = pass[p].keep
      /\ InHand(pass'[p]) = {} /\ ~pass'[p].written /\ pass'[p].cur = None
  BY <1>1, <1>2, PrunePhase
<1>4. pass[p].keep \in SUBSET Candidate /\ Typed
  BY PassIs DEF Shape
<1>5. /\ EventsFollow
      /\ \A c \in Candidate : event'[c] = event[c]
                                 \/ (event[c] # None /\ event'[c] = Unfolded(event[c]))
      /\ \A c \in pass[p].keep : event'[c] # None /\ event'[c].canonical # None
                             => event'[c].canonical \in pass[p].keep
  BY <1>1, <1>4, ReleasedIs
<1>6. Shape'
  BY <1>1, <1>3, <1>4, <1>5 DEF OthersStay, EventsFollow, Events, Shape, Typed, places
<1> QED
  BY <1>3, <1>5, <1>6

LEMMA DeleteShape ==
  ASSUME Shape, NEW p \in Normalizer, PruneDelete(p)
  PROVE  /\ Shape' /\ OthersStay(p) /\ pass'[p].phase = "forget"
         /\ InHand(pass'[p]) = {} /\ ~pass'[p].written /\ pass'[p].cur = None
<1>1. /\ pass[p].phase = "delete" /\ pass' = [pass EXCEPT ![p].phase = "forget"]
      /\ UNCHANGED <<cand, review, places, stamp>>
  BY DEF PruneDelete
<1>2. "forget" \in Phase \ {"idle", "selected", "build"}
  BY DEF Phase
<1>3. /\ OthersStay(p) /\ pass'[p].phase = "forget"
      /\ InHand(pass'[p]) = {} /\ ~pass'[p].written /\ pass'[p].cur = None
  BY <1>1, <1>2, PrunePhase
<1>4. event' \in Events
  BY DeleteIs DEF Shape
<1>5. Shape'
  BY <1>1, <1>3, <1>4 DEF OthersStay, Events, Shape, Typed, places
<1> QED
  BY <1>3, <1>5


LEMMA Steps ==
  ASSUME Next
  PROVE  \/ \E c \in Candidate : Extract(c) \/ ReExtract(c) \/ Retire(c) \/ Review(c)
         \/ Places
         \/ \E c \in Candidate : Unfold(c) \/ \E d \in Candidate : Fold(c, d)
         \/ \E p \in Normalizer : Quiet(p) \/ Write(p) \/ PruneRelease(p) \/ PruneDelete(p)
BY DEF Next, Posts, Decisions, Places, PassStep, Quiet

LEMMA ShapeStep ==
  ASSUME Shape, [Next]_vars
  PROVE  Shape'
<1>1. ASSUME NEW c \in Candidate, Extract(c) \/ ReExtract(c) \/ Retire(c) \/ Review(c)
      PROVE  Shape'
  BY <1>1, PostsShape
<1>2. CASE Places
  BY <1>2, PlacesShape
<1>3. ASSUME NEW c \in Candidate, Unfold(c)
      PROVE  Shape'
  BY <1>3, UnfoldFollows DEF Unfold, EventsFollow, Events, Shape, Typed, places
<1>4. ASSUME NEW c \in Candidate, NEW d \in Candidate, Fold(c, d)
      PROVE  Shape'
  BY <1>4, FoldIs DEF Events, Shape, Typed, places
<1>5. ASSUME NEW p \in Normalizer, Quiet(p) \/ Write(p) \/ PruneRelease(p) \/ PruneDelete(p)
      PROVE  Shape'
  BY <1>5, QuietShape, WriteShape, ReleaseShape, DeleteShape
<1>6. CASE UNCHANGED vars
  BY <1>6 DEF vars, places, Shape, Typed
<1> QED
  BY <1>1, <1>2, <1>3, <1>4, <1>5, <1>6, Steps

-----------------------------------------------------------------------------
(* What a row shows.  A prune drops a fold without a word to the listing,  *)
(* but only over what it released itself before.                           *)

PruneIsReleased ==
  \A p \in Normalizer : pass[p].phase = "delete" =>
    \A c \in pass[p].keep :
      event[c] # None /\ event[c].canonical # None => event[c].canonical \in pass[p].keep

ListingInv == Shape /\ ListingIsTold /\ PruneIsReleased

LEMMA FollowKeepsListing ==
  ASSUME ListingIsTold, EventsFollow
  PROVE  ListingIsTold'
<1>1. ASSUME NEW c \in Candidate, event'[c] # None
      PROVE  Told(event'[c])
  BY <1>1 DEF ListingIsTold, EventsFollow, Follows, Told
<1> QED
  BY <1>1 DEF ListingIsTold, Told, Listed

(* Nothing is folded anew, so what a prune has released stays released.    *)
LEMMA FollowKeepsReleased ==
  ASSUME Shape, PruneIsReleased, EventsFollow,
         NEW p \in Normalizer, pass'[p].phase = "delete", pass'[p] = pass[p]
  PROVE  \A c \in pass'[p].keep :
           event'[c] # None /\ event'[c].canonical # None => event'[c].canonical \in pass'[p].keep
<1>1. pass[p].keep \in SUBSET Candidate
  BY PassIs
<1> QED
  BY <1>1 DEF PruneIsReleased, EventsFollow, Follows

LEMMA ListingStep ==
  ASSUME ListingInv, [Next]_vars, "fold" \notin Beside
  PROVE  ListingInv'
<1>0. Shape /\ ListingIsTold /\ PruneIsReleased /\ Shape' /\ Typed
  BY ShapeStep DEF ListingInv, Shape
<1>1. ASSUME pass' = pass, EventsFollow
      PROVE  ListingIsTold' /\ PruneIsReleased'
  BY <1>0, <1>1, FollowKeepsListing, FollowKeepsReleased DEF PruneIsReleased
<1>2. ASSUME NEW c \in Candidate, Extract(c) \/ ReExtract(c) \/ Retire(c) \/ Review(c)
      PROVE  ListingIsTold' /\ PruneIsReleased'
  <2>1. pass' = pass /\ event' = event
    BY <1>0, <1>2, PostsShape
  <2>2. EventsFollow
    BY <1>0, <2>1, NoEventFollows
  <2> QED
    BY <1>1, <2>1, <2>2
<1>3. ASSUME Places
      PROVE  ListingIsTold' /\ PruneIsReleased'
  <2>1. EventsFollow /\ UNCHANGED <<cand, review, stamp, pass>>
    BY <1>0, <1>3, PlacesShape
  <2> QED
    BY <1>1, <2>1
<1>4. ASSUME NEW c \in Candidate, Unfold(c)
      PROVE  ListingIsTold' /\ PruneIsReleased'
  BY <1>0, <1>1, <1>4, UnfoldFollows DEF Unfold
<1>5. ASSUME NEW c \in Candidate, NEW d \in Candidate, Fold(c, d)
      PROVE  ListingIsTold' /\ PruneIsReleased'
  <2>1. /\ Told(event'[c]) /\ \A b \in Candidate : b # c => event'[b] = event[b]
        /\ UNCHANGED <<cand, review, places, stamp, pass>>
    BY <1>0, <1>5, FoldIs
  <2>2. ListingIsTold'
    BY <1>0, <2>1 DEF ListingIsTold, Told, Listed
  <2>3. PruneIsReleased'
    BY <1>5, <2>1 DEF Fold, NobodyPrunes, PruneIsReleased
  <2> QED
    BY <2>2, <2>3
<1>6. ASSUME NEW p \in Normalizer, EventsFollow, OthersStay(p), pass'[p].phase # "delete"
      PROVE  ListingIsTold' /\ PruneIsReleased'
  <2>1. ListingIsTold'
    BY <1>0, <1>6, FollowKeepsListing
  <2>2. ASSUME NEW q \in Normalizer, pass'[q].phase = "delete"
        PROVE  \A c \in pass'[q].keep : event'[c] # None /\ event'[c].canonical # None
                 => event'[c].canonical \in pass'[q].keep
    BY <1>0, <1>6, <2>2, FollowKeepsReleased DEF OthersStay
  <2> QED
    BY <2>1, <2>2 DEF PruneIsReleased
<1>7. ASSUME NEW p \in Normalizer, Quiet(p)
      PROVE  ListingIsTold' /\ PruneIsReleased'
  BY <1>0, <1>6, <1>7, QuietShape, NoEventFollows
<1>8. ASSUME NEW p \in Normalizer, Write(p)
      PROVE  ListingIsTold' /\ PruneIsReleased'
  <2>1. pass[p].phase = "build" /\ pass'[p].phase = pass[p].phase /\ OthersStay(p)
    BY <1>0, <1>8, WriteIs
  <2> QED
    BY <1>0, <1>6, <1>8, <2>1, WriteShape
<1>9. ASSUME NEW p \in Normalizer, PruneRelease(p)
      PROVE  ListingIsTold' /\ PruneIsReleased'
  <2>1. /\ OthersStay(p) /\ EventsFollow /\ pass'[p].keep = pass[p].keep
        /\ \A c \in pass[p].keep : event'[c] # None /\ event'[c].canonical # None
                             => event'[c].canonical \in pass[p].keep
    BY <1>0, <1>9, ReleaseShape
  <2>2. ListingIsTold'
    BY <1>0, <2>1, FollowKeepsListing
  <2>3. ASSUME NEW q \in Normalizer, pass'[q].phase = "delete"
        PROVE  \A c \in pass'[q].keep : event'[c] # None /\ event'[c].canonical # None
                 => event'[c].canonical \in pass'[q].keep
    BY <1>0, <2>1, <2>3, FollowKeepsReleased DEF OthersStay
  <2> QED
    BY <2>2, <2>3 DEF PruneIsReleased
<1>10. ASSUME NEW p \in Normalizer, PruneDelete(p)
       PROVE  ListingIsTold' /\ PruneIsReleased'
  <2>1. OthersStay(p) /\ pass'[p].phase = "forget"
    BY <1>0, <1>10, DeleteShape
  <2>2. pass[p].phase = "delete"
    BY <1>10 DEF PruneDelete
  <2>3. \A c \in Candidate : event'[c] = event[c] \/ event'[c] = None
    BY <1>0, <1>10, <2>2, DeleteIs DEF PruneIsReleased
  <2>4. EventsFollow
    BY <1>0, <1>10, <2>3, DeleteIs, SameFollows DEF EventsFollow, Follows, Typed
  <2> QED
    BY <1>6, <2>1, <2>4
<1>11. CASE UNCHANGED vars
  <2>1. pass' = pass /\ event' = event
    BY <1>11 DEF vars
  <2>2. EventsFollow
    BY <1>0, <2>1, NoEventFollows
  <2> QED
    BY <1>0, <1>1, <2>1, <2>2 DEF ListingInv
<1> QED
  BY <1>0, <1>2, <1>3, <1>4, <1>5, <1>7, <1>8, <1>9, <1>10, <1>11, Steps DEF ListingInv

(* An event is listed exactly when its review does not forbid it and it is *)
(* folded under none, for any number of processes that normalize, as long  *)
(* as nobody folds between the two statements of a prune.                  *)
THEOREM ListingTold ==
  ASSUME "fold" \notin Beside
  PROVE  Spec => []ListingIsTold
<1>1. Init => ListingInv
  BY ShapeInit, IdleIs DEF Init, ListingInv, ListingIsTold, PruneIsReleased
<1>2. ListingInv /\ [Next]_vars => ListingInv'
  BY ListingStep
<1>3. ListingInv => ListingIsTold
  BY DEF ListingInv
<1> QED
  BY <1>1, <1>2, <1>3, PTL DEF Spec


-----------------------------------------------------------------------------
(* Inputs only grow.                                                       *)

(* A candidate's reading and its review are never what they were before:   *)
(* their counters tell which is the later.                                 *)
InputsGrow ==
  \A c \in Candidate :
    /\ cand[c] # None => cand'[c] # None
    /\ cand[c] # None /\ c \in Present' =>
         c \in Present /\ (cand'[c] = cand[c] \/ cand[c].rev < cand'[c].rev)
    /\ review'[c] = review[c] \/ review[c].count < review'[c].count

LEMMA InputsStay ==
  ASSUME Typed, UNCHANGED <<cand, review>>
  PROVE  InputsGrow
<1>1. Present' = Present
  BY DEF Present
<1> QED
  BY <1>1 DEF InputsGrow, Typed

LEMMA PostsGrow ==
  ASSUME Shape, NEW c \in Candidate, Extract(c) \/ ReExtract(c) \/ Retire(c) \/ Review(c)
  PROVE  InputsGrow /\ master' = master
<1>0. Typed /\ UNCHANGED <<places, event, stamp, pass>>
  BY PostsShape DEF Shape
<1>1. CASE Extract(c)
  BY <1>0, <1>1, NumberedTyped, Apart DEF Extract, InputsGrow, Present, Typed, places
<1>2. CASE ReExtract(c)
  <2>1. cand[c] \in Reading /\ cand[c].rev \in Nat
    BY <1>0, <1>2, DigestTyped DEF ReExtract, Reading
  <2>2. /\ cand' \in [Candidate -> Reading \cup {None, Gone}]
        /\ cand'[c] \in Reading /\ cand'[c].rev = cand[c].rev + 1
        /\ \A d \in Candidate : d # c => cand'[d] = cand[d]
    BY <1>0, <1>2, <2>1, NumberedTyped DEF ReExtract, Typed
  <2> QED
    BY <1>0, <1>2, <2>1, <2>2, Apart DEF ReExtract, InputsGrow, Present, Typed, places
<1>3. CASE Retire(c)
  BY <1>0, <1>3, Apart DEF Retire, InputsGrow, Present, Typed, places
<1>4. CASE Review(c)
  <2>1. /\ review[c].count < review'[c].count /\ cand' = cand
        /\ \A d \in Candidate : d # c => review'[d] = review[d]
    BY <1>0, <1>4 DEF Review, Typed, ReviewState
  <2> QED
    BY <1>0, <2>1 DEF InputsGrow, Present, Typed, places
<1> QED
  BY <1>1, <1>2, <1>3, <1>4

LEMMA PlacesGrow ==
  ASSUME Shape, Places
  PROVE  InputsGrow
BY PlacesShape, InputsStay DEF Shape

(* A revision of the master that a stamp or a pass holds does not come     *)
(* back: a row that is added has a later date than any it holds, and no    *)
(* row is deleted for the sake of which it would.                          *)
NoReturn == master' = master \/ master' \notin HeldRevisions

Dated ==
  /\ since \in [Venue \cup Text -> 0 .. clock]
  /\ master = Revision(venues, alias, since)
  /\ \A m \in HeldRevisions : m.newestVenue \in 0 .. clock /\ m.newestAlias \in 0 .. clock

LEMMA MasterSums ==
  ASSUME Typed, Dated
  PROVE  /\ clock \in Nat /\ Sums(master, venues, alias, since, clock)
         /\ master.newestVenue \in 0 .. clock /\ master.newestAlias \in 0 .. clock
<1>1. clock \in Nat
  BY NormalizationAssumption DEF Typed
<1>2. Sums(Revision(venues, alias, since), venues, alias, since, clock)
  BY <1>1, RevisionIs DEF Typed, Dated
<1>3. Sums(master, venues, alias, since, clock)
  BY <1>2 DEF Dated
<1> QED
  BY <1>1, <1>3 DEF Sums

LEMMA NextSums ==
  ASSUME Typed', MasterMoves
  PROVE  Sums(master', venues', alias', since', MaxMaster)
<1>1. Sums(Revision(venues', alias', since'), venues', alias', since', MaxMaster)
  BY RevisionIs, NormalizationAssumption DEF Typed
<1> QED
  BY <1>1 DEF MasterMoves

LEMMA AddedIsNew ==
  ASSUME Typed, Typed', Dated, MasterMoves, NEW x \in Venue \cup Text, Dates(x),
         x \in venues' \/ x \in Named(alias')
  PROVE  master' # master /\ master' \notin HeldRevisions
<1>1. clock' = clock + 1 /\ since'[x] = clock'
  BY DatesIs
<1>3. /\ master'.newestVenue \in Nat /\ \A v \in venues' : since'[v] <= master'.newestVenue
      /\ master'.newestAlias \in Nat
      /\ \A t \in Named(alias') : since'[t] <= master'.newestAlias
  BY NextSums DEF Sums
<1>4. clock \in Nat
  BY NormalizationAssumption DEF Typed
<1>5. ~(master'.newestVenue \in 0 .. clock /\ master'.newestAlias \in 0 .. clock)
  BY <1>1, <1>3, <1>4
<1> QED
  BY <1>5, MasterSums DEF Dated

LEMMA AliasGone ==
  ASSUME Typed, Typed', Dated, MasterMoves, NEW t \in Text, alias[t] # None,
         alias' = [alias EXCEPT ![t] = None]
  PROVE  master' # master
<1>1. Named(alias') = Named(alias) \ {t} /\ t \in Named(alias)
  BY DEF Named, Typed
<1>2. IsFiniteSet(Named(alias))
  BY NormalizationAssumption, FS_Subset DEF Named
<1>3. Cardinality(Named(alias')) = Cardinality(Named(alias)) - 1
  BY <1>1, <1>2, FS_RemoveElement
<1>4. master.aliases = Cardinality(Named(alias)) /\ master.aliases \in Nat
  BY MasterSums DEF Sums
<1>5. master'.aliases = Cardinality(Named(alias'))
  BY NextSums DEF Sums
<1> QED
  BY <1>3, <1>4, <1>5

LEMMA VenueGone ==
  ASSUME Typed, Typed', Dated, MasterMoves, NEW v \in venues, venues' = venues \ {v}
  PROVE  master' # master
<1>1. IsFiniteSet(venues)
  BY NormalizationAssumption, FS_Subset DEF Typed
<1>2. Cardinality(venues') = Cardinality(venues) - 1
  BY <1>1, FS_RemoveElement
<1>3. master.venues = Cardinality(venues) /\ master.venues \in Nat
  BY MasterSums DEF Sums
<1>4. master'.venues = Cardinality(venues')
  BY NextSums DEF Sums
<1> QED
  BY <1>2, <1>3, <1>4

(* An edit adds a row or deletes some, or leaves the rows alone.           *)
LEMMA EditIs ==
  ASSUME Typed, Typed', Places
  PROVE  \/ UNCHANGED rows
         \/ /\ MasterMoves
            /\ \E x \in Venue \cup Text : Dates(x) /\ (x \in venues' \/ x \in Named(alias'))
         \/ /\ MasterMoves /\ NobodyRemembers(master')
            /\ \E gone : Forgets(gone)
<1>1. ASSUME NEW v \in Venue, AddVenue(v)
      PROVE  MasterMoves /\ Dates(v) /\ v \in venues'
  BY <1>1 DEF AddVenue
<1>2. ASSUME NEW v \in Venue, DeleteVenue(v)
      PROVE  /\ MasterMoves /\ NobodyRemembers(master')
             /\ \E gone : Forgets(gone)
  BY <1>2 DEF DeleteVenue
<1>3. ASSUME NEW t \in Text, Dismiss(t)
      PROVE  UNCHANGED rows
  BY <1>3 DEF Dismiss
<1>4. ASSUME NEW t \in Text, Revert(t)
      PROVE  \/ UNCHANGED rows
             \/ /\ MasterMoves /\ NobodyRemembers(master')
                /\ \E gone : Forgets(gone)
  BY <1>4 DEF Revert, rows
<1>5. ASSUME NEW t \in Text, RemoveAlias(t)
      PROVE  /\ MasterMoves /\ NobodyRemembers(master')
             /\ \E gone : Forgets(gone)
  BY <1>5 DEF RemoveAlias
<1>6. ASSUME NEW t \in Text, NEW v \in Venue, AddAlias(t, v)
      PROVE  MasterMoves /\ Dates(t) /\ t \in Named(alias')
  <2>1. alias'[t] = v /\ v # None
    BY <1>6, Apart DEF AddAlias, Typed
  <2> QED
    BY <1>6, <2>1 DEF AddAlias, Named
<1>7. ASSUME NEW t \in Text, NEW v \in Venue, NEW asAlias \in BOOLEAN, Link(t, v, asAlias)
      PROVE  UNCHANGED rows \/ (MasterMoves /\ Dates(t) /\ t \in Named(alias'))
  <2>1. CASE asAlias /\ alias[t] = None
    <3>1. alias' = [alias EXCEPT ![t] = v] /\ Dates(t) /\ MasterMoves
      BY <1>7, <2>1 DEF Link
    <3>2. alias'[t] = v /\ v # None
      BY <3>1, Apart DEF Typed
    <3> QED
      BY <3>1, <3>2 DEF Named
  <2>2. CASE ~(asAlias /\ alias[t] = None)
    BY <1>7, <2>2 DEF Link, rows
  <2> QED
    BY <2>1, <2>2
<1> QED
  BY <1>1, <1>2, <1>3, <1>4, <1>5, <1>6, <1>7 DEF Places

LEMMA PlacesReturnNothing ==
  ASSUME Typed, Typed', Dated, Places, "return" \notin Beside
  PROVE  NoReturn
BY EditIs, AddedIsNew DEF NoReturn, NobodyRemembers, rows

-----------------------------------------------------------------------------
(* Which venue a string names.                                             *)

UndecidedHasNoVenue ==
  \A t \in Text : entry[t].state # "LINKED" => entry[t].venue = None

LEMMA UndecidedStep ==
  ASSUME Shape, UndecidedHasNoVenue, [Next]_vars
  PROVE  UndecidedHasNoVenue'
<1>0. Typed /\ Shape'
  BY ShapeStep DEF Shape
<1>1. CASE entry' = entry
  BY <1>1 DEF UndecidedHasNoVenue
<1>2. ASSUME NEW v \in Venue, DeleteVenue(v)
      PROVE  UndecidedHasNoVenue'
  BY <1>0, <1>2, UndecidedTyped DEF DeleteVenue, UndecidedHasNoVenue
<1>3. ASSUME NEW t \in Text, Dismiss(t) \/ Revert(t)
      PROVE  UndecidedHasNoVenue'
  BY <1>0, <1>3, UndecidedTyped DEF Dismiss, Revert, UndecidedHasNoVenue, Typed
<1>4. ASSUME NEW t \in Text, NEW v \in Venue, NEW asAlias \in BOOLEAN, Link(t, v, asAlias)
      PROVE  UndecidedHasNoVenue'
  BY <1>0, <1>4 DEF Link, UndecidedHasNoVenue, Typed
<1>5. ASSUME NEW p \in Normalizer, NEW c \in Candidate, Resolve(p, c)
      PROVE  UndecidedHasNoVenue'
  BY <1>0, <1>5, UndecidedTyped DEF Resolve, UndecidedHasNoVenue, Typed
<1>6. CASE Next
  <2>1. \/ entry' = entry
        \/ \E v \in Venue : DeleteVenue(v)
        \/ \E t \in Text : Dismiss(t) \/ Revert(t)
        \/ \E t \in Text, v \in Venue, asAlias \in BOOLEAN : Link(t, v, asAlias)
        \/ \E p \in Normalizer, c \in Candidate : Resolve(p, c)
    BY <1>6 DEF Next, Posts, Decisions, PassStep, Extract, ReExtract, Retire, Review, Unfold,
         Fold, AddVenue, AddAlias, RemoveAlias, Start, ReadRows, Write, StampBuilt, NoDate, Fail,
         StartPrune, PruneRelease, PruneDelete, PruneStamps, Crash, places
  <2> QED
    BY <2>1, <1>1, <1>2, <1>3, <1>4, <1>5
<1>7. CASE UNCHANGED vars
  BY <1>1, <1>7 DEF vars, places
<1> QED
  BY <1>6, <1>7

(* What a row shows of its candidate stays, its venue as the string names  *)
(* it after the step if it was so before.                                  *)
Kept(c) ==
  event'[c] # None =>
    /\ event[c] # None
    /\ event'[c].rev = event[c].rev /\ event'[c].count = event[c].count
    /\ event'[c].rejected = event[c].rejected /\ event'[c].text = event[c].text
    /\ \A u \in Text \cup {None} :
         event[c].text = u /\ event[c].venue = Resolved(u) => event'[c].venue = Resolved(u)'

LEMMA MovedFields ==
  ASSUME event \in Events, NEW moved \in SUBSET Candidate, NEW v \in Venue \cup {None},
         \A c \in moved : event[c] # None,
         event' \in Moved(moved, [c \in Candidate |->
                  IF c \in moved THEN [event[c] EXCEPT !.venue = v] ELSE event[c]])
  PROVE  \A c \in Candidate : event'[c] # None =>
           /\ event[c] # None
           /\ event'[c].rev = event[c].rev /\ event'[c].count = event[c].count
           /\ event'[c].rejected = event[c].rejected /\ event'[c].text = event[c].text
           /\ event'[c].venue = IF c \in moved THEN v ELSE event[c].venue
<1> DEFINE es == [c \in Candidate |->
                  IF c \in moved THEN [event[c] EXCEPT !.venue = v] ELSE event[c]]
<1>1. \A c \in moved : event[c] \in Event
  BY DEF Events
<1>2. es \in Events
  BY <1>1, VenueIs DEF Events
<1>3. \A c \in Candidate : es[c] # None =>
           /\ event[c] # None
           /\ es[c].rev = event[c].rev /\ es[c].count = event[c].count
           /\ es[c].rejected = event[c].rejected /\ es[c].text = event[c].text
           /\ es[c].venue = IF c \in moved THEN v ELSE event[c].venue
  BY <1>1, VenueIs DEF Events
<1> HIDE DEF es
<1>4. \A c \in Candidate : event'[c] = es[c] \/ (es[c] # None /\ event'[c] = Unfolded(es[c]))
  BY <1>2, MovedIs DEF es
<1>5. \A c \in Candidate : es[c] # None => es[c] \in Event
  BY <1>2 DEF Events
<1> QED
  BY <1>3, <1>4, <1>5, UnfoldedIs

LEMMA EventTyped ==
  ASSUME Typed, NEW c \in Candidate, event[c] # None
  PROVE  /\ event[c] \in Event /\ event[c].text \in Text \cup {None}
         /\ event[c].venue \in Venue \cup {None}
BY DEF Typed, Event

LEMMA LinkKept ==
  ASSUME Shape, UndecidedHasNoVenue, NEW t \in Text, NEW v \in Venue, NEW asAlias \in BOOLEAN,
         Link(t, v, asAlias), master' = master, Dated, Typed'
  PROVE  \A c \in Candidate : Kept(c)
<1>0. Typed
  BY DEF Shape
<1>a. ~(asAlias /\ alias[t] = None)
  <2> SUFFICES ASSUME asAlias, alias[t] = None PROVE FALSE
    OBVIOUS
  <2>1. alias' = [alias EXCEPT ![t] = v] /\ Dates(t) /\ MasterMoves
    BY DEF Link
  <2>2. t \in Named(alias')
    BY <1>0, <2>1, Apart DEF Named, Typed
  <2> QED
    BY <1>0, <2>1, <2>2, AddedIsNew
<1>1. /\ entry[t].state = "OPEN" /\ event' = LinkedEvents(t, v) /\ alias' = alias
      /\ entry' = [entry EXCEPT ![t] = [state |-> "LINKED", venue |-> v]]
  BY <1>a DEF Link
<1>2. entry[t].venue = None /\ entry'[t].venue = v /\ \A u \in Text : u # t => entry'[u] = entry[u]
  BY <1>0, <1>1 DEF UndecidedHasNoVenue, Typed
<1> SUFFICES ASSUME NEW c \in Candidate, event'[c] # None
             PROVE  Kept(c)
  BY DEF Kept
<1>3. event[c] # None
  BY <1>1 DEF LinkedEvents, Waiting
<1>4. CASE Waiting(c, t)
  <2>1. event'[c] = [event[c] EXCEPT !.venue = v]
    BY <1>1, <1>4 DEF LinkedEvents
  <2>2. alias[t] = None => Resolved(t)' = v
    BY <1>1, <1>2, Apart DEF Resolved
  <2>3. alias[t] # None => Resolved(t) # None
    BY Apart DEF Resolved
  <2> QED
    BY <1>0, <1>3, <1>4, <2>1, <2>2, <2>3, EventTyped, VenueIs DEF Kept, Waiting
<1>5. CASE ~Waiting(c, t)
  <2>1. event'[c] = event[c]
    BY <1>1, <1>5 DEF LinkedEvents
  <2>2. event[c].text = t /\ event[c].venue = Resolved(t) => Resolved(t)' = Resolved(t)
    BY <1>1, <1>2, <1>3, <1>5, Apart DEF Waiting, Resolved
  <2>3. \A u \in Text \cup {None} : u # t => Resolved(u)' = Resolved(u)
    BY <1>1, <1>2 DEF Resolved
  <2> QED
    BY <1>3, <2>1, <2>2, <2>3 DEF Kept
<1> QED
  BY <1>4, <1>5

LEMMA RevertKept ==
  ASSUME Shape, UndecidedHasNoVenue, NEW t \in Text, Revert(t), master' = master,
         Dated, Typed'
  PROVE  \A c \in Candidate : Kept(c)
<1>0. Typed
  BY DEF Shape
<1>1. /\ entry'[t].venue = None /\ \A u \in Text : u # t => entry'[u] = entry[u]
  BY <1>0, UndecidedTyped DEF Revert, Typed
<1>2. CASE entry[t].state = "DISMISSED"
  <2>1. entry[t].venue = None /\ alias' = alias /\ event' = event
    BY <1>2 DEF Revert, UndecidedHasNoVenue, rows
  <2>2. \A c \in Candidate : event[c] # None => event[c].text \in Text \cup {None}
    BY <1>0, EventTyped
  <2>3. \A u \in Text \cup {None} : Resolved(u)' = Resolved(u)
    BY <1>1, <2>1 DEF Resolved
  <2> QED
    BY <2>1, <2>2, <2>3 DEF Kept
<1>3. CASE entry[t].state # "DISMISSED"
  <2> DEFINE v == entry[t].venue
             moved == {c \in Candidate : event[c] # None /\ event[c].text = t
                                           /\ event[c].venue = v}
  <2>a. ~(alias[t] = v /\ alias[t] # None)
    BY <1>0, <1>3, AliasGone DEF Revert
  <2>b. alias' = alias
    <3>1. CASE alias[t] = v
      BY <1>0, <1>3, <2>a, <3>1 DEF Revert, Typed
    <3>2. CASE alias[t] # v
      BY <1>3, <3>2 DEF Revert
    <3> QED
      BY <3>1, <3>2
  <2>1. /\ alias' = alias /\ ~(alias[t] = v /\ alias[t] # None)
        /\ event' \in Moved(moved, [c \in Candidate |->
                  IF c \in moved THEN [event[c] EXCEPT !.venue = alias'[t]] ELSE event[c]])
    BY <1>0, <1>3, <2>a, <2>b DEF Revert
  <2>2. alias'[t] \in Venue \cup {None}
    BY <1>0, <2>1 DEF Typed
  <2>3. \A c \in moved : event[c] # None
    OBVIOUS
  <2>4. moved \in SUBSET Candidate
    OBVIOUS
  <2> DEFINE u == alias'[t]
  <2>5. \A c \in Candidate : event'[c] # None =>
           /\ event[c] # None
           /\ event'[c].rev = event[c].rev /\ event'[c].count = event[c].count
           /\ event'[c].rejected = event[c].rejected /\ event'[c].text = event[c].text
           /\ event'[c].venue = IF c \in moved THEN u ELSE event[c].venue
    <3> HIDE DEF moved, u
    <3> QED
      <4>1. event \in Events
        BY <1>0 DEF Typed, Events
      <4> QED
        BY <2>1, <2>2, <2>3, <2>4, <4>1, MovedFields DEF u
  <2> SUFFICES ASSUME NEW c \in Candidate, event'[c] # None, NEW x \in Text \cup {None},
                      event[c].text = x, event[c].venue = Resolved(x)
               PROVE  event'[c].venue = Resolved(x)'
    BY <2>5 DEF Kept
  <2>6. event[c] # None
    BY <2>5
  <2>7. CASE x = t
    <3>1. alias[t] = None => event[c].venue = v /\ Resolved(t)' = None
      BY <2>1, <2>7, <1>1, Apart DEF Resolved
    <3>2. alias[t] # None => event[c].venue = alias[t] /\ Resolved(t)' = alias[t]
      BY <2>1, <2>7, Apart DEF Resolved
    <3> QED
      BY <2>1, <2>5, <2>6, <2>7, <3>1, <3>2
  <2>8. CASE x # t
    <3>1. Resolved(x)' = Resolved(x)
      BY <1>1, <2>1, <2>6, <2>8 DEF Resolved
    <3> QED
      BY <2>5, <2>8, <3>1
  <2> QED
    BY <2>7, <2>8
<1> QED
  BY <1>2, <1>3


(* The strings name the venues they named.                                 *)
NamesStay == \A u \in Text \cup {None} : Resolved(u)' = Resolved(u)

LEMMA NamesStayIf ==
  ASSUME alias' = alias, \A u \in Text : entry'[u].venue = entry[u].venue
  PROVE  NamesStay
BY DEF NamesStay, Resolved

LEMMA DismissNames ==
  ASSUME Typed, UndecidedHasNoVenue, NEW t \in Text, Dismiss(t)
  PROVE  NamesStay
<1>1. alias' = alias /\ \A u \in Text : entry'[u].venue = entry[u].venue
  BY UndecidedTyped DEF Dismiss, UndecidedHasNoVenue, Typed, rows
<1> QED
  BY <1>1, NamesStayIf

LEMMA ResolveNames ==
  ASSUME Typed, UndecidedHasNoVenue, NEW p \in Normalizer, NEW c \in Candidate, Resolve(p, c)
  PROVE  NamesStay
<1>1. alias' = alias /\ \A u \in Text : entry'[u].venue = entry[u].venue
  BY UndecidedTyped DEF Resolve, UndecidedHasNoVenue, Typed, rows
<1> QED
  BY <1>1, NamesStayIf

LEMMA KeptIf ==
  ASSUME NamesStay,
         \A c \in Candidate : event'[c] # None =>
           /\ event[c] # None
           /\ event'[c].rev = event[c].rev /\ event'[c].count = event[c].count
           /\ event'[c].rejected = event[c].rejected /\ event'[c].text = event[c].text
           /\ event'[c].venue = event[c].venue
  PROVE  \A c \in Candidate : Kept(c)
BY DEF Kept, NamesStay

(* The decisions over places that leave the master as it is.               *)
LEMMA MasterStays ==
  ASSUME Typed, Typed', Dated, Places, master' = master
  PROVE  \/ \E t \in Text : Dismiss(t) \/ Revert(t)
         \/ \E t \in Text, v \in Venue, asAlias \in BOOLEAN : Link(t, v, asAlias)
<1>1. ASSUME NEW v \in Venue, AddVenue(v)
      PROVE  FALSE
  BY <1>1, AddedIsNew DEF AddVenue
<1>2. ASSUME NEW v \in Venue, DeleteVenue(v)
      PROVE  FALSE
  BY <1>2, VenueGone DEF DeleteVenue
<1>3. ASSUME NEW t \in Text, RemoveAlias(t)
      PROVE  FALSE
  BY <1>3, AliasGone DEF RemoveAlias
<1>4. ASSUME NEW t \in Text, NEW v \in Venue, AddAlias(t, v)
      PROVE  FALSE
  <2>1. alias' = [alias EXCEPT ![t] = v] /\ Dates(t) /\ MasterMoves
    BY <1>4 DEF AddAlias
  <2>2. t \in Named(alias')
    BY <2>1, Apart DEF Named, Typed
  <2> QED
    BY <2>1, <2>2, AddedIsNew
<1> QED
  BY <1>1, <1>2, <1>3, <1>4 DEF Places

LEMMA PlacesKept ==
  ASSUME Shape, UndecidedHasNoVenue, Places, master' = master, Dated, Typed'
  PROVE  \A c \in Candidate : Kept(c)
<1>0. Typed
  BY DEF Shape
<1>1. \/ \E t \in Text : Dismiss(t) \/ Revert(t)
      \/ \E t \in Text, v \in Venue, asAlias \in BOOLEAN : Link(t, v, asAlias)
  BY <1>0, MasterStays
<1>2. ASSUME NEW t \in Text, Dismiss(t)
      PROVE  \A c \in Candidate : Kept(c)
  <2>1. NamesStay /\ event' = event
    BY <1>0, <1>2, DismissNames DEF Dismiss
  <2> QED
    BY <2>1, KeptIf
<1> QED
  BY <1>1, <1>2, RevertKept, LinkKept

LEMMA FoldsKept ==
  ASSUME Typed, NEW c \in Candidate, Unfold(c) \/ \E d \in Candidate : Fold(c, d)
  PROVE  /\ \A b \in Candidate : Kept(b)
         /\ UNCHANGED <<cand, review, places, stamp, pass>>
<1>1. NamesStay /\ UNCHANGED <<cand, review, places, stamp, pass>>
  BY NamesStayIf DEF Unfold, Fold, places
<1>2. \A b \in Candidate : event'[b] # None =>
           /\ event[b] # None
           /\ event'[b].rev = event[b].rev /\ event'[b].count = event[b].count
           /\ event'[b].rejected = event[b].rejected /\ event'[b].text = event[b].text
           /\ event'[b].venue = event[b].venue
  <2>1. CASE Unfold(c)
    BY <2>1, UnfoldedIs DEF Unfold, Typed
  <2>2. ASSUME NEW d \in Candidate, Fold(c, d)
        PROVE  /\ event[c] # None
               /\ event'[c].rev = event[c].rev /\ event'[c].count = event[c].count
               /\ event'[c].rejected = event[c].rejected /\ event'[c].text = event[c].text
               /\ event'[c].venue = event[c].venue
               /\ \A b \in Candidate : b # c => event'[b] = event[b]
    BY ZenonT(60), <2>2, FoldIs, Apart
  <2> QED
    BY <2>1, <2>2
<1> QED
  BY <1>1, <1>2, KeptIf

LEMMA PruneKept ==
  ASSUME Shape, NEW p \in Normalizer, PruneRelease(p) \/ PruneDelete(p)
  PROVE  /\ NamesStay /\ \A c \in Candidate : Kept(c)
         /\ UNCHANGED <<cand, review, places, stamp>>
<1>0. Typed
  BY DEF Shape
<1>1. NamesStay /\ UNCHANGED <<cand, review, places, stamp>>
  BY NamesStayIf DEF PruneRelease, PruneDelete, places
<1>2. \A c \in Candidate : event[c] # None => event[c] \in Event
  BY <1>0 DEF Typed
<1>3. CASE PruneRelease(p)
  <2>1. \A c \in Candidate : event'[c] = event[c]
                         \/ (event[c] # None /\ event'[c] = Unfolded(event[c]))
    BY <1>3, ReleaseShape
  <2> QED
    BY <1>1, <1>2, <2>1, UnfoldedIs, KeptIf
<1>4. CASE PruneDelete(p)
  <2>1. \A c \in Candidate :
          \/ event'[c] = event[c]
          \/ event'[c] = None
          \/ event[c] # None /\ event'[c] = [event[c] EXCEPT !.canonical = None]
    <3> HIDE DEF Typed
    <3> QED
      BY <1>0, <1>4, DeleteIs, Zenon
  <2>2. \A e \in Event : LET f == [e EXCEPT !.canonical = None]
                        IN /\ f.rev = e.rev /\ f.count = e.count /\ f.rejected = e.rejected
                           /\ f.text = e.text /\ f.venue = e.venue
    BY DEF Event
  <2> QED
    BY <1>1, <1>2, <2>1, <2>2, KeptIf
<1> QED
  BY <1>1, <1>3, <1>4

LEMMA QuietKept ==
  ASSUME Shape, UndecidedHasNoVenue, NEW p \in Normalizer, Quiet(p)
  PROVE  NamesStay /\ \A c \in Candidate : Kept(c)
<1>0. Typed
  BY DEF Shape
<1>1. event' = event
  BY QuietShape
<1>2. CASE entry' = entry
  BY <1>1, <1>2, QuietShape, NamesStayIf, KeptIf DEF rows
<1>3. ASSUME NEW c \in Candidate, Resolve(p, c)
      PROVE  NamesStay /\ \A d \in Candidate : Kept(d)
  BY <1>0, <1>1, <1>3, ResolveNames, KeptIf
<1>4. entry' = entry \/ \E c \in Candidate : Resolve(p, c)
  BY DEF Quiet, Start, ReadRows, StampBuilt, NoDate, Fail, StartPrune, PruneStamps, Crash, places
<1> QED
  BY <1>2, <1>3, <1>4

(* Where nobody decides of a venue while a row is being built, what was    *)
(* found for the row is what its string names until the master changes.    *)
LEMMA NamesStayInFlight ==
  ASSUME Typed, UndecidedHasNoVenue, "venue" \notin Beside, Places, master' = master,
         Dated, Typed', NEW p \in Normalizer, pass[p].cur # None
  PROVE  NamesStay
<1>1. ~NobodyResolves
  BY DEF NobodyResolves
<1>2. /\ \A t \in Text : ~Revert(t)
      /\ \A t \in Text, v \in Venue, asAlias \in BOOLEAN : ~Link(t, v, asAlias)
  BY <1>1 DEF Revert, Link
<1> QED
  BY <1>2, MasterStays, DismissNames


-----------------------------------------------------------------------------
(* One process at a time: what a pass holds is as old as it says, and no   *)
(* stamp is younger than what the pass holds.                              *)

OneAtATime == \A p, q \in Normalizer : p = q

Within(d, e) == d.rev <= e.rev /\ d.count <= e.count

StampsAreOld ==
  /\ stamp \in [Candidate -> Stamp \cup {None}]
  /\ \A c \in Candidate : stamp[c] # None =>
       /\ cand[c] # None
       /\ c \in Present => Within(stamp[c].digest, DigestOf(c))
       /\ stamp[c].outcome # "FAILED" => stamp[c].attempts = 0

HeldIsOld(p) ==
  \A c \in InHand(pass[p]) :
    LET d == pass[p].digest[c]
    IN /\ cand[c] # None
       /\ c \in Present => Within(d, DigestOf(c))
       /\ stamp[c] # None =>
            /\ Within(stamp[c].digest, d)
            /\ stamp[c].digest = d => stamp[c].attempts < MaxAttempts

StampInv ==
  Shape /\ UndecidedHasNoVenue /\ StampsAreOld /\ \A p \in Normalizer : HeldIsOld(p)

LEMMA WithinGrows ==
  ASSUME Shape, Shape', InputsGrow, NEW c \in Present', cand[c] # None, NEW d \in Digest,
         c \in Present => Within(d, DigestOf(c))
  PROVE  Within(d, DigestOf(c)')
<1>1. c \in Candidate /\ c \in Present
  BY DEF Present, InputsGrow
<1>2. /\ cand[c].rev \in Nat /\ cand'[c].rev \in Nat /\ cand[c].rev <= cand'[c].rev
  <2>1. cand[c] \in Reading
    BY <1>1, DigestTyped DEF Shape
  <2>2. cand'[c] \in Reading
    BY <1>1 DEF Shape, Typed, Present
  <2> QED
    BY <1>1, <2>1, <2>2 DEF InputsGrow, Reading
<1>3. /\ review[c].count \in Nat /\ review'[c].count \in Nat
      /\ review[c].count <= review'[c].count
  <2>1. /\ review[c] \in ReviewState /\ review'[c] \in ReviewState
        /\ review'[c] = review[c] \/ review[c].count < review'[c].count
    BY <1>1 DEF Shape, Typed, InputsGrow
  <2> QED
    BY <2>1 DEF ReviewState
<1>4. d.rev \in Nat /\ d.count \in Nat
  BY DEF Digest
<1> QED
  BY <1>1, <1>2, <1>3, <1>4 DEF Within, DigestOf

(* A step that is not a pass's.                                            *)
LEMMA OutsideStamps ==
  ASSUME StampInv, Shape', InputsGrow, UNCHANGED <<stamp, pass>>
  PROVE  StampsAreOld' /\ \A p \in Normalizer : HeldIsOld(p)'
<1>0. Shape /\ StampsAreOld
  BY DEF StampInv
<1>1. ASSUME NEW c \in Candidate, stamp[c] # None
      PROVE  cand'[c] # None /\ (c \in Present' => Within(stamp[c].digest, DigestOf(c)'))
  <2>1. stamp[c].digest \in Digest
    BY <1>0, <1>1 DEF StampsAreOld, Stamp
  <2> QED
    BY <1>0, <1>1, <2>1, WithinGrows DEF StampsAreOld, InputsGrow
<1>2. StampsAreOld'
  BY <1>0, <1>1 DEF StampsAreOld
<1>3. ASSUME NEW p \in Normalizer, NEW c \in InHand(pass[p])
      PROVE  cand'[c] # None /\ (c \in Present' => Within(pass[p].digest[c], DigestOf(c)'))
  <2>1. c \in Candidate /\ pass[p].digest[c] \in Digest
    BY <1>0, PassIs DEF Orderly, InHand
  <2>2. cand[c] # None /\ (c \in Present => Within(pass[p].digest[c], DigestOf(c)))
    BY <1>3 DEF StampInv, HeldIsOld
  <2> QED
    BY <1>0, <2>1, <2>2, WithinGrows DEF InputsGrow
<1>4. \A p \in Normalizer : HeldIsOld(p)'
  BY <1>3 DEF StampInv, HeldIsOld, InHand
<1> QED
  BY <1>2, <1>4

(* A step of a pass that takes up no candidate and stamps none.            *)
LEMMA HandsShrink ==
  ASSUME StampInv, UNCHANGED <<cand, review, master>>, NEW p \in Normalizer,
         InHand(pass'[p]) \subseteq InHand(pass[p]),
         \A c \in InHand(pass'[p]) :
           pass'[p].digest[c] = pass[p].digest[c] /\ stamp'[c] \in {stamp[c], None}
  PROVE  HeldIsOld(p)'
<1>1. \A c \in InHand(pass'[p]) :
        /\ cand'[c] # None
        /\ c \in Present' => Within(pass'[p].digest[c], DigestOf(c)')
        /\ stamp'[c] # None =>
            /\ Within(stamp'[c].digest, pass'[p].digest[c])
            /\ stamp'[c].digest = pass'[p].digest[c] => stamp'[c].attempts < MaxAttempts
  BY DEF StampInv, HeldIsOld, Present, DigestOf
<1> QED
  BY <1>1 DEF HeldIsOld, InHand

LEMMA StampsStay ==
  ASSUME StampsAreOld, UNCHANGED <<cand, review, master>>,
         stamp' \in [Candidate -> Stamp \cup {None}],
         \A c \in Candidate : stamp'[c] = stamp[c] \/ stamp'[c] = None
  PROVE  StampsAreOld'
BY DEF StampsAreOld, Present, DigestOf

LEMMA StartStamps ==
  ASSUME StampInv, NEW p \in Normalizer, Start(p)
  PROVE  StampsAreOld' /\ HeldIsOld(p)'
<1>0. Shape /\ StampsAreOld /\ UNCHANGED <<cand, review, master, stamp>>
  BY DEF StampInv, Start, places
<1>1. PICK selected \in SUBSET StaleOnes :
        /\ pass'[p].todo = selected /\ pass'[p].cur = None
        /\ pass'[p].digest = [c \in Candidate |-> IF c \in selected THEN DigestOf(c) ELSE None]
  BY <1>0, StartIs
<1>2. InHand(pass'[p]) = selected
  BY <1>1 DEF InHand
<1>3. ASSUME NEW c \in selected
      PROVE  /\ c \in Candidate /\ pass'[p].digest[c] = DigestOf(c) /\ cand[c] # None
             /\ Within(DigestOf(c), DigestOf(c))
             /\ stamp[c] # None =>
                  /\ Within(stamp[c].digest, DigestOf(c))
                  /\ stamp[c].digest = DigestOf(c) => stamp[c].attempts < MaxAttempts
  <2>1. c \in Present /\ Stale(c) /\ c \in Candidate
    BY DEF StaleOnes, Present
  <2>2. cand[c] # None /\ DigestOf(c) \in Digest
    BY <1>0, <2>1, DigestTyped DEF Present, Shape
  <2>3. Within(DigestOf(c), DigestOf(c))
    BY <2>2 DEF Within, Digest
  <2>4. stamp[c] # None => stamp[c] \in Stamp /\ Within(stamp[c].digest, DigestOf(c))
    BY <1>0, <2>1 DEF StampsAreOld
  <2>5. stamp[c] # None /\ stamp[c].digest = DigestOf(c) => stamp[c].attempts < MaxAttempts
    BY <1>0, <2>1, NormalizationAssumption DEF StampsAreOld, Stale
  <2> QED
    BY <1>1, <2>1, <2>2, <2>3, <2>4, <2>5
<1>4. HeldIsOld(p)'
  BY <1>0, <1>2, <1>3 DEF HeldIsOld, InHand, Present, DigestOf
<1> QED
  BY <1>0, <1>4, StampsStay DEF StampsAreOld

(* ... and one that stamps what it was working on.                         *)
LEMMA StampedIs ==
  ASSUME StampInv, NEW p \in Normalizer, NEW c \in InHand(pass[p]), NEW outcome \in Outcome,
         stamp' = Stamped(c, pass[p].digest[c], outcome), UNCHANGED <<cand, review, master>>
  PROVE  /\ StampsAreOld' /\ c \in Candidate
         /\ stamp'[c].digest = pass[p].digest[c] /\ stamp'[c].outcome = outcome
         /\ stamp'[c] # None
         /\ \A d \in Candidate \ {c} : stamp'[d] = stamp[d]
<1> DEFINE d == pass[p].digest[c]
           attempts == IF outcome = "FAILED" THEN Attempts(c, d) ELSE 0
           st == [digest |-> d, outcome |-> outcome, attempts |-> attempts]
<1>0. Shape /\ StampsAreOld /\ HeldIsOld(p)
  BY DEF StampInv
<1>1. c \in Candidate /\ d \in Digest
  BY <1>0, PassIs DEF Orderly, InHand
<1>2. stamp' = [stamp EXCEPT ![c] = st]
  BY DEF Stamped
<1>3. attempts \in 0 .. MaxAttempts
  <2>1. stamp[c] # None /\ stamp[c].digest = d => stamp[c].attempts < MaxAttempts
    BY <1>0 DEF HeldIsOld
  <2>2. stamp[c] # None => stamp[c].attempts \in 0 .. MaxAttempts
    BY <1>0, <1>1 DEF StampsAreOld, Stamp
  <2> QED
    BY <2>1, <2>2, NormalizationAssumption DEF Attempts
<1>4. outcome # "FAILED" => attempts = 0
  OBVIOUS
<1> HIDE DEF attempts
<1>5. st \in Stamp
  BY <1>1, <1>3 DEF Stamp
<1>6. st # None
  BY <1>5, Apart
<1>7. /\ stamp' \in [Candidate -> Stamp \cup {None}] /\ stamp'[c] = st
      /\ \A b \in Candidate \ {c} : stamp'[b] = stamp[b]
  BY <1>0, <1>1, <1>2, <1>5 DEF StampsAreOld
<1>8. cand[c] # None /\ (c \in Present => Within(d, DigestOf(c)))
  BY <1>0 DEF HeldIsOld
<1> HIDE DEF d
<1>9. st.digest = d /\ st.outcome = outcome /\ st.attempts = attempts
  OBVIOUS
<1> HIDE DEF st
<1>10. StampsAreOld'
  BY <1>0, <1>4, <1>6, <1>7, <1>8, <1>9 DEF StampsAreOld, Present, DigestOf
<1> QED
  BY <1>1, <1>6, <1>7, <1>9, <1>10 DEF d

LEMMA DoneStamps ==
  ASSUME StampInv, NEW p \in Normalizer, NEW c \in InHand(pass[p]), NEW outcome \in Outcome,
         stamp' = Stamped(c, pass[p].digest[c], outcome), pass' = Done(p, c),
         pass[p].phase = "build", UNCHANGED <<cand, review, master>>
  PROVE  StampsAreOld' /\ HeldIsOld(p)'
<1>1. Shape
  BY DEF StampInv
<1>2. StampsAreOld' /\ c \in Candidate /\ \A d \in Candidate \ {c} : stamp'[d] = stamp[d]
  BY StampedIs
<1>3. /\ InHand(pass'[p]) = pass[p].todo \ {c}
      /\ \A d \in Candidate \ {c} : pass'[p].digest[d] = pass[p].digest[d]
  BY <1>1, <1>2, DoneStep
<1>4. pass[p].todo \subseteq Candidate
  BY <1>1, PassIs
<1>5. HeldIsOld(p)'
  BY <1>2, <1>3, <1>4, HandsShrink DEF InHand
<1> QED
  BY <1>2, <1>5


LEMMA QuietStamps ==
  ASSUME StampInv, NEW p \in Normalizer, Quiet(p)
  PROVE  StampsAreOld' /\ HeldIsOld(p)'
<1>0. Shape /\ StampsAreOld /\ UNCHANGED <<cand, review, master>>
  BY QuietShape DEF StampInv, rows
<1>1. ASSUME stamp' = stamp, InHand(pass'[p]) \subseteq InHand(pass[p]),
             \A c \in InHand(pass'[p]) : pass'[p].digest[c] = pass[p].digest[c]
      PROVE  StampsAreOld' /\ HeldIsOld(p)'
  BY <1>0, <1>1, HandsShrink, StampsStay DEF StampsAreOld
<1>2. CASE ReadRows(p)
  <2>1. /\ pass'[p].todo \subseteq pass[p].todo /\ pass'[p].cur = None
        /\ pass'[p].digest = pass[p].digest
    BY <1>0, <1>2, ReadRowsIs
  <2> QED
    BY <1>1, <1>2, <2>1 DEF InHand, ReadRows
<1>3. ASSUME NEW c \in Candidate, NoDate(p, c)
      PROVE  StampsAreOld' /\ HeldIsOld(p)'
  <2>1. /\ c \in InHand(pass[p]) /\ stamp' = Stamped(c, pass[p].digest[c], "NO_DATE")
        /\ pass' = Done(p, c) /\ pass[p].phase = "build" /\ "NO_DATE" \in Outcome
    BY <1>3 DEF NoDate, InHand, Outcome
  <2> QED
    BY <1>0, <2>1, DoneStamps
<1>4. ASSUME NEW c \in Candidate, Fail(p, c)
      PROVE  StampsAreOld' /\ HeldIsOld(p)'
  <2>1. /\ c \in InHand(pass[p]) /\ stamp' = Stamped(c, pass[p].digest[c], "FAILED")
        /\ pass' = Done(p, c) /\ pass[p].phase = "build" /\ "FAILED" \in Outcome
    BY <1>4, Apart DEF Fail, InHand, Outcome
  <2> QED
    BY <1>0, <2>1, DoneStamps
<1>5. CASE StampBuilt(p)
  <2> DEFINE c == pass[p].cur
  <2>1. pass[p].phase = "build" /\ c # None
    BY <1>0, <1>5, PassIs DEF StampBuilt, Orderly
  <2>2. /\ c \in InHand(pass[p]) /\ stamp' = Stamped(c, pass[p].digest[c], "NORMALIZED")
        /\ pass' = Done(p, c) /\ "NORMALIZED" \in Outcome
    BY <1>5, <2>1 DEF StampBuilt, InHand, Outcome
  <2> HIDE DEF c
  <2> QED
    BY <1>0, <2>1, <2>2, DoneStamps
<1>6. ASSUME NEW c \in Candidate, Resolve(p, c)
      PROVE  StampsAreOld' /\ HeldIsOld(p)'
  BY <1>0, <1>1, <1>6, ResolveIs DEF Resolve
<1>7. CASE StartPrune(p)
  BY <1>0, <1>1, <1>7, StartPruneIs DEF StartPrune
<1>8. CASE PruneStamps(p) \/ Crash(p)
  <2>1. pass' = [pass EXCEPT ![p] = Idle]
    BY <1>8 DEF PruneStamps, Crash
  <2>2. InHand(pass'[p]) = {}
    BY <1>0, <2>1, EndIs
  <2>3. /\ stamp' \in [Candidate -> Stamp \cup {None}]
        /\ \A c \in Candidate : stamp'[c] \in {stamp[c], None}
    BY <1>0, <1>8 DEF PruneStamps, Crash, StampsAreOld
  <2> QED
    BY <1>0, <2>2, <2>3, HandsShrink, StampsStay
<1> QED
  BY StartStamps, <1>2, <1>3, <1>4, <1>5, <1>6, <1>7, <1>8 DEF Quiet

LEMMA StampStep ==
  ASSUME StampInv, [Next]_vars, OneAtATime
  PROVE  StampInv'
<1>0. Shape /\ Typed /\ Shape' /\ UndecidedHasNoVenue /\ UndecidedHasNoVenue' /\ StampsAreOld
  BY ShapeStep, UndecidedStep DEF StampInv, Shape
<1>1. ASSUME NEW c \in Candidate, Extract(c) \/ ReExtract(c) \/ Retire(c) \/ Review(c)
      PROVE  StampsAreOld' /\ \A p \in Normalizer : HeldIsOld(p)'
  BY <1>0, <1>1, PostsShape, PostsGrow, OutsideStamps
<1>2. ASSUME Places
      PROVE  StampsAreOld' /\ \A p \in Normalizer : HeldIsOld(p)'
  BY <1>0, <1>2, PlacesShape, PlacesGrow, OutsideStamps
<1>3. ASSUME UNCHANGED <<cand, review, master, stamp, pass>>
      PROVE  StampsAreOld' /\ \A p \in Normalizer : HeldIsOld(p)'
  BY <1>0, <1>3, InputsStay, OutsideStamps
<1>4. ASSUME NEW c \in Candidate, Unfold(c) \/ \E d \in Candidate : Fold(c, d)
      PROVE  StampsAreOld' /\ \A p \in Normalizer : HeldIsOld(p)'
  BY <1>3, <1>4 DEF Unfold, Fold, places
<1>5. ASSUME NEW p \in Normalizer, Quiet(p)
      PROVE  StampsAreOld' /\ HeldIsOld(p)'
  BY <1>5, QuietStamps
<1>6. ASSUME NEW p \in Normalizer, Write(p)
      PROVE  StampsAreOld' /\ HeldIsOld(p)'
  <2>1. InHand(pass'[p]) = InHand(pass[p]) /\ pass'[p].digest = pass[p].digest
    BY <1>0, <1>6, WriteIs
  <2> QED
    BY <1>0, <1>6, <2>1, HandsShrink, StampsStay DEF Write, places, StampsAreOld
<1>7. ASSUME NEW p \in Normalizer, PruneRelease(p) \/ PruneDelete(p)
      PROVE  StampsAreOld' /\ HeldIsOld(p)'
  <2>1. InHand(pass'[p]) = {}
    BY <1>0, <1>7, ReleaseShape, DeleteShape
  <2>2. UNCHANGED <<cand, review, master, stamp>>
    BY <1>7 DEF PruneRelease, PruneDelete, places
  <2> QED
    BY <1>0, <2>1, <2>2, HandsShrink, StampsStay DEF StampsAreOld
<1>8. ASSUME NEW p \in Normalizer, Quiet(p) \/ Write(p) \/ PruneRelease(p) \/ PruneDelete(p)
      PROVE  StampsAreOld' /\ \A q \in Normalizer : HeldIsOld(q)'
  <2>1. StampsAreOld' /\ HeldIsOld(p)'
    BY <1>5, <1>6, <1>7, <1>8
  <2>2. \A q \in Normalizer : q = p
    BY DEF OneAtATime
  <2> QED
    BY <2>1, <2>2
<1>9. CASE UNCHANGED vars
  <2>1. StampsAreOld' /\ \A p \in Normalizer : HeldIsOld(p)'
    BY <1>3, <1>9 DEF vars, places
  <2> QED
    BY <1>0, <2>1 DEF StampInv
<1> QED
  BY <1>0, <1>1, <1>2, <1>4, <1>8, <1>9, Steps DEF StampInv

LEMMA StampInit == Init => StampInv
<1> SUFFICES ASSUME Init PROVE StampInv
  OBVIOUS
<1>1. UndecidedHasNoVenue
  BY UndecidedTyped DEF Init, UndecidedHasNoVenue
<1>2. StampsAreOld
  BY DEF Init, StampsAreOld
<1>3. \A p \in Normalizer : HeldIsOld(p)
  BY IdleIs DEF Init, HeldIsOld, InHand
<1> QED
  BY ShapeInit, <1>1, <1>2, <1>3 DEF StampInv

(* The types, where one process normalizes at a time: no candidate is      *)
(* tried more often on the same inputs than it may be.                     *)
THEOREM TypeCorrect ==
  ASSUME OneAtATime
  PROVE  Spec => []TypeOK
<1>1. Init => StampInv
  BY StampInit
<1>2. StampInv /\ [Next]_vars => StampInv'
  BY StampStep
<1>3. StampInv => TypeOK
  BY DEF StampInv, Shape, Typed, StampsAreOld, TypeOK
<1> QED
  BY <1>1, <1>2, <1>3, PTL DEF Spec


-----------------------------------------------------------------------------
(* Rows of candidates with nothing to do.                                  *)

(* What a pass has read is no older than what it will stamp.               *)
ReadIsOld(p) ==
  pass[p].phase = "build" =>
    \A c \in InHand(pass[p]) :
      LET d == pass[p].digest[c]
          r == pass[p].row[c]
          v == pass[p].review[c]
      IN /\ d.rev <= r.rev
         /\ c \in Present => r.rev <= cand[c].rev /\ (r.rev = cand[c].rev => r = cand[c])
         /\ d.count <= v.count /\ v.count <= review[c].count
         /\ v.count = review[c].count => v = review[c]

FoundIsKnown(p) ==
  \A c \in Present : pass[p].cur = c /\ pass[p].digest[c].master = master =>
    \A u \in Text \cup {None} : pass[p].row[c].text = u => pass[p].found = Resolved(u)

(* The row of c is the one its inputs make.                                *)
Matches(c) ==
  /\ event[c].rev = cand[c].rev /\ event[c].text = cand[c].text
  /\ event[c].count = review[c].count /\ event[c].rejected = review[c].rejected
  /\ \A u \in Text \cup {None} : cand[c].text = u => event[c].venue = Resolved(u)

StampedMatches(c) ==
  c \in Present /\ stamp[c] # None /\ event[c] # None
  /\ stamp[c].digest = DigestOf(c) /\ stamp[c].outcome = "NORMALIZED" => Matches(c)

WrittenMatches(p) ==
  \A c \in Present :
    pass[p].cur = c /\ pass[p].written /\ event[c] # None /\ pass[p].digest[c] = DigestOf(c)
      => Matches(c)

(* A stamp of the revision there is now is of no earlier one than what the *)
(* pass holds of its candidate.                                            *)
StampIsOlder(p) ==
  \A c \in InHand(pass[p]) :
    stamp[c] # None /\ stamp[c].digest.master = master => pass[p].digest[c].master = master

PassIsCurrent(p) ==
  ReadIsOld(p) /\ FoundIsKnown(p) /\ WrittenMatches(p) /\ StampIsOlder(p)

CurrentInv ==
  /\ StampInv /\ Dated
  /\ \A p \in Normalizer : PassIsCurrent(p)
  /\ \A c \in Candidate : StampedMatches(c)

(* What the stamps and the passes hold of the master.                      *)
LEMMA HeldIs ==
  /\ \A c \in Candidate : stamp[c] # None => stamp[c].digest.master \in HeldRevisions
  /\ \A p \in Normalizer, c \in Candidate :
       pass[p].digest[c] # None => pass[p].digest[c].master \in HeldRevisions
  /\ \A m \in HeldRevisions :
       \/ \E c \in Candidate : stamp[c] # None /\ m = stamp[c].digest.master
       \/ \E p \in Normalizer, c \in Candidate :
            pass[p].digest[c] # None /\ m = pass[p].digest[c].master
BY DEF HeldRevisions

LEMMA HeldNext ==
  ASSUME NEW m \in HeldRevisions'
  PROVE  \/ \E c \in Candidate : stamp'[c] # None /\ m = stamp'[c].digest.master
         \/ \E p \in Normalizer, c \in Candidate :
              pass'[p].digest[c] # None /\ m = pass'[p].digest[c].master
BY DEF HeldRevisions

(* A step holds no revision but those held before and the one there is.    *)
LEMMA HoldsIf ==
  ASSUME NEW p \in Normalizer, \A q \in Normalizer : q # p => pass'[q] = pass[q],
         \A c \in Candidate : stamp'[c] # None =>
           \/ stamp'[c] = stamp[c]
           \/ pass[p].digest[c] # None /\ stamp'[c].digest = pass[p].digest[c],
         \A c \in Candidate : pass'[p].digest[c] # None =>
           pass'[p].digest[c] = pass[p].digest[c] \/ pass'[p].digest[c].master = master
  PROVE  HeldRevisions' \subseteq HeldRevisions \cup {master}
<1> SUFFICES ASSUME NEW m \in HeldRevisions' PROVE m \in HeldRevisions \cup {master}
  OBVIOUS
<1>1. ASSUME NEW c \in Candidate, stamp'[c] # None
      PROVE  stamp'[c].digest.master \in HeldRevisions
  BY <1>1, HeldIs
<1>2. ASSUME NEW q \in Normalizer, NEW c \in Candidate, pass'[q].digest[c] # None
      PROVE  pass'[q].digest[c].master \in HeldRevisions \cup {master}
  BY <1>2, HeldIs
<1> QED
  BY <1>1, <1>2, HeldNext

LEMMA DoneHolds ==
  ASSUME StampInv, NEW p \in Normalizer, NEW c \in InHand(pass[p]), NEW outcome \in Outcome,
         stamp' = Stamped(c, pass[p].digest[c], outcome), pass' = Done(p, c),
         pass[p].phase = "build", UNCHANGED <<cand, review, master>>
  PROVE  HeldRevisions' \subseteq HeldRevisions \cup {master}
<1>1. Shape
  BY DEF StampInv
<1>2. /\ c \in Candidate /\ stamp'[c].digest = pass[p].digest[c] /\ stamp'[c] # None
      /\ \A d \in Candidate \ {c} : stamp'[d] = stamp[d]
  BY StampedIs
<1>3. /\ OthersStay(p) /\ pass'[p].digest[c] = None
      /\ \A d \in Candidate \ {c} : pass'[p].digest[d] = pass[p].digest[d]
  BY <1>1, <1>2, DoneStep
<1>4. pass[p].digest[c] # None
  BY <1>1, PassIs DEF Orderly
<1> QED
  BY <1>2, <1>3, <1>4, HoldsIf DEF OthersStay

LEMMA PassHolds ==
  ASSUME StampInv, NEW p \in Normalizer,
         Quiet(p) \/ Write(p) \/ PruneRelease(p) \/ PruneDelete(p)
  PROVE  HeldRevisions' \subseteq HeldRevisions \cup {master}
<1>0. Shape
  BY DEF StampInv
<1>1. CASE Start(p)
  <2>1. PICK selected \in SUBSET StaleOnes :
          pass'[p].digest = [c \in Candidate |-> IF c \in selected THEN DigestOf(c) ELSE None]
    BY <1>0, <1>1, StartIs
  <2>2. \A c \in Candidate : pass'[p].digest[c] # None => pass'[p].digest[c].master = master
    BY <2>1 DEF DigestOf
  <2>3. OthersStay(p) /\ stamp' = stamp
    BY <1>0, <1>1, StartIs DEF Start
  <2> QED
    BY <2>2, <2>3, HoldsIf DEF OthersStay
<1>2. CASE ReadRows(p)
  <2>1. OthersStay(p) /\ stamp' = stamp /\ pass'[p].digest = pass[p].digest
    BY <1>0, <1>2, ReadRowsIs DEF ReadRows
  <2> QED
    BY <2>1, HoldsIf DEF OthersStay
<1>3. ASSUME NEW c \in Candidate, NoDate(p, c)
      PROVE  HeldRevisions' \subseteq HeldRevisions \cup {master}
  <2>1. /\ c \in InHand(pass[p]) /\ stamp' = Stamped(c, pass[p].digest[c], "NO_DATE")
        /\ pass' = Done(p, c) /\ pass[p].phase = "build" /\ "NO_DATE" \in Outcome
        /\ UNCHANGED <<cand, review, master>>
    BY <1>3 DEF NoDate, InHand, Outcome, places
  <2> QED
    BY <2>1, DoneHolds
<1>4. ASSUME NEW c \in Candidate, Fail(p, c)
      PROVE  HeldRevisions' \subseteq HeldRevisions \cup {master}
  <2>1. /\ c \in InHand(pass[p]) /\ stamp' = Stamped(c, pass[p].digest[c], "FAILED")
        /\ pass' = Done(p, c) /\ pass[p].phase = "build" /\ "FAILED" \in Outcome
        /\ UNCHANGED <<cand, review, master>>
    BY <1>4, Apart DEF Fail, InHand, Outcome, places
  <2> QED
    BY <2>1, DoneHolds
<1>5. CASE StampBuilt(p)
  <2> DEFINE c == pass[p].cur
  <2>1. pass[p].phase = "build" /\ c # None
    BY <1>0, <1>5, PassIs DEF StampBuilt, Orderly
  <2>2. /\ c \in InHand(pass[p]) /\ stamp' = Stamped(c, pass[p].digest[c], "NORMALIZED")
        /\ pass' = Done(p, c) /\ "NORMALIZED" \in Outcome /\ UNCHANGED <<cand, review, master>>
    BY <1>5, <2>1 DEF StampBuilt, InHand, Outcome, places
  <2> HIDE DEF c
  <2> QED
    BY <2>1, <2>2, DoneHolds
<1>6. ASSUME NEW c \in Candidate, Resolve(p, c)
      PROVE  HeldRevisions' \subseteq HeldRevisions \cup {master}
  <2>1. OthersStay(p) /\ stamp' = stamp /\ pass'[p].digest = pass[p].digest
    BY <1>0, <1>6, ResolveIs DEF Resolve
  <2> QED
    BY <2>1, HoldsIf DEF OthersStay
<1>7. CASE Write(p)
  <2>1. OthersStay(p) /\ stamp' = stamp /\ pass'[p].digest = pass[p].digest
    BY <1>0, <1>7, WriteIs DEF Write
  <2> QED
    BY <2>1, HoldsIf DEF OthersStay
<1>8. ASSUME NEW phase, pass' = [pass EXCEPT ![p].phase = phase], stamp' = stamp
      PROVE  HeldRevisions' \subseteq HeldRevisions \cup {master}
  <2>1. /\ pass'[p].digest = pass[p].digest
        /\ \A q \in Normalizer : q # p => pass'[q] = pass[q]
    BY <1>0, <1>8, PassIs DEF Shape, Typed, Pass
  <2> QED
    BY <1>8, <2>1, HoldsIf
<1>9. ASSUME NEW keep,
             pass' = [pass EXCEPT ![p] = Idle]
               \/ pass' = [pass EXCEPT ![p] = [Idle EXCEPT !.phase = "release", !.keep = keep]],
             \A c \in Candidate : stamp'[c] \in {stamp[c], None}
      PROVE  HeldRevisions' \subseteq HeldRevisions \cup {master}
  <2>1. /\ \A c \in Candidate : pass'[p].digest[c] = None
        /\ \A q \in Normalizer : q # p => pass'[q] = pass[q]
    <3>1. PICK s \in {Idle, [Idle EXCEPT !.phase = "release", !.keep = keep]} :
            pass' = [pass EXCEPT ![p] = s]
      BY <1>9
    <3>2. Idle.digest = [c \in Candidate |-> None]
      BY DEF Idle
    <3>3. s.digest = [c \in Candidate |-> None]
      <4>1. [Idle EXCEPT !.phase = "release", !.keep = keep].digest = Idle.digest
        BY DEF Idle
      <4> QED
        BY <3>1, <3>2, <4>1
    <3> QED
      BY <1>0, <3>1, <3>3 DEF Shape, Typed
  <2> QED
    BY <1>9, <2>1, HoldsIf
<1>10. CASE StartPrune(p)
  BY <1>9, <1>10 DEF StartPrune
<1>11. CASE PruneStamps(p) \/ Crash(p)
  BY <1>9, <1>11 DEF PruneStamps, Crash
<1>12. CASE PruneRelease(p) \/ PruneDelete(p)
  BY <1>8, <1>12 DEF PruneRelease, PruneDelete
<1> QED
  BY <1>1, <1>2, <1>3, <1>4, <1>5, <1>6, <1>7, <1>10, <1>11, <1>12 DEF Quiet

LEMMA DatedStep ==
  ASSUME StampInv, Shape', Dated, [Next]_vars
  PROVE  Dated'
<1>0. Typed /\ Typed' /\ Shape
  BY DEF StampInv, Shape
<1>1. clock \in Nat /\ clock' \in Nat
  BY <1>0, NormalizationAssumption DEF Typed
<1>2. ASSUME clock <= clock', since' \in [Venue \cup Text -> 0 .. clock'],
             master' = Revision(venues', alias', since'),
             HeldRevisions' \subseteq HeldRevisions \cup {master}
      PROVE  Dated'
  <2>1. master.newestVenue \in 0 .. clock /\ master.newestAlias \in 0 .. clock
    BY <1>0, MasterSums
  <2>2. \A m \in HeldRevisions' : m.newestVenue \in 0 .. clock /\ m.newestAlias \in 0 .. clock
    BY <1>2, <2>1 DEF Dated
  <2>3. 0 .. clock \subseteq 0 .. clock'
    BY <1>1, <1>2
  <2> QED
    BY <1>2, <2>2, <2>3 DEF Dated
<1>3. ASSUME UNCHANGED rows, HeldRevisions' \subseteq HeldRevisions \cup {master}
      PROVE  Dated'
  BY <1>1, <1>2, <1>3 DEF rows, Dated
<1>4. ASSUME UNCHANGED <<stamp, pass>>
      PROVE  HeldRevisions' \subseteq HeldRevisions \cup {master}
  BY <1>4 DEF HeldRevisions
<1>5. ASSUME NEW c \in Candidate, Extract(c) \/ ReExtract(c) \/ Retire(c) \/ Review(c)
      PROVE  Dated'
  BY <1>0, <1>3, <1>4, <1>5, PostsShape DEF places, rows
<1>6. CASE Places
  <2>1. UNCHANGED <<stamp, pass>>
    BY <1>0, <1>6, PlacesShape
  <2>2. CASE UNCHANGED rows
    BY <1>3, <1>4, <2>1, <2>2
  <2>3. ASSUME MasterMoves, NEW x \in Venue \cup Text, Dates(x)
        PROVE  Dated'
    <3>1. clock' = clock + 1 /\ \A y \in Venue \cup Text : since'[y] \in {clock', since[y]}
      BY <1>0, <2>3, DatesIs
    <3>2. since' \in [Venue \cup Text -> 0 .. clock']
      BY <1>0, <1>1, <3>1 DEF Typed, Dated
    <3> QED
      BY <1>1, <1>2, <1>4, <2>1, <2>3, <3>1, <3>2 DEF MasterMoves
  <2>4. ASSUME MasterMoves, NEW gone, Forgets(gone)
        PROVE  Dated'
    <3>1. clock' = clock /\ \A y \in Venue \cup Text : since'[y] \in {0, since[y]}
      BY <1>0, <2>4, ForgetsIs
    <3>2. since' \in [Venue \cup Text -> 0 .. clock']
      BY <1>0, <1>1, <3>1 DEF Typed, Dated
    <3> QED
      BY <1>1, <1>2, <1>4, <2>1, <2>4, <3>1, <3>2 DEF MasterMoves
  <2> QED
    BY <1>0, <1>6, <2>2, <2>3, <2>4, EditIs
<1>7. ASSUME NEW c \in Candidate, Unfold(c) \/ \E d \in Candidate : Fold(c, d)
      PROVE  Dated'
  BY <1>3, <1>4, <1>7 DEF Unfold, Fold, places, rows
<1>8. ASSUME NEW p \in Normalizer,
             Quiet(p) \/ Write(p) \/ PruneRelease(p) \/ PruneDelete(p)
      PROVE  Dated'
  <2>1. UNCHANGED rows
    BY <1>0, <1>8, QuietShape DEF Write, PruneRelease, PruneDelete, places, rows
  <2> QED
    BY <1>3, <1>8, <2>1, PassHolds
<1>9. CASE UNCHANGED vars
  BY <1>3, <1>4, <1>9 DEF vars, rows
<1> QED
  BY <1>5, <1>6, <1>7, <1>8, <1>9, Steps

LEMMA MatchesStay ==
  ASSUME Shape, Shape', InputsGrow, NEW c \in Present', cand[c] # None, NEW d \in Digest,
         d = DigestOf(c)', c \in Present => Within(d, DigestOf(c)),
         NoReturn, d.master \in HeldRevisions, event'[c] # None, master' = master => Kept(c),
         c \in Present /\ event[c] # None /\ d = DigestOf(c) => Matches(c)
  PROVE  Matches(c)'
<1>1. c \in Candidate /\ c \in Present
  BY DEF Present, InputsGrow
<1>2. cand'[c] = cand[c]
  <2>1. cand[c] \in Reading
    BY <1>1, DigestTyped DEF Shape
  <2>2. cand'[c] \in Reading
    BY <1>1 DEF Shape, Typed, Present
  <2> QED
    BY <1>1, <2>1, <2>2 DEF InputsGrow, Reading, Within, DigestOf
<1>3. review'[c] = review[c]
  BY <1>1 DEF Shape, Typed, InputsGrow, ReviewState, Within, DigestOf
<1>4. master' = master
  BY DEF NoReturn, DigestOf
<1>5. d = DigestOf(c)
  BY <1>2, <1>3, <1>4 DEF DigestOf
<1>6. Kept(c)
  BY <1>4
<1>7. event[c] # None /\ Matches(c)
  BY <1>1, <1>5, <1>6 DEF Kept
<1>8. cand[c].text \in Text \cup {None}
  BY <1>1, DigestTyped DEF Shape, Reading
<1> QED
  BY <1>2, <1>3, <1>6, <1>7, <1>8 DEF Kept, Matches

(* A row that was current stays so, whatever else happens.                 *)
LEMMA StampedStays ==
  ASSUME CurrentInv, Shape', InputsGrow, NoReturn, NEW c \in Candidate,
         master' = master => Kept(c),
         stamp'[c] \in {stamp[c], None}
  PROVE  StampedMatches(c)'
<1> SUFFICES ASSUME c \in Present', stamp'[c] # None, event'[c] # None,
                    stamp'[c].digest = DigestOf(c)', stamp'[c].outcome = "NORMALIZED"
             PROVE  Matches(c)'
  BY DEF StampedMatches
<1>1. Shape /\ StampsAreOld /\ StampedMatches(c) /\ stamp[c] # None /\ stamp'[c] = stamp[c]
  BY DEF CurrentInv, StampInv
<1>2. /\ stamp[c].digest \in Digest /\ cand[c] # None
      /\ c \in Present => Within(stamp[c].digest, DigestOf(c))
      /\ stamp[c].digest.master \in HeldRevisions
  BY <1>1, HeldIs DEF StampsAreOld, Stamp
<1>3. c \in Present /\ event[c] # None /\ stamp[c].digest = DigestOf(c) => Matches(c)
  BY <1>1 DEF StampedMatches
<1> DEFINE d == stamp[c].digest
<1> HIDE DEF d
<1>4. /\ d \in Digest /\ d = DigestOf(c)' /\ (c \in Present => Within(d, DigestOf(c)))
      /\ c \in Present /\ event[c] # None /\ d = DigestOf(c) => Matches(c)
      /\ d.master \in HeldRevisions
  BY <1>1, <1>2, <1>3 DEF d
<1> QED
  BY <1>1, <1>2, <1>4, MatchesStay

LEMMA WrittenStays ==
  ASSUME CurrentInv, Shape', InputsGrow, NoReturn, NEW p \in Normalizer, pass'[p] = pass[p],
         master' = master => \A c \in Candidate : Kept(c)
  PROVE  WrittenMatches(p)'
<1> SUFFICES ASSUME NEW c \in Present', pass[p].cur = c, pass[p].written, event'[c] # None,
                    pass[p].digest[c] = DigestOf(c)'
             PROVE  Matches(c)'
  BY DEF WrittenMatches
<1> DEFINE d == pass[p].digest[c]
<1>1. Shape /\ HeldIsOld(p) /\ WrittenMatches(p) /\ c \in Candidate /\ c # None
  BY Apart DEF CurrentInv, StampInv, Present, PassIsCurrent
<1>2. c \in InHand(pass[p])
  BY <1>1 DEF InHand
<1>3. /\ d \in Digest /\ cand[c] # None
      /\ c \in Present => Within(d, DigestOf(c))
      /\ d.master \in HeldRevisions
  <2>1. d \in Digest /\ d # None
    BY <1>1, <1>2, PassIs DEF Orderly
  <2> QED
    BY <1>1, <1>2, <2>1, HeldIs DEF HeldIsOld
<1>4. c \in Present /\ event[c] # None /\ d = DigestOf(c) => Matches(c)
  BY <1>1 DEF WrittenMatches
<1>5. d = DigestOf(c)'
  OBVIOUS
<1> HIDE DEF d
<1> QED
  BY <1>1, <1>3, <1>4, <1>5, MatchesStay

(* What a pass holds while others act, and when it lets go of some.        *)
LEMMA ReadStays ==
  ASSUME CurrentInv, Shape', InputsGrow, NEW p \in Normalizer,
         pass'[p].phase = "build" =>
           /\ pass[p].phase = "build" /\ InHand(pass'[p]) \subseteq InHand(pass[p])
           /\ \A c \in InHand(pass'[p]) : /\ pass'[p].digest[c] = pass[p].digest[c]
                                          /\ pass'[p].row[c] = pass[p].row[c]
                                          /\ pass'[p].review[c] = pass[p].review[c]
  PROVE  ReadIsOld(p)'
<1> SUFFICES ASSUME pass'[p].phase = "build", NEW c \in InHand(pass'[p])
             PROVE  LET d == pass'[p].digest[c]
                        r == pass'[p].row[c]
                        v == pass'[p].review[c]
                    IN /\ d.rev <= r.rev
                       /\ c \in Present' => r.rev <= cand'[c].rev /\ (r.rev = cand'[c].rev => r = cand'[c])
                       /\ d.count <= v.count /\ v.count <= review'[c].count
                       /\ v.count = review'[c].count => v = review'[c]
  BY DEF ReadIsOld, InHand
<1>1. Shape /\ HeldIsOld(p) /\ ReadIsOld(p) /\ c \in InHand(pass[p]) /\ pass[p].phase = "build"
  BY DEF CurrentInv, StampInv, PassIsCurrent
<1> DEFINE d == pass[p].digest[c]
           r == pass[p].row[c]
           v == pass[p].review[c]
<1>2. /\ d \in Digest /\ r \in Reading /\ v \in ReviewState /\ cand[c] # None /\ c \in Candidate
  BY <1>1, PassIs DEF Orderly, HeldIsOld, InHand
<1>3. /\ d.rev <= r.rev
      /\ c \in Present => r.rev <= cand[c].rev /\ (r.rev = cand[c].rev => r = cand[c])
      /\ d.count <= v.count /\ v.count <= review[c].count
      /\ v.count = review[c].count => v = review[c]
  BY <1>1 DEF ReadIsOld
<1>4. pass'[p].digest[c] = d /\ pass'[p].row[c] = r /\ pass'[p].review[c] = v
  OBVIOUS
<1> HIDE DEF d, r, v
<1>5. ASSUME c \in Present'
      PROVE  r.rev <= cand'[c].rev /\ (r.rev = cand'[c].rev => r = cand'[c])
  <2>1. c \in Present /\ (cand'[c] = cand[c] \/ cand[c].rev < cand'[c].rev)
    BY <1>2, <1>5 DEF InputsGrow
  <2>2. cand[c] \in Reading /\ cand'[c] \in Reading
    BY <1>1, <1>5, <2>1, DigestTyped DEF Shape, Typed, Present
  <2> QED
    BY <1>2, <1>3, <2>1, <2>2 DEF Reading
<1>6. v.count <= review'[c].count /\ (v.count = review'[c].count => v = review'[c])
  <2>1. review[c] \in ReviewState /\ review'[c] \in ReviewState
    BY <1>1, <1>2 DEF Shape, Typed
  <2> QED
    BY <1>2, <1>3, <2>1 DEF InputsGrow, ReviewState
<1> QED
  BY <1>3, <1>4, <1>5, <1>6

LEMMA FoundStays ==
  ASSUME CurrentInv, Shape', InputsGrow, NoReturn, NEW p \in Normalizer,
         pass'[p].cur # None =>
           /\ pass'[p].cur = pass[p].cur /\ pass'[p].found = pass[p].found
           /\ pass'[p].digest = pass[p].digest /\ pass'[p].row = pass[p].row
           /\ master' = master => NamesStay
  PROVE  FoundIsKnown(p)'
<1> SUFFICES ASSUME NEW c \in Present', pass'[p].cur = c, pass'[p].digest[c].master = master',
                    NEW u \in Text \cup {None}, pass'[p].row[c].text = u
             PROVE  pass'[p].found = Resolved(u)'
  BY DEF FoundIsKnown
<1>1. Shape /\ HeldIsOld(p) /\ FoundIsKnown(p) /\ c \in Candidate /\ c # None
  BY Apart DEF CurrentInv, StampInv, Present, PassIsCurrent
<1>2. c \in InHand(pass[p]) /\ pass[p].cur = c
  BY <1>1 DEF InHand
<1>3. cand[c] # None /\ c \in Present
  BY <1>1, <1>2 DEF HeldIsOld, InputsGrow
<1>4. pass[p].digest[c] # None
  BY <1>1, <1>2, PassIs DEF Orderly
<1>5. master' = master
  BY <1>1, <1>4, HeldIs DEF NoReturn
<1> QED
  BY <1>1, <1>2, <1>3, <1>5 DEF FoundIsKnown, NamesStay


LEMMA OlderStays ==
  ASSUME CurrentInv, NoReturn, NEW p \in Normalizer,
         InHand(pass'[p]) \subseteq InHand(pass[p]),
         \A c \in InHand(pass'[p]) :
           pass'[p].digest[c] = pass[p].digest[c] /\ stamp'[c] \in {stamp[c], None}
  PROVE  StampIsOlder(p)'
<1> SUFFICES ASSUME NEW c \in InHand(pass'[p]), stamp'[c] # None, stamp'[c].digest.master = master'
             PROVE  pass'[p].digest[c].master = master'
  BY DEF StampIsOlder, InHand
<1>1. Shape /\ StampIsOlder(p) /\ stamp'[c] = stamp[c] /\ c \in InHand(pass[p])
  BY DEF CurrentInv, StampInv, PassIsCurrent
<1>2. c \in Candidate
  BY <1>1, PassIs DEF InHand
<1>3. master' = master
  BY <1>1, <1>2, HeldIs DEF NoReturn
<1> QED
  BY <1>1, <1>3 DEF StampIsOlder

RowsAreCurrent ==
  /\ \A p \in Normalizer : PassIsCurrent(p)
  /\ \A c \in Candidate : StampedMatches(c)

LEMMA OutsideCurrent ==
  ASSUME CurrentInv, Shape', InputsGrow, NoReturn, UNCHANGED <<stamp, pass>>,
         master' = master => \A c \in Candidate : Kept(c),
         \A p \in Normalizer : pass[p].cur # None /\ master' = master => NamesStay
  PROVE  RowsAreCurrent'
<1>1. \A p \in Normalizer : ReadIsOld(p)'
  BY ReadStays
<1>2. \A p \in Normalizer : FoundIsKnown(p)'
  BY FoundStays
<1>3. \A p \in Normalizer : WrittenMatches(p)'
  BY WrittenStays
<1>4. \A c \in Candidate : StampedMatches(c)'
  BY StampedStays
<1>5. \A p \in Normalizer : StampIsOlder(p)'
  BY OlderStays
<1> QED
  BY <1>1, <1>2, <1>3, <1>4, <1>5 DEF RowsAreCurrent, PassIsCurrent

LEMMA OutsideStep ==
  ASSUME CurrentInv, Shape', {"venue", "return"} \cap Beside = {},
         \/ \E c \in Candidate : Extract(c) \/ ReExtract(c) \/ Retire(c) \/ Review(c)
         \/ Places
         \/ \E c \in Candidate : Unfold(c) \/ \E d \in Candidate : Fold(c, d)
  PROVE  RowsAreCurrent'
<1>0. Shape /\ Typed /\ Typed' /\ Dated /\ UndecidedHasNoVenue
  BY DEF CurrentInv, StampInv, Shape
<1>1. ASSUME NEW c \in Candidate, Extract(c) \/ ReExtract(c) \/ Retire(c) \/ Review(c)
      PROVE  RowsAreCurrent'
  <2>1. /\ InputsGrow /\ master' = master /\ UNCHANGED <<places, event, stamp, pass>>
        /\ NoReturn
    BY <1>0, <1>1, PostsGrow, PostsShape DEF NoReturn
  <2>2. NamesStay
    BY <2>1, NamesStayIf DEF places
  <2>3. \A b \in Candidate : Kept(b)
    BY <2>1, <2>2, KeptIf
  <2> QED
    BY <2>1, <2>2, <2>3, OutsideCurrent
<1>2. ASSUME Places
      PROVE  RowsAreCurrent'
  <2>1. InputsGrow /\ NoReturn /\ UNCHANGED <<stamp, pass>>
    BY <1>0, <1>2, PlacesGrow, PlacesShape, PlacesReturnNothing
  <2>2. master' = master => \A c \in Candidate : Kept(c)
    BY <1>0, <1>2, PlacesKept
  <2>3. \A p \in Normalizer : pass[p].cur # None /\ master' = master => NamesStay
    BY <1>0, <1>2, NamesStayInFlight
  <2> QED
    BY <2>1, <2>2, <2>3, OutsideCurrent
<1>3. ASSUME NEW c \in Candidate, Unfold(c) \/ \E d \in Candidate : Fold(c, d)
      PROVE  RowsAreCurrent'
  <2>1. (\A b \in Candidate : Kept(b)) /\ UNCHANGED <<cand, review, places, stamp, pass>>
    BY <1>0, <1>3, FoldsKept
  <2>2. NamesStay
    BY <2>1, NamesStayIf DEF places
  <2>3. InputsGrow /\ NoReturn
    BY <1>0, <2>1, InputsStay DEF places, NoReturn
  <2> QED
    BY <2>1, <2>2, <2>3, OutsideCurrent
<1> QED
  BY <1>1, <1>2, <1>3

LEMMA EmptyHand ==
  ASSUME NEW p \in Normalizer, InHand(pass'[p]) = {}
  PROVE  StampIsOlder(p)'
BY DEF StampIsOlder, InHand

LEMMA AtRest ==
  ASSUME NEW p \in Normalizer, pass'[p].phase # "build" \/ InHand(pass'[p]) = {},
         pass'[p].cur = None, ~pass'[p].written, Typed', StampIsOlder(p)'
  PROVE  PassIsCurrent(p)'
<1>1. ReadIsOld(p)'
  BY DEF ReadIsOld, InHand
<1>2. \A c \in Present' : c # None
  BY Apart DEF Present
<1>3. FoundIsKnown(p)' /\ WrittenMatches(p)'
  BY <1>2 DEF FoundIsKnown, WrittenMatches
<1> QED
  BY <1>1, <1>3 DEF PassIsCurrent

LEMMA ReadRowsCurrent ==
  ASSUME CurrentInv, NEW p \in Normalizer, ReadRows(p), Shape'
  PROVE  PassIsCurrent(p)'
<1>1. /\ Shape /\ HeldIsOld(p) /\ UNCHANGED <<cand, review, places, event, stamp>>
      /\ pass[p].phase = "selected" /\ NoReturn
  BY DEF CurrentInv, StampInv, ReadRows, NoReturn, places
<1>2. /\ pass'[p].todo = pass[p].todo \cap Present
      /\ pass'[p].cur = None /\ pass'[p].written = pass[p].written
      /\ pass'[p].digest = pass[p].digest
      /\ \A c \in pass'[p].todo : pass'[p].row[c] = cand[c] /\ pass'[p].review[c] = review[c]
  BY <1>1, ReadRowsIs
<1>3. InHand(pass'[p]) = pass[p].todo \cap Present
  BY <1>2 DEF InHand
<1>4. ASSUME NEW c \in pass[p].todo \cap Present
      PROVE  /\ pass[p].digest[c].rev <= cand[c].rev /\ pass[p].digest[c].count <= review[c].count
             /\ cand[c].rev <= cand[c].rev /\ review[c].count <= review[c].count
  <2>1. Within(pass[p].digest[c], DigestOf(c)) /\ DigestOf(c) \in Digest
    BY <1>1, DigestTyped DEF HeldIsOld, InHand, Shape
  <2> QED
    BY <2>1 DEF Within, DigestOf, Digest
<1>5. ReadIsOld(p)'
  BY <1>1, <1>2, <1>3, <1>4 DEF ReadIsOld, InHand
<1>6. ~pass'[p].written
  BY <1>1, <1>2, PassIs DEF Orderly
<1>7. \A c \in Present' : c # None
  BY Apart DEF Present
<1>8. FoundIsKnown(p)' /\ WrittenMatches(p)'
  BY <1>2, <1>6, <1>7 DEF FoundIsKnown, WrittenMatches
<1>9. StampIsOlder(p)'
  BY <1>1, <1>2, <1>3, OlderStays DEF InHand
<1> QED
  BY <1>5, <1>8, <1>9 DEF PassIsCurrent

LEMMA ResolveCurrent ==
  ASSUME CurrentInv, NEW p \in Normalizer, NEW c \in Candidate, Resolve(p, c), Shape'
  PROVE  PassIsCurrent(p)'
<1>1. /\ Shape /\ Typed /\ UndecidedHasNoVenue /\ UNCHANGED <<cand, review, master, event, stamp>>
      /\ pass[p].phase = "build" /\ NoReturn
  BY DEF CurrentInv, StampInv, Resolve, Shape, NoReturn, rows
<1>2. /\ pass'[p].cur = c /\ ~pass'[p].written
      /\ pass'[p].found = Resolved(pass[p].row[c].text) /\ InHand(pass'[p]) = InHand(pass[p])
      /\ pass'[p].digest = pass[p].digest /\ pass'[p].row = pass[p].row
      /\ pass'[p].review = pass[p].review
  BY <1>1, ResolveIs
<1>3. InputsGrow /\ NamesStay
  BY <1>1, InputsStay, ResolveNames
<1>4. ReadIsOld(p)'
  BY <1>1, <1>2, <1>3, ReadStays
<1>5. FoundIsKnown(p)'
  BY <1>2, <1>3 DEF FoundIsKnown, NamesStay
<1>6. WrittenMatches(p)'
  BY <1>2 DEF WrittenMatches
<1>7. StampIsOlder(p)'
  BY <1>1, <1>2, OlderStays
<1> QED
  BY <1>4, <1>5, <1>6, <1>7 DEF PassIsCurrent

(* A candidate that is stamped leaves the pass.                            *)
LEMMA DoneCurrent ==
  ASSUME CurrentInv, NEW p \in Normalizer, NEW c \in Candidate, pass' = Done(p, c),
         pass[p].phase = "build", UNCHANGED <<cand, review, master>>, Shape',
         \A d \in Candidate \ {c} : stamp'[d] = stamp[d]
  PROVE  PassIsCurrent(p)'
<1>1. Shape /\ Typed /\ InputsGrow /\ NoReturn
  BY InputsStay DEF CurrentInv, StampInv, Shape, NoReturn
<1>2. /\ InHand(pass'[p]) = pass[p].todo \ {c} /\ pass'[p].cur = None /\ ~pass'[p].written
      /\ \A d \in Candidate \ {c} :
              /\ pass'[p].digest[d] = pass[p].digest[d] /\ pass'[p].row[d] = pass[p].row[d]
              /\ pass'[p].review[d] = pass[p].review[d]
  BY <1>1, DoneStep
<1>3. pass[p].todo \subseteq Candidate /\ InHand(pass'[p]) \subseteq InHand(pass[p])
  BY <1>1, <1>2, PassIs DEF InHand
<1>4. ReadIsOld(p)'
  BY <1>1, <1>2, <1>3, ReadStays
<1>5. \A d \in Present' : d # None
  BY Apart DEF Present
<1>6. FoundIsKnown(p)' /\ WrittenMatches(p)'
  BY <1>2, <1>5 DEF FoundIsKnown, WrittenMatches
<1>7. StampIsOlder(p)'
  BY <1>1, <1>2, <1>3, OlderStays
<1> QED
  BY <1>4, <1>6, <1>7 DEF PassIsCurrent


LEMMA StampedCurrent ==
  ASSUME CurrentInv, NEW p \in Normalizer, NEW c \in InHand(pass[p]), NEW outcome \in Outcome,
         stamp' = Stamped(c, pass[p].digest[c], outcome), UNCHANGED <<cand, review, master, event>>,
         Shape', NamesStay,
         outcome = "NORMALIZED" => pass[p].written /\ c = pass[p].cur
  PROVE  \A d \in Candidate : StampedMatches(d)'
<1>1. /\ StampInv /\ Shape /\ Typed /\ InputsGrow /\ HeldIsOld(p) /\ WrittenMatches(p)
      /\ NoReturn /\ \A d \in Candidate : Kept(d)
  BY InputsStay, KeptIf DEF CurrentInv, StampInv, Shape, PassIsCurrent, NoReturn
<1>2. /\ c \in Candidate /\ stamp'[c].digest = pass[p].digest[c] /\ stamp'[c].outcome = outcome
      /\ \A d \in Candidate \ {c} : stamp'[d] = stamp[d]
  BY <1>1, StampedIs
<1>3. \A d \in Candidate \ {c} : StampedMatches(d)'
  BY <1>1, <1>2, StampedStays
<1>4. StampedMatches(c)'
  <2> SUFFICES ASSUME c \in Present', event'[c] # None, stamp'[c].digest = DigestOf(c)',
                      outcome = "NORMALIZED"
               PROVE  Matches(c)'
    BY <1>2 DEF StampedMatches
  <2> DEFINE d == pass[p].digest[c]
  <2>a. d \in Digest /\ d # None
    BY <1>1, <1>2, PassIs DEF Orderly
  <2>1. d = DigestOf(c)' /\ d \in Digest /\ d.master \in HeldRevisions
    BY <1>1, <1>2, <2>a, HeldIs
  <2>2. cand[c] # None /\ (c \in Present => Within(d, DigestOf(c)))
    BY <1>1 DEF HeldIsOld
  <2>3. c \in Present /\ event[c] # None /\ d = DigestOf(c) => Matches(c)
    BY <1>1 DEF WrittenMatches
  <2> HIDE DEF d
  <2> QED
    BY <1>1, <1>2, <2>1, <2>2, <2>3, MatchesStay
<1> QED
  BY <1>3, <1>4

LEMMA QuietCurrent ==
  ASSUME CurrentInv, NEW p \in Normalizer, Quiet(p), Shape'
  PROVE  PassIsCurrent(p)' /\ \A c \in Candidate : StampedMatches(c)'
<1>0. /\ StampInv /\ Shape /\ Typed /\ UndecidedHasNoVenue /\ Typed'
      /\ UNCHANGED <<cand, review, master, event>>
  BY QuietShape DEF CurrentInv, StampInv, Shape, rows
<1>1. InputsGrow /\ NoReturn /\ NamesStay /\ \A c \in Candidate : Kept(c)
  BY <1>0, InputsStay, QuietKept DEF NoReturn
<1>2. ASSUME \A c \in Candidate : stamp'[c] \in {stamp[c], None}
      PROVE  \A c \in Candidate : StampedMatches(c)'
  BY <1>1, <1>2, StampedStays
<1>3. CASE Start(p)
  <2>1. PICK selected \in SUBSET StaleOnes :
          /\ pass'[p].todo = selected /\ pass'[p].phase = "selected"
          /\ pass'[p].cur = None /\ ~pass'[p].written
          /\ pass'[p].digest = [c \in Candidate |-> IF c \in selected THEN DigestOf(c) ELSE None]
    BY <1>0, <1>3, StartIs
  <2>2. stamp' = stamp
    BY <1>3 DEF Start
  <2>3. InHand(pass'[p]) = selected /\ selected \subseteq Candidate
    BY <2>1 DEF InHand, StaleOnes, Present
  <2>4. \A c \in selected : pass'[p].digest[c].master = master
    BY <2>1, <2>3 DEF DigestOf
  <2>5. StampIsOlder(p)'
    BY <1>0, <2>3, <2>4 DEF StampIsOlder, InHand
  <2> QED
    BY <1>0, <1>2, <2>1, <2>2, <2>5, AtRest
<1>4. CASE ReadRows(p)
  <2>1. stamp' = stamp
    BY <1>4 DEF ReadRows
  <2> QED
    BY <1>2, <1>4, <2>1, ReadRowsCurrent
<1>5. ASSUME NEW c \in Candidate, Resolve(p, c)
      PROVE  PassIsCurrent(p)' /\ \A d \in Candidate : StampedMatches(d)'
  <2>1. stamp' = stamp
    BY <1>5 DEF Resolve
  <2> QED
    BY <1>2, <1>5, <2>1, ResolveCurrent
<1>6. ASSUME NEW c \in Candidate, NoDate(p, c)
      PROVE  PassIsCurrent(p)' /\ \A d \in Candidate : StampedMatches(d)'
  <2>1. /\ c \in InHand(pass[p]) /\ stamp' = Stamped(c, pass[p].digest[c], "NO_DATE")
        /\ pass' = Done(p, c) /\ pass[p].phase = "build" /\ "NO_DATE" \in Outcome
        /\ "NO_DATE" # "NORMALIZED"
    BY <1>6 DEF NoDate, InHand, Outcome
  <2>2. PassIsCurrent(p)'
    BY <1>0, <2>1, StampedIs, DoneCurrent
  <2>3. \A d \in Candidate : StampedMatches(d)'
    BY <1>0, <1>1, <2>1, StampedCurrent
  <2> QED
    BY <2>2, <2>3
<1>7. ASSUME NEW c \in Candidate, Fail(p, c)
      PROVE  PassIsCurrent(p)' /\ \A d \in Candidate : StampedMatches(d)'
  <2>1. /\ c \in InHand(pass[p]) /\ stamp' = Stamped(c, pass[p].digest[c], "FAILED")
        /\ pass' = Done(p, c) /\ pass[p].phase = "build" /\ "FAILED" \in Outcome
        /\ "FAILED" # "NORMALIZED"
    BY <1>7, Apart DEF Fail, InHand, Outcome
  <2>2. PassIsCurrent(p)'
    BY <1>0, <2>1, StampedIs, DoneCurrent
  <2>3. \A d \in Candidate : StampedMatches(d)'
    BY <1>0, <1>1, <2>1, StampedCurrent
  <2> QED
    BY <2>2, <2>3
<1>8. CASE StampBuilt(p)
  <2> DEFINE c == pass[p].cur
  <2>1. pass[p].phase = "build" /\ c # None /\ c \in Candidate
    BY <1>0, <1>8, PassIs DEF StampBuilt, Orderly
  <2>2. /\ c \in InHand(pass[p]) /\ stamp' = Stamped(c, pass[p].digest[c], "NORMALIZED")
        /\ pass' = Done(p, c) /\ "NORMALIZED" \in Outcome /\ pass[p].written
    BY <1>8, <2>1 DEF StampBuilt, InHand, Outcome
  <2>a. c = pass[p].cur
    OBVIOUS
  <2> HIDE DEF c
  <2>3. PassIsCurrent(p)'
    BY <1>0, <2>1, <2>2, StampedIs, DoneCurrent
  <2>4. \A d \in Candidate : StampedMatches(d)'
    BY <1>0, <1>1, <2>2, <2>a, StampedCurrent
  <2> QED
    BY <2>3, <2>4
<1>9. CASE StartPrune(p)
  <2>1. /\ pass'[p].phase # "build" /\ pass'[p].cur = None /\ ~pass'[p].written
        /\ InHand(pass'[p]) = {}
    BY <1>0, <1>9, StartPruneIs
  <2>2. stamp' = stamp
    BY <1>9 DEF StartPrune
  <2> QED
    BY <1>0, <1>2, <2>1, <2>2, EmptyHand, AtRest
<1>10. CASE PruneStamps(p) \/ Crash(p)
  <2>1. pass' = [pass EXCEPT ![p] = Idle]
    BY <1>10 DEF PruneStamps, Crash
  <2>2. pass'[p] = Idle /\ InHand(pass'[p]) = {}
    BY <1>0, <2>1, EndIs
  <2>3. \A c \in Candidate : stamp'[c] \in {stamp[c], None}
    BY <1>10 DEF PruneStamps, Crash
  <2>4. PassIsCurrent(p)'
    BY <1>0, <2>2, IdleIs, EmptyHand, AtRest
  <2> QED
    BY <1>2, <2>3, <2>4
<1> QED
  BY <1>3, <1>4, <1>5, <1>6, <1>7, <1>8, <1>9, <1>10 DEF Quiet

LEMMA WriteCurrent ==
  ASSUME CurrentInv, NEW p \in Normalizer, Write(p), Shape'
  PROVE  PassIsCurrent(p)' /\ \A c \in Candidate : StampedMatches(c)'
<1>0. /\ StampInv /\ Shape /\ Typed /\ StampsAreOld /\ HeldIsOld(p) /\ ReadIsOld(p)
      /\ FoundIsKnown(p) /\ StampIsOlder(p) /\ UNCHANGED <<cand, review, places, stamp>>
  BY DEF CurrentInv, StampInv, Shape, Write, PassIsCurrent
<1>1. InputsGrow /\ NoReturn /\ NamesStay
  BY <1>0, InputsStay, NamesStayIf DEF places, NoReturn
<1>2. PICK c \in Candidate : c = pass[p].cur
  BY <1>0, WriteIs
<1>3. PICK d \in Digest : d = pass[p].digest[c]
  BY <1>0, <1>2, PassIs, Apart DEF InHand, Orderly
<1>4. PICK r \in Reading : r = pass[p].row[c]
  BY <1>0, <1>2, WriteIs
<1>5. PICK v \in ReviewState : v = pass[p].review[c]
  BY <1>0, PassIs
<1>6. PICK f \in Venue \cup {None} : f = pass[p].found
  BY <1>0, PassIs
<1>7. /\ pass[p].phase = "build" /\ c \in InHand(pass[p])
      /\ \A x \in {"phase", "todo", "digest", "row", "review", "cur", "found", "keep"} :
              pass'[p][x] = pass[p][x]
      /\ InHand(pass'[p]) = InHand(pass[p])
  BY <1>0, <1>2, WriteIs, Apart DEF InHand
<1>8. /\ pass'[p].phase = pass[p].phase /\ pass'[p].digest = pass[p].digest
      /\ pass'[p].row = pass[p].row /\ pass'[p].review = pass[p].review
      /\ pass'[p].cur = pass[p].cur /\ pass'[p].found = pass[p].found
  BY <1>7
<1>9. ReadIsOld(p)'
  BY <1>1, <1>7, <1>8, ReadStays
<1>10. FoundIsKnown(p)'
  BY <1>1, <1>8, FoundStays
<1>11. event'[c] = Built(c, r, v, f) /\ \A b \in Candidate \ {c} : event'[b] = event[b]
  BY <1>0, <1>2, <1>4, <1>5, <1>6 DEF Write, Typed
<1>12. /\ event'[c].rev = r.rev /\ event'[c].count = v.count /\ event'[c].rejected = v.rejected
       /\ event'[c].text = r.text /\ event'[c].venue = f
  BY <1>0, <1>11, BuiltIs
<1>13. /\ d.rev <= r.rev
       /\ c \in Present => r.rev <= cand[c].rev /\ (r.rev = cand[c].rev => r = cand[c])
       /\ d.count <= v.count /\ v.count <= review[c].count
       /\ v.count = review[c].count => v = review[c]
  BY <1>0, <1>3, <1>4, <1>5, <1>7 DEF ReadIsOld
<1>14. ASSUME c \in Present, d = DigestOf(c)
       PROVE  Matches(c)'
  <2>1. cand[c] \in Reading /\ cand[c].text \in Text \cup {None} /\ review[c] \in ReviewState
    BY <1>0, <1>14, DigestTyped DEF Reading, Typed
  <2>2. d.rev = cand[c].rev /\ d.count = review[c].count /\ d.master = master
    BY <1>14 DEF DigestOf
  <2>3. r = cand[c]
    BY <1>4, <1>13, <1>14, <2>1, <2>2 DEF Reading
  <2>4. v = review[c]
    BY <1>5, <1>13, <2>1, <2>2 DEF ReviewState
  <2>5. \A u \in Text \cup {None} : cand[c].text = u => f = Resolved(u)
    BY <1>0, <1>2, <1>3, <1>4, <1>6, <1>14, <2>2, <2>3 DEF FoundIsKnown
  <2>6. cand'[c] = cand[c] /\ review'[c] = review[c]
    BY <1>0
  <2>7. \A u \in Text \cup {None} : cand[c].text = u => f = Resolved(u)'
    BY <1>1, <2>5 DEF NamesStay
  <2> QED
    BY <1>12, <2>3, <2>4, <2>6, <2>7 DEF Matches
<1>15. \A b \in Candidate \ {c} : StampedMatches(b)'
  <2>1. \A b \in Candidate \ {c} : Kept(b)
    BY <1>1, <1>11 DEF Kept, NamesStay
  <2> QED
    BY <1>0, <1>1, <2>1, StampedStays
<1>16. Present' = Present /\ \A b : DigestOf(b)' = DigestOf(b)
  BY <1>0 DEF Present, DigestOf, places
<1>17. StampedMatches(c)'
  <2> SUFFICES ASSUME c \in Present, stamp[c] # None, stamp[c].digest = DigestOf(c)
               PROVE  Matches(c)'
    BY <1>0, <1>16 DEF StampedMatches
  <2>1. /\ stamp[c].digest \in Digest /\ Within(stamp[c].digest, d) /\ Within(d, DigestOf(c))
    BY <1>0, <1>3, <1>7 DEF StampsAreOld, Stamp, HeldIsOld
  <2>2. d.master = master
    BY <1>0, <1>3, <1>7 DEF StampIsOlder, DigestOf
  <2>3. DigestOf(c) \in Digest
    BY <1>0, DigestTyped
  <2>4. d.rev = DigestOf(c).rev /\ d.count = DigestOf(c).count /\ d.master = DigestOf(c).master
    BY <2>1, <2>2, <2>3 DEF Within, Digest, DigestOf
  <2>5. d = DigestOf(c)
    BY <2>3, <2>4 DEF Digest
  <2> QED
    BY <1>14, <2>5
<1>18. WrittenMatches(p)'
  <2> SUFFICES ASSUME c \in Present, d = DigestOf(c)
               PROVE  Matches(c)'
    BY <1>2, <1>3, <1>8, <1>16 DEF WrittenMatches
  <2> QED
    BY <1>14
<1>19. StampIsOlder(p)'
  BY <1>0, <1>1, <1>7, <1>8, OlderStays
<1> QED
  BY <1>9, <1>10, <1>15, <1>17, <1>18, <1>19 DEF PassIsCurrent

LEMMA PruneCurrent ==
  ASSUME CurrentInv, NEW p \in Normalizer, PruneRelease(p) \/ PruneDelete(p), Shape'
  PROVE  PassIsCurrent(p)' /\ \A c \in Candidate : StampedMatches(c)'
<1>1. Shape /\ Typed /\ Typed'
  BY DEF CurrentInv, StampInv, Shape
<1>2. InHand(pass'[p]) = {} /\ ~pass'[p].written /\ pass'[p].cur = None
  BY <1>1, ReleaseShape, DeleteShape
<1>3. (\A c \in Candidate : Kept(c)) /\ UNCHANGED <<cand, review, places, stamp>>
  BY <1>1, PruneKept
<1>4. InputsGrow /\ NoReturn
  BY <1>1, <1>3, InputsStay DEF places, NoReturn
<1>5. \A c \in Candidate : StampedMatches(c)'
  BY <1>3, <1>4, StampedStays
<1> QED
  BY <1>1, <1>2, <1>5, EmptyHand, AtRest

LEMMA CurrentStep ==
  ASSUME CurrentInv, [Next]_vars, OneAtATime, {"venue", "return"} \cap Beside = {}
  PROVE  CurrentInv'
<1>0. StampInv /\ Shape /\ Typed /\ StampInv' /\ Shape'
  BY StampStep DEF CurrentInv, StampInv, Shape
<1>a. Dated'
  BY <1>0, DatedStep DEF CurrentInv
<1>1. ASSUME NEW p \in Normalizer, Quiet(p) \/ Write(p) \/ PruneRelease(p) \/ PruneDelete(p)
      PROVE  RowsAreCurrent'
  <2>1. PassIsCurrent(p)' /\ \A c \in Candidate : StampedMatches(c)'
    BY <1>0, <1>1, QuietCurrent, WriteCurrent, PruneCurrent
  <2>2. \A q \in Normalizer : q = p
    BY DEF OneAtATime
  <2> QED
    BY <2>1, <2>2 DEF RowsAreCurrent
<1>2. ASSUME UNCHANGED vars
      PROVE  RowsAreCurrent'
  <2>1. UNCHANGED <<cand, review, places, event, stamp, pass>>
    BY <1>2 DEF vars, places
  <2>2. NamesStay
    BY <2>1, NamesStayIf DEF places
  <2>3. InputsGrow /\ NoReturn
    BY <1>0, <2>1, InputsStay DEF places, NoReturn
  <2>4. \A c \in Candidate : Kept(c)
    BY <2>1, <2>2, KeptIf
  <2> QED
    BY <1>0, <2>1, <2>2, <2>3, <2>4, OutsideCurrent
<1>3. RowsAreCurrent'
  BY <1>0, <1>1, <1>2, OutsideStep, Steps
<1> QED
  BY <1>0, <1>a, <1>3 DEF CurrentInv, RowsAreCurrent

LEMMA CurrentInit == Init => CurrentInv
<1> SUFFICES ASSUME Init PROVE CurrentInv
  OBVIOUS
<1>1. \A p \in Normalizer : pass[p].phase = "idle" /\ pass[p].cur = None /\ ~pass[p].written
  BY DEF Init, Idle
<1>2. \A c \in Present : c # None
  BY Apart DEF Present
<1>a. \A p \in Normalizer : InHand(pass[p]) = {}
  BY DEF Init, Idle, InHand
<1>3. \A p \in Normalizer : PassIsCurrent(p)
  BY <1>1, <1>2, <1>a DEF PassIsCurrent, ReadIsOld, FoundIsKnown, WrittenMatches, StampIsOlder
<1>b. Dated
  <2>1. since \in [Venue \cup Text -> 0 .. clock] /\ master = Revision(venues, alias, since)
    BY DEF Init
  <2>2. HeldRevisions = {}
    BY DEF Init, HeldRevisions, Idle
  <2> QED
    BY <2>1, <2>2 DEF Dated
<1>4. \A c \in Candidate : StampedMatches(c)
  BY DEF Init, StampedMatches
<1> QED
  BY StampInit, <1>3, <1>b, <1>4 DEF CurrentInv

(* Where one process normalizes at a time, no venue is decided while it is *)
(* between the look at a candidate's venue and the write of its row, and   *)
(* no deletion brings a revision of the Venue Master back that a stamp or  *)
(* a pass still holds, a candidate needs_normalization() sees nothing to   *)
(* do for has the row its reading, its review and the venues make now.     *)
THEOREM RowCurrent ==
  ASSUME OneAtATime, {"venue", "return"} \cap Beside = {}
  PROVE  Spec => []RowIsCurrent
<1>1. Init => CurrentInv
  BY CurrentInit
<1>2. CurrentInv /\ [Next]_vars => CurrentInv'
  BY CurrentStep
<1>3. CurrentInv => RowIsCurrent
  <2> SUFFICES ASSUME CurrentInv, NEW c \in Present,
                      ~Stale(c), stamp[c].outcome = "NORMALIZED"
               PROVE  /\ event[c].rev = cand[c].rev /\ event[c].text = cand[c].text
                      /\ event[c].count = review[c].count
                      /\ event[c].rejected = review[c].rejected
                      /\ event[c].venue = Resolved(cand[c].text)
    BY DEF RowIsCurrent
  <2>1. Typed /\ c \in Candidate /\ StampedMatches(c)
    BY DEF CurrentInv, StampInv, Shape, Present
  <2>2. stamp[c] # None /\ stamp[c].digest = DigestOf(c) /\ event[c] # None
    BY DEF Stale
  <2>3. Matches(c)
    BY <2>1, <2>2 DEF StampedMatches
  <2>4. cand[c].text \in Text \cup {None}
    BY <2>1, DigestTyped DEF Reading
  <2> QED
    BY <2>3, <2>4 DEF Matches
<1> QED
  BY <1>1, <1>2, <1>3, PTL DEF Spec

=============================================================================
